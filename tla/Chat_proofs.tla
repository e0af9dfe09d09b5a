---------------------------- MODULE Chat_proofs ----------------------------
(***************************************************************************)
(* Proofs about the chat service: its hub, for every number of channels,   *)
(* clients, feeds, grace goroutines and joins; the queue of one client,    *)
(* for any feeds, any size of the queue and any number of frames; and the  *)
(* words of a message, for any runes, names, tags and length of a text.    *)
(***************************************************************************)
EXTENDS ChatHub, ChatParts, FiniteSetTheorems, SequenceTheorems, TLAPS

-----------------------------------------------------------------------------
(* The hub.                                                                *)

\* What a read loop's program counter says of its frame.
Shapes ==
  \A c \in Clients :
    /\ pc[c] \in {"join", "listen", "wire", "tell"} => arg[c] \in Channels
    /\ hold[c] # None <=> pc[c] = "wire"

\* No feed is kept for two channels, or held by two clients, or both.
Distinct ==
  /\ \A b, c \in Clients : hold[b] = hold[c] /\ hold[b] # None => b = c
  /\ \A x, y \in Channels : unsubs[x] = unsubs[y] /\ unsubs[x] # None => x = y
  /\ \A c \in Clients, x \in Channels : hold[c] = unsubs[x] => hold[c] = None

TearingDown(ch) == parting[ch] # 0 \/ clearing[ch] # 0

Subscribing(ch, pcs) == \E c \in Clients : arg[c] = ch /\ pc[c] \in pcs

\* A channel with subscribers that nobody tears down is joined, or about to be, ...
Joined ==
  \A ch \in Channels :
    members[ch] # {} /\ ~TearingDown(ch) /\ ~Subscribing(ch, {"join"}) => joins[ch] # 0

\* ... and has a feed, or is about to.
Fed ==
  \A ch \in Channels :
    members[ch] # {} /\ ~TearingDown(ch) /\ ~Subscribing(ch, {"join", "listen", "wire"})
      => unsubs[ch] # None

IInv == TypeOK /\ Shapes /\ Distinct /\ NoFeedLeaks /\ Joined /\ Fed

-----------------------------------------------------------------------------

LEMMA InvInit == Init => IInv
  BY ChatHubAssumption
     DEF Init, IInv, TypeOK, Counts, Shapes, Distinct, NoFeedLeaks, Joined, Fed

LEMMA TypeStep == TypeOK /\ Shapes /\ [Next]_vars => TypeOK'
<1> SUFFICES ASSUME TypeOK, Shapes, [Next]_vars PROVE TypeOK'
  OBVIOUS
<1> USE ChatHubAssumption
<1>1. ASSUME NEW c \in Clients, Connect(c) PROVE TypeOK'
  BY <1>1 DEF Connect, Goto, TypeOK, Counts, Shapes, clientVars, hubVars, worldVars,
       graceVars
<1>2. ASSUME NEW c \in Clients, NEW ch \in Channels, Subscribe(c, ch) PROVE TypeOK'
  BY <1>2 DEF Subscribe, Goto, TypeOK, Counts, Shapes, clientVars, hubVars, worldVars,
       graceVars
<1>3. ASSUME NEW c \in Clients, JoinUpstream(c) PROVE TypeOK'
  BY <1>3 DEF JoinUpstream, Goto, TypeOK, Counts, Shapes, clientVars, hubVars, worldVars,
       graceVars
<1>4. ASSUME NEW c \in Clients, Listen(c) PROVE TypeOK'
  BY <1>4 DEF Listen, Goto, TypeOK, Counts, Shapes, clientVars, hubVars, worldVars,
       graceVars
<1>5. ASSUME NEW c \in Clients, Wire(c) PROVE TypeOK'
  BY <1>5 DEF Wire, Goto, TypeOK, Counts, Shapes, clientVars, hubVars, worldVars,
       graceVars
<1>6. ASSUME NEW c \in Clients, Tell(c) PROVE TypeOK'
  BY <1>6 DEF Tell, Goto, TypeOK, Counts, Shapes, clientVars, hubVars, worldVars,
       graceVars
<1>7. ASSUME NEW c \in Clients, NEW ch \in Channels, Unsubscribe(c, ch) PROVE TypeOK'
  BY <1>7 DEF Unsubscribe, Drop, TypeOK, Counts, Shapes, clientVars, hubVars, worldVars,
       graceVars
<1>8. ASSUME NEW c \in Clients, Leave(c) PROVE TypeOK'
  BY <1>8 DEF Leave, Goto, TypeOK, Counts, Shapes, clientVars, hubVars, worldVars,
       graceVars
<1>9. ASSUME NEW c \in Clients, Remove(c) PROVE TypeOK'
  BY <1>9 DEF Remove, Drop, Goto, TypeOK, Counts, Shapes, clientVars, hubVars, worldVars,
       graceVars
<1>10. ASSUME NEW ch \in Channels, GraceSkip(ch) PROVE TypeOK'
  BY <1>10 DEF GraceSkip, Fewer, TypeOK, Counts, Shapes, clientVars, hubVars, worldVars,
       graceVars
<1>11. ASSUME NEW ch \in Channels, GraceCheck(ch) PROVE TypeOK'
  BY <1>11 DEF GraceCheck, Fewer, More, TypeOK, Counts, Shapes, clientVars, hubVars,
       worldVars, graceVars
<1>12. ASSUME NEW ch \in Channels, GracePart(ch) PROVE TypeOK'
  BY <1>12 DEF GracePart, Fewer, More, TypeOK, Counts, Shapes, clientVars, hubVars,
       worldVars, graceVars
<1>13. ASSUME NEW ch \in Channels, GraceClear(ch) PROVE TypeOK'
  BY <1>13 DEF GraceClear, Fewer, TypeOK, Counts, Shapes, clientVars, hubVars, worldVars,
       graceVars
<1>14. CASE UNCHANGED vars
  BY <1>14 DEF TypeOK, Counts, Shapes, clientVars, hubVars, worldVars, graceVars, vars
<1>15. QED
  BY <1>1, <1>2, <1>3, <1>4, <1>5, <1>6, <1>7, <1>8, <1>9, <1>10, <1>11, <1>12, <1>13,
       <1>14
     DEF Next, Frames, ReadLoop, Grace

LEMMA ShapesStep == TypeOK /\ Shapes /\ [Next]_vars => Shapes'
<1> SUFFICES ASSUME TypeOK, Shapes, [Next]_vars PROVE Shapes'
  OBVIOUS
<1> USE ChatHubAssumption
<1>1. ASSUME NEW c \in Clients, Connect(c) PROVE Shapes'
  BY <1>1 DEF Connect, Goto, TypeOK, Shapes, clientVars, hubVars, worldVars, graceVars
<1>2. ASSUME NEW c \in Clients, NEW ch \in Channels, Subscribe(c, ch) PROVE Shapes'
  BY <1>2 DEF Subscribe, Goto, TypeOK, Shapes, clientVars, hubVars, worldVars, graceVars
<1>3. ASSUME NEW c \in Clients, JoinUpstream(c) PROVE Shapes'
  BY <1>3 DEF JoinUpstream, Goto, TypeOK, Shapes, clientVars, hubVars, worldVars,
       graceVars
<1>4. ASSUME NEW c \in Clients, Listen(c) PROVE Shapes'
  BY <1>4 DEF Listen, Goto, TypeOK, Shapes, clientVars, hubVars, worldVars, graceVars
<1>5. ASSUME NEW c \in Clients, Wire(c) PROVE Shapes'
  BY <1>5 DEF Wire, Goto, TypeOK, Shapes, clientVars, hubVars, worldVars, graceVars
<1>6. ASSUME NEW c \in Clients, Tell(c) PROVE Shapes'
  BY <1>6 DEF Tell, Goto, TypeOK, Shapes, clientVars, hubVars, worldVars, graceVars
<1>7. ASSUME NEW c \in Clients, NEW ch \in Channels, Unsubscribe(c, ch) PROVE Shapes'
  BY <1>7 DEF Unsubscribe, Drop, TypeOK, Shapes, clientVars, hubVars, worldVars, graceVars
<1>8. ASSUME NEW c \in Clients, Leave(c) PROVE Shapes'
  BY <1>8 DEF Leave, Goto, TypeOK, Shapes, clientVars, hubVars, worldVars, graceVars
<1>9. ASSUME NEW c \in Clients, Remove(c) PROVE Shapes'
  BY <1>9 DEF Remove, Drop, Goto, TypeOK, Shapes, clientVars, hubVars, worldVars,
       graceVars
<1>10. ASSUME NEW ch \in Channels, GraceSkip(ch) PROVE Shapes'
  BY <1>10 DEF GraceSkip, Fewer, TypeOK, Shapes, clientVars, hubVars, worldVars, graceVars
<1>11. ASSUME NEW ch \in Channels, GraceCheck(ch) PROVE Shapes'
  BY <1>11 DEF GraceCheck, Fewer, More, TypeOK, Shapes, clientVars, hubVars, worldVars,
       graceVars
<1>12. ASSUME NEW ch \in Channels, GracePart(ch) PROVE Shapes'
  BY <1>12 DEF GracePart, Fewer, More, TypeOK, Shapes, clientVars, hubVars, worldVars,
       graceVars
<1>13. ASSUME NEW ch \in Channels, GraceClear(ch) PROVE Shapes'
  BY <1>13 DEF GraceClear, Fewer, TypeOK, Shapes, clientVars, hubVars, worldVars,
       graceVars
<1>14. CASE UNCHANGED vars
  BY <1>14 DEF TypeOK, Shapes, clientVars, hubVars, worldVars, graceVars, vars
<1>15. QED
  BY <1>1, <1>2, <1>3, <1>4, <1>5, <1>6, <1>7, <1>8, <1>9, <1>10, <1>11, <1>12, <1>13,
       <1>14
     DEF Next, Frames, ReadLoop, Grace

\* Every variable has its type.
THEOREM TypeCorrect == Spec => []TypeOK
<1>1. Init => TypeOK /\ Shapes
  BY InvInit DEF IInv
<1>2. TypeOK /\ Shapes /\ [Next]_vars => (TypeOK /\ Shapes)'
  BY TypeStep, ShapesStep
<1>3. QED
  BY <1>1, <1>2, PTL DEF Spec

-----------------------------------------------------------------------------
(* Feeds.                                                                  *)

LEMMA DistinctStep == TypeOK /\ Shapes /\ Distinct /\ NoFeedLeaks /\ [Next]_vars => Distinct'
<1> SUFFICES ASSUME TypeOK, Shapes, Distinct, NoFeedLeaks, [Next]_vars PROVE Distinct'
  OBVIOUS
<1> USE ChatHubAssumption
<1>1. ASSUME NEW c \in Clients, Connect(c) PROVE Distinct'
  BY <1>1 DEF Connect, Goto, TypeOK, Shapes, Distinct, NoFeedLeaks, clientVars, hubVars,
       worldVars, graceVars
<1>2. ASSUME NEW c \in Clients, NEW ch \in Channels, Subscribe(c, ch) PROVE Distinct'
  BY <1>2 DEF Subscribe, Goto, TypeOK, Shapes, Distinct, NoFeedLeaks, clientVars,
       hubVars, worldVars, graceVars
<1>3. ASSUME NEW c \in Clients, JoinUpstream(c) PROVE Distinct'
  BY <1>3 DEF JoinUpstream, Goto, TypeOK, Shapes, Distinct, NoFeedLeaks, clientVars,
       hubVars, worldVars, graceVars
<1>4. ASSUME NEW c \in Clients, Listen(c) PROVE Distinct'
  BY <1>4 DEF Listen, Goto, TypeOK, Shapes, Distinct, NoFeedLeaks, clientVars, hubVars,
       worldVars, graceVars
<1>5. ASSUME NEW c \in Clients, Wire(c) PROVE Distinct'
  BY <1>5 DEF Wire, Goto, TypeOK, Shapes, Distinct, NoFeedLeaks, clientVars, hubVars,
       worldVars, graceVars
<1>6. ASSUME NEW c \in Clients, Tell(c) PROVE Distinct'
  BY <1>6 DEF Tell, Goto, TypeOK, Shapes, Distinct, NoFeedLeaks, clientVars, hubVars,
       worldVars, graceVars
<1>7. ASSUME NEW c \in Clients, NEW ch \in Channels, Unsubscribe(c, ch) PROVE Distinct'
  BY <1>7 DEF Unsubscribe, Drop, TypeOK, Shapes, Distinct, NoFeedLeaks, clientVars,
       hubVars, worldVars, graceVars
<1>8. ASSUME NEW c \in Clients, Leave(c) PROVE Distinct'
  BY <1>8 DEF Leave, Goto, TypeOK, Shapes, Distinct, NoFeedLeaks, clientVars, hubVars,
       worldVars, graceVars
<1>9. ASSUME NEW c \in Clients, Remove(c) PROVE Distinct'
  BY <1>9 DEF Remove, Drop, Goto, TypeOK, Shapes, Distinct, NoFeedLeaks, clientVars,
       hubVars, worldVars, graceVars
<1>10. ASSUME NEW ch \in Channels, GraceSkip(ch) PROVE Distinct'
  BY <1>10 DEF GraceSkip, Fewer, TypeOK, Shapes, Distinct, NoFeedLeaks, clientVars,
       hubVars, worldVars, graceVars
<1>11. ASSUME NEW ch \in Channels, GraceCheck(ch) PROVE Distinct'
  BY <1>11 DEF GraceCheck, Fewer, More, TypeOK, Shapes, Distinct, NoFeedLeaks,
       clientVars, hubVars, worldVars, graceVars
<1>12. ASSUME NEW ch \in Channels, GracePart(ch) PROVE Distinct'
  BY <1>12 DEF GracePart, Fewer, More, TypeOK, Shapes, Distinct, NoFeedLeaks, clientVars,
       hubVars, worldVars, graceVars
<1>13. ASSUME NEW ch \in Channels, GraceClear(ch) PROVE Distinct'
  BY <1>13 DEF GraceClear, Fewer, TypeOK, Shapes, Distinct, NoFeedLeaks, clientVars,
       hubVars, worldVars, graceVars
<1>14. CASE UNCHANGED vars
  BY <1>14 DEF TypeOK, Shapes, Distinct, NoFeedLeaks, clientVars, hubVars, worldVars,
       graceVars, vars
<1>15. QED
  BY <1>1, <1>2, <1>3, <1>4, <1>5, <1>6, <1>7, <1>8, <1>9, <1>10, <1>11, <1>12, <1>13,
       <1>14
     DEF Next, Frames, ReadLoop, Grace

LEMMA FeedsStep == TypeOK /\ Shapes /\ Distinct /\ NoFeedLeaks /\ [Next]_vars => NoFeedLeaks'
<1> SUFFICES ASSUME TypeOK, Shapes, Distinct, NoFeedLeaks, [Next]_vars PROVE NoFeedLeaks'
  OBVIOUS
<1> USE ChatHubAssumption
<1>1. ASSUME NEW c \in Clients, Connect(c) PROVE NoFeedLeaks'
  BY <1>1 DEF Connect, Goto, TypeOK, Shapes, Distinct, NoFeedLeaks, clientVars, hubVars,
       worldVars, graceVars
<1>2. ASSUME NEW c \in Clients, NEW ch \in Channels, Subscribe(c, ch) PROVE NoFeedLeaks'
  BY <1>2 DEF Subscribe, Goto, TypeOK, Shapes, Distinct, NoFeedLeaks, clientVars,
       hubVars, worldVars, graceVars
<1>3. ASSUME NEW c \in Clients, JoinUpstream(c) PROVE NoFeedLeaks'
  BY <1>3 DEF JoinUpstream, Goto, TypeOK, Shapes, Distinct, NoFeedLeaks, clientVars,
       hubVars, worldVars, graceVars
<1>4. ASSUME NEW c \in Clients, Listen(c) PROVE NoFeedLeaks'
  BY <1>4 DEF Listen, Goto, TypeOK, Shapes, Distinct, NoFeedLeaks, clientVars, hubVars,
       worldVars, graceVars
<1>5. ASSUME NEW c \in Clients, Wire(c) PROVE NoFeedLeaks'
  BY <1>5 DEF Wire, Goto, TypeOK, Shapes, Distinct, NoFeedLeaks, clientVars, hubVars,
       worldVars, graceVars
<1>6. ASSUME NEW c \in Clients, Tell(c) PROVE NoFeedLeaks'
  BY <1>6 DEF Tell, Goto, TypeOK, Shapes, Distinct, NoFeedLeaks, clientVars, hubVars,
       worldVars, graceVars
<1>7. ASSUME NEW c \in Clients, NEW ch \in Channels, Unsubscribe(c, ch) PROVE NoFeedLeaks'
  BY <1>7 DEF Unsubscribe, Drop, TypeOK, Shapes, Distinct, NoFeedLeaks, clientVars,
       hubVars, worldVars, graceVars
<1>8. ASSUME NEW c \in Clients, Leave(c) PROVE NoFeedLeaks'
  BY <1>8 DEF Leave, Goto, TypeOK, Shapes, Distinct, NoFeedLeaks, clientVars, hubVars,
       worldVars, graceVars
<1>9. ASSUME NEW c \in Clients, Remove(c) PROVE NoFeedLeaks'
  BY <1>9 DEF Remove, Drop, Goto, TypeOK, Shapes, Distinct, NoFeedLeaks, clientVars,
       hubVars, worldVars, graceVars
<1>10. ASSUME NEW ch \in Channels, GraceSkip(ch) PROVE NoFeedLeaks'
  BY <1>10 DEF GraceSkip, Fewer, TypeOK, Shapes, Distinct, NoFeedLeaks, clientVars,
       hubVars, worldVars, graceVars
<1>11. ASSUME NEW ch \in Channels, GraceCheck(ch) PROVE NoFeedLeaks'
  BY <1>11 DEF GraceCheck, Fewer, More, TypeOK, Shapes, Distinct, NoFeedLeaks,
       clientVars, hubVars, worldVars, graceVars
<1>12. ASSUME NEW ch \in Channels, GracePart(ch) PROVE NoFeedLeaks'
  BY <1>12 DEF GracePart, Fewer, More, TypeOK, Shapes, Distinct, NoFeedLeaks, clientVars,
       hubVars, worldVars, graceVars
<1>13. ASSUME NEW ch \in Channels, GraceClear(ch) PROVE NoFeedLeaks'
  BY <1>13 DEF GraceClear, Fewer, TypeOK, Shapes, Distinct, NoFeedLeaks, clientVars,
       hubVars, worldVars, graceVars
<1>14. CASE UNCHANGED vars
  BY <1>14 DEF TypeOK, Shapes, Distinct, NoFeedLeaks, clientVars, hubVars, worldVars,
       graceVars, vars
<1>15. QED
  BY <1>1, <1>2, <1>3, <1>4, <1>5, <1>6, <1>7, <1>8, <1>9, <1>10, <1>11, <1>12, <1>13,
       <1>14
     DEF Next, Frames, ReadLoop, Grace

-----------------------------------------------------------------------------
(* Subscribers.                                                            *)

LEMMA JoinedStep == TypeOK /\ Shapes /\ Joined /\ [Next]_vars => Joined'
<1> SUFFICES ASSUME TypeOK, Shapes, Joined, [Next]_vars PROVE Joined'
  OBVIOUS
<1> USE ChatHubAssumption
<1>1. ASSUME NEW c \in Clients, Connect(c) PROVE Joined'
  BY <1>1 DEF Connect, Goto, TypeOK, Counts, Shapes, Joined, TearingDown, Subscribing,
       clientVars, hubVars, worldVars, graceVars
<1>2. ASSUME NEW c \in Clients, NEW ch \in Channels, Subscribe(c, ch) PROVE Joined'
  BY <1>2 DEF Subscribe, Goto, TypeOK, Counts, Shapes, Joined, TearingDown, Subscribing,
       clientVars, hubVars, worldVars, graceVars
<1>3. ASSUME NEW c \in Clients, JoinUpstream(c) PROVE Joined'
  BY <1>3 DEF JoinUpstream, Goto, TypeOK, Counts, Shapes, Joined, TearingDown,
       Subscribing, clientVars, hubVars, worldVars, graceVars
<1>4. ASSUME NEW c \in Clients, Listen(c) PROVE Joined'
  BY <1>4 DEF Listen, Goto, TypeOK, Counts, Shapes, Joined, TearingDown, Subscribing,
       clientVars, hubVars, worldVars, graceVars
<1>5. ASSUME NEW c \in Clients, Wire(c) PROVE Joined'
  BY <1>5 DEF Wire, Goto, TypeOK, Counts, Shapes, Joined, TearingDown, Subscribing,
       clientVars, hubVars, worldVars, graceVars
<1>6. ASSUME NEW c \in Clients, Tell(c) PROVE Joined'
  BY <1>6 DEF Tell, Goto, TypeOK, Counts, Shapes, Joined, TearingDown, Subscribing,
       clientVars, hubVars, worldVars, graceVars
<1>7. ASSUME NEW c \in Clients, NEW ch \in Channels, Unsubscribe(c, ch) PROVE Joined'
  BY <1>7 DEF Unsubscribe, Drop, TypeOK, Counts, Shapes, Joined, TearingDown,
       Subscribing, clientVars, hubVars, worldVars, graceVars
<1>8. ASSUME NEW c \in Clients, Leave(c) PROVE Joined'
  BY <1>8 DEF Leave, Goto, TypeOK, Counts, Shapes, Joined, TearingDown, Subscribing,
       clientVars, hubVars, worldVars, graceVars
<1>9. ASSUME NEW c \in Clients, Remove(c) PROVE Joined'
  BY <1>9 DEF Remove, Drop, Goto, TypeOK, Counts, Shapes, Joined, TearingDown,
       Subscribing, clientVars, hubVars, worldVars, graceVars
<1>10. ASSUME NEW ch \in Channels, GraceSkip(ch) PROVE Joined'
  BY <1>10 DEF GraceSkip, Fewer, TypeOK, Counts, Shapes, Joined, TearingDown,
       Subscribing, clientVars, hubVars, worldVars, graceVars
<1>11. ASSUME NEW ch \in Channels, GraceCheck(ch) PROVE Joined'
  BY <1>11 DEF GraceCheck, Fewer, More, TypeOK, Counts, Shapes, Joined, TearingDown,
       Subscribing, clientVars, hubVars, worldVars, graceVars
<1>12. ASSUME NEW ch \in Channels, GracePart(ch) PROVE Joined'
  BY <1>12 DEF GracePart, Fewer, More, TypeOK, Counts, Shapes, Joined, TearingDown,
       Subscribing, clientVars, hubVars, worldVars, graceVars
<1>13. ASSUME NEW ch \in Channels, GraceClear(ch) PROVE Joined'
  BY <1>13 DEF GraceClear, Fewer, TypeOK, Counts, Shapes, Joined, TearingDown,
       Subscribing, clientVars, hubVars, worldVars, graceVars
<1>14. CASE UNCHANGED vars
  BY <1>14 DEF TypeOK, Counts, Shapes, Joined, TearingDown, Subscribing, clientVars,
       hubVars, worldVars, graceVars, vars
<1>15. QED
  BY <1>1, <1>2, <1>3, <1>4, <1>5, <1>6, <1>7, <1>8, <1>9, <1>10, <1>11, <1>12, <1>13,
       <1>14
     DEF Next, Frames, ReadLoop, Grace

LEMMA FedStep == TypeOK /\ Shapes /\ Fed /\ [Next]_vars => Fed'
<1> SUFFICES ASSUME TypeOK, Shapes, Fed, [Next]_vars PROVE Fed'
  OBVIOUS
<1> USE ChatHubAssumption
<1>1. ASSUME NEW c \in Clients, Connect(c) PROVE Fed'
  BY <1>1 DEF Connect, Goto, TypeOK, Counts, Shapes, Fed, TearingDown, Subscribing,
       clientVars, hubVars, worldVars, graceVars
<1>2. ASSUME NEW c \in Clients, NEW ch \in Channels, Subscribe(c, ch) PROVE Fed'
  BY <1>2 DEF Subscribe, Goto, TypeOK, Counts, Shapes, Fed, TearingDown, Subscribing,
       clientVars, hubVars, worldVars, graceVars
<1>3. ASSUME NEW c \in Clients, JoinUpstream(c) PROVE Fed'
  BY <1>3 DEF JoinUpstream, Goto, TypeOK, Counts, Shapes, Fed, TearingDown, Subscribing,
       clientVars, hubVars, worldVars, graceVars
<1>4. ASSUME NEW c \in Clients, Listen(c) PROVE Fed'
  BY <1>4 DEF Listen, Goto, TypeOK, Counts, Shapes, Fed, TearingDown, Subscribing,
       clientVars, hubVars, worldVars, graceVars
<1>5. ASSUME NEW c \in Clients, Wire(c) PROVE Fed'
  BY <1>5 DEF Wire, Goto, TypeOK, Counts, Shapes, Fed, TearingDown, Subscribing,
       clientVars, hubVars, worldVars, graceVars
<1>6. ASSUME NEW c \in Clients, Tell(c) PROVE Fed'
  BY <1>6 DEF Tell, Goto, TypeOK, Counts, Shapes, Fed, TearingDown, Subscribing,
       clientVars, hubVars, worldVars, graceVars
<1>7. ASSUME NEW c \in Clients, NEW ch \in Channels, Unsubscribe(c, ch) PROVE Fed'
  BY <1>7 DEF Unsubscribe, Drop, TypeOK, Counts, Shapes, Fed, TearingDown, Subscribing,
       clientVars, hubVars, worldVars, graceVars
<1>8. ASSUME NEW c \in Clients, Leave(c) PROVE Fed'
  BY <1>8 DEF Leave, Goto, TypeOK, Counts, Shapes, Fed, TearingDown, Subscribing,
       clientVars, hubVars, worldVars, graceVars
<1>9. ASSUME NEW c \in Clients, Remove(c) PROVE Fed'
  BY <1>9 DEF Remove, Drop, Goto, TypeOK, Counts, Shapes, Fed, TearingDown, Subscribing,
       clientVars, hubVars, worldVars, graceVars
<1>10. ASSUME NEW ch \in Channels, GraceSkip(ch) PROVE Fed'
  BY <1>10 DEF GraceSkip, Fewer, TypeOK, Counts, Shapes, Fed, TearingDown, Subscribing,
       clientVars, hubVars, worldVars, graceVars
<1>11. ASSUME NEW ch \in Channels, GraceCheck(ch) PROVE Fed'
  BY <1>11 DEF GraceCheck, Fewer, More, TypeOK, Counts, Shapes, Fed, TearingDown,
       Subscribing, clientVars, hubVars, worldVars, graceVars
<1>12. ASSUME NEW ch \in Channels, GracePart(ch) PROVE Fed'
  BY <1>12 DEF GracePart, Fewer, More, TypeOK, Counts, Shapes, Fed, TearingDown,
       Subscribing, clientVars, hubVars, worldVars, graceVars
<1>13. ASSUME NEW ch \in Channels, GraceClear(ch) PROVE Fed'
  BY <1>13 DEF GraceClear, Fewer, TypeOK, Counts, Shapes, Fed, TearingDown, Subscribing,
       clientVars, hubVars, worldVars, graceVars
<1>14. CASE UNCHANGED vars
  BY <1>14 DEF TypeOK, Counts, Shapes, Fed, TearingDown, Subscribing, clientVars,
       hubVars, worldVars, graceVars, vars
<1>15. QED
  BY <1>1, <1>2, <1>3, <1>4, <1>5, <1>6, <1>7, <1>8, <1>9, <1>10, <1>11, <1>12, <1>13,
       <1>14
     DEF Next, Frames, ReadLoop, Grace

-----------------------------------------------------------------------------

\* The conjunction of the types, the shapes and what is said of feeds and subscribers
\* is inductive.
THEOREM Inductive == Spec => []IInv
<1>1. IInv /\ [Next]_vars => IInv'
  BY TypeStep, ShapesStep, DistinctStep, FeedsStep, JoinedStep, FedStep DEF IInv
<1>2. QED
  BY <1>1, InvInit, PTL DEF Spec

\* Every open feed is kept for a channel or in the hands of the subscribe that has just
\* opened it.
THEOREM FeedsKept == Spec => []NoFeedLeaks
<1>1. IInv => NoFeedLeaks
  BY DEF IInv
<1>2. QED
  BY <1>1, Inductive, PTL

\* Once nothing is under way for a channel, its subscribers have a join and a feed.
THEOREM SubscribersAreServed == Spec => []SubscribersServed
<1>1. IInv => SubscribersServed
  <2> SUFFICES ASSUME IInv, NEW ch \in Channels, members[ch] # {}, ~Busy(ch)
               PROVE  joins[ch] > 0 /\ unsubs[ch] # None
    BY DEF SubscribersServed
  <2>1. /\ parting[ch] \in Nat /\ clearing[ch] \in Nat /\ joins[ch] \in Nat
    BY ChatHubAssumption DEF IInv, TypeOK, Counts
  <2>2. ~TearingDown(ch) /\ ~Subscribing(ch, {"join"})
        /\ ~Subscribing(ch, {"join", "listen", "wire"})
    BY <2>1 DEF Busy, TearingDown, Subscribing
  <2>3. QED
    BY <2>1, <2>2 DEF IInv, Joined, Fed
<1>2. QED
  BY <1>1, Inductive, PTL

-----------------------------------------------------------------------------
(* The queue of a client (ClientQueue).                                     *)

\* What waits in the queue has not been written, and is older than the frame its sender
\* is about to put in; two frames of one sender wait in the order they were made.
Waiting ==
  \A i \in 1 .. Len(q_queue) :
    LET s == q_queue[i][1] IN
      /\ q_written[s] < q_queue[i][2] /\ q_queue[i][2] <= q_made[s]
      /\ q_at[s] # "idle" => q_queue[i][2] < q_made[s]

Younger ==
  \A i, j \in 1 .. Len(q_queue) :
    i < j /\ q_queue[i][1] = q_queue[j][1] => q_queue[i][2] < q_queue[j][2]

\* A sender that is at work has a frame that has not been written.
Unwritten ==
  \A s \in Queue!Senders :
    /\ q_written[s] <= q_made[s]
    /\ q_at[s] # "idle" => q_written[s] < q_made[s]

\* The client is subscribed where it wants to be, at most, and its queue is closed by
\* the last thing its read loop does.
Leaves ==
  /\ q_members \subseteq q_wants
  /\ q_closed => q_loop = "gone" /\ q_wants = {} /\ q_at["loop"] = "idle"

Order == Waiting /\ Younger /\ Unwritten

QueueInv == Queue!TypeOK /\ Order /\ Leaves

-----------------------------------------------------------------------------

LEMMA QueueInit == Queue!Init => QueueInv
<1> SUFFICES ASSUME Queue!Init PROVE QueueInv
  OBVIOUS
<1> USE DEF Queue!Init
<1>1. Queue!TypeOK
  <2>1. q_queue \in Seq(Queue!Frames)
    OBVIOUS
  <2>2. QED
    BY <2>1 DEF Queue!TypeOK
<1>2. Order
  BY DEF Order, Waiting, Younger, Unwritten
<1>3. Leaves
  BY DEF Leaves
<1>4. QED
  BY <1>1, <1>2, <1>3 DEF QueueInv

\* A frame of a queue is a sender and a number.
LEMMA FrameType ==
  ASSUME Queue!TypeOK, NEW i \in 1 .. Len(q_queue)
  PROVE  q_queue[i][1] \in Queue!Senders /\ q_queue[i][2] \in Nat
<1>1. q_queue[i] \in Queue!Frames
  BY DEF Queue!TypeOK
<1>2. QED
  BY <1>1 DEF Queue!Frames

\* Giving up the oldest frame leaves the others as they were.
LEMMA TailOf ==
  ASSUME NEW S, NEW q \in Seq(S), q # <<>>
  PROVE  /\ Tail(q) \in Seq(S) /\ Len(Tail(q)) = Len(q) - 1
         /\ \A i \in 1 .. Len(Tail(q)) : i + 1 \in 1 .. Len(q) /\ Tail(q)[i] = q[i + 1]
  OBVIOUS

LEMMA AppendOf ==
  ASSUME NEW S, NEW q \in Seq(S), NEW e \in S
  PROVE  /\ Append(q, e) \in Seq(S) /\ Len(Append(q, e)) = Len(q) + 1
         /\ \A i \in 1 .. Len(q) : Append(q, e)[i] = q[i]
         /\ Append(q, e)[Len(q) + 1] = e
  OBVIOUS

-----------------------------------------------------------------------------
(* The steps on the queue and its senders.                                 *)

\* A sender turns to its next frame: it is younger than all that wait.
LEMMA DeliverStep ==
  ASSUME QueueInv, NEW s \in Queue!Senders, Queue!Deliver(s),
         UNCHANGED <<q_queue, q_written>>
  PROVE  Order'
<1>1. Queue!TypeOK /\ Waiting /\ Younger /\ Unwritten
  BY DEF QueueInv, Order
<1>2. /\ q_made' = [q_made EXCEPT ![s] = q_made[s] + 1]
      /\ q_at' = [q_at EXCEPT ![s] = "send"]
      /\ q_at[s] = "idle"
  BY DEF Queue!Deliver, Queue!Goto
<1>3. q_made \in [Queue!Senders -> Nat]
      /\ q_at \in [Queue!Senders -> {"idle", "send", "full", "again"}]
      /\ q_written \in [Queue!Senders -> Nat]
  BY <1>1 DEF Queue!TypeOK
<1>4. Waiting'
  <2> SUFFICES ASSUME NEW i \in 1 .. Len(q_queue)
               PROVE  /\ q_written[q_queue[i][1]] < q_queue[i][2]
                      /\ q_queue[i][2] <= q_made'[q_queue[i][1]]
                      /\ q_at'[q_queue[i][1]] # "idle"
                           => q_queue[i][2] < q_made'[q_queue[i][1]]
    BY DEF Waiting
  <2>1. q_queue[i][1] \in Queue!Senders /\ q_queue[i][2] \in Nat
    BY <1>1, FrameType
  <2>2. QED
    BY <1>1, <1>2, <1>3, <2>1 DEF Waiting
<1>5. Younger'
  BY <1>1 DEF Younger
<1>6. Unwritten'
  BY <1>1, <1>2, <1>3 DEF Unwritten
<1>7. QED
  BY <1>4, <1>5, <1>6 DEF Order

\* A send puts the frame behind the others, leaves it for another try, or gives it up.
LEMMA SendStep ==
  ASSUME QueueInv, NEW s \in Queue!Senders, NEW otherwise \in {"full", "idle"},
         q_at[s] \in {"send", "again"}, Queue!Send(s, otherwise)
  PROVE  Order'
<1>1. Queue!TypeOK /\ Waiting /\ Younger /\ Unwritten
  BY DEF QueueInv, Order
<1>2. UNCHANGED <<q_made, q_written>>
  BY DEF Queue!Send
<1>3. q_made \in [Queue!Senders -> Nat]
      /\ q_at \in [Queue!Senders -> {"idle", "send", "full", "again"}]
      /\ q_written \in [Queue!Senders -> Nat] /\ q_queue \in Seq(Queue!Frames)
  BY <1>1 DEF Queue!TypeOK
<1>4. Unwritten'
  BY <1>1, <1>2, <1>3 DEF Queue!Send, Queue!Goto, Unwritten
<1>5. CASE q_queue' = q_queue
  <2>1. \A r \in Queue!Senders : q_at'[r] # "idle" => q_at[r] # "idle"
    BY <1>3 DEF Queue!Send, Queue!Goto
  <2>2. Waiting'
    <3> SUFFICES ASSUME NEW i \in 1 .. Len(q_queue)
                 PROVE  /\ q_written[q_queue[i][1]] < q_queue[i][2]
                        /\ q_queue[i][2] <= q_made[q_queue[i][1]]
                        /\ q_at'[q_queue[i][1]] # "idle"
                             => q_queue[i][2] < q_made[q_queue[i][1]]
      BY <1>2, <1>5 DEF Waiting
    <3>1. q_queue[i][1] \in Queue!Senders
      BY <1>1, FrameType
    <3>2. QED
      BY <1>1, <2>1, <3>1 DEF Waiting
  <2>3. Younger'
    BY <1>1, <1>5 DEF Younger
  <2>4. QED
    BY <1>4, <2>2, <2>3 DEF Order
<1>6. CASE q_queue' # q_queue
  <2> DEFINE n == Len(q_queue)
  <2>1. q_queue' = Append(q_queue, <<s, q_made[s]>>)
        /\ q_at' = [q_at EXCEPT ![s] = "idle"]
    BY <1>6 DEF Queue!Send, Queue!Goto
  <2>2. <<s, q_made[s]>> \in Queue!Frames
    BY <1>3 DEF Queue!Frames
  <2>3. /\ Len(q_queue') = n + 1 /\ q_queue'[n + 1] = <<s, q_made[s]>>
        /\ \A i \in 1 .. n : q_queue'[i] = q_queue[i]
    BY <1>3, <2>1, <2>2, AppendOf
  <2>4. n \in Nat
    BY <1>3
  <2>5. q_written[s] < q_made[s]
    BY <1>1 DEF Unwritten
  <2> HIDE DEF n
  <2>6. Waiting'
    <3> SUFFICES ASSUME NEW i \in 1 .. n + 1
                 PROVE  LET r == q_queue'[i][1] IN
                          /\ q_written[r] < q_queue'[i][2] /\ q_queue'[i][2] <= q_made[r]
                          /\ q_at'[r] # "idle" => q_queue'[i][2] < q_made[r]
      BY <1>2, <2>3 DEF Waiting
    <3>1. CASE i = n + 1
      BY <1>3, <2>1, <2>3, <2>5, <3>1
    <3>2. CASE i \in 1 .. n
      <4>1. q_queue[i][1] \in Queue!Senders /\ q_queue'[i] = q_queue[i]
        BY <1>1, <2>3, <3>2, FrameType DEF n
      <4>2. /\ q_written[q_queue[i][1]] < q_queue[i][2]
            /\ q_queue[i][2] <= q_made[q_queue[i][1]]
            /\ q_at[q_queue[i][1]] # "idle" => q_queue[i][2] < q_made[q_queue[i][1]]
        BY <1>1, <3>2 DEF Waiting, n
      <4>3. QED
        BY <1>3, <2>1, <4>1, <4>2
    <3>3. QED
      BY <2>4, <3>1, <3>2
  <2>7. Younger'
    <3> SUFFICES ASSUME NEW i \in 1 .. n + 1, NEW j \in 1 .. n + 1,
                        i < j, q_queue'[i][1] = q_queue'[j][1]
                 PROVE  q_queue'[i][2] < q_queue'[j][2]
      BY <2>3 DEF Younger
    <3>1. i \in 1 .. n /\ q_queue'[i] = q_queue[i]
      BY <2>3, <2>4
    <3>2. CASE j \in 1 .. n
      BY <1>1, <2>3, <3>1, <3>2 DEF Younger, n
    <3>3. CASE j = n + 1
      <4>1. q_queue[i][1] = s
        BY <2>3, <3>1, <3>3
      <4>2. QED
        BY <1>1, <2>3, <3>1, <3>3, <4>1 DEF Waiting, n
    <3>4. QED
      BY <2>4, <3>2, <3>3
  <2>8. QED
    BY <1>4, <2>6, <2>7 DEF Order
<1>7. QED
  BY <1>5, <1>6

\* The queue gives up its oldest frame.
LEMMA TailStep ==
  ASSUME QueueInv, q_queue # <<>>, q_queue' = Tail(q_queue), UNCHANGED q_made,
         \A r \in Queue!Senders : q_at'[r] # "idle" => q_at[r] # "idle",
         q_written' \in [Queue!Senders -> Nat], Unwritten',
         \A i \in 2 .. Len(q_queue) : q_written'[q_queue[i][1]] < q_queue[i][2]
  PROVE  Order'
<1>1. Queue!TypeOK /\ Waiting /\ Younger
  BY DEF QueueInv, Order
<1>2. q_queue \in Seq(Queue!Frames)
  BY <1>1 DEF Queue!TypeOK
<1> DEFINE n == Len(q_queue)
<1>3. n \in Nat /\ n >= 1 /\ Len(q_queue') = n - 1
  BY <1>2, TailOf
<1>4. \A i \in 1 .. n - 1 : i + 1 \in 2 .. n /\ i + 1 \in 1 .. n
                            /\ q_queue'[i] = q_queue[i + 1]
  BY <1>2, <1>3, TailOf
<1>5. Waiting'
  <2> SUFFICES ASSUME NEW i \in 1 .. n - 1
               PROVE  LET r == q_queue'[i][1] IN
                        /\ q_written'[r] < q_queue'[i][2] /\ q_queue'[i][2] <= q_made[r]
                        /\ q_at'[r] # "idle" => q_queue'[i][2] < q_made[r]
    BY <1>3 DEF Waiting
  <2>1. i + 1 \in 1 .. Len(q_queue) /\ i + 1 \in 2 .. Len(q_queue)
        /\ q_queue'[i] = q_queue[i + 1]
    BY <1>4
  <2>2. q_queue[i + 1][1] \in Queue!Senders
    BY <1>1, <2>1, FrameType
  <2> HIDE DEF n
  <2>3. QED
    BY <1>1, <2>1, <2>2 DEF Waiting
<1>6. Younger'
  <2> SUFFICES ASSUME NEW i \in 1 .. n - 1, NEW j \in 1 .. n - 1,
                      i < j, q_queue'[i][1] = q_queue'[j][1]
               PROVE  q_queue'[i][2] < q_queue'[j][2]
    BY <1>3 DEF Younger
  <2>1. /\ i + 1 \in 1 .. Len(q_queue) /\ j + 1 \in 1 .. Len(q_queue) /\ i + 1 < j + 1
        /\ q_queue'[i] = q_queue[i + 1] /\ q_queue'[j] = q_queue[j + 1]
    BY <1>4
  <2> HIDE DEF n
  <2>2. QED
    BY <1>1, <2>1 DEF Younger
<1>7. QED
  BY <1>5, <1>6 DEF Order

LEMMA DropStep ==
  ASSUME QueueInv, NEW s \in Queue!Senders, Queue!DropOldest(s)
  PROVE  Order'
<1>1. Queue!TypeOK /\ Waiting /\ Younger /\ Unwritten
  BY DEF QueueInv, Order
<1>2. q_made \in [Queue!Senders -> Nat]
      /\ q_at \in [Queue!Senders -> {"idle", "send", "full", "again"}]
      /\ q_written \in [Queue!Senders -> Nat]
  BY <1>1 DEF Queue!TypeOK
<1>3. UNCHANGED <<q_made, q_written>> /\ q_at' = [q_at EXCEPT ![s] = "again"]
      /\ q_at[s] = "full"
  BY DEF Queue!DropOldest, Queue!Goto
<1>4. \A r \in Queue!Senders : q_at'[r] # "idle" => q_at[r] # "idle"
  BY <1>2, <1>3
<1>5. Unwritten'
  BY <1>1, <1>2, <1>3, <1>4 DEF Unwritten
<1>6. CASE q_queue = <<>>
  <2>1. q_queue' = <<>>
    BY <1>6 DEF Queue!DropOldest
  <2>2. QED
    BY <1>5, <2>1 DEF Order, Waiting, Younger
<1>7. CASE q_queue # <<>>
  <2>1. q_queue' = Tail(q_queue)
    BY <1>7 DEF Queue!DropOldest
  <2>2. \A i \in 2 .. Len(q_queue) : q_written'[q_queue[i][1]] < q_queue[i][2]
    BY <1>1, <1>3 DEF Waiting, Queue!TypeOK
  <2>3. QED
    BY <1>2, <1>3, <1>4, <1>5, <1>7, <2>1, <2>2, TailStep
<1>8. QED
  BY <1>6, <1>7

\* The oldest frame goes into the socket.
LEMMA WriteStep ==
  ASSUME QueueInv, Queue!Write
  PROVE  /\ Order'
         /\ \A s \in Queue!Senders :
              q_written'[s] # q_written[s] => q_written'[s] > q_written[s]
<1>1. Queue!TypeOK /\ Waiting /\ Younger /\ Unwritten
  BY DEF QueueInv, Order
<1>2. /\ q_made \in [Queue!Senders -> Nat] /\ q_written \in [Queue!Senders -> Nat]
      /\ q_queue \in Seq(Queue!Frames)
      /\ q_at \in [Queue!Senders -> {"idle", "send", "full", "again"}]
  BY <1>1 DEF Queue!TypeOK
<1>3. q_queue # <<>> /\ q_queue' = Tail(q_queue) /\ UNCHANGED <<q_at, q_made>>
  BY DEF Queue!Write
<1>4. 1 \in 1 .. Len(q_queue) /\ Len(q_queue) \in Nat /\ Head(q_queue) = q_queue[1]
  BY <1>2, <1>3
<1> DEFINE s == q_queue[1][1]
           k == q_queue[1][2]
<1>5. s \in Queue!Senders /\ k \in Nat
  BY <1>1, <1>4, FrameType
<1>6. q_written' = [q_written EXCEPT ![s] = k]
  BY <1>4 DEF Queue!Write
<1>7. q_written[s] < k /\ k <= q_made[s] /\ (q_at[s] # "idle" => k < q_made[s])
  BY <1>1, <1>4 DEF Waiting
<1>8. \A i \in 2 .. Len(q_queue) : q_written'[q_queue[i][1]] < q_queue[i][2]
  <2> SUFFICES ASSUME NEW i \in 2 .. Len(q_queue)
               PROVE  q_written'[q_queue[i][1]] < q_queue[i][2]
    OBVIOUS
  <2>1. i \in 1 .. Len(q_queue) /\ 1 < i
    BY <1>4
  <2>2. q_queue[i][1] \in Queue!Senders
    BY <1>1, <2>1, FrameType
  <2>3. CASE q_queue[i][1] = s
    <3>1. k < q_queue[i][2]
      BY <1>1, <1>4, <2>1, <2>3 DEF Younger
    <3>2. QED
      BY <1>2, <1>5, <1>6, <2>3, <3>1
  <2>4. CASE q_queue[i][1] # s
    BY <1>1, <1>2, <1>6, <2>1, <2>2, <2>4 DEF Waiting
  <2>5. QED
    BY <2>3, <2>4
<1> HIDE DEF s, k
<1>9. q_written' \in [Queue!Senders -> Nat]
  BY <1>2, <1>5, <1>6
<1>10. Unwritten'
  BY <1>1, <1>2, <1>3, <1>5, <1>6, <1>7 DEF Unwritten
<1>11. Order'
  BY <1>3, <1>8, <1>9, <1>10, TailStep
<1>12. \A r \in Queue!Senders : q_written'[r] # q_written[r] => q_written'[r] > q_written[r]
  BY <1>2, <1>5, <1>6, <1>7
<1>13. QED
  BY <1>11, <1>12

\* The other steps leave the queue and its senders alone.
LEMMA OrderIdle ==
  ASSUME QueueInv, UNCHANGED <<q_at, q_made, q_queue, q_written>>
  PROVE  Order'
BY DEF QueueInv, Order, Waiting, Younger, Unwritten

-----------------------------------------------------------------------------
(* Types, and who the client is subscribed to.                             *)

LEMMA SendTypes ==
  ASSUME Queue!TypeOK, NEW s \in Queue!Senders, NEW otherwise \in {"full", "idle"},
         Queue!Send(s, otherwise)
  PROVE  Queue!TypeOK'
<1>1. <<s, q_made[s]>> \in Queue!Frames
  BY DEF Queue!TypeOK, Queue!Frames
<1>2. q_queue' \in Seq(Queue!Frames)
  <2>1. q_queue \in Seq(Queue!Frames)
    BY DEF Queue!TypeOK
  <2>2. Append(q_queue, <<s, q_made[s]>>) \in Seq(Queue!Frames)
    BY <1>1, <2>1, AppendOf
  <2>3. q_queue' = q_queue \/ q_queue' = Append(q_queue, <<s, q_made[s]>>)
    BY DEF Queue!Send, Queue!Goto
  <2>4. QED
    BY <2>1, <2>2, <2>3
<1>3. q_at' \in [Queue!Senders -> {"idle", "send", "full", "again"}]
  BY DEF Queue!TypeOK, Queue!Send, Queue!Goto
<1>4. q_panicked' \in BOOLEAN
  <2>1. q_panicked' = TRUE \/ q_panicked' = q_panicked
    BY DEF Queue!Send
  <2>2. QED
    BY <2>1 DEF Queue!TypeOK
<1>5. UNCHANGED <<q_made, q_wants, q_members, q_loop, q_closed, q_writing, q_written>>
  BY DEF Queue!Send
<1>6. QED
  BY <1>2, <1>3, <1>4, <1>5 DEF Queue!TypeOK

LEMMA DeliverTypes ==
  ASSUME Queue!TypeOK, NEW s \in Queue!Senders, Queue!Deliver(s)
  PROVE  /\ q_at' \in [Queue!Senders -> {"idle", "send", "full", "again"}]
         /\ q_made' \in [Queue!Senders -> Nat]
<1>1. q_made[s] + 1 \in Nat
  BY DEF Queue!TypeOK
<1>2. QED
  BY <1>1 DEF Queue!TypeOK, Queue!Deliver, Queue!Goto

LEMMA QueueTypeStep == Queue!TypeOK /\ [Queue!Next]_(Queue!vars) => Queue!TypeOK'
<1> SUFFICES ASSUME Queue!TypeOK, [Queue!Next]_(Queue!vars) PROVE Queue!TypeOK'
  OBVIOUS
<1>1. "loop" \in Queue!Senders /\ q_Feeds \subseteq Queue!Senders
  BY DEF Queue!Senders
<1>2. ASSUME NEW s \in Queue!Senders, Queue!SendFirst(s) \/ Queue!SendAgain(s)
      PROVE Queue!TypeOK'
  BY <1>2, SendTypes DEF Queue!SendFirst, Queue!SendAgain
<1>3. ASSUME NEW s \in Queue!Senders, Queue!DropOldest(s) PROVE Queue!TypeOK'
  <2>1. q_queue' \in Seq(Queue!Frames)
    BY <1>3, TailOf DEF Queue!TypeOK, Queue!DropOldest
  <2>2. QED
    BY <1>3, <2>1 DEF Queue!TypeOK, Queue!DropOldest, Queue!Goto
<1>4. ASSUME NEW f \in q_Feeds, Queue!Broadcast(f) PROVE Queue!TypeOK'
  BY <1>1, <1>4, DeliverTypes DEF Queue!TypeOK, Queue!Broadcast
<1>5. ASSUME NEW f \in q_Feeds, Queue!GraceClear(f) PROVE Queue!TypeOK'
  BY <1>5 DEF Queue!TypeOK, Queue!GraceClear
<1>6. ASSUME NEW f \in q_Feeds,
      Queue!Subscribe(f) \/ Queue!Unsubscribe(f) \/ Queue!LeaveChannel(f)
      PROVE  Queue!TypeOK'
  BY <1>1, <1>6, DeliverTypes DEF Queue!TypeOK, Queue!Subscribe, Queue!Unsubscribe,
                                  Queue!LeaveChannel
<1>7. CASE Queue!Refuse \/ Queue!Acknowledge \/ Queue!Sent
  BY <1>1, <1>7, DeliverTypes DEF Queue!TypeOK, Queue!Refuse, Queue!Acknowledge,
                                  Queue!Sent
<1>8. CASE Queue!SocketFails
  BY <1>8 DEF Queue!TypeOK, Queue!SocketFails
<1>9. CASE Queue!Close
  BY <1>9 DEF Queue!TypeOK, Queue!Close
<1>10. CASE Queue!Write
  <2>1. q_queue' \in Seq(Queue!Frames)
    BY <1>10, TailOf DEF Queue!TypeOK, Queue!Write
  <2>2. Head(q_queue)[2] \in Nat
    <3>1. 1 \in 1 .. Len(q_queue) /\ Head(q_queue) = q_queue[1]
      BY <1>10 DEF Queue!TypeOK, Queue!Write
    <3>2. QED
      BY <3>1, FrameType
  <2>3. q_written' \in [Queue!Senders -> Nat]
    BY <1>10, <2>2 DEF Queue!TypeOK, Queue!Write
  <2>4. QED
    BY <1>10, <2>1, <2>3 DEF Queue!TypeOK, Queue!Write
<1>11. CASE Queue!WriterEnds
  BY <1>11 DEF Queue!TypeOK, Queue!WriterEnds
<1>12. CASE UNCHANGED Queue!vars
  BY <1>12 DEF Queue!TypeOK, Queue!vars
<1>13. QED
  BY <1>2, <1>3, <1>4, <1>5, <1>6, <1>7, <1>8, <1>9, <1>10, <1>11, <1>12 DEF Queue!Next

\* Once the queue is closed the read loop has returned, so nothing subscribes again and
\* the loop delivers nothing.
LEMMA LeavesStep == Queue!TypeOK /\ Leaves /\ [Queue!Next]_(Queue!vars) => Leaves'
<1> SUFFICES ASSUME Queue!TypeOK, Leaves, [Queue!Next]_(Queue!vars) PROVE Leaves'
  OBVIOUS
<1> USE DEF Leaves
<1>1. q_at \in [Queue!Senders -> {"idle", "send", "full", "again"}]
      /\ "loop" \in Queue!Senders
  BY DEF Queue!TypeOK, Queue!Senders
<1>2. ASSUME NEW s \in Queue!Senders, Queue!SendFirst(s) \/ Queue!SendAgain(s)
      PROVE Leaves'
  BY <1>1, <1>2 DEF Queue!SendFirst, Queue!SendAgain, Queue!Send, Queue!Goto
<1>3. ASSUME NEW s \in Queue!Senders, Queue!DropOldest(s) PROVE Leaves'
  BY <1>1, <1>3 DEF Queue!DropOldest, Queue!Goto
<1>4. ASSUME NEW f \in q_Feeds, Queue!Broadcast(f) PROVE Leaves'
  BY <1>4 DEF Queue!Broadcast
<1>5. ASSUME NEW f \in q_Feeds, Queue!GraceClear(f) PROVE Leaves'
  BY <1>5 DEF Queue!GraceClear
<1>6. ASSUME NEW f \in q_Feeds,
      Queue!Subscribe(f) \/ Queue!Unsubscribe(f) \/ Queue!LeaveChannel(f)
      PROVE  Leaves'
  BY <1>6 DEF Queue!Subscribe, Queue!Unsubscribe, Queue!LeaveChannel
<1>7. CASE Queue!Refuse \/ Queue!Acknowledge \/ Queue!Sent
  BY <1>7 DEF Queue!Refuse, Queue!Acknowledge, Queue!Sent
<1>8. CASE Queue!SocketFails \/ Queue!Close
  BY <1>8 DEF Queue!SocketFails, Queue!Close
<1>9. CASE Queue!Write \/ Queue!WriterEnds
  BY <1>9 DEF Queue!Write, Queue!WriterEnds
<1>10. CASE UNCHANGED Queue!vars
  BY <1>10 DEF Queue!vars
<1>11. QED
  BY <1>2, <1>3, <1>4, <1>5, <1>6, <1>7, <1>8, <1>9, <1>10 DEF Queue!Next

LEMMA OrderStep == QueueInv /\ [Queue!Next]_(Queue!vars) => Order'
<1> SUFFICES ASSUME QueueInv, [Queue!Next]_(Queue!vars) PROVE Order'
  OBVIOUS
<1>1. "loop" \in Queue!Senders /\ q_Feeds \subseteq Queue!Senders
  BY DEF Queue!Senders
<1>2. ASSUME NEW s \in Queue!Senders, Queue!SendFirst(s) \/ Queue!SendAgain(s)
      PROVE Order'
  BY <1>2, SendStep DEF Queue!SendFirst, Queue!SendAgain
<1>3. ASSUME NEW s \in Queue!Senders, Queue!DropOldest(s) PROVE Order'
  BY <1>3, DropStep
<1>4. ASSUME NEW f \in q_Feeds, Queue!Broadcast(f) PROVE Order'
  BY <1>1, <1>4, DeliverStep DEF Queue!Broadcast
<1>5. ASSUME NEW f \in q_Feeds, Queue!GraceClear(f) PROVE Order'
  BY <1>5, OrderIdle DEF Queue!GraceClear
<1>6. ASSUME NEW f \in q_Feeds,
      Queue!Subscribe(f) \/ Queue!Unsubscribe(f) \/ Queue!LeaveChannel(f)
      PROVE  Order'
  BY <1>1, <1>6, DeliverStep DEF Queue!Subscribe, Queue!Unsubscribe, Queue!LeaveChannel
<1>7. CASE Queue!Refuse \/ Queue!Acknowledge \/ Queue!Sent
  BY <1>1, <1>7, DeliverStep DEF Queue!Refuse, Queue!Acknowledge, Queue!Sent
<1>8. CASE Queue!SocketFails \/ Queue!Close \/ Queue!WriterEnds
  BY <1>8, OrderIdle DEF Queue!SocketFails, Queue!Close, Queue!WriterEnds
<1>9. CASE Queue!Write
  BY <1>9, WriteStep
<1>10. CASE UNCHANGED Queue!vars
  BY <1>10, OrderIdle DEF Queue!vars
<1>11. QED
  BY <1>2, <1>3, <1>4, <1>5, <1>6, <1>7, <1>8, <1>9, <1>10 DEF Queue!Next

-----------------------------------------------------------------------------

(***************************************************************************)
(* The order of what waits, and that a client is out of its channels when  *)
(* its queue is closed, hold throughout.                                   *)
(***************************************************************************)
THEOREM QueueInductive == Queue!Spec => []QueueInv
<1>1. QueueInv /\ [Queue!Next]_(Queue!vars) => QueueInv'
  BY QueueTypeStep, OrderStep, LeavesStep DEF QueueInv
<1>2. QED
  BY QueueInit, <1>1, PTL DEF Queue!Spec

\* Every variable of the queue has its type (hub.go:95-105, 284-300).
THEOREM QueueTypes == Queue!Spec => []Queue!TypeOK
<1>1. QueueInv => Queue!TypeOK
  BY DEF QueueInv
<1>2. QED
  BY QueueInductive, <1>1, PTL

\* The queue is closed only when no channel has the client and its read loop is done
\* (removeClient): nobody but a broadcast already under way can send to it.
THEOREM ClosedAfterLeaving == Queue!Spec => []ClosedIsLeft
<1>1. QueueInv => ClosedIsLeft
  BY DEF QueueInv, Leaves, ClosedIsLeft, Queue!ClosedIsLeft
<1>2. QED
  BY QueueInductive, <1>1, PTL

(***************************************************************************)
(* The frames of one sender go into the socket in the order they were      *)
(* made, and each once, however many senders make room for one another     *)
(* without a lock (deliver, writeLoop).                                    *)
(***************************************************************************)
THEOREM WrittenInOrder == Queue!Spec => InOrder
<1> DEFINE Ahead ==
      \A s \in Queue!Senders : q_written'[s] # q_written[s] => q_written'[s] > q_written[s]
<1>1. QueueInv /\ [Queue!Next]_(Queue!vars) => [Ahead]_(Queue!vars)
  <2> SUFFICES ASSUME QueueInv, Queue!Next PROVE Ahead
    OBVIOUS
  <2>1. CASE Queue!Write
    BY <2>1, WriteStep
  <2>2. CASE ~Queue!Write
    <3>1. q_written' = q_written
      BY <2>2 DEF Queue!Next, Queue!SendFirst, Queue!SendAgain, Queue!Send,
                  Queue!DropOldest, Queue!Broadcast, Queue!GraceClear,
                  Queue!Subscribe, Queue!Unsubscribe, Queue!LeaveChannel, Queue!Refuse,
                         Queue!Acknowledge, Queue!Sent,
                  Queue!SocketFails, Queue!Close, Queue!WriterEnds
    <3>2. QED
      BY <3>1
  <2>3. QED
    BY <2>1, <2>2
<1>2. QED
  BY QueueInductive, <1>1, PTL DEF Queue!Spec, InOrder, Queue!InOrder

-----------------------------------------------------------------------------
(* The words of a message (Tokenize): the lemmas about its operators.      *)

\* A set that has 0 and, with n, n + 1, has every number.
LEMMA AllNumbers ==
  ASSUME NEW S, 0 \in S, \A n \in Nat : n \in S => n + 1 \in S
  PROVE  Nat \subseteq S
<1> SUFFICES ASSUME Nat \ S # {} PROVE FALSE
  OBVIOUS
<1> DEFINE T == {0 .. n : n \in Nat \ S}
           R == StrictSubsetOrdering(Nat)
<1>1. T # {} /\ \A t \in T : t \in SUBSET Nat
  OBVIOUS
<1>2. \A t \in T : IsFiniteSet(t)
  BY FS_Interval
<1>3. T \subseteq FiniteSubsetsOf(Nat)
  BY <1>1, <1>2 DEF FiniteSubsetsOf
<1>4. PICK t \in T : \A u \in T : ~(<<u, t>> \in R)
  <2> HIDE DEF T, R
  <2>1. IsWellFoundedOn(R, FiniteSubsetsOf(Nat))
    BY FS_StrictSubsetOrderingWellFounded DEF R
  <2>2. QED
    BY <1>1, <1>3, <2>1, WFMin
<1>5. PICK m \in Nat \ S : t = 0 .. m
  OBVIOUS
<1>6. m # 0 /\ m - 1 \in Nat
  OBVIOUS
<1>7. m - 1 \in S
  <2>1. SUFFICES ASSUME m - 1 \notin S PROVE FALSE
    OBVIOUS
  <2>2. 0 .. (m - 1) \in T
    BY <1>6, <2>1
  <2>3. 0 .. (m - 1) \subseteq 0 .. m /\ 0 .. (m - 1) # 0 .. m
    BY <1>6
  <2>4. <<0 .. (m - 1), 0 .. m>> \in R
    BY <1>6, <2>3 DEF StrictSubsetOrdering
  <2>5. QED
    BY <1>4, <1>5, <2>2, <2>4
<1>8. QED
  BY <1>5, <1>6, <1>7

\* How many runes of a text, from its first, are of the given ones.
LEMMA SpanIs ==
  ASSUME NEW S, NEW s \in Seq(S), NEW R
  PROVE  LET n == Words!Span(s, R) IN
         /\ n \in 0 .. Len(s)
         /\ \A k \in 1 .. n : s[k] \in R
         /\ n < Len(s) => s[n + 1] \notin R
<1> DEFINE Is(n) == /\ \A k \in 1 .. n : s[k] \in R
                    /\ n < Len(s) => s[n + 1] \notin R
           T == {n \in Nat : n <= Len(s) => \A k \in 1 .. n : s[k] \in R}
<1>1. Len(s) \in Nat
  OBVIOUS
<1>2. \E n \in 0 .. Len(s) : Is(n)
  <2> SUFFICES ASSUME \A n \in 0 .. Len(s) : ~Is(n) PROVE FALSE
    OBVIOUS
  <2>1. 0 \in T
    OBVIOUS
  <2>2. ASSUME NEW n \in Nat, n \in T PROVE n + 1 \in T
    <3> SUFFICES ASSUME n + 1 <= Len(s), NEW k \in 1 .. n + 1 PROVE s[k] \in R
      OBVIOUS
    <3>1. n \in 0 .. Len(s) /\ n < Len(s) /\ n <= Len(s)
      BY <1>1
    <3>2. \A j \in 1 .. n : s[j] \in R
      BY <2>2, <3>1
    <3>3. s[n + 1] \in R
      BY <3>1, <3>2
    <3>4. QED
      BY <3>2, <3>3
  <2>3. Nat \subseteq T
    <3> HIDE DEF T
    <3>1. QED
      BY <2>1, <2>2, AllNumbers
  <2>4. \A k \in 1 .. Len(s) : s[k] \in R
    BY <1>1, <2>3
  <2>5. Is(Len(s)) /\ Len(s) \in 0 .. Len(s)
    BY <1>1, <2>4
  <2>6. QED
    BY <2>5
<1>3. Words!Span(s, R) = CHOOSE n \in 0 .. Len(s) : Is(n)
  BY DEF Words!Span
<1> HIDE DEF Is
<1>4. Words!Span(s, R) \in 0 .. Len(s) /\ Is(Words!Span(s, R))
  BY <1>2, <1>3
<1>5. QED
  BY <1>4 DEF Is

\* The runes up to the n-th, and those after it.
LEMMA Halves ==
  ASSUME NEW S, NEW s \in Seq(S), NEW n \in 0 .. Len(s)
  PROVE  /\ Words!First(s, n) \in Seq(S) /\ Len(Words!First(s, n)) = n
         /\ \A k \in 1 .. n : Words!First(s, n)[k] = s[k]
         /\ Words!From(s, n) \in Seq(S) /\ Len(Words!From(s, n)) = Len(s) - n
         /\ \A k \in 1 .. Len(s) - n : Words!From(s, n)[k] = s[n + k]
<1>1. Len(s) \in Nat /\ \A k \in 1 .. Len(s) : s[k] \in S
  OBVIOUS
<1>2. /\ Words!First(s, n) \in Seq(S) /\ Len(Words!First(s, n)) = n
      /\ \A k \in 1 .. n : Words!First(s, n)[k] = s[k]
  BY <1>1 DEF Words!First
<1>3. /\ SubSeq(s, n + 1, Len(s)) \in Seq(S)
      /\ Len(SubSeq(s, n + 1, Len(s))) = Len(s) - n
      /\ \A k \in 1 .. Len(s) - (n + 1) + 1 : SubSeq(s, n + 1, Len(s))[k] = s[n + 1 + k - 1]
  <2>1. \A k \in n + 1 .. Len(s) : s[k] \in S
    BY <1>1
  <2>2. QED
    BY <1>1, <2>1, SubSeqProperties
<1>4. \A k \in 1 .. Len(s) - n :
        k \in 1 .. Len(s) - (n + 1) + 1 /\ n + 1 + k - 1 = n + k
  BY <1>1
<1>5. QED
  BY <1>2, <1>3, <1>4 DEF Words!From

\* Where no zero-width name begins another, at most one begins a word.
LEMMA OneOverlay ==
  ASSUME Words!PrefixFree, NEW S, NEW s \in Seq(S)
  PROVE  Words!Longest(Words!Overlays(s)) = Words!Overlays(s)
<1> SUFFICES ASSUME NEW n \in Words!Overlays(s), NEW m \in Words!Overlays(s)
             PROVE  m <= n
  BY DEF Words!Longest
<1>1. /\ Len(s) \in Nat /\ n \in 1 .. Len(s) /\ m \in 1 .. Len(s)
      /\ Words!First(s, n) \in DOMAIN w_dict /\ w_dict[Words!First(s, n)]
      /\ Words!First(s, m) \in DOMAIN w_dict /\ w_dict[Words!First(s, m)]
  BY DEF Words!Overlays, Words!Match
<1>2. Len(Words!First(s, n)) = n /\ Len(Words!First(s, m)) = m
  BY <1>1, Halves
<1>3. SUFFICES ASSUME n < m PROVE FALSE
  BY <1>1
<1>4. SubSeq(Words!First(s, n), 1, n) = SubSeq(Words!First(s, m), 1, n)
  <2>1. n \in 0 .. Len(s) /\ m \in 0 .. Len(s) /\ n \in 1 .. m
    BY <1>1, <1>3
  <2>2. /\ Words!First(s, n) \in Seq(S) /\ \A k \in 1 .. n : Words!First(s, n)[k] = s[k]
        /\ Words!First(s, m) \in Seq(S) /\ \A k \in 1 .. m : Words!First(s, m)[k] = s[k]
    BY <2>1, Halves
  <2> DEFINE a == SubSeq(Words!First(s, n), 1, n)
             b == SubSeq(Words!First(s, m), 1, n)
  <2>3. a \in Seq(S) /\ Len(a) = n /\ \A k \in 1 .. n : a[k] = s[k]
    <3>1. \A k \in 1 .. n : Words!First(s, n)[k] \in S
      BY <1>1, <2>2
    <3>2. QED
      BY <1>1, <1>2, <2>2, <3>1
  <2>4. b \in Seq(S) /\ Len(b) = n /\ \A k \in 1 .. n : b[k] = s[k]
    <3>1. \A k \in 1 .. n : k \in 1 .. m /\ s[k] \in S
      BY <1>1, <2>1
    <3>2. \A k \in 1 .. n : Words!First(s, m)[k] \in S /\ Words!First(s, m)[k] = s[k]
      BY <2>2, <3>1
    <3> HIDE <1>3
    <3>3. QED
      BY <1>1, <1>2, <2>1, <2>2, <3>2
  <2> HIDE DEF a, b
  <2>5. a = b
    BY <2>3, <2>4, SeqEqual
  <2>6. QED
    BY <2>5 DEF a, b
<1>5. Words!IsPrefix(Words!First(s, n), Words!First(s, m))
  BY <1>1, <1>2, <1>3, <1>4 DEF Words!IsPrefix
<1>6. Words!First(s, n) = Words!First(s, m)
  BY <1>1, <1>5 DEF Words!PrefixFree
<1>7. QED
  BY <1>1, <1>2, <1>3, <1>6

\* Then the longest one each time is the only one each time.
LEMMA GreedyIsAny ==
  ASSUME Words!PrefixFree, NEW S, NEW s \in Seq(S)
  PROVE  Words!ZeroWidthChain(s) = Words!Chains(s, Words!AnyChain)
<1> DEFINE Greedy(f, k) ==
             IF k = Len(s) THEN {<<>>}
             ELSE UNION {{<<Words!First(Words!From(s, k), n)>> \o c : c \in f[k + n]} :
                           n \in Words!Longest(Words!Overlays(Words!From(s, k)))}
           Any(f, k) ==
             IF k = Len(s) THEN {<<>>}
             ELSE UNION {{<<Words!First(Words!From(s, k), n)>> \o c : c \in f[k + n]} :
                           n \in Words!AnyChain(Words!Overlays(Words!From(s, k)))}
           greedy[k \in 0 .. Len(s)] == Greedy(greedy, k)
           any[k \in 0 .. Len(s)] == Any(any, k)
<1>1. ASSUME NEW k \in 0 .. Len(s), NEW f PROVE Greedy(f, k) = Any(f, k)
  <2>1. Words!From(s, k) \in Seq(S)
    BY Halves
  <2>2. Words!Longest(Words!Overlays(Words!From(s, k)))
          = Words!AnyChain(Words!Overlays(Words!From(s, k)))
    BY <2>1, OneOverlay DEF Words!AnyChain
  <2>3. QED
    BY <2>2
<1>2. greedy = (CHOOSE f : f = [k \in 0 .. Len(s) |-> Greedy(f, k)])
  OBVIOUS
<1>3. any = (CHOOSE f : f = [k \in 0 .. Len(s) |-> Any(f, k)])
  OBVIOUS
<1>4. ASSUME NEW f
      PROVE  [k \in 0 .. Len(s) |-> Greedy(f, k)] = [k \in 0 .. Len(s) |-> Any(f, k)]
  <2> HIDE DEF Greedy, Any
  <2>1. QED
    BY <1>1
<1>5. greedy = any
  <2> DEFINE P(f) == f = [k \in 0 .. Len(s) |-> Greedy(f, k)]
             Q(f) == f = [k \in 0 .. Len(s) |-> Any(f, k)]
  <2>1. \A f : P(f) <=> Q(f)
    BY <1>4
  <2>2. greedy = (CHOOSE f : P(f)) /\ any = (CHOOSE f : Q(f))
    BY <1>2, <1>3
  <2> HIDE DEF P, Q, greedy, any
  <2>3. QED
    BY <2>1, <2>2
<1>6. Words!ZeroWidthChain(s) = greedy[0]
  BY DEF Words!ZeroWidthChain, Words!Chains
<1>7. Words!Chains(s, Words!AnyChain) = any[0]
  BY DEF Words!Chains
<1>8. QED
  BY <1>5, <1>6, <1>7

\* A set of numbers up to a bound has a largest one.
LEMMA LongestIs ==
  ASSUME NEW b \in Nat, NEW ns, ns \subseteq 1 .. b, ns # {}
  PROVE  Words!Longest(ns) # {}
<1> DEFINE T == {i \in Nat : (\E n \in ns : n > b - i) => Words!Longest(ns) # {}}
<1>1. 0 \in T
  OBVIOUS
<1>2. ASSUME NEW i \in Nat, i \in T PROVE i + 1 \in T
  <2> SUFFICES ASSUME NEW n \in ns, n > b - (i + 1) PROVE Words!Longest(ns) # {}
    OBVIOUS
  <2>1. CASE \E m \in ns : m > b - i
    BY <1>2, <2>1
  <2>2. CASE ~\E m \in ns : m > b - i
    <3>1. n \in 1 .. b /\ \A m \in ns : m \in 1 .. b /\ m <= n
      BY <2>2
    <3>2. n \in Words!Longest(ns)
      BY <3>1 DEF Words!Longest
    <3>3. QED
      BY <3>2
  <2>3. QED
    BY <2>1, <2>2
<1>3. Nat \subseteq T
  <2> HIDE DEF T
  <2>1. QED
    BY <1>1, <1>2, AllNumbers
<1>4. b \in T
  BY <1>3
<1>5. \E n \in ns : n > b - b
  <2>1. PICK n \in ns : n \in 1 .. b
    OBVIOUS
  <2>2. n > b - b
    BY <2>1
  <2>3. QED
    BY <2>2
<1>6. QED
  BY <1>4, <1>5

\* The ways to cut a word into names are found if there is one.
LEMMA CutsAreFound ==
  ASSUME Words!PrefixFree, NEW S, NEW s \in Seq(S)
  PROVE  /\ Words!SplitZeroWidthSuffix(s) \subseteq Words!Cuts(s)
         /\ Words!Cuts(s) # {} => Words!SplitZeroWidthSuffix(s) # {}
<1> DEFINE names == {n \in 1 .. (Len(s) - 1) : Words!Match(Words!First(s, n))}
           ends  == {n \in 1 .. (Len(s) - 1) : /\ Words!Match(Words!First(s, n))
                                               /\ Words!ZeroWidthChain(Words!From(s, n)) # {}}
           Of(n) == {<<Words!First(s, n)>> \o c : c \in Words!ZeroWidthChain(Words!From(s, n))}
<1>1. Len(s) \in Nat
  OBVIOUS
<1>2. \A n \in names :
        Words!ZeroWidthChain(Words!From(s, n)) = Words!Chains(Words!From(s, n), Words!AnyChain)
  <2>1. \A n \in names : n \in 0 .. Len(s)
    BY <1>1
  <2>2. \A n \in names : Words!From(s, n) \in Seq(S)
    BY <2>1, Halves
  <2>3. QED
    BY <2>2, GreedyIsAny
<1>3. Words!Cuts(s) = UNION {Of(n) : n \in names}
  <2> DEFINE Or(n) == {<<Words!First(s, n)>> \o c :
                         c \in Words!Chains(Words!From(s, n), Words!AnyChain)}
  <2>1. Words!Cuts(s) = UNION {Or(n) : n \in names}
    BY DEF Words!Cuts
  <2>2. \A n \in names : Of(n) = Or(n)
    BY <1>2
  <2> HIDE DEF Of, Or, names
  <2>3. QED
    BY <2>1, <2>2
<1>4. Words!SplitZeroWidthSuffix(s) = UNION {Of(n) : n \in Words!Longest(ends)}
  BY DEF Words!SplitZeroWidthSuffix
<1>5. Words!Longest(ends) \subseteq ends /\ ends \subseteq names
  BY DEF Words!Longest
<1>6. Words!SplitZeroWidthSuffix(s) \subseteq Words!Cuts(s)
  <2> HIDE DEF Of, names, ends
  <2>1. QED
    BY <1>3, <1>4, <1>5
<1>7. ASSUME Words!Cuts(s) # {} PROVE Words!SplitZeroWidthSuffix(s) # {}
  <2>1. ends # {}
    BY <1>3, <1>7
  <2>2. PICK n \in ends : n \in Words!Longest(ends)
    <3>1. Len(s) - 1 \in Nat
      BY <1>1, <2>1
    <3>2. ends \subseteq 1 .. (Len(s) - 1)
      OBVIOUS
    <3> HIDE DEF ends
    <3>3. QED
      BY <1>5, <2>1, <3>1, <3>2, LongestIs
  <2>3. Of(n) # {}
    OBVIOUS
  <2> HIDE DEF Of, ends
  <2>4. QED
    BY <1>4, <2>2, <2>3
<1>8. QED
  BY <1>6, <1>7

-----------------------------------------------------------------------------
(* What has been read of the text.                                         *)

Texts == Seq(Words!Runes)

Frags == [T : {"text", "mention", "emote"}, Zw : BOOLEAN, C : Texts]

\* Where the k-th fragment begins, when the one before it ends at a.
Begins(t, fs, k, a) ==
  a + (IF k > 1 /\ fs[k].Zw = TRUE /\ fs[k - 1].T = "emote"
       THEN Words!Span(Words!From(t, a), {Words!Blank}) ELSE 0)

\* Where each fragment of fs ends.
Readings(t, fs) ==
  {f \in [0 .. Len(fs) -> 0 .. Len(t)] :
     /\ f[0] = 0
     /\ \A k \in 1 .. Len(fs) :
          LET b == Begins(t, fs, k, f[k - 1]) IN
            f[k] = b + Len(fs[k].C) /\ SubSeq(t, b + 1, f[k]) = fs[k].C}

ReadTo(t, fs, p) == \E f \in Readings(t, fs) : f[Len(fs)] = p

\* Nothing is read by no fragments.
LEMMA NothingRead ==
  ASSUME w_text \in Texts
  PROVE  ReadTo(w_text, <<>>, 0)
<1> DEFINE f == [k \in {0} |-> 0]
<1>1. Len(w_text) \in Nat
  BY DEF Texts
<1>2. f \in [0 .. Len(<<>>) -> 0 .. Len(w_text)] /\ f[0] = 0
  BY <1>1
<1>3. f \in Readings(w_text, <<>>)
  BY <1>2 DEF Readings
<1>4. QED
  BY <1>2, <1>3 DEF ReadTo

\* A table with one entry more.
LEMMA Longer ==
  ASSUME NEW n \in Nat, NEW m \in Nat, NEW f \in [0 .. n -> 0 .. m], NEW e \in 0 .. m
  PROVE  \E g \in [0 .. n + 1 -> 0 .. m] : g[n + 1] = e /\ \A k \in 0 .. n : g[k] = f[k]
<1> DEFINE g == [k \in 0 .. n + 1 |-> IF k = n + 1 THEN e ELSE f[k]]
<1>1. \A k \in 0 .. n + 1 : k # n + 1 => k \in 0 .. n
  OBVIOUS
<1>2. \A k \in 0 .. n : k \in 0 .. n + 1 /\ k # n + 1
  OBVIOUS
<1>3. n + 1 \in 0 .. n + 1
  OBVIOUS
<1>4. g \in [0 .. n + 1 -> 0 .. m]
  BY <1>1
<1>5. g[n + 1] = e /\ \A k \in 0 .. n : g[k] = f[k]
  BY <1>2, <1>3
<1>6. QED
  BY <1>4, <1>5

\* One fragment more.
LEMMA ReadOn ==
  ASSUME NEW fs, NEW x, NEW a, NEW b, NEW e,
         /\ w_text \in Texts /\ fs \in Seq(Frags) /\ x \in Frags /\ ReadTo(w_text, fs, a)
         /\ e \in 0 .. Len(w_text) /\ b = Begins(w_text, Append(fs, x), Len(fs) + 1, a)
         /\ e = b + Len(x.C) /\ SubSeq(w_text, b + 1, e) = x.C
  PROVE  ReadTo(w_text, Append(fs, x), e)
<1> DEFINE gs == Append(fs, x)
<1>1. PICK n \in Nat : n = Len(fs)
  OBVIOUS
<1>2. PICK m \in Nat : m = Len(w_text)
  BY DEF Texts
<1>3. PICK f : f \in Readings(w_text, fs) /\ f[n] = a
  BY <1>1 DEF ReadTo
<1>4. /\ gs \in Seq(Frags) /\ Len(gs) = n + 1 /\ gs[n + 1] = x
      /\ \A k \in 1 .. n : gs[k] = fs[k]
  BY <1>1
<1>5. /\ f \in [0 .. n -> 0 .. m] /\ f[0] = 0
      /\ \A k \in 1 .. n : LET c == Begins(w_text, fs, k, f[k - 1]) IN
           f[k] = c + Len(fs[k].C) /\ SubSeq(w_text, c + 1, f[k]) = fs[k].C
  BY <1>1, <1>2, <1>3 DEF Readings
<1>6. PICK g \in [0 .. n + 1 -> 0 .. m] : g[n + 1] = e /\ \A k \in 0 .. n : g[k] = f[k]
  <2>1. e \in 0 .. m /\ f \in [0 .. n -> 0 .. m]
    BY <1>2, <1>5
  <2>2. \A h \in [0 .. n -> 0 .. m], d \in 0 .. m :
          \E g \in [0 .. n + 1 -> 0 .. m] : g[n + 1] = d /\ \A k \in 0 .. n : g[k] = h[k]
    BY Longer
  <2>3. QED
    BY Zenon, <2>1, <2>2
<1>7. g[0] = 0 /\ g[n] = a
  <2>1. 0 \in 0 .. n /\ n \in 0 .. n
    BY <1>1
  <2>2. QED
    BY <1>3, <1>5, <1>6, <2>1
<1>8. ASSUME NEW k \in 1 .. n + 1
      PROVE  LET c == Begins(w_text, gs, k, g[k - 1]) IN
               g[k] = c + Len(gs[k].C) /\ SubSeq(w_text, c + 1, g[k]) = gs[k].C
  <2>1. CASE k = n + 1
    <3>1. k - 1 = n
      BY <1>1, <2>1
    <3>2. Begins(w_text, gs, k, g[k - 1]) = b
      BY <1>1, <1>7, <2>1, <3>1
    <3>3. QED
      BY <1>4, <1>6, <2>1, <3>2
  <2>2. CASE k # n + 1
    <3>1. k \in 1 .. n /\ k - 1 \in 0 .. n /\ (k > 1 => k - 1 \in 1 .. n)
      BY <2>2
    <3>2. g[k - 1] = f[k - 1] /\ g[k] = f[k] /\ gs[k] = fs[k]
      <4>1. k \in 0 .. n
        BY <1>1, <3>1
      <4>2. QED
        BY <1>4, <1>6, <3>1, <4>1
    <3>3. k > 1 => gs[k - 1] = fs[k - 1]
      BY <1>4, <3>1
    <3>4. Begins(w_text, gs, k, g[k - 1]) = Begins(w_text, fs, k, f[k - 1])
      BY <3>2, <3>3 DEF Begins
    <3>5. QED
      BY <1>5, <3>1, <3>2, <3>4
  <2>3. QED
    BY <2>1, <2>2
<1> HIDE DEF gs
<1>9. g \in Readings(w_text, gs)
  BY <1>2, <1>4, <1>6, <1>7, <1>8 DEF Readings
<1>10. g[Len(gs)] = e
  BY <1>4, <1>6
<1>11. QED
  BY <1>9, <1>10 DEF ReadTo, gs

\* What ReadBy computes is where the last fragment ends.
LEMMA ReadIs ==
  ASSUME w_text \in Texts, w_out \in Seq(Frags), NEW p, ReadTo(w_text, w_out, p)
  PROVE  Words!ReadBy = p
<1> DEFINE n == Len(w_out)
           EndOf(u, k) ==
        IF k = 0 THEN 0
        ELSE LET at   == u[k - 1]
                 over == k > 1 /\ w_out[k].Zw /\ w_out[k - 1].T = "emote"
                 gap  == IF over THEN Words!Span(Words!From(w_text, at), {Words!Blank}) ELSE 0
                 end  == at + gap + Len(w_out[k].C) IN
             IF end <= Len(w_text) /\ SubSeq(w_text, at + gap + 1, end) = w_out[k].C
             THEN end ELSE Len(w_text) + 1
           upto[k \in 0 .. n] == EndOf(upto, k)
<1>1. PICK f \in Readings(w_text, w_out) : f[n] = p
  BY DEF ReadTo
<1>2. /\ n \in Nat /\ f \in [0 .. n -> 0 .. Len(w_text)] /\ f[0] = 0 /\ Len(w_text) \in Nat
      /\ \A k \in 1 .. n : LET c == Begins(w_text, w_out, k, f[k - 1]) IN
           f[k] = c + Len(w_out[k].C) /\ SubSeq(w_text, c + 1, f[k]) = w_out[k].C
  BY <1>1 DEF Readings, Texts
<1>3. ASSUME NEW u, NEW k \in 0 .. n, k # 0 => u[k - 1] = f[k - 1]
      PROVE  EndOf(u, k) = f[k]
  <2>1. CASE k = 0
    BY <1>2, <2>1
  <2>2. CASE k # 0
    <3>1. k \in 1 .. n
      BY <1>2, <2>2
    <3>2. f[k] \in 0 .. Len(w_text) /\ f[k] <= Len(w_text)
      BY <1>2, <3>1
    <3>3. PICK gap : /\ gap = IF k > 1 /\ w_out[k].Zw /\ w_out[k - 1].T = "emote"
                              THEN Words!Span(Words!From(w_text, f[k - 1]), {Words!Blank}) ELSE 0
                     /\ Begins(w_text, w_out, k, f[k - 1]) = f[k - 1] + gap
      BY DEF Begins
    <3>4. /\ f[k] = f[k - 1] + gap + Len(w_out[k].C)
          /\ SubSeq(w_text, f[k - 1] + gap + 1, f[k]) = w_out[k].C
      BY <1>2, <3>1, <3>3
    <3>5. QED
      BY <1>3, <2>2, <3>2, <3>3, <3>4
  <2>3. QED
    BY <2>1, <2>2
<1>4. upto = (CHOOSE u : u = [k \in 0 .. n |-> EndOf(u, k)])
  OBVIOUS
<1>5. f = [k \in 0 .. n |-> EndOf(f, k)]
  <2> HIDE DEF EndOf
  <2>1. \A k \in 0 .. n : EndOf(f, k) = f[k]
    BY <1>3
  <2>2. QED
    BY <1>2, <2>1
<1>6. upto = [k \in 0 .. n |-> EndOf(upto, k)]
  <2> DEFINE Sol(u) == u = [k \in 0 .. n |-> EndOf(u, k)]
  <2>1. upto = CHOOSE u : Sol(u)
    BY <1>4
  <2>2. \E u : Sol(u)
    BY <1>5
  <2> HIDE DEF Sol, upto
  <2>3. Sol(upto)
    BY Zenon, <2>1, <2>2
  <2>4. QED
    BY <2>3 DEF Sol
<1>7. Words!ReadBy = upto[n]
  BY DEF Words!ReadBy
<1> HIDE DEF upto, EndOf
<1> DEFINE T == {k \in Nat : k <= n => upto[k] = f[k]}
<1>8. 0 \in T
  BY <1>2, <1>3, <1>6
<1>9. ASSUME NEW k \in Nat, k \in T PROVE k + 1 \in T
  <2> SUFFICES ASSUME k + 1 <= n PROVE upto[k + 1] = f[k + 1]
    OBVIOUS
  <2>1. k \in 0 .. n /\ k + 1 \in 0 .. n /\ (k + 1) - 1 = k
    BY <1>2
  <2>2. upto[k] = f[k]
    BY <1>9, <2>1
  <2>3. upto[(k + 1) - 1] = f[(k + 1) - 1]
    BY <2>1, <2>2
  <2>4. EndOf(upto, k + 1) = f[k + 1]
    BY <1>3, <2>1, <2>3
  <2>5. QED
    BY <1>6, <2>1, <2>4
<1>10. Nat \subseteq T
  <2> HIDE DEF T
  <2>1. QED
    BY <1>8, <1>9, AllNumbers
<1>11. upto[n] = f[n]
  BY <1>2, <1>10
<1>12. QED
  BY <1>1, <1>7, <1>11

\* No spaces are skipped before a fragment that is not zero-width, or where there are none.
LEMMA NoGap ==
  ASSUME NEW fs, NEW k, NEW a,
         /\ w_text \in Texts /\ a \in 0 .. Len(w_text)
         /\ fs[k].Zw = TRUE => a < Len(w_text) /\ w_text[a + 1] # Words!Blank
  PROVE  Begins(w_text, fs, k, a) = a
<1>1. CASE fs[k].Zw = TRUE
  <2> DEFINE s == Words!From(w_text, a)
             n == Words!Span(s, {Words!Blank})
  <2>1. s \in Texts /\ Len(s) = Len(w_text) - a /\ \A j \in 1 .. Len(w_text) - a : s[j] = w_text[a + j]
    BY Halves DEF Texts
  <2>2. 1 \in 1 .. Len(w_text) - a
    BY <1>1
  <2>3. s[1] # Words!Blank
    BY <1>1, <2>1, <2>2
  <2>4. n \in 0 .. Len(s) /\ \A j \in 1 .. n : s[j] \in {Words!Blank}
    BY <2>1, SpanIs DEF Texts
  <2>5. n = 0
    <3> HIDE DEF n, s
    <3>1. n = 0 \/ 1 \in 1 .. n
      BY <2>1, <2>4
    <3>2. QED
      BY <2>3, <2>4, <3>1
  <2>6. QED
    BY <2>5 DEF Begins
<1>2. CASE fs[k].Zw # TRUE
  <2>1. a \in Nat
    BY DEF Texts
  <2>2. Begins(w_text, fs, k, a) = a + 0
    BY Zenon, <1>2 DEF Begins
  <2>3. QED
    BY <2>1, <2>2
<1>3. QED
  BY <1>1, <1>2

\* A fragment is the text between two places.
LEMMA SamePart ==
  ASSUME NEW s \in Texts, NEW c \in Texts, NEW a \in Nat, a + Len(c) <= Len(s),
         \A k \in 1 .. Len(c) : c[k] = s[a + k]
  PROVE  SubSeq(s, a + 1, a + Len(c)) = c
<1> DEFINE d == SubSeq(s, a + 1, a + Len(c))
<1>1. PICK n \in Nat : n = Len(c)
  BY DEF Texts
<1>2. PICK m \in Nat : m = Len(s) /\ \A k \in 1 .. m : s[k] \in Words!Runes
  BY DEF Texts
<1>3. \A k \in a + 1 .. a + n : s[k] \in Words!Runes
  BY <1>1, <1>2
<1>4. /\ d \in Seq(Words!Runes)
      /\ Len(d) = IF a + 1 <= a + n THEN (a + n) - (a + 1) + 1 ELSE 0
      /\ \A k \in 1 .. (a + n) - (a + 1) + 1 : d[k] = s[(a + 1) + k - 1]
  BY <1>1, <1>3, SubSeqProperties DEF Texts
<1>5. Len(d) = n
  BY <1>1, <1>4
<1>6. ASSUME NEW k \in 1 .. n PROVE d[k] = c[k]
  <2>1. k \in 1 .. (a + n) - (a + 1) + 1 /\ (a + 1) + k - 1 = a + k
    BY <1>1
  <2>2. QED
    BY <1>1, <1>4, <2>1
<1> HIDE DEF d
<1>7. d = c
  BY <1>1, <1>4, <1>5, <1>6, SeqEqual DEF Texts
<1>8. QED
  BY <1>7 DEF d

\* A fragment that is the text where the reading is.
LEMMA Reads ==
  ASSUME NEW fs, NEW x, NEW a,
         /\ w_text \in Texts /\ fs \in Seq(Frags) /\ x \in Frags /\ a \in Nat
         /\ ReadTo(w_text, fs, a) /\ a + Len(x.C) <= Len(w_text)
         /\ \A k \in 1 .. Len(x.C) : x.C[k] = w_text[a + k]
         /\ x.Zw = TRUE => Len(x.C) > 0 /\ w_text[a + 1] # Words!Blank
  PROVE  ReadTo(w_text, Append(fs, x), a + Len(x.C))
<1>1. Len(w_text) \in Nat /\ x.C \in Texts /\ Len(x.C) \in Nat /\ Len(fs) \in Nat
  BY DEF Texts, Frags
<1>2. SubSeq(w_text, a + 1, a + Len(x.C)) = x.C
  BY <1>1, SamePart
<1>3. Append(fs, x)[Len(fs) + 1] = x
  OBVIOUS
<1>4. Begins(w_text, Append(fs, x), Len(fs) + 1, a) = a
  <2> DEFINE gs == Append(fs, x)
             n == Len(fs) + 1
  <2>1. a \in 0 .. Len(w_text) /\ (x.Zw = TRUE => a < Len(w_text) /\ w_text[a + 1] # Words!Blank)
    BY <1>1
  <2>2. gs[n].Zw = TRUE => a < Len(w_text) /\ w_text[a + 1] # Words!Blank
    BY <1>3, <2>1
  <2> HIDE DEF gs, n
  <2>3. Begins(w_text, gs, n, a) = a
    BY <2>1, <2>2, NoGap
  <2>4. QED
    BY <2>3 DEF gs, n
<1>5. a + Len(x.C) \in 0 .. Len(w_text)
  BY <1>1
<1>6. QED
  BY <1>2, <1>4, <1>5, ReadOn

-----------------------------------------------------------------------------
(* The names a word is cut into.                                           *)

Known == {n \in Texts : n \in DOMAIN w_dict}

Emotes(c) == [k \in DOMAIN c |-> Words!Emote(c[k])]

\* The emote of a name is a fragment with the name as its text.
LEMMA EmoteIs ==
  ASSUME w_dict \in Words!Dictionaries, NEW x \in Known
  PROVE  Words!Emote(x) \in Frags /\ Words!Emote(x).C = x
<1>1. w_dict[x] \in BOOLEAN
  BY DEF Words!Dictionaries, Known
<1>2. x \in Texts
  BY DEF Known
<1>3. QED
  BY <1>1, <1>2 DEF Words!Emote, Words!Fragment, Frags

\* The emotes of names are fragments, as many.
LEMMA EmotesAre ==
  ASSUME w_dict \in Words!Dictionaries, NEW c \in Seq(Known)
  PROVE  Emotes(c) \in Seq(Frags) /\ Len(Emotes(c)) = Len(c)
<1>1. PICK n \in Nat : n = Len(c)
  OBVIOUS
<1>2. DOMAIN c = 1 .. n /\ \A k \in 1 .. n : c[k] \in Known
  BY <1>1
<1>3. \A k \in 1 .. n : Words!Emote(c[k]) \in Frags
  BY <1>2, EmoteIs
<1>4. Emotes(c) \in [1 .. n -> Frags]
  BY <1>2, <1>3 DEF Emotes
<1>5. QED
  BY <1>1, <1>4

\* The emote of the first name comes first.
LEMMA EmotesOn ==
  ASSUME w_dict \in Words!Dictionaries, NEW c \in Seq(Known), NEW x \in Known,
         NEW fs \in Seq(Frags)
  PROVE  fs \o Emotes(<<x>> \o c) = Append(fs, Words!Emote(x)) \o Emotes(c)
<1> DEFINE e == Words!Emote(x)
           g == Emotes(c)
           d == <<x>> \o c
           h == Emotes(d)
<1>1. e \in Frags /\ g \in Seq(Frags) /\ Len(g) = Len(c)
  BY EmoteIs, EmotesAre
<1>2. d \in Seq(Known) /\ Len(d) = Len(c) + 1 /\ d[1] = x
      /\ \A k \in 1 .. Len(c) : d[k + 1] = c[k]
  OBVIOUS
<1> HIDE DEF d
<1>3. h \in Seq(Frags) /\ Len(h) = Len(c) + 1 /\ \A k \in 1 .. Len(c) + 1 : h[k] = Words!Emote(d[k])
  <2>1. h \in Seq(Frags) /\ Len(h) = Len(c) + 1
    BY <1>2, EmotesAre
  <2>2. DOMAIN d = 1 .. Len(c) + 1
    BY <1>2
  <2>3. QED
    BY <2>1, <2>2 DEF Emotes
<1>4. \A k \in 1 .. Len(c) : g[k] = Words!Emote(c[k])
  <2>1. DOMAIN c = 1 .. Len(c)
    OBVIOUS
  <2>2. QED
    BY <2>1 DEF Emotes
<1>5. h[1] = e /\ \A k \in 1 .. Len(c) : h[k + 1] = g[k]
  <2>1. 1 \in 1 .. Len(c) + 1 /\ \A k \in 1 .. Len(c) : k + 1 \in 1 .. Len(c) + 1
    OBVIOUS
  <2>2. QED
    BY <1>2, <1>3, <1>4, <2>1
<1> HIDE DEF e, g, h
<1>6. fs \o h = Append(fs, e) \o g
  <2>1. PICK n \in Nat : n = Len(fs)
    OBVIOUS
  <2>2. PICK m \in Nat : m = Len(c)
    OBVIOUS
  <2> DEFINE l == fs \o h
             r == Append(fs, e) \o g
  <2>3. /\ l \in Seq(Frags) /\ Len(l) = n + (m + 1)
        /\ \A k \in 1 .. n : l[k] = fs[k]
        /\ \A k \in 1 .. m + 1 : l[n + k] = h[k]
    BY <1>3, <2>1, <2>2
  <2>4. /\ Append(fs, e) \in Seq(Frags) /\ Len(Append(fs, e)) = n + 1
        /\ \A k \in 1 .. n : Append(fs, e)[k] = fs[k]
        /\ Append(fs, e)[n + 1] = e
    BY <1>1, <2>1
  <2>5. /\ r \in Seq(Frags) /\ Len(r) = (n + 1) + m
        /\ \A k \in 1 .. n + 1 : r[k] = Append(fs, e)[k]
        /\ \A k \in 1 .. m : r[(n + 1) + k] = g[k]
    BY <1>1, <2>2, <2>4
  <2> HIDE DEF l, r
  <2>6. ASSUME NEW k \in 1 .. n + (m + 1) PROVE l[k] = r[k]
    <3>1. CASE k \in 1 .. n
      <4>1. k \in 1 .. n + 1
        BY <3>1
      <4>2. QED
        BY <2>3, <2>4, <2>5, <3>1, <4>1
    <3>2. CASE k = n + 1
      <4>1. 1 \in 1 .. m + 1 /\ n + 1 \in 1 .. n + 1
        OBVIOUS
      <4>2. QED
        BY <1>5, <2>3, <2>4, <2>5, <3>2, <4>1
    <3>3. CASE k > n + 1
      <4>1. PICK j \in 1 .. m : k = (n + 1) + j /\ k = n + (j + 1) /\ j + 1 \in 1 .. m + 1
        <5>1. k - (n + 1) \in 1 .. m
          BY <3>3
        <5>2. QED
          BY <5>1
      <4>2. l[k] = h[j + 1] /\ r[k] = g[j]
        BY <2>3, <2>5, <4>1
      <4>3. QED
        BY <1>5, <2>2, <4>1, <4>2
    <3>4. QED
      BY <3>1, <3>2, <3>3
  <2>7. Len(r) = n + (m + 1) /\ Len(l) \in Nat
    BY <2>3, <2>5
  <2>8. l = r
    BY <2>3, <2>5, <2>6, <2>7, SeqEqual
  <2>9. QED
    BY <2>8 DEF l, r
<1>7. QED
  BY <1>6 DEF d, e, g, h

ChainStep(w, f, k) ==
  IF k = Len(w) THEN {<<>>}
  ELSE UNION {{<<Words!First(Words!From(w, k), n)>> \o c : c \in f[k + n]} :
                n \in Words!Longest(Words!Overlays(Words!From(w, k)))}

\* The names go on in the word.
LEMMA OverlaysIn ==
  ASSUME NEW w \in Texts, NEW k \in 0 .. Len(w),
         NEW n \in Words!Longest(Words!Overlays(Words!From(w, k)))
  PROVE  /\ n \in 1 .. Len(w) - k /\ k + n \in 0 .. Len(w) /\ k + n > k
         /\ Words!First(Words!From(w, k), n) \in Known
         /\ Len(Words!First(Words!From(w, k), n)) = n
         /\ \A j \in 1 .. n : Words!First(Words!From(w, k), n)[j] = w[k + j]
<1> DEFINE s == Words!From(w, k)
<1>1. PICK m \in Nat : m = Len(w)
  BY DEF Texts
<1>2. s \in Texts /\ Len(s) = m - k /\ \A j \in 1 .. m - k : s[j] = w[k + j]
  BY <1>1, Halves DEF Texts
<1> HIDE DEF s
<1>3. n \in 1 .. Len(s) /\ Words!First(s, n) \in DOMAIN w_dict
  <2>1. n \in Words!Longest(Words!Overlays(s))
    BY DEF s
  <2>2. QED
    BY <2>1 DEF Words!Longest, Words!Overlays, Words!Match
<1>4. n \in 1 .. m - k /\ n \in 0 .. Len(s) /\ k \in 0 .. m
  BY <1>1, <1>2, <1>3
<1>5. k + n \in 0 .. m /\ k + n > k
  BY <1>1, <1>4
<1>6. /\ Words!First(s, n) \in Texts /\ Len(Words!First(s, n)) = n
      /\ \A j \in 1 .. n : Words!First(s, n)[j] = s[j]
  BY <1>2, <1>4, Halves DEF Texts
<1>7. \A j \in 1 .. n : Words!First(s, n)[j] = w[k + j]
  <2>1. \A j \in 1 .. n : j \in 1 .. m - k
    BY <1>1, <1>4
  <2>2. QED
    BY <1>2, <1>6, <2>1
<1>8. Words!First(s, n) \in Known
  BY <1>3, <1>6 DEF Known
<1>9. QED
  BY <1>1, <1>4, <1>5, <1>6, <1>7, <1>8 DEF s

\* The chains from a place depend on those from the places after it.
LEMMA ChainsBefore ==
  ASSUME NEW w \in Texts, NEW k \in 0 .. Len(w), NEW f, NEW g,
         \A j \in 0 .. Len(w) : j > k => f[j] = g[j]
  PROVE  ChainStep(w, f, k) = ChainStep(w, g, k)
<1> DEFINE ns == Words!Longest(Words!Overlays(Words!From(w, k)))
<1>1. \A n \in ns : f[k + n] = g[k + n]
  BY OverlaysIn
<1> HIDE DEF ns
<1>2. UNION {{<<Words!First(Words!From(w, k), n)>> \o c : c \in f[k + n]} : n \in ns}
        = UNION {{<<Words!First(Words!From(w, k), n)>> \o c : c \in g[k + n]} : n \in ns}
  BY <1>1
<1>3. QED
  BY <1>2 DEF ChainStep, ns

\* So they can be written down from the last place to the first.
LEMMA ChainTable ==
  ASSUME NEW w \in Texts
  PROVE  \E f : /\ \A k \in 0 .. Len(w) : f[k] = ChainStep(w, f, k)
                /\ Words!ZeroWidthChain(w) = f[0]
<1>1. PICK m \in Nat : m = Len(w)
  BY DEF Texts
<1> DEFINE Solved(f, i) ==
             /\ f = [k \in 0 .. m |-> f[k]]
             /\ \A k \in 0 .. m : k >= m - i => f[k] = ChainStep(w, f, k)
           T == {i \in Nat : i <= m => \E f : Solved(f, i)}
<1>2. 0 \in T
  <2> DEFINE f == [k \in 0 .. m |-> {<<>>}]
  <2>1. f = [k \in 0 .. m |-> f[k]] /\ f[m] = {<<>>}
    OBVIOUS
  <2>2. ChainStep(w, f, m) = {<<>>}
    BY Zenon, <1>1 DEF ChainStep
  <2>3. \A k \in 0 .. m : k >= m - 0 => k = m
    OBVIOUS
  <2> HIDE DEF f
  <2>4. Solved(f, 0)
    BY <2>1, <2>2, <2>3
  <2>5. QED
    BY <2>4
<1>3. ASSUME NEW i \in Nat, i \in T PROVE i + 1 \in T
  <2> SUFFICES ASSUME i + 1 <= m PROVE \E g : Solved(g, i + 1)
    OBVIOUS
  <2>1. PICK f : Solved(f, i)
    BY <1>1, <1>3
  <2>2. PICK p \in 0 .. m : p = m - (i + 1)
    BY <1>1
  <2> DEFINE g == [k \in 0 .. m |-> IF k = p THEN ChainStep(w, f, p) ELSE f[k]]
  <2>3. /\ g = [k \in 0 .. m |-> g[k]] /\ g[p] = ChainStep(w, f, p)
        /\ \A k \in 0 .. m : k # p => g[k] = f[k]
    OBVIOUS
  <2> HIDE DEF g
  <2>4. ASSUME NEW k \in 0 .. m, k >= p PROVE g[k] = ChainStep(w, g, k)
    <3>1. \A j \in 0 .. Len(w) : j > k => f[j] = g[j]
      BY <1>1, <2>3, <2>4
    <3>2. ChainStep(w, f, k) = ChainStep(w, g, k)
      BY <1>1, <3>1, ChainsBefore
    <3>3. CASE k = p
      BY <2>3, <3>2, <3>3
    <3>4. CASE k # p
      <4>1. k >= m - i
        BY <2>2, <2>4, <3>4
      <4>2. QED
        BY <2>1, <2>3, <3>2, <3>4, <4>1
    <3>5. QED
      BY <3>3, <3>4
  <2>5. Solved(g, i + 1)
    BY <2>2, <2>3, <2>4
  <2>6. QED
    BY <2>5
<1>4. Nat \subseteq T
  <2> HIDE DEF T
  <2>1. QED
    BY <1>2, <1>3, AllNumbers
<1>5. PICK f : Solved(f, m)
  <2>1. m \in T
    BY <1>4
  <2>2. QED
    BY <2>1
<1> DEFINE from[k \in 0 .. Len(w)] == ChainStep(w, from, k)
           Sol(u) == u = [k \in 0 .. Len(w) |-> ChainStep(w, u, k)]
<1>6. Sol(f)
  <2>1. \A k \in 0 .. m : f[k] = ChainStep(w, f, k)
    BY <1>1, <1>5
  <2>2. f = [k \in 0 .. m |-> f[k]]
    BY <1>5
  <2>3. QED
    BY <1>1, <2>1, <2>2
<1>7. from = CHOOSE u : Sol(u)
  OBVIOUS
<1>8. Words!ZeroWidthChain(w) = from[0]
  BY DEF Words!ZeroWidthChain, Words!Chains, ChainStep
<1> HIDE DEF from, Solved
<1>9. Sol(from)
  <2> HIDE DEF Sol
  <2>1. QED
    BY Zenon, <1>6, <1>7
<1>10. \A k \in 0 .. Len(w) : from[k] = ChainStep(w, from, k)
  BY <1>9
<1>11. QED
  BY <1>8, <1>10

\* One name after another: its emote is the text where the reading is.
LEMMA NameReads ==
  ASSUME NEW fs, NEW x, NEW b,
         /\ w_dict \in Words!Dictionaries /\ w_text \in Texts
         /\ fs \in Seq(Frags) /\ x \in Known /\ b \in Nat /\ ReadTo(w_text, fs, b)
         /\ Len(x) > 0 /\ b + Len(x) <= Len(w_text)
         /\ \A j \in 1 .. Len(x) : x[j] = w_text[b + j] /\ x[j] # Words!Blank
  PROVE  ReadTo(w_text, Append(fs, Words!Emote(x)), b + Len(x))
<1> DEFINE e == Words!Emote(x)
<1>1. e \in Frags /\ e.C = x
  BY EmoteIs
<1> HIDE DEF e
<1>2. Len(x) \in Nat
  BY DEF Known, Texts
<1>3. w_text[b + 1] # Words!Blank
  <2>1. 1 \in 1 .. Len(x)
    BY <1>2
  <2>2. QED
    BY <2>1
<1>4. ReadTo(w_text, Append(fs, e), b + Len(e.C))
  BY <1>1, <1>3, Reads
<1>5. QED
  BY <1>1, <1>4 DEF e

\* A word in the text at a, without spaces.
At(w, a) ==
  /\ w \in Texts /\ a \in Nat /\ a + Len(w) <= Len(w_text)
  /\ \A k \in 1 .. Len(w) : w[k] = w_text[a + k] /\ w[k] # Words!Blank

\* The emotes of c are the text from b up to e.
Names(c, b, e) ==
  /\ c \in Seq(Known)
  /\ \A fs \in Seq(Frags) : ReadTo(w_text, fs, b) => ReadTo(w_text, fs \o Emotes(c), e)

\* A name and the names after it.
LEMMA NamesOn ==
  ASSUME NEW x, NEW c, NEW b, NEW e,
         /\ w_dict \in Words!Dictionaries /\ w_text \in Texts
         /\ x \in Known /\ Len(x) > 0 /\ At(x, b) /\ Names(c, b + Len(x), e)
  PROVE  Names(<<x>> \o c, b, e)
<1>1. <<x>> \o c \in Seq(Known)
  BY DEF Names
<1>2. ASSUME NEW fs \in Seq(Frags), ReadTo(w_text, fs, b)
      PROVE  ReadTo(w_text, fs \o Emotes(<<x>> \o c), e)
  <2>1. ReadTo(w_text, Append(fs, Words!Emote(x)), b + Len(x))
    BY <1>2, NameReads DEF At
  <2>2. Append(fs, Words!Emote(x)) \in Seq(Frags)
    BY EmoteIs
  <2>3. ReadTo(w_text, Append(fs, Words!Emote(x)) \o Emotes(c), e)
    BY <2>1, <2>2 DEF Names
  <2>4. c \in Seq(Known)
    BY DEF Names
  <2>5. QED
    BY <2>3, <2>4, EmotesOn
<1>3. QED
  BY <1>1, <1>2 DEF Names

\* No names read nothing.
LEMMA NoNames ==
  ASSUME NEW e
  PROVE  Names(<<>>, e, e)
<1>1. <<>> \in Seq(Known)
  OBVIOUS
<1>2. Emotes(<<>>) = <<>>
  BY DEF Emotes
<1>3. \A fs \in Seq(Frags) : fs \o Emotes(<<>>) = fs
  BY <1>2
<1>4. QED
  BY <1>1, <1>3 DEF Names

\* The chain of a word is the word.
LEMMA ChainReads ==
  ASSUME NEW w, NEW a, w_dict \in Words!Dictionaries /\ w_text \in Texts /\ At(w, a)
  PROVE  \A c \in Words!ZeroWidthChain(w) : Names(c, a, a + Len(w))
<1>1. PICK m \in Nat : m = Len(w) /\ a \in Nat /\ a + m <= Len(w_text)
  BY DEF At, Texts
<1>2. w \in Texts
  BY DEF At
<1>3. PICK f : /\ \A k \in 0 .. m : f[k] = ChainStep(w, f, k)
               /\ Words!ZeroWidthChain(w) = f[0]
  BY <1>1, <1>2, ChainTable
<1> DEFINE P(k) == \A c \in f[k] : Names(c, a + k, a + m)
           T == {i \in Nat : \A k \in 0 .. m : k >= m - i => P(k)}
<1>4. 0 \in T
  <2>1. \A k \in 0 .. m : k >= m - 0 => k = m
    OBVIOUS
  <2>2. m \in 0 .. m
    OBVIOUS
  <2>3. f[m] = {<<>>}
    BY Zenon, <1>1, <1>3, <2>2 DEF ChainStep
  <2>4. P(m)
    BY <2>3, NoNames
  <2>5. QED
    BY <2>1, <2>4
<1>5. ASSUME NEW i \in Nat, i \in T PROVE i + 1 \in T
  <2> SUFFICES ASSUME NEW k \in 0 .. m, k >= m - (i + 1), NEW c \in f[k]
               PROVE  Names(c, a + k, a + m)
    OBVIOUS
  <2>1. CASE k >= m - i
    BY <1>5, <2>1
  <2>2. CASE ~(k >= m - i)
    <3>1. k # m
      BY <2>2
    <3>2. f[k] = UNION {{<<Words!First(Words!From(w, k), n)>> \o d : d \in f[k + n]} :
                          n \in Words!Longest(Words!Overlays(Words!From(w, k)))}
      BY Zenon, <1>1, <1>3, <3>1 DEF ChainStep
    <3>a. PICK n \in Words!Longest(Words!Overlays(Words!From(w, k))) :
                \E d \in f[k + n] : c = <<Words!First(Words!From(w, k), n)>> \o d
      BY <3>2
    <3>3. PICK d \in f[k + n] : c = <<Words!First(Words!From(w, k), n)>> \o d
      BY <3>a
    <3> DEFINE x == Words!First(Words!From(w, k), n)
    <3>4. /\ n \in 1 .. m - k /\ k + n \in 0 .. m /\ x \in Known /\ Len(x) = n
          /\ \A j \in 1 .. n : x[j] = w[k + j]
      BY <1>1, <1>2, <3>3, OverlaysIn
    <3> HIDE DEF x
    <3>5. k + n >= m - i
      BY <2>2, <3>4
    <3>6. Names(d, a + (k + n), a + m)
      BY <1>5, <3>3, <3>4, <3>5
    <3>7. At(x, a + k)
      <4>1. x \in Texts /\ a + k \in Nat
        BY <1>1, <3>4 DEF Known
      <4>2. (a + k) + n <= Len(w_text)
        <5>1. Len(w_text) \in Nat
          BY DEF Texts
        <5>2. QED
          BY <1>1, <3>4, <5>1
      <4>3. \A j \in 1 .. n : /\ k + j \in 1 .. m /\ a + (k + j) = (a + k) + j
        BY <1>1, <3>4
      <4>4. \A j \in 1 .. n : x[j] = w_text[(a + k) + j] /\ x[j] # Words!Blank
        BY <1>1, <3>4, <4>3 DEF At
      <4>5. QED
        BY <3>4, <4>1, <4>2, <4>4 DEF At
    <3>8. a + (k + n) = (a + k) + Len(x) /\ Len(x) > 0
      BY <1>1, <3>4
    <3>9. Names(<<x>> \o d, a + k, a + m)
      BY <3>4, <3>6, <3>7, <3>8, NamesOn
    <3>10. QED
      BY <3>3, <3>9 DEF x
  <2>3. QED
    BY <2>1, <2>2
<1>6. Nat \subseteq T
  <2> HIDE DEF T
  <2>1. QED
    BY <1>4, <1>5, AllNumbers
<1>7. P(0)
  <2>1. m \in T /\ 0 \in 0 .. m /\ 0 >= m - m
    BY <1>6
  <2>2. QED
    BY <2>1
<1>8. a + 0 = a
  BY <1>1
<1>9. QED
  BY <1>1, <1>3, <1>7, <1>8

\* The parts of a word with names glued to its end are the word.
LEMMA PartsRead ==
  ASSUME NEW w, NEW a, w_dict \in Words!Dictionaries /\ w_text \in Texts /\ At(w, a)
  PROVE  \A c \in Words!SplitZeroWidthSuffix(w) : Names(c, a, a + Len(w))
<1> SUFFICES ASSUME NEW c \in Words!SplitZeroWidthSuffix(w) PROVE Names(c, a, a + Len(w))
  OBVIOUS
<1>1. PICK m \in Nat : m = Len(w) /\ a \in Nat /\ a + m <= Len(w_text)
  BY DEF At, Texts
<1>2. PICK n \in 1 .. (Len(w) - 1) : /\ Words!Match(Words!First(w, n))
         /\ \E d \in Words!ZeroWidthChain(Words!From(w, n)) : c = <<Words!First(w, n)>> \o d
  BY DEF Words!SplitZeroWidthSuffix, Words!Longest
<1>3. n \in 1 .. m - 1 /\ n \in 0 .. Len(w)
  BY <1>1, <1>2
<1> DEFINE x == Words!First(w, n)
           s == Words!From(w, n)
<1>4. /\ x \in Texts /\ Len(x) = n /\ \A k \in 1 .. n : x[k] = w[k]
      /\ s \in Texts /\ Len(s) = m - n /\ \A k \in 1 .. m - n : s[k] = w[n + k]
  <2>1. w \in Seq(Words!Runes)
    BY DEF At, Texts
  <2>2. QED
    BY <1>1, <1>3, <2>1, Halves DEF Texts
<1>5. x \in Known
  BY <1>2, <1>4 DEF Known, Words!Match
<1> HIDE DEF x, s
<1>6. Len(w_text) \in Nat
  BY DEF Texts
<1>7. At(x, a)
  <2>1. \A k \in 1 .. n : k \in 1 .. m
    BY <1>3
  <2>2. \A k \in 1 .. n : x[k] = w_text[a + k] /\ x[k] # Words!Blank
    BY <1>1, <1>4, <2>1 DEF At
  <2>3. a + n <= Len(w_text)
    BY <1>1, <1>3, <1>6
  <2>4. QED
    BY <1>1, <1>4, <2>2, <2>3 DEF At
<1>8. At(s, a + n)
  <2>1. \A k \in 1 .. m - n : n + k \in 1 .. m /\ a + (n + k) = (a + n) + k
    BY <1>1, <1>3
  <2>2. \A k \in 1 .. m - n : s[k] = w_text[(a + n) + k] /\ s[k] # Words!Blank
    BY <1>1, <1>4, <2>1 DEF At
  <2>3. (a + n) + (m - n) <= Len(w_text) /\ a + n \in Nat
    BY <1>1, <1>3, <1>6
  <2>4. QED
    BY <1>4, <2>2, <2>3 DEF At
<1>9. PICK d \in Words!ZeroWidthChain(s) : c = <<x>> \o d
  BY <1>2 DEF x, s
<1>10. Names(d, a + n, a + m)
  <2>1. Names(d, a + n, (a + n) + Len(s))
    BY <1>8, <1>9, ChainReads
  <2>2. (a + n) + Len(s) = a + m
    BY <1>1, <1>3, <1>4
  <2>3. QED
    BY <2>1, <2>2
<1>11. Len(x) > 0 /\ a + n = a + Len(x)
  BY <1>3, <1>4
<1>12. Names(<<x>> \o d, a, a + m)
  BY <1>5, <1>7, <1>10, <1>11, NamesOn
<1>13. QED
  BY <1>1, <1>9, <1>12

-----------------------------------------------------------------------------
(* The invariant: the fragments so far read the text up to a place; what   *)
(* is pending comes next in it, then what is left of the piece, and there  *)
(* the text has been cut.                                                  *)

Valid == {s \in Nat \X Nat : s[1] <= s[2]}

WordTypes ==
  /\ w_dict \in Words!Dictionaries \cup {w_None}
  /\ w_text \in Texts /\ w_rest \in Texts /\ w_pending \in Texts
  /\ w_spans \in Seq(Valid) /\ w_cursor \in Nat /\ w_cursor <= Len(w_text)
  /\ w_frags \in Seq(Frags) /\ w_out \in Seq(Frags)

Placed(p) ==
  /\ p \in Nat /\ ReadTo(w_text, w_out \o w_frags, p)
  /\ p + Len(w_pending) + Len(w_rest) = w_cursor
  /\ \A k \in 1 .. Len(w_pending) : w_pending[k] = w_text[p + k]
  /\ \A k \in 1 .. Len(w_rest) : w_rest[k] = w_text[p + Len(w_pending) + k]

WordsInv ==
  /\ WordTypes
  /\ \E p : Placed(p)
  /\ w_spans = <<>> => w_cursor = Len(w_text)
  /\ w_dict = w_None => w_pending = <<>> /\ (w_rest # <<>> => w_frags = <<>>)

\* The last flush is read where the pending text ends.
LEMMA FlushReads ==
  ASSUME NEW p, WordTypes /\ Placed(p)
  PROVE  /\ Words!Flushed \in Seq(Frags)
         /\ ReadTo(w_text, w_out \o Words!Flushed, p + Len(w_pending))
<1>1. PICK l \in Nat : l = Len(w_pending)
  BY DEF WordTypes, Texts
<1>2. CASE w_pending = <<>>
  <2>1. Words!Flushed = w_frags /\ l = 0
    BY <1>1, <1>2 DEF Words!Flushed
  <2>2. QED
    BY <1>1, <2>1 DEF WordTypes, Placed
<1>3. CASE w_pending # <<>>
  <2> DEFINE x == Words!Fragment("text", FALSE, w_pending)
             fs == w_out \o w_frags
  <2>1. x \in Frags /\ x.C = w_pending /\ x.Zw = FALSE
    BY DEF WordTypes, Words!Fragment, Frags
  <2> HIDE DEF x
  <2>2. Words!Flushed = Append(w_frags, x)
    BY <1>3 DEF Words!Flushed, x
  <2>3. w_out \o Append(w_frags, x) = Append(fs, x) /\ fs \in Seq(Frags)
    BY <2>1 DEF WordTypes
  <2>4. p + Len(x.C) <= Len(w_text)
    <3>1. /\ Len(w_rest) \in Nat /\ Len(w_text) \in Nat /\ p \in Nat
          /\ p + l + Len(w_rest) = w_cursor /\ w_cursor <= Len(w_text)
      BY <1>1 DEF WordTypes, Placed, Texts
    <3>2. p + l <= Len(w_text)
      BY <3>1
    <3>3. QED
      BY <1>1, <2>1, <3>2
  <2>5. ReadTo(w_text, Append(fs, x), p + Len(x.C))
    <3>1. /\ w_text \in Texts /\ fs \in Seq(Frags) /\ x \in Frags /\ p \in Nat
          /\ ReadTo(w_text, fs, p)
          /\ \A k \in 1 .. Len(x.C) : x.C[k] = w_text[p + k]
          /\ x.Zw # TRUE
      BY <2>1, <2>3 DEF WordTypes, Placed
    <3> HIDE DEF fs
    <3>2. QED
      BY <2>4, <3>1, Reads
  <2>6. Words!Flushed \in Seq(Frags)
    BY <2>1, <2>2 DEF WordTypes
  <2>7. QED
    BY <2>1, <2>2, <2>3, <2>5, <2>6
<1>4. QED
  BY <1>2, <1>3

\* The word that is read: not empty, and in the text after what is pending.
LEMMA WordIs ==
  ASSUME NEW p, WordTypes /\ Placed(p) /\ Words!AtWord
  PROVE  /\ Len(Words!Word) \in 1 .. Len(w_rest)
         /\ At(Words!Word, p + Len(w_pending))
<1> DEFINE n == Words!Span(w_rest, Words!Runes \ {Words!Blank})
           w == Words!First(w_rest, n)
<1>1. PICK l \in Nat : l = Len(w_pending)
  BY DEF WordTypes, Texts
<1>2. PICK m \in Nat : m = Len(w_rest) /\ \A k \in 1 .. m : w_rest[k] \in Words!Runes
  BY DEF WordTypes, Texts
<1>3. /\ n \in 0 .. m /\ \A k \in 1 .. n : w_rest[k] \in Words!Runes \ {Words!Blank}
      /\ n < m => w_rest[n + 1] \notin Words!Runes \ {Words!Blank}
  BY <1>2, SpanIs DEF WordTypes, Texts
<1>4. m > 0 /\ w_rest[1] \in Words!Runes \ {Words!Blank}
  <2>1. m # 0
    BY <1>2 DEF WordTypes, Texts, Words!AtWord
  <2>2. 1 \in 1 .. m
    BY <2>1
  <2>3. QED
    BY <1>2, <2>2 DEF Words!AtWord
<1> HIDE DEF n
<1>5. n \in 1 .. m
  <2>1. n # 0
    BY <1>3, <1>4
  <2>2. QED
    BY <1>3, <2>1
<1>6. w \in Texts /\ Len(w) = n /\ \A k \in 1 .. n : w[k] = w_rest[k]
  <2>1. n \in 0 .. Len(w_rest) /\ w_rest \in Seq(Words!Runes)
    BY <1>2, <1>3 DEF WordTypes, Texts
  <2>2. QED
    BY <2>1, Halves DEF Texts
<1> HIDE DEF w
<1>7. At(w, p + l)
  <2>1. p + l \in Nat
    BY <1>1 DEF Placed
  <2>2. (p + l) + Len(w) <= Len(w_text)
    <3>1. /\ Len(w_text) \in Nat /\ p \in Nat
          /\ p + l + m = w_cursor /\ w_cursor <= Len(w_text)
      BY <1>1, <1>2 DEF WordTypes, Placed, Texts
    <3>2. QED
      BY <1>5, <1>6, <3>1
  <2>3. \A k \in 1 .. n : w[k] = w_text[(p + l) + k] /\ w[k] # Words!Blank
    <3>1. \A k \in 1 .. n : k \in 1 .. m
      BY <1>5
    <3>2. \A k \in 1 .. m : w_rest[k] = w_text[p + l + k]
      BY <1>1, <1>2 DEF Placed
    <3>3. QED
      BY <1>3, <1>6, <3>1, <3>2
  <2>4. QED
    BY <1>6, <2>1, <2>2, <2>3 DEF At
<1>8. Words!Word = w
  BY DEF Words!Word, w, n
<1>9. QED
  BY <1>1, <1>2, <1>5, <1>6, <1>7, <1>8

\* A word that becomes fragments that read it, and pending text that comes after them.
LEMMA WordBecomes ==
  ASSUME NEW p, NEW q, NEW fs, NEW after,
         /\ WordsInv /\ Placed(p) /\ Words!AtWord /\ Words!Becomes(fs, after)
         /\ fs \in Seq(Frags) /\ after \in Texts /\ q \in Nat
         /\ ReadTo(w_text, w_out \o fs, q)
         /\ q + Len(after) = p + Len(w_pending) + Len(Words!Word)
         /\ \A k \in 1 .. Len(after) : after[k] = w_text[q + k]
  PROVE  WordsInv'
<1>1. PICK l \in Nat : l = Len(w_pending)
  BY DEF WordsInv, WordTypes, Texts
<1>2. PICK m \in Nat : m = Len(w_rest)
  BY DEF WordsInv, WordTypes, Texts
<1>3. PICK n : n = Len(Words!Word)
  OBVIOUS
<1>4. n \in 1 .. m
  BY <1>2, <1>3, WordIs DEF WordsInv
<1>5. PICK r : r = Words!From(w_rest, n)
  OBVIOUS
<1>6. /\ r \in Texts /\ Len(r) = m - n
      /\ \A k \in 1 .. m - n : r[k] = w_rest[n + k]
  <2>1. n \in 0 .. Len(w_rest) /\ w_rest \in Seq(Words!Runes)
    BY <1>2, <1>4 DEF WordsInv, WordTypes, Texts
  <2>2. QED
    BY <1>2, <1>5, <2>1, Halves DEF Texts
<1>7. /\ w_rest' = r /\ w_frags' = fs /\ w_pending' = after
      /\ UNCHANGED <<w_dict, w_text, w_spans, w_cursor, w_out>>
  BY <1>3, <1>5 DEF Words!Becomes
<1>8. WordTypes'
  BY <1>6, <1>7 DEF WordsInv, WordTypes
<1>9. Placed(q)'
  <2>1. PICK j \in Nat : j = Len(after)
    BY DEF Texts
  <2>2. q + j = p + l + n /\ p \in Nat /\ p + l + m = w_cursor
    BY <1>1, <1>2, <1>3, <2>1 DEF Placed
  <2>3. q + j + (m - n) = w_cursor
    BY <1>4, <2>2
  <2>4. \A k \in 1 .. m - n : r[k] = w_text[q + j + k]
    <3>1. \A k \in 1 .. m - n : n + k \in 1 .. m /\ p + l + (n + k) = q + j + k
      BY <1>4, <2>2
    <3>2. \A k \in 1 .. m : w_rest[k] = w_text[p + l + k]
      BY <1>1, <1>2 DEF Placed
    <3>3. QED
      BY <1>6, <3>1, <3>2
  <2>5. QED
    BY <1>6, <1>7, <2>1, <2>3, <2>4 DEF Placed
<1>10. w_dict' # w_None
  BY <1>7 DEF Words!AtWord
<1>11. (w_spans = <<>> => w_cursor = Len(w_text))'
  BY <1>7 DEF WordsInv
<1>12. QED
  BY <1>8, <1>9, <1>10, <1>11 DEF WordsInv

\* The invariant is kept by a word that is nothing but text, ...
LEMMA PlainKept ==
  ASSUME WordsInv, Words!Plain
  PROVE  WordsInv'
<1>1. PICK p : Placed(p)
  BY DEF WordsInv
<1>2. PICK l \in Nat : l = Len(w_pending)
  BY DEF WordsInv, WordTypes, Texts
<1>3. PICK w : w = Words!Word
  OBVIOUS
<1>4. At(w, p + l) /\ Len(w) \in Nat
  BY <1>1, <1>2, <1>3, WordIs DEF WordsInv, Words!Plain, At, Texts
<1>5. PICK after : after = w_pending \o w
  OBVIOUS
<1>6. /\ after \in Texts /\ Len(after) = l + Len(w)
      /\ \A k \in 1 .. l : after[k] = w_pending[k]
      /\ \A k \in 1 .. Len(w) : after[l + k] = w[k]
  BY <1>2, <1>4, <1>5 DEF WordsInv, WordTypes, Texts, At
<1>7. p \in Nat /\ p + Len(after) = p + Len(w_pending) + Len(w)
  BY <1>1, <1>2, <1>4, <1>6 DEF Placed
<1>8. ASSUME NEW k \in 1 .. Len(after) PROVE after[k] = w_text[p + k]
  <2>1. CASE k \in 1 .. l
    BY <1>1, <1>2, <1>6, <2>1 DEF Placed
  <2>2. CASE k \notin 1 .. l
    <3>1. PICK j \in 1 .. Len(w) : k = l + j /\ p + k = (p + l) + j
      <4>1. k - l \in 1 .. Len(w) /\ k = l + (k - l) /\ p + k = (p + l) + (k - l)
        BY <1>4, <1>6, <1>7, <2>2
      <4>2. QED
        BY <4>1
    <3>2. QED
      BY <1>4, <1>6, <3>1 DEF At
  <2>3. QED
    BY <2>1, <2>2
<1>9. Words!AtWord /\ Words!Becomes(w_frags, after)
  BY <1>3, <1>5 DEF Words!Plain
<1>10. PICK fs : fs = w_frags
  OBVIOUS
<1>11. ReadTo(w_text, w_out \o fs, p) /\ fs \in Seq(Frags)
  BY <1>1, <1>10 DEF Placed, WordsInv, WordTypes
<1>12. QED
  BY <1>1, <1>3, <1>6, <1>7, <1>8, <1>9, <1>10, <1>11, WordBecomes

\* ... by a name with zero-width names glued to its end, ...
LEMMA GluedNamesKept ==
  ASSUME WordsInv, Words!GluedNames
  PROVE  WordsInv'
<1>1. PICK p : Placed(p)
  BY DEF WordsInv
<1>2. PICK w : w = Words!Word
  OBVIOUS
<1>3. PICK b : b = p + Len(w_pending)
  OBVIOUS
<1>4. PICK flushed : flushed = Words!Flushed
  OBVIOUS
<1>5. PICK parts : /\ parts \in Words!SplitZeroWidthSuffix(w)
                   /\ Words!Becomes(flushed \o Emotes(parts), <<>>)
  BY <1>2, <1>4 DEF Words!GluedNames, Emotes
<1>6. Words!AtWord /\ w_dict \in Words!Dictionaries /\ w_text \in Texts
  BY DEF Words!GluedNames, Words!AtWord, WordsInv, WordTypes
<1>7. At(w, b)
  BY <1>1, <1>2, <1>3, <1>6, WordIs DEF WordsInv
<1>8. Names(parts, b, b + Len(w))
  BY <1>5, <1>6, <1>7, PartsRead
<1>9. flushed \in Seq(Frags) /\ ReadTo(w_text, w_out \o flushed, b)
  BY <1>1, <1>3, <1>4, FlushReads DEF WordsInv
<1>10. PICK es : es = Emotes(parts) /\ es \in Seq(Frags)
  BY <1>6, <1>8, EmotesAre DEF Names
<1>11. PICK out \in Seq(Frags) : out = w_out
  BY DEF WordsInv, WordTypes
<1>12. ReadTo(w_text, out \o (flushed \o es), b + Len(w))
  <2>1. out \o flushed \in Seq(Frags)
    BY <1>9
  <2>2. ReadTo(w_text, (out \o flushed) \o es, b + Len(w))
    BY <1>8, <1>9, <1>10, <1>11, <2>1 DEF Names
  <2>3. (out \o flushed) \o es = out \o (flushed \o es)
    BY <1>9, <1>10
  <2>4. QED
    BY <2>2, <2>3
<1>13. PICK fs : fs = flushed \o es /\ fs \in Seq(Frags)
  <2>1. flushed \o es \in Seq(Frags)
    BY <1>9, <1>10
  <2>2. QED
    BY <2>1
<1>14. PICK q : q = b + Len(w) /\ q \in Nat /\ q + 0 = q
  BY <1>7 DEF At, Texts
<1>15. <<>> \in Texts /\ Len(<<>>) = 0
  BY DEF Texts
<1>16. /\ Words!Becomes(fs, <<>>) /\ ReadTo(w_text, w_out \o fs, q)
       /\ q + Len(<<>>) = p + Len(w_pending) + Len(Words!Word)
  BY <1>2, <1>3, <1>5, <1>10, <1>11, <1>12, <1>13, <1>14, <1>15
<1>17. \A k \in 1 .. Len(<<>>) : <<>>[k] = w_text[q + k]
  OBVIOUS
<1>18. QED
  BY <1>1, <1>6, <1>13, <1>14, <1>15, <1>16, <1>17, WordBecomes

\* How many blanks there are up to the first rune that is none.
LEMMA BlanksSpan ==
  ASSUME NEW s \in Texts, NEW l \in Nat,
         l < Len(s) /\ (\A k \in 1 .. l : s[k] = Words!Blank) /\ s[l + 1] # Words!Blank
  PROVE  Words!Span(s, {Words!Blank}) = l
<1>1. PICK n \in Nat : n = Len(s) /\ s \in Seq(Words!Runes)
  BY DEF Texts
<1>2. PICK g : g = Words!Span(s, {Words!Blank})
  OBVIOUS
<1>3. /\ g \in 0 .. n /\ \A k \in 1 .. g : s[k] = Words!Blank
      /\ g < n => s[g + 1] # Words!Blank
  <2>1. /\ g \in 0 .. Len(s) /\ \A k \in 1 .. g : s[k] \in {Words!Blank}
        /\ g < Len(s) => s[g + 1] \notin {Words!Blank}
    BY <1>1, <1>2, SpanIs
  <2>2. QED
    BY <1>1, <2>1
<1>4. ~(g > l)
  <2>1. g > l => l + 1 \in 1 .. g
    BY <1>3
  <2>2. QED
    BY <1>3, <2>1
<1>5. ~(g < l)
  <2>1. g < l => g < n /\ g + 1 \in 1 .. l
    BY <1>1, <1>3
  <2>2. QED
    BY <1>3, <2>1
<1>6. QED
  BY <1>2, <1>3, <1>4, <1>5

\* ... by a word that is a name: its emote comes after the last flush, or right after the
\* emote before it and the spaces there, ...
LEMMA WholeWordKept ==
  ASSUME WordsInv, Words!WholeWord
  PROVE  WordsInv'
<1>1. PICK p : Placed(p)
  BY DEF WordsInv
<1>2. PICK w : w = Words!Word
  OBVIOUS
<1>3. PICK l \in Nat : l = Len(w_pending)
  BY DEF WordsInv, WordTypes, Texts
<1>4. PICK b \in Nat : b = p + l
  BY <1>1 DEF Placed
<1>5. Words!AtWord /\ w_dict \in Words!Dictionaries /\ w_text \in Texts
  BY DEF Words!WholeWord, Words!AtWord, WordsInv, WordTypes
<1>6. At(w, b) /\ Len(w) \in 1 .. Len(w_rest)
  BY <1>1, <1>2, <1>3, <1>4, <1>5, WordIs DEF WordsInv
<1>7. PICK m \in Nat : m = Len(w) /\ m > 0
  BY <1>6 DEF At, Texts
<1>8. w \in Known
  BY <1>2, <1>6 DEF Words!WholeWord, Words!Match, At, Known
<1>9. PICK x \in Frags : x = Words!Emote(w) /\ x.C = w
  BY <1>5, <1>8, EmoteIs
<1>10. PICK q \in Nat : q = b + m /\ q + 0 = q
  OBVIOUS
<1>11. <<>> \in Texts /\ Len(<<>>) = 0
  BY DEF Texts
<1>12. PICK out \in Seq(Frags) : out = w_out
  BY DEF WordsInv, WordTypes
<1>13. ASSUME NEW gs \in Seq(Frags), ReadTo(w_text, Append(out \o gs, x), q),
              Words!Becomes(Append(gs, x), <<>>)
       PROVE  WordsInv'
  <2>1. Append(gs, x) \in Seq(Frags) /\ out \o Append(gs, x) = Append(out \o gs, x)
    OBVIOUS
  <2>2. ReadTo(w_text, w_out \o Append(gs, x), q)
    BY <1>12, <1>13, <2>1
  <2>3. PICK fs : fs = Append(gs, x)
    OBVIOUS
  <2>4. /\ fs \in Seq(Frags) /\ ReadTo(w_text, w_out \o fs, q) /\ Words!Becomes(fs, <<>>)
    BY <1>13, <2>1, <2>2, <2>3
  <2>5. q + Len(<<>>) = p + Len(w_pending) + Len(Words!Word)
    BY <1>2, <1>3, <1>4, <1>7, <1>10, <1>11
  <2>6. \A k \in 1 .. Len(<<>>) : <<>>[k] = w_text[q + k]
    OBVIOUS
  <2>7. QED
    BY <1>1, <1>5, <1>11, <2>4, <2>5, <2>6, WordBecomes
<1>14. CASE Words!Swallows(w)
  <2>1. PICK gs \in Seq(Frags) : gs = w_frags /\ gs # <<>> /\ gs[Len(gs)].T = "emote"
    BY <1>14 DEF WordsInv, WordTypes, Words!Swallows, Words!Last
  <2>2. PICK all : all = out \o gs /\ all \in Seq(Frags)
    <3>1. out \o gs \in Seq(Frags)
      OBVIOUS
    <3>2. QED
      BY <3>1
  <2>3. Len(all) + 1 > 1 /\ all[Len(all)].T = "emote"
    BY <2>1, <2>2
  <2>4. ReadTo(w_text, all, p) /\ p \in Nat
    BY <1>1, <1>12, <2>1, <2>2 DEF Placed
  <2>5. \A k \in 1 .. l : w_text[p + k] = Words!Blank
    <3>1. \A k \in 1 .. l : w_pending[k] \in {Words!Blank}
      <4>1. \A k \in 1 .. l : w_pending[k] \in Words!ToSet(w_pending)
        <5>1. DOMAIN w_pending = 1 .. l
          BY <1>3 DEF WordsInv, WordTypes, Texts
        <5>2. QED
          BY <5>1 DEF Words!ToSet
      <4>2. Words!ToSet(w_pending) \subseteq {Words!Blank}
        BY <1>14 DEF Words!Swallows
      <4>3. QED
        BY <4>1, <4>2
    <3>2. QED
      BY <1>1, <1>3, <3>1 DEF Placed
  <2>6. PICK n \in Nat : n = Len(w_text)
    BY <1>5 DEF Texts
  <2>7. b + m <= n
    BY <1>6, <1>7, <2>6 DEF At
  <2>8. Words!Span(Words!From(w_text, p), {Words!Blank}) = l
    <3>1. PICK s : s = Words!From(w_text, p)
      OBVIOUS
    <3>2. s \in Texts /\ Len(s) = n - p /\ \A k \in 1 .. n - p : s[k] = w_text[p + k]
      <4>1. p \in 0 .. Len(w_text) /\ w_text \in Seq(Words!Runes)
        BY <1>4, <1>5, <2>4, <2>6, <2>7 DEF Texts
      <4>2. QED
        BY <2>6, <3>1, <4>1, Halves DEF Texts
    <3>3. l + 1 \in 1 .. n - p /\ s[l + 1] # Words!Blank
      <4>1. l + 1 \in 1 .. n - p /\ p + (l + 1) = b + 1 /\ 1 \in 1 .. m
        BY <1>4, <1>7, <2>4, <2>7
      <4>2. w[1] = w_text[b + 1] /\ w[1] # Words!Blank
        BY <1>6, <1>7, <4>1 DEF At
      <4>3. QED
        BY <3>2, <4>1, <4>2
    <3>4. l < Len(s) /\ \A k \in 1 .. l : s[k] = Words!Blank
      <4>1. l < n - p /\ \A k \in 1 .. l : k \in 1 .. n - p
        BY <2>4, <3>3
      <4>2. QED
        BY <2>5, <3>2, <4>1
    <3>5. QED
      BY <3>1, <3>2, <3>3, <3>4, BlanksSpan
  <2>9. x.Zw = TRUE
    <3>1. w_dict[w] \in BOOLEAN
      BY <1>5, <1>8 DEF Words!Dictionaries, Known
    <3>2. w_dict[w] = TRUE
      BY <1>14, <3>1 DEF Words!Swallows
    <3>3. QED
      BY <1>9, <3>2 DEF Words!Emote, Words!Fragment
  <2>10. Begins(w_text, Append(all, x), Len(all) + 1, p) = b
    <3>1. PICK as : as = Append(all, x)
      OBVIOUS
    <3>2. PICK k \in Nat : k = Len(all)
      BY <2>2
    <3>3. as[k + 1].Zw = TRUE /\ k + 1 > 1 /\ (k + 1) - 1 = k /\ as[k].T = "emote"
      BY <2>3, <2>9, <3>1, <3>2
    <3>4. Begins(w_text, as, k + 1, p) = p + l
      BY <2>8, <3>3 DEF Begins
    <3>5. QED
      BY <1>4, <3>1, <3>2, <3>4
  <2>11. SubSeq(w_text, b + 1, b + m) = x.C
    <3>1. SubSeq(w_text, b + 1, b + Len(w)) = w
      BY <1>5, <1>6, SamePart DEF At
    <3>2. QED
      BY <1>7, <1>9, <3>1
  <2>12. ReadTo(w_text, Append(all, x), q)
    <3>1. q \in 0 .. Len(w_text) /\ q = b + Len(x.C)
      BY <1>7, <1>9, <1>10, <2>6, <2>7
    <3>2. SubSeq(w_text, b + 1, q) = x.C
      BY <1>10, <2>11
    <3>3. QED
      BY <1>5, <2>2, <2>4, <2>10, <3>1, <3>2, ReadOn
  <2>13. Words!Becomes(Append(gs, x), <<>>)
    BY <1>2, <1>9, <1>14, <2>1 DEF Words!WholeWord
  <2>14. QED
    BY <1>13, <2>2, <2>12, <2>13
<1>15. CASE ~Words!Swallows(w)
  <2>1. PICK gs \in Seq(Frags) : gs = Words!Flushed
    BY <1>1, FlushReads DEF WordsInv
  <2>2. ReadTo(w_text, out \o gs, b) /\ out \o gs \in Seq(Frags)
    BY <1>1, <1>3, <1>4, <1>12, <2>1, FlushReads DEF WordsInv
  <2>3. ReadTo(w_text, Append(out \o gs, x), q)
    BY <1>5, <1>6, <1>7, <1>8, <1>9, <1>10, <2>2, NameReads DEF At
  <2>4. Words!Becomes(Append(gs, x), <<>>)
    BY <1>2, <1>9, <1>15, <2>1 DEF Words!WholeWord
  <2>5. QED
    BY <1>13, <2>3, <2>4
<1>16. QED
  BY <1>14, <1>15

\* A mention is part of its word.
LEMMA MentionIs ==
  ASSUME NEW w \in Texts, Len(w) > 0
  PROVE  Words!Mention(w) \in 0 .. Len(w)
<1>1. PICK t : t = Tail(w)
  OBVIOUS
<1>2. PICK m \in Nat : m = Len(w) /\ m > 0
  BY DEF Texts
<1>3. t \in Seq(Words!Runes) /\ Len(t) = m - 1
  <2>1. w \in Seq(Words!Runes) /\ w # <<>>
    BY <1>2 DEF Texts
  <2>2. QED
    BY <1>1, <1>2, <2>1
<1>4. PICK n : n = Words!Span(t, w_Letters)
  OBVIOUS
<1>5. n \in 0 .. m - 1
  BY <1>3, <1>4, SpanIs
<1>6. Words!Mention(w) = 0 \/ Words!Mention(w) = n + 1
  BY Zenon, <1>1, <1>4 DEF Words!Mention
<1>7. QED
  BY <1>2, <1>5, <1>6

\* ... by a mention, ...
LEMMA MentionedKept ==
  ASSUME WordsInv, Words!Mentioned
  PROVE  WordsInv'
<1>1. PICK p : Placed(p)
  BY DEF WordsInv
<1>2. PICK w : w = Words!Word
  OBVIOUS
<1>3. PICK l \in Nat : l = Len(w_pending)
  BY DEF WordsInv, WordTypes, Texts
<1>4. PICK b \in Nat : b = p + l
  BY <1>1 DEF Placed
<1>5. Words!AtWord /\ w_text \in Texts
  BY DEF Words!Mentioned, WordsInv, WordTypes
<1>6. At(w, b) /\ Len(w) \in 1 .. Len(w_rest)
  BY <1>1, <1>2, <1>3, <1>4, <1>5, WordIs DEF WordsInv
<1>7. PICK m \in Nat : m = Len(w) /\ m > 0
  BY <1>6 DEF At, Texts
<1>8. PICK n \in 1 .. m : n = Words!Mention(w)
  <2>1. Words!Mention(w) \in 0 .. m
    BY <1>6, <1>7, MentionIs DEF At
  <2>2. Words!Mention(w) > 0
    BY <1>2 DEF Words!Mentioned
  <2>3. QED
    BY <2>1, <2>2
<1>9. PICK c : c = Words!First(w, n)
  OBVIOUS
<1>10. PICK after : after = Words!From(w, n)
  OBVIOUS
<1>11. /\ c \in Texts /\ Len(c) = n /\ \A k \in 1 .. n : c[k] = w[k]
       /\ after \in Texts /\ Len(after) = m - n /\ \A k \in 1 .. m - n : after[k] = w[n + k]
  <2>1. w \in Seq(Words!Runes) /\ n \in 0 .. Len(w)
    BY <1>6, <1>7 DEF At, Texts
  <2>2. QED
    BY <1>7, <1>9, <1>10, <2>1, Halves DEF Texts
<1>12. PICK x : x = Words!Fragment("mention", FALSE, c)
  OBVIOUS
<1>13. x \in Frags /\ x.C = c /\ x.Zw = FALSE
  BY <1>11, <1>12 DEF Words!Fragment, Frags
<1>14. PICK gs \in Seq(Frags) : gs = Words!Flushed
  BY <1>1, FlushReads DEF WordsInv
<1>15. PICK out \in Seq(Frags) : out = w_out
  BY DEF WordsInv, WordTypes
<1>16. PICK all : all = out \o gs /\ all \in Seq(Frags)
  <2>1. out \o gs \in Seq(Frags)
    OBVIOUS
  <2>2. QED
    BY <2>1
<1>17. ReadTo(w_text, all, b)
  BY <1>1, <1>3, <1>4, <1>14, <1>15, <1>16, FlushReads DEF WordsInv
<1>18. PICK q \in Nat : q = b + n
  OBVIOUS
<1>19. ReadTo(w_text, Append(all, x), q)
  <2>1. b + Len(x.C) <= Len(w_text)
    <3>1. b + m <= Len(w_text) /\ Len(w_text) \in Nat
      BY <1>5, <1>6, <1>7 DEF At, Texts
    <3>2. QED
      BY <1>11, <1>13, <3>1
  <2>2. \A k \in 1 .. Len(x.C) : x.C[k] = w_text[b + k]
    <3>1. \A k \in 1 .. n : k \in 1 .. m
      OBVIOUS
    <3>2. QED
      BY <1>6, <1>7, <1>11, <1>13, <3>1 DEF At
  <2>3. b + Len(x.C) = q
    BY <1>11, <1>13, <1>18
  <2>4. QED
    BY <1>5, <1>13, <1>16, <1>17, <2>1, <2>2, <2>3, Reads
<1>20. PICK fs : fs = Append(gs, x)
  OBVIOUS
<1>21. fs \in Seq(Frags) /\ out \o fs = Append(all, x)
  BY <1>13, <1>16, <1>20
<1>22. Words!Becomes(fs, after)
  BY <1>2, <1>8, <1>9, <1>10, <1>12, <1>14, <1>20 DEF Words!Mentioned
<1>23. q + Len(after) = p + Len(w_pending) + Len(Words!Word)
  BY <1>2, <1>3, <1>4, <1>7, <1>11, <1>18
<1>24. \A k \in 1 .. Len(after) : after[k] = w_text[q + k]
  <2>1. \A k \in 1 .. m - n : n + k \in 1 .. m /\ b + (n + k) = q + k
    BY <1>18
  <2>2. QED
    BY <1>6, <1>7, <1>11, <2>1 DEF At
<1>25. QED
  BY <1>1, <1>5, <1>11, <1>15, <1>19, <1>21, <1>22, <1>23, <1>24, WordBecomes

\* ... by the spaces between words, ...
LEMMA SpacesKept ==
  ASSUME WordsInv, Words!Spaces
  PROVE  WordsInv'
<1>1. PICK p : Placed(p)
  BY DEF WordsInv
<1>2. PICK l \in Nat : l = Len(w_pending)
  BY DEF WordsInv, WordTypes, Texts
<1>3. PICK m \in Nat : m = Len(w_rest)
  BY DEF WordsInv, WordTypes, Texts
<1>4. PICK n : n = Words!Span(w_rest, {Words!Blank})
  OBVIOUS
<1>5. n \in 0 .. m
  BY <1>3, <1>4, SpanIs DEF WordsInv, WordTypes, Texts
<1>6. PICK c : c = Words!First(w_rest, n)
  OBVIOUS
<1>7. PICK r : r = Words!From(w_rest, n)
  OBVIOUS
<1>8. /\ c \in Texts /\ Len(c) = n /\ \A k \in 1 .. n : c[k] = w_rest[k]
      /\ r \in Texts /\ Len(r) = m - n /\ \A k \in 1 .. m - n : r[k] = w_rest[n + k]
  <2>1. w_rest \in Seq(Words!Runes) /\ n \in 0 .. Len(w_rest)
    BY <1>3, <1>5 DEF WordsInv, WordTypes, Texts
  <2>2. QED
    BY <1>3, <1>6, <1>7, <2>1, Halves DEF Texts
<1>9. PICK after : after = w_pending \o c
  OBVIOUS
<1>10. /\ after \in Texts /\ Len(after) = l + n
       /\ \A k \in 1 .. l : after[k] = w_pending[k]
       /\ \A k \in 1 .. n : after[l + k] = c[k]
  <2>1. PICK u \in Seq(Words!Runes) : u = w_pending
    BY DEF WordsInv, WordTypes, Texts
  <2>2. c \in Seq(Words!Runes)
    BY <1>8 DEF Texts
  <2>3. /\ u \o c \in Seq(Words!Runes) /\ Len(u \o c) = Len(u) + Len(c)
        /\ \A k \in 1 .. Len(u) : (u \o c)[k] = u[k]
        /\ \A k \in 1 .. Len(c) : (u \o c)[Len(u) + k] = c[k]
    BY <2>2
  <2>4. QED
    BY <1>2, <1>8, <1>9, <2>1, <2>3 DEF Texts
<1>11. /\ w_pending' = after /\ w_rest' = r /\ w_dict # w_None
       /\ UNCHANGED <<w_dict, w_text, w_spans, w_cursor, w_frags, w_out>>
  BY <1>4, <1>6, <1>7, <1>9 DEF Words!Spaces
<1>12. p \in Nat /\ p + l + m = w_cursor
  BY <1>1, <1>2, <1>3 DEF Placed
<1>13. \A k \in 1 .. l + n : after[k] = w_text[p + k]
  <2> SUFFICES ASSUME NEW k \in 1 .. l + n PROVE after[k] = w_text[p + k]
    OBVIOUS
  <2>1. CASE k \in 1 .. l
    BY <1>1, <1>2, <1>10, <2>1 DEF Placed
  <2>2. CASE k \notin 1 .. l
    <3>1. PICK j \in 1 .. n : k = l + j /\ p + k = p + l + j /\ j \in 1 .. m
      <4>1. k - l \in 1 .. n /\ k = l + (k - l) /\ p + k = p + l + (k - l) /\ k - l \in 1 .. m
        BY <1>5, <1>12, <2>2
      <4>2. QED
        BY <4>1
    <3>2. QED
      BY <1>1, <1>2, <1>3, <1>8, <1>10, <3>1 DEF Placed
  <2>3. QED
    BY <2>1, <2>2
<1>14. \A k \in 1 .. m - n : r[k] = w_text[p + (l + n) + k]
  <2>1. \A k \in 1 .. m - n : n + k \in 1 .. m /\ p + l + (n + k) = p + (l + n) + k
    BY <1>5, <1>12
  <2>2. \A k \in 1 .. m : w_rest[k] = w_text[p + l + k]
    BY <1>1, <1>2, <1>3 DEF Placed
  <2>3. QED
    BY <1>8, <2>1, <2>2
<1>15. p + (l + n) + (m - n) = w_cursor
  BY <1>5, <1>12
<1>16. Placed(p)'
  BY <1>1, <1>8, <1>10, <1>11, <1>13, <1>14, <1>15 DEF Placed
<1>17. WordTypes'
  BY <1>8, <1>10, <1>11 DEF WordsInv, WordTypes
<1>18. QED
  BY <1>11, <1>16, <1>17 DEF WordsInv

\* ... by a piece without a dictionary, ...
LEMMA UnloadedKept ==
  ASSUME WordsInv, Words!Unloaded
  PROVE  WordsInv'
<1>1. PICK p : Placed(p)
  BY DEF WordsInv
<1>2. PICK m \in Nat : m = Len(w_rest)
  BY DEF WordsInv, WordTypes, Texts
<1>3. PICK out \in Seq(Frags) : out = w_out
  BY DEF WordsInv, WordTypes
<1>4. w_pending = <<>> /\ w_frags = <<>> /\ Len(w_pending) = 0
  BY DEF WordsInv, Words!Unloaded
<1>5. PICK x : x = Words!Fragment("text", FALSE, w_rest)
  OBVIOUS
<1>6. x \in Frags /\ x.C = w_rest /\ x.Zw = FALSE
  BY <1>5 DEF WordsInv, WordTypes, Words!Fragment, Frags
<1>7. /\ w_rest' = <<>> /\ w_frags' = <<x>> /\ w_dict' = w_None
      /\ UNCHANGED <<w_dict, w_text, w_spans, w_cursor, w_pending, w_out>>
  BY <1>5 DEF Words!Unloaded
<1>8. p \in Nat /\ p + m = w_cursor /\ ReadTo(w_text, out, p)
  <2>1. p \in Nat /\ p + 0 + m = w_cursor
    BY <1>1, <1>2, <1>4 DEF Placed
  <2>2. w_out \o w_frags = out
    BY <1>3, <1>4
  <2>3. QED
    BY <1>1, <2>1, <2>2 DEF Placed
<1>9. ReadTo(w_text, Append(out, x), p + m)
  <2>1. p + Len(x.C) <= Len(w_text) /\ p + Len(x.C) = p + m
    BY <1>2, <1>6, <1>8 DEF WordsInv, WordTypes
  <2>2. \A k \in 1 .. m : w_rest[k] = w_text[p + k]
    <3>1. \A k \in 1 .. m : p + 0 + k = p + k
      BY <1>8
    <3>2. QED
      BY <1>1, <1>2, <1>4, <3>1 DEF Placed
  <2>3. \A k \in 1 .. Len(x.C) : x.C[k] = w_text[p + k]
    BY <1>2, <1>6, <2>2
  <2>4. w_text \in Texts
    BY DEF WordsInv, WordTypes
  <2>5. QED
    BY <1>6, <1>8, <2>1, <2>3, <2>4, Reads
<1>10. out \o <<x>> = Append(out, x)
  BY <1>6
<1>11. <<>> \in Texts /\ Len(<<>>) = 0
  BY DEF Texts
<1>12. PICK q \in Nat : q = p + m /\ q + 0 + 0 = w_cursor
  <2>1. (p + m) + 0 + 0 = w_cursor /\ p + m \in Nat
    BY <1>8
  <2>2. QED
    BY <2>1
<1>13. ReadTo(w_text, w_out \o <<x>>, q)
  BY <1>3, <1>9, <1>10, <1>12
<1>14. Placed(q)'
  BY <1>4, <1>7, <1>11, <1>12, <1>13 DEF Placed
<1>15. WordTypes'
  <2>1. <<x>> \in Seq(Frags)
    BY <1>6
  <2>2. QED
    BY <1>7, <1>11, <2>1 DEF WordsInv, WordTypes
<1>16. QED
  BY <1>4, <1>7, <1>14, <1>15 DEF WordsInv

\* ... by the end of a piece, ...
LEMMA PieceEndsKept ==
  ASSUME WordsInv, Words!PieceEnds
  PROVE  WordsInv'
<1>1. PICK p : Placed(p)
  BY DEF WordsInv
<1>2. PICK l \in Nat : l = Len(w_pending)
  BY DEF WordsInv, WordTypes, Texts
<1>3. PICK gs \in Seq(Frags) : gs = Words!Flushed
  BY <1>1, FlushReads DEF WordsInv
<1>4. PICK out \in Seq(Frags) : out = w_out
  BY DEF WordsInv, WordTypes
<1>5. PICK all : all = out \o gs /\ all \in Seq(Frags)
  <2>1. out \o gs \in Seq(Frags)
    OBVIOUS
  <2>2. QED
    BY <2>1
<1>6. ReadTo(w_text, all, p + l)
  BY <1>1, <1>2, <1>3, <1>4, <1>5, FlushReads DEF WordsInv
<1>7. /\ w_out' = all /\ w_frags' = <<>> /\ w_pending' = <<>> /\ w_rest = <<>>
      /\ UNCHANGED <<w_dict, w_text, w_spans, w_cursor, w_rest>>
  BY <1>3, <1>4, <1>5 DEF Words!PieceEnds
<1>8. <<>> \in Texts /\ Len(<<>>) = 0 /\ <<>> \in Seq(Frags)
  BY DEF Texts
<1>9. PICK q \in Nat : q = p + l /\ q + 0 + 0 = w_cursor
  <2>1. p \in Nat /\ p + l + 0 = w_cursor
    BY <1>1, <1>2, <1>7, <1>8 DEF Placed
  <2>2. p + l \in Nat /\ (p + l) + 0 + 0 = w_cursor
    BY <2>1
  <2>3. QED
    BY <2>2
<1>10. all \o <<>> = all
  BY <1>5
<1>11. ReadTo(w_text, all \o <<>>, q)
  BY <1>6, <1>9, <1>10
<1>12. Placed(q)'
  BY <1>7, <1>8, <1>9, <1>11 DEF Placed
<1>13. WordTypes'
  BY <1>5, <1>7, <1>8 DEF WordsInv, WordTypes
<1>14. QED
  BY <1>7, <1>12, <1>13 DEF WordsInv

\* Between two pieces the text is read as far as it has been cut.
LEMMA BetweenReads ==
  ASSUME WordsInv, Words!BetweenPieces
  PROVE  ReadTo(w_text, w_out, w_cursor)
<1>1. PICK p : Placed(p)
  BY DEF WordsInv
<1>2. PICK out \in Seq(Frags) : out = w_out
  BY DEF WordsInv, WordTypes
<1>3. w_rest = <<>> /\ w_frags = <<>> /\ w_pending = <<>> /\ Len(<<>>) = 0
  BY DEF Words!BetweenPieces
<1>4. p \in Nat /\ p + 0 + 0 = w_cursor
  BY <1>1, <1>3 DEF Placed
<1>5. p = w_cursor
  BY <1>4
<1>6. w_out \o w_frags = w_out
  BY <1>2, <1>3
<1>7. QED
  BY <1>1, <1>5, <1>6 DEF Placed

\* The next piece begins where the fragments end.
LEMMA NextPiece ==
  ASSUME NEW p \in Nat, NEW e \in Nat,
         /\ WordsInv /\ w_frags = <<>> /\ w_pending = <<>>
         /\ ReadTo(w_text, w_out', p) /\ w_out' \in Seq(Frags)
         /\ p <= e /\ e <= Len(w_text)
         /\ w_rest' \in Texts /\ Len(w_rest') = e - p
         /\ \A k \in 1 .. e - p : w_rest'[k] = w_text[p + k]
         /\ w_cursor' = e /\ w_spans' \in Seq(Valid)
         /\ w_spans' = <<>> => e = Len(w_text)
         /\ UNCHANGED <<w_dict, w_text, w_pending, w_frags>>
  PROVE  WordsInv'
<1>1. PICK out : out = w_out' /\ out \in Seq(Frags)
  OBVIOUS
<1>2. PICK r : r = w_rest' /\ r \in Texts
  OBVIOUS
<1>3. out \o <<>> = out
  BY <1>1
<1>4. w_frags' = <<>> /\ w_pending' = <<>> /\ Len(<<>>) = 0 /\ <<>> \in Seq(Frags) /\ <<>> \in Texts
  BY DEF Texts
<1>5. p + 0 + (e - p) = e /\ \A k \in 1 .. e - p : p + 0 + k = p + k
  OBVIOUS
<1>6. Placed(p)'
  <2>1. ReadTo(w_text', out \o <<>>, p)
    BY <1>1, <1>3
  <2>2. (w_out \o w_frags)' = out \o <<>>
    BY <1>1, <1>4
  <2>3. p + Len(w_pending') + Len(w_rest') = w_cursor'
    BY <1>4, <1>5
  <2>4. \A k \in 1 .. Len(w_pending') : w_pending'[k] = w_text'[p + k]
    BY <1>4
  <2>5. \A k \in 1 .. Len(w_rest') : w_rest'[k] = w_text'[p + Len(w_pending') + k]
    BY <1>4, <1>5
  <2>6. QED
    BY <2>1, <2>2, <2>3, <2>4, <2>5 DEF Placed
<1>7. WordTypes'
  BY <1>4 DEF WordsInv, WordTypes
<1>8. QED
  BY <1>4, <1>6, <1>7 DEF WordsInv

\* What is known between two pieces.
LEMMA SpansAre ==
  ASSUME WordsInv, Words!BetweenPieces
  PROVE  /\ Head(w_spans) \in Valid /\ Tail(w_spans) \in Seq(Valid)
         /\ w_text \in Seq(Words!Runes) /\ w_cursor \in 0 .. Len(w_text)
         /\ w_rest = <<>> /\ w_frags = <<>> /\ w_pending = <<>> /\ w_out \in Seq(Frags)
<1>1. w_spans \in Seq(Valid) /\ w_spans # <<>>
  BY DEF WordsInv, WordTypes, Words!BetweenPieces
<1>2. Head(w_spans) \in Valid /\ Tail(w_spans) \in Seq(Valid)
  BY <1>1
<1>3. w_cursor \in 0 .. Len(w_text)
  BY DEF WordsInv, WordTypes, Texts
<1>4. QED
  BY <1>2, <1>3 DEF WordsInv, WordTypes, Words!BetweenPieces, Texts

\* ... by a span that is skipped, ...
LEMMA SkipSpanKept ==
  ASSUME WordsInv, Words!SkipSpan
  PROVE  WordsInv'
<1>1. Words!BetweenPieces /\ w_spans' = Tail(w_spans)
  BY DEF Words!SkipSpan
<1>2. ReadTo(w_text, w_out, w_cursor)
  BY <1>1, BetweenReads
<1>3. PICK p : p = w_cursor
  OBVIOUS
<1>4. PICK n \in Nat : n = Len(w_text) /\ p \in 0 .. n
  BY <1>1, <1>3, SpansAre
<1>5. UNCHANGED <<w_dict, w_text, w_pending, w_frags, w_out>>
  BY DEF Words!SkipSpan
<1>6. /\ w_frags = <<>> /\ w_pending = <<>> /\ ReadTo(w_text, w_out', p)
      /\ w_out' \in Seq(Frags) /\ w_spans' \in Seq(Valid)
  BY <1>1, <1>2, <1>3, <1>5, SpansAre
<1>7. CASE w_spans' = <<>>
  <2>1. w_cursor' = n /\ w_rest' = Words!From(w_text, p)
    BY <1>3, <1>4, <1>7 DEF Words!SkipSpan, Words!LastPiece
  <2>2. /\ w_rest' \in Texts /\ Len(w_rest') = n - p
        /\ \A k \in 1 .. n - p : w_rest'[k] = w_text[p + k]
    BY <1>1, <1>4, <2>1, SpansAre, Halves DEF Texts
  <2>3. p \in Nat /\ p <= n /\ n <= Len(w_text) /\ n = Len(w_text)
    BY <1>4
  <2>4. QED
    BY <1>5, <1>6, <2>1, <2>2, <2>3, NextPiece
<1>8. CASE w_spans' # <<>>
  <2>1. w_cursor' = p /\ w_rest' = <<>>
    BY <1>1, <1>3, <1>8, SpansAre DEF Words!SkipSpan, Words!LastPiece
  <2>2. <<>> \in Texts /\ Len(<<>>) = p - p /\ p \in Nat /\ \A k \in 1 .. p - p : FALSE
    BY <1>4 DEF Texts
  <2>3. \A k \in 1 .. p - p : w_rest'[k] = w_text[p + k]
    BY <2>2
  <2>4. w_rest' \in Texts /\ Len(w_rest') = p - p
    BY <2>1, <2>2
  <2>5. QED
    BY <1>4, <1>5, <1>6, <1>8, <2>1, <2>2, <2>3, <2>4, NextPiece
<1>9. QED
  BY <1>7, <1>8

\* ... by a piece that is cut off, ...
LEMMA CutPieceKept ==
  ASSUME WordsInv, Words!CutPiece
  PROVE  WordsInv'
<1>1. Words!BetweenPieces
  BY DEF Words!CutPiece
<1>2. PICK p : p = w_cursor
  OBVIOUS
<1>3. PICK n \in Nat : n = Len(w_text) /\ p \in 0 .. n
  BY <1>1, <1>2, SpansAre
<1>4. PICK e : e = Head(w_spans)[1] /\ e \in Nat
  BY <1>1, SpansAre DEF Valid
<1>5. /\ p < e /\ e < n /\ w_cursor' = e /\ w_rest' = SubSeq(w_text, p + 1, e)
      /\ UNCHANGED <<w_dict, w_text, w_spans, w_pending, w_frags, w_out>>
  BY <1>2, <1>3, <1>4 DEF Words!CutPiece
<1>6. w_spans' # <<>> /\ w_spans' \in Seq(Valid)
  BY <1>5 DEF WordsInv, WordTypes, Words!CutPiece, Words!BetweenPieces
<1>7. /\ w_rest' \in Texts /\ Len(w_rest') = e - p
      /\ \A k \in 1 .. e - p : w_rest'[k] = w_text[p + k]
  <2>1. \A k \in p + 1 .. e : w_text[k] \in Words!Runes
    <3>1. \A k \in p + 1 .. e : k \in 1 .. n
      BY <1>3, <1>4, <1>5
    <3>2. w_text \in Seq(Words!Runes)
      BY <1>1, SpansAre
    <3>3. QED
      BY <1>3, <3>1, <3>2
  <2>2. PICK d : d = SubSeq(w_text, p + 1, e)
    OBVIOUS
  <2>3. /\ d \in Seq(Words!Runes) /\ Len(d) = IF p + 1 <= e THEN e - (p + 1) + 1 ELSE 0
        /\ \A k \in 1 .. e - (p + 1) + 1 : d[k] = w_text[(p + 1) + k - 1]
    <3>1. w_text \in Seq(Words!Runes) /\ p + 1 \in Int /\ e \in Int
      BY <1>1, <1>3, <1>4, SpansAre
    <3>2. QED
      BY <2>1, <2>2, <3>1, SubSeqProperties
  <2>4. p + 1 <= e /\ e - (p + 1) + 1 = e - p /\ \A k \in 1 .. e - p : (p + 1) + k - 1 = p + k
    BY <1>3, <1>4, <1>5
  <2>5. QED
    BY <1>5, <2>2, <2>3, <2>4 DEF Texts
<1>8. /\ w_frags = <<>> /\ w_pending = <<>> /\ ReadTo(w_text, w_out', p)
      /\ w_out' \in Seq(Frags)
  BY <1>1, <1>2, <1>5, BetweenReads, SpansAre
<1>9. p \in Nat /\ p <= e /\ e <= Len(w_text)
  BY <1>3, <1>4, <1>5
<1>10. QED
  BY <1>4, <1>5, <1>6, <1>7, <1>8, <1>9, NextPiece

\* ... and by an emote of Twitch's own.
LEMMA NativeEmoteKept ==
  ASSUME WordsInv, Words!NativeEmote
  PROVE  WordsInv'
<1>1. Words!BetweenPieces
  BY DEF Words!NativeEmote
<1>2. PICK p : p = w_cursor
  OBVIOUS
<1>3. PICK n \in Nat : n = Len(w_text) /\ p \in 0 .. n
  BY <1>1, <1>2, SpansAre
<1>4. PICK last : last = Head(w_spans)[2] + 1 /\ last \in Nat /\ last > p
  <2>1. PICK s \in Nat \X Nat : s = Head(w_spans) /\ s[1] <= s[2]
    BY <1>1, SpansAre DEF Valid
  <2>2. p = s[1] /\ s[2] + 1 > s[1] /\ s[2] + 1 \in Nat
    BY <1>2, <2>1 DEF Words!NativeEmote
  <2>3. QED
    BY <2>1, <2>2
<1>5. PICK end \in Nat : end = (IF last > n THEN n ELSE last) /\ p < end /\ end <= n
  <2>1. p < n
    BY <1>2, <1>3 DEF Words!NativeEmote
  <2>2. QED
    BY <1>3, <1>4, <2>1
<1>6. PICK c : c = SubSeq(w_text, p + 1, end)
  OBVIOUS
<1>7. PICK x : x = Words!Fragment("emote", FALSE, c)
  OBVIOUS
<1>8. PICK out \in Seq(Frags) : out = w_out /\ ReadTo(w_text, out, p)
  BY <1>1, <1>2, BetweenReads, SpansAre
<1>9. /\ w_out' = Append(out, x) /\ w_spans' = Tail(w_spans)
      /\ IF Tail(w_spans) = <<>> THEN w_cursor' = n /\ w_rest' = Words!From(w_text, end)
                                 ELSE w_cursor' = end /\ w_rest' = w_rest
      /\ UNCHANGED <<w_dict, w_text, w_pending, w_frags>>
  BY <1>2, <1>3, <1>4, <1>5, <1>6, <1>7, <1>8 DEF Words!NativeEmote
<1>10. /\ c \in Texts /\ Len(c) = end - p
       /\ \A k \in 1 .. end - p : c[k] = w_text[p + k]
  <2>1. w_text \in Seq(Words!Runes)
    BY <1>1, SpansAre
  <2>2. \A k \in p + 1 .. end : w_text[k] \in Words!Runes
    <3>1. \A k \in p + 1 .. end : k \in 1 .. n
      BY <1>3, <1>5
    <3>2. QED
      BY <1>3, <2>1, <3>1
  <2>3. /\ c \in Seq(Words!Runes) /\ Len(c) = IF p + 1 <= end THEN end - (p + 1) + 1 ELSE 0
        /\ \A k \in 1 .. end - (p + 1) + 1 : c[k] = w_text[(p + 1) + k - 1]
    <3>1. p + 1 \in Int /\ end \in Int
      BY <1>3, <1>5
    <3>2. QED
      BY <1>6, <2>1, <2>2, <3>1, SubSeqProperties
  <2>4. p + 1 <= end /\ end - (p + 1) + 1 = end - p /\ \A k \in 1 .. end - p : (p + 1) + k - 1 = p + k
    BY <1>3, <1>5
  <2>5. QED
    BY <2>3, <2>4 DEF Texts
<1>11. x \in Frags /\ x.C = c /\ x.Zw = FALSE
  BY <1>7, <1>10 DEF Words!Fragment, Frags
<1>12. ReadTo(w_text, w_out', end) /\ w_out' \in Seq(Frags)
  <2>1. p + Len(x.C) = end /\ p \in Nat
    BY <1>3, <1>5, <1>10, <1>11
  <2>2. p + Len(x.C) <= Len(w_text)
    BY <1>3, <1>5, <2>1
  <2>3. \A k \in 1 .. Len(x.C) : x.C[k] = w_text[p + k]
    BY <1>10, <1>11
  <2>4. w_text \in Texts
    BY <1>1, SpansAre DEF Texts
  <2>5. ReadTo(w_text, Append(out, x), end)
    BY <1>8, <1>11, <2>1, <2>2, <2>3, <2>4, Reads
  <2>6. QED
    BY <1>9, <1>11, <2>5
<1>13. w_frags = <<>> /\ w_pending = <<>> /\ w_spans' \in Seq(Valid) /\ w_rest = <<>>
  BY <1>1, <1>9, SpansAre
<1>14. CASE Tail(w_spans) = <<>>
  <2>1. w_cursor' = n /\ w_rest' = Words!From(w_text, end) /\ n <= Len(w_text)
    BY <1>3, <1>9, <1>14
  <2>2. /\ w_rest' \in Texts /\ Len(w_rest') = n - end
        /\ \A k \in 1 .. n - end : w_rest'[k] = w_text[end + k]
    <3>1. end \in 0 .. Len(w_text) /\ w_text \in Seq(Words!Runes)
      BY <1>1, <1>3, <1>5, SpansAre
    <3>2. QED
      BY <1>3, <2>1, <3>1, Halves DEF Texts
  <2>3. QED
    BY <1>3, <1>5, <1>9, <1>12, <1>13, <2>1, <2>2, NextPiece
<1>15. CASE Tail(w_spans) # <<>>
  <2>1. w_cursor' = end /\ w_rest' = <<>> /\ w_spans' # <<>>
    BY <1>9, <1>13, <1>15
  <2>2. <<>> \in Texts /\ Len(<<>>) = end - end /\ \A k \in 1 .. end - end : FALSE
    BY DEF Texts
  <2>3. \A k \in 1 .. end - end : w_rest'[k] = w_text[end + k]
    BY <2>2
  <2>4. w_rest' \in Texts /\ Len(w_rest') = end - end
    BY <2>1, <2>2
  <2>5. end <= Len(w_text) /\ end <= end
    BY <1>3, <1>5
  <2>6. QED
    BY <1>9, <1>12, <1>13, <2>1, <2>3, <2>4, <2>5, NextPiece
<1>16. QED
  BY <1>14, <1>15

\* The invariant holds at first.
LEMMA WordsStart ==
  ASSUME Words!Init
  PROVE  WordsInv
<1>1. w_text \in Texts
  <2>1. PICK n \in 0 .. w_MaxLen : w_text \in [1 .. n -> Words!Runes]
    BY DEF Words!Init, Words!Texts
  <2>2. n \in Nat
    BY ChatPartsAssumption
  <2>3. QED
    BY <2>1, <2>2 DEF Texts
<1>2. PICK n \in Nat : n = Len(w_text)
  BY <1>1 DEF Texts
<1>3. w_spans \in Seq(Valid)
  <2>1. PICK tag \in w_Tags : w_spans \in Words!Spans(tag)
    BY DEF Words!Init
  <2>2. PICK valid : valid = {s \in tag : s[1] <= s[2]}
    OBVIOUS
  <2>3. IsFiniteSet(valid) /\ valid \subseteq Valid
    <3>1. IsFiniteSet(tag) /\ tag \subseteq Nat \X Nat
      BY <2>1, ChatPartsAssumption
    <3>2. valid \subseteq tag /\ valid \subseteq Valid
      BY <2>2, <3>1 DEF Valid
    <3>3. QED
      BY <3>1, <3>2, FS_Subset
  <2>4. PICK c \in Nat : c = Cardinality(valid)
    BY <2>3, FS_CardinalityType
  <2>5. Words!Cardinality(valid) = Cardinality(valid)
    BY DEF Words!Cardinality, Cardinality
  <2>6. w_spans \in [1 .. c -> valid]
    BY <2>1, <2>2, <2>4, <2>5 DEF Words!Spans
  <2>7. QED
    BY <2>3, <2>6
<1>4. /\ w_dict \in Words!Dictionaries \cup {w_None}
      /\ w_pending = <<>> /\ w_frags = <<>> /\ w_out = <<>>
  BY DEF Words!Init
<1>5. w_spans = <<>> => w_cursor = n /\ w_rest = w_text
  BY <1>2 DEF Words!Init
<1>6. w_spans # <<>> => w_cursor = 0 /\ w_rest = <<>>
  BY DEF Words!Init
<1>7. <<>> \in Texts /\ Len(<<>>) = 0 /\ <<>> \in Seq(Frags)
  BY DEF Texts
<1>8. WordTypes
  <2>1. w_rest \in Texts /\ w_cursor \in Nat /\ w_cursor <= Len(w_text)
    BY <1>1, <1>2, <1>5, <1>6, <1>7
  <2>2. QED
    BY <1>1, <1>3, <1>4, <1>7, <2>1 DEF WordTypes
<1>9. Placed(0)
  <2>1. w_out \o w_frags = <<>>
    BY <1>4
  <2>2. ReadTo(w_text, w_out \o w_frags, 0)
    BY <1>1, <2>1, NothingRead
  <2>3. 0 + Len(w_pending) + Len(w_rest) = w_cursor
    BY <1>2, <1>4, <1>5, <1>6, <1>7
  <2>4. \A k \in 1 .. Len(w_pending) : w_pending[k] = w_text[0 + k]
    BY <1>4
  <2>5. \A k \in 1 .. Len(w_rest) : w_rest[k] = w_text[0 + Len(w_pending) + k]
    <3>1. \A k \in 1 .. n : 0 + 0 + k = k
      OBVIOUS
    <3>2. QED
      BY <1>2, <1>4, <1>5, <1>6, <1>7, <3>1
  <2>6. QED
    BY <2>2, <2>3, <2>4, <2>5 DEF Placed
<1>10. QED
  BY <1>2, <1>4, <1>5, <1>8, <1>9 DEF WordsInv

\* Every step keeps the invariant.
LEMMA WordsStep ==
  ASSUME WordsInv, [Words!Next]_(Words!vars)
  PROVE  WordsInv'
<1>1. CASE Words!Next
  BY <1>1, SpacesKept, WholeWordKept, GluedNamesKept, MentionedKept, PlainKept,
     UnloadedKept, PieceEndsKept, SkipSpanKept, CutPieceKept, NativeEmoteKept DEF Words!Next
<1>2. CASE UNCHANGED Words!vars
  <2>1. UNCHANGED <<w_dict, w_text, w_spans, w_cursor, w_rest, w_pending, w_frags, w_out>>
    BY <1>2 DEF Words!vars
  <2>2. PICK p : Placed(p)
    BY DEF WordsInv
  <2>3. (w_out \o w_frags)' = w_out \o w_frags
    BY <2>1
  <2>4. Placed(p)'
    BY <2>1, <2>2, <2>3 DEF Placed
  <2>5. WordTypes'
    BY <2>1 DEF WordsInv, WordTypes
  <2>6. QED
    BY <2>1, <2>4, <2>5 DEF WordsInv
<1>3. QED
  BY <1>1, <1>2

\* When all is done, the fragments have read the whole text.
LEMMA ReadToTheEnd ==
  ASSUME WordsInv
  PROVE  Words!NothingLost
<1> SUFFICES ASSUME Words!Done PROVE Words!ReadBy = Len(w_text)
  BY DEF Words!NothingLost
<1>1. PICK p : Placed(p)
  BY DEF WordsInv
<1>2. w_rest = <<>> /\ w_frags = <<>> /\ w_pending = <<>> /\ w_spans = <<>> /\ Len(<<>>) = 0
  BY DEF Words!Done
<1>3. p \in Nat /\ p + 0 + 0 = w_cursor /\ w_cursor = Len(w_text)
  BY <1>1, <1>2 DEF Placed, WordsInv
<1>4. PICK out \in Seq(Frags) : out = w_out
  BY DEF WordsInv, WordTypes
<1>5. w_out \o w_frags = w_out
  BY <1>2, <1>4
<1>6. ReadTo(w_text, w_out, p)
  BY <1>1, <1>5 DEF Placed
<1>7. Words!ReadBy = p
  BY <1>6, ReadIs DEF WordsInv, WordTypes
<1>8. QED
  BY <1>3, <1>7

(***************************************************************************)
(* A message is cut into the emotes that are in it, and is still the       *)
(* message: the fragments read the whole text in order, with nothing left  *)
(* out but the spaces before a zero-width emote, however the spans of      *)
(* Twitch's emotes lie; and a word that can be cut into a name and         *)
(* zero-width names is cut, if no zero-width name begins another           *)
(* (Tokenize, tokenizeWithNative).                                         *)
(***************************************************************************)
THEOREM WordsTokenized == Words!Spec => []Tokenized
<1>1. ASSUME WordsInv PROVE Words!SplitsFound
  <2> SUFFICES ASSUME Words!AtWord, Words!PrefixFree
               PROVE  /\ Words!SplitZeroWidthSuffix(Words!Word) \subseteq Words!Cuts(Words!Word)
                      /\ Words!Cuts(Words!Word) # {} => Words!SplitZeroWidthSuffix(Words!Word) # {}
    BY DEF Words!SplitsFound
  <2>1. Words!Word \in Seq(Words!Runes)
    BY <1>1, WordIs DEF WordsInv, At, Texts
  <2>2. QED
    BY <2>1, CutsAreFound
<1>2. WordsInv => Tokenized
  BY <1>1, ReadToTheEnd DEF Tokenized, Words!Tokenized
<1>3. QED
  BY <1>2, WordsStart, WordsStep, PTL DEF Words!Spec
=============================================================================
