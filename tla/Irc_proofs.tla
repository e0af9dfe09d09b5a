----------------------------- MODULE Irc_proofs -----------------------------
(***************************************************************************)
(* Proofs about the connections to Twitch's chat: the pool (Irc), for      *)
(* every number of channels, callers, connections and subscriptions, and   *)
(* every size of a connection, and the connections that are signed in      *)
(* (Sender), for any number of clients and connections.                    *)
(***************************************************************************)
EXTENDS Irc, IrcParts, FiniteSetTheorems, TLAPS

\* What the program counters of callers and read loops say of what they hold.
Shapes ==
  /\ \A p \in Callers :
       /\ pc[p] # "idle" => arg[p] \in Channels
       /\ pc[p] \in {"attach", "join", "part"} => on[p] \in Conns
  /\ \A c \in Conns : reader[c] \in {"reattach", "rejoin"} => succ[c] \in Conns

\* A connection the pool does not know yet, and that carries nothing.
Fresh(d) == d \in Conns /\ d \notin conns /\ chans[d] = {}

\* Whoever is about to attach a connection has dialed it, and nobody else has it.
Dialed ==
  /\ \A p \in Callers : pc[p] = "attach" => Fresh(on[p])
  /\ \A c \in Conns : reader[c] = "reattach" => Fresh(succ[c])
  /\ \A p, q \in Callers : pc[p] = "attach" /\ pc[q] = "attach" /\ on[p] = on[q] => p = q
  /\ \A c, d \in Conns :
       reader[c] = "reattach" /\ reader[d] = "reattach" /\ succ[c] = succ[d] => c = d
  /\ \A p \in Callers, c \in Conns :
       pc[p] = "attach" /\ reader[c] = "reattach" => on[p] # succ[c]

\* What a reconnect moves was on one connection.
Moved ==
  \A c \in Conns :
    /\ Cardinality(active[c]) <= MaxPerSocket
    /\ still[c] \subseteq active[c]
    /\ reader[c] \in {"none", "read", "filter", "wait"} => still[c] = {}

IInv == TypeOK /\ Shapes /\ Dialed /\ Capacity /\ Moved

-----------------------------------------------------------------------------

LEMMA InvInit == Init => IInv
  BY IrcAssumption, FS_EmptySet
     DEF Init, IInv, TypeOK, Shapes, Dialed, Capacity, Moved

LEMMA TypeStep == TypeOK /\ Shapes /\ [Next]_vars => TypeOK'
<1> SUFFICES ASSUME TypeOK, Shapes, [Next]_vars PROVE TypeOK'
  OBVIOUS
<1> USE IrcAssumption
<1>1. ASSUME NEW p \in Callers, NEW ch \in Channels, JoinCounted(p, ch) PROVE TypeOK'
  BY <1>1 DEF JoinCounted, TypeOK, Shapes, poolVars, netVars, callVars, readerVars
<1>2. ASSUME NEW p \in Callers, NEW ch \in Channels, JoinPicks(p, ch) PROVE TypeOK'
  BY <1>2 DEF JoinPicks, PickConn, Call, TypeOK, Shapes, poolVars, netVars, callVars,
       readerVars
<1>3. ASSUME NEW p \in Callers, NEW ch \in Channels, JoinDials(p, ch) PROVE TypeOK'
  BY <1>3 DEF JoinDials, Call, TypeOK, Shapes, poolVars, netVars, callVars, readerVars
<1>4. ASSUME NEW p \in Callers, NEW ch \in Channels, PartCounted(p, ch) PROVE TypeOK'
  BY <1>4 DEF PartCounted, TypeOK, Shapes, poolVars, netVars, callVars, readerVars
<1>5. ASSUME NEW p \in Callers, NEW ch \in Channels, PartLast(p, ch) PROVE TypeOK'
  BY <1>5 DEF PartLast, Call, TypeOK, Shapes, poolVars, netVars, callVars, readerVars
<1>6. ASSUME NEW p \in Callers, DialFails(p) PROVE TypeOK'
  BY <1>6 DEF DialFails, Return, Call, TypeOK, Shapes, poolVars, netVars, callVars,
       readerVars
<1>7. ASSUME NEW p \in Callers, Attach(p) PROVE TypeOK'
  BY <1>7 DEF Attach, Call, TypeOK, Shapes, poolVars, netVars, callVars, readerVars
<1>8. ASSUME NEW p \in Callers, SendJoin(p) PROVE TypeOK'
  BY <1>8 DEF SendJoin, Join, Return, Call, TypeOK, Shapes, poolVars, netVars, callVars,
       readerVars
<1>9. ASSUME NEW p \in Callers, SendPart(p) PROVE TypeOK'
  BY <1>9 DEF SendPart, Part, Return, Call, TypeOK, Shapes, poolVars, netVars, callVars,
       readerVars
<1>10. ASSUME NEW p \in Callers, NEW c \in Conns, DialOk(p, c) PROVE TypeOK'
  BY <1>10 DEF DialOk, Open, Unused, Call, TypeOK, Shapes, poolVars, netVars, callVars,
       readerVars
<1>11. ASSUME NEW c \in Conns, Detach(c) PROVE TypeOK'
  BY <1>11 DEF Detach, Goto, TypeOK, Shapes, poolVars, netVars, callVars, readerVars
<1>12. ASSUME NEW c \in Conns, Filter(c) PROVE TypeOK'
  BY <1>12 DEF Filter, Goto, Done, TypeOK, Shapes, poolVars, netVars, callVars, readerVars
<1>13. ASSUME NEW c \in Conns, Recheck(c) PROVE TypeOK'
  BY <1>13 DEF Recheck, Goto, Done, TypeOK, Shapes, poolVars, netVars, callVars,
       readerVars
<1>14. ASSUME NEW c \in Conns, RedialFails(c) PROVE TypeOK'
  BY <1>14 DEF RedialFails, Goto, TypeOK, Shapes, poolVars, netVars, callVars, readerVars
<1>15. ASSUME NEW c \in Conns, Reattach(c) PROVE TypeOK'
  BY <1>15 DEF Reattach, Goto, TypeOK, Shapes, poolVars, netVars, callVars, readerVars
<1>16. ASSUME NEW c \in Conns, SendRejoin(c) PROVE TypeOK'
  BY <1>16 DEF SendRejoin, Join, Goto, Done, TypeOK, Shapes, poolVars, netVars, callVars,
       readerVars
<1>17. ASSUME NEW c \in Conns, NEW d \in Conns, Redial(c, d) PROVE TypeOK'
  BY <1>17 DEF Redial, Open, Unused, TypeOK, Shapes, poolVars, netVars, callVars,
       readerVars
<1>18. ASSUME NEW c \in Conns, Break(c) PROVE TypeOK'
  BY <1>18 DEF Break, TypeOK, Shapes, poolVars, netVars, callVars, readerVars
<1>19. CASE UNCHANGED vars
  BY <1>19 DEF TypeOK, Shapes, poolVars, netVars, callVars, readerVars, vars
<1>20. QED
  BY <1>1, <1>2, <1>3, <1>4, <1>5, <1>6, <1>7, <1>8, <1>9, <1>10, <1>11, <1>12, <1>13,
       <1>14, <1>15, <1>16, <1>17, <1>18, <1>19
     DEF Next, Calls, Caller, Reader

LEMMA ShapesStep == TypeOK /\ Shapes /\ [Next]_vars => Shapes'
<1> SUFFICES ASSUME TypeOK, Shapes, [Next]_vars PROVE Shapes'
  OBVIOUS
<1> USE IrcAssumption
<1>1. ASSUME NEW p \in Callers, NEW ch \in Channels, JoinCounted(p, ch) PROVE Shapes'
  BY <1>1 DEF JoinCounted, TypeOK, Shapes, poolVars, netVars, callVars, readerVars
<1>2. ASSUME NEW p \in Callers, NEW ch \in Channels, JoinPicks(p, ch) PROVE Shapes'
  BY <1>2 DEF JoinPicks, PickConn, Call, TypeOK, Shapes, poolVars, netVars, callVars,
       readerVars
<1>3. ASSUME NEW p \in Callers, NEW ch \in Channels, JoinDials(p, ch) PROVE Shapes'
  BY <1>3 DEF JoinDials, Call, TypeOK, Shapes, poolVars, netVars, callVars, readerVars
<1>4. ASSUME NEW p \in Callers, NEW ch \in Channels, PartCounted(p, ch) PROVE Shapes'
  BY <1>4 DEF PartCounted, TypeOK, Shapes, poolVars, netVars, callVars, readerVars
<1>5. ASSUME NEW p \in Callers, NEW ch \in Channels, PartLast(p, ch) PROVE Shapes'
  BY <1>5 DEF PartLast, Call, TypeOK, Shapes, poolVars, netVars, callVars, readerVars
<1>6. ASSUME NEW p \in Callers, DialFails(p) PROVE Shapes'
  BY <1>6 DEF DialFails, Return, Call, TypeOK, Shapes, poolVars, netVars, callVars,
       readerVars
<1>7. ASSUME NEW p \in Callers, Attach(p) PROVE Shapes'
  BY <1>7 DEF Attach, Call, TypeOK, Shapes, poolVars, netVars, callVars, readerVars
<1>8. ASSUME NEW p \in Callers, SendJoin(p) PROVE Shapes'
  BY <1>8 DEF SendJoin, Join, Return, Call, TypeOK, Shapes, poolVars, netVars, callVars,
       readerVars
<1>9. ASSUME NEW p \in Callers, SendPart(p) PROVE Shapes'
  BY <1>9 DEF SendPart, Part, Return, Call, TypeOK, Shapes, poolVars, netVars, callVars,
       readerVars
<1>10. ASSUME NEW p \in Callers, NEW c \in Conns, DialOk(p, c) PROVE Shapes'
  BY <1>10 DEF DialOk, Open, Unused, Call, TypeOK, Shapes, poolVars, netVars, callVars,
       readerVars
<1>11. ASSUME NEW c \in Conns, Detach(c) PROVE Shapes'
  BY <1>11 DEF Detach, Goto, TypeOK, Shapes, poolVars, netVars, callVars, readerVars
<1>12. ASSUME NEW c \in Conns, Filter(c) PROVE Shapes'
  BY <1>12 DEF Filter, Goto, Done, TypeOK, Shapes, poolVars, netVars, callVars, readerVars
<1>13. ASSUME NEW c \in Conns, Recheck(c) PROVE Shapes'
  BY <1>13 DEF Recheck, Goto, Done, TypeOK, Shapes, poolVars, netVars, callVars,
       readerVars
<1>14. ASSUME NEW c \in Conns, RedialFails(c) PROVE Shapes'
  BY <1>14 DEF RedialFails, Goto, TypeOK, Shapes, poolVars, netVars, callVars, readerVars
<1>15. ASSUME NEW c \in Conns, Reattach(c) PROVE Shapes'
  BY <1>15 DEF Reattach, Goto, TypeOK, Shapes, poolVars, netVars, callVars, readerVars
<1>16. ASSUME NEW c \in Conns, SendRejoin(c) PROVE Shapes'
  BY <1>16 DEF SendRejoin, Join, Goto, Done, TypeOK, Shapes, poolVars, netVars, callVars,
       readerVars
<1>17. ASSUME NEW c \in Conns, NEW d \in Conns, Redial(c, d) PROVE Shapes'
  BY <1>17 DEF Redial, Open, Unused, TypeOK, Shapes, poolVars, netVars, callVars,
       readerVars
<1>18. ASSUME NEW c \in Conns, Break(c) PROVE Shapes'
  BY <1>18 DEF Break, TypeOK, Shapes, poolVars, netVars, callVars, readerVars
<1>19. CASE UNCHANGED vars
  BY <1>19 DEF TypeOK, Shapes, poolVars, netVars, callVars, readerVars, vars
<1>20. QED
  BY <1>1, <1>2, <1>3, <1>4, <1>5, <1>6, <1>7, <1>8, <1>9, <1>10, <1>11, <1>12, <1>13,
       <1>14, <1>15, <1>16, <1>17, <1>18, <1>19
     DEF Next, Calls, Caller, Reader

\* Every variable has its type.
THEOREM TypeCorrect == Spec => []TypeOK
<1>1. Init => TypeOK /\ Shapes
  BY InvInit DEF IInv
<1>2. TypeOK /\ Shapes /\ [Next]_vars => (TypeOK /\ Shapes)'
  BY TypeStep, ShapesStep
<1>3. QED
  BY <1>1, <1>2, PTL DEF Spec

-----------------------------------------------------------------------------
(* How much a connection carries.                                          *)

LEMMA DialedStep == TypeOK /\ Shapes /\ Dialed /\ [Next]_vars => Dialed'
<1> SUFFICES ASSUME TypeOK, Shapes, Dialed, [Next]_vars PROVE Dialed'
  OBVIOUS
<1> USE IrcAssumption
<1>1. ASSUME NEW p \in Callers, NEW ch \in Channels, JoinCounted(p, ch) PROVE Dialed'
  BY <1>1 DEF JoinCounted, TypeOK, Shapes, Dialed, Fresh, poolVars, netVars, callVars,
       readerVars
<1>2. ASSUME NEW p \in Callers, NEW ch \in Channels, JoinPicks(p, ch) PROVE Dialed'
  BY <1>2 DEF JoinPicks, PickConn, Call, TypeOK, Shapes, Dialed, Fresh, poolVars,
       netVars, callVars, readerVars
<1>3. ASSUME NEW p \in Callers, NEW ch \in Channels, JoinDials(p, ch) PROVE Dialed'
  BY <1>3 DEF JoinDials, Call, TypeOK, Shapes, Dialed, Fresh, poolVars, netVars,
       callVars, readerVars
<1>4. ASSUME NEW p \in Callers, NEW ch \in Channels, PartCounted(p, ch) PROVE Dialed'
  BY <1>4 DEF PartCounted, TypeOK, Shapes, Dialed, Fresh, poolVars, netVars, callVars,
       readerVars
<1>5. ASSUME NEW p \in Callers, NEW ch \in Channels, PartLast(p, ch) PROVE Dialed'
  <2>1. \A d \in Conns : chans'[d] \subseteq chans[d]
    BY <1>5 DEF PartLast, TypeOK
  <2>2. \A q \in Callers : pc'[q] = "attach" => pc[q] = "attach" /\ on'[q] = on[q]
    BY <1>5 DEF PartLast, Call, TypeOK, callVars
  <2>3. UNCHANGED <<conns, reader, succ>>
    BY <1>5 DEF PartLast, readerVars
  <2>4. QED
    BY <2>1, <2>2, <2>3 DEF Dialed, Fresh
<1>6. ASSUME NEW p \in Callers, DialFails(p) PROVE Dialed'
  BY <1>6 DEF DialFails, Return, Call, TypeOK, Shapes, Dialed, Fresh, poolVars, netVars,
       callVars, readerVars
<1>7. ASSUME NEW p \in Callers, Attach(p) PROVE Dialed'
  BY <1>7 DEF Attach, Call, TypeOK, Shapes, Dialed, Fresh, poolVars, netVars, callVars,
       readerVars
<1>8. ASSUME NEW p \in Callers, SendJoin(p) PROVE Dialed'
  BY <1>8 DEF SendJoin, Join, Return, Call, TypeOK, Shapes, Dialed, Fresh, poolVars,
       netVars, callVars, readerVars
<1>9. ASSUME NEW p \in Callers, SendPart(p) PROVE Dialed'
  BY <1>9 DEF SendPart, Part, Return, Call, TypeOK, Shapes, Dialed, Fresh, poolVars,
       netVars, callVars, readerVars
<1>10. ASSUME NEW p \in Callers, NEW c \in Conns, DialOk(p, c) PROVE Dialed'
  BY <1>10 DEF DialOk, Open, Unused, Call, TypeOK, Shapes, Dialed, Fresh, poolVars,
       netVars, callVars, readerVars
<1>11. ASSUME NEW c \in Conns, Detach(c) PROVE Dialed'
  BY <1>11 DEF Detach, Goto, TypeOK, Shapes, Dialed, Fresh, poolVars, netVars, callVars,
       readerVars
<1>12. ASSUME NEW c \in Conns, Filter(c) PROVE Dialed'
  BY <1>12 DEF Filter, Goto, Done, TypeOK, Shapes, Dialed, Fresh, poolVars, netVars,
       callVars, readerVars
<1>13. ASSUME NEW c \in Conns, Recheck(c) PROVE Dialed'
  <2>1. UNCHANGED <<pc, on, conns, chans>>
    BY <1>13 DEF Recheck, poolVars, callVars
  <2>2. \A d \in Conns :
          reader'[d] = "reattach" => reader[d] = "reattach" /\ succ'[d] = succ[d]
    <3>1. CASE Done(c)
      BY <3>1 DEF Done, Goto, TypeOK
    <3>2. CASE Goto(c, "redial") /\ UNCHANGED succ
      BY <3>2 DEF Goto, TypeOK
    <3>3. QED
      BY <1>13, <3>1, <3>2 DEF Recheck
  <2>3. QED
    BY <2>1, <2>2 DEF Dialed, Fresh
<1>14. ASSUME NEW c \in Conns, RedialFails(c) PROVE Dialed'
  BY <1>14 DEF RedialFails, Goto, TypeOK, Shapes, Dialed, Fresh, poolVars, netVars,
       callVars, readerVars
<1>15. ASSUME NEW c \in Conns, Reattach(c) PROVE Dialed'
  BY <1>15 DEF Reattach, Goto, TypeOK, Shapes, Dialed, Fresh, poolVars, netVars,
       callVars, readerVars
<1>16. ASSUME NEW c \in Conns, SendRejoin(c) PROVE Dialed'
  BY <1>16 DEF SendRejoin, Join, Goto, Done, TypeOK, Shapes, Dialed, Fresh, poolVars,
       netVars, callVars, readerVars
<1>17. ASSUME NEW c \in Conns, NEW d \in Conns, Redial(c, d) PROVE Dialed'
  BY <1>17 DEF Redial, Open, Unused, TypeOK, Shapes, Dialed, Fresh, poolVars, netVars,
       callVars, readerVars
<1>18. ASSUME NEW c \in Conns, Break(c) PROVE Dialed'
  BY <1>18 DEF Break, TypeOK, Shapes, Dialed, Fresh, poolVars, netVars, callVars,
       readerVars
<1>19. CASE UNCHANGED vars
  BY <1>19 DEF TypeOK, Shapes, Dialed, Fresh, poolVars, netVars, callVars, readerVars,
       vars
<1>20. QED
  BY <1>1, <1>2, <1>3, <1>4, <1>5, <1>6, <1>7, <1>8, <1>9, <1>10, <1>11, <1>12, <1>13,
       <1>14, <1>15, <1>16, <1>17, <1>18, <1>19
     DEF Next, Calls, Caller, Reader

\* A set of channels is finite, its subsets have no more elements, and one more
\* channel adds at most one.
LEMMA Sizes ==
  ASSUME NEW S \in SUBSET Channels
  PROVE  /\ Cardinality(S) \in Nat
         /\ \A T \in SUBSET S : Cardinality(T) <= Cardinality(S)
         /\ \A ch : Cardinality(S \cup {ch}) <= Cardinality(S) + 1
<1>1. IsFiniteSet(S)
  BY IrcAssumption, FS_Subset
<1>2. Cardinality(S) \in Nat
  BY <1>1, FS_CardinalityType
<1>3. \A T \in SUBSET S : Cardinality(T) <= Cardinality(S)
  BY <1>1, FS_Subset
<1>4. \A ch : Cardinality(S \cup {ch}) <= Cardinality(S) + 1
  BY <1>1, <1>2, FS_AddElement
<1>5. QED
  BY <1>2, <1>3, <1>4

LEMMA CapacityStep == TypeOK /\ Dialed /\ Capacity /\ Moved /\ [Next]_vars => Capacity'
<1> SUFFICES ASSUME TypeOK, Dialed, Capacity, Moved, [Next]_vars PROVE Capacity'
  OBVIOUS
<1> USE IrcAssumption
<1>1. ASSUME NEW p \in Callers, NEW ch \in Channels, JoinCounted(p, ch) PROVE Capacity'
  BY <1>1 DEF JoinCounted, TypeOK, Capacity, poolVars, netVars, callVars, readerVars
<1>2. ASSUME NEW p \in Callers, NEW ch \in Channels, JoinPicks(p, ch) PROVE Capacity'
  <2>1. PICK d \in Conns : PickConn(d) /\ chans' = [chans EXCEPT ![d] = @ \cup {ch}]
    BY <1>2 DEF JoinPicks
  <2>2. Cardinality(chans[d]) < MaxPerSocket /\ chans[d] \in SUBSET Channels
    BY <2>1 DEF PickConn, TypeOK
  <2>3. /\ Cardinality(chans[d] \cup {ch}) <= Cardinality(chans[d]) + 1
        /\ Cardinality(chans[d]) \in Nat
        /\ Cardinality(chans[d] \cup {ch}) \in Nat
    BY <2>2, Sizes
  <2>4. Cardinality(chans[d] \cup {ch}) <= MaxPerSocket
    BY <2>2, <2>3
  <2>5. QED
    BY <2>1, <2>4 DEF TypeOK, Capacity
<1>3. ASSUME NEW p \in Callers, NEW ch \in Channels, JoinDials(p, ch) PROVE Capacity'
  BY <1>3 DEF JoinDials, Call, TypeOK, Capacity, poolVars, netVars, callVars, readerVars
<1>4. ASSUME NEW p \in Callers, NEW ch \in Channels, PartCounted(p, ch) PROVE Capacity'
  BY <1>4 DEF PartCounted, TypeOK, Capacity, poolVars, netVars, callVars, readerVars
<1>5. ASSUME NEW p \in Callers, NEW ch \in Channels, PartLast(p, ch) PROVE Capacity'
  <2>1. \A d \in Conns : chans'[d] \in SUBSET chans[d] /\ chans[d] \in SUBSET Channels
    BY <1>5 DEF PartLast, TypeOK
  <2>2. \A d \in Conns : Cardinality(chans'[d]) <= Cardinality(chans[d])
    BY <2>1, Sizes
  <2>3. \A d \in Conns : Cardinality(chans[d]) \in Nat /\ Cardinality(chans'[d]) \in Nat
    BY <2>1, Sizes
  <2>4. QED
    BY <2>2, <2>3 DEF Capacity
<1>6. ASSUME NEW p \in Callers, DialFails(p) PROVE Capacity'
  BY <1>6 DEF DialFails, Return, Call, TypeOK, Capacity, poolVars, netVars, callVars,
       readerVars
<1>7. ASSUME NEW p \in Callers, Attach(p) PROVE Capacity'
  <2>1. chans[on[p]] = {} /\ on[p] \in Conns
    BY <1>7 DEF Attach, Dialed, Fresh
  <2>2. chans' = [chans EXCEPT ![on[p]] = {arg[p]}]
    BY <1>7, <2>1 DEF Attach, TypeOK
  <2>3. Cardinality({arg[p]}) = 1
    BY FS_Singleton
  <2>4. Cardinality({arg[p]}) <= MaxPerSocket
    BY <2>3
  <2>5. QED
    BY <2>1, <2>2, <2>4 DEF TypeOK, Capacity
<1>8. ASSUME NEW p \in Callers, SendJoin(p) PROVE Capacity'
  BY <1>8 DEF SendJoin, Join, Return, Call, TypeOK, Capacity, poolVars, netVars,
       callVars, readerVars
<1>9. ASSUME NEW p \in Callers, SendPart(p) PROVE Capacity'
  BY <1>9 DEF SendPart, Part, Return, Call, TypeOK, Capacity, poolVars, netVars,
       callVars, readerVars
<1>10. ASSUME NEW p \in Callers, NEW c \in Conns, DialOk(p, c) PROVE Capacity'
  BY <1>10, FS_EmptySet DEF DialOk, Open, TypeOK, Capacity
<1>11. ASSUME NEW c \in Conns, Detach(c) PROVE Capacity'
  BY <1>11 DEF Detach, Goto, TypeOK, Capacity, poolVars, netVars, callVars, readerVars
<1>12. ASSUME NEW c \in Conns, Filter(c) PROVE Capacity'
  BY <1>12 DEF Filter, Goto, Done, TypeOK, Capacity, poolVars, netVars, callVars,
       readerVars
<1>13. ASSUME NEW c \in Conns, Recheck(c) PROVE Capacity'
  BY <1>13 DEF Recheck, Goto, Done, TypeOK, Capacity, poolVars, netVars, callVars,
       readerVars
<1>14. ASSUME NEW c \in Conns, RedialFails(c) PROVE Capacity'
  BY <1>14 DEF RedialFails, Goto, TypeOK, Capacity, poolVars, netVars, callVars,
       readerVars
<1>15. ASSUME NEW c \in Conns, Reattach(c) PROVE Capacity'
  <2> DEFINE d == succ[c]
             wanted == {ch \in still[c] : subs[ch] > 0}
  <2>1. d \in Conns /\ chans[d] = {}
    BY <1>15 DEF Reattach, Dialed, Fresh
  <2>2. chans' = [chans EXCEPT ![d] = wanted]
    BY <1>15, <2>1 DEF Reattach, TypeOK
  <2>3. wanted \in SUBSET active[c] /\ active[c] \in SUBSET Channels
    BY DEF Moved, TypeOK
  <2>4. Cardinality(wanted) <= Cardinality(active[c])
    BY <2>3, Sizes
  <2>5. Cardinality(active[c]) <= MaxPerSocket
    BY DEF Moved
  <2>6. Cardinality(active[c]) \in Nat /\ Cardinality(wanted) \in Nat
    BY <2>3, Sizes
  <2>7. Cardinality(wanted) <= MaxPerSocket
    BY <2>4, <2>5, <2>6
  <2>8. QED
    BY <2>1, <2>2, <2>7 DEF TypeOK, Capacity
<1>16. ASSUME NEW c \in Conns, SendRejoin(c) PROVE Capacity'
  BY <1>16 DEF SendRejoin, Join, Goto, Done, TypeOK, Capacity, poolVars, netVars,
       callVars, readerVars
<1>17. ASSUME NEW c \in Conns, NEW d \in Conns, Redial(c, d) PROVE Capacity'
  BY <1>17, FS_EmptySet DEF Redial, Open, TypeOK, Capacity
<1>18. ASSUME NEW c \in Conns, Break(c) PROVE Capacity'
  BY <1>18 DEF Break, TypeOK, Capacity, poolVars, netVars, callVars, readerVars
<1>19. CASE UNCHANGED vars
  BY <1>19 DEF TypeOK, Capacity, poolVars, netVars, callVars, readerVars, vars
<1>20. QED
  BY <1>1, <1>2, <1>3, <1>4, <1>5, <1>6, <1>7, <1>8, <1>9, <1>10, <1>11, <1>12, <1>13,
       <1>14, <1>15, <1>16, <1>17, <1>18, <1>19
     DEF Next, Calls, Caller, Reader

LEMMA MovedStep == TypeOK /\ Capacity /\ Moved /\ [Next]_vars => Moved'
<1> SUFFICES ASSUME TypeOK, Capacity, Moved, [Next]_vars PROVE Moved'
  OBVIOUS
<1> USE IrcAssumption
<1>1. ASSUME NEW p \in Callers, NEW ch \in Channels, JoinCounted(p, ch) PROVE Moved'
  BY <1>1 DEF JoinCounted, TypeOK, Capacity, Moved, poolVars, netVars, callVars,
       readerVars
<1>2. ASSUME NEW p \in Callers, NEW ch \in Channels, JoinPicks(p, ch) PROVE Moved'
  BY <1>2 DEF JoinPicks, PickConn, Call, TypeOK, Capacity, Moved, poolVars, netVars,
       callVars, readerVars
<1>3. ASSUME NEW p \in Callers, NEW ch \in Channels, JoinDials(p, ch) PROVE Moved'
  BY <1>3 DEF JoinDials, Call, TypeOK, Capacity, Moved, poolVars, netVars, callVars,
       readerVars
<1>4. ASSUME NEW p \in Callers, NEW ch \in Channels, PartCounted(p, ch) PROVE Moved'
  BY <1>4 DEF PartCounted, TypeOK, Capacity, Moved, poolVars, netVars, callVars,
       readerVars
<1>5. ASSUME NEW p \in Callers, NEW ch \in Channels, PartLast(p, ch) PROVE Moved'
  BY <1>5 DEF PartLast, Call, TypeOK, Capacity, Moved, poolVars, netVars, callVars,
       readerVars
<1>6. ASSUME NEW p \in Callers, DialFails(p) PROVE Moved'
  BY <1>6 DEF DialFails, Return, Call, TypeOK, Capacity, Moved, poolVars, netVars,
       callVars, readerVars
<1>7. ASSUME NEW p \in Callers, Attach(p) PROVE Moved'
  BY <1>7 DEF Attach, Call, TypeOK, Capacity, Moved, poolVars, netVars, callVars,
       readerVars
<1>8. ASSUME NEW p \in Callers, SendJoin(p) PROVE Moved'
  BY <1>8 DEF SendJoin, Join, Return, Call, TypeOK, Capacity, Moved, poolVars, netVars,
       callVars, readerVars
<1>9. ASSUME NEW p \in Callers, SendPart(p) PROVE Moved'
  BY <1>9 DEF SendPart, Part, Return, Call, TypeOK, Capacity, Moved, poolVars, netVars,
       callVars, readerVars
<1>10. ASSUME NEW p \in Callers, NEW c \in Conns, DialOk(p, c) PROVE Moved'
  BY <1>10 DEF DialOk, Open, Unused, Call, TypeOK, Capacity, Moved, poolVars, netVars,
       callVars, readerVars
<1>11. ASSUME NEW c \in Conns, Detach(c) PROVE Moved'
  <2>1. active' = [active EXCEPT ![c] = chans[c]] /\ still' = still
        /\ reader' = [reader EXCEPT ![c] = "filter"]
    BY <1>11 DEF Detach, Goto
  <2>2. still[c] = {}
    BY <1>11 DEF Detach, Moved
  <2>3. QED
    BY <2>1, <2>2 DEF Moved, Capacity, TypeOK
<1>12. ASSUME NEW c \in Conns, Filter(c) PROVE Moved'
  <2> DEFINE wanted == {ch \in active[c] : subs[ch] > 0}
  <2>1. CASE Done(c)
    BY <2>1, FS_EmptySet DEF Done, Goto, Moved, TypeOK
  <2>2. CASE /\ active' = [active EXCEPT ![c] = wanted]
           /\ reader' = [reader EXCEPT ![c] = "wait"]
           /\ UNCHANGED still
    <3>1. wanted \in SUBSET active[c] /\ active[c] \in SUBSET Channels
      BY DEF TypeOK
    <3>2. Cardinality(wanted) <= Cardinality(active[c])
      BY <3>1, Sizes
    <3>3. Cardinality(active[c]) \in Nat /\ Cardinality(wanted) \in Nat
      BY <3>1, Sizes
    <3>4. Cardinality(wanted) <= MaxPerSocket
      BY <3>2, <3>3 DEF Moved
    <3>5. still[c] = {}
      BY <1>12 DEF Filter, Moved
    <3>6. QED
      BY <2>2, <3>4, <3>5 DEF Moved, TypeOK
  <2>3. QED
    BY <1>12, <2>1, <2>2 DEF Filter, Goto
<1>13. ASSUME NEW c \in Conns, Recheck(c) PROVE Moved'
  <2> DEFINE wanted == {ch \in active[c] : subs[ch] > 0}
  <2>1. CASE Done(c)
    BY <2>1, FS_EmptySet DEF Done, Goto, Moved, TypeOK
  <2>2. CASE /\ still' = [still EXCEPT ![c] = wanted]
           /\ reader' = [reader EXCEPT ![c] = "redial"]
           /\ UNCHANGED active
    BY <2>2 DEF Moved, TypeOK
  <2>3. QED
    BY <1>13, <2>1, <2>2 DEF Recheck, Goto
<1>14. ASSUME NEW c \in Conns, RedialFails(c) PROVE Moved'
  BY <1>14 DEF RedialFails, Goto, TypeOK, Capacity, Moved, poolVars, netVars, callVars,
       readerVars
<1>15. ASSUME NEW c \in Conns, Reattach(c) PROVE Moved'
  BY <1>15 DEF Reattach, Goto, TypeOK, Capacity, Moved, poolVars, netVars, callVars,
       readerVars
<1>16. ASSUME NEW c \in Conns, SendRejoin(c) PROVE Moved'
  <2>1. CASE Done(c)
    BY <2>1, FS_EmptySet DEF Done, Goto, Moved, TypeOK
  <2>2. CASE /\ UNCHANGED <<active, reader>>
           /\ \E ch \in Channels : still' = [still EXCEPT ![c] = @ \ {ch}]
    BY <2>2 DEF Moved, TypeOK
  <2>3. QED
    BY <1>16, <2>1, <2>2 DEF SendRejoin, TypeOK
<1>17. ASSUME NEW c \in Conns, NEW d \in Conns, Redial(c, d) PROVE Moved'
  BY <1>17 DEF Redial, Open, Unused, TypeOK, Capacity, Moved, poolVars, netVars,
       callVars, readerVars
<1>18. ASSUME NEW c \in Conns, Break(c) PROVE Moved'
  BY <1>18 DEF Break, TypeOK, Capacity, Moved, poolVars, netVars, callVars, readerVars
<1>19. CASE UNCHANGED vars
  BY <1>19 DEF TypeOK, Capacity, Moved, poolVars, netVars, callVars, readerVars, vars
<1>20. QED
  BY <1>1, <1>2, <1>3, <1>4, <1>5, <1>6, <1>7, <1>8, <1>9, <1>10, <1>11, <1>12, <1>13,
       <1>14, <1>15, <1>16, <1>17, <1>18, <1>19
     DEF Next, Calls, Caller, Reader

\* Types, what is held by whom, and the sizes are inductive together.
THEOREM Inductive == Spec => []IInv
<1>1. IInv /\ [Next]_vars => IInv'
  BY TypeStep, ShapesStep, DialedStep, CapacityStep, MovedStep DEF IInv
<1>2. QED
  BY <1>1, InvInit, PTL DEF Spec

\* No connection carries more channels than it may.
THEOREM ConnectionsBounded == Spec => []Capacity
<1>1. IInv => Capacity
  BY DEF IInv
<1>2. QED
  BY <1>1, Inductive, PTL

-----------------------------------------------------------------------------
(* No channel is lost.                                                     *)

GivesUp(ch) == \E p \in Callers : pc[p] = "dial" /\ arg[p] = ch /\ pc'[p] = "idle"

Kept == \A ch \in Channels : ~Stranded(ch) /\ Stranded(ch)' => GivesUp(ch)

LEMMA KeptStep == TypeOK /\ Shapes /\ Moved /\ [Next]_vars => Kept
<1> SUFFICES ASSUME TypeOK, Shapes, Moved, [Next]_vars PROVE Kept
  OBVIOUS
<1> USE IrcAssumption
<1>1. ASSUME NEW p \in Callers, NEW ch \in Channels, JoinCounted(p, ch) PROVE Kept
  BY <1>1 DEF JoinCounted, TypeOK, Shapes, Kept, GivesUp, Stranded, AtWork, Moved,
       poolVars, netVars, callVars, readerVars
<1>2. ASSUME NEW p \in Callers, NEW ch \in Channels, JoinPicks(p, ch) PROVE Kept
  BY <1>2 DEF JoinPicks, PickConn, Call, TypeOK, Shapes, Kept, GivesUp, Stranded, AtWork,
       Moved, poolVars, netVars, callVars, readerVars
<1>3. ASSUME NEW p \in Callers, NEW ch \in Channels, JoinDials(p, ch) PROVE Kept
  BY <1>3 DEF JoinDials, Call, TypeOK, Shapes, Kept, GivesUp, Stranded, AtWork, Moved,
       poolVars, netVars, callVars, readerVars
<1>4. ASSUME NEW p \in Callers, NEW ch \in Channels, PartCounted(p, ch) PROVE Kept
  BY <1>4 DEF PartCounted, TypeOK, Shapes, Kept, GivesUp, Stranded, AtWork, Moved,
       poolVars, netVars, callVars, readerVars
<1>5. ASSUME NEW p \in Callers, NEW ch \in Channels, PartLast(p, ch) PROVE Kept
  BY <1>5 DEF PartLast, Call, TypeOK, Shapes, Kept, GivesUp, Stranded, AtWork, Moved,
       poolVars, netVars, callVars, readerVars
<1>6. ASSUME NEW p \in Callers, DialFails(p) PROVE Kept
  BY <1>6 DEF DialFails, Return, Call, TypeOK, Shapes, Kept, GivesUp, Stranded, AtWork,
       Moved, poolVars, netVars, callVars, readerVars
<1>7. ASSUME NEW p \in Callers, Attach(p) PROVE Kept
  BY <1>7 DEF Attach, Call, TypeOK, Shapes, Kept, GivesUp, Stranded, AtWork, Moved,
       poolVars, netVars, callVars, readerVars
<1>8. ASSUME NEW p \in Callers, SendJoin(p) PROVE Kept
  BY <1>8 DEF SendJoin, Join, Return, Call, TypeOK, Shapes, Kept, GivesUp, Stranded,
       AtWork, Moved, poolVars, netVars, callVars, readerVars
<1>9. ASSUME NEW p \in Callers, SendPart(p) PROVE Kept
  BY <1>9 DEF SendPart, Part, Return, Call, TypeOK, Shapes, Kept, GivesUp, Stranded,
       AtWork, Moved, poolVars, netVars, callVars, readerVars
<1>10. ASSUME NEW p \in Callers, NEW c \in Conns, DialOk(p, c) PROVE Kept
  BY <1>10 DEF DialOk, Open, Unused, Call, TypeOK, Shapes, Kept, GivesUp, Stranded,
       AtWork, Moved, poolVars, netVars, callVars, readerVars
<1>11. ASSUME NEW c \in Conns, Detach(c) PROVE Kept
  BY <1>11 DEF Detach, Goto, TypeOK, Shapes, Kept, GivesUp, Stranded, AtWork, Moved,
       poolVars, netVars, callVars, readerVars
<1>12. ASSUME NEW c \in Conns, Filter(c) PROVE Kept
  BY <1>12 DEF Filter, Goto, Done, TypeOK, Shapes, Kept, GivesUp, Stranded, AtWork,
       Moved, poolVars, netVars, callVars, readerVars
<1>13. ASSUME NEW c \in Conns, Recheck(c) PROVE Kept
  BY <1>13 DEF Recheck, Goto, Done, TypeOK, Shapes, Kept, GivesUp, Stranded, AtWork,
       Moved, poolVars, netVars, callVars, readerVars
<1>14. ASSUME NEW c \in Conns, RedialFails(c) PROVE Kept
  BY <1>14 DEF RedialFails, Goto, TypeOK, Shapes, Kept, GivesUp, Stranded, AtWork, Moved,
       poolVars, netVars, callVars, readerVars
<1>15. ASSUME NEW c \in Conns, Reattach(c) PROVE Kept
  BY <1>15 DEF Reattach, Goto, TypeOK, Shapes, Kept, GivesUp, Stranded, AtWork, Moved,
       poolVars, netVars, callVars, readerVars
<1>16. ASSUME NEW c \in Conns, SendRejoin(c) PROVE Kept
  BY <1>16 DEF SendRejoin, Join, Goto, Done, TypeOK, Shapes, Kept, GivesUp, Stranded,
       AtWork, Moved, poolVars, netVars, callVars, readerVars
<1>17. ASSUME NEW c \in Conns, NEW d \in Conns, Redial(c, d) PROVE Kept
  BY <1>17 DEF Redial, Open, Unused, TypeOK, Shapes, Kept, GivesUp, Stranded, AtWork,
       Moved, poolVars, netVars, callVars, readerVars
<1>18. ASSUME NEW c \in Conns, Break(c) PROVE Kept
  BY <1>18 DEF Break, TypeOK, Shapes, Kept, GivesUp, Stranded, AtWork, Moved, poolVars,
       netVars, callVars, readerVars
<1>19. CASE UNCHANGED vars
  BY <1>19 DEF TypeOK, Shapes, Kept, GivesUp, Stranded, AtWork, Moved, poolVars, netVars,
       callVars, readerVars, vars
<1>20. QED
  BY <1>1, <1>2, <1>3, <1>4, <1>5, <1>6, <1>7, <1>8, <1>9, <1>10, <1>11, <1>12, <1>13,
       <1>14, <1>15, <1>16, <1>17, <1>18, <1>19
     DEF Next, Calls, Caller, Reader

\* The one step that leaves a channel with subscribers and nobody to route it is a
\* join that gives up dialing.
THEOREM OnlyDialersStrand == Spec => OnlyGivingUpStrands
<1>1. IInv /\ [Next]_vars =>
        [\A ch \in Channels : ~Stranded(ch) /\ Stranded(ch)' =>
           \E p \in Callers : pc[p] = "dial" /\ arg[p] = ch /\ pc'[p] = "idle"]_vars
  BY KeptStep DEF IInv, Kept, GivesUp
<1>2. QED
  BY <1>1, Inductive, PTL DEF Spec, OnlyGivingUpStrands

-----------------------------------------------------------------------------
(* The connections that are signed in (Sender).                             *)

\* A send that has a connection has one of the pool's, and what is marked closed is not
\* open; a send that gives its connection up found it closed, and it stays so while the
\* send has it.
Given ==
  /\ \A c \in snd_Clients :
       snd_at[c] \in {"hello", "register", "say", "drop"} => snd_using[c] \in snd_Conns
  /\ snd_open \cap snd_closed = {}
  /\ \A c \in snd_Clients : snd_at[c] = "drop" => snd_using[c] \notin snd_open

\* As long as no drop took out the wrong connection, an open one that is read is in the map.
Mapped ==
  ~snd_stray => \A o \in snd_open : snd_reader[o] = "reading" => snd_entry = o

SenderInv == Snd!TypeOK /\ Given /\ Mapped

LEMMA SenderInit == Snd!Init => SenderInv
BY DEF Snd!Init, SenderInv, Snd!TypeOK, Given, Mapped

LEMMA SenderTypeStep ==
  Snd!TypeOK /\ Given /\ [Snd!Next]_(Snd!vars) => Snd!TypeOK'
<1> SUFFICES ASSUME Snd!TypeOK, Given, [Snd!Next]_(Snd!vars) PROVE Snd!TypeOK'
  OBVIOUS
<1> USE DEF Snd!TypeOK, Snd!Goto, Snd!callers, Snd!conns
<1>1. ASSUME NEW c \in snd_Clients, Snd!Connect(c) \/ Snd!Leave(c) \/ Snd!Send(c)
      PROVE  Snd!TypeOK'
  BY <1>1 DEF Snd!Connect, Snd!Leave, Snd!Send
<1>2. ASSUME NEW c \in snd_Clients, Snd!Lookup(c) PROVE Snd!TypeOK'
  BY <1>2 DEF Snd!Lookup
<1>3. ASSUME NEW c \in snd_Clients, Snd!Dial(c) PROVE Snd!TypeOK'
  BY <1>3 DEF Snd!Dial
<1>4. ASSUME NEW c \in snd_Clients, Snd!DialFails(c) \/ Snd!Hello(c) \/ Snd!HelloFails(c)
      PROVE  Snd!TypeOK'
  BY <1>4 DEF Snd!DialFails, Snd!Hello, Snd!HelloFails
<1>5. ASSUME NEW c \in snd_Clients, Snd!Register(c) PROVE Snd!TypeOK'
  BY <1>5 DEF Snd!Register, Given
<1>6. ASSUME NEW c \in snd_Clients, Snd!Say(c) \/ Snd!SayFails(c) PROVE Snd!TypeOK'
  BY <1>6 DEF Snd!Say, Snd!SayFails
<1>7. ASSUME NEW c \in snd_Clients, Snd!DropFailed(c) PROVE Snd!TypeOK'
  BY <1>7 DEF Snd!DropFailed, Snd!Drop
<1>8. ASSUME NEW o \in snd_Conns, Snd!ReaderEnds(o) \/ Snd!Break(o) PROVE Snd!TypeOK'
  BY <1>8 DEF Snd!ReaderEnds, Snd!Break
<1>9. ASSUME NEW o \in snd_Conns, Snd!ReaderDrops(o) PROVE Snd!TypeOK'
  BY <1>9 DEF Snd!ReaderDrops, Snd!Drop
<1>10. CASE UNCHANGED Snd!vars
  BY <1>10 DEF Snd!vars
<1>11. QED
  BY <1>1, <1>2, <1>3, <1>4, <1>5, <1>6, <1>7, <1>8, <1>9, <1>10
     DEF Snd!Next, Snd!Sending, Snd!Reading

LEMMA GivenStep == SenderInv /\ [Snd!Next]_(Snd!vars) => Given'
<1> SUFFICES ASSUME SenderInv, [Snd!Next]_(Snd!vars) PROVE Given'
  OBVIOUS
<1> USE IrcPartsAssumption DEF SenderInv, Snd!TypeOK, Given, Snd!Goto, Snd!callers, Snd!conns
<1>1. ASSUME NEW c \in snd_Clients, Snd!Connect(c) \/ Snd!Leave(c) \/ Snd!Send(c)
      PROVE  Given'
  BY <1>1 DEF Snd!Connect, Snd!Leave, Snd!Send
<1>2. ASSUME NEW c \in snd_Clients, Snd!Lookup(c) PROVE Given'
  BY <1>2 DEF Snd!Lookup
<1>3. ASSUME NEW c \in snd_Clients, Snd!Dial(c) PROVE Given'
  BY <1>3 DEF Snd!Dial, Snd!Unused
<1>4. ASSUME NEW c \in snd_Clients, Snd!DialFails(c) \/ Snd!Hello(c) \/ Snd!HelloFails(c)
      PROVE  Given'
  BY <1>4 DEF Snd!DialFails, Snd!Hello, Snd!HelloFails
<1>5. ASSUME NEW c \in snd_Clients, Snd!Register(c) PROVE Given'
  BY <1>5 DEF Snd!Register
<1>6. ASSUME NEW c \in snd_Clients, Snd!Say(c) \/ Snd!SayFails(c) PROVE Given'
  BY <1>6 DEF Snd!Say, Snd!SayFails
<1>7. ASSUME NEW c \in snd_Clients, Snd!DropFailed(c) PROVE Given'
  BY <1>7 DEF Snd!DropFailed
<1>8. ASSUME NEW o \in snd_Conns, Snd!ReaderEnds(o) \/ Snd!Break(o) PROVE Given'
  BY <1>8 DEF Snd!ReaderEnds, Snd!Break
<1>9. ASSUME NEW o \in snd_Conns, Snd!ReaderDrops(o) PROVE Given'
  BY <1>9 DEF Snd!ReaderDrops
<1>10. CASE UNCHANGED Snd!vars
  BY <1>10 DEF Snd!vars
<1>11. QED
  BY <1>1, <1>2, <1>3, <1>4, <1>5, <1>6, <1>7, <1>8, <1>9, <1>10
     DEF Snd!Next, Snd!Sending, Snd!Reading

\* The map changes where a connection takes its place, which closes the one it replaces,
\* and where one is dropped: that one is not open, or the drop went astray.
LEMMA MappedStep == SenderInv /\ [Snd!Next]_(Snd!vars) => Mapped'
<1> SUFFICES ASSUME SenderInv, [Snd!Next]_(Snd!vars) PROVE Mapped'
  OBVIOUS
<1> USE DEF SenderInv, Snd!TypeOK, Given, Mapped, Snd!conns
<1>1. ASSUME NEW c \in snd_Clients, Snd!Connect(c) \/ Snd!Leave(c) \/ Snd!Send(c)
      PROVE  Mapped'
  BY <1>1 DEF Snd!Connect, Snd!Leave, Snd!Send
<1>2. ASSUME NEW c \in snd_Clients, Snd!Lookup(c) \/ Snd!DialFails(c) \/ Snd!Hello(c)
                                    \/ Snd!Say(c) \/ Snd!SayFails(c)
      PROVE  Mapped'
  BY <1>2 DEF Snd!Lookup, Snd!DialFails, Snd!Hello, Snd!Say, Snd!SayFails
<1>3. ASSUME NEW c \in snd_Clients, Snd!Dial(c) PROVE Mapped'
  BY <1>3 DEF Snd!Dial, Snd!Unused
<1>4. ASSUME NEW c \in snd_Clients, Snd!HelloFails(c) PROVE Mapped'
  BY <1>4 DEF Snd!HelloFails
<1>5. ASSUME NEW c \in snd_Clients, Snd!Register(c) PROVE Mapped'
  BY <1>5 DEF Snd!Register
<1>6. ASSUME NEW c \in snd_Clients, Snd!DropFailed(c) PROVE Mapped'
  BY <1>6 DEF Snd!DropFailed, Snd!Drop
<1>7. ASSUME NEW o \in snd_Conns, Snd!ReaderEnds(o) \/ Snd!Break(o) PROVE Mapped'
  BY <1>7 DEF Snd!ReaderEnds, Snd!Break
<1>8. ASSUME NEW o \in snd_Conns, Snd!ReaderDrops(o) PROVE Mapped'
  BY <1>8 DEF Snd!ReaderDrops, Snd!Drop
<1>9. CASE UNCHANGED Snd!vars
  BY <1>9 DEF Snd!vars
<1>10. QED
  BY <1>1, <1>2, <1>3, <1>4, <1>5, <1>6, <1>7, <1>8, <1>9
     DEF Snd!Next, Snd!Sending, Snd!Reading

LEMMA SameCardinality == \A S : Snd!Cardinality(S) = Cardinality(S)
BY DEF Snd!Cardinality, Cardinality

\* Types, and that what is open and read is in the map, hold throughout.
THEOREM SenderInductive == Snd!Spec => []SenderInv
<1>1. SenderInv /\ [Snd!Next]_(Snd!vars) => SenderInv'
  BY SenderTypeStep, GivenStep, MappedStep DEF SenderInv
<1>2. QED
  BY SenderInit, <1>1, PTL DEF Snd!Spec

(***************************************************************************)
(* Until a drop, which goes by the session, takes out the connection of    *)
(* another client (`stray`), a session speaks over one connection, for any *)
(* number of clients that send and dial at the same time: one that takes   *)
(* the place of another in the map closes it, so every open connection     *)
(* that is read is the map's (sender.go:77-111).  After such a drop        *)
(* nothing is said.                                                        *)
(***************************************************************************)
THEOREM SessionsSpeakOnce == Snd!Spec => []SingleConnection
<1> DEFINE S == {o \in snd_open : snd_reader[o] = "reading"}
<1>1. SenderInv => SingleConnection
  <2> SUFFICES ASSUME SenderInv, ~snd_stray
               PROVE  Cardinality(S) <= 1
    BY SameCardinality DEF SingleConnection, Snd!SingleConnection
  <2>1. S \subseteq {snd_entry}
    BY DEF SenderInv, Mapped
  <2> HIDE DEF S
  <2>2. CASE S = {}
    BY <2>2, FS_EmptySet
  <2>3. CASE S = {snd_entry}
    BY <2>3, FS_Singleton
  <2>4. QED
    BY <2>1, <2>2, <2>3
<1>2. QED
  BY SenderInductive, <1>1, PTL
=============================================================================
