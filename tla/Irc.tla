-------------------------------- MODULE Irc --------------------------------
(***************************************************************************)
(* The pool of anonymous IRC connections of the chat service (Manager in   *)
(* internal/chat/ircconn/ircconn.go): callers join and part channels, a    *)
(* channel is counted once per join, connections carry up to MaxPerSocket  *)
(* channels, and the reader of a connection that breaks moves its channels *)
(* to a new one.                                                           *)
(*                                                                         *)
(* A step is what runs under one hold of the manager's lock, or one call   *)
(* made without it: a dial, or one line written to a socket.  Lines are    *)
(* written after the lock is given up, so a JOIN and a PART of one channel *)
(* can overtake each other.                                                *)
(***************************************************************************)
EXTENDS Naturals, FiniteSets

CONSTANTS
  Channels,
  Callers,      (* goroutines of the hub that call Join and Part            *)
  Conns,        (* bound: connection objects that exist at the same time    *)
  MaxPerSocket, (* channels one connection may carry                        *)
  MaxSubs,      (* bound: joins of one channel that are counted             *)
  None          (* no connection, no channel                                *)

ASSUME IrcAssumption ==
  /\ IsFiniteSet(Channels)
  /\ MaxPerSocket \in Nat \ {0}
  /\ MaxSubs \in Nat \ {0}
  /\ None \notin Channels \cup Conns

VARIABLES
  subs,        (* per channel: joins counted                                *)
  conns,       (* the connections of the pool                               *)
  chans,       (* per connection: the channels registered on it             *)
  connOf,      (* per channel: the connection it is routed to               *)
  sock,        (* per connection: "new", "open" or "dead"                   *)
  heard,       (* per connection: the channels its server has joined        *)
  pc, arg, on, (* per caller: program counter, channel, connection          *)
  reader,      (* per connection: its read loop's program counter           *)
  active,      (* per broken connection: channels to be moved               *)
  still,       (* per broken connection: those of them the attempt under    *)
               (* way moves, then those whose JOIN is to be sent            *)
  succ         (* per broken connection: the one that takes over            *)

poolVars   == <<subs, conns, chans, connOf>>
netVars    == <<sock, heard>>
callVars   == <<pc, arg, on>>
readerVars == <<reader, active, still, succ>>
vars == <<poolVars, netVars, callVars, readerVars>>

TypeOK ==
  /\ subs \in [Channels -> 0 .. MaxSubs]
  /\ conns \in SUBSET Conns
  /\ chans \in [Conns -> SUBSET Channels]
  /\ connOf \in [Channels -> Conns \cup {None}]
  /\ sock \in [Conns -> {"new", "open", "dead"}]
  /\ heard \in [Conns -> SUBSET Channels]
  /\ pc \in [Callers -> {"idle", "dial", "attach", "join", "part"}]
  /\ arg \in [Callers -> Channels \cup {None}]
  /\ on \in [Callers -> Conns \cup {None}]
  /\ reader \in [Conns -> {"none", "read", "filter", "wait", "redial", "reattach",
                           "rejoin"}]
  /\ active \in [Conns -> SUBSET Channels]
  /\ still \in [Conns -> SUBSET Channels]
  /\ succ \in [Conns -> Conns \cup {None}]

Init ==
  /\ subs = [ch \in Channels |-> 0]
  /\ conns = {}
  /\ chans = [c \in Conns |-> {}]
  /\ connOf = [ch \in Channels |-> None]
  /\ sock = [c \in Conns |-> "new"]
  /\ heard = [c \in Conns |-> {}]
  /\ pc = [p \in Callers |-> "idle"]
  /\ arg = [p \in Callers |-> None]
  /\ on = [p \in Callers |-> None]
  /\ reader = [c \in Conns |-> "none"]
  /\ active = [c \in Conns |-> {}]
  /\ still = [c \in Conns |-> {}]
  /\ succ = [c \in Conns |-> None]

-----------------------------------------------------------------------------

Call(p, at, ch, c) ==
  /\ pc' = [pc EXCEPT ![p] = at]
  /\ arg' = [arg EXCEPT ![p] = ch]
  /\ on' = [on EXCEPT ![p] = c]

Return(p) == Call(p, "idle", None, None)

\* The pool's connections are tried in order; which one with room is taken does
\* not matter here.
PickConn(c) == c \in conns /\ Cardinality(chans[c]) < MaxPerSocket

\* A connection object nothing refers to (any more).
Unused(c) ==
  /\ reader[c] = "none"
  /\ c \notin conns
  /\ \A p \in Callers : on[p] # c
  /\ \A d \in Conns : succ[d] # c

\* Bound: calls dial and connections break only while there is an object left for
\* the successor of every broken connection.
Spare ==
  Cardinality({c \in Conns : Unused(c)})
    > Cardinality({c \in Conns : /\ sock[c] = "dead"
                                 /\ reader[c] \in {"read", "filter", "wait", "redial"}})

\* dial: a new connection, whose read loop starts before the pool knows of it.
Open(c) ==
  /\ Unused(c)
  /\ sock' = [sock EXCEPT ![c] = "open"]
  /\ heard' = [heard EXCEPT ![c] = {}]
  /\ chans' = [chans EXCEPT ![c] = {}]

\* A line written to a dead socket is logged and forgotten.
Join(c, ch) ==
  heard' = [heard EXCEPT ![c] = IF sock[c] = "open" THEN @ \cup {ch} ELSE @]

Part(c, ch) == heard' = [heard EXCEPT ![c] = @ \ {ch}]

-----------------------------------------------------------------------------
(* Join.                                                                   *)

\* Somebody has joined the channel before: count, and return.
JoinCounted(p, ch) ==
  /\ pc[p] = "idle"
  /\ subs[ch] \in 1 .. MaxSubs - 1
  /\ subs' = [subs EXCEPT ![ch] = @ + 1]
  /\ UNCHANGED <<conns, chans, connOf, netVars, callVars, readerVars>>

\* The first join, with room on a connection of the pool.
JoinPicks(p, ch) ==
  /\ pc[p] = "idle"
  /\ subs[ch] = 0
  /\ subs' = [subs EXCEPT ![ch] = 1]
  /\ \E c \in Conns :
       /\ PickConn(c)
       /\ chans' = [chans EXCEPT ![c] = @ \cup {ch}]
       /\ connOf' = [connOf EXCEPT ![ch] = c]
       /\ Call(p, "join", ch, c)
  /\ UNCHANGED <<conns, netVars, readerVars>>

\* The first join, without room: dial, with the lock given up.
JoinDials(p, ch) ==
  /\ pc[p] = "idle"
  /\ subs[ch] = 0
  /\ ~\E c \in Conns : PickConn(c)
  /\ subs' = [subs EXCEPT ![ch] = 1]
  /\ Call(p, "dial", ch, None)
  /\ UNCHANGED <<conns, chans, connOf, netVars, readerVars>>

DialOk(p, c) ==
  /\ pc[p] = "dial"
  /\ Spare
  /\ Open(c)
  /\ reader' = [reader EXCEPT ![c] = "read"]
  /\ Call(p, "attach", arg[p], c)
  /\ UNCHANGED <<subs, conns, connOf, active, still, succ>>

\* Eight dials, or the handshake, have failed: take the count of this join back.
DialFails(p) ==
  /\ pc[p] = "dial"
  /\ subs' = [subs EXCEPT ![arg[p]] = IF @ = 0 THEN 0 ELSE @ - 1]
  /\ Return(p)
  /\ UNCHANGED <<conns, chans, connOf, netVars, readerVars>>

\* The new connection joins the pool, whether or not it is still open, and takes
\* the channel, whether or not somebody still wants it.
Attach(p) ==
  /\ pc[p] = "attach"
  /\ conns' = conns \cup {on[p]}
  /\ chans' = [chans EXCEPT ![on[p]] = @ \cup {arg[p]}]
  /\ connOf' = [connOf EXCEPT ![arg[p]] = on[p]]
  /\ Call(p, "join", arg[p], on[p])
  /\ UNCHANGED <<subs, netVars, readerVars>>

SendJoin(p) ==
  /\ pc[p] = "join"
  /\ Join(on[p], arg[p])
  /\ Return(p)
  /\ UNCHANGED <<poolVars, sock, readerVars>>

-----------------------------------------------------------------------------
(* Part.                                                                   *)

PartCounted(p, ch) ==
  /\ pc[p] = "idle"
  /\ subs[ch] > 1
  /\ subs' = [subs EXCEPT ![ch] = @ - 1]
  /\ UNCHANGED <<conns, chans, connOf, netVars, callVars, readerVars>>

\* The last part, or one without a join: forget the channel, then say so upstream.
PartLast(p, ch) ==
  /\ pc[p] = "idle"
  /\ subs[ch] <= 1
  /\ subs' = [subs EXCEPT ![ch] = 0]
  /\ connOf' = [connOf EXCEPT ![ch] = None]
  /\ chans' = [c \in Conns |-> IF c = connOf[ch] THEN chans[c] \ {ch} ELSE chans[c]]
  /\ IF connOf[ch] = None THEN UNCHANGED callVars ELSE Call(p, "part", ch, connOf[ch])
  /\ UNCHANGED <<conns, netVars, readerVars>>

SendPart(p) ==
  /\ pc[p] = "part"
  /\ Part(on[p], arg[p])
  /\ Return(p)
  /\ UNCHANGED <<poolVars, sock, readerVars>>

-----------------------------------------------------------------------------
(* readLoop and reconnect.                                                 *)

Goto(c, at) == reader' = [reader EXCEPT ![c] = at]

\* The connection breaks: the network or the server.
Break(c) ==
  /\ sock[c] = "open"
  /\ Spare
  /\ sock' = [sock EXCEPT ![c] = "dead"]
  /\ heard' = [heard EXCEPT ![c] = {}]
  /\ UNCHANGED <<poolVars, callVars, readerVars>>

\* Mutant: the channels are listed after the pool has forgotten them.
DetachForgets(c) ==
  /\ reader[c] = "read"
  /\ sock[c] = "dead"
  /\ conns' = conns \ {c}
  /\ connOf' = [ch \in Channels |-> IF ch \in chans[c] THEN None ELSE connOf[ch]]
  /\ active' = [active EXCEPT ![c] = {}]
  /\ Goto(c, "filter")
  /\ UNCHANGED <<subs, chans, netVars, callVars, still, succ>>

\* The read fails: take the connection out of the pool and its channels out of the
\* routing table, wherever they are routed by now.
Detach(c) ==
  /\ reader[c] = "read"
  /\ sock[c] = "dead"
  /\ conns' = conns \ {c}
  /\ connOf' = [ch \in Channels |-> IF ch \in chans[c] THEN None ELSE connOf[ch]]
  /\ active' = [active EXCEPT ![c] = chans[c]]
  /\ Goto(c, "filter")
  /\ UNCHANGED <<subs, chans, netVars, callVars, still, succ>>

Done(c) ==
  /\ Goto(c, "none")
  /\ active' = [active EXCEPT ![c] = {}]
  /\ still' = [still EXCEPT ![c] = {}]
  /\ succ' = [succ EXCEPT ![c] = None]

\* Keep the channels somebody wants; with none, the loop ends.
Filter(c) ==
  /\ reader[c] = "filter"
  /\ LET wanted == {ch \in active[c] : subs[ch] > 0}
     IN \/ /\ wanted = {}
           /\ Done(c)
        \/ /\ wanted # {}
           /\ active' = [active EXCEPT ![c] = wanted]
           /\ Goto(c, "wait")
           /\ UNCHANGED <<still, succ>>
  /\ UNCHANGED <<poolVars, netVars, callVars>>

\* After the backoff: those of them somebody still wants.
Recheck(c) ==
  /\ reader[c] = "wait"
  /\ LET wanted == {ch \in active[c] : subs[ch] > 0}
     IN \/ /\ wanted = {}
           /\ Done(c)
        \/ /\ wanted # {}
           /\ still' = [still EXCEPT ![c] = wanted]
           /\ Goto(c, "redial")
           /\ UNCHANGED <<active, succ>>
  /\ UNCHANGED <<poolVars, netVars, callVars>>

Redial(c, d) ==
  /\ reader[c] = "redial"
  /\ c # d
  /\ Open(d)
  /\ reader' = [reader EXCEPT ![c] = "reattach", ![d] = "read"]
  /\ succ' = [succ EXCEPT ![c] = d]
  /\ UNCHANGED <<subs, conns, connOf, callVars, active, still>>

\* Mutant: a redial that fails ends the loop.
RedialGivesUp(c) ==
  /\ reader[c] = "redial"
  /\ Done(c)
  /\ UNCHANGED <<poolVars, netVars, callVars>>

RedialFails(c) ==
  /\ reader[c] = "redial"
  /\ Goto(c, "wait")
  /\ still' = [still EXCEPT ![c] = {}]
  /\ UNCHANGED <<poolVars, netVars, callVars, active, succ>>

\* Under one lock: the new connection joins the pool and takes the channels that
\* are still wanted, wherever they are routed by now.
Reattach(c) ==
  /\ reader[c] = "reattach"
  /\ LET d      == succ[c]
         wanted == {ch \in still[c] : subs[ch] > 0}
     IN /\ conns' = conns \cup {d}
        /\ chans' = [chans EXCEPT ![d] = @ \cup wanted]
        /\ connOf' = [ch \in Channels |-> IF ch \in wanted THEN d ELSE connOf[ch]]
        /\ still' = [still EXCEPT ![c] = wanted]
  /\ Goto(c, "rejoin")
  /\ UNCHANGED <<subs, netVars, callVars, active, succ>>

SendRejoin(c) ==
  /\ reader[c] = "rejoin"
  /\ \/ \E ch \in still[c] :
          /\ Join(succ[c], ch)
          /\ still' = [still EXCEPT ![c] = @ \ {ch}]
          /\ UNCHANGED <<reader, active, succ>>
     \/ /\ still[c] = {}
        /\ Done(c)
        /\ UNCHANGED heard
  /\ UNCHANGED <<poolVars, sock, callVars>>

-----------------------------------------------------------------------------

Calls(p) ==
  \E ch \in Channels : \/ JoinCounted(p, ch) \/ JoinPicks(p, ch) \/ JoinDials(p, ch)
                       \/ PartCounted(p, ch) \/ PartLast(p, ch)

Caller(p) ==
  \/ DialFails(p) \/ Attach(p) \/ SendJoin(p) \/ SendPart(p)
  \/ \E c \in Conns : DialOk(p, c)

Reader(c) ==
  \/ Detach(c) \/ Filter(c) \/ Recheck(c)
  \/ RedialFails(c) \/ Reattach(c) \/ SendRejoin(c)
  \/ \E d \in Conns : Redial(c, d)

Next ==
  \/ \E p \in Callers : Calls(p) \/ Caller(p)
  \/ \E c \in Conns : Reader(c) \/ Break(c)

Spec == Init /\ [][Next]_vars

(***************************************************************************)
(* Calls under way and read loops run on.  A reconnect loop dials for ever *)
(* (its context is never cancelled), and a server that can be reached time *)
(* and again is reached at last.  Nobody has to join, part or break.       *)
(***************************************************************************)
Fairness ==
  /\ \A p \in Callers : WF_vars(Caller(p))
  /\ \A c \in Conns : /\ WF_vars(Reader(c))
                      /\ SF_vars(\E d \in Conns : Redial(c, d))

FairSpec == Spec /\ Fairness

-----------------------------------------------------------------------------

\* Somebody is about to route the channel to a connection.
AtWork(ch) ==
  \/ \E p \in Callers : pc[p] \in {"dial", "attach"} /\ arg[p] = ch
  \/ \E c \in Conns : \/ reader[c] \in {"filter", "wait"} /\ ch \in active[c]
                      \/ reader[c] \in {"redial", "reattach"} /\ ch \in still[c]

Stranded(ch) == subs[ch] > 0 /\ connOf[ch] = None /\ ~AtWork(ch)

(***************************************************************************)
(* No connection carries more channels than Twitch is asked for, also when *)
(* joins, dials and reconnects register channels at the same time          *)
(* (ircconn.go:99-106, 72-76, 239-251).                                    *)
(***************************************************************************)
Capacity == \A c \in Conns : Cardinality(chans[c]) <= MaxPerSocket

(***************************************************************************)
(* A channel with subscribers is routed to a connection, or a join or a    *)
(* reconnect is at work for it; the one step that ends this is a join that *)
(* gives up dialing after others were counted on top of it                 *)
(* (ircconn.go:62-71): no part, break or reconnect loses a channel, in     *)
(* whatever order they meet.                                               *)
(***************************************************************************)
OnlyGivingUpStrands ==
  [][\A ch \in Channels : ~Stranded(ch) /\ Stranded(ch)' =>
       \E p \in Callers : pc[p] = "dial" /\ arg[p] = ch /\ pc'[p] = "idle"]_vars

\* The channels a read loop takes over from its broken connection are routed again,
\* or nobody wants them any more (reconnect, ircconn.go:180-258).
Rejoined ==
  \A c \in Conns, ch \in Channels :
    reader[c] = "filter" /\ ch \in active[c] ~> connOf[ch] # None \/ subs[ch] = 0

=============================================================================
