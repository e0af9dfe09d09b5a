------------------------------ MODULE Delivery ------------------------------
(***************************************************************************)
(* What a batcher promises: a message it is given is handed on once, alone *)
(* or with others of its channel, and never lost.  Messages of a channel   *)
(* are numbered in the order they arrive.                                  *)
(***************************************************************************)
EXTENDS Naturals

CONSTANTS
  Channels,
  Total     (* bound: messages of one channel                               *)

VARIABLES
  owed,     (* per channel: messages taken and not yet handed on            *)
  delivered (* per channel: messages handed on                              *)

vars == <<owed, delivered>>

Init ==
  /\ owed = [ch \in Channels |-> {}]
  /\ delivered = [ch \in Channels |-> {}]

Take(ch, n) ==
  /\ n \in (1 .. Total) \ (owed[ch] \cup delivered[ch])
  /\ owed' = [owed EXCEPT ![ch] = @ \cup {n}]
  /\ UNCHANGED delivered

HandOn(ch, frame) ==
  /\ frame # {}
  /\ frame \subseteq owed[ch]
  /\ owed' = [owed EXCEPT ![ch] = @ \ frame]
  /\ delivered' = [delivered EXCEPT ![ch] = @ \cup frame]

Next ==
  \E ch \in Channels :
    \/ \E n \in 1 .. Total : Take(ch, n)
    \/ \E frame \in SUBSET (1 .. Total) : HandOn(ch, frame)

Spec == Init /\ [][Next]_vars

\* Every message is handed on at last.
Fairness ==
  \A ch \in Channels, n \in 1 .. Total :
    WF_vars(\E frame \in SUBSET (1 .. Total) : n \in frame /\ HandOn(ch, frame))

FairSpec == Spec /\ Fairness

=============================================================================
