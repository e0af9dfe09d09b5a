------------------------------- MODULE Batch -------------------------------
(***************************************************************************)
(* The batcher of chat messages and its copy for chat events               *)
(* (internal/chat/batch/batch.go, events.go).  The first message of a      *)
(* channel is emitted at once and starts a window; those that arrive       *)
(* within the window are emitted together when its timer fires.  What is   *)
(* to be emitted is decided under the lock and emitted without it.         *)
(*                                                                         *)
(* A message is the number of its arrival on its channel, a frame the set  *)
(* of its messages: append keeps them in order.                            *)
(***************************************************************************)
EXTENDS Naturals

CONSTANTS
  Channels,
  Readers, (* goroutines that add messages: the read loops of connections   *)
  Total    (* bound: messages of one channel                                *)

ASSUME BatchAssumption == Total \in Nat

VARIABLES
  count,    (* per channel: messages added                                  *)
  pending,  (* per channel: messages that wait for the window to end        *)
  timers,   (* the channels with a window                                   *)
  hold,     (* per reader: the frames it is about to emit, one at most      *)
  flushing, (* the frames that fired timers are about to emit               *)
  sent      (* per channel: the messages emitted                            *)

vars == <<count, pending, timers, hold, flushing, sent>>

Messages == 1 .. Total
Frames == [channel : Channels, messages : (SUBSET Messages) \ {{}}]
Frame(ch, messages) == [channel |-> ch, messages |-> messages]

TypeOK ==
  /\ count \in [Channels -> 0 .. Total]
  /\ pending \in [Channels -> SUBSET Messages]
  /\ timers \in SUBSET Channels
  /\ hold \in [Readers -> SUBSET Frames]
  /\ flushing \in SUBSET Frames
  /\ sent \in [Channels -> SUBSET Messages]

Init ==
  /\ count = [ch \in Channels |-> 0]
  /\ pending = [ch \in Channels |-> {}]
  /\ timers = {}
  /\ hold = [r \in Readers |-> {}]
  /\ flushing = {}
  /\ sent = [ch \in Channels |-> {}]

-----------------------------------------------------------------------------
(* Add.                                                                    *)

\* The message arrives; the reader does not add another before it has emitted.
Arrive(r, ch) ==
  /\ hold[r] = {}
  /\ count[ch] < Total
  /\ count' = [count EXCEPT ![ch] = @ + 1]

\* Mutant: every message is emitted at once.
AddAtOnce(r, ch) ==
  /\ Arrive(r, ch)
  /\ timers' = timers \cup {ch}
  /\ hold' = [hold EXCEPT ![r] = {Frame(ch, {count[ch] + 1})}]
  /\ UNCHANGED <<pending, flushing, sent>>

AddFirst(r, ch) ==
  /\ ch \notin timers
  /\ Arrive(r, ch)
  /\ timers' = timers \cup {ch}
  /\ hold' = [hold EXCEPT ![r] = {Frame(ch, {count[ch] + 1})}]
  /\ UNCHANGED <<pending, flushing, sent>>

AddMore(r, ch) ==
  /\ ch \in timers
  /\ Arrive(r, ch)
  /\ pending' = [pending EXCEPT ![ch] = @ \cup {count[ch] + 1}]
  /\ UNCHANGED <<timers, hold, flushing, sent>>

-----------------------------------------------------------------------------
(* flush and emit.                                                         *)

\* Mutant: what is emitted stays pending.
FlushKeeps(ch) ==
  /\ ch \in timers
  /\ timers' = timers \ {ch}
  /\ flushing' = IF pending[ch] = {} THEN flushing
                                     ELSE flushing \cup {Frame(ch, pending[ch])}
  /\ UNCHANGED <<count, pending, hold, sent>>

\* The timer fires: the window is over, and what has arrived is emitted, if anything.
Flush(ch) ==
  /\ ch \in timers
  /\ timers' = timers \ {ch}
  /\ pending' = [pending EXCEPT ![ch] = {}]
  /\ flushing' = IF pending[ch] = {} THEN flushing
                                     ELSE flushing \cup {Frame(ch, pending[ch])}
  /\ UNCHANGED <<count, hold, sent>>

Emit(f) == sent' = [sent EXCEPT ![f.channel] = @ \cup f.messages]

EmitFirst(r) ==
  /\ \E f \in hold[r] : Emit(f)
  /\ hold' = [hold EXCEPT ![r] = {}]
  /\ UNCHANGED <<count, pending, timers, flushing>>

EmitFlushed(f) ==
  /\ f \in flushing
  /\ Emit(f)
  /\ flushing' = flushing \ {f}
  /\ UNCHANGED <<count, pending, timers, hold>>

-----------------------------------------------------------------------------

Next ==
  \/ \E r \in Readers : EmitFirst(r) \/ \E ch \in Channels : AddFirst(r, ch) \/ AddMore(r, ch)
  \/ \E ch \in Channels : Flush(ch)
  \/ \E f \in Frames : EmitFlushed(f)

Spec == Init /\ [][Next]_vars

\* Timers fire, and readers and the goroutines of the timers run on.  No message has to
\* arrive.
Fairness ==
  /\ \A ch \in Channels : WF_vars(Flush(ch))
  /\ \A r \in Readers : WF_vars(EmitFirst(r))
  /\ \A f \in Frames : WF_vars(EmitFlushed(f))

FairSpec == Spec /\ Fairness

-----------------------------------------------------------------------------

InFlight == flushing \cup UNION {hold[r] : r \in Readers}

\* The messages of a channel that are with the batcher.
Owed(ch) == pending[ch] \cup UNION {f.messages : f \in {g \in InFlight : g.channel = ch}}

\* Messages wait only while a window runs that ends their wait (batch.go:62-70, 78-83).
WaitsForTimer == \A ch \in Channels : pending[ch] # {} => ch \in timers

(***************************************************************************)
(* A message that waits for its window to end is not overtaken by a later  *)
(* one that is already emitted or about to be.  Only a frame on its way    *)
(* out can be overtaken, by the message that starts the next window        *)
(* (batch.go:78-103).                                                      *)
(***************************************************************************)
NotOvertaken ==
  \A ch \in Channels : \A m \in pending[ch] :
    /\ \A n \in sent[ch] : n < m
    /\ \A f \in InFlight : f.channel = ch => \A n \in f.messages : n < m

\* The batcher hands every message on once (batch.go, events.go).
D == INSTANCE Delivery WITH owed <- [ch \in Channels |-> Owed(ch)], delivered <- sent

Delivers == D!FairSpec

=============================================================================
