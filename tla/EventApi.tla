------------------------------ MODULE EventApi ------------------------------
(***************************************************************************)
(* The subscriber of 7TV's event feed (internal/emote/eventapi): channels  *)
(* that are ensured register the 7TV set they use; one connection carries  *)
(* the subscriptions and the events; idle channels are dropped; after a    *)
(* disconnect everything registered is subscribed again; an event makes    *)
(* the channels of its set fetch the set and apply it.                     *)
(*                                                                         *)
(* A step is what runs under the subscriber's lock or one write to a       *)
(* connection.  A writer reads the connection under the lock and writes    *)
(* to it without: it may be an older one by then.  Frames that are not an  *)
(* update of a set with an id are skipped (parseDispatchSetID) and left    *)
(* out, as is the text of the frames.  The service of 7TV is external: per *)
(* connection the sets it is subscribed to, and the events under way.      *)
(***************************************************************************)
EXTENDS Naturals, FiniteSets

CONSTANTS
  Logins,     (* channels                                                    *)
  WithSet,    (* the channels that have an active set of their own           *)
  Sets,       (* 7TV's sets                                                  *)
  Handlers,   (* bound: requests that ensure a channel at the same time      *)
  Conns,      (* bound: connections that exist at the same time              *)
  MaxChanges, (* bound: changes of one set                                   *)
  None

VARIABLES
  subs,      (* per channel: the set it is registered with, or None           *)
  idle,      (* the channels without a sign of life for the idle time         *)
  conn,      (* the connection the subscriber keeps, or None                  *)
  up,        (* the connections that are open                                 *)
  served,    (* 7TV: per connection, the sets it is subscribed to             *)
  inbox,     (* the events that are under way on the kept connection          *)
  run, todo, (* the run loop: program counter, and the subscriptions it still *)
             (* has to send, or the channels an event still has to reach      *)
  out,       (* per handler, and for the reaper: its program counter, what it *)
             (* still has to send, and the connection it sends on             *)
  remote,    (* 7TV: per set, its version                                     *)
  applied,   (* per channel: the version of its set that it applied last      *)
  cut        (* history: sets that an unsubscribe took off the kept           *)
             (* connection while a channel was registered, not taken up since *)

feed  == <<up, served, inbox>>
loop  == <<run, todo>>
sync  == <<remote, applied>>
vars  == <<subs, idle, conn, feed, loop, out, sync, cut>>

Writers == Handlers \cup {"reaper"}

TypeOK ==
  /\ subs \in [Logins -> Sets \cup {None}]
  /\ idle \in SUBSET Logins
  /\ conn \in Conns \cup {None}
  /\ up \in SUBSET Conns
  /\ served \in [Conns -> SUBSET Sets]
  /\ inbox \in SUBSET Sets
  /\ run \in [at : {"dial", "send", "serve", "close"}, on : Conns \cup {None}]
  /\ todo \in SUBSET (Sets \cup Logins)
  /\ out \in [Writers -> [op : {"none", "subscribe", "unsubscribe"}, sets : SUBSET Sets,
                          on : Conns \cup {None}]]
  /\ remote \in [Sets -> 0 .. MaxChanges]
  /\ applied \in [Logins -> 0 .. MaxChanges]
  /\ cut \in SUBSET Sets

Silent == [op |-> "none", sets |-> {}, on |-> None]

Init ==
  /\ subs = [l \in Logins |-> None]
  /\ idle = {} /\ conn = None
  /\ up = {} /\ served = [k \in Conns |-> {}] /\ inbox = {}
  /\ run = [at |-> "dial", on |-> None] /\ todo = {}
  /\ out = [w \in Writers |-> Silent]
  /\ remote = [s \in Sets |-> 0] /\ applied = [l \in Logins |-> 0]
  /\ cut = {}

-----------------------------------------------------------------------------
(* Register, Unregister and reapIdle: the map first, the frame afterwards.  *)

\* A set the channel is registered with already is not subscribed again.
Register(h, l, s) ==
  /\ out[h] = Silent
  /\ subs' = [subs EXCEPT ![l] = s]
  /\ idle' = idle \ {l}
  /\ out' = IF subs[l] = s THEN out
            ELSE [out EXCEPT ![h] = [op |-> "subscribe", sets |-> {s}, on |-> None]]
  /\ UNCHANGED <<conn, feed, loop, sync, cut>>

Unregister(h, l) ==
  /\ out[h] = Silent /\ subs[l] # None
  /\ subs' = [subs EXCEPT ![l] = None]
  /\ out' = [out EXCEPT ![h] = [op |-> "unsubscribe", sets |-> {subs[l]}, on |-> None]]
  /\ UNCHANGED <<idle, conn, feed, loop, sync, cut>>

Reap ==
  LET stale == {l \in idle : subs[l] # None} IN
  /\ out["reaper"] = Silent /\ stale # {}
  /\ subs' = [l \in Logins |-> IF l \in stale THEN None ELSE subs[l]]
  /\ out' = [out EXCEPT !["reaper"] =
               [op |-> "unsubscribe", sets |-> {subs[l] : l \in stale}, on |-> None]]
  /\ UNCHANGED <<idle, conn, feed, loop, sync, cut>>

\* The writer looks the connection up; without one there is nothing to send.
PickConn(w) ==
  /\ out[w].op # "none" /\ out[w].on = None
  /\ out' = IF conn # None THEN [out EXCEPT ![w].on = conn]
            ELSE IF w = "reaper" /\ Cardinality(out[w].sets) > 1
              THEN [out EXCEPT ![w].sets = @ \ {CHOOSE s \in @ : TRUE}]
              ELSE [out EXCEPT ![w] = Silent]
  /\ UNCHANGED <<subs, idle, conn, feed, loop, sync, cut>>

\* The frame for s: it is done with also when it cannot be sent because the connection is gone.
Frame(w, s) ==
  LET k == out[w].on  used == \E l \in Logins : subs[l] = s IN
  /\ out' = [out EXCEPT ![w] = IF out[w].sets = {s} THEN Silent
                               ELSE [out[w] EXCEPT !.sets = out[w].sets \ {s}, !.on = None]]
  /\ IF k \notin up THEN UNCHANGED <<served, cut>>
     ELSE IF out[w].op = "subscribe"
       THEN /\ served' = [served EXCEPT ![k] = @ \cup {s}]
            /\ cut' = IF k = conn THEN cut \ {s} ELSE cut
       ELSE /\ served' = [served EXCEPT ![k] = @ \ {s}]
            /\ cut' = IF k = conn /\ used THEN cut \cup {s} ELSE cut

Write(w) ==
  /\ out[w].op # "none" /\ out[w].on # None
  /\ \E s \in out[w].sets : Frame(w, s)
  /\ UNCHANGED <<subs, idle, conn, up, inbox, loop, sync>>

-----------------------------------------------------------------------------
(* connectAndServe.                                                         *)

Registered == {subs[l] : l \in Logins} \ {None}

\* Mutant: what the connections before were subscribed to is taken up again.
ConnectAsBefore ==
  /\ run.at = "dial"
  /\ \E k \in Conns \ up :
       /\ \A w \in Writers : out[w].on # k
       /\ up' = up \cup {k}
       /\ served' = [served EXCEPT ![k] = {}]
       /\ run' = [at |-> "send", on |-> k]
       /\ conn' = k
  /\ todo' = Registered \cap UNION {served[k] : k \in Conns}
  /\ inbox' = {} /\ cut' = {}
  /\ UNCHANGED <<subs, idle, out, sync>>

\* Dialed: the connection is kept and the map read under one hold of the lock.
Connect ==
  /\ run.at = "dial"
  /\ \E k \in Conns \ up :
       /\ \A w \in Writers : out[w].on # k
       /\ up' = up \cup {k}
       /\ served' = [served EXCEPT ![k] = {}]
       /\ run' = [at |-> "send", on |-> k]
       /\ conn' = k
  /\ todo' = Registered
  /\ inbox' = {} /\ cut' = {}
  /\ UNCHANGED <<subs, idle, out, sync>>

Resubscribe ==
  /\ run.at = "send"
  /\ IF todo = {} THEN run' = [run EXCEPT !.at = "serve"] /\ UNCHANGED <<todo, served, cut>>
     ELSE IF run.on \notin up
     THEN run' = [run EXCEPT !.at = "close"] /\ todo' = {} /\ UNCHANGED <<served, cut>>
     ELSE \E s \in todo :
            /\ todo' = todo \ {s}
            /\ served' = [served EXCEPT ![run.on] = @ \cup {s}]
            /\ cut' = cut \ {s}
            /\ UNCHANGED run
  /\ UNCHANGED <<subs, idle, conn, up, inbox, out, sync>>

\* An event is read: its channels show a sign of life and are to be brought up to date.
Receive ==
  /\ run.at = "serve" /\ todo = {}
  /\ \E s \in inbox :
       LET targets == {l \in Logins : subs[l] = s} IN
       /\ inbox' = inbox \ {s}
       /\ idle' = idle \ targets
       /\ todo' = targets \cap WithSet
  /\ UNCHANGED <<subs, conn, up, served, run, out, sync, cut>>

\* ApplyChannelSet: the channel's set is fetched as it is now, its items brought in line and its
\* dictionary rebuilt; or one of these fails.
Apply ==
  /\ run.at = "serve"
  /\ \E l \in todo \cap Logins :
       /\ todo' = todo \ {l}
       /\ \/ subs[l] # None /\ applied' = [applied EXCEPT ![l] = remote[subs[l]]]
          \/ UNCHANGED applied
  /\ UNCHANGED <<subs, idle, conn, feed, run, out, remote, cut>>

ReadFails ==
  /\ run.at = "serve" /\ todo = {} /\ run.on \notin up
  /\ run' = [run EXCEPT !.at = "close"]
  /\ UNCHANGED <<subs, idle, conn, feed, todo, out, sync, cut>>

\* The connection is given up under the lock and closed; the loop dials again after a while.
Close ==
  /\ run.at = "close"
  /\ conn' = None
  /\ up' = up \ {run.on}
  /\ inbox' = {}
  /\ run' = [at |-> "dial", on |-> None]
  /\ UNCHANGED <<subs, idle, served, todo, out, sync, cut>>

-----------------------------------------------------------------------------
(* The world.                                                               *)

GoIdle(l) ==
  /\ subs[l] # None /\ l \notin idle
  /\ idle' = idle \cup {l}
  /\ UNCHANGED <<subs, conn, feed, loop, out, sync, cut>>

Break ==
  /\ \E k \in up : up' = up \ {k}
  /\ UNCHANGED <<subs, idle, conn, served, inbox, loop, out, sync, cut>>

\* A set changes; the connection that is subscribed to it hears of it.
Change(s) ==
  /\ remote[s] < MaxChanges
  /\ remote' = [remote EXCEPT ![s] = @ + 1]
  /\ inbox' = IF run.on \in up /\ s \in served[run.on] THEN inbox \cup {s} ELSE inbox
  /\ UNCHANGED <<subs, idle, conn, up, served, loop, out, applied, cut>>

-----------------------------------------------------------------------------

RunLoop == Connect \/ Resubscribe \/ Receive \/ Apply \/ ReadFails \/ Close

Sending(w) == PickConn(w) \/ Write(w)

Next ==
  \/ \E h \in Handlers, l \in Logins :
       Unregister(h, l) \/ \E s \in Sets : Register(h, l, s)
  \/ \E w \in Writers : Sending(w)
  \/ Reap \/ RunLoop \/ Break
  \/ \E l \in Logins : GoIdle(l)
  \/ \E s \in Sets : Change(s)

Spec == Init /\ [][Next]_vars

-----------------------------------------------------------------------------

\* The set's subscription is still to be sent on the connection that is kept.
Underway(s) ==
  \/ run.at = "send" /\ s \in todo
  \/ \E w \in Writers : out[w].op = "subscribe" /\ s \in out[w].sets /\ out[w].on \in {None, conn}

(***************************************************************************)
(* On the connection that is kept, 7TV is subscribed to the set of every   *)
(* registered channel, or the subscription is under way: a channel that    *)
(* registers while the subscriber connects is not missed (Register,        *)
(* subscriber.go:123-137; connectAndServe, 181-199).  Excepted are sets    *)
(* that an unsubscribe has taken off this connection although a channel    *)
(* was registered with them, as reapIdle and Unregister do (294-304): they *)
(* are missed until the connection is replaced, since registering again    *)
(* sends nothing (133-136).                                                *)
(***************************************************************************)
ActiveSubscribed ==
  conn # None /\ conn \in up =>
    \A l \in Logins :
      subs[l] # None =>
        subs[l] \in served[conn] \/ Underway(subs[l]) \/ subs[l] \in cut

=============================================================================
