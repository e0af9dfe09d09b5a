---------------------------- MODULE RenderHints ----------------------------
(***************************************************************************)
(* How an emote that is seen becomes a render job without holding anybody  *)
(* up: chat processes publish hints through a Redis list (render/          *)
(* observe_pub.go), the emote service takes them from there (observe.go).  *)
(* Every stage drops what is too much.                                     *)
(*                                                                         *)
(* An emote stands for an emote at a scale.  Hints that do not decode or   *)
(* name a provider that is not rendered are left out.  What Enqueue does   *)
(* to the jobs is the subject of RenderJobs; here it is admitted or not.   *)
(***************************************************************************)
EXTENDS Naturals, Sequences

CONSTANTS
  Emotes,
  Chats,    (* chat processes                                                *)
  MaxLen,   (* hints the list keeps (4096 in the code)                       *)
  Limit,    (* hints admitted per minute                                     *)
  None

VARIABLES
  seen,      (* per chat process: the emotes it published lately              *)
  pub,       (* per chat process and emote: the goroutine that publishes      *)
  guard,     (* Redis: the emotes whose guard key is set                      *)
  list,      (* Redis: the hints                                              *)
  taken,     (* the hint the consumer has popped, or None                     *)
  spent,     (* hints admitted in this minute                                 *)
  pushed     (* history: per emote, hints pushed under its present guard      *)

vars == <<seen, pub, guard, list, taken, spent, pushed>>

TypeOK ==
  /\ seen \in [Chats -> SUBSET Emotes]
  /\ pub \in [Chats -> [Emotes -> {"none", "guard", "push"}]]
  /\ guard \in SUBSET Emotes
  /\ list \in Seq(Emotes) /\ Len(list) <= MaxLen
  /\ taken \in Emotes \cup {None}
  /\ spent \in 0 .. Limit
  /\ pushed \in [Emotes -> Nat]

Init ==
  /\ seen = [p \in Chats |-> {}]
  /\ pub = [p \in Chats |-> [e \in Emotes |-> "none"]]
  /\ guard = {} /\ list = <<>> /\ taken = None /\ spent = 0
  /\ pushed = [e \in Emotes |-> 0]

redis == <<guard, list, pushed>>

-----------------------------------------------------------------------------
(* The chat processes: TryPublish and PublishObserveDeduped.                *)

\* A goroutine of an earlier window is long done: its calls take 250 ms, the window 30 s.
TryPublish(p, e) ==
  /\ e \notin seen[p] /\ pub[p][e] = "none"
  /\ seen' = [seen EXCEPT ![p] = @ \cup {e}]
  /\ pub' = [pub EXCEPT ![p][e] = "guard"]
  /\ UNCHANGED <<redis, taken, spent>>

WindowEnds(p, e) ==
  /\ e \in seen[p]
  /\ seen' = [seen EXCEPT ![p] = @ \ {e}]
  /\ UNCHANGED <<pub, redis, taken, spent>>

Ends(p, e) == pub' = [pub EXCEPT ![p][e] = "none"]

\* Mutant: whether the guard is there does not matter.
SetAnyway(p, e) ==
  /\ pub[p][e] = "guard"
  /\ guard' = guard \cup {e}
  /\ pub' = [pub EXCEPT ![p][e] = "push"]
  /\ UNCHANGED <<pushed, seen, list, taken, spent>>

SetNX(p, e) ==
  /\ pub[p][e] = "guard"
  /\ guard' = guard \cup {e}
  /\ IF e \in guard THEN Ends(p, e) /\ UNCHANGED pushed
     ELSE /\ pub' = [pub EXCEPT ![p][e] = "push"]
          /\ pushed' = [pushed EXCEPT ![e] = 0]
  /\ UNCHANGED <<seen, list, taken, spent>>

\* RPUSH and LTRIM: the oldest hints go when there are too many.
Push(p, e) ==
  LET all == Append(list, e) IN
  /\ pub[p][e] = "push"
  /\ list' = IF Len(all) > MaxLen THEN Tail(all) ELSE all
  /\ pushed' = [pushed EXCEPT ![e] = @ + 1]
  /\ Ends(p, e)
  /\ UNCHANGED <<seen, guard, taken, spent>>

\* A call fails or takes too long: the guard, if it is set, stays without a hint.
PublishFails(p, e) ==
  /\ pub[p][e] # "none"
  /\ Ends(p, e)
  /\ UNCHANGED <<seen, redis, taken, spent>>

\* Ten minutes: by then the goroutine that set it is done.
GuardExpires(e) ==
  /\ e \in guard /\ \A p \in Chats : pub[p][e] # "push"
  /\ guard' = guard \ {e}
  /\ UNCHANGED <<seen, pub, list, taken, spent, pushed>>

-----------------------------------------------------------------------------
(* The consumer, and the rate limit of Enqueue.                             *)

Pop ==
  /\ taken = None /\ list # <<>>
  /\ taken' = Head(list)
  /\ list' = Tail(list)
  /\ UNCHANGED <<seen, pub, guard, pushed, spent>>

\* HandleObservePayload: the hint is admitted, and whether a job comes of it or an error, it
\* is gone.
Admit ==
  /\ taken # None /\ spent < Limit
  /\ taken' = None
  /\ spent' = spent + 1
  /\ UNCHANGED <<seen, pub, redis>>

\* Chat's emotes are not rendered, the queue is too deep or the minute's limit is reached.
Refuse ==
  /\ taken # None
  /\ taken' = None
  /\ UNCHANGED <<seen, pub, redis, spent>>

MinuteEnds ==
  /\ spent > 0 /\ spent' = 0
  /\ UNCHANGED <<seen, pub, redis, taken>>

-----------------------------------------------------------------------------

Next ==
  \/ \E p \in Chats, e \in Emotes :
       TryPublish(p, e) \/ WindowEnds(p, e) \/ SetNX(p, e) \/ Push(p, e) \/ PublishFails(p, e)
  \/ \E e \in Emotes : GuardExpires(e)
  \/ Pop \/ Admit \/ Refuse \/ MinuteEnds

Spec == Init /\ [][Next]_vars

-----------------------------------------------------------------------------

(***************************************************************************)
(* However many chat processes see an emote at the same time, one hint is  *)
(* pushed while its guard is set (PublishObserveDeduped,                   *)
(* observe_pub.go:89-116).                                                 *)
(***************************************************************************)
OneHint == \A e \in Emotes : pushed[e] <= 1

=============================================================================
