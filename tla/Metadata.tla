------------------------------ MODULE Metadata ------------------------------
(***************************************************************************)
(* The cached views of the metadata service (internal/metadata/api and     *)
(* cache).  An answer is kept twice in Redis: a fresh copy and a stale one *)
(* that outlives it.  Requests that miss the fresh copy share one fetch    *)
(* per key, which runs in the request that began it and ends with it; if   *)
(* it fails, each of them looks for a stale copy.  The posts of a channel  *)
(* (lsf) are never fetched by a request: it answers what there is, or      *)
(* "warming", and leaves the fetch to a goroutine, the warmer.  A request  *)
(* whose browser has gone away works on, without what its context reaches: *)
(* the sources and what is kept in Redis.                                  *)
(*                                                                         *)
(* One key per view is modelled.  An answer is the number of upstream      *)
(* changes it was fetched after.                                           *)
(***************************************************************************)
EXTENDS Naturals

CONSTANTS
  Handlers,    (* bound: requests at the same time                           *)
  Views,       (* the views asked for, of Routes                             *)
  MaxChanges,  (* bound: changes upstream                                    *)
  MaxFaults,   (* bound: outages of Redis                                    *)
  None

VARIABLES
  now,     (* changes upstream so far                                        *)
  redis,   (* Redis answers                                                  *)
  faults,  (* outages so far                                                 *)
  fresh,   (* per view, the fresh copy                                       *)
  stale,   (* per view, the copy that outlives it                            *)
  flight,  (* per view, whose fetch is under way                             *)
  pc,      (* per request and warmer: its step, its view, what it fetched,   *)
           (* and whether its browser has gone away                          *)
  warm,    (* lsfWarmInFlight: the mark of the warmer                        *)
  kept     (* history: the last fetch of a view has left both copies, and    *)
           (* the stale one has not been lost since                          *)

vars == <<now, redis, faults, fresh, stale, flight, pc, warm, kept>>

Routes == {"streams", "details", "clips", "insights", "lsf"}

Answers == 0 .. MaxChanges

Runners == Handlers \cup {"warmer"}

Idle == [at |-> "idle", view |-> None, refresh |-> FALSE, answer |-> None,
         gone |-> FALSE]

Copies == [Views -> Answers \cup {None}]

TypeOK ==
  /\ now \in Answers /\ redis \in BOOLEAN /\ faults \in 0 .. MaxFaults
  /\ fresh \in Copies /\ stale \in Copies
  /\ flight \in [Views -> Runners \cup {None}]
  /\ pc \in [Runners -> [at : {"idle", "failed", "look", "join", "wait", "fetch", "fresh", "stale",
                               "back", "posts", "again", "kick", "keep"},
                         view : Views \cup {None}, refresh : BOOLEAN,
                         answer : Answers \cup {None}, gone : BOOLEAN]]
  /\ warm \in BOOLEAN
  /\ kept \in [Views -> BOOLEAN]

Init ==
  /\ now = 0 /\ redis = TRUE /\ faults = 0
  /\ fresh = [v \in Views |-> None] /\ stale = [v \in Views |-> None]
  /\ flight = [v \in Views |-> None]
  /\ pc = [r \in Runners |-> Idle]
  /\ warm = FALSE
  /\ kept = [v \in Views |-> FALSE]

-----------------------------------------------------------------------------
(* The cache: GetFresh and Get, under the context of r.                    *)

Reaches(r) == redis /\ ~pc[r].gone

GetFresh(r, v) == IF Reaches(r) THEN fresh[v] ELSE None

Get(r, v) == IF ~Reaches(r) THEN None ELSE IF fresh[v] # None THEN fresh[v] ELSE stale[v]

Goto(r, where) == pc' = [pc EXCEPT ![r].at = where]

\* A request for the insights goes on to their posts (patchInsightsLSF).
Answered(t) ==
  IF t.view = "insights" THEN [t EXCEPT !.at = "posts", !.view = "lsf", !.answer = None] ELSE Idle

Answer(r) == pc' = [pc EXCEPT ![r] = Answered(@)]

\* kickRedditLSFWarm: a goroutine fetches the posts, unless one does already.
Warming ==
  IF warm THEN pc ELSE [pc EXCEPT !["warmer"] = [Idle EXCEPT !.at = "look", !.view = "lsf"]]

-----------------------------------------------------------------------------
(* fetchAndCache, for a request or for the warmer.                         *)

\* lsf goes the other way, below.
Ask(h, v, refresh) ==
  /\ pc[h].at \in {"idle", "failed"}
  /\ refresh => v \in {"lsf", "insights"}
  /\ pc' = [pc EXCEPT ![h] = [Idle EXCEPT !.at = IF v = "lsf" THEN "posts" ELSE "look",
                                          !.view = v, !.refresh = refresh]]
  /\ UNCHANGED <<now, redis, faults, fresh, stale, flight, warm, kept>>

Look(r) ==
  /\ pc[r].at = "look"
  /\ IF GetFresh(r, pc[r].view) # None THEN Answer(r) ELSE Goto(r, "join")
  /\ UNCHANGED <<now, redis, faults, fresh, stale, flight, warm, kept>>

\* Mutant: each request fetches for itself.
JoinAlone(r) ==
  /\ pc[r].at = "join"
  /\ Goto(r, "fetch")
  /\ UNCHANGED <<now, redis, faults, fresh, stale, flight, warm, kept>>

\* sf.Do: the first one leads, the others wait for what it brings.
Join(r) ==
  /\ pc[r].at = "join"
  /\ LET v == pc[r].view IN
       IF flight[v] = None
       THEN flight' = [flight EXCEPT ![v] = r] /\ Goto(r, "fetch")
       ELSE Goto(r, "wait") /\ UNCHANGED flight
  /\ UNCHANGED <<now, redis, faults, fresh, stale, warm, kept>>

\* One page comes from GQL, a longer list from Helix when it is configured.
Streams == {now, None}

\* Helix, else GQL; the panels of the page are left out when they cannot be had.
Details == {now, None}

\* Every source that fails becomes a line in the answer.
Clips == {now}

Insights == {now}

Posts == {now}

\* What the fetch of r may bring: an answer, or None for an error.  The calls upstream end
\* with the context; a view that makes a line of every error is answered all the same.
Fetched(r) ==
  LET v == pc[r].view IN
    CASE v = "streams"  -> IF pc[r].gone THEN {None} ELSE Streams
      [] v = "details"  -> IF pc[r].gone THEN {None} ELSE Details
      [] v = "clips"    -> Clips
      [] v = "insights" -> Insights
      [] v = "lsf"      -> Posts

\* The fetch of r ends, and those who wait for it go on: with an answer or with the error.
EndFlight(r, then) ==
  LET v == pc[r].view IN
    /\ flight' = [flight EXCEPT ![v] = IF @ = r THEN None ELSE @]
    /\ pc' = [q \in Runners |-> IF q = r \/ (pc[q].at = "wait" /\ pc[q].view = v)
                                THEN then[q] ELSE pc[q]]

Failing == [q \in Runners |-> [pc[q] EXCEPT !.at = "back"]]

\* On its way the fetch of the insights asks for the posts, and sends the warmer when there
\* are none or it cannot read them.
Fetch(r) ==
  LET sends == pc[r].view = "insights" /\ Get(r, "lsf") = None IN
    /\ pc[r].at = "fetch"
    /\ \E a \in Fetched(r) :
         IF a = None
         THEN EndFlight(r, Failing)
         ELSE /\ pc' = [IF sends THEN Warming ELSE pc
                        EXCEPT ![r].at = "fresh", ![r].answer = a]
              /\ UNCHANGED flight
    /\ warm' = (warm \/ sends)
    /\ UNCHANGED <<now, redis, faults, fresh, stale, kept>>

\* The browser goes away: the context of its request ends.
Leaves(h) ==
  /\ pc[h].at \notin {"idle", "failed"}
  /\ ~pc[h].gone
  /\ pc' = [pc EXCEPT ![h].gone = TRUE]
  /\ UNCHANGED <<now, redis, faults, fresh, stale, flight, warm, kept>>

\* Cache.Set, which no context ends: first the fresh copy, then the stale one; both errors
\* are ignored.
SetFresh(r) ==
  /\ pc[r].at = "fresh"
  /\ fresh' = IF redis THEN [fresh EXCEPT ![pc[r].view] = pc[r].answer] ELSE fresh
  /\ Goto(r, "stale")
  /\ UNCHANGED <<now, redis, faults, stale, flight, warm, kept>>

SetStale(r) ==
  /\ pc[r].at = "stale"
  /\ stale' = IF redis THEN [stale EXCEPT ![pc[r].view] = pc[r].answer] ELSE stale
  /\ kept' = [kept EXCEPT ![pc[r].view] = redis]
  /\ EndFlight(r, [q \in Runners |-> Answered(pc[q])])
  /\ UNCHANGED <<now, redis, faults, fresh, warm>>

\* Mutant: when the fetch has failed, only a fresh copy is looked for.
FallBackFresh(r) ==
  /\ pc[r].at = "back"
  /\ IF GetFresh(r, pc[r].view) # None THEN Answer(r)
     ELSE pc' = [pc EXCEPT ![r] = [Idle EXCEPT !.at = "failed"]]
  /\ UNCHANGED <<now, redis, faults, fresh, stale, flight, warm, kept>>

\* The fetch has failed: each request looks for itself.
FallBack(r) ==
  /\ pc[r].at = "back"
  /\ IF Get(r, pc[r].view) # None THEN Answer(r)
     ELSE pc' = [pc EXCEPT ![r] = [Idle EXCEPT !.at = "failed"]]
  /\ UNCHANGED <<now, redis, faults, fresh, stale, flight, warm, kept>>

-----------------------------------------------------------------------------
(* The posts of a channel (fetchRedditLSFCached, kickRedditLSFWarm).       *)

LookPosts(h) ==
  /\ pc[h].at = "posts"
  /\ IF GetFresh(h, "lsf") # None THEN Answer(h) ELSE Goto(h, "again")
  /\ UNCHANGED <<now, redis, faults, fresh, stale, flight, warm, kept>>

\* A stale copy answers; when the request wants it refreshed, the warmer is sent as well.
LookAgain(h) ==
  /\ pc[h].at = "again"
  /\ IF Get(h, "lsf") # None /\ (GetFresh(h, "lsf") # None \/ ~pc[h].refresh)
     THEN Answer(h)
     ELSE Goto(h, IF Get(h, "lsf") # None THEN "keep" ELSE "kick")
  /\ UNCHANGED <<now, redis, faults, fresh, stale, flight, warm, kept>>

\* The mark is set unless it stands; the answer is what was stale, or "warming".
Kick(h) ==
  /\ pc[h].at \in {"kick", "keep"}
  /\ warm' = TRUE
  /\ pc' = [Warming EXCEPT ![h] = Idle]
  /\ UNCHANGED <<now, redis, faults, fresh, stale, flight, kept>>

\* Mutant: the mark stays when the fetch brought nothing new.
WarmEndsChanged ==
  /\ warm /\ pc["warmer"].at = "idle" /\ fresh["lsf"] # None
  /\ warm' = FALSE
  /\ UNCHANGED <<now, redis, faults, fresh, stale, flight, pc, kept>>

WarmEnds ==
  /\ warm /\ pc["warmer"].at = "idle"
  /\ warm' = FALSE
  /\ UNCHANGED <<now, redis, faults, fresh, stale, flight, pc, kept>>

-----------------------------------------------------------------------------

Change ==
  /\ now < MaxChanges
  /\ now' = now + 1
  /\ UNCHANGED <<redis, faults, fresh, stale, flight, pc, warm, kept>>

Expire(v) ==
  /\ fresh[v] # None
  /\ fresh' = [fresh EXCEPT ![v] = None]
  /\ UNCHANGED <<now, redis, faults, stale, flight, pc, warm, kept>>

\* The stale copy has the longer life of the two made together.
ExpireStale(v) ==
  /\ stale[v] # None /\ fresh[v] # stale[v]
  /\ stale' = [stale EXCEPT ![v] = None]
  /\ kept' = [kept EXCEPT ![v] = FALSE]
  /\ UNCHANGED <<now, redis, faults, fresh, flight, pc, warm>>

\* While Redis is away nothing is found in it; what it holds is there when it is back.
RedisDown ==
  /\ faults < MaxFaults /\ redis
  /\ redis' = FALSE /\ faults' = faults + 1
  /\ kept' = [v \in Views |-> FALSE]
  /\ UNCHANGED <<now, fresh, stale, flight, pc, warm>>

RedisUp ==
  /\ ~redis
  /\ redis' = TRUE
  /\ UNCHANGED <<now, faults, fresh, stale, flight, pc, warm, kept>>

Step(r) ==
  Look(r) \/ Join(r) \/ Fetch(r) \/ SetFresh(r) \/ SetStale(r) \/ FallBack(r)

PostsStep(h) == LookPosts(h) \/ LookAgain(h) \/ Kick(h)

Next ==
  \/ \E h \in Handlers :
       \/ \E v \in Views, refresh \in BOOLEAN : Ask(h, v, refresh)
       \/ PostsStep(h) \/ Leaves(h)
  \/ \E r \in Runners : Step(r)
  \/ WarmEnds
  \/ \E v \in Views : Expire(v) \/ ExpireStale(v)
  \/ Change \/ RedisDown \/ RedisUp

Spec == Init /\ [][Next]_vars

\* Every goroutine runs on, and every call upstream has a timeout.
FairSpec ==
  /\ Spec
  /\ \A r \in Runners : WF_vars(Step(r))
  /\ \A h \in Handlers : WF_vars(PostsStep(h))
  /\ WF_vars(WarmEnds)

-----------------------------------------------------------------------------

\* A copy is never replaced by one fetched before it (fetchAndCache makes the copies
\* inside the shared fetch, so that the next fetch begins after them).
NeverBack ==
  [][\A v \in Views :
       /\ fresh[v] # None /\ fresh'[v] # None => fresh[v] <= fresh'[v]
       /\ stale[v] # None /\ stale'[v] # None => stale[v] <= stale'[v]]_vars

\* Once a fetch has left its copies, no request whose browser still waits ends in an error,
\* or decides for "no posts yet", until the stale copy has expired or Redis has been away
\* (fetchAndCache, fetchRedditLSFCached): whatever the sources do, and whoever else leaves,
\* the one included in whose request the fetch runs and with whose context it ends.
StaleStandsIn ==
  [][\A h \in Handlers : ~pc[h].gone =>
       /\ pc'[h].at = "failed" /\ pc[h].at # "failed" => ~kept[pc[h].view]
       /\ pc'[h].at = "kick" /\ pc[h].at # "kick" => ~kept["lsf"]]_vars

\* Every request is answered, and the mark of the warmer is lifted (kickRedditLSFWarm):
\* the posts do not stay "warming" for ever.
RequestsEnd ==
  /\ \A h \in Handlers : pc[h].at \notin {"idle", "failed"} ~> pc[h].at \in {"idle", "failed"}
  /\ warm ~> ~warm
=============================================================================
