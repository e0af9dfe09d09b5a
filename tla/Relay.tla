------------------------------- MODULE Relay -------------------------------
(***************************************************************************)
(* The life of a video relay in the video service: the start handlers of   *)
(* the orchestrator (live and VOD), the single-flight group that           *)
(* de-duplicates them, the registry of sessions, the semaphore of relay    *)
(* slots, one supervisor goroutine per session, the idle reaper, and the   *)
(* worker processes (streamlink/ffmpeg) they spawn and kill.               *)
(*                                                                         *)
(* A step is one shared-memory access or one group of accesses under one   *)
(* lock.  Every other goroutine may run between two steps of a handler, as *)
(* the code holds no lock from one of its calls to the next.               *)
(*                                                                         *)
(* Time is abstract: Age lets a session's lastSeen fall behind the idle    *)
(* timeout at any moment.  What the upstream services answer, whether a    *)
(* backend spawns, whether its playlist becomes ready and when a worker    *)
(* exits are choices of the environment.                                   *)
(***************************************************************************)
EXTENDS Naturals, FiniteSets

CONSTANTS
  Keys,        (* registry keys: a channel, or "vod:" and a VOD id            *)
  Vods,        (* the keys that name VODs                                     *)
  Qualities,   (* requested qualities                                         *)
  Modes,       (* latency modes of a live start, offsets of a VOD start       *)
  Clients,     (* HTTP start handlers that may run at the same time           *)
  Sessions,    (* bound: the registry.Session objects a run may keep          *)
  RelayCap,    (* capacity of the semaphore of relay slots                    *)
  MaxRestarts, (* restarts a supervisor grants a live session                 *)
  Backends,    (* number of configured worker backends                        *)
  None         (* no session, no request                                      *)

Requests == [key : Keys, quality : Qualities, mode : Modes]

ASSUME RelayAssumption ==
  /\ Vods \subseteq Keys
  /\ IsFiniteSet(Sessions)
  /\ RelayCap \in Nat \ {0}
  /\ MaxRestarts \in Nat \ {0}
  /\ Backends \in Nat \ {0}
  /\ None \notin Sessions \cup Requests

VARIABLES
  at, want, ref,      (* per client: program counter, request, session it holds    *)
  phase, desc, tries, (* per session: creation phase, request it serves, backends  *)
                      (* tried so far in the running rotation                      *)
  stopped, released,  (* per session: the two flags of registry.Session            *)
  idle,               (* per session: lastSeen is older than the idle timeout      *)
  restarts, sup,      (* per session: restarts used, supervisor's program counter  *)
  proc, cand,         (* per session: the published worker process, and the one    *)
                      (* that is spawned but not yet published                     *)
  reg, slots,         (* the registry map and the number of slots in use           *)
  reaping, victim     (* what the reaper collected, and the one it has killed      *)

clientVars  == <<at, want, ref>>
sessionVars == <<phase, desc, tries, stopped, released, idle, restarts, sup>>
procVars    == <<proc, cand>>
sharedVars  == <<reg, slots>>
reaperVars  == <<reaping, victim>>
vars == <<clientVars, sessionVars, procVars, sharedVars, reaperVars>>

ClientPc == {"idle", "mark", "remove", "kill", "release", "flight", "wait", "attach"}
Phases   == {"free", "acquire", "fetch", "spawn", "probe", "up"}
SupPc    == {"none", "wait", "restart", "reprobe", "mark", "remove", "kill",
             "release", "done"}

TypeOK ==
  /\ at \in [Clients -> ClientPc]
  /\ want \in [Clients -> Requests \cup {None}]
  /\ ref \in [Clients -> Sessions \cup {None}]
  /\ phase \in [Sessions -> Phases]
  /\ desc \in [Sessions -> Requests \cup {None}]
  /\ tries \in [Sessions -> 0 .. Backends]
  /\ stopped \in [Sessions -> BOOLEAN]
  /\ released \in [Sessions -> BOOLEAN]
  /\ idle \in [Sessions -> BOOLEAN]
  /\ restarts \in [Sessions -> 0 .. MaxRestarts]
  /\ sup \in [Sessions -> SupPc]
  /\ proc \in [Sessions -> {"none", "live", "dead"}]
  /\ cand \in [Sessions -> {"none", "live", "dead"}]
  /\ reg \in [Keys -> Sessions \cup {None}]
  /\ slots \in 0 .. RelayCap
  /\ reaping \in SUBSET Sessions
  /\ victim \in Sessions \cup {None}

Init ==
  /\ at = [c \in Clients |-> "idle"]
  /\ want = [c \in Clients |-> None]
  /\ ref = [c \in Clients |-> None]
  /\ phase = [s \in Sessions |-> "free"]
  /\ desc = [s \in Sessions |-> None]
  /\ tries = [s \in Sessions |-> 0]
  /\ stopped = [s \in Sessions |-> FALSE]
  /\ released = [s \in Sessions |-> FALSE]
  /\ idle = [s \in Sessions |-> FALSE]
  /\ restarts = [s \in Sessions |-> 0]
  /\ sup = [s \in Sessions |-> "none"]
  /\ proc = [s \in Sessions |-> "none"]
  /\ cand = [s \in Sessions |-> "none"]
  /\ reg = [k \in Keys |-> None]
  /\ slots = 0
  /\ reaping = {}
  /\ victim = None

-----------------------------------------------------------------------------
(* Operations of registry.Session and registry.Registry, and the slot      *)
(* release, as the handlers below call them.                               *)

\* Go to program counter pc in client c, holding s.
Goto(c, pc, s) ==
  /\ at' = [at EXCEPT ![c] = pc]
  /\ ref' = [ref EXCEPT ![c] = s]

MarkStopped(s) == stopped' = [stopped EXCEPT ![s] = TRUE]

\* Registry.Remove deletes by key: whatever session is registered there goes.
Deregister(k) == reg' = [reg EXCEPT ![k] = None]

\* Kill reaches the worker the session has published, not one being probed.
KillStream(s) == proc' = [proc EXCEPT ![s] = IF @ = "live" THEN "dead" ELSE @]

Touch(s) == idle' = [idle EXCEPT ![s] = FALSE]

\* Mutant: the slot is given back by every caller of release.
ReleaseWithoutSwap(s) ==
  /\ slots > 0
  /\ released' = [released EXCEPT ![s] = TRUE]
  /\ slots' = slots - 1

\* The compare-and-swap on released makes one caller receive from the semaphore;
\* the receive would block for ever on an empty one.
Release(s) ==
  \/ /\ released[s]
     /\ UNCHANGED <<released, slots>>
  \/ /\ ~released[s]
     /\ slots > 0
     /\ released' = [released EXCEPT ![s] = TRUE]
     /\ slots' = slots - 1

\* The single-flight key of a live start leaves the latency mode out.
FlightKey(r) == IF r.key \in Vods THEN <<r.key, r.quality, r.mode>>
                                  ELSE <<r.key, r.quality>>

Creating == {s \in Sessions : phase[s] \notin {"free", "up"}}

InFlight(r) == {s \in Creating : FlightKey(desc[s]) = FlightKey(r)}

Waiters(s) == {c \in Clients : at[c] = "wait" /\ ref[c] = s}

-----------------------------------------------------------------------------
(* The start handler, up to the single-flight call.                        *)

\* Bound: a request arrives only while a Session object is left for it.
Room ==
  Cardinality({c \in Clients : at[c] \in {"mark", "remove", "kill", "release", "flight"}})
    < Cardinality({s \in Sessions : phase[s] = "free"})

\* The handler decodes a request and looks the key up in the registry.
Arrive(c, r, pc, s) ==
  /\ at[c] = "idle"
  /\ Room
  /\ Goto(c, pc, s)
  /\ want' = [want EXCEPT ![c] = r]
  /\ UNCHANGED <<sessionVars, procVars, sharedVars, reaperVars>>

\* No session under the key: go on to the single-flight call.
StartMiss(c, r) == reg[r.key] = None /\ Arrive(c, r, "flight", None)

\* A session with the requested quality and mode (offset): join it.
StartHit(c, r) ==
  /\ reg[r.key] # None
  /\ desc[reg[r.key]] = r
  /\ Arrive(c, r, "attach", reg[r.key])

\* A session with another quality or mode: stop it first.
StartChange(c, r) ==
  /\ reg[r.key] # None
  /\ desc[reg[r.key]] # r
  /\ Arrive(c, r, "mark", reg[r.key])

ChangeMark(c) ==
  /\ at[c] = "mark"
  /\ MarkStopped(ref[c])
  /\ Goto(c, "remove", ref[c])
  /\ UNCHANGED <<want, phase, desc, tries, released, idle, restarts, sup, procVars,
                 sharedVars, reaperVars>>

ChangeRemove(c) ==
  /\ at[c] = "remove"
  /\ Deregister(want[c].key)
  /\ Goto(c, "kill", ref[c])
  /\ UNCHANGED <<want, sessionVars, procVars, slots, reaperVars>>

ChangeKill(c) ==
  /\ at[c] = "kill"
  /\ KillStream(ref[c])
  /\ Goto(c, "release", ref[c])
  /\ UNCHANGED <<want, sessionVars, cand, sharedVars, reaperVars>>

\* Mutant: a quality change forgets to release the old session's slot.
ChangeForgetsSlot(c) ==
  /\ at[c] = "release"
  /\ Goto(c, "flight", None)
  /\ UNCHANGED <<want, sessionVars, procVars, sharedVars, reaperVars>>

ChangeRelease(c) ==
  /\ at[c] = "release"
  /\ Release(ref[c])
  /\ Goto(c, "flight", None)
  /\ UNCHANGED <<want, phase, desc, tries, stopped, idle, restarts, sup, procVars, reg,
                 reaperVars>>

\* Another call with the same flight key is running: wait for its result.
Join(c, s) ==
  /\ at[c] = "flight"
  /\ s \in InFlight(want[c])
  /\ Goto(c, "wait", s)
  /\ UNCHANGED <<want, sessionVars, procVars, sharedVars, reaperVars>>

\* No such call: run create, for a Session object that does not exist yet (which
\* one does not matter: a fixed choice keeps the state space small).
Lead(c, s) ==
  /\ at[c] = "flight"
  /\ InFlight(want[c]) = {}
  /\ phase[s] = "free"
  /\ s = CHOOSE t \in Sessions : phase[t] = "free"
  /\ phase' = [phase EXCEPT ![s] = "acquire"]
  /\ desc' = [desc EXCEPT ![s] = want[c]]
  /\ Goto(c, "wait", s)
  /\ UNCHANGED <<want, tries, stopped, released, idle, restarts, sup, procVars,
                 sharedVars, reaperVars>>

\* finishStart: AddListener, or for a prewarm Touch; both renew lastSeen.
Attach(c) ==
  /\ at[c] = "attach"
  /\ Touch(ref[c])
  /\ Goto(c, "idle", None)
  /\ want' = [want EXCEPT ![c] = None]
  /\ UNCHANGED <<phase, desc, tries, stopped, released, restarts, sup, procVars,
                 sharedVars, reaperVars>>

-----------------------------------------------------------------------------
(* create and createVod, run by the leader of a flight.                    *)

\* The flight returns an error to the leader and to those who joined it.
FlightFails(s) ==
  /\ phase' = [phase EXCEPT ![s] = "free"]
  /\ desc' = [desc EXCEPT ![s] = None]
  /\ tries' = [tries EXCEPT ![s] = 0]
  /\ at' = [c \in Clients |-> IF c \in Waiters(s) THEN "idle" ELSE at[c]]
  /\ ref' = [c \in Clients |-> IF c \in Waiters(s) THEN None ELSE ref[c]]
  /\ want' = [c \in Clients |-> IF c \in Waiters(s) THEN None ELSE want[c]]

\* The deferred receive gives the slot of an uncommitted create back.
CreateFails(s) == FlightFails(s) /\ slots > 0 /\ slots' = slots - 1

\* Mutant: create waits for a slot where the code gives up at once.
BusyWaits(s) == slots < 0 /\ UNCHANGED vars

\* All slots are taken: errBusy, without waiting for one.
Busy(s) ==
  /\ phase[s] = "acquire"
  /\ slots = RelayCap
  /\ FlightFails(s)
  /\ UNCHANGED <<stopped, released, idle, restarts, sup, procVars, sharedVars, reaperVars>>

Acquire(s) ==
  /\ phase[s] = "acquire"
  /\ slots < RelayCap
  /\ slots' = slots + 1
  /\ phase' = [phase EXCEPT ![s] = "fetch"]
  /\ UNCHANGED <<clientVars, desc, tries, stopped, released, idle, restarts, sup,
                 procVars, reg, reaperVars>>

\* Playback token (through the breaker) and usher playlist; for a VOD the Helix
\* preflight before them.
FetchOk(s) ==
  /\ phase[s] = "fetch"
  /\ phase' = [phase EXCEPT ![s] = "spawn"]
  /\ UNCHANGED <<clientVars, desc, tries, stopped, released, idle, restarts, sup,
                 procVars, sharedVars, reaperVars>>

FetchFails(s) ==
  /\ phase[s] = "fetch"
  /\ CreateFails(s)
  /\ UNCHANGED <<stopped, released, idle, restarts, sup, procVars, reg, reaperVars>>

\* startWorker: spawn the next backend of the list ...
Spawn(s) ==
  /\ phase[s] = "spawn"
  /\ cand' = [cand EXCEPT ![s] = "live"]
  /\ phase' = [phase EXCEPT ![s] = "probe"]
  /\ UNCHANGED <<clientVars, desc, tries, stopped, released, idle, restarts, sup, proc,
                 sharedVars, reaperVars>>

\* ... and when it does not spawn, or is killed because its playlist does not
\* become ready, go on to the next one; after the last, fail.
BackendFails(s) ==
  /\ phase[s] \in {"spawn", "probe"}
  /\ cand' = [cand EXCEPT ![s] = "none"]
  /\ \/ /\ tries[s] + 1 < Backends
        /\ tries' = [tries EXCEPT ![s] = @ + 1]
        /\ phase' = [phase EXCEPT ![s] = "spawn"]
        /\ UNCHANGED <<clientVars, desc, slots>>
     \/ /\ tries[s] + 1 >= Backends
        /\ CreateFails(s)
  /\ UNCHANGED <<stopped, released, idle, restarts, sup, proc, reg, reaperVars>>

\* The playlist is ready: the session is built, its worker published, and it is
\* registered over whatever the key held; the supervisor starts, and the flight
\* hands the session to everyone who waits for it.
Commit(s) ==
  /\ phase[s] = "probe"
  /\ phase' = [phase EXCEPT ![s] = "up"]
  /\ tries' = [tries EXCEPT ![s] = 0]
  /\ proc' = [proc EXCEPT ![s] = cand[s]]
  /\ cand' = [cand EXCEPT ![s] = "none"]
  /\ Touch(s)
  /\ reg' = [reg EXCEPT ![desc[s].key] = s]
  /\ sup' = [sup EXCEPT ![s] = "wait"]
  /\ at' = [c \in Clients |-> IF c \in Waiters(s) THEN "attach" ELSE at[c]]
  /\ UNCHANGED <<want, ref, desc, stopped, released, restarts, slots, reaperVars>>

-----------------------------------------------------------------------------
(* supervise and superviseVod.                                             *)

Supervisor(s, from, to) == sup[s] = from /\ sup' = [sup EXCEPT ![s] = to]

\* The worker has exited and the session is marked stopped: whoever marked it
\* tears it down.
SeeStopped(s) ==
  /\ Supervisor(s, "wait", "done")
  /\ desc[s].key \notin Vods
  /\ proc[s] = "dead"
  /\ stopped[s]
  /\ UNCHANGED <<clientVars, phase, desc, tries, stopped, released, idle, restarts,
                 procVars, sharedVars, reaperVars>>

\* The worker has exited and a restart is left: back off, then rotate the backends.
\* Nothing looks at the stopped flag again before the next worker has exited.
Restart(s) ==
  /\ Supervisor(s, "wait", "restart")
  /\ desc[s].key \notin Vods
  /\ proc[s] = "dead"
  /\ ~stopped[s]
  /\ restarts[s] < MaxRestarts
  /\ restarts' = [restarts EXCEPT ![s] = @ + 1]
  /\ UNCHANGED <<clientVars, phase, desc, tries, stopped, released, idle, procVars,
                 sharedVars, reaperVars>>

\* No restart is left; or the session is a VOD, which is never restarted.
GiveUp(s) ==
  /\ Supervisor(s, "wait", "mark")
  /\ proc[s] = "dead"
  /\ \/ desc[s].key \in Vods
     \/ ~stopped[s] /\ restarts[s] >= MaxRestarts
  /\ UNCHANGED <<clientVars, phase, desc, tries, stopped, released, idle, restarts,
                 procVars, sharedVars, reaperVars>>

Respawn(s) ==
  /\ cand' = [cand EXCEPT ![s] = "live"]
  /\ Supervisor(s, "restart", "reprobe")
  /\ UNCHANGED <<clientVars, phase, desc, tries, stopped, released, idle, restarts,
                 proc, sharedVars, reaperVars>>

RestartFails(s) ==
  /\ sup[s] \in {"restart", "reprobe"}
  /\ cand' = [cand EXCEPT ![s] = "none"]
  /\ \/ /\ tries[s] + 1 < Backends
        /\ tries' = [tries EXCEPT ![s] = @ + 1]
        /\ sup' = [sup EXCEPT ![s] = "restart"]
     \/ /\ tries[s] + 1 >= Backends
        /\ tries' = [tries EXCEPT ![s] = 0]
        /\ sup' = [sup EXCEPT ![s] = "mark"]
  /\ UNCHANGED <<clientVars, phase, desc, stopped, released, idle, restarts, proc,
                 sharedVars, reaperVars>>

\* SetStream publishes the new worker, without another look at the session's flags.
Recover(s) ==
  /\ Supervisor(s, "reprobe", "wait")
  /\ proc' = [proc EXCEPT ![s] = cand[s]]
  /\ cand' = [cand EXCEPT ![s] = "none"]
  /\ tries' = [tries EXCEPT ![s] = 0]
  /\ UNCHANGED <<clientVars, phase, desc, stopped, released, idle, restarts,
                 sharedVars, reaperVars>>

SupMark(s) ==
  /\ Supervisor(s, "mark", "remove")
  /\ MarkStopped(s)
  /\ UNCHANGED <<clientVars, phase, desc, tries, released, idle, restarts, procVars,
                 sharedVars, reaperVars>>

SupRemove(s) ==
  /\ Supervisor(s, "remove", "kill")
  /\ Deregister(desc[s].key)
  /\ UNCHANGED <<clientVars, phase, desc, tries, stopped, released, idle, restarts,
                 procVars, slots, reaperVars>>

SupKill(s) ==
  /\ Supervisor(s, "kill", "release")
  /\ KillStream(s)
  /\ UNCHANGED <<clientVars, phase, desc, tries, stopped, released, idle, restarts,
                 cand, sharedVars, reaperVars>>

SupRelease(s) ==
  /\ Supervisor(s, "release", "done")
  /\ Release(s)
  /\ UNCHANGED <<clientVars, phase, desc, tries, stopped, idle, restarts, procVars, reg,
                 reaperVars>>

-----------------------------------------------------------------------------
(* The reaper goroutine.                                                   *)

IdleSessions == {s \in Sessions : idle[s] /\ \E k \in Keys : reg[k] = s}

\* One tick: under the registry's lock, stop and unregister every idle session.
Reap ==
  /\ reaping = {}
  /\ IdleSessions # {}
  /\ reaping' = IdleSessions
  /\ stopped' = [s \in Sessions |-> stopped[s] \/ s \in IdleSessions]
  /\ reg' = [k \in Keys |-> IF reg[k] \in IdleSessions THEN None ELSE reg[k]]
  /\ UNCHANGED <<clientVars, phase, desc, tries, released, idle, restarts, sup,
                 procVars, slots, victim>>

\* Mutant: the reaper releases a session without killing its worker.
ReapSkipsKill(s) ==
  /\ s \in reaping
  /\ victim = None
  /\ victim' = s
  /\ UNCHANGED <<clientVars, sessionVars, procVars, sharedVars, reaping>>

\* Then, session by session, kill the worker and release the slot.
ReapKill(s) ==
  /\ s \in reaping
  /\ victim = None
  /\ KillStream(s)
  /\ victim' = s
  /\ UNCHANGED <<clientVars, sessionVars, cand, sharedVars, reaping>>

ReapRelease(s) ==
  /\ victim = s
  /\ Release(s)
  /\ victim' = None
  /\ reaping' = reaping \ {s}
  /\ UNCHANGED <<clientVars, phase, desc, tries, stopped, idle, restarts, sup,
                 procVars, reg>>

-----------------------------------------------------------------------------
(* The environment: time, viewers, and worker processes that exit.         *)

\* Only a registered session's lastSeen is ever read.
Age(s) ==
  /\ \E k \in Keys : reg[k] = s
  /\ ~idle[s]
  /\ idle' = [idle EXCEPT ![s] = TRUE]
  /\ UNCHANGED <<clientVars, phase, desc, tries, stopped, released, restarts, sup,
                 procVars, sharedVars, reaperVars>>

\* keepalive, and the last stop of a session, renew lastSeen of what lookup finds.
Keepalive(k) ==
  /\ reg[k] # None
  /\ idle[reg[k]]
  /\ Touch(reg[k])
  /\ UNCHANGED <<clientVars, phase, desc, tries, stopped, released, restarts, sup,
                 procVars, sharedVars, reaperVars>>

Exit(s) ==
  /\ \/ /\ proc[s] = "live"
        /\ proc' = [proc EXCEPT ![s] = "dead"]
        /\ UNCHANGED cand
     \/ /\ cand[s] = "live"
        /\ cand' = [cand EXCEPT ![s] = "dead"]
        /\ UNCHANGED proc
  /\ UNCHANGED <<clientVars, sessionVars, sharedVars, reaperVars>>

-----------------------------------------------------------------------------

Handler(c) ==
  \/ ChangeMark(c) \/ ChangeRemove(c) \/ ChangeKill(c) \/ ChangeRelease(c)
  \/ Attach(c)
  \/ \E s \in Sessions : Join(c, s) \/ Lead(c, s)

Create(s) ==
  \/ Acquire(s) \/ Busy(s) \/ FetchOk(s) \/ FetchFails(s)
  \/ Spawn(s) \/ BackendFails(s) \/ Commit(s)

Supervise(s) ==
  \/ SeeStopped(s) \/ Restart(s) \/ GiveUp(s)
  \/ Respawn(s) \/ RestartFails(s) \/ Recover(s)
  \/ SupMark(s) \/ SupRemove(s) \/ SupKill(s) \/ SupRelease(s)

Reaper == Reap \/ \E s \in Sessions : ReapKill(s) \/ ReapRelease(s)

Arrivals(c) == \E r \in Requests : StartMiss(c, r) \/ StartHit(c, r) \/ StartChange(c, r)

Next ==
  \/ \E c \in Clients : Arrivals(c) \/ Handler(c)
  \/ \E s \in Sessions : Create(s) \/ Supervise(s) \/ Age(s) \/ Exit(s)
  \/ \E k \in Keys : Keepalive(k)
  \/ Reaper

Spec == Init /\ [][Next]_vars

(***************************************************************************)
(* A goroutine that can run does run: handlers, create, supervisors and    *)
(* the reaper are scheduled fairly, and each wait in them (token, probe,   *)
(* backoff) ends by a timeout.  Nothing is assumed of viewers, of time     *)
(* passing, or of workers exiting.                                         *)
(***************************************************************************)
Fairness ==
  /\ \A c \in Clients : WF_vars(Handler(c))
  /\ \A s \in Sessions : WF_vars(Create(s)) /\ WF_vars(Supervise(s))
  /\ WF_vars(Reaper)

FairSpec == Spec /\ Fairness

-----------------------------------------------------------------------------
(* Safety.                                                                 *)

\* The sessions that hold a relay slot: a create that has acquired one and is not
\* yet committed, or a committed session that was not released.
Holding == {s \in Sessions : \/ phase[s] \in {"fetch", "spawn", "probe"}
                             \/ phase[s] = "up" /\ ~released[s]}

(***************************************************************************)
(* The semaphore counts exactly the creates under way and the sessions not *)
(* yet released, whatever mix of quality change, failed create, supervisor *)
(* and reaper tears them down: no slot leaks, none is given back twice     *)
(* (create's deferred receive, orchestrator.go:350-361; release, 721-727). *)
(***************************************************************************)
SlotAccounting == slots = Cardinality(Holding)

(***************************************************************************)
(* What a lookup finds still holds its slot and belongs to the key: every  *)
(* teardown takes the session out of the registry before it releases it,   *)
(* and nothing registers a session again (orchestrator.go:303-311,         *)
(* 691-697, registry.go:217-230).                                          *)
(***************************************************************************)
RegisteredHolds ==
  \A k \in Keys : reg[k] # None => /\ desc[reg[k]].key = k
                                   /\ reg[k] \in Holding

(***************************************************************************)
(* A worker process outlives its session's slot only through the restart   *)
(* path of a live supervisor: a session that was never restarted, and so   *)
(* every VOD, has no live worker once it is released.                      *)
(***************************************************************************)
LeakNeedsRestart ==
  \A s \in Sessions :
    released[s] /\ "live" \in {proc[s], cand[s]} =>
      restarts[s] > 0 /\ desc[s].key \notin Vods

(***************************************************************************)
(* A session keeps its slot until it is stopped, and a session whose       *)
(* supervisor has returned without releasing it is being torn down by the  *)
(* handler or by the reaper: nobody leaves the slot for somebody else who  *)
(* does not exist (the bare return on Stopped, orchestrator.go:641-643).   *)
(***************************************************************************)
SomeoneReleases ==
  \A s \in Sessions : stopped[s] /\ ~released[s] =>
    \/ sup[s] \in {"remove", "kill", "release"}
    \/ s \in reaping
    \/ \E c \in Clients : ref[c] = s /\ at[c] \in {"remove", "kill", "release"}

-----------------------------------------------------------------------------
(* Action properties and liveness.                                         *)

(***************************************************************************)
(* A start that reaches capacity is refused, it never displaces a relay:   *)
(* a slot is freed only by a create that fails or by the release of a      *)
(* session already stopped.                                                *)
(***************************************************************************)
OnlyStoppedFreed ==
  [][\A s \in Sessions : s \in Holding /\ s \notin Holding' =>
       stopped[s] \/ phase'[s] = "free"]_vars

\* Every start request is answered: no handler waits for ever for a flight or a slot.
StartsAnswered == \A c \in Clients : at[c] # "idle" ~> at[c] = "idle"

\* A stopped session's slot comes back, whoever stopped it.
StoppedReleased == \A s \in Sessions : stopped[s] ~> released[s]

-----------------------------------------------------------------------------
(* What a comment promises and these steps do not keep.                    *)

(***************************************************************************)
(* "The orchestrator reaper stops the relay after the idle timeout unless  *)
(* the user opens the channel" (useStreamPrewarm.ts:19-20): the reaper can *)
(* see every committed session until it is stopped.                        *)
(***************************************************************************)
ReaperSees ==
  \A s \in Sessions :
    phase[s] = "up" /\ ~stopped[s] => reg[desc[s].key] = s \/ sup[s] = "mark"

=============================================================================
