---------------------------- MODULE RenderJobs ----------------------------
(***************************************************************************)
(* The render jobs of one emote: requests put jobs into PostgreSQL         *)
(* (internal/emote/render/queue.go, internal/emote/store/store.go),        *)
(* workers claim them, render the scales, upload them and write down the   *)
(* outcome (internal/emote/worker/worker.go).                              *)
(*                                                                         *)
(* A step is one statement of the database or one call of the object       *)
(* store.  A claim is a lease without an owner: a job that has been        *)
(* running for two minutes is claimed again, and the outcome of a job is   *)
(* written by its id, whoever holds it by then.  All workers and requests  *)
(* live in one process, which may crash.  Jobs of one emote differ in the  *)
(* scales they render and share the objects.  Requests turned away by      *)
(* reason, rate or queue depth change nothing and are left out, as are the *)
(* dictionaries the worker marks for a rebuild.                            *)
(***************************************************************************)
EXTENDS Naturals, FiniteSets

CONSTANTS
  Jobs,        (* the (emote, source key) pairs of the emote                *)
  Scales,
  ScalesOf,    (* the scales a job renders                                  *)
  Workers,
  Callers,     (* goroutines that call Enqueue                              *)
  maxAttempts,
  MaxRequests, (* bound: jobs written by requests                           *)
  MaxFaults,   (* bound: crashes, and outcomes the database does not take   *)
  MaxOverruns, (* bound: claims that run out under a live worker            *)
  None         (* no job                                                    *)

ASSUME RenderJobsAssumption ==
  /\ ScalesOf \in [Jobs -> SUBSET Scales]
  /\ IsFiniteSet(Workers)
  /\ maxAttempts \in Nat
  /\ MaxRequests \in Nat /\ MaxFaults \in Nat /\ MaxOverruns \in Nat
  /\ None \notin Jobs

VARIABLES
  state, attempts, (* per job: the columns of processing_jobs               *)
  late,            (* the running jobs claimed more than two minutes ago    *)
  objects,         (* the scales in the object store                        *)
  status,          (* the emote's: "pending", "ready" or "failed"           *)
  wpc,             (* per worker: program counter                           *)
  job, tries,      (* per worker: the job, and its attempts at the claim    *)
  written,         (* per worker: the scales uploaded and not taken back    *)
  cpc, asked,      (* per caller: program counter and job                   *)
  requests, faults, overruns, (* what the bounds count                      *)
  lapsed           (* history: how often a claim of the job has run out     *)

rowVars    == <<state, attempts, late>>
emoteVars  == <<objects, status>>
workerVars == <<wpc, job, tries, written>>
callerVars == <<cpc, asked>>
countVars  == <<requests, faults, overruns, lapsed>>
vars == <<rowVars, emoteVars, workerVars, callerVars, countVars>>

Open == {"queued", "running", "retry"}

TypeOK ==
  /\ state \in [Jobs -> Open \cup {"none", "done", "failed"}]
  /\ attempts \in [Jobs -> Nat]
  /\ late \in SUBSET Jobs
  /\ objects \in SUBSET Scales
  /\ status \in {"pending", "ready", "failed"}
  /\ wpc \in [Workers -> {"idle", "render", "put", "clean", "fail", "giveup", "finish"}]
  /\ job \in [Workers -> Jobs \cup {None}]
  /\ \A w \in Workers : job[w] = None <=> wpc[w] = "idle"
  /\ tries \in [Workers -> Nat]
  /\ written \in [Workers -> SUBSET Scales]
  /\ cpc \in [Callers -> {"idle", "check", "insert"}]
  /\ asked \in [Callers -> Jobs \cup {None}]
  /\ \A c \in Callers : asked[c] = None <=> cpc[c] = "idle"
  /\ requests \in 0 .. MaxRequests
  /\ faults \in 0 .. MaxFaults
  /\ overruns \in 0 .. MaxOverruns
  /\ lapsed \in [Jobs -> Nat]

Init ==
  /\ state = [j \in Jobs |-> "none"]
  /\ attempts = [j \in Jobs |-> 0]
  /\ late = {}
  /\ objects = {}
  /\ status = "pending"
  /\ wpc = [w \in Workers |-> "idle"]
  /\ job = [w \in Workers |-> None]
  /\ tries = [w \in Workers |-> 0]
  /\ written = [w \in Workers |-> {}]
  /\ cpc = [c \in Callers |-> "idle"]
  /\ asked = [c \in Callers |-> None]
  /\ requests = 0
  /\ faults = 0
  /\ overruns = 0
  /\ lapsed = [j \in Jobs |-> 0]

-----------------------------------------------------------------------------
(* Enqueue.                                                                *)

Ask(c, at, j) ==
  /\ cpc' = [cpc EXCEPT ![c] = at]
  /\ asked' = [asked EXCEPT ![c] = j]
  /\ UNCHANGED <<emoteVars, workerVars, faults, overruns, lapsed>>

\* A request for a scale that is not there, or for a job again.
Request(c, j) ==
  /\ cpc[c] = "idle"
  /\ requests < MaxRequests
  /\ Ask(c, "check", j)
  /\ UNCHANGED <<rowVars, requests>>

JobExists(c) ==
  /\ cpc[c] = "check"
  /\ \/ state[asked[c]] \in Open /\ Ask(c, "idle", None)
     \/ state[asked[c]] \notin Open /\ Ask(c, "insert", asked[c])
  /\ UNCHANGED <<rowVars, requests>>

\* Mutant: a job that is running is queued again too.
RequeueRunning(c) ==
  LET j == asked[c]
  IN /\ cpc[c] = "insert"
     /\ requests < MaxRequests
     /\ requests' = requests + 1
     /\ state' = [state EXCEPT ![j] = "queued"]
     /\ attempts' = [attempts EXCEPT ![j] = 0]
     /\ late' = late \ {j}
     /\ Ask(c, "idle", None)

\* Create the job, or queue a settled one again; one that has become open since
\* the check only has its time renewed.
InsertOrRequeueJob(c) ==
  LET j == asked[c]
  IN /\ cpc[c] = "insert"
     /\ requests < MaxRequests
     /\ requests' = requests + 1
     /\ IF state[j] \in Open
          THEN UNCHANGED <<state, attempts>>
          ELSE /\ state' = [state EXCEPT ![j] = "queued"]
               /\ attempts' = [attempts EXCEPT ![j] = 0]
     /\ late' = late \ {j}
     /\ Ask(c, "idle", None)

-----------------------------------------------------------------------------
(* processOne.                                                             *)

Goto(w, at) == wpc' = [wpc EXCEPT ![w] = at]

Rest(w) ==
  /\ Goto(w, "idle")
  /\ job' = [job EXCEPT ![w] = None]
  /\ tries' = [tries EXCEPT ![w] = 0]
  /\ written' = [written EXCEPT ![w] = {}]

\* Mutant: a job that runs is never claimed again.
ClaimFreeOnly(j) == state[j] \in {"queued", "retry"}

\* Jobs whose claim has run out go first.
Claimable(j) ==
  \/ j \in late
  \/ late = {} /\ state[j] \in {"queued", "retry"}

ClaimJob(w, j) ==
  /\ wpc[w] = "idle"
  /\ Claimable(j)
  /\ state' = [state EXCEPT ![j] = "running"]
  /\ attempts' = [attempts EXCEPT ![j] = @ + 1]
  /\ late' = late \ {j}
  /\ Goto(w, "render")
  /\ job' = [job EXCEPT ![w] = j]
  /\ tries' = [tries EXCEPT ![w] = attempts[j]]
  /\ UNCHANGED <<emoteVars, written, callerVars, countVars>>

\* The source is fetched and rendered, or not.
Render(w) ==
  /\ wpc[w] = "render"
  /\ \E at \in {"put", "fail"} : Goto(w, at)
  /\ UNCHANGED <<rowVars, emoteVars, job, tries, written, callerVars, countVars>>

Put(w) ==
  /\ wpc[w] = "put"
  /\ \E s \in ScalesOf[job[w]] \ written[w] :
       \/ /\ objects' = objects \cup {s}
          /\ written' = [written EXCEPT ![w] = @ \cup {s}]
          /\ UNCHANGED wpc
       \/ /\ Goto(w, "clean")
          /\ UNCHANGED <<objects, written>>
  /\ UNCHANGED <<rowVars, status, job, tries, callerVars, countVars>>

Activate(w) ==
  /\ wpc[w] = "put"
  /\ written[w] = ScalesOf[job[w]]
  /\ \/ status' = "ready" /\ Goto(w, "finish")
     \/ UNCHANGED status /\ Goto(w, "clean")
  /\ UNCHANGED <<rowVars, objects, job, tries, written, callerVars, countVars>>

\* After an upload or the activation has failed: take back what was uploaded.
\* An object that cannot be deleted stays.
Clean(w) ==
  /\ wpc[w] = "clean"
  /\ \/ \E s \in written[w] :
          /\ \E gone \in {{}, {s}} : objects' = objects \ gone
          /\ written' = [written EXCEPT ![w] = @ \ {s}]
          /\ UNCHANGED wpc
     \/ /\ written[w] = {}
        /\ Goto(w, "fail")
        /\ UNCHANGED <<objects, written>>
  /\ UNCHANGED <<rowVars, status, job, tries, callerVars, countVars>>

\* The outcome of the worker's job is written down, whoever holds it by now.
Outcome(w, st) ==
  /\ state' = [state EXCEPT ![job[w]] = st]
  /\ late' = late \ {job[w]}
  /\ Rest(w)
  /\ UNCHANGED <<attempts, emoteVars, callerVars, countVars>>

RetryJob(w) ==
  /\ wpc[w] = "fail"
  /\ tries[w] < maxAttempts
  /\ Outcome(w, "retry")

\* The last attempt: the emote is marked failed first, if the database takes it.
GiveUp(w) ==
  /\ wpc[w] = "fail"
  /\ tries[w] >= maxAttempts
  /\ status' \in {status, "failed"}
  /\ Goto(w, "giveup")
  /\ UNCHANGED <<rowVars, objects, job, tries, written, callerVars, countVars>>

\* Mutant: the worker that gives up reports success.
FinishAll(w) ==
  /\ wpc[w] \in {"giveup", "finish"}
  /\ Outcome(w, "done")

FinishJob(w) ==
  \/ wpc[w] = "giveup" /\ Outcome(w, "failed")
  \/ wpc[w] = "finish" /\ Outcome(w, "done")

\* Bound.  The database does not take the outcome: the job stays as it is.
OutcomeLost(w) ==
  /\ wpc[w] \in {"fail", "giveup", "finish"}
  /\ wpc[w] = "fail" => tries[w] < maxAttempts
  /\ faults < MaxFaults
  /\ faults' = faults + 1
  /\ Rest(w)
  /\ UNCHANGED <<rowVars, emoteVars, callerVars, requests, overruns, lapsed>>

-----------------------------------------------------------------------------
(* Time and crashes.                                                       *)

Held(j) == \E w \in Workers : job[w] = j

\* Two minutes after the claim, or the last write of the row.
Lapse(j) ==
  /\ state[j] = "running"
  /\ j \notin late
  /\ late' = late \cup {j}
  /\ lapsed' = [lapsed EXCEPT ![j] = @ + 1]
  /\ UNCHANGED <<state, attempts, emoteVars, workerVars, callerVars, requests, faults>>

LapseAbandoned(j) == ~Held(j) /\ Lapse(j) /\ UNCHANGED overruns

\* Bound.  The worker is still at it.
Overrun(j) ==
  /\ Held(j)
  /\ overruns < MaxOverruns
  /\ overruns' = overruns + 1
  /\ Lapse(j)

\* Bound.  The process ends and starts again: what is running stays running.
Crash ==
  /\ faults < MaxFaults
  /\ \E w \in Workers : wpc[w] # "idle"
  /\ faults' = faults + 1
  /\ wpc' = [w \in Workers |-> "idle"]
  /\ job' = [w \in Workers |-> None]
  /\ tries' = [w \in Workers |-> 0]
  /\ written' = [w \in Workers |-> {}]
  /\ cpc' = [c \in Callers |-> "idle"]
  /\ asked' = [c \in Callers |-> None]
  /\ UNCHANGED <<rowVars, emoteVars, requests, overruns, lapsed>>

-----------------------------------------------------------------------------

Caller(c) == JobExists(c) \/ InsertOrRequeueJob(c)

Worker(w) ==
  \/ \E j \in Jobs : ClaimJob(w, j)
  \/ Render(w) \/ Put(w) \/ Activate(w) \/ Clean(w)
  \/ RetryJob(w) \/ GiveUp(w) \/ FinishJob(w)

Next ==
  \/ \E c \in Callers : Caller(c) \/ \E j \in Jobs : Request(c, j)
  \/ \E w \in Workers : Worker(w) \/ OutcomeLost(w)
  \/ \E j \in Jobs : LapseAbandoned(j) \/ Overrun(j)
  \/ Crash

Spec == Init /\ [][Next]_vars

\* Workers poll for ever, and time passes.  Nobody has to ask for anything, and no
\* claim has to run out under its worker.
Fairness ==
  /\ \A w \in Workers : WF_vars(Worker(w))
  /\ \A j \in Jobs : WF_vars(LapseAbandoned(j))

FairSpec == Spec /\ Fairness

-----------------------------------------------------------------------------

(***************************************************************************)
(* Two workers have one job only after a claim has run out under its       *)
(* worker: no request, retry, crash or lost outcome hands out a job that   *)
(* is being worked on (store.go:168-181, 271-304).                         *)
(***************************************************************************)
OneHolder ==
  overruns = 0 =>
    \A v, w \in Workers : job[v] = job[w] /\ job[v] # None => v = w

(***************************************************************************)
(* As long as no claim has run out under its worker, a job that is done    *)
(* has its scales in the object store and a ready emote, unless another    *)
(* job of the emote, which shares them, is open or has failed: the cleanup *)
(* of one job takes away what another has uploaded, but then a retry puts  *)
(* it back (worker.go:149-170, 271-284).                                   *)
(***************************************************************************)
DoneIsRendered ==
  overruns = 0 =>
    \A j \in Jobs : state[j] = "done" =>
      \/ \E k \in Jobs : state[k] \in Open \cup {"failed"}
      \/ ScalesOf[j] \subseteq objects /\ status = "ready"

\* A job is tried once and retried maxAttempts times, and once more for every claim
\* of it that has run out, whatever late workers write (worker.go:271-284).
AttemptsBounded == \A j \in Jobs : attempts[j] <= maxAttempts + 1 + lapsed[j]

\* A job that is open is done or fails at last, also when the process crashes, an
\* outcome is lost or two workers have the job (the reclaim of store.go:271-304).
JobsSettle == \A j \in Jobs : state[j] \in Open ~> state[j] \in {"done", "failed"}

=============================================================================
