---------------------------- MODULE MCBackground ----------------------------
(***************************************************************************)
(* What must happen behind the requests, for TLC: the batches of messages  *)
(* (Batch) and, each on its own, small instances of the render jobs and of *)
(* the metadata cache with its warmer.                                     *)
(***************************************************************************)
EXTENDS Batch

CONSTANTS None

\* One job, for two scales, that is asked for twice: its claim may run out under a worker,
\* so that both workers have it.
MCJobs     == {"both"}
MCScalesOf == [j \in MCJobs |-> {"s1", "s2"}]

VARIABLES
  turn,  (* the part that runs                                             *)
  rj_state, rj_attempts, rj_late, rj_objects, rj_status, rj_wpc, rj_job, rj_tries,
  rj_written, rj_cpc, rj_asked, rj_requests, rj_faults, rj_overruns, rj_lapsed,
  md_now, md_redis, md_faults, md_fresh, md_stale, md_flight, md_pc, md_warm,
  md_kept

rjVars == <<rj_state, rj_attempts, rj_late, rj_objects, rj_status, rj_wpc, rj_job,
            rj_tries, rj_written, rj_cpc, rj_asked, rj_requests, rj_faults,
            rj_overruns, rj_lapsed>>
mdVars == <<md_now, md_redis, md_faults, md_fresh, md_stale, md_flight, md_pc,
            md_warm, md_kept>>

Render == INSTANCE RenderJobs WITH
  Jobs <- MCJobs, Scales <- {"s1", "s2"}, ScalesOf <- MCScalesOf,
  Workers <- {"w1", "w2"}, Callers <- {"c1"}, maxAttempts <- 1, MaxRequests <- 2,
  MaxFaults <- 1, MaxOverruns <- 1, state <- rj_state, attempts <- rj_attempts,
  late <- rj_late, objects <- rj_objects, status <- rj_status, wpc <- rj_wpc,
  job <- rj_job, tries <- rj_tries, written <- rj_written, cpc <- rj_cpc,
  asked <- rj_asked, requests <- rj_requests, faults <- rj_faults,
  overruns <- rj_overruns, lapsed <- rj_lapsed

\* Nothing changes upstream: no request ends by what an answer holds.
Meta == INSTANCE Metadata WITH
  Handlers <- {"h1"}, Views <- {"insights", "lsf"}, MaxChanges <- 0,
  MaxFaults <- 1, now <- md_now, redis <- md_redis, faults <- md_faults,
  fresh <- md_fresh, stale <- md_stale, flight <- md_flight, pc <- md_pc,
  warm <- md_warm, kept <- md_kept

Parts == {"batch", "jobs", "metadata"}

\* One part runs; the others stay as they are at first.
SumInit ==
  /\ turn \in Parts
  /\ Init
  /\ Render!Init
  /\ Meta!Init

SumNext ==
  \/ turn = "batch" /\ Next /\ UNCHANGED <<turn, rjVars, mdVars>>
  \/ turn = "jobs" /\ Render!Next /\ UNCHANGED <<turn, vars, mdVars>>
  \/ turn = "metadata" /\ Meta!Next /\ UNCHANGED <<turn, vars, rjVars>>

sumVars == <<turn, vars, rjVars, mdVars>>

SumSpec == SumInit /\ [][SumNext]_sumVars

\* The fairness of each part, as long as it is the one that runs.
SumFairness ==
  /\ \A ch \in Channels : WF_vars(turn = "batch" /\ Flush(ch))
  /\ \A r \in Readers : WF_vars(turn = "batch" /\ EmitFirst(r))
  /\ \A f \in Frames : WF_vars(turn = "batch" /\ EmitFlushed(f))
  /\ \A w \in {"w1", "w2"} : WF_rjVars(turn = "jobs" /\ Render!Worker(w))
  /\ \A j \in MCJobs : WF_rjVars(turn = "jobs" /\ Render!LapseAbandoned(j))
  /\ \A r \in {"h1", "warmer"} : WF_mdVars(turn = "metadata" /\ Meta!Step(r))
  /\ WF_mdVars(turn = "metadata" /\ Meta!PostsStep("h1"))
  /\ WF_mdVars(turn = "metadata" /\ Meta!WarmEnds)

SumFairSpec == SumSpec /\ SumFairness

JobsSettle == Render!JobsSettle
RequestsEnd == Meta!RequestsEnd

=============================================================================
