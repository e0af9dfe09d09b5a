-------------------------- MODULE RenderJobs_proofs --------------------------
(***************************************************************************)
(* Proofs about RenderJobs, for every number of jobs, scales, workers,     *)
(* callers, retries and faults.                                            *)
(***************************************************************************)
EXTENDS RenderJobs, FiniteSetTheorems, TLAPS

\* What a worker's program counter says of what it has uploaded.
Uploads ==
  \A w \in Workers :
    /\ wpc[w] \in {"idle", "render", "fail", "giveup"} => written[w] = {}
    /\ wpc[w] # "idle" => written[w] \subseteq ScalesOf[job[w]]
    /\ wpc[w] = "finish" => written[w] = ScalesOf[job[w]]

\* A job in the hands of a worker runs, its claim has not run out, and nobody else
\* has it.
Leases ==
  /\ \A w \in Workers : job[w] # None => state[job[w]] = "running" /\ job[w] \notin late
  /\ \A v, w \in Workers : job[v] = job[w] /\ job[v] # None => v = w

Unsettled(k) == state[k] \in Open \cup {"failed"}

\* The job stands for the scale: it has still to upload it, or has failed to.
Owes(k, s) ==
  /\ Unsettled(k)
  /\ s \in ScalesOf[k]
  /\ \A w \in Workers :
       job[w] = k /\ wpc[w] \in {"put", "finish"} => s \notin written[w]

Covered(s) == s \in objects \/ \E k \in Jobs : Owes(k, s)

\* Every scale that a job has uploaded, done or not yet, is there or is owed.
ScalesKept ==
  /\ \A j \in Jobs : state[j] = "done" => \A s \in ScalesOf[j] : Covered(s)
  /\ \A w \in Workers : wpc[w] \in {"put", "finish"} => \A s \in written[w] : Covered(s)

StatusOwes(k) ==
  /\ Unsettled(k)
  /\ \A w \in Workers : job[w] = k => wpc[w] # "finish"

\* An emote with a job that is done is ready, or a job stands for its status.
StatusKept ==
  (\E j \in Jobs : state[j] = "done") \/ (\E w \in Workers : wpc[w] = "finish")
    => status = "ready" \/ \E k \in Jobs : StatusOwes(k)

IInv == TypeOK /\ Uploads /\ (overruns = 0 => Leases /\ ScalesKept /\ StatusKept)

-----------------------------------------------------------------------------
(* Type correctness.                                                       *)

LEMMA TypeInit == Init => TypeOK
  BY RenderJobsAssumption DEF Init, TypeOK, Open

LEMMA TypeStep == TypeOK /\ [Next]_vars => TypeOK'
<1> SUFFICES ASSUME TypeOK, [Next]_vars PROVE TypeOK'
  OBVIOUS
<1> USE RenderJobsAssumption DEF Open
<1>1. ASSUME NEW c \in Callers, NEW j \in Jobs, Request(c, j) PROVE TypeOK'
  BY <1>1 DEF Request, Ask, TypeOK, rowVars, emoteVars, workerVars, callerVars, countVars
<1>2. ASSUME NEW c \in Callers, JobExists(c) PROVE TypeOK'
  BY <1>2 DEF JobExists, Ask, TypeOK, rowVars, emoteVars, workerVars, callerVars,
       countVars
<1>3. ASSUME NEW c \in Callers, InsertOrRequeueJob(c) PROVE TypeOK'
  BY <1>3 DEF InsertOrRequeueJob, Ask, TypeOK, rowVars, emoteVars, workerVars,
       callerVars, countVars
<1>4. ASSUME NEW w \in Workers, NEW j \in Jobs, ClaimJob(w, j) PROVE TypeOK'
  BY <1>4 DEF ClaimJob, Claimable, Goto, TypeOK, rowVars, emoteVars, workerVars,
       callerVars, countVars
<1>5. ASSUME NEW w \in Workers, Render(w) PROVE TypeOK'
  BY <1>5 DEF Render, Goto, TypeOK, rowVars, emoteVars, workerVars, callerVars, countVars
<1>6. ASSUME NEW w \in Workers, Put(w) PROVE TypeOK'
  BY <1>6 DEF Put, Goto, TypeOK, rowVars, emoteVars, workerVars, callerVars, countVars
<1>7. ASSUME NEW w \in Workers, Activate(w) PROVE TypeOK'
  BY <1>7 DEF Activate, Goto, TypeOK, rowVars, emoteVars, workerVars, callerVars,
       countVars
<1>8. ASSUME NEW w \in Workers, Clean(w) PROVE TypeOK'
  BY <1>8 DEF Clean, Goto, TypeOK, rowVars, emoteVars, workerVars, callerVars, countVars
<1>9. ASSUME NEW w \in Workers, RetryJob(w) PROVE TypeOK'
  BY <1>9 DEF RetryJob, Outcome, Rest, Goto, TypeOK, rowVars, emoteVars, workerVars,
       callerVars, countVars
<1>10. ASSUME NEW w \in Workers, GiveUp(w) PROVE TypeOK'
  BY <1>10 DEF GiveUp, Goto, TypeOK, rowVars, emoteVars, workerVars, callerVars, countVars
<1>11. ASSUME NEW w \in Workers, FinishJob(w) PROVE TypeOK'
  BY <1>11 DEF FinishJob, Outcome, Rest, Goto, TypeOK, rowVars, emoteVars, workerVars,
       callerVars, countVars
<1>12. ASSUME NEW w \in Workers, OutcomeLost(w) PROVE TypeOK'
  BY <1>12 DEF OutcomeLost, Rest, Goto, TypeOK, rowVars, emoteVars, workerVars,
       callerVars, countVars
<1>13. ASSUME NEW j \in Jobs, LapseAbandoned(j) PROVE TypeOK'
  BY <1>13 DEF LapseAbandoned, Lapse, Held, TypeOK, rowVars, emoteVars, workerVars,
       callerVars, countVars
<1>14. ASSUME NEW j \in Jobs, Overrun(j) PROVE TypeOK'
  BY <1>14 DEF Overrun, Lapse, Held, TypeOK, rowVars, emoteVars, workerVars, callerVars,
       countVars
<1>15. ASSUME Crash PROVE TypeOK'
  BY <1>15 DEF Crash, TypeOK, rowVars, emoteVars, workerVars, callerVars, countVars
<1>16. CASE UNCHANGED vars
  BY <1>16 DEF TypeOK, rowVars, emoteVars, workerVars, callerVars, countVars, vars
<1>17. QED
  BY <1>1, <1>2, <1>3, <1>4, <1>5, <1>6, <1>7, <1>8, <1>9, <1>10, <1>11, <1>12, <1>13,
       <1>14, <1>15, <1>16
     DEF Next, Caller, Worker

\* Every variable has its type.
THEOREM TypeCorrect == Spec => []TypeOK
  BY TypeInit, TypeStep, PTL DEF Spec

-----------------------------------------------------------------------------
(* Claims, uploads and what done jobs owe.                                 *)

LEMMA UploadsStep == TypeOK /\ Uploads /\ [Next]_vars => Uploads'
<1> SUFFICES ASSUME TypeOK, Uploads, [Next]_vars PROVE Uploads'
  OBVIOUS
<1> USE RenderJobsAssumption DEF Open
<1>1. ASSUME NEW c \in Callers, NEW j \in Jobs, Request(c, j) PROVE Uploads'
  BY <1>1 DEF Request, Ask, TypeOK, Uploads, rowVars, emoteVars, workerVars, callerVars,
       countVars
<1>2. ASSUME NEW c \in Callers, JobExists(c) PROVE Uploads'
  BY <1>2 DEF JobExists, Ask, TypeOK, Uploads, rowVars, emoteVars, workerVars,
       callerVars, countVars
<1>3. ASSUME NEW c \in Callers, InsertOrRequeueJob(c) PROVE Uploads'
  BY <1>3 DEF InsertOrRequeueJob, Ask, TypeOK, Uploads, rowVars, emoteVars, workerVars,
       callerVars, countVars
<1>4. ASSUME NEW w \in Workers, NEW j \in Jobs, ClaimJob(w, j) PROVE Uploads'
  BY <1>4 DEF ClaimJob, Claimable, Goto, TypeOK, Uploads, rowVars, emoteVars, workerVars,
       callerVars, countVars
<1>5. ASSUME NEW w \in Workers, Render(w) PROVE Uploads'
  BY <1>5 DEF Render, Goto, TypeOK, Uploads, rowVars, emoteVars, workerVars, callerVars,
       countVars
<1>6. ASSUME NEW w \in Workers, Put(w) PROVE Uploads'
  BY <1>6 DEF Put, Goto, TypeOK, Uploads, rowVars, emoteVars, workerVars, callerVars,
       countVars
<1>7. ASSUME NEW w \in Workers, Activate(w) PROVE Uploads'
  BY <1>7 DEF Activate, Goto, TypeOK, Uploads, rowVars, emoteVars, workerVars,
       callerVars, countVars
<1>8. ASSUME NEW w \in Workers, Clean(w) PROVE Uploads'
  BY <1>8 DEF Clean, Goto, TypeOK, Uploads, rowVars, emoteVars, workerVars, callerVars,
       countVars
<1>9. ASSUME NEW w \in Workers, RetryJob(w) PROVE Uploads'
  BY <1>9 DEF RetryJob, Outcome, Rest, Goto, TypeOK, Uploads, rowVars, emoteVars,
       workerVars, callerVars, countVars
<1>10. ASSUME NEW w \in Workers, GiveUp(w) PROVE Uploads'
  BY <1>10 DEF GiveUp, Goto, TypeOK, Uploads, rowVars, emoteVars, workerVars, callerVars,
       countVars
<1>11. ASSUME NEW w \in Workers, FinishJob(w) PROVE Uploads'
  BY <1>11 DEF FinishJob, Outcome, Rest, Goto, TypeOK, Uploads, rowVars, emoteVars,
       workerVars, callerVars, countVars
<1>12. ASSUME NEW w \in Workers, OutcomeLost(w) PROVE Uploads'
  BY <1>12 DEF OutcomeLost, Rest, Goto, TypeOK, Uploads, rowVars, emoteVars, workerVars,
       callerVars, countVars
<1>13. ASSUME NEW j \in Jobs, LapseAbandoned(j) PROVE Uploads'
  BY <1>13 DEF LapseAbandoned, Lapse, Held, TypeOK, Uploads, rowVars, emoteVars,
       workerVars, callerVars, countVars
<1>14. ASSUME NEW j \in Jobs, Overrun(j) PROVE Uploads'
  BY <1>14 DEF Overrun, Lapse, Held, TypeOK, Uploads, rowVars, emoteVars, workerVars,
       callerVars, countVars
<1>15. ASSUME Crash PROVE Uploads'
  BY <1>15 DEF Crash, TypeOK, Uploads, rowVars, emoteVars, workerVars, callerVars,
       countVars
<1>16. CASE UNCHANGED vars
  BY <1>16 DEF TypeOK, Uploads, rowVars, emoteVars, workerVars, callerVars, countVars,
       vars
<1>17. QED
  BY <1>1, <1>2, <1>3, <1>4, <1>5, <1>6, <1>7, <1>8, <1>9, <1>10, <1>11, <1>12, <1>13,
       <1>14, <1>15, <1>16
     DEF Next, Caller, Worker

LEMMA LeasesStep ==
  overruns = 0 /\ TypeOK /\ Leases /\ [Next]_vars =>
    (overruns' = 0 => Leases')
<1> SUFFICES ASSUME overruns = 0, TypeOK, Leases, [Next]_vars, overruns' = 0
             PROVE  Leases'
  OBVIOUS
<1> USE RenderJobsAssumption DEF Open
<1>1. ASSUME NEW c \in Callers, NEW j \in Jobs, Request(c, j) PROVE Leases'
  BY <1>1 DEF Request, Ask, TypeOK, Leases, rowVars, emoteVars, workerVars, callerVars,
       countVars
<1>2. ASSUME NEW c \in Callers, JobExists(c) PROVE Leases'
  BY <1>2 DEF JobExists, Ask, TypeOK, Leases, rowVars, emoteVars, workerVars, callerVars,
       countVars
<1>3. ASSUME NEW c \in Callers, InsertOrRequeueJob(c) PROVE Leases'
  BY <1>3 DEF InsertOrRequeueJob, Ask, TypeOK, Leases, rowVars, emoteVars, workerVars,
       callerVars, countVars
<1>4. ASSUME NEW w \in Workers, NEW j \in Jobs, ClaimJob(w, j) PROVE Leases'
  BY <1>4 DEF ClaimJob, Claimable, Goto, TypeOK, Leases, rowVars, emoteVars, workerVars,
       callerVars, countVars
<1>5. ASSUME NEW w \in Workers, Render(w) PROVE Leases'
  BY <1>5 DEF Render, Goto, TypeOK, Leases, rowVars, emoteVars, workerVars, callerVars,
       countVars
<1>6. ASSUME NEW w \in Workers, Put(w) PROVE Leases'
  BY <1>6 DEF Put, Goto, TypeOK, Leases, rowVars, emoteVars, workerVars, callerVars,
       countVars
<1>7. ASSUME NEW w \in Workers, Activate(w) PROVE Leases'
  BY <1>7 DEF Activate, Goto, TypeOK, Leases, rowVars, emoteVars, workerVars, callerVars,
       countVars
<1>8. ASSUME NEW w \in Workers, Clean(w) PROVE Leases'
  BY <1>8 DEF Clean, Goto, TypeOK, Leases, rowVars, emoteVars, workerVars, callerVars,
       countVars
<1>9. ASSUME NEW w \in Workers, RetryJob(w) PROVE Leases'
  BY <1>9 DEF RetryJob, Outcome, Rest, Goto, TypeOK, Leases, rowVars, emoteVars,
       workerVars, callerVars, countVars
<1>10. ASSUME NEW w \in Workers, GiveUp(w) PROVE Leases'
  BY <1>10 DEF GiveUp, Goto, TypeOK, Leases, rowVars, emoteVars, workerVars, callerVars,
       countVars
<1>11. ASSUME NEW w \in Workers, FinishJob(w) PROVE Leases'
  BY <1>11 DEF FinishJob, Outcome, Rest, Goto, TypeOK, Leases, rowVars, emoteVars,
       workerVars, callerVars, countVars
<1>12. ASSUME NEW w \in Workers, OutcomeLost(w) PROVE Leases'
  BY <1>12 DEF OutcomeLost, Rest, Goto, TypeOK, Leases, rowVars, emoteVars, workerVars,
       callerVars, countVars
<1>13. ASSUME NEW j \in Jobs, LapseAbandoned(j) PROVE Leases'
  BY <1>13 DEF LapseAbandoned, Lapse, Held, TypeOK, Leases, rowVars, emoteVars,
       workerVars, callerVars, countVars
<1>14. ASSUME NEW j \in Jobs, Overrun(j) PROVE Leases'
  BY <1>14 DEF Overrun, Lapse, Held, TypeOK, Leases, rowVars, emoteVars, workerVars,
       callerVars, countVars
<1>15. ASSUME Crash PROVE Leases'
  BY <1>15 DEF Crash, TypeOK, Leases, rowVars, emoteVars, workerVars, callerVars,
       countVars
<1>16. CASE UNCHANGED vars
  BY <1>16 DEF TypeOK, Leases, rowVars, emoteVars, workerVars, callerVars, countVars, vars
<1>17. QED
  BY <1>1, <1>2, <1>3, <1>4, <1>5, <1>6, <1>7, <1>8, <1>9, <1>10, <1>11, <1>12, <1>13,
       <1>14, <1>15, <1>16
     DEF Next, Caller, Worker

LEMMA ScalesStep ==
  overruns = 0 /\ TypeOK /\ Uploads /\ Leases /\ ScalesKept /\ [Next]_vars =>
    (overruns' = 0 => ScalesKept')
<1> SUFFICES ASSUME overruns = 0, TypeOK, Uploads, Leases, ScalesKept, [Next]_vars,
overruns' = 0
             PROVE  ScalesKept'
  OBVIOUS
<1> USE RenderJobsAssumption DEF Open
<1>1. ASSUME NEW c \in Callers, NEW j \in Jobs, Request(c, j) PROVE ScalesKept'
  BY <1>1 DEF Request, Ask, TypeOK, Uploads, Leases, ScalesKept, Covered, Owes,
       Unsettled, rowVars, emoteVars, workerVars, callerVars, countVars
<1>2. ASSUME NEW c \in Callers, JobExists(c) PROVE ScalesKept'
  BY <1>2 DEF JobExists, Ask, TypeOK, Uploads, Leases, ScalesKept, Covered, Owes,
       Unsettled, rowVars, emoteVars, workerVars, callerVars, countVars
<1>3. ASSUME NEW c \in Callers, InsertOrRequeueJob(c) PROVE ScalesKept'
  BY <1>3 DEF InsertOrRequeueJob, Ask, TypeOK, Uploads, Leases, ScalesKept, Covered,
       Owes, Unsettled, rowVars, emoteVars, workerVars, callerVars, countVars
<1>4. ASSUME NEW w \in Workers, NEW j \in Jobs, ClaimJob(w, j) PROVE ScalesKept'
  BY <1>4 DEF ClaimJob, Claimable, Goto, TypeOK, Uploads, Leases, ScalesKept, Covered,
       Owes, Unsettled, rowVars, emoteVars, workerVars, callerVars, countVars
<1>5. ASSUME NEW w \in Workers, Render(w) PROVE ScalesKept'
  BY <1>5 DEF Render, Goto, TypeOK, Uploads, Leases, ScalesKept, Covered, Owes,
       Unsettled, rowVars, emoteVars, workerVars, callerVars, countVars
<1>6. ASSUME NEW w \in Workers, Put(w) PROVE ScalesKept'
  BY <1>6 DEF Put, Goto, TypeOK, Uploads, Leases, ScalesKept, Covered, Owes, Unsettled,
       rowVars, emoteVars, workerVars, callerVars, countVars
<1>7. ASSUME NEW w \in Workers, Activate(w) PROVE ScalesKept'
  BY <1>7 DEF Activate, Goto, TypeOK, Uploads, Leases, ScalesKept, Covered, Owes,
       Unsettled, rowVars, emoteVars, workerVars, callerVars, countVars
<1>8. ASSUME NEW w \in Workers, Clean(w) PROVE ScalesKept'
  BY <1>8 DEF Clean, Goto, TypeOK, Uploads, Leases, ScalesKept, Covered, Owes, Unsettled,
       rowVars, emoteVars, workerVars, callerVars, countVars
<1>9. ASSUME NEW w \in Workers, RetryJob(w) PROVE ScalesKept'
  BY <1>9 DEF RetryJob, Outcome, Rest, Goto, TypeOK, Uploads, Leases, ScalesKept,
       Covered, Owes, Unsettled, rowVars, emoteVars, workerVars, callerVars, countVars
<1>10. ASSUME NEW w \in Workers, GiveUp(w) PROVE ScalesKept'
  BY <1>10 DEF GiveUp, Goto, TypeOK, Uploads, Leases, ScalesKept, Covered, Owes,
       Unsettled, rowVars, emoteVars, workerVars, callerVars, countVars
<1>11. ASSUME NEW w \in Workers, FinishJob(w) PROVE ScalesKept'
  <2> DEFINE j == job[w]
  <2>1. /\ j \in Jobs /\ state[j] = "running" /\ objects' = objects
        /\ wpc' = [wpc EXCEPT ![w] = "idle"]
        /\ job' = [job EXCEPT ![w] = None]
        /\ written' = [written EXCEPT ![w] = {}]
        /\ \A v \in Workers : job[v] = j => v = w
    BY <1>11 DEF FinishJob, Outcome, Rest, Goto, TypeOK, Leases, emoteVars
  <2>2. CASE wpc[w] = "giveup"
    <3>1. state' = [state EXCEPT ![j] = "failed"]
      BY <1>11, <2>2 DEF FinishJob, Outcome
    <3>2. \A s : Covered(s) => Covered(s)'
      BY <2>1, <2>2, <3>1 DEF Covered, Owes, Unsettled, TypeOK
    <3>3. QED
      BY <2>1, <3>1, <3>2 DEF ScalesKept, TypeOK
  <2>3. CASE wpc[w] = "finish"
    <3>1. state' = [state EXCEPT ![j] = "done"]
      BY <1>11, <2>3 DEF FinishJob, Outcome
    <3>2. written[w] = ScalesOf[j]
      BY <2>3 DEF Uploads
    <3>3. \A s : Covered(s) => Covered(s)'
      BY <2>1, <2>3, <3>1, <3>2 DEF Covered, Owes, Unsettled, TypeOK
    <3>4. \A s \in ScalesOf[j] : Covered(s)
      BY <2>3, <3>2 DEF ScalesKept
    <3>5. QED
      BY <2>1, <3>1, <3>3, <3>4 DEF ScalesKept, TypeOK
  <2>4. QED
    BY <1>11, <2>2, <2>3 DEF FinishJob
<1>12. ASSUME NEW w \in Workers, OutcomeLost(w) PROVE ScalesKept'
  BY <1>12 DEF OutcomeLost, Rest, Goto, TypeOK, Uploads, Leases, ScalesKept, Covered,
       Owes, Unsettled, rowVars, emoteVars, workerVars, callerVars, countVars
<1>13. ASSUME NEW j \in Jobs, LapseAbandoned(j) PROVE ScalesKept'
  BY <1>13 DEF LapseAbandoned, Lapse, Held, TypeOK, Uploads, Leases, ScalesKept, Covered,
       Owes, Unsettled, rowVars, emoteVars, workerVars, callerVars, countVars
<1>14. ASSUME NEW j \in Jobs, Overrun(j) PROVE ScalesKept'
  BY <1>14 DEF Overrun, Lapse, Held, TypeOK, Uploads, Leases, ScalesKept, Covered, Owes,
       Unsettled, rowVars, emoteVars, workerVars, callerVars, countVars
<1>15. ASSUME Crash PROVE ScalesKept'
  BY <1>15 DEF Crash, TypeOK, Uploads, Leases, ScalesKept, Covered, Owes, Unsettled,
       rowVars, emoteVars, workerVars, callerVars, countVars
<1>16. CASE UNCHANGED vars
  BY <1>16 DEF TypeOK, Uploads, Leases, ScalesKept, Covered, Owes, Unsettled, rowVars,
       emoteVars, workerVars, callerVars, countVars, vars
<1>17. QED
  BY <1>1, <1>2, <1>3, <1>4, <1>5, <1>6, <1>7, <1>8, <1>9, <1>10, <1>11, <1>12, <1>13,
       <1>14, <1>15, <1>16
     DEF Next, Caller, Worker

LEMMA StatusStep ==
  overruns = 0 /\ TypeOK /\ Leases /\ StatusKept /\ [Next]_vars =>
    (overruns' = 0 => StatusKept')
<1> SUFFICES ASSUME overruns = 0, TypeOK, Leases, StatusKept, [Next]_vars, overruns' = 0
             PROVE  StatusKept'
  OBVIOUS
<1> USE RenderJobsAssumption DEF Open
<1>1. ASSUME NEW c \in Callers, NEW j \in Jobs, Request(c, j) PROVE StatusKept'
  BY <1>1 DEF Request, Ask, TypeOK, Leases, StatusKept, StatusOwes, Unsettled, rowVars,
       emoteVars, workerVars, callerVars, countVars
<1>2. ASSUME NEW c \in Callers, JobExists(c) PROVE StatusKept'
  BY <1>2 DEF JobExists, Ask, TypeOK, Leases, StatusKept, StatusOwes, Unsettled, rowVars,
       emoteVars, workerVars, callerVars, countVars
<1>3. ASSUME NEW c \in Callers, InsertOrRequeueJob(c) PROVE StatusKept'
  BY <1>3 DEF InsertOrRequeueJob, Ask, TypeOK, Leases, StatusKept, StatusOwes, Unsettled,
       rowVars, emoteVars, workerVars, callerVars, countVars
<1>4. ASSUME NEW w \in Workers, NEW j \in Jobs, ClaimJob(w, j) PROVE StatusKept'
  BY <1>4 DEF ClaimJob, Claimable, Goto, TypeOK, Leases, StatusKept, StatusOwes,
       Unsettled, rowVars, emoteVars, workerVars, callerVars, countVars
<1>5. ASSUME NEW w \in Workers, Render(w) PROVE StatusKept'
  BY <1>5 DEF Render, Goto, TypeOK, Leases, StatusKept, StatusOwes, Unsettled, rowVars,
       emoteVars, workerVars, callerVars, countVars
<1>6. ASSUME NEW w \in Workers, Put(w) PROVE StatusKept'
  BY <1>6 DEF Put, Goto, TypeOK, Leases, StatusKept, StatusOwes, Unsettled, rowVars,
       emoteVars, workerVars, callerVars, countVars
<1>7. ASSUME NEW w \in Workers, Activate(w) PROVE StatusKept'
  BY <1>7 DEF Activate, Goto, TypeOK, Leases, StatusKept, StatusOwes, Unsettled, rowVars,
       emoteVars, workerVars, callerVars, countVars
<1>8. ASSUME NEW w \in Workers, Clean(w) PROVE StatusKept'
  BY <1>8 DEF Clean, Goto, TypeOK, Leases, StatusKept, StatusOwes, Unsettled, rowVars,
       emoteVars, workerVars, callerVars, countVars
<1>9. ASSUME NEW w \in Workers, RetryJob(w) PROVE StatusKept'
  BY <1>9 DEF RetryJob, Outcome, Rest, Goto, TypeOK, Leases, StatusKept, StatusOwes,
       Unsettled, rowVars, emoteVars, workerVars, callerVars, countVars
<1>10. ASSUME NEW w \in Workers, GiveUp(w) PROVE StatusKept'
  BY <1>10 DEF GiveUp, Goto, TypeOK, Leases, StatusKept, StatusOwes, Unsettled, rowVars,
       emoteVars, workerVars, callerVars, countVars
<1>11. ASSUME NEW w \in Workers, FinishJob(w) PROVE StatusKept'
  BY <1>11 DEF FinishJob, Outcome, Rest, Goto, TypeOK, Leases, StatusKept, StatusOwes,
       Unsettled, rowVars, emoteVars, workerVars, callerVars, countVars
<1>12. ASSUME NEW w \in Workers, OutcomeLost(w) PROVE StatusKept'
  BY <1>12 DEF OutcomeLost, Rest, Goto, TypeOK, Leases, StatusKept, StatusOwes,
       Unsettled, rowVars, emoteVars, workerVars, callerVars, countVars
<1>13. ASSUME NEW j \in Jobs, LapseAbandoned(j) PROVE StatusKept'
  BY <1>13 DEF LapseAbandoned, Lapse, Held, TypeOK, Leases, StatusKept, StatusOwes,
       Unsettled, rowVars, emoteVars, workerVars, callerVars, countVars
<1>14. ASSUME NEW j \in Jobs, Overrun(j) PROVE StatusKept'
  BY <1>14 DEF Overrun, Lapse, Held, TypeOK, Leases, StatusKept, StatusOwes, Unsettled,
       rowVars, emoteVars, workerVars, callerVars, countVars
<1>15. ASSUME Crash PROVE StatusKept'
  BY <1>15 DEF Crash, TypeOK, Leases, StatusKept, StatusOwes, Unsettled, rowVars,
       emoteVars, workerVars, callerVars, countVars
<1>16. CASE UNCHANGED vars
  BY <1>16 DEF TypeOK, Leases, StatusKept, StatusOwes, Unsettled, rowVars, emoteVars,
       workerVars, callerVars, countVars, vars
<1>17. QED
  BY <1>1, <1>2, <1>3, <1>4, <1>5, <1>6, <1>7, <1>8, <1>9, <1>10, <1>11, <1>12, <1>13,
       <1>14, <1>15, <1>16
     DEF Next, Caller, Worker


LEMMA OverrunsGrow == TypeOK /\ [Next]_vars => (overruns' = 0 => overruns = 0)
<1> SUFFICES ASSUME TypeOK, [Next]_vars, overruns' = 0, overruns # 0 PROVE FALSE
  OBVIOUS
<1>1. overruns \in Nat
  BY RenderJobsAssumption DEF TypeOK
<1>2. ASSUME NEW j \in Jobs, Overrun(j) PROVE overruns' = overruns + 1
  BY <1>2 DEF Overrun
<1>3. UNCHANGED overruns \/ \E j \in Jobs : Overrun(j)
  BY DEF Next, Caller, Worker, Request, Ask, JobExists, InsertOrRequeueJob, ClaimJob,
       Render, Put, Activate, Clean, RetryJob, GiveUp, FinishJob, Outcome, OutcomeLost,
       LapseAbandoned, Crash, vars, countVars
<1>4. QED
  BY <1>1, <1>2, <1>3

LEMMA InvInit == Init => Uploads /\ Leases /\ ScalesKept /\ StatusKept
  BY RenderJobsAssumption
     DEF Init, Uploads, Leases, ScalesKept, StatusKept

\* Claims are exclusive, and what done jobs have uploaded is there or owed by another
\* job, until a claim runs out under its worker.
THEOREM Inductive == Spec => []IInv
<1>1. Init => IInv
  BY TypeInit, InvInit DEF IInv
<1>2. IInv /\ [Next]_vars => IInv'
  <2> SUFFICES ASSUME IInv, [Next]_vars PROVE IInv'
    OBVIOUS
  <2>1. TypeOK' /\ Uploads'
    BY TypeStep, UploadsStep DEF IInv
  <2>2. ASSUME overruns' = 0 PROVE Leases' /\ ScalesKept' /\ StatusKept'
    <3>1. overruns = 0
      BY <2>2, OverrunsGrow DEF IInv
    <3>2. QED
      BY <2>2, <3>1, LeasesStep, ScalesStep, StatusStep DEF IInv
  <2>3. QED
    BY <2>1, <2>2 DEF IInv
<1>3. QED
  BY <1>1, <1>2, PTL DEF Spec

\* Two workers have one job only after a claim has run out under its worker.
THEOREM LeasesExclude == Spec => []OneHolder
<1>1. IInv => OneHolder
  BY DEF IInv, Leases, OneHolder
<1>2. QED
  BY <1>1, Inductive, PTL

\* As long as no claim has run out under its worker, done jobs have their scales and a
\* ready emote, or another job of the emote is open or has failed.
THEOREM DoneStaysRendered == Spec => []DoneIsRendered
<1>1. IInv => DoneIsRendered
  <2> SUFFICES ASSUME IInv, overruns = 0, NEW j \in Jobs, state[j] = "done",
                      ~\E k \in Jobs : Unsettled(k)
               PROVE  ScalesOf[j] \subseteq objects /\ status = "ready"
    BY DEF DoneIsRendered, Unsettled
  <2>1. \A s \in ScalesOf[j] : Covered(s)
    BY DEF IInv, ScalesKept
  <2>2. \A s \in ScalesOf[j] : s \in objects
    BY <2>1 DEF Covered, Owes
  <2>3. status = "ready"
    BY DEF IInv, StatusKept, StatusOwes
  <2>4. QED
    BY <2>2, <2>3
<1>2. QED
  BY <1>1, Inductive, PTL

-----------------------------------------------------------------------------
(* How often a job is claimed.                                             *)

Holders(j) == {w \in Workers : job[w] = j}

\* Those of them that hand the job back if they fail.
Able(j) == {w \in Holders(j) : tries[w] < maxAttempts}

One(p) == IF p THEN 1 ELSE 0

Guarded(j) == state[j] = "running" /\ j \notin late

Free(j) == state[j] \in {"queued", "retry"} \/ j \in late

\* Every claim that runs out makes room for one more holder, ...
Holding(j) == Cardinality(Holders(j)) + One(~Guarded(j)) <= lapsed[j] + 1

\* ... and every holder that may hand the job back for one more claim.
Claims(j) == attempts[j] + Cardinality(Able(j)) + One(Free(j)) <= maxAttempts + 1 + lapsed[j]

Counted == \A j \in Jobs : Holding(j) /\ Claims(j) /\ (j \in late => state[j] = "running")

LEMMA Cards ==
  ASSUME NEW j
  PROVE  /\ IsFiniteSet(Holders(j))
         /\ IsFiniteSet(Able(j))
         /\ Cardinality(Holders(j)) \in Nat
         /\ Cardinality(Able(j)) \in Nat
         /\ Cardinality(Able(j)) <= Cardinality(Holders(j))
<1>1. IsFiniteSet(Holders(j))
  BY RenderJobsAssumption, FS_Subset DEF Holders
<1>2. Able(j) \in SUBSET Holders(j)
  BY DEF Able
<1>3. IsFiniteSet(Able(j)) /\ Cardinality(Able(j)) <= Cardinality(Holders(j))
  BY <1>1, <1>2, FS_Subset
<1>4. QED
  BY <1>1, <1>3, FS_CardinalityType

\* Nothing is claimed or given back.
LEMMA SameHolders ==
  ASSUME UNCHANGED <<job, tries>>, NEW j
  PROVE  Holders(j)' = Holders(j) /\ Able(j)' = Able(j)
  BY DEF Holders, Able

LEMMA ClaimHolders ==
  ASSUME TypeOK, NEW w \in Workers, NEW j \in Jobs, ClaimJob(w, j)
  PROVE  /\ Cardinality(Holders(j)') = Cardinality(Holders(j)) + 1
         /\ Cardinality(Able(j)') = Cardinality(Able(j)) + One(attempts[j] < maxAttempts)
         /\ \A k \in Jobs \ {j} : Holders(k)' = Holders(k) /\ Able(k)' = Able(k)
<1>1. /\ job[w] = None
      /\ job' = [job EXCEPT ![w] = j]
      /\ tries' = [tries EXCEPT ![w] = attempts[j]]
      /\ job \in [Workers -> Jobs \cup {None}]
      /\ tries \in [Workers -> Nat]
      /\ j # None
  BY RenderJobsAssumption DEF TypeOK, ClaimJob
<1>2. Holders(j)' = Holders(j) \cup {w} /\ w \notin Holders(j) /\ w \notin Able(j)
  BY <1>1 DEF Holders, Able
<1>3. Able(j)' = IF attempts[j] < maxAttempts THEN Able(j) \cup {w} ELSE Able(j)
  BY <1>1 DEF Holders, Able
<1>4. \A k \in Jobs \ {j} : Holders(k)' = Holders(k) /\ Able(k)' = Able(k)
  BY <1>1, RenderJobsAssumption DEF Holders, Able
<1>5. Cardinality(Holders(j) \cup {w}) = Cardinality(Holders(j)) + 1
  BY <1>2, Cards, FS_AddElement
<1>6. Cardinality(Able(j) \cup {w}) = Cardinality(Able(j)) + 1
  BY <1>2, Cards, FS_AddElement
<1>7. Cardinality(Able(j)) \in Nat
  BY Cards
<1>8. QED
  BY <1>2, <1>3, <1>4, <1>5, <1>6, <1>7 DEF One

LEMMA RestHolders ==
  ASSUME TypeOK, NEW w \in Workers, NEW j \in Jobs, job[w] = j, Rest(w)
  PROVE  /\ Cardinality(Holders(j)') = Cardinality(Holders(j)) - 1
         /\ Cardinality(Able(j)') = Cardinality(Able(j)) - One(tries[w] < maxAttempts)
         /\ \A k \in Jobs \ {j} : Holders(k)' = Holders(k) /\ Able(k)' = Able(k)
<1>1. /\ job' = [job EXCEPT ![w] = None]
      /\ tries' = [tries EXCEPT ![w] = 0]
      /\ job \in [Workers -> Jobs \cup {None}]
      /\ tries \in [Workers -> Nat]
      /\ None \notin Jobs
  BY RenderJobsAssumption DEF TypeOK, Rest
<1>2. Holders(j)' = Holders(j) \ {w} /\ w \in Holders(j)
  BY <1>1 DEF Holders
<1>3. Able(j)' = Able(j) \ {w}
  BY <1>1 DEF Holders, Able
<1>4. w \in Able(j) <=> tries[w] < maxAttempts
  BY <1>2 DEF Able
<1>5. \A k \in Jobs \ {j} : Holders(k)' = Holders(k) /\ Able(k)' = Able(k)
  BY <1>1 DEF Holders, Able
<1>6. Cardinality(Holders(j) \ {w}) = Cardinality(Holders(j)) - 1
  BY <1>2, Cards, FS_RemoveElement
<1>7. Cardinality(Able(j) \ {w})
        = IF w \in Able(j) THEN Cardinality(Able(j)) - 1 ELSE Cardinality(Able(j))
  BY Cards, FS_RemoveElement
<1>8. Cardinality(Able(j)) \in Nat
  BY Cards
<1>9. QED
  BY <1>2, <1>3, <1>4, <1>5, <1>6, <1>7, <1>8 DEF One

LEMMA CountedStep == TypeOK /\ Counted /\ [Next]_vars => Counted'
<1> SUFFICES ASSUME TypeOK, Counted, [Next]_vars, NEW k \in Jobs
             PROVE  (Holding(k) /\ Claims(k) /\ (k \in late => state[k] = "running"))'
  BY DEF Counted
<1> DEFINE H == Cardinality(Holders(k))
           A == Cardinality(Able(k))
           Goal == (Holding(k) /\ Claims(k) /\ (k \in late => state[k] = "running"))'
<1>a. /\ H \in Nat /\ A \in Nat /\ A <= H
      /\ attempts[k] \in Nat /\ lapsed[k] \in Nat /\ maxAttempts \in Nat
  BY Cards, RenderJobsAssumption DEF TypeOK
<1>b. Holding(k) /\ Claims(k) /\ (k \in late => state[k] = "running")
  BY DEF Counted
\* Neither the workers' jobs nor the row of this job change.
<1>c. ASSUME UNCHANGED <<job, tries>>, state'[k] = state[k], attempts'[k] = attempts[k],
             lapsed'[k] = lapsed[k], k \in late' <=> k \in late
      PROVE  Goal
  BY <1>a, <1>b, <1>c, SameHolders DEF Holding, Claims, Guarded, Free, One
<1>1. ASSUME NEW c \in Callers, NEW j \in Jobs, Request(c, j) PROVE Goal
  BY <1>1, <1>c DEF Request, Ask, rowVars, emoteVars, workerVars, callerVars, countVars
<1>2. ASSUME NEW c \in Callers, JobExists(c) PROVE Goal
  BY <1>2, <1>c DEF JobExists, Ask, rowVars, emoteVars, workerVars, callerVars, countVars
<1>3. ASSUME NEW c \in Callers, InsertOrRequeueJob(c) PROVE Goal
  <2>1. Holders(k)' = Holders(k) /\ Able(k)' = Able(k) /\ lapsed' = lapsed
    BY <1>3, SameHolders DEF InsertOrRequeueJob, Ask, workerVars
  <2>2. CASE asked[c] # k
    BY <2>2, <1>3, <1>c DEF InsertOrRequeueJob, Ask, TypeOK, workerVars
  <2>3. CASE asked[c] = k /\ state[k] \in Open
    <3>1. state' = state /\ attempts' = attempts /\ late' = late \ {k}
      BY <2>3, <1>3 DEF InsertOrRequeueJob
    <3>2. QED
      BY <2>1, <3>1, <1>a, <1>b DEF Holding, Claims, Guarded, Free, One
  <2>4. CASE asked[c] = k /\ state[k] \notin Open
    <3>1. state'[k] = "queued" /\ attempts'[k] = 0 /\ late' = late \ {k}
      BY <2>4, <1>3 DEF InsertOrRequeueJob, TypeOK
    <3>2. H <= lapsed[k]
      BY <2>4, <1>a, <1>b DEF Holding, Guarded, Open, One
    <3>3. QED
      BY <2>1, <3>1, <3>2, <1>a DEF Holding, Claims, Guarded, Free, One
  <2>5. QED
    BY <2>2, <2>3, <2>4
<1>4. ASSUME NEW w \in Workers, NEW j \in Jobs, ClaimJob(w, j) PROVE Goal
  <2>1. state' = [state EXCEPT ![j] = "running"] /\ late' = late \ {j} /\ lapsed' = lapsed
        /\ attempts' = [attempts EXCEPT ![j] = @ + 1] /\ Claimable(j)
    BY <1>4 DEF ClaimJob, countVars
  <2>2. CASE k # j
    <3>1. Holders(k)' = Holders(k) /\ Able(k)' = Able(k)
      BY <1>4, <2>2, ClaimHolders
    <3>2. state'[k] = state[k] /\ attempts'[k] = attempts[k] /\ (k \in late' <=> k \in late)
      BY <2>1, <2>2 DEF TypeOK
    <3>3. QED
      BY <3>1, <3>2, <2>1, <1>a, <1>b DEF Holding, Claims, Guarded, Free, One
  <2>3. CASE k = j
    <3>1. Cardinality(Holders(k)') = H + 1
      BY <1>4, <2>3, ClaimHolders
    <3>2. Cardinality(Able(k)') = A + One(attempts[k] < maxAttempts)
      BY <1>4, <2>3, ClaimHolders
    <3>3. state'[k] = "running" /\ attempts'[k] = attempts[k] + 1 /\ k \notin late'
      BY <2>1, <2>3 DEF TypeOK
    <3>4. Free(k) /\ ~Guarded(k)
      BY <2>1, <2>3 DEF Claimable, Free, Guarded
    <3>5. H <= lapsed[k] /\ attempts[k] + A <= maxAttempts + lapsed[k]
      BY <3>4, <1>a, <1>b DEF Holding, Claims, One
    <3>6. ~Free(k)' /\ Guarded(k)'
      BY <3>3 DEF Free, Guarded
    <3>7. Holding(k)'
      BY <3>1, <3>5, <3>6, <2>1, <1>a DEF Holding, One
    <3>8. CASE attempts[k] < maxAttempts
      <4>1. Cardinality(Able(k)') = A + 1
        BY <3>2, <3>8 DEF One
      <4>2. QED
        BY <4>1, <3>8, <3>3, <3>5, <3>6, <3>7, <2>1, <1>a DEF Claims, One
    <3>9. CASE ~(attempts[k] < maxAttempts)
      <4>1. Cardinality(Able(k)') = A
        BY <3>2, <3>9, <1>a DEF One
      <4>2. QED
        BY <4>1, <3>3, <3>5, <3>6, <3>7, <2>1, <1>a DEF Claims, One
    <3>10. QED
      BY <3>8, <3>9
  <2>4. QED
    BY <2>2, <2>3
<1>5. ASSUME NEW w \in Workers, Render(w) PROVE Goal
  BY <1>5, <1>c DEF Render, Goto, rowVars, emoteVars, workerVars, callerVars, countVars
<1>6. ASSUME NEW w \in Workers, Put(w) PROVE Goal
  BY <1>6, <1>c DEF Put, Goto, rowVars, emoteVars, workerVars, callerVars, countVars
<1>7. ASSUME NEW w \in Workers, Activate(w) PROVE Goal
  BY <1>7, <1>c DEF Activate, Goto, rowVars, emoteVars, workerVars, callerVars, countVars
<1>8. ASSUME NEW w \in Workers, Clean(w) PROVE Goal
  BY <1>8, <1>c DEF Clean, Goto, rowVars, emoteVars, workerVars, callerVars, countVars
<1>9. ASSUME NEW w \in Workers, RetryJob(w) PROVE Goal
  <2> DEFINE j == job[w]
  <2>1. /\ j \in Jobs /\ Rest(w) /\ attempts' = attempts /\ lapsed' = lapsed
        /\ state'[j] = "retry" /\ tries[w] < maxAttempts
        /\ late' = late \ {j}
        /\ \A i \in Jobs \ {j} : state'[i] = state[i]
    BY <1>9, RenderJobsAssumption DEF RetryJob, Outcome, Goto, TypeOK, rowVars,
         emoteVars, workerVars, callerVars, countVars
  <2>2. CASE k # j
    <3>1. Holders(k)' = Holders(k) /\ Able(k)' = Able(k)
      BY <2>1, <2>2, RestHolders
    <3>2. QED
      BY <3>1, <2>1, <2>2, <1>a, <1>b DEF Holding, Claims, Guarded, Free, One
  <2>3. CASE k = j
    <3>1. Cardinality(Holders(k)') = H - 1
      BY <2>1, <2>3, RestHolders
    <3>2. Cardinality(Able(k)') = A - One(tries[w] < maxAttempts)
      BY <2>1, <2>3, RestHolders
    <3>3. QED
      BY <3>1, <3>2, <2>1, <2>3, <1>a, <1>b DEF Holding, Claims, Guarded, Free, One
  <2>4. QED
    BY <2>2, <2>3
<1>10. ASSUME NEW w \in Workers, GiveUp(w) PROVE Goal
  BY <1>10, <1>c DEF GiveUp, Goto, rowVars, emoteVars, workerVars, callerVars, countVars
<1>11. ASSUME NEW w \in Workers, FinishJob(w) PROVE Goal
  <2> DEFINE j == job[w]
  <2>1. /\ j \in Jobs /\ Rest(w) /\ attempts' = attempts /\ lapsed' = lapsed
        /\ state'[j] \in {"done", "failed"}
        /\ late' = late \ {j}
        /\ \A i \in Jobs \ {j} : state'[i] = state[i]
    BY <1>11, RenderJobsAssumption DEF FinishJob, Outcome, Goto, TypeOK, rowVars,
         emoteVars, workerVars, callerVars, countVars
  <2>2. CASE k # j
    <3>1. Holders(k)' = Holders(k) /\ Able(k)' = Able(k)
      BY <2>1, <2>2, RestHolders
    <3>2. QED
      BY <3>1, <2>1, <2>2, <1>a, <1>b DEF Holding, Claims, Guarded, Free, One
  <2>3. CASE k = j
    <3>1. Cardinality(Holders(k)') = H - 1
      BY <2>1, <2>3, RestHolders
    <3>2. Cardinality(Able(k)') = A - One(tries[w] < maxAttempts)
      BY <2>1, <2>3, RestHolders
    <3>3. QED
      BY <3>1, <3>2, <2>1, <2>3, <1>a, <1>b DEF Holding, Claims, Guarded, Free, One
  <2>4. QED
    BY <2>2, <2>3
<1>12. ASSUME NEW w \in Workers, OutcomeLost(w) PROVE Goal
  <2> DEFINE j == job[w]
  <2>1. /\ j \in Jobs /\ Rest(w) /\ attempts' = attempts /\ lapsed' = lapsed
        /\ state'[j] = state[j]
        /\ (k \in late' <=> k \in late)
        /\ \A i \in Jobs \ {j} : state'[i] = state[i]
    BY <1>12, RenderJobsAssumption DEF OutcomeLost, Goto, TypeOK, rowVars, emoteVars,
         workerVars, callerVars, countVars
  <2>2. CASE k # j
    <3>1. Holders(k)' = Holders(k) /\ Able(k)' = Able(k)
      BY <2>1, <2>2, RestHolders
    <3>2. QED
      BY <3>1, <2>1, <2>2, <1>a, <1>b DEF Holding, Claims, Guarded, Free, One
  <2>3. CASE k = j
    <3>1. Cardinality(Holders(k)') = H - 1
      BY <2>1, <2>3, RestHolders
    <3>2. Cardinality(Able(k)') = A - One(tries[w] < maxAttempts)
      BY <2>1, <2>3, RestHolders
    <3>3. QED
      BY <3>1, <3>2, <2>1, <2>3, <1>a, <1>b DEF Holding, Claims, Guarded, Free, One
  <2>4. QED
    BY <2>2, <2>3
<1>13. ASSUME NEW j \in Jobs, LapseAbandoned(j) PROVE Goal
  <2>1. UNCHANGED <<job, tries, state, attempts>> /\ state[j] = "running" /\ j \notin late
        /\ late' = late \cup {j} /\ lapsed' = [lapsed EXCEPT ![j] = @ + 1]
    BY <1>13 DEF LapseAbandoned, Lapse, Held, workerVars
  <2>2. CASE k # j
    BY <2>1, <2>2, <1>c DEF TypeOK
  <2>3. CASE k = j
    <3>1. lapsed'[k] = lapsed[k] + 1
      BY <2>1, <2>3 DEF TypeOK
    <3>2. QED
      BY <2>1, <2>3, <3>1, <1>a, <1>b, SameHolders DEF Holding, Claims, Guarded, Free, One
  <2>4. QED
    BY <2>2, <2>3
<1>14. ASSUME NEW j \in Jobs, Overrun(j) PROVE Goal
  <2>1. UNCHANGED <<job, tries, state, attempts>> /\ state[j] = "running" /\ j \notin late
        /\ late' = late \cup {j} /\ lapsed' = [lapsed EXCEPT ![j] = @ + 1]
    BY <1>14 DEF Overrun, Lapse, Held, workerVars
  <2>2. CASE k # j
    BY <2>1, <2>2, <1>c DEF TypeOK
  <2>3. CASE k = j
    <3>1. lapsed'[k] = lapsed[k] + 1
      BY <2>1, <2>3 DEF TypeOK
    <3>2. QED
      BY <2>1, <2>3, <3>1, <1>a, <1>b, SameHolders DEF Holding, Claims, Guarded, Free, One
  <2>4. QED
    BY <2>2, <2>3
<1>15. ASSUME Crash PROVE Goal
  <2>1. Holders(k)' = {} /\ Able(k)' = {}
    BY <1>15, RenderJobsAssumption DEF Crash, Holders, Able
  <2>2. Cardinality(Holders(k)') = 0 /\ Cardinality(Able(k)') = 0
    BY <2>1, FS_EmptySet
  <2>3. UNCHANGED <<state, attempts, late, lapsed>>
    BY <1>15 DEF Crash, rowVars
  <2>4. QED
    BY <2>2, <2>3, <1>a, <1>b DEF Holding, Claims, Guarded, Free, One
<1>16. CASE UNCHANGED vars
  BY <1>16, <1>c DEF vars, rowVars, emoteVars, workerVars, callerVars, countVars
<1>17. QED
  BY <1>1, <1>2, <1>3, <1>4, <1>5, <1>6, <1>7, <1>8, <1>9, <1>10, <1>11, <1>12, <1>13,
       <1>14, <1>15, <1>16
     DEF Next, Caller, Worker

LEMMA CountedInit == Init => Counted
<1> SUFFICES ASSUME Init, NEW k \in Jobs
             PROVE  Holding(k) /\ Claims(k) /\ (k \in late => state[k] = "running")
  BY DEF Counted
<1>1. Holders(k) = {} /\ Able(k) = {}
  BY RenderJobsAssumption DEF Init, Holders, Able
<1>2. Cardinality(Holders(k)) = 0 /\ Cardinality(Able(k)) = 0
  BY <1>1, FS_EmptySet
<1>3. QED
  BY <1>2, RenderJobsAssumption DEF Init, Holding, Claims, Guarded, Free, One

\* A job is tried once and retried maxAttempts times, and once more for every claim of
\* it that has run out.
THEOREM ClaimsBounded == Spec => []AttemptsBounded
<1>1. TypeOK /\ Counted => AttemptsBounded
  <2> SUFFICES ASSUME TypeOK, NEW j \in Jobs, Claims(j)
               PROVE  attempts[j] <= maxAttempts + 1 + lapsed[j]
    BY DEF Counted, AttemptsBounded
  <2>1. /\ Cardinality(Able(j)) \in Nat /\ maxAttempts \in Nat
        /\ attempts[j] \in Nat /\ lapsed[j] \in Nat
    BY Cards, RenderJobsAssumption DEF TypeOK
  <2>2. QED
    BY <2>1 DEF Claims, One
<1>2. QED
  BY <1>1, CountedInit, CountedStep, TypeCorrect, PTL DEF Spec

=============================================================================
