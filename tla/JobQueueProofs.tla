--------------------------- MODULE JobQueueProofs ---------------------------
(***************************************************************************)
(* Proofs about JobQueue, for any number of jobs, calls, attempts and      *)
(* crashes.                                                                *)
(***************************************************************************)
EXTENDS JobQueue, FiniteSetTheorems, TLAPS

-----------------------------------------------------------------------------
(* Types *)

LEMMA IdleType == JobIdle \in JobCall
<1>1. AnyJob \in Jobs
  BY JobConstants DEF AnyJob
<1> QED
  BY <1>1 DEF JobIdle, JobCall, JobPCs, Outcome

LEMMA BecomeType ==
  ASSUME JobTypeOK, NEW c \in JobCalls, NEW k \in JobCall, Become(c, k)
  PROVE  jobCall' \in [JobCalls -> JobCall]
BY DEF JobTypeOK, Become

LEMMA UpdateType ==
  ASSUME JobTypeOK, NEW j \in Jobs, NEW row \in Job, Update(j, row)
  PROVE  job' \in [Jobs -> Job]
BY DEF JobTypeOK, Update

LEMMA FailedType ==
  ASSUME JobTypeOK, NEW j \in Jobs, NEW outcome \in Outcome, Failed(j, outcome)
  PROVE  job' \in [Jobs -> Job]
<1>1. job[j] \in Job
  BY DEF JobTypeOK
<1>2. [job[j] EXCEPT !.status = outcome, !.lock = "none", !.due = IF outcome = "RETRYING" THEN FALSE ELSE @] \in Job
  BY <1>1 DEF Job, JobStatus, Outcome
<1> QED
  BY <1>2, UpdateType DEF Failed

LEMMA OutcomeType == \A attempts, max : nextStatusAfterFailure(attempts, max) \in Outcome
BY DEF nextStatusAfterFailure, Outcome

LEMMA InitType == JobInit => JobTypeOK
<1> SUFFICES ASSUME JobInit PROVE JobTypeOK
  OBVIOUS
<1>1. job \in [Jobs -> Job]
  BY JobConstants DEF JobInit, Job, JobStatus
<1> QED
  BY <1>1, IdleType DEF JobInit, JobTypeOK

(* The rest of what a handler changes: it begins, and an operation by hand *)
(* is counted.                                                             *)
LEMMA StartType ==
  ASSUME JobTypeOK, NEW c \in JobCalls,
         \/ CronTick(c) \/ ManualTick(c) \/ RunNow(c)
         \/ \E j \in Jobs : BeginRetry(c, j) \/ BeginCancelJob(c, j)
  PROVE  JobTypeOK'
<1>0. /\ job \in [Jobs -> Job] /\ tickLock \in BOOLEAN /\ fired \in BOOLEAN
      /\ retried \in [Jobs -> Nat] /\ spent \in [manual: Nat, crashes: Nat]
  BY DEF JobTypeOK
<1>1. Manual => spent' \in [manual: Nat, crashes: Nat]
  BY <1>0 DEF Manual
<1>2. [JobIdle EXCEPT !.pc = "enqueue", !.tick = TRUE, !.todo = Jobs] \in JobCall
  BY IdleType DEF JobCall, JobPCs
<1>3. runDailyTick(c) => job' = job /\ retried' = retried /\ tickLock' = TRUE /\ jobCall' \in [JobCalls -> JobCall]
  BY <1>2, BecomeType DEF runDailyTick
<1>4. CASE CronTick(c)
  BY <1>0, <1>3, <1>4 DEF CronTick, JobTypeOK
<1>5. CASE ManualTick(c)
  BY <1>0, <1>1, <1>3, <1>5 DEF ManualTick, JobTypeOK
<1>6. CASE RunNow(c)
  <2>1. [JobIdle EXCEPT !.pc = "find"] \in JobCall
    BY IdleType DEF JobCall, JobPCs
  <2> QED
    BY <1>0, <1>1, <1>6, <2>1, BecomeType DEF RunNow, JobTypeOK
<1>7. ASSUME NEW j \in Jobs, BeginRetry(c, j) PROVE JobTypeOK'
  <2> DEFINE max == IF job[j].max > job[j].attempts THEN job[j].max ELSE job[j].attempts + 1
  <2>1. max \in Nat
    BY <1>0 DEF Job
  <2>2. [JobIdle EXCEPT !.pc = "retry", !.id = j, !.max = max] \in JobCall
    BY <2>1, IdleType DEF JobCall, JobPCs
  <2> QED
    BY <1>0, <1>1, <1>7, <2>2, BecomeType DEF BeginRetry, JobTypeOK
<1>8. ASSUME NEW j \in Jobs, BeginCancelJob(c, j) PROVE JobTypeOK'
  <2>1. [JobIdle EXCEPT !.pc = "cancel", !.id = j] \in JobCall
    BY IdleType DEF JobCall, JobPCs
  <2> QED
    BY <1>0, <1>1, <1>8, <2>1, BecomeType DEF BeginCancelJob, JobTypeOK
<1> QED
  BY <1>4, <1>5, <1>6, <1>7, <1>8

LEMMA WorkType ==
  ASSUME JobTypeOK, NEW c \in JobCalls, JobWork(c)
  PROVE  JobTypeOK'
<1>0. /\ job \in [Jobs -> Job] /\ tickLock \in BOOLEAN /\ fired \in BOOLEAN
      /\ retried \in [Jobs -> Nat] /\ spent \in [manual: Nat, crashes: Nat]
      /\ jobCall \in [JobCalls -> JobCall] /\ jobCall[c] \in JobCall
  BY DEF JobTypeOK
<1>1. CASE EnqueueDone(c)
  <2>1. [jobCall[c] EXCEPT !.pc = "find"] \in JobCall
    BY <1>0 DEF JobCall, JobPCs
  <2> QED
    BY <1>0, <1>1, <2>1, BecomeType DEF EnqueueDone, JobTypeOK
<1>2. CASE FindStuck(c)
  <2> DEFINE stuck == {<<j, nextStatusAfterFailure(job[j].attempts, job[j].max)>> :
                         j \in {i \in Jobs : job[i].status = "RUNNING" /\ job[i].lock = "expired"}}
  <2>1. stuck \in SUBSET (Jobs \X Outcome)
    BY OutcomeType
  <2>2. [jobCall[c] EXCEPT !.pc = "recover", !.stuck = stuck] \in JobCall
    BY <1>0, <2>1 DEF JobCall, JobPCs
  <2> QED
    BY <1>0, <1>2, <2>2, BecomeType DEF FindStuck, JobTypeOK
<1>3. CASE ListDue(c)
  <2> DEFINE todo == {j \in Jobs : job[j].status \in OpenJob /\ job[j].due}
  <2>1. [jobCall[c] EXCEPT !.pc = "claim", !.todo = todo] \in JobCall
    BY <1>0 DEF JobCall, JobPCs
  <2> QED
    BY <1>0, <1>3, <2>1, BecomeType DEF ListDue, JobTypeOK
<1>4. CASE ReadClaimed(c)
  <2> DEFINE outcome == nextStatusAfterFailure(job[jobCall[c].id].attempts, job[jobCall[c].id].max)
  <2>1. [jobCall[c] EXCEPT !.pc = "handle", !.outcome = outcome] \in JobCall
    BY <1>0, OutcomeType DEF JobCall, JobPCs
  <2> QED
    BY <1>0, <1>4, <2>1, BecomeType DEF ReadClaimed, JobTypeOK
<1>5. CASE Handle(c)
  <2>1. [jobCall[c] EXCEPT !.pc = "claim"] \in JobCall /\ jobCall[c].id \in Jobs /\ jobCall[c].outcome \in Outcome
    BY <1>0 DEF JobCall, JobPCs
  <2>2. [job[jobCall[c].id] EXCEPT !.status = "COMPLETED", !.lock = "none"] \in Job
    BY <1>0, <2>1 DEF Job, JobStatus
  <2>3. job' \in [Jobs -> Job]
    BY <1>5, <2>1, <2>2, UpdateType, FailedType DEF Handle
  <2> QED
    BY <1>0, <1>5, <2>1, <2>3, BecomeType DEF Handle, JobTypeOK
<1>6. ASSUME NEW j \in Jobs, enqueueJob(c, j) PROVE JobTypeOK'
  <2>1. [jobCall[c] EXCEPT !.todo = @ \ {j}] \in JobCall
    BY <1>0 DEF JobCall
  <2>2. [job EXCEPT ![j].status = "PENDING", ![j].due = TRUE] \in [Jobs -> Job]
    BY <1>0 DEF Job, JobStatus
  <2> QED
    BY <1>0, <1>6, <2>1, <2>2, BecomeType DEF enqueueJob, JobTypeOK
<1>7. ASSUME NEW j \in Jobs, claim(c, j) PROVE JobTypeOK'
  <2>1. [jobCall[c] EXCEPT !.pc = "read", !.todo = @ \ {j}, !.id = j, !.worked = TRUE] \in JobCall
    BY <1>0 DEF JobCall, JobPCs
  <2>2. [jobCall[c] EXCEPT !.todo = @ \ {j}] \in JobCall
    BY <1>0 DEF JobCall
  <2>3. [job[j] EXCEPT !.status = "RUNNING", !.lock = "held", !.attempts = @ + 1] \in Job
    <3>1. job[j] \in Job /\ job[j].attempts + 1 \in Nat
      BY <1>0 DEF Job
    <3>2. ASSUME NEW n \in Nat PROVE [job[j] EXCEPT !.status = "RUNNING", !.lock = "held", !.attempts = n] \in Job
      BY <3>1 DEF Job, JobStatus
    <3> QED
      BY <3>1, <3>2
  <2>4. job' \in [Jobs -> Job] /\ jobCall' \in [JobCalls -> JobCall]
    BY <1>0, <1>7, <2>1, <2>2, <2>3, UpdateType, BecomeType DEF claim
  <2> QED
    BY <1>0, <1>7, <2>4 DEF claim, JobTypeOK
<1>8. ASSUME NEW s \in jobCall[c].stuck, recoverStuckJob(c, s) PROVE JobTypeOK'
  <2>1. s[1] \in Jobs /\ s[2] \in Outcome
    BY <1>0 DEF JobCall
  <2>2. [jobCall[c] EXCEPT !.stuck = @ \ {s}] \in JobCall
    BY <1>0 DEF JobCall
  <2>3. job' \in [Jobs -> Job]
    BY <1>0, <1>8, <2>1, FailedType DEF recoverStuckJob
  <2> QED
    BY <1>0, <1>8, <2>2, <2>3, BecomeType DEF recoverStuckJob, JobTypeOK
<1>9. CASE Stop(c)
  BY <1>0, <1>9, IdleType, BecomeType DEF Stop, JobTypeOK
<1>10. CASE retryJob(c)
  <2>1. jobCall[c].id \in Jobs /\ jobCall[c].max \in Nat
    BY <1>0 DEF JobCall
  <2>2. [job[jobCall[c].id] EXCEPT !.status = "PENDING", !.due = TRUE, !.max = jobCall[c].max] \in Job
    BY <1>0, <2>1 DEF Job, JobStatus
  <2> QED
    BY <1>0, <1>10, <2>1, <2>2, UpdateType, IdleType, BecomeType DEF retryJob, JobTypeOK
<1>11. CASE cancelJob(c)
  <2>1. jobCall[c].id \in Jobs
    BY <1>0 DEF JobCall
  <2>2. [job[jobCall[c].id] EXCEPT !.status = "CANCELLED"] \in Job
    BY <1>0, <2>1 DEF Job, JobStatus
  <2> QED
    BY <1>0, <1>11, <2>1, <2>2, UpdateType, IdleType, BecomeType DEF cancelJob, JobTypeOK
<1> QED
  BY <1>1, <1>2, <1>3, <1>4, <1>5, <1>6, <1>7, <1>8, <1>9, <1>10, <1>11 DEF JobWork

LEMMA LaterType ==
  ASSUME JobTypeOK, NEW early, Later(early)
  PROVE  job' \in [Jobs -> Job]
<1>1. job \in [Jobs -> Job]
  BY DEF JobTypeOK
<1>2. ASSUME NEW j \in Jobs
      PROVE  [job[j] EXCEPT !.lock = IF @ = "held" THEN "expired" ELSE @,
                            !.due = @ \/ (j \in early /\ job[j].status = "RETRYING")] \in Job
  BY <1>1 DEF Job
<1> QED
  BY <1>2 DEF Later

LEMMA StepType == JobTypeOK /\ [JobNext]_jobVars => JobTypeOK'
<1> SUFFICES ASSUME JobTypeOK, [JobNext]_jobVars PROVE JobTypeOK'
  OBVIOUS
<1>1. ASSUME NEW c \in JobCalls, KillJobCall(c) PROVE JobTypeOK'
  BY <1>1, IdleType, BecomeType DEF KillJobCall, JobTypeOK
<1>2. CASE CronSkipped
  BY <1>2 DEF CronSkipped, JobTypeOK
<1>3. CASE Minutes
  BY <1>3, LaterType DEF Minutes, JobTypeOK
<1>4. CASE Overnight
  BY <1>4, LaterType DEF Overnight, JobTypeOK
<1>5. CASE UNCHANGED jobVars
  BY <1>5 DEF jobVars, JobTypeOK
<1> QED
  BY <1>1, <1>2, <1>3, <1>4, <1>5, StartType, WorkType DEF JobNext, Cron

(* The rows of the queue, its locks and the locals of every handler keep   *)
(* the types of the schema (jobs.ts, cron.ts), whoever writes them.        *)
THEOREM TypeCorrect == JobSpec => []JobTypeOK
BY InitType, StepType, PTL DEF JobSpec

-----------------------------------------------------------------------------
(* What an action changes, field by field                                  *)

Others(c)  == \A d \in JobCalls \ {c} : jobCall'[d] = jobCall[d]
OnlyJob(j) == \A i \in Jobs \ {j} : job'[i] = job[i]

LEMMA BecomeEffect ==
  ASSUME JobTypeOK, NEW c \in JobCalls, NEW k, Become(c, k)
  PROVE  jobCall'[c] = k /\ Others(c)
BY DEF JobTypeOK, Become, Others

LEMMA UpdateEffect ==
  ASSUME JobTypeOK, NEW j \in Jobs, NEW row, Update(j, row)
  PROVE  job'[j] = row /\ OnlyJob(j)
BY DEF JobTypeOK, Update, OnlyJob

LEMMA FailedEffect ==
  ASSUME JobTypeOK, NEW j \in Jobs, NEW outcome, Failed(j, outcome)
  PROVE  /\ OnlyJob(j)
         /\ job'[j].status = outcome /\ job'[j].lock = "none"
         /\ job'[j].attempts = job[j].attempts /\ job'[j].max = job[j].max
         /\ outcome = "RETRYING" => job'[j].due = FALSE
<1>1. job[j] \in Job
  BY DEF JobTypeOK
<1>2. /\ job'[j] = [job[j] EXCEPT !.status = outcome, !.lock = "none", !.due = IF outcome = "RETRYING" THEN FALSE ELSE @]
      /\ OnlyJob(j)
  BY UpdateEffect, Zenon DEF Failed
<1> QED
  BY <1>1, <1>2 DEF Job

(* A handler begins without a job in its hands, or it ends.                *)
Empty(c) == Others(c) /\ jobCall'[c].pc \in {"idle", "enqueue", "find", "cancel"}

LEMMA BeginEffect ==
  ASSUME JobTypeOK, NEW c \in JobCalls
  PROVE  /\ runDailyTick(c) => Empty(c) /\ jobCall'[c].pc = "enqueue" /\ UNCHANGED <<job, retried>>
         /\ RunNow(c) => Empty(c) /\ jobCall'[c].tick = FALSE /\ UNCHANGED <<job, retried, tickLock>>
         /\ \A j \in Jobs : BeginCancelJob(c, j) =>
              Empty(c) /\ jobCall'[c].tick = FALSE /\ UNCHANGED <<job, retried, tickLock>>
<1>1. ASSUME runDailyTick(c) PROVE jobCall'[c].pc = "enqueue" /\ Others(c) /\ UNCHANGED <<job, retried>>
  <2>1. jobCall'[c] = [JobIdle EXCEPT !.pc = "enqueue", !.tick = TRUE, !.todo = Jobs] /\ Others(c)
    BY <1>1, BecomeEffect, Zenon DEF runDailyTick
  <2>2. UNCHANGED <<job, retried>>
    BY <1>1, Zenon DEF runDailyTick
  <2>3. jobCall'[c].pc = "enqueue"
    BY <2>1 DEF JobIdle
  <2> QED
    BY <2>1, <2>2, <2>3
<1>2. ASSUME RunNow(c)
      PROVE  jobCall'[c].pc = "find" /\ jobCall'[c].tick = FALSE /\ Others(c) /\ UNCHANGED <<job, retried, tickLock>>
  BY <1>2, BecomeEffect DEF RunNow, JobIdle
<1>3. ASSUME NEW j \in Jobs, BeginCancelJob(c, j)
      PROVE  jobCall'[c].pc = "cancel" /\ jobCall'[c].tick = FALSE /\ Others(c) /\ UNCHANGED <<job, retried, tickLock>>
  <2>1. jobCall'[c] = [JobIdle EXCEPT !.pc = "cancel", !.id = j] /\ Others(c)
    BY <1>3, BecomeEffect, Zenon DEF BeginCancelJob
  <2> QED
    BY <1>3, <2>1 DEF BeginCancelJob, JobIdle
<1> QED
  BY <1>1, <1>2, <1>3 DEF Empty

LEMMA EndEffect ==
  ASSUME JobTypeOK, NEW c \in JobCalls, Stop(c) \/ retryJob(c) \/ cancelJob(c) \/ KillJobCall(c)
  PROVE  /\ Empty(c) /\ jobCall'[c].tick = FALSE
         /\ tickLock /\ ~jobCall[c].tick => tickLock'
<1>1. Become(c, JobIdle)
  BY Zenon DEF Stop, retryJob, cancelJob, KillJobCall
<1>2. Stop(c) \/ tickLock' = tickLock
  BY Zenon DEF Stop, retryJob, cancelJob, KillJobCall
<1>3. tickLock /\ ~jobCall[c].tick => tickLock'
  BY <1>2, Zenon DEF Stop
<1> QED
  BY <1>1, <1>3, BecomeEffect DEF Empty, JobIdle

LEMMA BeginRetryEffect ==
  ASSUME JobTypeOK, NEW c \in JobCalls, NEW j \in Jobs, BeginRetry(c, j)
  PROVE  /\ job[j].status = "DEAD_LETTER"
         /\ Others(c) /\ jobCall'[c].pc = "retry" /\ jobCall'[c].id = j /\ jobCall'[c].tick = FALSE
         /\ jobCall'[c].max = IF job[j].max > job[j].attempts THEN job[j].max ELSE job[j].attempts + 1
         /\ UNCHANGED <<job, retried, tickLock>>
<1> DEFINE max == IF job[j].max > job[j].attempts THEN job[j].max ELSE job[j].attempts + 1
<1> HIDE DEF max
<1>1. Become(c, [JobIdle EXCEPT !.pc = "retry", !.id = j, !.max = max])
  BY DEF BeginRetry, max
<1>2. jobCall'[c] = [JobIdle EXCEPT !.pc = "retry", !.id = j, !.max = max] /\ Others(c)
  BY <1>1, BecomeEffect, Zenon
<1>3. jobCall'[c].pc = "retry" /\ jobCall'[c].id = j /\ jobCall'[c].tick = FALSE /\ jobCall'[c].max = max
  BY <1>2 DEF JobIdle
<1> QED
  BY <1>2, <1>3 DEF BeginRetry, canRetry, max

LEMMA EnqueueEffect ==
  ASSUME JobTypeOK, NEW c \in JobCalls, NEW j \in Jobs, enqueueJob(c, j)
  PROVE  /\ Empty(c) /\ jobCall'[c].pc = "enqueue" /\ jobCall'[c].tick = jobCall[c].tick
         /\ OnlyJob(j) /\ UNCHANGED <<retried, tickLock>>
         /\ \/ job'[j] = job[j]
            \/ /\ job[j].status = NoJob /\ job'[j].status = "PENDING" /\ job'[j].lock = job[j].lock
               /\ job'[j].attempts = job[j].attempts /\ job'[j].max = job[j].max
<1>1. jobCall[c] \in JobCall /\ job \in [Jobs -> Job] /\ job[j] \in Job
  BY DEF JobTypeOK
<1>2. jobCall'[c] = [jobCall[c] EXCEPT !.todo = @ \ {j}] /\ Others(c)
  BY BecomeEffect, Zenon DEF enqueueJob
<1>3. jobCall[c].pc = "enqueue" /\ UNCHANGED <<retried, tickLock>>
  BY Zenon DEF enqueueJob, JobAt
<1>4. jobCall'[c].pc = "enqueue" /\ jobCall'[c].tick = jobCall[c].tick
  BY <1>1, <1>2, <1>3 DEF JobCall
<1>5. CASE job[j].status = NoJob
  <2>1. job' = [job EXCEPT ![j].status = "PENDING", ![j].due = TRUE]
    BY <1>5, Zenon DEF enqueueJob
  <2> QED
    BY <1>1, <1>2, <1>3, <1>4, <1>5, <2>1 DEF OnlyJob, Job, Empty
<1>6. CASE job[j].status # NoJob
  <2>1. job' = job
    BY <1>6, Zenon DEF enqueueJob
  <2> QED
    BY <1>2, <1>3, <1>4, <2>1 DEF OnlyJob, Empty
<1> QED
  BY <1>5, <1>6

LEMMA EnqueueDoneEffect ==
  ASSUME JobTypeOK, NEW c \in JobCalls, EnqueueDone(c)
  PROVE  /\ Empty(c) /\ jobCall'[c].pc = "find" /\ jobCall'[c].tick = jobCall[c].tick
         /\ UNCHANGED <<job, retried, tickLock>>
<1>1. jobCall[c] \in JobCall
  BY DEF JobTypeOK
<1>2. jobCall'[c] = [jobCall[c] EXCEPT !.pc = "find"] /\ Others(c) /\ UNCHANGED <<job, retried, tickLock>>
  BY BecomeEffect, Zenon DEF EnqueueDone
<1> QED
  BY <1>1, <1>2 DEF JobCall, Empty

LEMMA FindEffect ==
  ASSUME JobTypeOK, NEW c \in JobCalls, FindStuck(c)
  PROVE  /\ Others(c) /\ jobCall'[c].pc = "recover" /\ jobCall'[c].tick = jobCall[c].tick
         /\ UNCHANGED <<job, retried, tickLock>>
         /\ \A j \in Jobs, o \in Outcome : <<j, o>> \in jobCall'[c].stuck =>
              /\ job[j].status = "RUNNING" /\ job[j].lock = "expired"
              /\ o = nextStatusAfterFailure(job[j].attempts, job[j].max)
<1> DEFINE stuck == {<<j, nextStatusAfterFailure(job[j].attempts, job[j].max)>> :
                       j \in {i \in Jobs : job[i].status = "RUNNING" /\ job[i].lock = "expired"}}
<1>1. jobCall[c] \in JobCall
  BY DEF JobTypeOK
<1>2. /\ jobCall'[c] = [jobCall[c] EXCEPT !.pc = "recover", !.stuck = stuck]
      /\ Others(c) /\ UNCHANGED <<job, retried, tickLock>>
  BY BecomeEffect, Zenon DEF FindStuck
<1>3. ASSUME NEW j \in Jobs, NEW o \in Outcome, <<j, o>> \in stuck
      PROVE  /\ job[j].status = "RUNNING" /\ job[j].lock = "expired"
             /\ o = nextStatusAfterFailure(job[j].attempts, job[j].max)
  BY <1>3
<1> HIDE DEF stuck
<1>4. jobCall'[c].pc = "recover" /\ jobCall'[c].tick = jobCall[c].tick /\ jobCall'[c].stuck = stuck
  BY <1>1, <1>2 DEF JobCall
<1> QED
  BY <1>2, <1>3, <1>4

LEMMA RecoverEffect ==
  ASSUME JobTypeOK, NEW c \in JobCalls, NEW s \in jobCall[c].stuck, recoverStuckJob(c, s)
  PROVE  /\ s[1] \in Jobs /\ s[2] \in Outcome
         /\ JobAt(c, "recover") /\ <<s[1], s[2]>> \in jobCall[c].stuck
         /\ Others(c) /\ jobCall'[c].pc = "recover" /\ jobCall'[c].tick = jobCall[c].tick
         /\ jobCall'[c].stuck \subseteq jobCall[c].stuck
         /\ OnlyJob(s[1]) /\ UNCHANGED <<retried, tickLock>>
         /\ \/ job[s[1]].status = "RUNNING" /\ Failed(s[1], s[2])
            \/ job' = job
<1>1. jobCall[c] \in JobCall
  BY DEF JobTypeOK
<1>2. s \in Jobs \X Outcome
  BY <1>1 DEF JobCall
<1>3. jobCall'[c] = [jobCall[c] EXCEPT !.stuck = @ \ {s}] /\ Others(c) /\ UNCHANGED <<retried, tickLock>>
  BY BecomeEffect, Zenon DEF recoverStuckJob
<1>4. JobAt(c, "recover") /\ ((job[s[1]].status = "RUNNING" /\ Failed(s[1], s[2])) \/ job' = job)
  BY Zenon DEF recoverStuckJob
<1>5. OnlyJob(s[1])
  BY <1>2, <1>4, FailedEffect DEF OnlyJob
<1>6. s[1] \in Jobs /\ s[2] \in Outcome /\ <<s[1], s[2]>> = s
  BY <1>2
<1>7. /\ jobCall'[c].pc = "recover" /\ jobCall'[c].tick = jobCall[c].tick
      /\ jobCall'[c].stuck \subseteq jobCall[c].stuck
  BY <1>1, <1>3, <1>4 DEF JobCall, JobAt
<1> QED
  BY <1>3, <1>4, <1>5, <1>6, <1>7

LEMMA ListEffect ==
  ASSUME JobTypeOK, NEW c \in JobCalls, ListDue(c)
  PROVE  /\ Others(c) /\ jobCall'[c].pc = "claim" /\ jobCall'[c].tick = jobCall[c].tick
         /\ \A j \in jobCall'[c].todo : job[j].status \in OpenJob /\ job[j].due
         /\ UNCHANGED <<job, retried, tickLock>>
<1> DEFINE todo == {j \in Jobs : job[j].status \in OpenJob /\ job[j].due}
<1>1. jobCall[c] \in JobCall
  BY DEF JobTypeOK
<1>2. /\ jobCall'[c] = [jobCall[c] EXCEPT !.pc = "claim", !.todo = todo]
      /\ Others(c) /\ UNCHANGED <<job, retried, tickLock>>
  BY BecomeEffect, Zenon DEF ListDue
<1>3. \A j \in todo : job[j].status \in OpenJob /\ job[j].due
  OBVIOUS
<1> HIDE DEF todo
<1>4. jobCall'[c].pc = "claim" /\ jobCall'[c].tick = jobCall[c].tick /\ jobCall'[c].todo = todo
  BY <1>1, <1>2 DEF JobCall
<1> QED
  BY <1>2, <1>3, <1>4

LEMMA ClaimEffect ==
  ASSUME JobTypeOK, NEW c \in JobCalls, NEW j \in Jobs, claim(c, j)
  PROVE  /\ JobAt(c, "claim") /\ j \in jobCall[c].todo
         /\ Others(c) /\ OnlyJob(j) /\ UNCHANGED <<retried, tickLock>>
         /\ jobCall'[c].tick = jobCall[c].tick /\ jobCall'[c].todo \subseteq jobCall[c].todo
         /\ \/ /\ job[j].status \in OpenJob
               /\ jobCall'[c].pc = "read" /\ jobCall'[c].id = j /\ j \notin jobCall'[c].todo
               /\ job'[j].status = "RUNNING" /\ job'[j].lock = "held"
               /\ job'[j].attempts = job[j].attempts + 1 /\ job'[j].max = job[j].max
            \/ job' = job /\ jobCall'[c].pc = "claim"
<1>1. jobCall[c] \in JobCall /\ job[j] \in Job
  BY DEF JobTypeOK
<1>2. JobAt(c, "claim") /\ j \in jobCall[c].todo /\ UNCHANGED <<retried, tickLock>>
  BY Zenon DEF claim
<1>3. CASE job[j].status \in OpenJob
  <2>1. /\ job'[j] = [job[j] EXCEPT !.status = "RUNNING", !.lock = "held", !.attempts = @ + 1]
        /\ OnlyJob(j)
    BY <1>3, UpdateEffect, Zenon DEF claim, Claimable
  <2>2. /\ jobCall'[c] = [jobCall[c] EXCEPT !.pc = "read", !.todo = @ \ {j}, !.id = j, !.worked = TRUE]
        /\ Others(c)
    BY <1>3, BecomeEffect, Zenon DEF claim, Claimable
  <2>3. /\ job'[j].status = "RUNNING" /\ job'[j].lock = "held"
        /\ job'[j].attempts = job[j].attempts + 1 /\ job'[j].max = job[j].max
    BY <1>1, <2>1 DEF Job
  <2>4. /\ jobCall'[c].pc = "read" /\ jobCall'[c].id = j /\ jobCall'[c].tick = jobCall[c].tick
        /\ j \notin jobCall'[c].todo /\ jobCall'[c].todo \subseteq jobCall[c].todo
    BY <1>1, <2>2 DEF JobCall
  <2> QED
    BY <1>2, <1>3, <2>1, <2>2, <2>3, <2>4
<1>4. CASE job[j].status \notin OpenJob
  <2>1. jobCall'[c] = [jobCall[c] EXCEPT !.todo = @ \ {j}] /\ Others(c) /\ job' = job
    BY <1>4, BecomeEffect, Zenon DEF claim, Claimable
  <2>2. /\ jobCall'[c].pc = "claim" /\ jobCall'[c].tick = jobCall[c].tick
        /\ jobCall'[c].todo \subseteq jobCall[c].todo
    BY <1>1, <1>2, <2>1 DEF JobCall, JobAt
  <2> QED
    BY <1>2, <2>1, <2>2 DEF OnlyJob
<1> QED
  BY <1>3, <1>4

LEMMA ReadEffect ==
  ASSUME JobTypeOK, NEW c \in JobCalls, ReadClaimed(c)
  PROVE  /\ jobCall[c].id \in Jobs /\ JobAt(c, "read") /\ UNCHANGED <<job, retried, tickLock>>
         /\ Others(c) /\ jobCall'[c].pc = "handle" /\ jobCall'[c].id = jobCall[c].id
         /\ jobCall'[c].tick = jobCall[c].tick /\ jobCall'[c].todo = jobCall[c].todo
         /\ jobCall'[c].outcome = nextStatusAfterFailure(job[jobCall[c].id].attempts, job[jobCall[c].id].max)
<1> DEFINE outcome == nextStatusAfterFailure(job[jobCall[c].id].attempts, job[jobCall[c].id].max)
<1>1. jobCall[c] \in JobCall
  BY DEF JobTypeOK
<1>2. /\ JobAt(c, "read") /\ UNCHANGED <<job, retried, tickLock>>
      /\ jobCall'[c] = [jobCall[c] EXCEPT !.pc = "handle", !.outcome = outcome] /\ Others(c)
  BY BecomeEffect, Zenon DEF ReadClaimed
<1> HIDE DEF outcome
<1>3. /\ jobCall'[c].pc = "handle" /\ jobCall'[c].id = jobCall[c].id /\ jobCall[c].id \in Jobs
      /\ jobCall'[c].tick = jobCall[c].tick /\ jobCall'[c].todo = jobCall[c].todo /\ jobCall'[c].outcome = outcome
  BY <1>1, <1>2 DEF JobCall
<1> QED
  BY <1>2, <1>3 DEF outcome

LEMMA HandleEffect ==
  ASSUME JobTypeOK, NEW c \in JobCalls, Handle(c)
  PROVE  /\ jobCall[c].id \in Jobs /\ JobAt(c, "handle") /\ UNCHANGED <<retried, tickLock>>
         /\ Others(c) /\ jobCall'[c].pc = "claim" /\ jobCall'[c].tick = jobCall[c].tick
         /\ jobCall'[c].todo = jobCall[c].todo
         /\ OnlyJob(jobCall[c].id)
         /\ job'[jobCall[c].id].status \in {"COMPLETED", jobCall[c].outcome} /\ jobCall[c].outcome \in Outcome
         /\ job'[jobCall[c].id].lock = "none" /\ (job'[jobCall[c].id].status = "RETRYING" => ~job'[jobCall[c].id].due)
         /\ job'[jobCall[c].id].attempts = job[jobCall[c].id].attempts
         /\ job'[jobCall[c].id].max = job[jobCall[c].id].max
<1> DEFINE j == jobCall[c].id
<1>1. jobCall[c] \in JobCall /\ j \in Jobs /\ job[j] \in Job /\ jobCall[c].outcome \in Outcome
  BY DEF JobTypeOK, JobCall
<1>2. /\ JobAt(c, "handle") /\ UNCHANGED <<retried, tickLock>>
      /\ jobCall'[c] = [jobCall[c] EXCEPT !.pc = "claim"] /\ Others(c)
  BY BecomeEffect, Zenon DEF Handle
<1>3. jobCall'[c].pc = "claim" /\ jobCall'[c].tick = jobCall[c].tick /\ jobCall'[c].todo = jobCall[c].todo
  BY <1>1, <1>2 DEF JobCall
<1>4. /\ OnlyJob(j) /\ job'[j].status \in {"COMPLETED", jobCall[c].outcome} /\ job'[j].lock = "none"
      /\ job'[j].attempts = job[j].attempts /\ job'[j].max = job[j].max
      /\ job'[j].status = "RETRYING" => ~job'[j].due
  <2>1. CASE Update(j, [job[j] EXCEPT !.status = "COMPLETED", !.lock = "none"])
    <3>1. job'[j] = [job[j] EXCEPT !.status = "COMPLETED", !.lock = "none"] /\ OnlyJob(j)
      BY <1>1, <2>1, UpdateEffect, Zenon
    <3> QED
      BY <1>1, <3>1 DEF Job
  <2>2. CASE Failed(j, jobCall[c].outcome)
    BY <1>1, <2>2, FailedEffect
  <2> QED
    BY <2>1, <2>2, Zenon DEF Handle
<1> QED
  BY <1>1, <1>2, <1>3, <1>4

LEMMA RetryEffect ==
  ASSUME JobTypeOK, NEW c \in JobCalls, retryJob(c)
  PROVE  /\ jobCall[c].id \in Jobs /\ JobAt(c, "retry")
         /\ OnlyJob(jobCall[c].id)
         /\ job'[jobCall[c].id].status = "PENDING" /\ job'[jobCall[c].id].lock = job[jobCall[c].id].lock
         /\ job'[jobCall[c].id].attempts = job[jobCall[c].id].attempts
         /\ job'[jobCall[c].id].max = jobCall[c].max
         /\ retried'[jobCall[c].id] = retried[jobCall[c].id] + 1
         /\ \A i \in Jobs \ {jobCall[c].id} : retried'[i] = retried[i]
<1> DEFINE j == jobCall[c].id
<1>1. jobCall[c] \in JobCall /\ j \in Jobs /\ job[j] \in Job /\ retried \in [Jobs -> Nat]
  BY DEF JobTypeOK, JobCall
<1>2. /\ JobAt(c, "retry") /\ retried' = [retried EXCEPT ![j] = @ + 1]
      /\ job'[j] = [job[j] EXCEPT !.status = "PENDING", !.due = TRUE, !.max = jobCall[c].max] /\ OnlyJob(j)
  BY <1>1, UpdateEffect, Zenon DEF retryJob
<1>3. job'[j].status = "PENDING" /\ job'[j].lock = job[j].lock /\ job'[j].attempts = job[j].attempts /\ job'[j].max = jobCall[c].max
  BY <1>1, <1>2 DEF Job
<1> QED
  BY <1>1, <1>2, <1>3

LEMMA CancelEffect ==
  ASSUME JobTypeOK, NEW c \in JobCalls, cancelJob(c)
  PROVE  /\ jobCall[c].id \in Jobs /\ OnlyJob(jobCall[c].id) /\ retried' = retried
         /\ job'[jobCall[c].id].status = "CANCELLED" /\ job'[jobCall[c].id].lock = job[jobCall[c].id].lock
         /\ job'[jobCall[c].id].attempts = job[jobCall[c].id].attempts
         /\ job'[jobCall[c].id].max = job[jobCall[c].id].max
<1> DEFINE j == jobCall[c].id
<1>1. jobCall[c] \in JobCall /\ j \in Jobs /\ job[j] \in Job
  BY DEF JobTypeOK, JobCall
<1>2. retried' = retried /\ job'[j] = [job[j] EXCEPT !.status = "CANCELLED"] /\ OnlyJob(j)
  BY <1>1, UpdateEffect, Zenon DEF cancelJob
<1> QED
  BY <1>1, <1>2 DEF Job

LEMMA TimeEffect ==
  ASSUME JobTypeOK, Minutes \/ Overnight
  PROVE  /\ \A c \in JobCalls : jobCall[c].pc = "idle" /\ jobCall'[c].pc = "idle"
         /\ retried' = retried
         /\ \A j \in Jobs : /\ job'[j].status = job[j].status
                            /\ job'[j].attempts = job[j].attempts /\ job'[j].max = job[j].max
<1>1. UNCHANGED <<retried, jobCall>> /\ Asleep
  BY Zenon DEF Minutes, Overnight
<1>2. PICK early \in SUBSET Jobs : Later(early)
  BY DEF Minutes, Overnight
<1>3. ASSUME NEW j \in Jobs
      PROVE  /\ job'[j].status = job[j].status
             /\ job'[j].attempts = job[j].attempts /\ job'[j].max = job[j].max
  BY <1>2 DEF JobTypeOK, Job, Later
<1> QED
  BY <1>1, <1>3 DEF Asleep, JobAt

-----------------------------------------------------------------------------
(* A set without two members has at most one.                              *)

LEMMA AtMostOne ==
  ASSUME NEW S, \A x, y \in S : x = y
  PROVE  Cardinality(S) <= 1
<1>1. CASE S = {}
  BY <1>1, FS_EmptySet
<1>2. CASE S # {}
  <2>1. PICK x : x \in S
    BY <1>2
  <2>2. S = {x}
    BY <2>1
  <2> QED
    BY <2>2, FS_Singleton
<1> QED
  BY <1>1, <1>2

-----------------------------------------------------------------------------
(* Two ticks never overlap.  Whoever ticks holds the lock, which is only   *)
(* given up by a tick that ends, or at night, when nobody is at work.      *)

TickInv ==
  /\ JobTypeOK
  /\ \A c \in JobCalls : jobCall[c].tick => tickLock /\ ~JobAt(c, "idle")
  /\ \A c, d \in JobCalls : jobCall[c].tick /\ jobCall[d].tick => c = d

(* A handler goes on under the lock it has or has not.                     *)
LEMMA KeepsTick ==
  ASSUME TickInv, JobTypeOK', NEW c \in JobCalls, Others(c),
         jobCall'[c].tick = jobCall[c].tick, jobCall'[c].pc # "idle", tickLock' = tickLock
  PROVE  TickInv'
BY DEF TickInv, JobAt, Others

(* A handler without the lock begins, or any handler ends.                 *)
LEMMA LeavesTick ==
  ASSUME TickInv, JobTypeOK', NEW c \in JobCalls, Others(c),
         jobCall'[c].tick = FALSE, tickLock /\ ~jobCall[c].tick => tickLock'
  PROVE  TickInv'
BY DEF TickInv, JobAt, Others

LEMMA TickStep == TickInv /\ [JobNext]_jobVars => TickInv'
<1> SUFFICES ASSUME TickInv, [JobNext]_jobVars PROVE TickInv'
  OBVIOUS
<1>0. JobTypeOK /\ JobTypeOK'
  BY StepType DEF TickInv
<1>1. ASSUME NEW c \in JobCalls, runDailyTick(c) PROVE TickInv'
  <2>1. \A d \in JobCalls : ~jobCall[d].tick
    BY <1>1 DEF runDailyTick, TickInv
  <2>2. jobCall'[c].pc = "enqueue" /\ Others(c) /\ tickLock'
    BY <1>0, <1>1, BeginEffect DEF runDailyTick, Empty
  <2> QED
    BY <1>0, <2>1, <2>2 DEF TickInv, JobAt, Others
<1>2. ASSUME NEW c \in JobCalls, RunNow(c) \/ \E j \in Jobs : BeginRetry(c, j) \/ BeginCancelJob(c, j) PROVE TickInv'
  <2>1. Others(c) /\ jobCall'[c].tick = FALSE /\ tickLock' = tickLock
    BY <1>0, <1>2, BeginEffect, BeginRetryEffect DEF Empty
  <2> QED
    BY <1>0, <2>1, LeavesTick
<1>3. ASSUME NEW c \in JobCalls, Stop(c) \/ retryJob(c) \/ cancelJob(c) \/ KillJobCall(c) PROVE TickInv'
  BY <1>0, <1>3, EndEffect, LeavesTick DEF Empty
<1>4. ASSUME NEW c \in JobCalls,
             \/ EnqueueDone(c) \/ FindStuck(c) \/ ListDue(c) \/ ReadClaimed(c) \/ Handle(c)
             \/ \E j \in Jobs : enqueueJob(c, j) \/ claim(c, j)
             \/ \E s \in jobCall[c].stuck : recoverStuckJob(c, s)
      PROVE  TickInv'
  <2>1. Others(c) /\ jobCall'[c].tick = jobCall[c].tick /\ jobCall'[c].pc # "idle" /\ tickLock' = tickLock
    <3>1. CASE EnqueueDone(c) \/ FindStuck(c) \/ ListDue(c)
      BY <1>0, <3>1, EnqueueDoneEffect, FindEffect, ListEffect DEF Empty
    <3>2. CASE ReadClaimed(c) \/ Handle(c)
      BY <1>0, <3>2, ReadEffect, HandleEffect
    <3>3. ASSUME NEW j \in Jobs, enqueueJob(c, j) \/ claim(c, j)
          PROVE  Others(c) /\ jobCall'[c].tick = jobCall[c].tick /\ jobCall'[c].pc # "idle" /\ tickLock' = tickLock
      BY <1>0, <3>3, EnqueueEffect, ClaimEffect DEF Empty
    <3>4. ASSUME NEW s \in jobCall[c].stuck, recoverStuckJob(c, s)
          PROVE  Others(c) /\ jobCall'[c].tick = jobCall[c].tick /\ jobCall'[c].pc # "idle" /\ tickLock' = tickLock
      BY <1>0, <3>4, RecoverEffect
    <3> QED
      BY <1>4, <3>1, <3>2, <3>3, <3>4
  <2> QED
    BY <1>0, <2>1, KeepsTick
<1>5. CASE CronSkipped \/ Minutes \/ UNCHANGED jobVars
  BY <1>0, <1>5 DEF CronSkipped, Minutes, jobVars, TickInv, JobAt
<1>6. CASE Overnight
  BY <1>0, <1>6 DEF Overnight, Asleep, TickInv, JobAt
<1> QED
  BY <1>1, <1>2, <1>3, <1>4, <1>5, <1>6 DEF JobNext, JobWork, ManualTick, Cron, CronTick

(* admin/system/cron/route.ts:37-38: two daily ticks never overlap, also   *)
(* when one was killed and left its lock behind.                           *)
THEOREM TicksAlone == JobSpec => []TickAlone
<1>1. JobInit => TickInv
  BY InitType DEF JobInit, JobIdle, TickInv
<1>2. TickInv => TickAlone
  BY AtMostOne DEF TickInv, TickAlone
<1> QED
  BY <1>1, <1>2, TickStep, PTL DEF JobSpec
-----------------------------------------------------------------------------
(* One worker at a time, and every attempt counted.  The claim looks at    *)
(* the status, the recovery at the status and at what it read before, and  *)
(* the end of a run at nothing: what keeps them apart is that a job a call *)
(* means to recover is attended by nobody, and nobody can claim it until  *)
(* every call has ended.                                                   *)

Works(c, j)       == (JobAt(c, "read") \/ JobAt(c, "handle")) /\ jobCall[c].id = j
Chosen(c, j)      == (JobAt(c, "claim") \/ JobAt(c, "read") \/ JobAt(c, "handle")) /\ j \in jobCall[c].todo
Recovers(c, j, o) == JobAt(c, "recover") /\ <<j, o>> \in jobCall[c].stuck
Retries(c, j)     == JobAt(c, "retry") /\ jobCall[c].id = j

Unattended(j) == \A c \in JobCalls : ~Works(c, j)
Unlisted(j)   == \A c \in JobCalls : ~Chosen(c, j)

(* Whoever claimed a job is done with it, or dead, before its lock expires. *)
LocksRun(j) == job[j].lock = "expired" => Unattended(j) /\ (job[j].status = "RUNNING" => Unlisted(j))

Alone(j) ==
  /\ \A c, d \in JobCalls : Works(c, j) /\ Works(d, j) => c = d
  /\ \A c \in JobCalls : Works(c, j) => job[j].status \in {"RUNNING", "CANCELLED"} \/ (job[j].status = "DEAD_LETTER" /\ retried[j] = 1)

(* Nobody has the job or can get it before all calls have ended.           *)
Parked(j) ==
  /\ Unattended(j) /\ Unlisted(j)
  /\ \/ job[j].status = "RUNNING" /\ job[j].lock = "expired"
     \/ job[j].status = "RETRYING" /\ ~job[j].due
     \/ job[j].status \in {"DEAD_LETTER", "CANCELLED"}

StuckParked(j) ==
  \A c \in JobCalls :
    /\ Recovers(c, j, "RETRYING") =>
         Parked(j) /\ (retried[j] = 0 => job[j].status # "DEAD_LETTER") /\ job[j].attempts < job[j].max
    /\ Recovers(c, j, "DEAD_LETTER") /\ retried[j] = 0 => Parked(j) /\ job[j].attempts >= job[j].max

RetryReady(j) ==
  \A c \in JobCalls : Retries(c, j) =>
    /\ Unattended(j) /\ job[j].status \in {"DEAD_LETTER", "CANCELLED"}
    /\ job[j].attempts = job[j].max /\ jobCall[c].max = job[j].attempts + 1

Counted(j) ==
  /\ job[j].attempts <= job[j].max
  /\ job[j].status = "DEAD_LETTER" => job[j].attempts = job[j].max
  /\ job[j].status \in OpenJob \cup {NoJob} => job[j].attempts < job[j].max
  /\ retried[j] = 1 => job[j].max <= job[j].attempts + 1 /\ (job[j].status = "RUNNING" => job[j].attempts = job[j].max)
  /\ \A c \in JobCalls : JobAt(c, "handle") /\ jobCall[c].id = j =>
       jobCall[c].outcome = nextStatusAfterFailure(job[j].attempts, job[j].max)

JobInv(j) ==
  /\ LocksRun(j)
  /\ retried[j] < 2 => Alone(j) /\ StuckParked(j) /\ Counted(j)
  /\ retried[j] = 0 => RetryReady(j)

QueueInv == JobTypeOK /\ \A j \in Jobs : JobInv(j)

(* No call takes anything up on the job: what it has in hand of it         *)
(* afterwards it had before.                                               *)
Fewer(j) ==
  \A c \in JobCalls :
    /\ Works(c, j)' => Works(c, j)
    /\ Chosen(c, j)' => Chosen(c, j)
    /\ \A o \in Outcome : Recovers(c, j, o)' => Recovers(c, j, o)
    /\ Retries(c, j)' => Retries(c, j) /\ jobCall'[c].max = jobCall[c].max
    /\ (JobAt(c, "handle") /\ jobCall[c].id = j)' =>
         JobAt(c, "handle") /\ jobCall[c].id = j /\ jobCall'[c].outcome = jobCall[c].outcome

Kept(j) == Fewer(j) /\ job'[j] = job[j] /\ retried'[j] = retried[j]

LEMMA KeepsJob ==
  ASSUME NEW j \in Jobs, JobInv(j), Kept(j)
  PROVE  JobInv(j)'
<1>1. /\ Unattended(j) => Unattended(j)'
      /\ Unlisted(j) => Unlisted(j)'
      /\ Parked(j) => Parked(j)'
  BY DEF Kept, Fewer, Unattended, Unlisted, Parked
<1>2. LocksRun(j)'
  BY <1>1 DEF JobInv, LocksRun, Kept
<1>3. Alone(j) => Alone(j)'
  BY DEF Kept, Fewer, Alone
<1>4. StuckParked(j) => StuckParked(j)'
  BY <1>1 DEF Kept, Fewer, StuckParked, Outcome
<1>5. Counted(j) => Counted(j)'
  BY DEF Kept, Fewer, Counted
<1>6. RetryReady(j) => RetryReady(j)'
  BY <1>1 DEF Kept, Fewer, RetryReady
<1> QED
  BY <1>2, <1>3, <1>4, <1>5, <1>6 DEF JobInv, Kept

(* A call with nothing in hand, and calls that do not move, take nothing up. *)
LEMMA EmptyFewer ==
  ASSUME NEW c \in JobCalls, Empty(c), NEW j \in Jobs
  PROVE  Fewer(j)
BY DEF Empty, Others, Fewer, Works, Chosen, Recovers, Retries, JobAt

(* A step of the call writes at most job j: every other job is kept, if    *)
(* the call takes nothing up on it.                                        *)
LEMMA OtherJobs ==
  ASSUME QueueInv, NEW j \in Jobs, OnlyJob(j),
         \A i \in Jobs \ {j} : Fewer(i) /\ retried'[i] = retried[i],
         JobInv(j)'
  PROVE  \A i \in Jobs : JobInv(i)'
BY KeepsJob DEF QueueInv, Kept, OnlyJob

LEMMA EnqueueKeeps ==
  ASSUME QueueInv, NEW c \in JobCalls, NEW j \in Jobs, enqueueJob(c, j)
  PROVE  \A i \in Jobs : JobInv(i)'
<1>1. /\ Empty(c) /\ OnlyJob(j) /\ retried' = retried
      /\ \/ job'[j] = job[j]
         \/ /\ job[j].status = NoJob /\ job'[j].status = "PENDING" /\ job'[j].lock = job[j].lock
            /\ job'[j].attempts = job[j].attempts /\ job'[j].max = job[j].max
  BY EnqueueEffect DEF QueueInv
<1>2. \A i \in Jobs : Fewer(i)
  BY <1>1, EmptyFewer
<1>3. JobInv(j)
  BY DEF QueueInv
<1>4. JobInv(j)'
  <2>1. CASE job'[j] = job[j]
    BY <1>1, <1>2, <1>3, <2>1, KeepsJob DEF Kept
  <2>2. CASE /\ job[j].status = NoJob /\ job'[j].status = "PENDING" /\ job'[j].lock = job[j].lock
             /\ job'[j].attempts = job[j].attempts /\ job'[j].max = job[j].max
    <3>1. Unattended(j) => Unattended(j)'
      BY <1>2 DEF Fewer, Unattended
    <3>2. LocksRun(j)'
      BY <1>3, <2>2, <3>1 DEF JobInv, LocksRun
    <3>3. Alone(j) => Alone(j)'
      BY <1>2, <2>2 DEF Fewer, Alone, NoJob
    <3>4. StuckParked(j) /\ retried[j] < 2 => StuckParked(j)'
      BY <1>1, <1>2, <2>2 DEF Fewer, StuckParked, Parked, NoJob, Outcome
    <3>5. Counted(j) => Counted(j)'
      BY <1>1, <1>2, <2>2 DEF Fewer, Counted, NoJob
    <3>6. RetryReady(j) => RetryReady(j)'
      BY <1>2, <2>2 DEF Fewer, RetryReady, NoJob
    <3> QED
      BY <1>1, <1>3, <3>2, <3>3, <3>4, <3>5, <3>6 DEF JobInv
  <2> QED
    BY <1>1, <2>1, <2>2
<1> QED
  BY <1>1, <1>2, <1>4, OtherJobs

LEMMA FindKeeps ==
  ASSUME QueueInv, NEW c \in JobCalls, FindStuck(c)
  PROVE  \A i \in Jobs : JobInv(i)'
<1> SUFFICES ASSUME NEW j \in Jobs PROVE JobInv(j)'
  OBVIOUS
<1>0. JobTypeOK /\ JobInv(j)
  BY DEF QueueInv
<1>1. Others(c) /\ jobCall'[c].pc = "recover" /\ job' = job /\ retried' = retried
  BY <1>0, FindEffect
<1>2. \A o \in Outcome : <<j, o>> \in jobCall'[c].stuck =>
        /\ job[j].status = "RUNNING" /\ job[j].lock = "expired"
        /\ o = nextStatusAfterFailure(job[j].attempts, job[j].max)
  BY <1>0, FindEffect
<1>3. /\ Unattended(j) => Unattended(j)'
      /\ Unlisted(j) => Unlisted(j)'
      /\ Parked(j) => Parked(j)'
  BY <1>1 DEF Others, Unattended, Unlisted, Parked, Works, Chosen, JobAt
<1>4. LocksRun(j)'
  BY <1>0, <1>1, <1>3 DEF JobInv, LocksRun
<1>5. Alone(j) => Alone(j)'
  BY <1>1 DEF Others, Alone, Works, JobAt
<1>6. RetryReady(j) => RetryReady(j)'
  BY <1>1, <1>3 DEF Others, RetryReady, Retries, JobAt
<1>7. Counted(j) => Counted(j)'
  BY <1>1 DEF Others, Counted, JobAt
<1>8. StuckParked(j) => StuckParked(j)'
  <2> SUFFICES ASSUME StuckParked(j), NEW d \in JobCalls
               PROVE  /\ Recovers(d, j, "RETRYING")' =>
                           /\ Parked(j)' /\ (retried[j] = 0 => job[j].status # "DEAD_LETTER")
                           /\ job[j].attempts < job[j].max
                      /\ Recovers(d, j, "DEAD_LETTER")' /\ retried[j] = 0 =>
                           Parked(j)' /\ job[j].attempts >= job[j].max
    BY <1>1 DEF StuckParked
  <2>1. CASE d = c
    <3>1. job[j].attempts \in Nat /\ job[j].max \in Nat
      BY <1>0 DEF JobTypeOK, Job
    <3>2. job[j].status = "RUNNING" /\ job[j].lock = "expired" => Parked(j)'
      BY <1>0, <1>3 DEF JobInv, LocksRun, Parked
    <3> QED
      BY <1>2, <2>1, <3>1, <3>2 DEF Recovers, Outcome, nextStatusAfterFailure
  <2>2. CASE d # c
    BY <1>1, <1>3, <2>2 DEF StuckParked, Recovers, Others, JobAt
  <2> QED
    BY <2>1, <2>2
<1> QED
  BY <1>0, <1>1, <1>4, <1>5, <1>6, <1>7, <1>8 DEF JobInv

LEMMA ListKeeps ==
  ASSUME QueueInv, NEW c \in JobCalls, ListDue(c)
  PROVE  \A i \in Jobs : JobInv(i)'
<1> SUFFICES ASSUME NEW j \in Jobs PROVE JobInv(j)'
  OBVIOUS
<1>0. JobTypeOK /\ JobInv(j)
  BY DEF QueueInv
<1>1. /\ Others(c) /\ jobCall'[c].pc = "claim" /\ job' = job /\ retried' = retried
      /\ j \in jobCall'[c].todo => job[j].status \in OpenJob /\ job[j].due
  BY <1>0, ListEffect
<1>2. /\ Unattended(j) => Unattended(j)'
      /\ Unlisted(j) /\ ~(job[j].status \in OpenJob /\ job[j].due) => Unlisted(j)'
      /\ Parked(j) => Parked(j)'
  BY <1>1 DEF Others, Unattended, Unlisted, Parked, Works, Chosen, JobAt, OpenJob
<1>3. LocksRun(j)'
  BY <1>0, <1>1, <1>2 DEF JobInv, LocksRun, OpenJob
<1>4. Alone(j) => Alone(j)'
  BY <1>1 DEF Others, Alone, Works, JobAt
<1>5. RetryReady(j) => RetryReady(j)'
  BY <1>1, <1>2 DEF Others, RetryReady, Retries, JobAt
<1>6. Counted(j) => Counted(j)'
  BY <1>1 DEF Others, Counted, JobAt
<1>7. StuckParked(j) => StuckParked(j)'
  BY <1>1, <1>2 DEF Others, StuckParked, Recovers, JobAt
<1> QED
  BY <1>0, <1>1, <1>3, <1>4, <1>5, <1>6, <1>7 DEF JobInv

LEMMA ClaimKeeps ==
  ASSUME QueueInv, NEW c \in JobCalls, NEW j \in Jobs, claim(c, j)
  PROVE  \A i \in Jobs : JobInv(i)'
<1>0. JobTypeOK /\ JobInv(j)
  BY DEF QueueInv
<1>1. /\ JobAt(c, "claim") /\ j \in jobCall[c].todo
      /\ Others(c) /\ OnlyJob(j) /\ retried' = retried
      /\ jobCall'[c].todo \subseteq jobCall[c].todo
      /\ \/ /\ job[j].status \in OpenJob
            /\ jobCall'[c].pc = "read" /\ jobCall'[c].id = j
            /\ job'[j].status = "RUNNING" /\ job'[j].lock = "held"
            /\ job'[j].attempts = job[j].attempts + 1 /\ job'[j].max = job[j].max
         \/ job' = job /\ jobCall'[c].pc = "claim"
  BY <1>0, ClaimEffect
<1>2. \A i \in Jobs \ {j} : Fewer(i)
  BY <1>1 DEF Others, Fewer, Works, Chosen, Recovers, Retries, JobAt
<1>3. JobInv(j)'
  <2>1. CASE job' = job /\ jobCall'[c].pc = "claim"
    <3>1. Fewer(j)
      BY <1>1, <2>1 DEF Others, Fewer, Works, Chosen, Recovers, Retries, JobAt
    <3> QED
      BY <1>0, <1>1, <2>1, <3>1, KeepsJob DEF Kept
  <2>2. CASE /\ job[j].status \in OpenJob
             /\ jobCall'[c].pc = "read" /\ jobCall'[c].id = j
             /\ job'[j].status = "RUNNING" /\ job'[j].lock = "held"
             /\ job'[j].attempts = job[j].attempts + 1 /\ job'[j].max = job[j].max
    <3>1. job[j].attempts \in Nat /\ job[j].max \in Nat /\ retried[j] \in Nat
      BY <1>0 DEF JobTypeOK, Job
    <3>2. Alone(j) => Unattended(j)
      BY <2>2 DEF Alone, Unattended, OpenJob
    <3>3. ~Unlisted(j)
      BY <1>1 DEF Unlisted, Chosen
    <3>4. LocksRun(j)'
      BY <2>2 DEF LocksRun
    <3>5. Unattended(j) => Alone(j)'
      BY <1>1, <2>2 DEF Others, Unattended, Alone, Works, JobAt
    <3>6. StuckParked(j) /\ retried[j] < 2 => StuckParked(j)'
      BY <1>1, <2>2, <3>3 DEF Others, StuckParked, Recovers, Parked, JobAt
    <3>7. RetryReady(j) => RetryReady(j)'
      BY <1>1, <2>2 DEF Others, RetryReady, Retries, JobAt, OpenJob
    <3>8. Counted(j) /\ Unattended(j) => Counted(j)'
      BY <1>1, <2>2, <3>1 DEF Others, Counted, Unattended, Works, JobAt, OpenJob, NoJob
    <3> QED
      BY <1>0, <1>1, <3>2, <3>4, <3>5, <3>6, <3>7, <3>8 DEF JobInv
  <2> QED
    BY <1>1, <2>1, <2>2
<1> QED
  BY <1>1, <1>2, <1>3, OtherJobs

LEMMA ReadKeeps ==
  ASSUME QueueInv, NEW c \in JobCalls, ReadClaimed(c)
  PROVE  \A i \in Jobs : JobInv(i)'
<1> SUFFICES ASSUME NEW j \in Jobs PROVE JobInv(j)'
  OBVIOUS
<1>0. JobTypeOK /\ JobInv(j)
  BY DEF QueueInv
<1>1. /\ JobAt(c, "read") /\ job' = job /\ retried' = retried
      /\ Others(c) /\ jobCall'[c].pc = "handle" /\ jobCall'[c].id = jobCall[c].id
      /\ jobCall'[c].todo = jobCall[c].todo
      /\ jobCall[c].id = j => jobCall'[c].outcome = nextStatusAfterFailure(job[j].attempts, job[j].max)
  BY <1>0, ReadEffect
<1>2. \A d \in JobCalls : /\ Works(d, j)' <=> Works(d, j)
                          /\ Chosen(d, j)' <=> Chosen(d, j)
  BY <1>1 DEF Others, Works, Chosen, JobAt
<1>3. /\ Unattended(j)' <=> Unattended(j)
      /\ Unlisted(j)' <=> Unlisted(j)
      /\ Parked(j)' <=> Parked(j)
  BY <1>1, <1>2 DEF Unattended, Unlisted, Parked
<1>4. LocksRun(j)'
  BY <1>0, <1>1, <1>3 DEF JobInv, LocksRun
<1>5. Alone(j) => Alone(j)'
  BY <1>1, <1>2 DEF Alone
<1>6. RetryReady(j) => RetryReady(j)'
  BY <1>1, <1>3 DEF Others, RetryReady, Retries, JobAt
<1>7. Counted(j) => Counted(j)'
  BY <1>1 DEF Others, Counted, JobAt
<1>8. StuckParked(j) => StuckParked(j)'
  BY <1>1, <1>3 DEF Others, StuckParked, Recovers, JobAt
<1> QED
  BY <1>0, <1>1, <1>4, <1>5, <1>6, <1>7, <1>8 DEF JobInv

LEMMA HandleKeeps ==
  ASSUME QueueInv, NEW c \in JobCalls, Handle(c)
  PROVE  \A i \in Jobs : JobInv(i)'
<1>0. JobTypeOK
  BY DEF QueueInv
<1>1. PICK j \in Jobs : j = jobCall[c].id
  BY <1>0, HandleEffect
<1>2. /\ JobAt(c, "handle") /\ retried' = retried
      /\ Others(c) /\ jobCall'[c].pc = "claim" /\ jobCall'[c].todo = jobCall[c].todo
      /\ OnlyJob(j)
      /\ job'[j].status \in {"COMPLETED", jobCall[c].outcome} /\ jobCall[c].outcome \in Outcome
      /\ job'[j].lock = "none"
      /\ job'[j].attempts = job[j].attempts /\ job'[j].max = job[j].max
  BY <1>0, <1>1, HandleEffect
<1>3. JobInv(j)
  BY DEF QueueInv
<1>4. \A i \in Jobs : Fewer(i)
  BY <1>2 DEF Others, Fewer, Works, Chosen, Recovers, Retries, JobAt
<1>5. JobInv(j)'
  <2>1. job[j].attempts \in Nat /\ job[j].max \in Nat
    BY <1>0 DEF JobTypeOK, Job
  <2>2. Works(c, j)
    BY <1>2, <1>1 DEF Works
  <2>3. LocksRun(j)'
    BY <1>2 DEF LocksRun
  <2>4. Alone(j) => Unattended(j)'
    BY <1>2, <2>2 DEF Alone, Others, Unattended, Works, JobAt
  <2>5. Unattended(j)' => Alone(j)'
    BY DEF Unattended, Alone
  <2>6. StuckParked(j) /\ retried[j] < 2 => StuckParked(j)'
    BY <1>2, <1>4, <2>2 DEF StuckParked, Fewer, Outcome, Parked, Unattended
  <2>7. RetryReady(j) => RetryReady(j)'
    BY <1>2, <1>4, <2>2 DEF RetryReady, Fewer, Unattended
  <2>8. Counted(j) /\ Unattended(j)' => Counted(j)'
    <3> SUFFICES ASSUME Counted(j), Unattended(j)' PROVE Counted(j)'
      OBVIOUS
    <3>1. jobCall[c].outcome = nextStatusAfterFailure(job[j].attempts, job[j].max)
      BY <1>2, <1>1 DEF Counted
    <3>2. \A d \in JobCalls : ~(JobAt(d, "handle") /\ jobCall[d].id = j)'
      BY DEF Unattended, Works
    <3> QED
      BY <1>2, <2>1, <3>1, <3>2 DEF Counted, nextStatusAfterFailure, OpenJob, NoJob
  <2> QED
    BY <1>2, <1>3, <2>3, <2>4, <2>5, <2>6, <2>7, <2>8 DEF JobInv
<1> QED
  BY <1>2, <1>4, <1>5, OtherJobs

LEMMA RecoverKeeps ==
  ASSUME QueueInv, NEW c \in JobCalls, NEW s \in jobCall[c].stuck, recoverStuckJob(c, s)
  PROVE  \A i \in Jobs : JobInv(i)'
<1>0. JobTypeOK
  BY DEF QueueInv
<1>1. PICK j \in Jobs, o \in Outcome : j = s[1] /\ o = s[2]
  BY <1>0, RecoverEffect
<1>2. /\ Recovers(c, j, o) /\ Others(c) /\ jobCall'[c].pc = "recover"
      /\ jobCall'[c].stuck \subseteq jobCall[c].stuck
      /\ OnlyJob(j) /\ retried' = retried
      /\ (job[j].status = "RUNNING" /\ Failed(j, o)) \/ job' = job
  BY <1>0, <1>1, RecoverEffect DEF Recovers
<1>3. \A i \in Jobs : Fewer(i)
  BY <1>2 DEF Others, Fewer, Works, Chosen, Recovers, Retries, JobAt
<1>4. JobInv(j)
  BY DEF QueueInv
<1>5. JobInv(j)'
  <2>1. CASE job' = job
    BY <1>2, <1>3, <1>4, <2>1, KeepsJob DEF Kept
  <2>2. CASE job[j].status = "RUNNING" /\ Failed(j, o)
    <3>1. job[j].attempts \in Nat /\ job[j].max \in Nat /\ retried[j] \in Nat
      BY <1>0 DEF JobTypeOK, Job
    <3>2. /\ job'[j].status = o /\ job'[j].lock = "none"
          /\ job'[j].attempts = job[j].attempts /\ job'[j].max = job[j].max
          /\ o = "RETRYING" => ~job'[j].due
      BY <1>0, <2>2, FailedEffect
    <3>3. LocksRun(j)'
      BY <3>2 DEF LocksRun
    <3>4. /\ Unattended(j) => Unattended(j)'
          /\ Unlisted(j) => Unlisted(j)'
      BY <1>3 DEF Fewer, Unattended, Unlisted
    <3>5. Parked(j) => Parked(j)'
      BY <3>2, <3>4 DEF Parked, Outcome
    <3>6. Counted(j) => \A d \in JobCalls : (JobAt(d, "handle") /\ jobCall[d].id = j)' =>
                           jobCall'[d].outcome = nextStatusAfterFailure(job'[j].attempts, job'[j].max)
      BY <1>3, <3>2 DEF Fewer, Counted
    <3>7. CASE o = "RETRYING"
      <4>1. StuckParked(j) => Parked(j) /\ job[j].attempts < job[j].max
        BY <1>2, <3>7 DEF StuckParked
      <4>2. StuckParked(j) => Alone(j)'
        BY <3>4, <4>1 DEF Alone, Parked, Unattended
      <4>3. StuckParked(j) => StuckParked(j)'
        BY <1>2, <1>3, <3>1, <3>2, <3>5, <3>7, <4>1 DEF StuckParked, Fewer, Outcome
      <4>4. RetryReady(j) => RetryReady(j)'
        BY <1>3, <2>2 DEF RetryReady, Fewer
      <4>5. Counted(j) /\ StuckParked(j) => Counted(j)'
        BY <1>2, <2>2, <3>1, <3>2, <3>6, <3>7, <4>1 DEF Counted, OpenJob, NoJob
      <4> QED
        BY <1>2, <1>4, <3>3, <4>2, <4>3, <4>4, <4>5 DEF JobInv
    <3>8. CASE o = "DEAD_LETTER"
      <4>1. StuckParked(j) /\ retried[j] = 0 => Parked(j) /\ job[j].attempts >= job[j].max
        BY <1>2, <3>8 DEF StuckParked
      <4>2. Counted(j) /\ StuckParked(j) /\ retried[j] < 2 => job[j].attempts = job[j].max
        BY <2>2, <3>1, <4>1 DEF Counted
      <4>3. StuckParked(j) /\ Alone(j) /\ retried[j] < 2 => Alone(j)'
        <5>1. CASE retried[j] = 0
          BY <3>4, <4>1, <5>1 DEF Alone, Parked, Unattended
        <5>2. CASE retried[j] = 1
          BY <1>2, <1>3, <3>2, <3>8, <5>2 DEF Alone, Fewer
        <5> QED
          BY <3>1, <5>1, <5>2
      <4>4. StuckParked(j) /\ Counted(j) /\ retried[j] < 2 => StuckParked(j)'
        <5> SUFFICES ASSUME StuckParked(j), Counted(j), retried[j] < 2, NEW d \in JobCalls
                     PROVE  /\ ~Recovers(d, j, "RETRYING")'
                            /\ Recovers(d, j, "DEAD_LETTER")' /\ retried[j] = 0 =>
                                 Parked(j)' /\ job'[j].attempts >= job'[j].max
          BY <1>2 DEF StuckParked
        <5>1. ~Recovers(d, j, "RETRYING")'
          BY <1>3, <3>1, <4>2 DEF StuckParked, Fewer, Outcome
        <5> QED
          BY <3>2, <3>5, <4>1, <5>1
      <4>5. RetryReady(j) => RetryReady(j)'
        BY <1>3, <2>2 DEF RetryReady, Fewer
      <4>6. Counted(j) /\ StuckParked(j) /\ retried[j] < 2 => Counted(j)'
        BY <1>2, <3>1, <3>2, <3>6, <3>8, <4>2 DEF Counted, OpenJob, NoJob
      <4> QED
        BY <1>2, <1>4, <3>3, <4>3, <4>4, <4>5, <4>6 DEF JobInv
    <3> QED
      BY <3>7, <3>8 DEF Outcome
  <2> QED
    BY <1>2, <2>1, <2>2
<1> QED
  BY <1>2, <1>3, <1>5, OtherJobs

LEMMA BeginRetryKeeps ==
  ASSUME QueueInv, NEW c \in JobCalls, NEW j \in Jobs, BeginRetry(c, j)
  PROVE  \A i \in Jobs : JobInv(i)'
<1>0. JobTypeOK /\ JobInv(j)
  BY DEF QueueInv
<1>1. /\ job[j].status = "DEAD_LETTER"
      /\ Others(c) /\ jobCall'[c].pc = "retry" /\ jobCall'[c].id = j
      /\ jobCall'[c].max = IF job[j].max > job[j].attempts THEN job[j].max ELSE job[j].attempts + 1
      /\ job' = job /\ retried' = retried
  BY <1>0, BeginRetryEffect
<1>2. \A i \in Jobs \ {j} : Fewer(i)
  BY <1>1 DEF Others, Fewer, Works, Chosen, Recovers, Retries, JobAt
<1>3. \A d \in JobCalls : /\ Works(d, j)' => Works(d, j)
                          /\ Chosen(d, j)' => Chosen(d, j)
                          /\ \A o \in Outcome : Recovers(d, j, o)' => Recovers(d, j, o)
  BY <1>1 DEF Others, Works, Chosen, Recovers, JobAt
<1>4. JobInv(j)'
  <2>1. job[j].attempts \in Nat /\ job[j].max \in Nat /\ retried[j] \in Nat
    BY <1>0 DEF JobTypeOK, Job
  <2>2. /\ Unattended(j) => Unattended(j)'
        /\ Unlisted(j) => Unlisted(j)'
        /\ Parked(j) => Parked(j)'
    BY <1>1, <1>3 DEF Unattended, Unlisted, Parked
  <2>3. LocksRun(j)'
    BY <1>0, <1>1, <2>2 DEF JobInv, LocksRun
  <2>4. Alone(j) => Alone(j)'
    BY <1>1, <1>3 DEF Alone
  <2>5. StuckParked(j) => StuckParked(j)'
    BY <1>1, <1>3, <2>2 DEF StuckParked, Outcome
  <2>6. Counted(j) => Counted(j)'
    BY <1>1 DEF Others, Counted, JobAt
  <2>7. Alone(j) /\ Counted(j) /\ RetryReady(j) /\ retried[j] = 0 => RetryReady(j)'
    <3> SUFFICES ASSUME Alone(j), Counted(j), RetryReady(j), retried[j] = 0 PROVE RetryReady(j)'
      OBVIOUS
    <3>1. Unattended(j)'
      BY <1>1, <2>2 DEF Alone, Unattended
    <3>2. job[j].attempts = job[j].max
      BY <1>1 DEF Counted
    <3> QED
      BY <1>1, <2>1, <3>1, <3>2 DEF Others, RetryReady, Retries, JobAt
  <2> QED
    BY <1>0, <1>1, <2>1, <2>3, <2>4, <2>5, <2>6, <2>7 DEF JobInv
<1> QED
  BY <1>1, <1>2, <1>4, OtherJobs DEF OnlyJob

LEMMA RetryKeeps ==
  ASSUME QueueInv, NEW c \in JobCalls, retryJob(c)
  PROVE  \A i \in Jobs : JobInv(i)'
<1>0. JobTypeOK
  BY DEF QueueInv
<1>1. PICK j \in Jobs : j = jobCall[c].id
  BY <1>0, RetryEffect
<1>2. /\ Retries(c, j) /\ OnlyJob(j)
      /\ job'[j].status = "PENDING" /\ job'[j].lock = job[j].lock
      /\ job'[j].attempts = job[j].attempts /\ job'[j].max = jobCall[c].max
      /\ retried'[j] = retried[j] + 1 /\ \A i \in Jobs \ {j} : retried'[i] = retried[i]
  BY <1>0, <1>1, RetryEffect DEF Retries
<1>3. \A i \in Jobs : Fewer(i)
  BY <1>0, EndEffect, EmptyFewer
<1>4. JobInv(j)
  BY DEF QueueInv
<1>5. job[j].attempts \in Nat /\ job[j].max \in Nat /\ retried[j] \in Nat
  BY <1>0 DEF JobTypeOK, Job
<1>6. Unattended(j) => Unattended(j)'
  BY <1>3 DEF Fewer, Unattended
<1>7. LocksRun(j)'
  BY <1>2, <1>4, <1>6 DEF JobInv, LocksRun
<1>8. ASSUME retried[j] = 0 PROVE JobInv(j)'
  <2>1. Alone(j) /\ StuckParked(j) /\ Counted(j) /\ RetryReady(j) /\ retried'[j] = 1
    BY <1>2, <1>4, <1>8 DEF JobInv
  <2>2. Unattended(j)' /\ job[j].attempts = job[j].max /\ jobCall[c].max = job[j].attempts + 1
    BY <1>2, <1>6, <2>1 DEF RetryReady
  <2>3. Alone(j)'
    BY <2>2 DEF Alone, Unattended
  <2>4. StuckParked(j)'
    <3>1. \A d \in JobCalls : ~Recovers(d, j, "RETRYING")'
      BY <1>3, <1>5, <2>1, <2>2 DEF StuckParked, Fewer, Outcome
    <3> QED
      BY <2>1, <3>1 DEF StuckParked
  <2>5. Counted(j)'
    <3>1. \A d \in JobCalls : ~(JobAt(d, "handle") /\ jobCall[d].id = j)'
      BY <2>2 DEF Unattended, Works
    <3> QED
      BY <1>2, <1>5, <2>2, <3>1 DEF Counted, OpenJob, NoJob
  <2> QED
    BY <1>7, <2>1, <2>3, <2>4, <2>5, <1>2 DEF JobInv
<1>9. ASSUME retried[j] # 0 PROVE JobInv(j)'
  BY <1>2, <1>5, <1>7, <1>9 DEF JobInv
<1>10. JobInv(j)'
  BY <1>8, <1>9
<1> QED
  BY <1>2, <1>3, <1>10, OtherJobs

LEMMA CancelKeeps ==
  ASSUME QueueInv, NEW c \in JobCalls, cancelJob(c)
  PROVE  \A i \in Jobs : JobInv(i)'
<1>0. JobTypeOK
  BY DEF QueueInv
<1>1. PICK j \in Jobs : j = jobCall[c].id
  BY <1>0, CancelEffect
<1>2. /\ OnlyJob(j) /\ retried' = retried
      /\ job'[j].status = "CANCELLED" /\ job'[j].lock = job[j].lock
      /\ job'[j].attempts = job[j].attempts /\ job'[j].max = job[j].max
  BY <1>0, <1>1, CancelEffect
<1>3. \A i \in Jobs : Fewer(i)
  BY <1>0, EndEffect, EmptyFewer
<1>4. JobInv(j)
  BY DEF QueueInv
<1>5. JobInv(j)'
  <2>1. /\ Unattended(j) => Unattended(j)'
        /\ Unlisted(j) => Unlisted(j)'
    BY <1>3 DEF Fewer, Unattended, Unlisted
  <2>2. Parked(j) => Parked(j)'
    BY <1>2, <2>1 DEF Parked
  <2>3. LocksRun(j)'
    BY <1>2, <1>4, <2>1 DEF JobInv, LocksRun
  <2>4. Alone(j) => Alone(j)'
    BY <1>2, <1>3 DEF Alone, Fewer
  <2>5. StuckParked(j) => StuckParked(j)'
    BY <1>2, <1>3, <2>2 DEF StuckParked, Fewer, Outcome
  <2>6. RetryReady(j) => RetryReady(j)'
    BY <1>2, <1>3, <2>1 DEF RetryReady, Fewer
  <2>7. Counted(j) => Counted(j)'
    BY <1>2, <1>3 DEF Counted, Fewer, OpenJob, NoJob
  <2> QED
    BY <1>2, <1>4, <2>3, <2>4, <2>5, <2>6, <2>7 DEF JobInv
<1> QED
  BY <1>2, <1>3, <1>5, OtherJobs

(* Time passes when no call is alive.                                      *)
LEMMA TimeKeeps ==
  ASSUME QueueInv, Minutes \/ Overnight
  PROVE  \A i \in Jobs : JobInv(i)'
<1> SUFFICES ASSUME NEW j \in Jobs PROVE JobInv(j)'
  OBVIOUS
<1>0. JobTypeOK /\ JobInv(j)
  BY DEF QueueInv
<1>1. /\ \A c \in JobCalls : jobCall'[c].pc = "idle"
      /\ retried' = retried
      /\ job'[j].status = job[j].status /\ job'[j].attempts = job[j].attempts /\ job'[j].max = job[j].max
  BY <1>0, TimeEffect
<1>2. Unattended(j)' /\ Unlisted(j)'
  BY <1>1 DEF Unattended, Unlisted, Works, Chosen, JobAt
<1>3. LocksRun(j)'
  BY <1>2 DEF LocksRun
<1>4. Alone(j)'
  BY <1>2 DEF Alone, Unattended
<1>5. StuckParked(j)' /\ RetryReady(j)'
  BY <1>1 DEF StuckParked, RetryReady, Recovers, Retries, JobAt
<1>6. Counted(j) => Counted(j)'
  BY <1>1 DEF Counted, JobAt
<1> QED
  BY <1>0, <1>1, <1>3, <1>4, <1>5, <1>6 DEF JobInv

LEMMA QueueStep == QueueInv /\ [JobNext]_jobVars => QueueInv'
<1> SUFFICES ASSUME QueueInv, [JobNext]_jobVars PROVE \A i \in Jobs : JobInv(i)'
  BY StepType DEF QueueInv
<1>0. JobTypeOK
  BY DEF QueueInv
<1>1. ASSUME NEW c \in JobCalls,
             \/ runDailyTick(c) \/ RunNow(c) \/ EnqueueDone(c) \/ Stop(c) \/ KillJobCall(c)
             \/ \E j \in Jobs : BeginCancelJob(c, j)
      PROVE  \A i \in Jobs : JobInv(i)'
  <2>1. Empty(c) /\ job' = job /\ retried' = retried
    <3>1. CASE runDailyTick(c) \/ RunNow(c) \/ \E j \in Jobs : BeginCancelJob(c, j)
      BY <1>0, <3>1, BeginEffect
    <3>2. CASE EnqueueDone(c)
      BY <1>0, <3>2, EnqueueDoneEffect
    <3>3. CASE Stop(c)
      <4>1. job' = job /\ retried' = retried
        BY <3>3, Zenon DEF Stop
      <4> QED
        BY <1>0, <3>3, <4>1, EndEffect
    <3>4. CASE KillJobCall(c)
      <4>1. job' = job /\ retried' = retried
        BY <3>4, Zenon DEF KillJobCall
      <4> QED
        BY <1>0, <3>4, <4>1, EndEffect
    <3> QED
      BY <1>1, <3>1, <3>2, <3>3, <3>4
  <2> QED
    BY <2>1, EmptyFewer, KeepsJob DEF QueueInv, Kept
<1>2. CASE CronSkipped \/ UNCHANGED jobVars
  <2>1. UNCHANGED <<job, retried, jobCall>>
    BY <1>2, Zenon DEF CronSkipped, jobVars
  <2>2. \A j \in Jobs : Kept(j)
    BY <2>1 DEF Kept, Fewer, Works, Chosen, Recovers, Retries, JobAt
  <2> QED
    BY <2>2, KeepsJob DEF QueueInv
<1>3. ASSUME NEW c \in JobCalls,
             \/ FindStuck(c) \/ ListDue(c) \/ ReadClaimed(c) \/ Handle(c) \/ retryJob(c) \/ cancelJob(c)
             \/ \E j \in Jobs : enqueueJob(c, j) \/ claim(c, j) \/ BeginRetry(c, j)
             \/ \E s \in jobCall[c].stuck : recoverStuckJob(c, s)
      PROVE  \A i \in Jobs : JobInv(i)'
  <2>1. ASSUME NEW j \in Jobs, enqueueJob(c, j) \/ claim(c, j) \/ BeginRetry(c, j) PROVE \A i \in Jobs : JobInv(i)'
    BY <2>1, EnqueueKeeps, ClaimKeeps, BeginRetryKeeps
  <2>2. ASSUME NEW s \in jobCall[c].stuck, recoverStuckJob(c, s) PROVE \A i \in Jobs : JobInv(i)'
    BY <2>2, RecoverKeeps
  <2>3. CASE FindStuck(c) \/ ListDue(c) \/ ReadClaimed(c) \/ Handle(c) \/ retryJob(c) \/ cancelJob(c)
    BY <2>3, FindKeeps, ListKeeps, ReadKeeps, HandleKeeps, RetryKeeps, CancelKeeps
  <2> QED
    BY <1>3, <2>1, <2>2, <2>3
<1>4. CASE Minutes \/ Overnight
  BY <1>4, TimeKeeps
<1> QED
  BY <1>1, <1>2, <1>3, <1>4 DEF JobNext, JobWork, ManualTick, Cron, CronTick

LEMMA QueueInit == JobInit => QueueInv
<1> SUFFICES ASSUME JobInit, NEW j \in Jobs PROVE JobInv(j)
  BY InitType DEF QueueInv
<1>1. /\ job[j].status = NoJob /\ job[j].lock = "none" /\ job[j].attempts = 0 /\ job[j].max = Attempts
      /\ retried[j] = 0
  BY DEF JobInit
<1>2. \A c \in JobCalls : jobCall[c].pc = "idle"
  BY DEF JobInit, JobIdle
<1> QED
  BY <1>1, <1>2, JobConstants
     DEF JobInv, LocksRun, Alone, StuckParked, Counted, RetryReady, Works, Recovers, Retries, JobAt, NoJob, OpenJob

LEMMA QueueInvariant == JobSpec => []QueueInv
BY QueueInit, QueueStep, PTL DEF JobSpec

(* jobs.ts:79-80: no job is processed by two workers at once, whatever     *)
(* ticks, manual runs, recoveries and cancellations overlap, as long as no *)
(* administrator retries the same job twice.                               *)
THEOREM WorkersAlone == JobSpec => []OneWorker
<1>1. QueueInv => OneWorker
  <2> SUFFICES ASSUME QueueInv, NEW j \in Jobs, ~(retried[j] >= 2)
               PROVE  Cardinality(Workers(j)) <= 1
    BY DEF OneWorker
  <2>1. retried[j] \in Nat /\ JobInv(j)
    BY DEF QueueInv, JobTypeOK
  <2>2. Alone(j)
    BY <2>1 DEF JobInv
  <2>3. \A c, d \in Workers(j) : c = d
    BY <2>2 DEF Alone, Works, Workers
  <2> QED
    BY <2>3, AtMostOne
<1> QED
  BY <1>1, QueueInvariant, PTL

(* job-policy.ts:3-5: a job has no more attempts than it may have and is   *)
(* given up only when it has had them all, although an attempt whose       *)
(* worker died is settled later, by another worker, from what it had read. *)
THEOREM AttemptsCounted == JobSpec => []AttemptsSpent
<1>1. QueueInv => AttemptsSpent
  BY DEF QueueInv, JobInv, Counted, AttemptsSpent
<1> QED
  BY <1>1, QueueInvariant, PTL
=============================================================================
