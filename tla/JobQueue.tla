------------------------------ MODULE JobQueue ------------------------------
(***************************************************************************)
(* The background job queue and the daily tick that drives it: jobs are    *)
(* enqueued under a deduplication key, claimed by a worker, run, retried   *)
(* with a delay and dead-lettered; a crashed worker's jobs are recovered   *)
(* when their lock has expired.  Workers are the tick (the cron route or   *)
(* an administrator's "run the tick", under a lock) and an administrator's *)
(* "run now" (under none).                                                 *)
(*                                                                         *)
(* A handler is a "call", an action one prisma call of it.  The clock is   *)
(* abstracted to what the code's durations tell apart: a function lives a  *)
(* minute at most, less than a job's lock or the first delay (5 minutes),  *)
(* which are less than the tick's lock (15 minutes), which is less than a  *)
(* day.  So time passes, by minutes or overnight, when no call is alive;   *)
(* a function killed by its time limit is a crash.                         *)
(***************************************************************************)
EXTENDS Naturals, FiniteSets

CONSTANTS
  Jobs,          \* the deduplication keys the tick enqueues
  Attempts,      \* maxAttempts of a new job
  JobCalls,         \* handler invocations that may be in flight together
  MaxManual,     \* bound: operations administrators start
  MaxCrashes     \* bound: functions killed

JobStatus == {"PENDING", "RUNNING", "COMPLETED", "RETRYING", "DEAD_LETTER", "CANCELLED"}
OpenJob   == {"PENDING", "RETRYING"}
NoJob     == "ABSENT"

ASSUME JobConstants ==
  /\ Jobs # {} /\ Attempts \in Nat \ {0}
  /\ MaxManual \in Nat /\ MaxCrashes \in Nat

VARIABLES
  job,        \* [Jobs -> the BackgroundJob row]
  tickLock,   \* CronTask "daily-tick": its lock is held and has not expired
  fired,      \* the platform has called the cron route today
  retried,    \* history: [Jobs -> how often an administrator has retried the job]
  spent,      \* how many manual operations and crashes there were
  jobCall     \* [JobCalls -> the state of the handler]

jobVars == <<job, tickLock, fired, retried, spent, jobCall>>

(* lock: lockedUntil is "none", in the future or in the past; due: runAfter is in the past. *)
Job == [status: {NoJob} \cup JobStatus, attempts: Nat, max: Nat, due: BOOLEAN, lock: {"none", "held", "expired"}]
Outcome == {"RETRYING", "DEAD_LETTER"}

JobPCs == {"idle", "enqueue", "find", "recover", "list", "claim", "read", "handle", "retry", "cancel"}
JobCall == [pc: JobPCs, tick: BOOLEAN, todo: SUBSET Jobs, stuck: SUBSET (Jobs \X Outcome), id: Jobs,
            worked: BOOLEAN, outcome: Outcome, max: Nat]

AnyJob == CHOOSE j \in Jobs : TRUE
JobIdle == [pc |-> "idle", tick |-> FALSE, todo |-> {}, stuck |-> {}, id |-> AnyJob,
            worked |-> FALSE, outcome |-> "RETRYING", max |-> 0]

JobInit ==
  /\ job = [j \in Jobs |-> [status |-> NoJob, attempts |-> 0, max |-> Attempts, due |-> FALSE, lock |-> "none"]]
  /\ tickLock = FALSE /\ fired = FALSE
  /\ retried = [j \in Jobs |-> 0]
  /\ spent = [manual |-> 0, crashes |-> 0]
  /\ jobCall = [c \in JobCalls |-> JobIdle]

-----------------------------------------------------------------------------
JobAt(c, pc) == jobCall[c].pc = pc
Become(c, state) == jobCall' = [jobCall EXCEPT ![c] = state]

(* Mutant: a job may have one attempt more than it may have. *)
OneMoreAttempt(attempts, max) == IF attempts > max THEN "DEAD_LETTER" ELSE "RETRYING"

(* Mutant: an exhausted job is only marked as failed. *)
FailAlways(attempts, max) == IF attempts >= max THEN "FAILED" ELSE "RETRYING"

nextStatusAfterFailure(attempts, max) == IF attempts >= max THEN "DEAD_LETTER" ELSE "RETRYING"

Update(j, row) == job' = [job EXCEPT ![j] = row]

(* A failed attempt: the job waits for its delay, or for an administrator. *)
Failed(j, outcome) ==
  Update(j, [job[j] EXCEPT !.status = outcome, !.lock = "none", !.due = IF outcome = "RETRYING" THEN FALSE ELSE @])

Manual == /\ spent.manual < MaxManual
          /\ spent' = [spent EXCEPT !.manual = @ + 1]

-----------------------------------------------------------------------------
(* runDailyTick: the lock, the day's jobs, then the worker *)

(* Mutant: the tick starts without looking at its lock. *)
TickUnlocked(c) ==
  /\ JobAt(c, "idle")
  /\ tickLock' = TRUE
  /\ Become(c, [JobIdle EXCEPT !.pc = "enqueue", !.tick = TRUE, !.todo = Jobs])
  /\ UNCHANGED <<job, retried>>

runDailyTick(c) ==
  /\ JobAt(c, "idle")
  /\ ~tickLock
  /\ tickLock' = TRUE
  /\ Become(c, [JobIdle EXCEPT !.pc = "enqueue", !.tick = TRUE, !.todo = Jobs])
  /\ UNCHANGED <<job, retried>>

CronTick(c)   == ~fired /\ fired' = TRUE /\ runDailyTick(c) /\ UNCHANGED spent
CronSkipped   == ~fired /\ fired' = TRUE /\ tickLock /\ UNCHANGED <<job, tickLock, retried, spent, jobCall>>
ManualTick(c) == Manual /\ runDailyTick(c) /\ UNCHANGED fired

(* The key is unique: a second creation finds the job there is. *)
enqueueJob(c, j) ==
  /\ JobAt(c, "enqueue") /\ j \in jobCall[c].todo
  /\ job' = IF job[j].status = NoJob THEN [job EXCEPT ![j].status = "PENDING", ![j].due = TRUE] ELSE job
  /\ Become(c, [jobCall[c] EXCEPT !.todo = @ \ {j}])
  /\ UNCHANGED <<tickLock, fired, retried, spent>>

EnqueueDone(c) ==
  /\ JobAt(c, "enqueue") /\ jobCall[c].todo = {}
  /\ Become(c, [jobCall[c] EXCEPT !.pc = "find"])
  /\ UNCHANGED <<job, tickLock, fired, retried, spent>>

RunNow(c) ==
  /\ JobAt(c, "idle") /\ Manual
  /\ Become(c, [JobIdle EXCEPT !.pc = "find"])
  /\ UNCHANGED <<job, tickLock, fired, retried>>

-----------------------------------------------------------------------------
(* runDueJobs *)

FindStuck(c) ==
  /\ JobAt(c, "find")
  /\ Become(c, [jobCall[c] EXCEPT !.pc = "recover",
       !.stuck = {<<j, nextStatusAfterFailure(job[j].attempts, job[j].max)>> :
                    j \in {i \in Jobs : job[i].status = "RUNNING" /\ job[i].lock = "expired"}}])
  /\ UNCHANGED <<job, tickLock, fired, retried, spent>>

(* The update looks at the status, not at the lock that made the job stuck. *)
recoverStuckJob(c, s) ==
  /\ JobAt(c, "recover") /\ s \in jobCall[c].stuck
  /\ IF job[s[1]].status = "RUNNING" THEN Failed(s[1], s[2]) ELSE UNCHANGED job
  /\ Become(c, [jobCall[c] EXCEPT !.stuck = @ \ {s}])
  /\ UNCHANGED <<tickLock, fired, retried, spent>>

ListDue(c) ==
  /\ JobAt(c, "recover") /\ jobCall[c].stuck = {}
  /\ Become(c, [jobCall[c] EXCEPT !.pc = "claim", !.todo = {j \in Jobs : job[j].status \in OpenJob /\ job[j].due}])
  /\ UNCHANGED <<job, tickLock, fired, retried, spent>>

(* Mutant: a listed job is claimed whatever became of it. *)
ClaimListed(j) == job[j].status # NoJob

Claimable(j) == job[j].status \in OpenJob

(* Mutant: an attempt that never reported its end is not counted. *)
claimUncounted(c, j) ==
  /\ JobAt(c, "claim") /\ j \in jobCall[c].todo
  /\ IF Claimable(j)
       THEN /\ Update(j, [job[j] EXCEPT !.status = "RUNNING", !.lock = "held"])
            /\ Become(c, [jobCall[c] EXCEPT !.pc = "read", !.todo = @ \ {j}, !.id = j, !.worked = TRUE])
       ELSE /\ Become(c, [jobCall[c] EXCEPT !.todo = @ \ {j}])
            /\ UNCHANGED job
  /\ UNCHANGED <<tickLock, fired, retried, spent>>

claim(c, j) ==
  /\ JobAt(c, "claim") /\ j \in jobCall[c].todo
  /\ IF Claimable(j)
       THEN /\ Update(j, [job[j] EXCEPT !.status = "RUNNING", !.lock = "held", !.attempts = @ + 1])
            /\ Become(c, [jobCall[c] EXCEPT !.pc = "read", !.todo = @ \ {j}, !.id = j, !.worked = TRUE])
       ELSE /\ Become(c, [jobCall[c] EXCEPT !.todo = @ \ {j}])
            /\ UNCHANGED job
  /\ UNCHANGED <<tickLock, fired, retried, spent>>

ReadClaimed(c) ==
  LET j == jobCall[c].id
  IN  /\ JobAt(c, "read")
      /\ Become(c, [jobCall[c] EXCEPT !.pc = "handle", !.outcome = nextStatusAfterFailure(job[j].attempts, job[j].max)])
      /\ UNCHANGED <<job, tickLock, fired, retried, spent>>

(* The handler returns or throws; either way the row is written blindly.   *)
Handle(c) ==
  LET j == jobCall[c].id
  IN  /\ JobAt(c, "handle")
      /\ \/ Update(j, [job[j] EXCEPT !.status = "COMPLETED", !.lock = "none"])
         \/ Failed(j, jobCall[c].outcome)
      /\ Become(c, [jobCall[c] EXCEPT !.pc = "claim"])
      /\ UNCHANGED <<tickLock, fired, retried, spent>>

(* No candidate is left, or the budget is used up; not before the first    *)
(* candidate, since recovering and listing take far less than the budget.  *)
Stop(c) ==
  /\ JobAt(c, "claim") /\ (jobCall[c].worked \/ jobCall[c].todo = {})
  /\ tickLock' = (tickLock /\ ~jobCall[c].tick)
  /\ Become(c, JobIdle)
  /\ UNCHANGED <<job, fired, retried, spent>>

-----------------------------------------------------------------------------
(* An administrator retries or cancels a job: a check, then a blind update *)

canRetry(s)  == s = "DEAD_LETTER"
canCancel(s) == s \in OpenJob

BeginRetry(c, j) ==
  /\ JobAt(c, "idle") /\ Manual
  /\ canRetry(job[j].status)
  /\ Become(c, [JobIdle EXCEPT !.pc = "retry", !.id = j,
                  !.max = IF job[j].max > job[j].attempts THEN job[j].max ELSE job[j].attempts + 1])
  /\ UNCHANGED <<job, tickLock, fired, retried>>

retryJob(c) ==
  LET j == jobCall[c].id
  IN  /\ JobAt(c, "retry")
      /\ Update(j, [job[j] EXCEPT !.status = "PENDING", !.due = TRUE, !.max = jobCall[c].max])
      /\ retried' = [retried EXCEPT ![j] = @ + 1]
      /\ Become(c, JobIdle)
      /\ UNCHANGED <<tickLock, fired, spent>>

BeginCancelJob(c, j) ==
  /\ JobAt(c, "idle") /\ Manual
  /\ canCancel(job[j].status)
  /\ Become(c, [JobIdle EXCEPT !.pc = "cancel", !.id = j])
  /\ UNCHANGED <<job, tickLock, fired, retried>>

cancelJob(c) ==
  /\ JobAt(c, "cancel")
  /\ Update(jobCall[c].id, [job[jobCall[c].id] EXCEPT !.status = "CANCELLED"])
  /\ Become(c, JobIdle)
  /\ UNCHANGED <<tickLock, fired, retried, spent>>

-----------------------------------------------------------------------------
(* Crashes and time *)

KillJobCall(c) ==
  /\ ~JobAt(c, "idle")
  /\ spent.crashes < MaxCrashes
  /\ spent' = [spent EXCEPT !.crashes = @ + 1]
  /\ Become(c, JobIdle)
  /\ UNCHANGED <<job, tickLock, fired, retried>>

Asleep == \A c \in JobCalls : JobAt(c, "idle")

Later(early) ==
  job' = [j \in Jobs |->
            [job[j] EXCEPT !.lock = IF @ = "held" THEN "expired" ELSE @,
                           !.due = @ \/ (j \in early /\ job[j].status = "RETRYING")]]

Minutes ==
  /\ Asleep
  /\ \E early \in SUBSET Jobs : Later(early)
  /\ UNCHANGED <<tickLock, fired, retried, spent, jobCall>>

Overnight ==
  /\ Asleep
  /\ Later(Jobs)
  /\ tickLock' = FALSE /\ fired' = FALSE
  /\ UNCHANGED <<retried, spent, jobCall>>

JobWork(c) ==
  \/ EnqueueDone(c) \/ FindStuck(c) \/ ListDue(c)
  \/ ReadClaimed(c) \/ Handle(c)
  \/ \E j \in Jobs : enqueueJob(c, j) \/ claim(c, j)
  \/ \E s \in jobCall[c].stuck : recoverStuckJob(c, s)
  \/ Stop(c) \/ retryJob(c) \/ cancelJob(c)

Cron == CronSkipped \/ \E c \in JobCalls : CronTick(c)

JobNext ==
  \/ \E c \in JobCalls :
       \/ ManualTick(c) \/ RunNow(c) \/ JobWork(c) \/ KillJobCall(c)
       \/ \E j \in Jobs : BeginRetry(c, j) \/ BeginCancelJob(c, j)
  \/ Cron \/ Minutes \/ Overnight

JobSpec == JobInit /\ [][JobNext]_jobVars

(* A handler that is alive goes on, the platform calls the cron route      *)
(* every day, and days pass.                                               *)
JobFairness == WF_jobVars(Cron) /\ WF_jobVars(Overnight) /\ \A c \in JobCalls : WF_jobVars(JobWork(c))
FairJobSpec == JobSpec /\ JobFairness

-----------------------------------------------------------------------------
(* Properties *)

JobTypeOK ==
  /\ job \in [Jobs -> Job]
  /\ tickLock \in BOOLEAN /\ fired \in BOOLEAN
  /\ retried \in [Jobs -> Nat]
  /\ spent \in [manual: Nat, crashes: Nat]
  /\ jobCall \in [JobCalls -> JobCall]

Workers(j) == {c \in JobCalls : (JobAt(c, "read") \/ JobAt(c, "handle")) /\ jobCall[c].id = j}

(* jobs.ts:79-80: no job is processed by two workers at once, whatever     *)
(* ticks, manual runs, recoveries and cancellations overlap, as long as no *)
(* administrator retries the same job twice.                               *)
OneWorker == \A j \in Jobs : Cardinality(Workers(j)) <= 1 \/ retried[j] >= 2

(* job-policy.ts:3-5: a job has no more attempts than it may have and is   *)
(* given up only when it has had them all, although an attempt whose       *)
(* worker died is settled later, by another worker, from what it had read. *)
AttemptsSpent ==
  \A j \in Jobs : retried[j] < 2 =>
    job[j].attempts <= job[j].max /\ (job[j].status = "DEAD_LETTER" => job[j].attempts = job[j].max)

(* admin/system/cron/route.ts:37-38: two daily ticks never overlap, also   *)
(* when one was killed and left its lock behind.                           *)
TickAlone == Cardinality({c \in JobCalls : jobCall[c].tick}) <= 1

(* Every job that was enqueued is eventually done, given up or cancelled,  *)
(* however its workers fail, die or run out of time.                       *)
JobSettled(j) == job[j].status \in {"COMPLETED", "DEAD_LETTER", "CANCELLED"}
JobsSettle == \A j \in Jobs : []<>(job[j].status = NoJob \/ JobSettled(j))
=============================================================================
