---------------------------- MODULE MCOperations ----------------------------
(* The job queue, the memberships, the task board and the messages: the    *)
(* parts of the daily tick that keep no lock of each other's and share no  *)
(* row, so that each behaviour is about one of them.                       *)
EXTENDS JobQueue, Membership, TaskBoard, MessageQueue

CONSTANTS j1, j2, s1, basic, gold, t1, t2, m1, mail, h1, h2

VARIABLE agenda     \* which of the four this behaviour is about

opsVars == <<jobVars, memVars, boardVars, msgVars, agenda>>

Limits == [p \in Packages |-> IF p = basic THEN 0 ELSE 2]

OfJobs(A)        == agenda = "jobs" /\ A /\ UNCHANGED <<memVars, boardVars, msgVars, agenda>>
OfMemberships(A) == agenda = "membership" /\ A /\ UNCHANGED <<jobVars, boardVars, msgVars, agenda>>
OfTasks(A)       == agenda = "tasks" /\ A /\ UNCHANGED <<jobVars, memVars, msgVars, agenda>>
OfMessages(A)    == agenda = "messages" /\ A /\ UNCHANGED <<jobVars, memVars, boardVars, agenda>>

OpsInit ==
  /\ agenda \in {"jobs", "membership", "tasks", "messages"}
  /\ JobInit /\ MemInit /\ BoardInit /\ MsgInit

OpsNext == OfJobs(JobNext) \/ OfMemberships(MemNext) \/ OfTasks(BoardNext) \/ OfMessages(MsgNext)

(* JobFairness, MemFairness, BoardFairness and MsgFairness, of the          *)
(* composition: as the agenda never changes, fairness of a disjunction over *)
(* the agendas is fairness of the one disjunct that can happen.  The same   *)
(* two handlers are the calls, the desks, the hands and the couriers.       *)
Tick ==
  \/ OfJobs(Cron) \/ OfMemberships(\E h \in Desks : BeginRenewals(h))
  \/ OfTasks(\E h \in Hands : EscalationSweep(h)) \/ OfMessages(\E h \in Couriers : DailyDrain(h))

Night   == OfJobs(Overnight) \/ OfTasks(DueDatesPass)
Days    == OfMemberships(DaysPass(Subs)) \/ OfMessages(DayPasses(Messages))
Work(h) == OfJobs(JobWork(h)) \/ OfMemberships(DeskWork(h)) \/ OfTasks(HandWork(h)) \/ OfMessages(CourierWork(h))

OpsFairness ==
  /\ WF_opsVars(Tick) /\ WF_opsVars(Night) /\ SF_opsVars(Days)
  /\ \A h \in Hands : WF_opsVars(Work(h))

(* The rows and handlers of the first three keep their types:              *)
(* jobs.ts:79-120, subscription.ts:18-136 and engine.ts:354-363 write only *)
(* values of the enums and the locals they have set.                       *)
OpsTypeOK == JobTypeOK /\ MemTypeOK /\ BoardTypeOK

OpsSpec == OpsInit /\ [][OpsNext]_opsVars /\ OpsFairness
=============================================================================
