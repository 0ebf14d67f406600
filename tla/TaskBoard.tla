------------------------------ MODULE TaskBoard ------------------------------
(***************************************************************************)
(* The staff's task board: tasks are made by hand or for an event, are     *)
(* assigned, reassigned, edited, escalated, completed, cancelled, reopened *)
(* and archived, each by a read of the row and a versioned update of it,   *)
(* and the daily sweep escalates what is overdue and retries the events    *)
(* whose task could not be made.                                           *)
(*                                                                         *)
(* A handler is a "hand"; an action is one prisma call of it.  Functions   *)
(* live a minute at most, so the night, in which due dates pass, comes     *)
(* when no hand is at work.  Checks that only refuse (permissions, the     *)
(* checklist, an archive's hold and approval) are left out: a caller may   *)
(* stop, and here it may not begin.  So are the AdminAssignment rows of    *)
(* tasks, a trail no handler of a task reads.                              *)
(***************************************************************************)
EXTENDS Naturals, FiniteSets

CONSTANTS
  Tasks,         \* rows that may be created
  Staff,         \* admins a task may be assigned to
  Hands,         \* handler invocations that may be in flight together
  RetryCap,      \* RETRY_ATTEMPT_CAP = MAX_RETRY_ATTEMPTS
  MaxTouches,    \* bound: operations people start
  MaxFaults      \* bound: functions killed and database calls that fail

ASSUME BoardConstants ==
  /\ Tasks # {} /\ IsFiniteSet(Hands)
  /\ RetryCap \in Nat \ {0} /\ MaxTouches \in Nat /\ MaxFaults \in Nat

MAX_ESCALATION_LEVEL == 4
NoTask == "ABSENT"
Nobody == "nobody"

TaskStatus == {"NEW", "ASSIGNED", "ESCALATED", "COMPLETED", "CANCELLED", "REOPENED", "ARCHIVED"}
OpenTask   == {"NEW", "ASSIGNED", "ESCALATED", "REOPENED"}

(* ALLOWED_TRANSITIONS between the statuses some caller asks for: no route *)
(* takes a task to ACCEPTED, IN_PROGRESS, a WAITING status, BLOCKED or     *)
(* EXPIRED.                                                                *)
AllowedMoves ==
  [NEW       |-> {"ASSIGNED", "CANCELLED"},
   ASSIGNED  |-> {"CANCELLED", "ESCALATED"},
   ESCALATED |-> {"COMPLETED", "CANCELLED"},
   COMPLETED |-> {"ARCHIVED", "REOPENED"},
   CANCELLED |-> {"ARCHIVED", "REOPENED"},
   REOPENED  |-> {"ASSIGNED", "CANCELLED"},
   ARCHIVED  |-> {}]

ValidMove(from, to) == from = to \/ to \in AllowedMoves[from]

VARIABLES
  task,          \* [Tasks -> the AdminTask row]
  event,         \* the WorkflowEvent row
  workflowRan,   \* the daily sweep has run today
  usedUp,        \* how many operations and faults there were
  hand           \* [Hands -> the state of the handler]

boardVars == <<task, event, workflowRan, usedUp, hand>>

(* due: dueAt is null, to come or past. *)
Task  == [status: {NoTask} \cup TaskStatus, version: Nat, level: 1..MAX_ESCALATION_LEVEL, escalated: BOOLEAN,
          assignee: {Nobody} \cup Staff, due: {"none", "set", "past"}]
Event == [status: {NoTask, "PENDING", "PROCESSED", "FAILED"}, attempts: Nat]

EmptyTask == [status |-> NoTask, version |-> 1, level |-> 1, escalated |-> FALSE, assignee |-> Nobody, due |-> "none"]

HandPCs == {"idle", "look", "make", "processed", "failed", "write", "sweep", "retry", "refuse"}
AnyTask == CHOOSE t \in Tasks : TRUE
Hand    == [pc: HandPCs, on: Tasks, row: Task, forEvent: BOOLEAN, sweeps: BOOLEAN, todo: SUBSET Tasks]
HandIdle == [pc |-> "idle", on |-> AnyTask, row |-> EmptyTask, forEvent |-> FALSE, sweeps |-> FALSE, todo |-> {}]

BoardInit ==
  /\ task = [t \in Tasks |-> EmptyTask]
  /\ event = [status |-> NoTask, attempts |-> 0]
  /\ workflowRan = FALSE
  /\ usedUp = [touches |-> 0, faults |-> 0]
  /\ hand = [w \in Hands |-> HandIdle]

-----------------------------------------------------------------------------
HandAt(w, pc) == hand[w].pc = pc
HandBecomes(w, state) == hand' = [hand EXCEPT ![w] = state]
HandGoes(w, pc) == HandBecomes(w, [hand[w] EXCEPT !.pc = pc])
HandDone(w) == HandBecomes(w, HandIdle)
Touch == usedUp.touches < MaxTouches /\ usedUp' = [usedUp EXCEPT !.touches = @ + 1]
Fault == usedUp.faults < MaxFaults /\ usedUp' = [usedUp EXCEPT !.faults = @ + 1]

(* Rows are alike until they are made. *)
FreshRows == {t \in Tasks : task[t].status = NoTask /\ \A w \in Hands : ~(HandAt(w, "make") /\ hand[w].on = t)}
Makes(w, state) ==
  /\ FreshRows # {}
  /\ HandBecomes(w, [state EXCEPT !.pc = "make", !.on = CHOOSE t \in FreshRows : TRUE])

-----------------------------------------------------------------------------
(* createTask: by hand, without the search for an equivalent open task, or *)
(* for an event, whose deduplication key lets it through once.             *)
BeginTask(w) ==
  /\ HandAt(w, "idle") /\ Touch
  /\ Makes(w, HandIdle)
  /\ UNCHANGED <<task, event, workflowRan>>

BeginEvent(w) ==
  /\ HandAt(w, "idle") /\ event.status = NoTask
  /\ event' = [event EXCEPT !.status = "PENDING"]
  /\ HandBecomes(w, [HandIdle EXCEPT !.pc = "look", !.forEvent = TRUE])
  /\ UNCHANGED <<task, workflowRan, usedUp>>

(* Every task of the board is taken to be about the event's record. *)
FindOpenTask(w) ==
  /\ HandAt(w, "look")
  /\ \/ \E t \in Tasks : task[t].status \in OpenTask /\ HandGoes(w, "processed")
     \/ (\A t \in Tasks : task[t].status \notin OpenTask) /\ Makes(w, hand[w])
  /\ UNCHANGED <<task, event, workflowRan, usedUp>>

(* The body or the SLA of the task's type gives it a due date, or neither. *)
MakeTask(w) ==
  /\ HandAt(w, "make")
  /\ \E assignee \in {Nobody} \cup Staff, due \in {"none", "set"} :
       task' = [task EXCEPT ![hand[w].on] =
         [EmptyTask EXCEPT !.status = IF assignee = Nobody THEN "NEW" ELSE "ASSIGNED",
                           !.assignee = assignee, !.due = due]]
  /\ IF hand[w].forEvent THEN HandGoes(w, "processed") ELSE HandDone(w)
  /\ UNCHANGED <<event, workflowRan, usedUp>>

ProcessEvent(w) ==
  /\ HandAt(w, "processed")
  /\ event' = [event EXCEPT !.status = "PROCESSED"]
  /\ HandDone(w)
  /\ UNCHANGED <<task, workflowRan, usedUp>>

(* A call of createFromEvent's fails, the one after the task too. *)
EventFault(w) ==
  /\ hand[w].forEvent /\ hand[w].pc \in {"look", "make", "processed"}
  /\ Fault
  /\ HandGoes(w, "failed")
  /\ UNCHANGED <<task, event, workflowRan>>

FailEvent(w) ==
  /\ HandAt(w, "failed")
  /\ event' = [status |-> "FAILED", attempts |-> event.attempts + 1]
  /\ HandDone(w)
  /\ UNCHANGED <<task, workflowRan, usedUp>>

-----------------------------------------------------------------------------
(* What the operations make of the row they have read. *)
AssignedRow(r)   == {[r EXCEPT !.assignee = s, !.status = IF ValidMove(@, "ASSIGNED") THEN "ASSIGNED" ELSE @] :
                       s \in {s \in Staff : r.assignee = Nobody}}
ReassignedRow(r) == {[r EXCEPT !.assignee = s] : s \in Staff}
EscalatedRow(r)  == {[r EXCEPT !.level = level, !.escalated = TRUE,
                               !.status = IF ValidMove(@, "ESCALATED") THEN "ESCALATED" ELSE @] :
                       level \in {r.level + 1} \cap 1..MAX_ESCALATION_LEVEL}
MovedRow(r)      == {[r EXCEPT !.status = to] :
                       to \in {to \in {"COMPLETED", "CANCELLED", "REOPENED", "ARCHIVED"} : ValidMove(r.status, to)}}
EditedRow(r)     == {[r EXCEPT !.due = due] : due \in {"none", "set", "past"}}

ChangesOf(r) == AssignedRow(r) \cup ReassignedRow(r) \cup EscalatedRow(r) \cup MovedRow(r) \cup EditedRow(r)

BeginUpdate(w, t) ==
  /\ HandAt(w, "idle") /\ task[t].status # NoTask /\ Touch
  /\ \E row \in ChangesOf(task[t]) : HandBecomes(w, [HandIdle EXCEPT !.pc = "write", !.on = t, !.row = row])
  /\ UNCHANGED <<task, event, workflowRan>>

(* Mutant: the update does not ask for the version that was read. *)
AnyTaskVersion(w) == TRUE

SameVersion(w) == task[hand[w].on].version = hand[w].row.version

(* withVersionedUpdate.  A 409 ends the handler, the sweep too. *)
WriteTask(w) ==
  /\ HandAt(w, "write")
  /\ \/ /\ SameVersion(w)
        /\ task' = [task EXCEPT ![hand[w].on] = [hand[w].row EXCEPT !.version = task[hand[w].on].version + 1]]
        /\ IF hand[w].sweeps THEN HandGoes(w, "sweep") ELSE HandDone(w)
     \/ ~SameVersion(w) /\ HandDone(w) /\ UNCHANGED task
  /\ UNCHANGED <<event, workflowRan, usedUp>>

-----------------------------------------------------------------------------
(* Mutant: only tasks not yet reopened are looked through. *)
OverdueNew == {t \in Tasks : task[t].status \in {"NEW", "ASSIGNED"} /\ task[t].due = "past"}

OverdueTasks == {t \in Tasks : task[t].status \in OpenTask /\ task[t].due = "past"}

(* runWorkflowAutomationSweep *)
EscalationSweep(w) ==
  /\ ~workflowRan /\ HandAt(w, "idle")
  /\ workflowRan' = TRUE
  /\ HandBecomes(w, [HandIdle EXCEPT !.pc = "sweep", !.sweeps = TRUE,
                       !.todo = {t \in OverdueTasks : ~task[t].escalated /\ task[t].level < MAX_ESCALATION_LEVEL}])
  /\ UNCHANGED <<task, event, usedUp>>

(* escalateTask reads the row again, in whatever status it is by now. *)
EscalateNext(w) ==
  /\ HandAt(w, "sweep")
  /\ \E t \in hand[w].todo :
       \/ \E row \in EscalatedRow(task[t]) :
            HandBecomes(w, [hand[w] EXCEPT !.pc = "write", !.on = t, !.row = row, !.todo = @ \ {t}])
       \/ EscalatedRow(task[t]) = {} /\ HandDone(w)
  /\ UNCHANGED <<task, event, workflowRan, usedUp>>

SweepEvents(w) ==
  /\ HandAt(w, "sweep") /\ hand[w].todo = {}
  /\ IF event.status = "FAILED" THEN HandGoes(w, "retry") ELSE HandDone(w)
  /\ UNCHANGED <<task, event, workflowRan, usedUp>>

BeginEventRetry(w) ==
  /\ HandAt(w, "idle") /\ event.status = "FAILED" /\ Touch
  /\ HandBecomes(w, [HandIdle EXCEPT !.pc = "retry"])
  /\ UNCHANGED <<task, event, workflowRan>>

(* Mutant: the attempts are not counted against the cap. *)
AlwaysRetriable == TRUE

Retriable == event.attempts < RetryCap

CheckRetry(w) ==
  /\ HandAt(w, "retry")
  /\ IF Retriable THEN HandGoes(w, "refuse") ELSE HandDone(w)
  /\ UNCHANGED <<task, event, workflowRan, usedUp>>

(* No caller stores the task's type in the event, so that no retry makes   *)
(* a task: it is counted, and the event stays failed.                      *)
RefuseRetry(w) ==
  /\ HandAt(w, "refuse")
  /\ event' = [status |-> "FAILED", attempts |-> event.attempts + 1]
  /\ HandDone(w)
  /\ UNCHANGED <<task, workflowRan, usedUp>>

-----------------------------------------------------------------------------
KillHand(w) ==
  /\ ~HandAt(w, "idle") /\ Fault
  /\ HandDone(w)
  /\ UNCHANGED <<task, event, workflowRan>>

(* The night: what was to come is past, and the next day has its own sweep. *)
DueDatesPass ==
  /\ workflowRan /\ \A w \in Hands : HandAt(w, "idle")
  /\ workflowRan' = FALSE
  /\ task' = [t \in Tasks |-> [task[t] EXCEPT !.due = IF @ = "set" THEN "past" ELSE @]]
  /\ UNCHANGED <<event, usedUp, hand>>

HandWork(w) ==
  \/ FindOpenTask(w) \/ MakeTask(w) \/ ProcessEvent(w) \/ FailEvent(w)
  \/ WriteTask(w) \/ EscalateNext(w) \/ SweepEvents(w) \/ CheckRetry(w) \/ RefuseRetry(w)

BoardNext ==
  \/ DueDatesPass
  \/ \E w \in Hands :
       \/ HandWork(w) \/ EscalationSweep(w) \/ EventFault(w) \/ KillHand(w)
       \/ BeginTask(w) \/ BeginEvent(w) \/ BeginEventRetry(w)
       \/ \E t \in Tasks : BeginUpdate(w, t)

BoardSpec == BoardInit /\ [][BoardNext]_boardVars

(* Handlers go on, the platform fires the tick every day, and days end. *)
BoardFairness ==
  /\ WF_boardVars(DueDatesPass) /\ WF_boardVars(\E w \in Hands : EscalationSweep(w))
  /\ \A w \in Hands : WF_boardVars(HandWork(w))

-----------------------------------------------------------------------------
(* Properties *)

BoardTypeOK ==
  /\ task \in [Tasks -> Task] /\ event \in Event
  /\ workflowRan \in BOOLEAN
  /\ usedUp \in [touches: 0..MaxTouches, faults: 0..MaxFaults]
  /\ hand \in [Hands -> Hand]

(* status.ts:3-5, engine.ts:351-353: whatever handlers read the row        *)
(* together, and whenever the sweep comes between, a task's status goes    *)
(* only where the table allows, and an archived task never moves again.   *)
StatusAllowed ==
  [][\A t \in Tasks : task[t].status # NoTask => ValidMove(task[t].status, task'[t].status)]_boardVars

(* retry.ts:8-10, automation-sweep.ts:17: an event is retried no more than *)
(* it may be, save that handlers which read the attempts together pass the *)
(* cap together, as every sweep finds it failed again.                     *)
RetriesBounded == event.attempts < RetryCap + Cardinality(Hands)

(* automation-sweep.ts:14-16: an open task that is overdue comes to be     *)
(* escalated, whichever operations and aborted sweeps come between, unless *)
(* it is closed or given another date.                                     *)
Neglected(t) == task[t].status \in OpenTask /\ task[t].due = "past" /\ ~task[t].escalated
OverdueEscalates == \A t \in Tasks : []<>~Neglected(t)
=============================================================================
