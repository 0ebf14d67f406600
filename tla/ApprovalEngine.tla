--------------------------- MODULE ApprovalEngine ---------------------------
(***************************************************************************)
(* The maker-checker engine (src/src/lib/approvals): one ApprovalRequest   *)
(* with its ApprovalStep ladder and its ApprovalReviewer rows, and the     *)
(* request handlers that work on them.                                     *)
(*                                                                         *)
(* A handler is a "call".  It is not a transaction: every prisma call is   *)
(* one atomic step of the database and other calls run between any two of  *)
(* them, so each action below is one such step and call[c].pc says what    *)
(* the handler does next.  The only protection the code has is             *)
(* withVersionedUpdate, a compare-and-set on the request's version; steps  *)
(* and reviewers are written without it.                                   *)
(*                                                                         *)
(* The fields of "history" and the field "cleared" of a call record what   *)
(* happened: no action reads them except to update them.                   *)
(***************************************************************************)
EXTENDS Naturals, FiniteSets

CONSTANTS
  Admins,         \* AdminUser rows that may act on the request
  Maker,          \* request.makerId
  RoleOf,         \* [Admins -> role]
  Delegates,      \* admins for whom hasActiveDelegationFor answers true
  Exposed,        \* admins who may come to work on the record itself meanwhile
  AllowedRoles,   \* policy.allowedRoles
  RequiredLevel,  \* the request's requiredLevel, 1..5
  PolicyQuorum,   \* policy.quorum
  Calls,          \* handler invocations that may be in flight together
  Sweeper,        \* the call the daily cron makes
  Kinds,          \* the operations and the events of the environment in play
  MaxSteps,       \* bound: steps on the ladder, escalations included
  MaxVersion      \* bound: no call begins once the version has passed it

SuperAdmin == "SUPER_ADMIN"

Decisions == {"APPROVE", "REJECT", "REQUEST_CHANGES"}

AllKinds == Decisions \cup {"SUBMIT", "CANCEL", "ESCALATE", "GATE", "EXECUTE", "DEADLINE", "DEACTIVATE", "CONFLICT", "CRASH"}

ASSUME ConstantsAssumption ==
  /\ IsFiniteSet(Admins) /\ Maker \in Admins
  /\ Delegates \subseteq Admins /\ Exposed \subseteq Admins \ {Maker}
  /\ Sweeper \in Calls
  /\ RequiredLevel \in 1..5
  /\ PolicyQuorum \in Nat \ {0}
  /\ Kinds \subseteq AllKinds
  /\ MaxSteps \in Nat \ {0, 1}
  /\ MaxVersion \in Nat

Active    == {"PENDING_APPROVAL", "PARTIALLY_APPROVED"}   \* of the ACTIVE statuses, those the engine writes
Granted   == {"APPROVED", "EXECUTION_PENDING", "EXECUTING", "EXECUTED"}
Closed    == {"REJECTED", "CANCELLED", "EXPIRED"}
Statuses  == Active \cup Granted \cup Closed \cup {"DRAFT", "CHANGES_REQUESTED", "EXECUTION_FAILED"}

(* ALLOWED_TRANSITIONS, restricted to the statuses the engine writes, and  *)
(* SUBMITTED, which it only names: submitting goes straight on to          *)
(* PENDING_APPROVAL.                                                       *)
AllowedTransitions(s) ==
  CASE s = "DRAFT"              -> {"SUBMITTED", "CANCELLED"}
    [] s = "PENDING_APPROVAL"   -> {"PARTIALLY_APPROVED", "APPROVED", "REJECTED", "CHANGES_REQUESTED", "CANCELLED", "EXPIRED"}
    [] s = "PARTIALLY_APPROVED" -> {"PENDING_APPROVAL", "APPROVED", "REJECTED", "CHANGES_REQUESTED", "CANCELLED", "EXPIRED"}
    [] s = "APPROVED"           -> {"EXECUTION_PENDING", "CANCELLED", "EXPIRED"}
    [] s = "CHANGES_REQUESTED"  -> {"SUBMITTED", "CANCELLED"}
    [] s = "EXECUTION_PENDING"  -> {"EXECUTING", "EXECUTION_FAILED"}
    [] s = "EXECUTING"          -> {"EXECUTED", "EXECUTION_FAILED"}
    [] s = "EXECUTION_FAILED"   -> {"EXECUTION_PENDING", "CANCELLED"}
    [] OTHER                    -> {}

isValidTransition(from, to) == from = to \/ to \in AllowedTransitions(from)

-----------------------------------------------------------------------------
(* The ladder *)

StepIds == 1..MaxSteps
Atleast2(n) == IF n < 2 THEN 2 ELSE n

NoStep == [level |-> 0, roles |-> {}, quorum |-> 0, status |-> "ABSENT"]
NewStep(level, roles, quorum) == [level |-> level, roles |-> roles, quorum |-> quorum, status |-> "PENDING"]
ManagerRoles == IF AllowedRoles \ {SuperAdmin} = {} THEN AllowedRoles ELSE AllowedRoles \ {SuperAdmin}

(* One step per rung.  Levels 2 and 5 ask for several independent          *)
(* approvers, level 3 for a manager and then a Super Admin.                *)
BuildSteps ==
  [i \in StepIds |->
     CASE i = 1 /\ RequiredLevel = 1        -> NewStep(1, AllowedRoles, 1)
       [] i = 1 /\ RequiredLevel \in {2, 5} -> NewStep(RequiredLevel, AllowedRoles, Atleast2(PolicyQuorum))
       [] i = 1 /\ RequiredLevel = 3        -> NewStep(3, ManagerRoles, 1)
       [] i = 2 /\ RequiredLevel = 3        -> NewStep(3, {SuperAdmin}, 1)
       [] i = 1 /\ RequiredLevel = 4        -> NewStep(4, {SuperAdmin}, 1)
       [] OTHER                             -> NoStep]

-----------------------------------------------------------------------------
VARIABLES
  req,        \* the ApprovalRequest row: status, version, level (currentLevel)
  steps,      \* [StepIds -> step], status "ABSENT" where no row exists
  reviews,    \* [StepIds -> [Admins -> decision]], "NONE" where no row exists
  late,       \* the clock has passed request.expiresAt
  active,     \* admins with AdminUser.active
  conflicted, \* admins the record names now: its assignee, its last reviewer, its refund's requester
  call,       \* [Calls -> the state of the handler]
  performed,  \* how often a gated route has run the governed mutation
  succeeded,  \* executionLog rows marked SUCCEEDED
  history     \* history, see above

vars == <<req, steps, reviews, late, active, conflicted, call, performed, succeeded, history>>
rows == <<req, steps, reviews, late, active, conflicted, performed, succeeded, history>>

Row  == [status: Statuses, version: Nat, level: Nat]
Step == [level: Nat, roles: SUBSET (AllowedRoles \cup {SuperAdmin}), quorum: Nat,
         status: {"ABSENT", "PENDING", "IN_PROGRESS", "SATISFIED"}]
History == [standing: SUBSET (StepIds \X Admins),    \* approvals the last request for changes left standing
            sinceReset: SUBSET (StepIds \X Admins),  \* approvals since reviewers were last reset
            decider: SUBSET Admins, escalated: BOOLEAN]
ReviewValues == {"NONE", "PENDING", "APPROVED", "REJECTED", "CHANGES_REQUESTED"}
PCs == {"idle", "authorize", "upsert", "reject", "wipeReviewers", "wipeSteps", "changes",
        "quorum", "partial", "satisfy", "openNext", "advance", "approve", "submit", "openFirst",
        "cancel", "expireRead", "expire", "addStep", "escalate", "perform", "execRead",
        "pendingCas", "reread", "executing", "reread2", "executed", "logSucceeded",
        "failRead", "fail"}
(* From here on the handler has a step in hand. *)
WorksOnStep == {"upsert", "quorum", "satisfy", "openNext", "advance", "addStep", "escalate"}
Call == {r \in [pc: PCs, kind: AllKinds \cup {"SWEEP", "NONE"}, actor: Admins, snap: Row, step: 0..MaxSteps,
                cleared: BOOLEAN] :
           r.pc \in WorksOnStep => r.step # 0}

NoRow  == [status |-> "DRAFT", version |-> 0, level |-> 0]
IdleCall == [pc |-> "idle", kind |-> "NONE", actor |-> Maker, snap |-> NoRow, step |-> 0,
             cleared |-> FALSE]

(* createApprovalRequest has stored the request and its ladder.            *)
Init ==
  /\ req = [status |-> "DRAFT", version |-> 1, level |-> 0]
  /\ steps = BuildSteps
  /\ reviews = [i \in StepIds |-> [a \in Admins |-> "NONE"]]
  /\ late = FALSE
  /\ active = Admins
  /\ conflicted \in SUBSET Exposed
  /\ call = [c \in Calls |-> IdleCall]
  /\ performed = 0
  /\ succeeded = 0
  /\ history = [standing |-> {}, sinceReset |-> {}, decider |-> {}, escalated |-> FALSE]

-----------------------------------------------------------------------------
(* What a handler does to its own state *)

At(c, pc)    == call[c].pc = pc
Goto(c, pc)  == call' = [call EXCEPT ![c].pc = pc]
Done(c)      == call' = [call EXCEPT ![c] = IdleCall]
Reread(c, pc) == call' = [call EXCEPT ![c].pc = pc, ![c].snap = req]

(* An HttpError leaves the handler.  Only the execute route catches it, to *)
(* call markApprovalExecutionFailed.                                       *)
Throw(c) ==
  IF call[c].kind = "EXECUTE" /\ call[c].pc \notin {"failRead", "fail"}
    THEN Goto(c, "failRead")
    ELSE Done(c)

(* Not the maker, and not named by the record. *)
Free(a) == a # Maker /\ a \notin conflicted

(* A new call reads the request and goes on at pc. *)
Begin(c, a, kind, pc) ==
  /\ At(c, "idle")
  /\ c # Sweeper
  /\ req.version <= MaxVersion
  /\ kind \in Kinds
  /\ call' = [call EXCEPT ![c] = [pc |-> pc, kind |-> kind, actor |-> a, snap |-> req, step |-> 0,
                                  cleared |-> kind \in Decisions /\ Free(a)]]
  /\ UNCHANGED rows

(* withVersionedUpdate: the write happens only if the row still has the    *)
(* version the handler read.                                               *)
(* Mutant: the compare-and-set is a plain update. *)
AnyVersion(c) == TRUE

Fresh(c) == req.version = call[c].snap.version

VersionedUpdate(status, level) ==
  req' = [req EXCEPT !.status = status, !.level = level, !.version = req.version + 1]

LosesRace(c) ==
  /\ ~Fresh(c)
  /\ Throw(c)
  /\ UNCHANGED rows

(* A handler whose last write is the versioned update. *)
Conclude(c, pc, status, level) ==
  /\ At(c, pc)
  /\ \/ /\ Fresh(c)
        /\ VersionedUpdate(status, level)
        /\ Done(c)
        /\ UNCHANGED <<steps, reviews, late, active, conflicted, performed, succeeded, history>>
     \/ LosesRace(c)

-----------------------------------------------------------------------------
(* policy-engine.ts and conflict.ts: what the guards read *)

isExpired == late /\ req.status \notin {"EXECUTED", "CANCELLED"}

(* Mutant: the conflict check is dropped. *)
NoConflictCheck(a) == FALSE

(* Its reads of the request, the assignee and the record are one step. *)
detectConflict(a) == a = Maker \/ a \in conflicted

validateApprover(a) ==
  /\ a # Maker
  /\ a \in active
  /\ AllowedRoles = {} \/ RoleOf[a] \in AllowedRoles \/ a \in Delegates

canApprove(a) ==
  /\ req.status \in Active
  /\ ~isExpired
  /\ validateApprover(a)

Present == {i \in StepIds : steps[i].status # "ABSENT"}
AtLevel(l) == {i \in Present : steps[i].level = l}
InProgress(l) == {i \in AtLevel(l) : steps[i].status = "IN_PROGRESS"}
Highest(S) == CHOOSE i \in S : \A j \in S : j <= i
Lowest(S)  == CHOOSE i \in S : \A j \in S : i <= j

(* The latest step in progress at the level, else the first at the level;  *)
(* 0 when the level has no step.                                           *)
findOpenStep(l) ==
  IF InProgress(l) # {} THEN Highest(InProgress(l))
  ELSE IF AtLevel(l) # {} THEN Lowest(AtLevel(l))
  ELSE 0

Eligible(i, a) ==
  LET roles == IF steps[i].roles = {} THEN AllowedRoles ELSE steps[i].roles
  IN  roles = {} \/ RoleOf[a] \in roles

(* Mutant: the step's role is not checked again. *)
AnyRoleApprovals(i) == {a \in active \ {Maker} : reviews[i][a] = "APPROVED"}

ValidApprovals(i) ==
  {a \in active \ {Maker} : reviews[i][a] = "APPROVED" /\ Eligible(i, a)}

(* The request's level and the open step are read again, whatever step the *)
(* caller has in hand.                                                     *)
checkQuorum ==
  LET i == findOpenStep(req.level)
  IN  i # 0 /\ Cardinality(ValidApprovals(i)) >= steps[i].quorum

-----------------------------------------------------------------------------
(* recordDecision *)

BeginDecision(c, a, kind) == kind \in Decisions /\ Begin(c, a, kind, "authorize")

(* isExpired, detectConflict and canApprove read the database afresh; the  *)
(* open step is looked up at the level the handler read first.             *)
Authorize(c) ==
  LET i == findOpenStep(call[c].snap.level)
  IN  /\ At(c, "authorize")
      /\ IF isExpired THEN Goto(c, "expireRead")
         ELSE IF ~detectConflict(call[c].actor) /\ canApprove(call[c].actor) /\ i # 0
           THEN call' = [call EXCEPT ![c].step = i, ![c].pc = "upsert"]
         ELSE Throw(c)
      /\ UNCHANGED rows

(* Mutant: the request's own word is stored. *)
RawDecision(kind) == kind

DecisionValue(kind) ==
  CASE kind = "APPROVE" -> "APPROVED" [] kind = "REJECT" -> "REJECTED" [] OTHER -> "CHANGES_REQUESTED"

AfterUpsert(kind) ==
  CASE kind = "APPROVE" -> "quorum" [] kind = "REJECT" -> "reject" [] OTHER -> "wipeReviewers"

(* The reviewer row is written without looking at the request again. *)
UpsertReviewer(c) ==
  LET vote == <<call[c].step, call[c].actor>>
  IN  /\ At(c, "upsert")
      /\ reviews' = [reviews EXCEPT ![call[c].step][call[c].actor] = DecisionValue(call[c].kind)]
      /\ Goto(c, AfterUpsert(call[c].kind))
      /\ history' =
           IF call[c].kind # "APPROVE" THEN history
           ELSE [history EXCEPT !.standing = @ \cup {vote}, !.sinceReset = @ \cup {vote}]
      /\ UNCHANGED <<req, steps, late, active, conflicted, performed, succeeded>>

Reject(c) == Conclude(c, "reject", "REJECTED", req.level)

(* Mutant: the decisions are left as they are. *)
KeepReviewers(c) ==
  /\ At(c, "wipeReviewers")
  /\ Goto(c, "wipeSteps")
  /\ history' = [history EXCEPT !.sinceReset = {}]
  /\ UNCHANGED <<req, steps, reviews, late, active, conflicted, performed, succeeded>>

(* REQUEST_CHANGES resets every reviewer and every step, and only then     *)
(* tries the versioned update.                                             *)
WipeReviewers(c) ==
  /\ At(c, "wipeReviewers")
  /\ reviews' = [i \in StepIds |-> [a \in Admins |-> IF reviews[i][a] = "NONE" THEN "NONE" ELSE "PENDING"]]
  /\ Goto(c, "wipeSteps")
  /\ history' = [history EXCEPT !.sinceReset = {}]
  /\ UNCHANGED <<req, steps, late, active, conflicted, performed, succeeded>>

WipeSteps(c) ==
  /\ At(c, "wipeSteps")
  /\ steps' = [i \in StepIds |-> IF i \in Present THEN [steps[i] EXCEPT !.status = "PENDING"] ELSE steps[i]]
  /\ Goto(c, "changes")
  /\ UNCHANGED <<req, reviews, late, active, conflicted, performed, succeeded, history>>

RequestChanges(c) ==
  /\ At(c, "changes")
  /\ \/ /\ Fresh(c)
        /\ VersionedUpdate("CHANGES_REQUESTED", steps[1].level)
        /\ Done(c)
        /\ history' = [history EXCEPT !.standing = history.sinceReset]
        /\ UNCHANGED <<steps, reviews, late, active, conflicted, performed, succeeded>>
     \/ LosesRace(c)

(* APPROVE: is the quorum met now?  The answer is used after the read. *)
CheckQuorum(c) ==
  /\ At(c, "quorum")
  /\ Goto(c, IF checkQuorum THEN "satisfy" ELSE "partial")
  /\ UNCHANGED rows

PartiallyApprove(c) == Conclude(c, "partial", "PARTIALLY_APPROVED", req.level)

SatisfyStep(c) ==
  /\ At(c, "satisfy")
  /\ steps' = [steps EXCEPT ![call[c].step].status = "SATISFIED"]
  /\ Goto(c, "openNext")
  /\ UNCHANGED <<req, reviews, late, active, conflicted, performed, succeeded, history>>

(* The next step of the ladder is opened before the versioned update, too. *)
OpenNextStep(c) ==
  LET later == {i \in Present : i > call[c].step}
  IN  /\ At(c, "openNext")
      /\ \/ /\ later = {}
            /\ Goto(c, "approve")
            /\ UNCHANGED steps
         \/ /\ later # {}
            /\ steps' = [steps EXCEPT ![Lowest(later)].status = "IN_PROGRESS"]
            /\ call' = [call EXCEPT ![c].pc = "advance", ![c].step = Lowest(later)]
      /\ UNCHANGED <<req, reviews, late, active, conflicted, performed, succeeded, history>>

AdvanceLevel(c) == Conclude(c, "advance", "PENDING_APPROVAL", steps[call[c].step].level)

Approve(c) ==
  /\ At(c, "approve")
  /\ \/ /\ Fresh(c)
        /\ VersionedUpdate("APPROVED", req.level)
        /\ Done(c)
        /\ history' = [history EXCEPT !.decider = {call[c].actor}]
        /\ UNCHANGED <<steps, reviews, late, active, conflicted, performed, succeeded>>
     \/ LosesRace(c)

-----------------------------------------------------------------------------
(* submitApprovalRequest (the route lets only the maker in) *)

BeginSubmit(c) ==
  /\ isValidTransition(req.status, "SUBMITTED")
  /\ Begin(c, Maker, "SUBMIT", "submit")

Submit(c) ==
  /\ At(c, "submit")
  /\ \/ /\ Fresh(c)
        /\ VersionedUpdate("PENDING_APPROVAL", steps[1].level)
        /\ Goto(c, "openFirst")
        /\ UNCHANGED <<steps, reviews, late, active, conflicted, performed, succeeded, history>>
     \/ LosesRace(c)

OpenFirstStep(c) ==
  /\ At(c, "openFirst")
  /\ steps' = [steps EXCEPT ![1].status = "IN_PROGRESS"]
  /\ Done(c)
  /\ UNCHANGED <<req, reviews, late, active, conflicted, performed, succeeded, history>>

-----------------------------------------------------------------------------
(* cancelApprovalRequest, expireApprovalRequest, escalateApproval *)

(* The maker, or an administrator with broad access to the record.         *)
BeginCancel(c) ==
  /\ isValidTransition(req.status, "CANCELLED")
  /\ Begin(c, Maker, "CANCEL", "cancel")

Cancel(c) == Conclude(c, "cancel", "CANCELLED", req.level)

(* Mutant: the sweep looks for one status only. *)
SweepPendingOnly ==
  /\ At(Sweeper, "idle")
  /\ late
  /\ req.status = "PENDING_APPROVAL"
  /\ call' = [call EXCEPT ![Sweeper] = [pc |-> "expireRead", kind |-> "SWEEP", actor |-> Maker,
                                        snap |-> NoRow, step |-> 0, cleared |-> FALSE]]
  /\ UNCHANGED rows

(* runApprovalAutomationSweep picks the request up. *)
BeginSweep ==
  /\ At(Sweeper, "idle")
  /\ late
  /\ req.status \in Active
  /\ call' = [call EXCEPT ![Sweeper] = [pc |-> "expireRead", kind |-> "SWEEP", actor |-> Maker,
                                        snap |-> NoRow, step |-> 0, cleared |-> FALSE]]
  /\ UNCHANGED rows

ExpireRead(c) ==
  /\ At(c, "expireRead")
  /\ IF isValidTransition(req.status, "EXPIRED") THEN Reread(c, "expire") ELSE Done(c)
  /\ UNCHANGED rows

Expire(c) == Conclude(c, "expire", "EXPIRED", req.level)

(* The handler also reads the last step.  Who escalates, cancels or        *)
(* executes plays no part afterwards, so these calls carry the maker.      *)
BeginEscalate(c) ==
  /\ "ESCALATE" \in Kinds
  /\ At(c, "idle") /\ c # Sweeper
  /\ req.version <= MaxVersion
  /\ req.status \in Active
  /\ Highest(Present) < MaxSteps
  /\ call' = [call EXCEPT ![c] = [pc |-> "addStep", kind |-> "ESCALATE", actor |-> Maker, snap |-> req,
                                  step |-> Highest(Present) + 1, cleared |-> FALSE]]
  /\ UNCHANGED rows

NextLevel(l) == IF l < 5 THEN l + 1 ELSE 5

(* The new step is created in progress, before the versioned update; the   *)
(* unique (request, sequence) pair fails a second concurrent creation.     *)
AddStep(c) ==
  LET new == [level |-> NextLevel(call[c].snap.level), roles |-> {SuperAdmin}, quorum |-> 1,
              status |-> "IN_PROGRESS"]
  IN  /\ At(c, "addStep")
      /\ \/ /\ call[c].step \notin Present
            /\ steps' = [steps EXCEPT ![call[c].step] = new]
            /\ Goto(c, "escalate")
            /\ history' = [history EXCEPT !.escalated = TRUE]
         \/ /\ call[c].step \in Present
            /\ Throw(c)
            /\ UNCHANGED <<steps, history>>
      /\ UNCHANGED <<req, reviews, late, active, conflicted, performed, succeeded>>

Escalate(c) == Conclude(c, "escalate", "PENDING_APPROVAL", steps[call[c].step].level)

-----------------------------------------------------------------------------
(* enforceApprovalGate, the governed route, markApprovalExecuted *)

(* Mutant: a partial approval is enough to execute. *)
PartialIsExecutable == {"PARTIALLY_APPROVED", "APPROVED", "EXECUTION_PENDING", "EXECUTING"}

Executable == {"APPROVED", "EXECUTION_PENDING", "EXECUTING"}

(* The maker calls the governed route again; the gate finds the request    *)
(* and answers READY_TO_EXECUTE.                                           *)
BeginGate(c) ==
  /\ req.status \in Executable
  /\ performed <= MaxVersion
  /\ Begin(c, Maker, "GATE", "perform")

(* The route's own mutation, which does not look at the request again. *)
Perform(c) ==
  /\ At(c, "perform")
  /\ performed' = performed + 1
  /\ Goto(c, "execRead")
  /\ UNCHANGED <<req, steps, reviews, late, active, conflicted, succeeded, history>>

(* POST approvals/[id]/execute: any administrator who may execute. *)
BeginExecute(c) == Begin(c, Maker, "EXECUTE", "execRead")

ExecRead(c) ==
  /\ At(c, "execRead")
  /\ CASE req.status = "EXECUTED"    -> Done(c)
       [] req.status \in Executable  -> Reread(c, IF req.status = "APPROVED" THEN "pendingCas" ELSE "executing")
       [] OTHER                      -> Throw(c)
  /\ UNCHANGED rows

(* withVersionedUpdate returns a second read of the row, which may be a    *)
(* later version than the one it has just written; the next                *)
(* compare-and-set uses it.                                                *)
ExecCas(c, pc, status, next) ==
  /\ At(c, pc)
  /\ \/ /\ Fresh(c)
        /\ VersionedUpdate(status, req.level)
        /\ Goto(c, next)
        /\ UNCHANGED <<steps, reviews, late, active, conflicted, performed, succeeded, history>>
     \/ LosesRace(c)

ExecReread(c, pc, next) == At(c, pc) /\ Reread(c, next) /\ UNCHANGED rows

LogSucceeded(c) ==
  /\ At(c, "logSucceeded")
  /\ succeeded' = succeeded + 1
  /\ Done(c)
  /\ UNCHANGED <<req, steps, reviews, late, active, conflicted, performed, history>>

MarkExecuted(c) ==
  \/ ExecCas(c, "pendingCas", "EXECUTION_PENDING", "reread")
  \/ ExecReread(c, "reread", "executing")
  \/ ExecCas(c, "executing", "EXECUTING", "reread2")
  \/ ExecReread(c, "reread2", "executed")
  \/ ExecCas(c, "executed", "EXECUTED", "logSucceeded")
  \/ LogSucceeded(c)

(* markApprovalExecutionFailed checks no transition. *)
FailRead(c) == At(c, "failRead") /\ Reread(c, "fail") /\ UNCHANGED rows

MarkFailed(c) == Conclude(c, "fail", "EXECUTION_FAILED", req.level)

-----------------------------------------------------------------------------
(* The environment *)

PassDeadline ==
  /\ "DEADLINE" \in Kinds
  /\ late' = TRUE
  /\ UNCHANGED <<req, steps, reviews, active, conflicted, call, performed, succeeded, history>>

Deactivate(a) ==
  /\ "DEACTIVATE" \in Kinds
  /\ active' = active \ {a}
  /\ UNCHANGED <<req, steps, reviews, late, conflicted, call, performed, succeeded, history>>

(* The record is assigned to somebody else, or somebody reviews it: the     *)
(* admin comes into conflict, or out of it.                                *)
ConflictChanges(a) ==
  /\ "CONFLICT" \in Kinds
  /\ conflicted' = IF a \in conflicted THEN conflicted \ {a} ELSE conflicted \cup {a}
  /\ call' = [c \in Calls |->
                IF a \in conflicted /\ call[c].actor = a /\ call[c].kind \in Decisions
                  THEN [call[c] EXCEPT !.cleared = TRUE]
                  ELSE call[c]]
  /\ UNCHANGED <<req, steps, reviews, late, active, performed, succeeded, history>>

(* The serverless function dies between two awaits. *)
Crash(c) ==
  /\ "CRASH" \in Kinds
  /\ ~At(c, "idle")
  /\ Done(c)
  /\ UNCHANGED rows

(* The next await of a call in flight. *)
Continue(c) ==
  \/ Authorize(c) \/ UpsertReviewer(c)
  \/ Reject(c) \/ WipeReviewers(c) \/ WipeSteps(c) \/ RequestChanges(c)
  \/ CheckQuorum(c) \/ PartiallyApprove(c) \/ SatisfyStep(c) \/ OpenNextStep(c) \/ AdvanceLevel(c) \/ Approve(c)
  \/ Submit(c) \/ OpenFirstStep(c) \/ Cancel(c) \/ ExpireRead(c) \/ Expire(c) \/ AddStep(c) \/ Escalate(c)
  \/ Perform(c) \/ ExecRead(c) \/ MarkExecuted(c) \/ FailRead(c) \/ MarkFailed(c)

Start(c) ==
  \/ BeginSubmit(c) \/ BeginCancel(c) \/ BeginEscalate(c) \/ BeginGate(c) \/ BeginExecute(c)
  \/ \E a \in Admins, kind \in Decisions : BeginDecision(c, a, kind)

Next ==
  \/ \E c \in Calls : Continue(c) \/ Start(c) \/ Crash(c)
  \/ BeginSweep
  \/ PassDeadline
  \/ \E a \in Admins : Deactivate(a)
  \/ \E a \in Exposed : ConflictChanges(a)

Spec == Init /\ [][Next]_vars

(* Vercel runs the daily sweep, and a handler that is not killed goes on.  *)
FairSpec == Spec /\ WF_vars(BeginSweep) /\ \A c \in Calls : WF_vars(Continue(c))

-----------------------------------------------------------------------------
(* Properties *)

(* The rows and the handlers' locals hold what the schema and the types    *)
(* say.                                                                    *)
TypeOK ==
  /\ req \in Row
  /\ steps \in [StepIds -> Step] /\ 1 \in Present
  /\ reviews \in [StepIds -> [Admins -> ReviewValues]]
  /\ late \in BOOLEAN
  /\ active \subseteq Admins
  /\ conflicted \subseteq Exposed
  /\ call \in [Calls -> Call]
  /\ performed \in Nat
  /\ succeeded \in Nat
  /\ history \in History

(* From here on a decision writes. *)
Deciding == {"upsert", "reject", "wipeReviewers", "wipeSteps", "changes", "quorum", "partial", "satisfy",
             "openNext", "advance", "approve"}

(* The maker never gets a review recorded nor grants the request, and      *)
(* nobody else gets to decide who has been in conflict with the record all *)
(* the time since they asked to (conflict.ts; policy-engine.ts             *)
(* isSelfApproval), in whatever order the handlers interleave with each    *)
(* other and with changes of the record's assignee or last reviewer.       *)
NoConflictedDecision ==
  /\ Maker \notin history.decider
  /\ \A i \in StepIds : reviews[i][Maker] = "NONE"
  /\ \A c \in Calls : call[c].pc \in Deciding => call[c].cleared

Approvers(votes, i) == {a \in Admins \ {Maker} : <<i, a>> \in votes /\ Eligible(i, a)}

FullLadder(votes) ==
  \A i \in Present : Cardinality(Approvers(votes, i)) >= steps[i].quorum

(* A request that was granted without an escalation had every step of its  *)
(* ladder approved by that step's quorum of distinct eligible people, none *)
(* of them the maker, with approvals that no request for changes has       *)
(* undone, whatever races, crashes and lost updates happened on the way    *)
(* (buildSteps, checkQuorum).                                              *)
FourEyes == req.status \in Granted /\ ~history.escalated => FullLadder(history.standing)

(* A governed route never runs its mutation before that quorum was there   *)
(* (gate.ts), even when the request is cancelled or expires meanwhile.     *)
PerformedNeedsQuorum == performed > 0 /\ ~history.escalated => FullLadder(history.standing)

StatusStep(from, to) ==
  \/ isValidTransition(from, to)
  \/ to = "PENDING_APPROVAL" /\ "SUBMITTED" \in AllowedTransitions(from)

(* Every change of status is one ALLOWED_TRANSITIONS names (status.ts:3),  *)
(* so a request that was rejected, cancelled or expired stays so, however  *)
(* late a handler that had read it earlier comes.                          *)
StatusFollowsTable == [][StatusStep(req.status, req'.status)]_vars

(* A request nobody decides in time is closed by the daily sweep, also     *)
(* while other handlers keep changing it.                                  *)
LateRequestsClose == []<>~(late /\ req.status \in Active)

(* engine.ts:371: "a retried caller can never cause the underlying action  *)
(* to be counted as executed twice".                                       *)
CountedOnce == succeeded <= 1
=============================================================================
