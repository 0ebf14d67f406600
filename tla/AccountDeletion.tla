--------------------------- MODULE AccountDeletion ---------------------------
(***************************************************************************)
(* The erasure of an account: the applicant asks for it, an administrator  *)
(* approves or rejects it, and the retention sweep carries it out after a  *)
(* cooling-off period, unless a legal hold keeps the data.                 *)
(*                                                                         *)
(* One account, its requests and its holds.  A handler is an "officer"; an *)
(* action is one prisma call of it.  A function lives a minute at most, so *)
(* days end when no officer is at work; the cooling-off period is the      *)
(* night.  The approval gate is external: it answers "pass" or "wait".     *)
(***************************************************************************)
EXTENDS Naturals, FiniteSets

CONSTANTS
  Deletions,     \* requests that may be created
  Holds,         \* holds that may be placed
  Officers,      \* handler invocations that may be in flight together
  MaxDuties,     \* bound: operations people start, releases of holds apart
  MaxMishaps     \* bound: functions killed and database calls that fail

ASSUME DeletionConstants ==
  /\ Deletions # {} /\ Holds # {}
  /\ MaxDuties \in Nat /\ MaxMishaps \in Nat

AccountStatus  == {"ACTIVE", "DEACTIVATED", "DELETION_REQUESTED", "DELETION_PROCESSING", "DELETED"}
DeletionStatus == {"SUBMITTED", "SCHEDULED", "PROCESSING", "COMPLETED", "REJECTED"}
OpenDeletion   == {"SUBMITTED", "SCHEDULED", "PROCESSING"}
HoldStatus     == {"ACTIVE", "RELEASE_PENDING", "RELEASED"}
Absent         == "ABSENT"

VARIABLES
  account,     \* Profile.accountStatus
  data,        \* what is left of the person: the records, the files in storage
  deletion,    \* [Deletions -> the AccountDeletionRequest row; due: scheduledFor has come]
  hold,        \* [Holds -> the DataHold row; keeps: history, the data it has kept for a night]
  ticked,      \* the daily tick has run today
  lost,        \* history: requests whose sweep was killed, or gave up, while it processed them
  spentOn,     \* how many operations and mishaps there were
  officer      \* [Officers -> the state of the handler]

delVars == <<account, data, deletion, hold, ticked, lost, spentOn, officer>>

Deletion == [status: {Absent} \cup DeletionStatus, due: BOOLEAN]
Hold     == [status: {Absent} \cup HoldStatus, active: BOOLEAN, document: BOOLEAN, keeps: SUBSET {"records", "files"}]

OfficerPCs == {"idle", "create", "mark", "deactivate", "activate", "reject", "restore", "schedule", "processing",
               "pend", "check", "lift", "release", "liftDocument",
               "next", "hold", "start", "files", "erase", "log"}
AnyDeletion == CHOOSE d \in Deletions : TRUE
AnyHold     == CHOOSE h \in Holds : TRUE
Officer     == [pc: OfficerPCs, on: Deletions, of: Holds, todo: SUBSET Deletions]
OfficerIdle == [pc |-> "idle", on |-> AnyDeletion, of |-> AnyHold, todo |-> {}]

DelInit ==
  /\ account = "ACTIVE" /\ data = {"records", "files"}
  /\ deletion = [d \in Deletions |-> [status |-> Absent, due |-> FALSE]]
  /\ hold = [h \in Holds |-> [status |-> Absent, active |-> FALSE, document |-> FALSE, keeps |-> {}]]
  /\ ticked = FALSE /\ lost = {}
  /\ spentOn = [duties |-> 0, mishaps |-> 0]
  /\ officer = [o \in Officers |-> OfficerIdle]

-----------------------------------------------------------------------------
OfficerAt(o, pc) == officer[o].pc = pc
OfficerGoes(o, pc) == officer' = [officer EXCEPT ![o].pc = pc]
OfficerDone(o) == officer' = [officer EXCEPT ![o] = OfficerIdle]
TakesUp(o, pc, d, h) ==
  /\ OfficerAt(o, "idle")
  /\ officer' = [officer EXCEPT ![o] = [OfficerIdle EXCEPT !.pc = pc, !.on = d, !.of = h]]
Duty == spentOn.duties < MaxDuties /\ spentOn' = [spentOn EXCEPT !.duties = @ + 1]
Mishap == spentOn.mishaps < MaxMishaps /\ spentOn' = [spentOn EXCEPT !.mishaps = @ + 1]

(* softDeleted is written with the records; it closes the applicant's session. *)
SignedIn == "records" \in data

(* The account status is written blindly, whatever it was. *)
SetAccount(o, pc, status, goes) ==
  /\ OfficerAt(o, pc)
  /\ account' = status
  /\ IF goes = "idle" THEN OfficerDone(o) ELSE OfficerGoes(o, goes)
  /\ UNCHANGED <<data, deletion, hold, ticked, lost, spentOn>>

SetDeletion(o, status, due, goes) ==
  /\ deletion' = [deletion EXCEPT ![officer[o].on] = [status |-> status, due |-> due]]
  /\ OfficerGoes(o, goes)
  /\ UNCHANGED <<account, data, hold, ticked, lost, spentOn>>

(* Mutant: a hold whose release is only asked for holds no longer. *)
HeldUnpending == \E h \in Holds : hold[h].active /\ hold[h].status = "ACTIVE"

Held == \E h \in Holds : hold[h].active

-----------------------------------------------------------------------------
(* The applicant.  The account page refuses a second open request, the     *)
(* privacy page does not look, so any number of them may be open.          *)
BeginDeletionRequest(o, d) ==
  /\ SignedIn
  /\ deletion[d].status = Absent /\ \A p \in Officers : ~(OfficerAt(p, "create") /\ officer[p].on = d)
  /\ TakesUp(o, "create", d, AnyHold) /\ Duty
  /\ UNCHANGED <<account, data, deletion, hold, ticked, lost>>

CreateDeletion(o) == OfficerAt(o, "create") /\ SetDeletion(o, "SUBMITTED", FALSE, "mark")

MarkRequested(o) == SetAccount(o, "mark", "DELETION_REQUESTED", "idle")

BeginDeactivate(o) ==
  /\ SignedIn
  /\ TakesUp(o, "deactivate", AnyDeletion, AnyHold) /\ Duty
  /\ UNCHANGED <<account, data, deletion, hold, ticked, lost>>

DeactivateAccount(o) == SetAccount(o, "deactivate", "DEACTIVATED", "idle")

BeginReactivate(o) ==
  /\ SignedIn /\ account = "DEACTIVATED"
  /\ TakesUp(o, "activate", AnyDeletion, AnyHold) /\ Duty
  /\ UNCHANGED <<account, data, deletion, hold, ticked, lost>>

ReactivateAccount(o) == SetAccount(o, "activate", "ACTIVE", "idle")

-----------------------------------------------------------------------------
(* The review, of a request in any status.  An approval whose gate waits   *)
(* changes nothing here; one that passes finds no hold, or is refused.     *)
BeginRejectDeletion(o, d) ==
  /\ deletion[d].status # Absent
  /\ TakesUp(o, "reject", d, AnyHold) /\ Duty
  /\ UNCHANGED <<account, data, deletion, hold, ticked, lost>>

RejectDeletion(o) == OfficerAt(o, "reject") /\ SetDeletion(o, "REJECTED", deletion[officer[o].on].due, "restore")

RestoreAccount(o) == SetAccount(o, "restore", "ACTIVE", "idle")

BeginApproveDeletion(o, d) ==
  /\ deletion[d].status # Absent /\ ~Held
  /\ TakesUp(o, "schedule", d, AnyHold) /\ Duty
  /\ UNCHANGED <<account, data, deletion, hold, ticked, lost>>

(* The reviewer names the cooling-off days, 0 among them. *)
ScheduleDeletion(o) == OfficerAt(o, "schedule") /\ \E atOnce \in BOOLEAN : SetDeletion(o, "SCHEDULED", atOnce, "processing")

MarkProcessing(o) == SetAccount(o, "processing", "DELETION_PROCESSING", "idle")

-----------------------------------------------------------------------------
(* Holds are placed by one call and released by a request, when the gate   *)
(* passes; a document's hold has a route of its own.                       *)
PlaceHold(h) ==
  /\ hold[h].status = Absent /\ Duty
  /\ \E document \in BOOLEAN :
       hold' = [hold EXCEPT ![h] = [status |-> "ACTIVE", active |-> TRUE, document |-> document, keeps |-> {}]]
  /\ UNCHANGED <<account, data, deletion, ticked, lost, officer>>

SetHold(o, row, goes) ==
  /\ hold' = [hold EXCEPT ![officer[o].of] = row]
  /\ IF goes = "idle" THEN OfficerDone(o) ELSE OfficerGoes(o, goes)
  /\ UNCHANGED <<account, data, deletion, ticked, lost, spentOn>>

BeginRelease(o, h) ==
  /\ hold[h].active /\ hold[h].status # "RELEASE_PENDING"
  /\ TakesUp(o, "pend", AnyDeletion, h)
  /\ UNCHANGED <<account, data, deletion, hold, ticked, lost, spentOn>>

(* The gate waits or passes; the release is pending either way. *)
PendRelease(o) ==
  /\ OfficerAt(o, "pend")
  /\ \E goes \in {"idle", "check"} : SetHold(o, [hold[officer[o].of] EXCEPT !.status = "RELEASE_PENDING"], goes)

CheckRelease(o) ==
  /\ OfficerAt(o, "check")
  /\ SetHold(o, hold[officer[o].of], IF hold[officer[o].of].status = "RELEASE_PENDING" THEN "lift" ELSE "idle")

liftHold(o, goes) == SetHold(o, [hold[officer[o].of] EXCEPT !.active = FALSE, !.keeps = {}], goes)

LiftHold(o) == OfficerAt(o, "lift") /\ liftHold(o, "release")

ReleaseHold(o) ==
  /\ OfficerAt(o, "release")
  /\ SetHold(o, [hold[officer[o].of] EXCEPT !.status = "RELEASED"], "idle")

BeginDocumentRelease(o, h) ==
  /\ hold[h].document /\ hold[h].active
  /\ TakesUp(o, "liftDocument", AnyDeletion, h)
  /\ UNCHANGED <<account, data, deletion, hold, ticked, lost, spentOn>>

LiftDocumentHold(o) == OfficerAt(o, "liftDocument") /\ liftHold(o, "idle")

-----------------------------------------------------------------------------
(* runDueRetentionActions: the daily tick, or an administrator under no lock *)
DueDeletions == {d \in Deletions : deletion[d].status = "SCHEDULED" /\ deletion[d].due}

DailySweep(o) ==
  /\ ~ticked /\ OfficerAt(o, "idle")
  /\ ticked' = TRUE
  /\ officer' = [officer EXCEPT ![o] = [OfficerIdle EXCEPT !.pc = "next", !.todo = DueDeletions]]
  /\ UNCHANGED <<account, data, deletion, hold, lost, spentOn>>

ManualSweep(o) ==
  /\ DueDeletions # {}
  /\ OfficerAt(o, "idle") /\ Duty
  /\ officer' = [officer EXCEPT ![o] = [OfficerIdle EXCEPT !.pc = "next", !.todo = DueDeletions]]
  /\ UNCHANGED <<account, data, deletion, hold, ticked, lost>>

EndSweep(o) ==
  /\ OfficerAt(o, "next") /\ officer[o].todo = {}
  /\ OfficerDone(o)
  /\ UNCHANGED <<account, data, deletion, hold, ticked, lost, spentOn>>

(* executeAccountDeletion looks at the request again. *)
TakeDeletion(o) ==
  /\ OfficerAt(o, "next")
  /\ \E d \in officer[o].todo :
       officer' = [officer EXCEPT ![o].todo = @ \ {d}, ![o].on = d,
                                  ![o].pc = IF deletion[d].status = "SCHEDULED" THEN "hold" ELSE "next"]
  /\ UNCHANGED <<account, data, deletion, hold, ticked, lost, spentOn>>

CheckHold(o) ==
  /\ OfficerAt(o, "hold")
  /\ OfficerGoes(o, IF Held THEN "next" ELSE "start")
  /\ UNCHANGED <<account, data, deletion, hold, ticked, lost, spentOn>>

StartErasing(o) == OfficerAt(o, "start") /\ SetDeletion(o, "PROCESSING", deletion[officer[o].on].due, "files")

(* A file the storage does not give up is left behind, and nobody is told. *)
RemoveFiles(o) ==
  /\ OfficerAt(o, "files")
  /\ \/ data' = data \ {"files"} /\ UNCHANGED spentOn
     \/ Mishap /\ UNCHANGED data
  /\ OfficerGoes(o, "erase")
  /\ UNCHANGED <<account, deletion, hold, ticked, lost>>

(* One transaction. *)
Erase(o) ==
  /\ OfficerAt(o, "erase")
  /\ data' = data \ {"records"} /\ account' = "DELETED"
  /\ deletion' = [deletion EXCEPT ![officer[o].on].status = "COMPLETED"]
  /\ OfficerGoes(o, "log")
  /\ UNCHANGED <<hold, ticked, lost, spentOn>>

LogErasure(o) ==
  /\ OfficerAt(o, "log")
  /\ OfficerGoes(o, "next")
  /\ UNCHANGED <<account, data, deletion, hold, ticked, lost, spentOn>>

(* Mutant: a failed erasure stays in progress. *)
LeftProcessing(status) == status

(* Mutant: a failed erasure is marked as failed. *)
MarkedFailed(status) == "FAILED"

StatusAfterFailure(status) == "SCHEDULED"

(* Who leaves the request here leaves it in PROCESSING. *)
Strands(o) == IF OfficerAt(o, "files") \/ OfficerAt(o, "erase") THEN lost \cup {officer[o].on} ELSE lost

(* A call fails: the request waits for the next sweep, also one whose      *)
(* data are erased and only the log entry is missing.  It stays as it is   *)
(* if the failing call came before PROCESSING, or if the database is out   *)
(* and the write that puts it back fails as well, which is not noticed.    *)
FailErasure(o) ==
  /\ officer[o].pc \in {"hold", "start", "files", "erase", "log"}
  /\ Mishap
  /\ \/ /\ officer[o].pc \in {"files", "erase", "log"}
        /\ deletion' = [deletion EXCEPT ![officer[o].on].status = StatusAfterFailure(@)]
        /\ UNCHANGED lost
     \/ lost' = Strands(o) /\ UNCHANGED deletion
  /\ OfficerGoes(o, "next")
  /\ UNCHANGED <<account, data, hold, ticked>>

-----------------------------------------------------------------------------
KillOfficer(o) ==
  /\ ~OfficerAt(o, "idle") /\ Mishap
  /\ lost' = Strands(o)
  /\ OfficerDone(o)
  /\ UNCHANGED <<account, data, deletion, hold, ticked>>

(* The night: what is scheduled becomes due, and a hold has kept the data. *)
DayEnds ==
  /\ ticked /\ \A o \in Officers : OfficerAt(o, "idle")
  /\ ticked' = FALSE
  /\ deletion' = [d \in Deletions |-> [deletion[d] EXCEPT !.due = @ \/ deletion[d].status = "SCHEDULED"]]
  /\ hold' = [h \in Holds |-> [hold[h] EXCEPT !.keeps = IF hold[h].active THEN data ELSE {}]]
  /\ UNCHANGED <<account, data, lost, spentOn, officer>>

SweepWork(o) ==
  \/ EndSweep(o) \/ TakeDeletion(o) \/ CheckHold(o) \/ StartErasing(o)
  \/ RemoveFiles(o) \/ Erase(o) \/ LogErasure(o)

OfficerWork(o) ==
  \/ CreateDeletion(o) \/ MarkRequested(o) \/ DeactivateAccount(o) \/ ReactivateAccount(o)
  \/ RejectDeletion(o) \/ RestoreAccount(o) \/ ScheduleDeletion(o) \/ MarkProcessing(o)
  \/ PendRelease(o) \/ CheckRelease(o) \/ LiftHold(o) \/ ReleaseHold(o) \/ LiftDocumentHold(o)
  \/ SweepWork(o)

DelNext ==
  \/ DayEnds
  \/ \E h \in Holds : PlaceHold(h)
  \/ \E o \in Officers :
       \/ OfficerWork(o) \/ FailErasure(o) \/ KillOfficer(o)
       \/ BeginDeactivate(o) \/ BeginReactivate(o) \/ DailySweep(o) \/ ManualSweep(o)
       \/ \E d \in Deletions : BeginDeletionRequest(o, d) \/ BeginRejectDeletion(o, d) \/ BeginApproveDeletion(o, d)
       \/ \E h \in Holds : BeginRelease(o, h) \/ BeginDocumentRelease(o, h)

DelSpec == DelInit /\ [][DelNext]_delVars

(* Handlers go on, the platform fires the tick every day, and days end. *)
DelFairness ==
  /\ WF_delVars(DayEnds) /\ WF_delVars(\E o \in Officers : DailySweep(o))
  /\ \A o \in Officers : WF_delVars(OfficerWork(o))

-----------------------------------------------------------------------------
(* Properties *)

DelTypeOK ==
  /\ account \in AccountStatus /\ data \subseteq {"records", "files"}
  /\ deletion \in [Deletions -> Deletion] /\ hold \in [Holds -> Hold]
  /\ ticked \in BOOLEAN /\ lost \subseteq Deletions
  /\ spentOn \in [duties: 0..MaxDuties, mishaps: 0..MaxMishaps]
  /\ officer \in [Officers -> Officer]

(* deletion-request.ts:40-44, legal-hold.ts:54-55: what a hold has kept    *)
(* for a night it keeps until it is lifted, whatever was approved before   *)
(* it was placed, also while its release is only asked for.  (A hold       *)
(* placed while a sweep is past its check comes too late.)                 *)
HeldKept == \A h \in Holds : hold[h].keeps \subseteq data

(* runDueRetentionActions: an approved deletion is carried out, also when  *)
(* a database call fails on the way, unless it is rejected, a hold comes   *)
(* first, or the request is left in PROCESSING, where no sweep looks: by a *)
(* sweep that is killed, or by one whose write to put it back fails too    *)
(* (retention-policy.ts:86).                                               *)
DeletionCarriedOut ==
  \A d \in Deletions :
    []<>(deletion[d].status \in {"SCHEDULED", "PROCESSING"} => "records" \notin data \/ Held \/ d \in lost)

(* schema.prisma:4386-4387: "RELEASE_PENDING is the new state a            *)
(* maker-checker release request sits in before an approver executes it",  *)
(* so a release somebody asked for, and keeps asking for, and which is     *)
(* approved, comes to be executed.                                         *)
ReleaseCompletes == \A h \in Holds : hold[h].status = "RELEASE_PENDING" ~> ~hold[h].active

(* Administrators go on asking, and the gate does not wait for ever. *)
ReleaseFairness ==
  \A o \in Officers :
    /\ SF_delVars(PendRelease(o) /\ officer'[o].pc = "check")
    /\ \A h \in Holds : SF_delVars(BeginRelease(o, h))
=============================================================================
