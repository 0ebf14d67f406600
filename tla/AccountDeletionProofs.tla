------------------------ MODULE AccountDeletionProofs ------------------------
(***************************************************************************)
(* Proofs about AccountDeletion, for any number of requests, holds and     *)
(* handlers.                                                               *)
(***************************************************************************)
EXTENDS AccountDeletion, TLAPS

-----------------------------------------------------------------------------
(* What a step does to the handlers                                        *)

OtherOfficers(o) == \A p \in Officers \ {o} : officer'[p] = officer[p]

LEMMA IdleType == OfficerIdle \in Officer
<1>1. AnyDeletion \in Deletions /\ AnyHold \in Holds
  BY DeletionConstants DEF AnyDeletion, AnyHold
<1> QED
  BY <1>1 DEF OfficerIdle, Officer, OfficerPCs

LEMMA GoesEffect ==
  ASSUME DelTypeOK, NEW o \in Officers, NEW pc \in OfficerPCs, OfficerGoes(o, pc)
  PROVE  /\ officer' \in [Officers -> Officer] /\ OtherOfficers(o)
         /\ officer'[o].pc = pc /\ officer'[o].on = officer[o].on
<1>1. officer \in [Officers -> Officer] /\ officer[o] \in Officer
  BY DEF DelTypeOK
<1>2. officer' = [officer EXCEPT ![o] = [officer[o] EXCEPT !.pc = pc]]
  BY <1>1 DEF OfficerGoes
<1>3. [officer[o] EXCEPT !.pc = pc] \in Officer
  BY <1>1 DEF Officer
<1>4. officer'[o] = [officer[o] EXCEPT !.pc = pc] /\ OtherOfficers(o)
  BY <1>1, <1>2 DEF OtherOfficers
<1> QED
  BY <1>1, <1>2, <1>3, <1>4 DEF Officer

LEMMA DoneEffect ==
  ASSUME DelTypeOK, NEW o \in Officers, OfficerDone(o)
  PROVE  officer' \in [Officers -> Officer] /\ OtherOfficers(o) /\ officer'[o].pc = "idle"
<1>1. officer'[o] = OfficerIdle /\ OtherOfficers(o) /\ officer' \in [Officers -> Officer]
  BY IdleType DEF DelTypeOK, OfficerDone, OtherOfficers
<1> QED
  BY <1>1 DEF OfficerIdle

LEMMA TakesUpEffect ==
  ASSUME DelTypeOK, NEW o \in Officers, NEW pc \in OfficerPCs, NEW d \in Deletions, NEW h \in Holds, TakesUp(o, pc, d, h)
  PROVE  officer' \in [Officers -> Officer] /\ OtherOfficers(o) /\ officer'[o].pc = pc
<1> DEFINE taken == [OfficerIdle EXCEPT !.pc = pc, !.on = d, !.of = h]
<1>1. taken \in Officer /\ taken.pc = pc
  BY IdleType DEF Officer
<1>2. officer' = [officer EXCEPT ![o] = taken]
  BY DEF TakesUp
<1> HIDE DEF taken
<1> QED
  BY <1>1, <1>2 DEF DelTypeOK, OtherOfficers

LEMMA SpentType ==
  ASSUME DelTypeOK
  PROVE  /\ Duty => spentOn' \in [duties: 0..MaxDuties, mishaps: 0..MaxMishaps]
         /\ Mishap => spentOn' \in [duties: 0..MaxDuties, mishaps: 0..MaxMishaps]
<1>1. spentOn \in [duties: 0..MaxDuties, mishaps: 0..MaxMishaps]
  BY DEF DelTypeOK
<1>2. spentOn.duties \in 0..MaxDuties /\ spentOn.mishaps \in 0..MaxMishaps
  BY <1>1
<1>3. ASSUME Duty PROVE spentOn' \in [duties: 0..MaxDuties, mishaps: 0..MaxMishaps]
  <2>1. spentOn.duties + 1 \in 0..MaxDuties
    BY <1>2, <1>3, DeletionConstants DEF Duty
  <2> QED
    BY <1>1, <1>3, <2>1 DEF Duty
<1>4. ASSUME Mishap PROVE spentOn' \in [duties: 0..MaxDuties, mishaps: 0..MaxMishaps]
  <2>1. spentOn.mishaps + 1 \in 0..MaxMishaps
    BY <1>2, <1>4, DeletionConstants DEF Mishap
  <2> QED
    BY <1>1, <1>4, <2>1 DEF Mishap
<1> QED
  BY <1>3, <1>4

LEMMA SetAccountType ==
  ASSUME DelTypeOK, NEW o \in Officers, NEW pc, NEW status \in AccountStatus, NEW goes \in OfficerPCs,
         SetAccount(o, pc, status, goes)
  PROVE  DelTypeOK'
<1>1. officer' \in [Officers -> Officer]
  BY GoesEffect, DoneEffect DEF SetAccount
<1> QED
  BY <1>1 DEF SetAccount, DelTypeOK

LEMMA SetDeletionType ==
  ASSUME DelTypeOK, NEW o \in Officers, NEW status \in DeletionStatus, NEW due \in BOOLEAN, NEW goes \in OfficerPCs,
         SetDeletion(o, status, due, goes)
  PROVE  DelTypeOK'
<1>1. officer' \in [Officers -> Officer]
  BY GoesEffect DEF SetDeletion
<1>2. officer[o].on \in Deletions
  BY DEF DelTypeOK, Officer
<1>3. [status |-> status, due |-> due] \in Deletion
  BY DEF Deletion
<1>4. deletion' \in [Deletions -> Deletion]
  BY <1>2, <1>3 DEF SetDeletion, DelTypeOK
<1> QED
  BY <1>1, <1>4 DEF SetDeletion, DelTypeOK

LEMMA SetHoldType ==
  ASSUME DelTypeOK, NEW o \in Officers, NEW row \in Hold, NEW goes \in OfficerPCs, SetHold(o, row, goes)
  PROVE  DelTypeOK'
<1>1. officer' \in [Officers -> Officer]
  BY GoesEffect, DoneEffect DEF SetHold
<1>2. hold' \in [Holds -> Hold]
  BY DEF SetHold, DelTypeOK, Officer
<1> QED
  BY <1>1, <1>2 DEF SetHold, DelTypeOK

LEMMA BeginType ==
  ASSUME DelTypeOK, NEW o \in Officers,
         \/ BeginDeactivate(o) \/ BeginReactivate(o)
         \/ \E d \in Deletions : BeginDeletionRequest(o, d) \/ BeginRejectDeletion(o, d) \/ BeginApproveDeletion(o, d)
         \/ \E h \in Holds : BeginRelease(o, h) \/ BeginDocumentRelease(o, h)
  PROVE  /\ DelTypeOK' /\ UNCHANGED <<data, hold>> /\ OtherOfficers(o)
         /\ officer'[o].pc \in {"create", "deactivate", "activate", "reject", "schedule", "pend", "liftDocument"}
<1>1. PICK pc \in {"create", "deactivate", "activate", "reject", "schedule", "pend", "liftDocument"},
           d \in Deletions, h \in Holds : TakesUp(o, pc, d, h)
  <2>1. AnyDeletion \in Deletions /\ AnyHold \in Holds
    BY DeletionConstants DEF AnyDeletion, AnyHold
  <2> QED
    BY <2>1 DEF BeginDeactivate, BeginReactivate, BeginDeletionRequest, BeginRejectDeletion, BeginApproveDeletion,
                BeginRelease, BeginDocumentRelease
<1>2. UNCHANGED <<account, data, deletion, hold, ticked, lost>> /\ (Duty \/ UNCHANGED spentOn)
  BY Zenon DEF BeginDeactivate, BeginReactivate, BeginDeletionRequest, BeginRejectDeletion, BeginApproveDeletion,
               BeginRelease, BeginDocumentRelease
<1>3. officer' \in [Officers -> Officer] /\ OtherOfficers(o) /\ officer'[o].pc = pc
  BY <1>1, TakesUpEffect DEF OfficerPCs
<1>4. spentOn' \in [duties: 0..MaxDuties, mishaps: 0..MaxMishaps]
  BY <1>2, SpentType DEF DelTypeOK
<1> QED
  BY <1>1, <1>2, <1>3, <1>4 DEF DelTypeOK

LEMMA SweepBegins ==
  ASSUME DelTypeOK, NEW o \in Officers, DailySweep(o) \/ ManualSweep(o)
  PROVE  DelTypeOK' /\ UNCHANGED <<data, hold>> /\ OtherOfficers(o) /\ officer'[o].pc = "next"
<1> DEFINE begun == [OfficerIdle EXCEPT !.pc = "next", !.todo = DueDeletions]
<1>1. begun \in Officer /\ begun.pc = "next"
  BY IdleType DEF Officer, OfficerPCs, DueDeletions
<1>2. /\ officer' = [officer EXCEPT ![o] = begun]
      /\ UNCHANGED <<account, data, deletion, hold, lost>>
      /\ (ticked' = TRUE /\ spentOn' = spentOn) \/ (ticked' = ticked /\ Duty)
  BY Zenon DEF DailySweep, ManualSweep
<1> HIDE DEF begun
<1>3. officer' \in [Officers -> Officer] /\ OtherOfficers(o) /\ officer'[o].pc = "next"
  BY <1>1, <1>2 DEF DelTypeOK, OtherOfficers
<1> QED
  BY <1>2, <1>3, SpentType DEF DelTypeOK

LEMMA RequestType ==
  ASSUME DelTypeOK, NEW o \in Officers,
         \/ CreateDeletion(o) \/ MarkRequested(o) \/ DeactivateAccount(o) \/ ReactivateAccount(o)
         \/ RejectDeletion(o) \/ RestoreAccount(o) \/ ScheduleDeletion(o) \/ MarkProcessing(o)
  PROVE  DelTypeOK'
<1>1. deletion[officer[o].on].due \in BOOLEAN
  BY DEF DelTypeOK, Officer, Deletion
<1>2. CASE MarkRequested(o) \/ DeactivateAccount(o) \/ ReactivateAccount(o) \/ RestoreAccount(o) \/ MarkProcessing(o)
  BY <1>2, SetAccountType
     DEF MarkRequested, DeactivateAccount, ReactivateAccount, RestoreAccount, MarkProcessing, AccountStatus, OfficerPCs
<1>3. CASE CreateDeletion(o) \/ RejectDeletion(o) \/ ScheduleDeletion(o)
  BY <1>1, <1>3, SetDeletionType DEF CreateDeletion, RejectDeletion, ScheduleDeletion, DeletionStatus, OfficerPCs
<1> QED
  BY <1>2, <1>3

(* A hold that is asked about, released or lifted: what it has kept it     *)
(* keeps, or it is no longer in force and keeps nothing.                   *)
HoldsLess ==
  \A h \in Holds : \/ hold'[h].keeps = hold[h].keeps /\ hold'[h].active = hold[h].active
                   \/ hold'[h].keeps = {}

LEMMA HoldRows ==
  ASSUME DelTypeOK, NEW o \in Officers
  PROVE  LET row == hold[officer[o].of]
         IN  /\ row \in Hold /\ [row EXCEPT !.status = "RELEASE_PENDING"] \in Hold /\ [row EXCEPT !.status = "RELEASED"] \in Hold
             /\ [row EXCEPT !.active = FALSE, !.keeps = {}] \in Hold
             /\ [row EXCEPT !.status = "RELEASE_PENDING"].keeps = row.keeps
             /\ [row EXCEPT !.status = "RELEASE_PENDING"].active = row.active
             /\ [row EXCEPT !.status = "RELEASED"].keeps = row.keeps
             /\ [row EXCEPT !.status = "RELEASED"].active = row.active
             /\ [row EXCEPT !.active = FALSE, !.keeps = {}].keeps = {}
<1>1. hold[officer[o].of] \in Hold
  BY DEF DelTypeOK, Officer
<1> QED
  BY <1>1 DEF Hold, HoldStatus

LEMMA ReleaseEffect ==
  ASSUME DelTypeOK, NEW o \in Officers,
         PendRelease(o) \/ CheckRelease(o) \/ LiftHold(o) \/ ReleaseHold(o) \/ LiftDocumentHold(o)
  PROVE  /\ DelTypeOK' /\ UNCHANGED data /\ HoldsLess /\ OtherOfficers(o)
         /\ officer'[o].pc \in {"idle", "check", "lift", "release"}
<1> DEFINE row == hold[officer[o].of]
<1>1. PICK new \in Hold, goes \in {"idle", "check", "lift", "release"} :
        /\ SetHold(o, new, goes)
        /\ (new.keeps = row.keeps /\ new.active = row.active) \/ new.keeps = {}
  BY HoldRows DEF PendRelease, CheckRelease, LiftHold, ReleaseHold, LiftDocumentHold, liftHold
<1>2. DelTypeOK'
  BY <1>1, SetHoldType DEF OfficerPCs
<1>3. UNCHANGED data /\ hold' = [hold EXCEPT ![officer[o].of] = new] /\ officer[o].of \in Holds /\ hold \in [Holds -> Hold]
  BY <1>1 DEF SetHold, DelTypeOK, Officer
<1>4. HoldsLess
  BY <1>1, <1>3 DEF HoldsLess
<1>5. OtherOfficers(o) /\ officer'[o].pc \in {"idle", "check", "lift", "release"}
  BY <1>1, GoesEffect, DoneEffect DEF SetHold, OfficerPCs
<1> QED
  BY <1>2, <1>3, <1>4, <1>5

LEMMA SweepType ==
  ASSUME DelTypeOK, NEW o \in Officers, SweepWork(o) \/ FailErasure(o) \/ KillOfficer(o)
  PROVE  DelTypeOK'
<1>0. officer[o] \in Officer /\ officer[o].on \in Deletions /\ officer[o].todo \subseteq Deletions
  BY DEF DelTypeOK, Officer
<1>1. CASE EndSweep(o)
  BY <1>1, DoneEffect DEF EndSweep, DelTypeOK
<1>2. CASE TakeDeletion(o)
  <2> DEFINE taken(d) == [officer[o] EXCEPT !.todo = @ \ {d}, !.on = d,
                                            !.pc = IF deletion[d].status = "SCHEDULED" THEN "hold" ELSE "next"]
  <2>1. ASSUME NEW d \in officer[o].todo PROVE taken(d) \in Officer
    BY <1>0 DEF Officer, OfficerPCs
  <2>2. \E d \in officer[o].todo : officer' = [officer EXCEPT ![o] = taken(d)]
    BY <1>0, <1>2 DEF TakeDeletion, DelTypeOK
  <2>3. UNCHANGED <<account, data, deletion, hold, ticked, lost, spentOn>>
    BY <1>2, Zenon DEF TakeDeletion
  <2> QED
    BY <2>1, <2>2, <2>3 DEF DelTypeOK
<1>3. CASE CheckHold(o)
  BY <1>3, GoesEffect DEF CheckHold, DelTypeOK, OfficerPCs
<1>4. CASE StartErasing(o)
  <2>1. deletion[officer[o].on].due \in BOOLEAN
    BY <1>0 DEF DelTypeOK, Deletion
  <2> QED
    BY <1>4, <2>1, SetDeletionType DEF StartErasing, DeletionStatus, OfficerPCs
<1>5. CASE RemoveFiles(o)
  <2>1. officer' \in [Officers -> Officer]
    BY <1>5, GoesEffect DEF RemoveFiles, OfficerPCs
  <2>2. spentOn' \in [duties: 0..MaxDuties, mishaps: 0..MaxMishaps]
    BY <1>5, SpentType DEF RemoveFiles, DelTypeOK
  <2> QED
    BY <1>5, <2>1, <2>2 DEF RemoveFiles, DelTypeOK
<1>6. CASE Erase(o)
  <2>1. officer' \in [Officers -> Officer]
    BY <1>6, GoesEffect DEF Erase, OfficerPCs
  <2>2. deletion' \in [Deletions -> Deletion]
    BY <1>0, <1>6 DEF Erase, DelTypeOK, Deletion, DeletionStatus
  <2> QED
    BY <1>6, <2>1, <2>2 DEF Erase, DelTypeOK, AccountStatus
<1>7. CASE LogErasure(o)
  BY <1>7, GoesEffect DEF LogErasure, DelTypeOK, OfficerPCs
<1>8. CASE FailErasure(o)
  <2>1. officer' \in [Officers -> Officer]
    BY <1>8, GoesEffect DEF FailErasure, OfficerPCs
  <2>2. deletion' \in [Deletions -> Deletion]
    BY <1>0, <1>8 DEF FailErasure, StatusAfterFailure, DelTypeOK, Deletion, DeletionStatus
  <2>3. lost' \subseteq Deletions
    BY <1>0, <1>8 DEF FailErasure, Strands, DelTypeOK
  <2> QED
    BY <1>8, <2>1, <2>2, <2>3, SpentType DEF FailErasure, DelTypeOK
<1>9. CASE KillOfficer(o)
  <2>1. officer' \in [Officers -> Officer]
    BY <1>9, DoneEffect DEF KillOfficer
  <2> QED
    BY <1>0, <1>9, <2>1, SpentType DEF KillOfficer, Strands, DelTypeOK
<1> QED
  BY <1>1, <1>2, <1>3, <1>4, <1>5, <1>6, <1>7, <1>8, <1>9 DEF SweepWork

LEMMA PlaceType ==
  ASSUME DelTypeOK, NEW h \in Holds, PlaceHold(h)
  PROVE  DelTypeOK'
<1>1. hold' \in [Holds -> Hold]
  BY DEF PlaceHold, DelTypeOK, Hold, HoldStatus
<1> QED
  BY <1>1, SpentType DEF PlaceHold, DelTypeOK

LEMMA NightType ==
  ASSUME DelTypeOK, DayEnds
  PROVE  DelTypeOK'
<1>1. ASSUME NEW d \in Deletions
      PROVE  [deletion[d] EXCEPT !.due = @ \/ deletion[d].status = "SCHEDULED"] \in Deletion
  BY DEF DelTypeOK, Deletion
<1>2. ASSUME NEW h \in Holds PROVE [hold[h] EXCEPT !.keeps = IF hold[h].active THEN data ELSE {}] \in Hold
  BY DEF DelTypeOK, Hold
<1> QED
  BY <1>1, <1>2 DEF DayEnds, DelTypeOK

LEMMA StepType == DelTypeOK /\ [DelNext]_delVars => DelTypeOK'
<1>1. DelTypeOK /\ UNCHANGED delVars => DelTypeOK'
  BY DEF delVars, DelTypeOK
<1> QED
  BY <1>1, BeginType, SweepBegins, RequestType, ReleaseEffect, SweepType, PlaceType, NightType DEF DelNext, OfficerWork

LEMMA InitType == DelInit => DelTypeOK
<1> SUFFICES ASSUME DelInit PROVE DelTypeOK
  OBVIOUS
<1>1. deletion \in [Deletions -> Deletion] /\ hold \in [Holds -> Hold]
  BY DEF DelInit, Deletion, Hold
<1>2. officer \in [Officers -> Officer]
  BY IdleType DEF DelInit
<1>3. spentOn \in [duties: 0..MaxDuties, mishaps: 0..MaxMishaps]
  BY DeletionConstants DEF DelInit
<1> QED
  BY <1>1, <1>2, <1>3 DEF DelInit, DelTypeOK, AccountStatus

(* The account, its requests, its holds and the locals of every handler    *)
(* keep the types of the schema, and the bounds of the model hold.         *)
THEOREM TypeCorrect == DelSpec => []DelTypeOK
BY InitType, StepType, PTL DEF DelSpec

-----------------------------------------------------------------------------
(* What a hold keeps.  A sweep past its check erases without looking       *)
(* again, but while it is, no hold has kept anything for a night: none was *)
(* in force at the check, and nights begin when no sweep is at work.       *)

Erasing(o) == OfficerAt(o, "start") \/ OfficerAt(o, "files") \/ OfficerAt(o, "erase")

HeldInv ==
  /\ DelTypeOK
  /\ \A h \in Holds : hold[h].keeps \subseteq data /\ (hold[h].keeps # {} => hold[h].active)
  /\ \A o \in Officers : Erasing(o) => \A h \in Holds : hold[h].keeps = {}

(* A step that begins no erasure and takes no data.                        *)
LEMMA NotErasing ==
  ASSUME HeldInv, DelTypeOK', NEW o \in Officers, OtherOfficers(o), UNCHANGED data, hold' = hold \/ HoldsLess,
         officer'[o].pc \notin {"start", "files", "erase"}
  PROVE  HeldInv'
<1>1. HoldsLess
  BY DEF HoldsLess
<1>2. \A h \in Holds : hold'[h].keeps \subseteq data /\ (hold'[h].keeps # {} => hold'[h].active)
  BY <1>1 DEF HeldInv, HoldsLess
<1>3. \A p \in Officers : Erasing(p)' => Erasing(p)
  BY DEF Erasing, OfficerAt, OtherOfficers
<1>4. \A p \in Officers : Erasing(p)' => \A h \in Holds : hold'[h].keeps = {}
  BY <1>1, <1>3 DEF HeldInv, HoldsLess
<1> QED
  BY <1>2, <1>4 DEF HeldInv

LEMMA HeldStep == HeldInv /\ [DelNext]_delVars => HeldInv'
<1> SUFFICES ASSUME HeldInv, [DelNext]_delVars PROVE HeldInv'
  OBVIOUS
<1>0. DelTypeOK /\ DelTypeOK'
  BY StepType DEF HeldInv
<1>1. ASSUME NEW o \in Officers,
             \/ BeginDeactivate(o) \/ BeginReactivate(o)
             \/ \E d \in Deletions : BeginDeletionRequest(o, d) \/ BeginRejectDeletion(o, d) \/ BeginApproveDeletion(o, d)
             \/ \E h \in Holds : BeginRelease(o, h) \/ BeginDocumentRelease(o, h)
      PROVE  HeldInv'
  BY <1>0, <1>1, BeginType, NotErasing
<1>2. ASSUME NEW o \in Officers, DailySweep(o) \/ ManualSweep(o) PROVE HeldInv'
  BY <1>0, <1>2, SweepBegins, NotErasing
<1>3. ASSUME NEW o \in Officers,
             \/ CreateDeletion(o) \/ MarkRequested(o) \/ DeactivateAccount(o) \/ ReactivateAccount(o)
             \/ RejectDeletion(o) \/ RestoreAccount(o) \/ ScheduleDeletion(o) \/ MarkProcessing(o)
      PROVE  HeldInv'
  <2>1. OtherOfficers(o) /\ UNCHANGED <<data, hold>> /\ officer'[o].pc \in {"idle", "mark", "restore", "processing"}
    BY <1>0, <1>3, GoesEffect, DoneEffect
       DEF CreateDeletion, MarkRequested, DeactivateAccount, ReactivateAccount, RejectDeletion, RestoreAccount,
           ScheduleDeletion, MarkProcessing, SetAccount, SetDeletion, OfficerPCs
  <2> QED
    BY <1>0, <2>1, NotErasing
<1>4. ASSUME NEW o \in Officers,
             PendRelease(o) \/ CheckRelease(o) \/ LiftHold(o) \/ ReleaseHold(o) \/ LiftDocumentHold(o)
      PROVE  HeldInv'
  BY <1>0, <1>4, ReleaseEffect, NotErasing
<1>5. ASSUME NEW o \in Officers, EndSweep(o) \/ LogErasure(o) \/ FailErasure(o) \/ KillOfficer(o) \/ TakeDeletion(o)
      PROVE  HeldInv'
  <2>1. OtherOfficers(o) /\ UNCHANGED <<data, hold>> /\ officer'[o].pc \in {"idle", "next", "hold"}
    <3>1. CASE EndSweep(o) \/ LogErasure(o) \/ FailErasure(o) \/ KillOfficer(o)
      BY <1>0, <3>1, GoesEffect, DoneEffect DEF EndSweep, LogErasure, FailErasure, KillOfficer, OfficerPCs
    <3>2. CASE TakeDeletion(o)
      BY <1>0, <3>2 DEF TakeDeletion, OtherOfficers, DelTypeOK, Officer
    <3> QED
      BY <1>5, <3>1, <3>2
  <2> QED
    BY <1>0, <2>1, NotErasing
<1>6. ASSUME NEW o \in Officers, CheckHold(o) PROVE HeldInv'
  <2>1. UNCHANGED <<data, hold>> /\ OtherOfficers(o)
    BY <1>0, <1>6, GoesEffect DEF CheckHold, OfficerPCs
  <2>2. CASE Held
    BY <1>0, <1>6, <2>1, <2>2, GoesEffect, NotErasing DEF CheckHold, OfficerPCs
  <2>3. CASE ~Held
    <3>1. \A h \in Holds : hold[h].keeps = {}
      BY <2>3 DEF Held, HeldInv
    <3> QED
      BY <1>0, <2>1, <3>1 DEF HeldInv
  <2> QED
    BY <2>2, <2>3
<1>7. ASSUME NEW o \in Officers, StartErasing(o) \/ RemoveFiles(o) \/ Erase(o) PROVE HeldInv'
  <2>1. Erasing(o) /\ UNCHANGED hold
    BY <1>7, Zenon DEF StartErasing, SetDeletion, RemoveFiles, Erase, Erasing
  <2> QED
    BY <1>0, <2>1 DEF HeldInv
<1>8. ASSUME NEW h \in Holds, PlaceHold(h) PROVE HeldInv'
  <2>1. UNCHANGED <<data, officer>> /\ \A x \in Holds : hold'[x] = hold[x] \/ hold'[x].keeps = {}
    BY <1>0, <1>8 DEF PlaceHold, DelTypeOK
  <2> QED
    BY <1>0, <2>1 DEF HeldInv, Erasing, OfficerAt
<1>9. CASE DayEnds
  <2>1. /\ UNCHANGED <<data, officer>>
        /\ \A h \in Holds : /\ hold'[h].keeps = IF hold[h].active THEN data ELSE {}
                            /\ hold'[h].active = hold[h].active
    BY <1>0, <1>9 DEF DayEnds, DelTypeOK, Hold
  <2>2. \A o \in Officers : ~Erasing(o)'
    BY <1>9, <2>1 DEF DayEnds, Erasing, OfficerAt
  <2> QED
    BY <1>0, <2>1, <2>2 DEF HeldInv
<1>10. CASE UNCHANGED delVars
  BY <1>0, <1>10 DEF delVars, HeldInv, Erasing, OfficerAt
<1> QED
  BY <1>1, <1>2, <1>3, <1>4, <1>5, <1>6, <1>7, <1>8, <1>9, <1>10 DEF DelNext, OfficerWork, SweepWork

(* deletion-request.ts:40-44, legal-hold.ts:54-55: what a hold has kept    *)
(* for a night it keeps until it is lifted, whatever was approved before   *)
(* it was placed and whichever sweeps are at work.                         *)
THEOREM HoldsKeep == DelSpec => []HeldKept
<1>1. DelInit => HeldInv
  BY InitType DEF DelInit, OfficerIdle, HeldInv, Erasing, OfficerAt
<1>2. HeldInv => HeldKept
  BY DEF HeldInv, HeldKept
<1> QED
  BY <1>1, <1>2, HeldStep, PTL DEF DelSpec
=============================================================================
