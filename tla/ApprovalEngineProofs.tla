------------------------ MODULE ApprovalEngineProofs ------------------------
(***************************************************************************)
(* Proofs about ApprovalEngine, for any number of administrators, calls    *)
(* and ladder steps.                                                       *)
(***************************************************************************)
EXTENDS ApprovalEngine, FiniteSetTheorems, WellFoundedInduction, TLAPS

-----------------------------------------------------------------------------
(* A non-empty set of steps has a lowest and a highest member, so the      *)
(* lookups of the open, the next and the last step return a step.          *)

LEMMA LeastExists ==
  ASSUME NEW S \in SUBSET Nat, S # {}
  PROVE  \E x \in S : \A y \in S : x <= y
<1>1. IsWellFoundedOn(OpToRel(<, Nat), Nat)
  BY NatLessThanWellFounded
<1>2. PICK x \in S : \A y \in S : <<y, x>> \notin OpToRel(<, Nat)
  BY <1>1, WFMin, Zenon
<1>3. ASSUME NEW y \in S PROVE x <= y
  <2>1. ~(y < x)
    <3>1. SUFFICES ASSUME y < x PROVE <<y, x>> \in OpToRel(<, Nat)
      BY <1>2
    <3>2. <<y, x>> \in Nat \X Nat
      OBVIOUS
    <3> QED
      BY <3>1, <3>2 DEF OpToRel
  <2> QED
    BY <2>1
<1> QED
  BY <1>3

LEMMA LowestIsMember ==
  ASSUME NEW S \in SUBSET StepIds, S # {}
  PROVE  Lowest(S) \in S /\ \A j \in S : Lowest(S) <= j
<1>1. S \in SUBSET Nat
  BY DEF StepIds
<1>2. \E i \in S : \A j \in S : i <= j
  BY <1>1, LeastExists
<1> QED
  BY <1>2 DEF Lowest

LEMMA HighestIsMember ==
  ASSUME NEW S \in SUBSET StepIds, S # {}
  PROVE  Highest(S) \in S /\ \A j \in S : j <= Highest(S)
<1> DEFINE T == {MaxSteps - i : i \in S}
<1>0. MaxSteps \in Nat
  BY ConstantsAssumption
<1>1. T \in SUBSET Nat /\ T # {}
  <2>1. \A i \in S : MaxSteps - i \in Nat
    BY <1>0 DEF StepIds
  <2> QED
    BY <2>1
<1>2. PICK t \in T : \A u \in T : t <= u
  BY <1>1, LeastExists
<1>3. PICK i \in S : t = MaxSteps - i
  BY <1>2
<1>4. ASSUME NEW j \in S PROVE j <= i
  <2>1. MaxSteps - j \in T
    OBVIOUS
  <2>2. MaxSteps - i <= MaxSteps - j
    BY <1>2, <1>3, <2>1
  <2> QED
    BY <1>0, <2>2 DEF StepIds
<1> QED
  BY <1>4 DEF Highest

-----------------------------------------------------------------------------
(* Types of what the actions write *)

LEMMA LadderType == BuildSteps \in [StepIds -> Step]
<1>1. AllowedRoles \subseteq AllowedRoles \cup {SuperAdmin}
  OBVIOUS
<1>2. ManagerRoles \subseteq AllowedRoles \cup {SuperAdmin}
  BY DEF ManagerRoles
<1>3. Atleast2(PolicyQuorum) \in Nat /\ RequiredLevel \in Nat
  BY ConstantsAssumption DEF Atleast2
<1>4. NoStep \in Step
  BY DEF NoStep, Step
<1>5. ASSUME NEW l \in Nat, NEW r \in SUBSET (AllowedRoles \cup {SuperAdmin}), NEW q \in Nat
      PROVE  NewStep(l, r, q) \in Step
  BY DEF NewStep, Step
<1> QED
  BY <1>1, <1>2, <1>3, <1>4, <1>5 DEF BuildSteps

LEMMA InitType == Init => TypeOK
<1> SUFFICES ASSUME Init PROVE TypeOK
  OBVIOUS
<1>1. req \in Row
  BY DEF Init, Row, Statuses
<1>2. steps \in [StepIds -> Step]
  BY LadderType DEF Init
<1>3. reviews \in [StepIds -> [Admins -> ReviewValues]]
  BY DEF Init, ReviewValues
<1>4. IdleCall \in Call
  BY ConstantsAssumption DEF IdleCall, NoRow, Call, PCs, WorksOnStep, Row, Statuses
<1>5. call \in [Calls -> Call]
  BY <1>4 DEF Init
<1>6. 1 \in Present
  BY ConstantsAssumption DEF Init, Present, BuildSteps, NewStep, StepIds
<1> QED
  BY <1>1, <1>2, <1>3, <1>5, <1>6 DEF Init, TypeOK, History

(* Ending, moving on, rereading and throwing leave the calls well-typed. *)
LEMMA GotoType ==
  ASSUME TypeOK, NEW c \in Calls, NEW pc \in PCs, Goto(c, pc),
         pc \in WorksOnStep => call[c].pc \in WorksOnStep
  PROVE  call' \in [Calls -> Call]
<1>1. call \in [Calls -> Call] /\ call[c] \in Call
  BY DEF TypeOK
<1>2. [call[c] EXCEPT !.pc = pc] \in Call
  BY <1>1 DEF Call
<1> QED
  BY <1>1, <1>2 DEF Goto

LEMMA DoneType ==
  ASSUME TypeOK, NEW c \in Calls, Done(c)
  PROVE  call' \in [Calls -> Call]
<1>1. IdleCall \in Call
  BY ConstantsAssumption DEF IdleCall, NoRow, Call, PCs, WorksOnStep, Row, Statuses
<1> QED
  BY <1>1 DEF TypeOK, Done

LEMMA RereadType ==
  ASSUME TypeOK, NEW c \in Calls, NEW pc \in PCs \ WorksOnStep, Reread(c, pc)
  PROVE  call' \in [Calls -> Call]
<1>1. call \in [Calls -> Call] /\ call[c] \in Call /\ req \in Row
  BY DEF TypeOK
<1>2. [call[c] EXCEPT !.pc = pc, !.snap = req] \in Call
  BY <1>1 DEF Call
<1> QED
  BY <1>1, <1>2 DEF Reread

LEMMA ThrowType ==
  ASSUME TypeOK, NEW c \in Calls, Throw(c)
  PROVE  call' \in [Calls -> Call]
BY GotoType, DoneType DEF Throw, PCs, WorksOnStep

LEMMA BeginType ==
  ASSUME TypeOK, NEW c \in Calls, NEW a \in Admins, NEW kind \in AllKinds,
         NEW pc \in PCs \ WorksOnStep, Begin(c, a, kind, pc)
  PROVE  TypeOK'
<1>1. [pc |-> pc, kind |-> kind, actor |-> a, snap |-> req, step |-> 0,
       cleared |-> kind \in Decisions /\ Free(a)] \in Call
  BY ConstantsAssumption DEF TypeOK, Call, Free
<1>2. call' \in [Calls -> Call]
  BY <1>1 DEF TypeOK, Begin
<1> QED
  BY <1>2 DEF TypeOK, Begin, rows, Present

LEMMA UpdateType ==
  ASSUME TypeOK, NEW status \in Statuses, NEW level \in Nat, VersionedUpdate(status, level)
  PROVE  req' \in Row
<1>1. req \in Row
  BY DEF TypeOK
<1>2. req.version + 1 \in Nat
  BY <1>1 DEF Row
<1>3. [req EXCEPT !.status = status, !.level = level, !.version = req.version + 1] \in Row
  BY <1>1, <1>2 DEF Row
<1> QED
  BY <1>3 DEF VersionedUpdate

LEMMA LosesRaceType ==
  ASSUME TypeOK, NEW c \in Calls, LosesRace(c)
  PROVE  TypeOK'
<1>1. call' \in [Calls -> Call]
  BY ThrowType DEF LosesRace
<1> QED
  BY <1>1 DEF TypeOK, LosesRace, rows, Present

LEMMA ConcludeType ==
  ASSUME TypeOK, NEW c \in Calls, NEW pc \in PCs, NEW status \in Statuses, NEW level \in Nat,
         Conclude(c, pc, status, level)
  PROVE  TypeOK'
<1>1. CASE LosesRace(c)
  BY <1>1, LosesRaceType
<1>2. CASE ~LosesRace(c)
  <2>1. req' \in Row
    BY <1>2, UpdateType DEF Conclude
  <2>2. call' \in [Calls -> Call]
    BY <1>2, DoneType DEF Conclude
  <2> QED
    BY <1>2, <2>1, <2>2 DEF Conclude, TypeOK, Present
<1> QED
  BY <1>1, <1>2

LEMMA ExecCasType ==
  ASSUME TypeOK, NEW c \in Calls, NEW pc \in PCs, NEW status \in Statuses, NEW next \in PCs \ WorksOnStep,
         ExecCas(c, pc, status, next)
  PROVE  TypeOK'
<1>1. CASE LosesRace(c)
  BY <1>1, LosesRaceType
<1>2. CASE ~LosesRace(c)
  <2>0. req.level \in Nat
    BY DEF TypeOK, Row
  <2>1. req' \in Row
    BY <1>2, <2>0, UpdateType DEF ExecCas
  <2>2. call' \in [Calls -> Call]
    BY <1>2, GotoType DEF ExecCas
  <2> QED
    BY <1>2, <2>1, <2>2 DEF ExecCas, TypeOK, Present
<1> QED
  BY <1>1, <1>2

LEMMA LookupType ==
  ASSUME TypeOK, NEW l
  PROVE  findOpenStep(l) \in 0..MaxSteps
<1>1. AtLevel(l) \in SUBSET StepIds /\ InProgress(l) \in SUBSET StepIds
  BY DEF AtLevel, InProgress, Present
<1>2. StepIds \subseteq 0..MaxSteps /\ 0 \in 0..MaxSteps
  BY ConstantsAssumption DEF StepIds
<1> QED
  BY <1>1, <1>2, LowestIsMember, HighestIsMember DEF findOpenStep


LEMMA CallHasStep ==
  ASSUME TypeOK, NEW c \in Calls, call[c].pc \in WorksOnStep
  PROVE  call[c].step \in StepIds
BY ConstantsAssumption DEF TypeOK, Call, StepIds

(* One await of a handler keeps the types. *)
LEMMA ContinueType ==
  ASSUME TypeOK, NEW c \in Calls, Continue(c)
  PROVE  TypeOK'
<1> USE DEF Active, Granted, Closed
<1>0. /\ call \in [Calls -> Call] /\ call[c] \in Call
      /\ call[c].step \in 0..MaxSteps
      /\ call[c].pc \in WorksOnStep => call[c].step \in StepIds
      /\ req.level \in Nat
      /\ \A i \in StepIds : steps[i] \in Step /\ steps[i].level \in Nat
      /\ 1 \in StepIds
  BY ConstantsAssumption DEF TypeOK, Call, Row, Step, StepIds
<1>1. CASE Authorize(c)
  <2>1. call' \in [Calls -> Call]
    <3> DEFINE i == findOpenStep(call[c].snap.level)
    <3>1. i \in 0..MaxSteps
      BY LookupType
    <3>2. ASSUME i # 0 PROVE [call[c] EXCEPT !.step = i, !.pc = "upsert"] \in Call
      BY <1>0, <3>1, <3>2 DEF Call, PCs
    <3>3. ASSUME i # 0, call' = [call EXCEPT ![c].step = i, ![c].pc = "upsert"]
          PROVE  call' \in [Calls -> Call]
      BY <1>0, <3>2, <3>3
    <3> HIDE DEF i
    <3>4. CASE Goto(c, "expireRead")
      BY <3>4, GotoType DEF PCs, WorksOnStep
    <3>5. CASE Throw(c)
      BY <3>5, ThrowType
    <3> QED
      BY <1>1, <3>3, <3>4, <3>5 DEF Authorize, i
  <2> QED
    BY <1>1, <2>1 DEF Authorize, rows, TypeOK, Present
<1>2. CASE UpsertReviewer(c)
  <2>1. call' \in [Calls -> Call]
    BY <1>2, GotoType DEF UpsertReviewer, AfterUpsert, At, PCs, WorksOnStep
  <2>2. DecisionValue(call[c].kind) \in ReviewValues
    BY DEF DecisionValue, ReviewValues
  <2>3. reviews' \in [StepIds -> [Admins -> ReviewValues]]
    BY <1>2, <2>2 DEF UpsertReviewer, TypeOK
  <2>4. <<call[c].step, call[c].actor>> \in StepIds \X Admins
    BY <1>0, <1>2 DEF UpsertReviewer, At, WorksOnStep, Call
  <2>5. history' \in History
    BY <1>2, <2>4 DEF UpsertReviewer, TypeOK, History
  <2> QED
    BY <1>2, <2>1, <2>3, <2>5 DEF UpsertReviewer, TypeOK, Present
<1>3. CASE WipeReviewers(c)
  <2>1. call' \in [Calls -> Call]
    BY <1>3, GotoType DEF WipeReviewers, PCs, WorksOnStep
  <2>2. reviews' \in [StepIds -> [Admins -> ReviewValues]]
    BY <1>3 DEF WipeReviewers, ReviewValues
  <2>3. history' \in History
    BY <1>3 DEF WipeReviewers, TypeOK, History
  <2> QED
    BY <1>3, <2>1, <2>2, <2>3 DEF WipeReviewers, TypeOK, Present
<1>4. CASE WipeSteps(c)
  <2>1. call' \in [Calls -> Call]
    BY <1>4, GotoType DEF WipeSteps, PCs, WorksOnStep
  <2>2. \A i \in StepIds : [steps[i] EXCEPT !.status = "PENDING"] \in Step
    BY <1>0 DEF Step
  <2>3. steps' \in [StepIds -> Step] /\ steps'[1].status # "ABSENT"
    BY <1>0, <1>4, <2>2 DEF WipeSteps, TypeOK, Present, Step
  <2> QED
    BY <1>0, <1>4, <2>1, <2>3 DEF WipeSteps, TypeOK, Present
<1>5. CASE RequestChanges(c)
  <2>1. CASE LosesRace(c)
    BY <2>1, LosesRaceType
  <2>2. CASE ~LosesRace(c)
    <3>1. req' \in Row
      BY <1>0, <1>5, <2>2, UpdateType DEF RequestChanges, Statuses
    <3>2. call' \in [Calls -> Call]
      BY <1>5, <2>2, DoneType DEF RequestChanges
    <3>3. history' \in History
      BY <1>5, <2>2 DEF RequestChanges, TypeOK, History
    <3> QED
      BY <1>5, <2>2, <3>1, <3>2, <3>3 DEF RequestChanges, TypeOK, Present
  <2> QED
    BY <2>1, <2>2
<1>6. CASE CheckQuorum(c)
  <2>1. call' \in [Calls -> Call]
    BY <1>6, GotoType DEF CheckQuorum, At, PCs, WorksOnStep
  <2> QED
    BY <1>6, <2>1 DEF CheckQuorum, rows, TypeOK, Present
<1>7. CASE SatisfyStep(c)
  <2>1. call' \in [Calls -> Call]
    BY <1>7, GotoType DEF SatisfyStep, At, PCs, WorksOnStep
  <2>2. \A i \in StepIds : [steps[i] EXCEPT !.status = "SATISFIED"] \in Step
    BY <1>0 DEF Step
  <2>3. steps' \in [StepIds -> Step] /\ steps'[1].status # "ABSENT"
    BY <1>0, <1>7, <2>2 DEF SatisfyStep, TypeOK, Present, Step
  <2> QED
    BY <1>0, <1>7, <2>1, <2>3 DEF SatisfyStep, TypeOK, Present
<1>8. CASE OpenNextStep(c)
  <2> DEFINE later == {i \in Present : i > call[c].step}
             n == Lowest(later)
  <2>1. CASE Goto(c, "approve") /\ UNCHANGED steps
    <3>1. call' \in [Calls -> Call]
      BY <2>1, GotoType DEF PCs, WorksOnStep
    <3> QED
      BY <1>8, <2>1, <3>1 DEF OpenNextStep, TypeOK, Present
  <2>2. CASE ~(Goto(c, "approve") /\ UNCHANGED steps)
    <3>1. n \in StepIds
      BY <1>8, <2>2, LowestIsMember DEF OpenNextStep, Present
    <3>2. n # 0 /\ n \in 0..MaxSteps
      BY <3>1, ConstantsAssumption DEF StepIds
    <3> HIDE DEF n
    <3>3. [call[c] EXCEPT !.pc = "advance", !.step = n] \in Call
      BY <1>0, <3>2 DEF Call, PCs
    <3>4. call' = [call EXCEPT ![c].pc = "advance", ![c].step = n]
      BY <1>8, <2>2 DEF OpenNextStep, n
    <3>5. call' \in [Calls -> Call]
      BY <1>0, <3>3, <3>4
    <3>6. steps' = [steps EXCEPT ![n].status = "IN_PROGRESS"]
      BY <1>8, <2>2 DEF OpenNextStep, n
    <3>7. [steps[n] EXCEPT !.status = "IN_PROGRESS"] \in Step
      BY <1>0, <3>1 DEF Step
    <3>8. steps' \in [StepIds -> Step] /\ steps'[1].status # "ABSENT"
      BY <1>0, <3>1, <3>6, <3>7 DEF TypeOK, Present, Step
    <3> QED
      BY <1>0, <1>8, <3>5, <3>8 DEF OpenNextStep, TypeOK, Present
  <2> QED
    BY <2>1, <2>2
<1>9. CASE Approve(c)
  <2>1. CASE LosesRace(c)
    BY <2>1, LosesRaceType
  <2>2. CASE ~LosesRace(c)
    <3>1. req' \in Row
      BY <1>0, <1>9, <2>2, UpdateType DEF Approve, Statuses
    <3>2. call' \in [Calls -> Call]
      BY <1>9, <2>2, DoneType DEF Approve
    <3>3. {call[c].actor} \in SUBSET Admins
      BY <1>0 DEF Call
    <3>4. history' \in History
      BY <1>9, <2>2, <3>3 DEF Approve, TypeOK, History
    <3> QED
      BY <1>9, <2>2, <3>1, <3>2, <3>4 DEF Approve, TypeOK, Present
  <2> QED
    BY <2>1, <2>2
<1>10. CASE Submit(c)
  <2>1. CASE LosesRace(c)
    BY <2>1, LosesRaceType
  <2>2. CASE ~LosesRace(c)
    <3>1. req' \in Row
      BY <1>0, <1>10, <2>2, UpdateType DEF Submit, Statuses
    <3>2. call' \in [Calls -> Call]
      BY <1>10, <2>2, GotoType DEF Submit, PCs, WorksOnStep
    <3> QED
      BY <1>10, <2>2, <3>1, <3>2 DEF Submit, TypeOK, Present
  <2> QED
    BY <2>1, <2>2
<1>11. CASE OpenFirstStep(c)
  <2>1. call' \in [Calls -> Call]
    BY <1>11, DoneType DEF OpenFirstStep
  <2>2. [steps[1] EXCEPT !.status = "IN_PROGRESS"] \in Step
    BY <1>0 DEF Step
  <2>3. steps' \in [StepIds -> Step] /\ steps'[1].status # "ABSENT"
    BY <1>0, <1>11, <2>2 DEF OpenFirstStep, TypeOK, Present, Step
  <2> QED
    BY <1>0, <1>11, <2>1, <2>3 DEF OpenFirstStep, TypeOK, Present
<1>12. CASE ExpireRead(c)
  <2>1. call' \in [Calls -> Call]
    BY <1>12, RereadType, DoneType DEF ExpireRead, PCs, WorksOnStep
  <2> QED
    BY <1>12, <2>1 DEF ExpireRead, rows, TypeOK, Present
<1>13. CASE AddStep(c)
  <2> DEFINE i == call[c].step
             new == [level |-> NextLevel(call[c].snap.level), roles |-> {SuperAdmin}, quorum |-> 1,
                     status |-> "IN_PROGRESS"]
  <2>1. call' \in [Calls -> Call]
    BY <1>13, GotoType, ThrowType DEF AddStep, At, PCs, WorksOnStep
  <2>2. NextLevel(call[c].snap.level) \in Nat
    BY <1>0 DEF NextLevel, Call, Row
  <2>3. new \in Step
    BY <2>2 DEF Step
  <2>4. i \in StepIds
    BY <1>0, <1>13 DEF AddStep, At, WorksOnStep
  <2>5. steps' \in [StepIds -> Step] /\ steps'[1].status # "ABSENT"
    <3>1. steps' = [steps EXCEPT ![i] = new] \/ steps' = steps
      BY <1>13 DEF AddStep
    <3> HIDE DEF new
    <3>2. new.status # "ABSENT"
      BY DEF new
    <3> QED
      BY <1>0, <2>3, <2>4, <3>1, <3>2 DEF TypeOK, Present
  <2>6. history' \in History
    BY <1>13 DEF AddStep, TypeOK, History
  <2> QED
    BY <1>0, <1>13, <2>1, <2>5, <2>6 DEF AddStep, TypeOK, Present
<1>14. CASE Perform(c)
  <2>1. call' \in [Calls -> Call]
    BY <1>14, GotoType DEF Perform, PCs, WorksOnStep
  <2> QED
    BY <1>14, <2>1 DEF Perform, TypeOK, Present
<1>15. CASE ExecRead(c)
  <2>1. call' \in [Calls -> Call]
    BY <1>15, RereadType, DoneType, ThrowType DEF ExecRead, PCs, WorksOnStep
  <2> QED
    BY <1>15, <2>1 DEF ExecRead, rows, TypeOK, Present
<1>16. CASE MarkExecuted(c)
  <2>1. CASE LogSucceeded(c)
    <3>1. call' \in [Calls -> Call]
      BY <2>1, DoneType DEF LogSucceeded
    <3> QED
      BY <2>1, <3>1 DEF LogSucceeded, TypeOK, Present
  <2>2. ASSUME NEW pc \in PCs, NEW next \in PCs \ WorksOnStep, ExecReread(c, pc, next) PROVE TypeOK'
    <3>1. call' \in [Calls -> Call]
      BY <2>2, RereadType DEF ExecReread
    <3> QED
      BY <2>2, <3>1 DEF ExecReread, rows, TypeOK, Present
  <2> QED
    BY <1>16, <2>1, <2>2, ExecCasType DEF MarkExecuted, PCs, WorksOnStep, Statuses
<1>17. CASE FailRead(c)
  <2>1. call' \in [Calls -> Call]
    BY <1>17, RereadType DEF FailRead, PCs, WorksOnStep
  <2> QED
    BY <1>17, <2>1 DEF FailRead, rows, TypeOK, Present
<1>18. CASE Reject(c)
  BY <1>0, <1>18, ConcludeType DEF Reject, PCs, Statuses
<1>19. CASE PartiallyApprove(c)
  BY <1>0, <1>19, ConcludeType DEF PartiallyApprove, PCs, Statuses
<1>20. CASE Cancel(c)
  BY <1>0, <1>20, ConcludeType DEF Cancel, PCs, Statuses
<1>21. CASE Expire(c)
  BY <1>0, <1>21, ConcludeType DEF Expire, PCs, Statuses
<1>22. CASE MarkFailed(c)
  BY <1>0, <1>22, ConcludeType DEF MarkFailed, PCs, Statuses
<1>23. CASE AdvanceLevel(c)
  <2>1. steps[call[c].step].level \in Nat
    BY <1>0, <1>23 DEF AdvanceLevel, Conclude, At, WorksOnStep
  <2> QED
    BY <1>23, <2>1, ConcludeType DEF AdvanceLevel, PCs, Statuses
<1>24. CASE Escalate(c)
  <2>1. steps[call[c].step].level \in Nat
    BY <1>0, <1>24 DEF Escalate, Conclude, At, WorksOnStep
  <2> QED
    BY <1>24, <2>1, ConcludeType DEF Escalate, PCs, Statuses
<1> QED
  BY <1>1, <1>2, <1>3, <1>4, <1>5, <1>6, <1>7, <1>8, <1>9, <1>10, <1>11, <1>12, <1>13, <1>14, <1>15, <1>16,
     <1>17, <1>18, <1>19, <1>20, <1>21, <1>22, <1>23, <1>24 DEF Continue

(* So do the start of a handler and the environment. *)
LEMMA StartType ==
  ASSUME TypeOK, NEW c \in Calls, Start(c)
  PROVE  TypeOK'
<1>1. CASE BeginSubmit(c)
  BY <1>1, BeginType, ConstantsAssumption DEF BeginSubmit, PCs, WorksOnStep, AllKinds
<1>2. CASE BeginGate(c)
  BY <1>2, BeginType, ConstantsAssumption DEF BeginGate, PCs, WorksOnStep, AllKinds
<1>3. ASSUME NEW a \in Admins, NEW kind \in Decisions, BeginDecision(c, a, kind) PROVE TypeOK'
  BY <1>3, BeginType DEF BeginDecision, PCs, WorksOnStep, AllKinds
<1>4. CASE BeginCancel(c)
  BY <1>4, BeginType, ConstantsAssumption DEF BeginCancel, PCs, WorksOnStep, AllKinds
<1>5. CASE BeginExecute(c)
  BY <1>5, BeginType, ConstantsAssumption DEF BeginExecute, PCs, WorksOnStep, AllKinds
<1>6. CASE BeginEscalate(c)
  <2> DEFINE n == Highest(Present) + 1
             new == [pc |-> "addStep", kind |-> "ESCALATE", actor |-> Maker, snap |-> req, step |-> n,
                     cleared |-> FALSE]
  <2>1. Highest(Present) \in StepIds
    <3>1. Present \subseteq StepIds /\ Present # {}
      BY DEF TypeOK, Present
    <3> QED
      BY <3>1, HighestIsMember
  <2>2. n \in 0..MaxSteps /\ n # 0
    BY <1>6, <2>1, ConstantsAssumption DEF BeginEscalate, StepIds
  <2> HIDE DEF n
  <2>3. new \in Call
    BY <2>2, ConstantsAssumption DEF TypeOK, Call, PCs, AllKinds
  <2>4. call' = [call EXCEPT ![c] = new]
    BY <1>6 DEF BeginEscalate, n
  <2> HIDE DEF new
  <2>5. call' \in [Calls -> Call]
    BY <2>3, <2>4 DEF TypeOK
  <2> QED
    BY <1>6, <2>5 DEF BeginEscalate, rows, TypeOK, Present
<1> QED
  BY <1>1, <1>2, <1>3, <1>4, <1>5, <1>6 DEF Start

LEMMA NextType == TypeOK /\ [Next]_vars => TypeOK'
<1> SUFFICES ASSUME TypeOK, [Next]_vars PROVE TypeOK'
  OBVIOUS
<1>1. ASSUME NEW c \in Calls, Crash(c) PROVE TypeOK'
  <2>1. call' \in [Calls -> Call]
    BY <1>1, DoneType DEF Crash
  <2> QED
    BY <1>1, <2>1 DEF Crash, rows, TypeOK, Present
<1>2. CASE BeginSweep
  <2> DEFINE new == [pc |-> "expireRead", kind |-> "SWEEP", actor |-> Maker, snap |-> NoRow, step |-> 0,
                     cleared |-> FALSE]
  <2>1. NoRow \in Row
    BY DEF NoRow, Row, Statuses
  <2>2. 0 \in 0..MaxSteps /\ Maker \in Admins
    BY ConstantsAssumption
  <2>3. new \in Call
    BY <2>1, <2>2 DEF Call, PCs, WorksOnStep
  <2>4. call' = [call EXCEPT ![Sweeper] = new]
    BY <1>2 DEF BeginSweep
  <2> HIDE DEF new
  <2>5. call' \in [Calls -> Call]
    BY <2>3, <2>4, ConstantsAssumption DEF TypeOK
  <2> QED
    BY <1>2, <2>5 DEF BeginSweep, rows, TypeOK, Present
<1>3. CASE PassDeadline
  BY <1>3 DEF PassDeadline, TypeOK, Present
<1>4. ASSUME NEW a \in Admins, Deactivate(a) PROVE TypeOK'
  BY <1>4 DEF Deactivate, TypeOK, Present
<1>5. ASSUME NEW a \in Exposed, ConflictChanges(a) PROVE TypeOK'
  <2>1. \A c \in Calls : call[c] \in Call /\ [call[c] EXCEPT !.cleared = TRUE] \in Call
    BY DEF TypeOK, Call
  <2>2. call' \in [Calls -> Call] /\ conflicted' \subseteq Exposed
    BY <1>5, <2>1 DEF ConflictChanges, TypeOK
  <2> QED
    BY <1>5, <2>2 DEF ConflictChanges, TypeOK, Present
<1>6. CASE UNCHANGED vars
  BY <1>6 DEF vars, TypeOK, Present
<1> QED
  BY <1>1, <1>2, <1>3, <1>4, <1>5, <1>6, ContinueType, StartType DEF Next

(* The rows and the handlers' locals always have their types: in           *)
(* particular a handler that writes a step has one in hand.                *)
THEOREM TypeCorrect == Spec => []TypeOK
BY InitType, NextType, PTL DEF Spec

-----------------------------------------------------------------------------
(* What the helpers do to the call they are given; the others go on as     *)
(* they were.                                                              *)

Others(c) == \A d \in Calls \ {c} : call'[d] = call[d]

LEMMA GotoEffect ==
  ASSUME TypeOK, NEW c \in Calls, NEW pc, Goto(c, pc)
  PROVE  /\ Others(c) /\ call'[c].pc = pc
         /\ call'[c].kind = call[c].kind /\ call'[c].actor = call[c].actor
         /\ call'[c].snap = call[c].snap /\ call'[c].step = call[c].step
         /\ call'[c].cleared = call[c].cleared
BY DEF TypeOK, Goto, Call, Others

LEMMA ReplaceEffect ==
  ASSUME TypeOK, NEW c \in Calls, NEW new, call' = [call EXCEPT ![c] = new]
  PROVE  Others(c) /\ call'[c] = new
BY DEF TypeOK, Others

LEMMA DoneEffect ==
  ASSUME TypeOK, NEW c \in Calls, Done(c)
  PROVE  Others(c) /\ call'[c] = IdleCall /\ call'[c].pc = "idle" /\ ~call'[c].cleared
<1>1. IdleCall.pc = "idle" /\ ~IdleCall.cleared
  BY DEF IdleCall
<1> QED
  BY <1>1, ReplaceEffect DEF Done

LEMMA RereadEffect ==
  ASSUME TypeOK, NEW c \in Calls, NEW pc, Reread(c, pc)
  PROVE  /\ Others(c) /\ call'[c].pc = pc /\ call'[c].snap = req
         /\ call'[c].kind = call[c].kind /\ call'[c].step = call[c].step
         /\ call'[c].actor = call[c].actor /\ call'[c].cleared = call[c].cleared
BY DEF TypeOK, Reread, Call, Others

LEMMA ThrowEffect ==
  ASSUME TypeOK, NEW c \in Calls, Throw(c)
  PROVE  /\ Others(c)
         /\ \/ call'[c] = IdleCall /\ call'[c].pc = "idle" /\ ~call'[c].cleared
            \/ /\ call'[c].pc = "failRead" /\ call'[c].kind = "EXECUTE" /\ call[c].kind = "EXECUTE"
               /\ call'[c].snap = call[c].snap
               /\ call'[c].actor = call[c].actor /\ call'[c].cleared = call[c].cleared
BY GotoEffect, DoneEffect DEF Throw

LEMMA BeginEffect ==
  ASSUME TypeOK, NEW c \in Calls, NEW a, NEW kind, NEW pc, Begin(c, a, kind, pc)
  PROVE  /\ Others(c) /\ UNCHANGED rows /\ kind \in Kinds
         /\ call'[c].pc = pc /\ call'[c].kind = kind /\ call'[c].snap = req
         /\ call'[c].actor = a /\ call'[c].cleared = (kind \in Decisions /\ Free(a))
<1> DEFINE new == [pc |-> pc, kind |-> kind, actor |-> a, snap |-> req, step |-> 0,
                   cleared |-> kind \in Decisions /\ Free(a)]
<1>1. call' = [call EXCEPT ![c] = new]
  BY DEF Begin
<1>2. /\ new.pc = pc /\ new.kind = kind /\ new.snap = req
      /\ new.actor = a /\ new.cleared = (kind \in Decisions /\ Free(a))
  OBVIOUS
<1> HIDE DEF new
<1> QED
  BY <1>1, <1>2, ReplaceEffect DEF Begin

LEMMA EscalateBegins ==
  ASSUME TypeOK, NEW c \in Calls, BeginEscalate(c)
  PROVE  /\ Others(c) /\ UNCHANGED rows /\ "ESCALATE" \in Kinds /\ req.status \in Active
         /\ call'[c].pc = "addStep" /\ call'[c].kind = "ESCALATE" /\ call'[c].snap = req
         /\ ~call'[c].cleared
<1> DEFINE new == [pc |-> "addStep", kind |-> "ESCALATE", actor |-> Maker, snap |-> req,
                   step |-> Highest(Present) + 1, cleared |-> FALSE]
<1>1. call' = [call EXCEPT ![c] = new]
  BY DEF BeginEscalate
<1>2. new.pc = "addStep" /\ new.kind = "ESCALATE" /\ new.snap = req /\ ~new.cleared
  OBVIOUS
<1> HIDE DEF new
<1> QED
  BY <1>1, <1>2, ReplaceEffect DEF BeginEscalate

LEMMA SweepBegins ==
  ASSUME TypeOK, BeginSweep
  PROVE  /\ Others(Sweeper) /\ UNCHANGED rows
         /\ call'[Sweeper].pc = "expireRead" /\ call'[Sweeper].kind = "SWEEP" /\ call'[Sweeper].snap = NoRow
         /\ ~call'[Sweeper].cleared
<1> DEFINE new == [pc |-> "expireRead", kind |-> "SWEEP", actor |-> Maker, snap |-> NoRow, step |-> 0,
                     cleared |-> FALSE]
<1>1. call' = [call EXCEPT ![Sweeper] = new]
  BY DEF BeginSweep
<1>2. new.pc = "expireRead" /\ new.kind = "SWEEP" /\ new.snap = NoRow /\ ~new.cleared
  OBVIOUS
<1> HIDE DEF new
<1> QED
  BY <1>1, <1>2, ReplaceEffect, ConstantsAssumption DEF BeginSweep

LEMMA AuthorizeEffect ==
  ASSUME TypeOK, NEW c \in Calls, Authorize(c)
  PROVE  /\ Others(c) /\ UNCHANGED rows
         /\ \/ /\ call'[c].pc = "expireRead" /\ call'[c].kind = call[c].kind /\ call'[c].snap = call[c].snap
               /\ call'[c].actor = call[c].actor /\ call'[c].cleared = call[c].cleared
            \/ call'[c] = IdleCall /\ call'[c].pc = "idle" /\ ~call'[c].cleared
            \/ /\ call'[c].pc = "failRead" /\ call'[c].kind = "EXECUTE" /\ call[c].kind = "EXECUTE"
               /\ call'[c].snap = call[c].snap
               /\ call'[c].actor = call[c].actor /\ call'[c].cleared = call[c].cleared
            \/ /\ call'[c].pc = "upsert" /\ call'[c].kind = call[c].kind /\ call'[c].snap = call[c].snap
               /\ call'[c].step = findOpenStep(call[c].snap.level) /\ call'[c].step # 0
               /\ req.status \in Active
               /\ call'[c].actor = call[c].actor /\ call'[c].cleared = call[c].cleared /\ Free(call[c].actor)
<1> DEFINE i == findOpenStep(call[c].snap.level)
<1>1. CASE Goto(c, "expireRead")
  BY <1>1, GotoEffect DEF Authorize
<1>2. CASE Throw(c)
  BY <1>2, ThrowEffect DEF Authorize
<1>3. CASE /\ call' = [call EXCEPT ![c].step = i, ![c].pc = "upsert"] /\ canApprove(call[c].actor) /\ i # 0
           /\ ~detectConflict(call[c].actor)
  <2> HIDE DEF i
  <2>1. /\ Others(c) /\ call'[c].pc = "upsert" /\ call'[c].kind = call[c].kind
        /\ call'[c].snap = call[c].snap /\ call'[c].step = i
        /\ call'[c].actor = call[c].actor /\ call'[c].cleared = call[c].cleared
    BY <1>3 DEF TypeOK, Call, Others
  <2> QED
    BY <1>3, <2>1 DEF Authorize, canApprove, detectConflict, Free, i
<1> QED
  BY <1>1, <1>2, <1>3 DEF Authorize

LEMMA OpenNextEffect ==
  ASSUME TypeOK, NEW c \in Calls, OpenNextStep(c)
  PROVE  LET later == {i \in Present : i > call[c].step}
         IN  /\ Others(c)
             /\ call'[c].kind = call[c].kind /\ call'[c].snap = call[c].snap
             /\ call'[c].actor = call[c].actor /\ call'[c].cleared = call[c].cleared
             /\ \/ later = {} /\ call'[c].pc = "approve" /\ steps' = steps
                \/ /\ later # {} /\ Lowest(later) \in Present /\ Lowest(later) > call[c].step
                   /\ call'[c].pc = "advance"
                   /\ steps' = [steps EXCEPT ![Lowest(later)].status = "IN_PROGRESS"]
<1> DEFINE later == {i \in Present : i > call[c].step}
           n == Lowest(later)
<1>1. CASE later = {} /\ Goto(c, "approve") /\ steps' = steps
  BY <1>1, GotoEffect
<1>2. CASE /\ later # {} /\ steps' = [steps EXCEPT ![n].status = "IN_PROGRESS"]
           /\ call' = [call EXCEPT ![c].pc = "advance", ![c].step = n]
  <2>1. later \in SUBSET StepIds
    BY DEF Present
  <2>2. n \in later
    BY <1>2, <2>1, LowestIsMember
  <2> HIDE DEF n
  <2>3. /\ Others(c) /\ call'[c].pc = "advance" /\ call'[c].kind = call[c].kind /\ call'[c].snap = call[c].snap
        /\ call'[c].actor = call[c].actor /\ call'[c].cleared = call[c].cleared
    BY <1>2 DEF TypeOK, Call, Others
  <2> QED
    BY <1>2, <2>2, <2>3 DEF n
<1> QED
  BY <1>1, <1>2 DEF OpenNextStep

-----------------------------------------------------------------------------
(* Nobody decides who was in conflict throughout.  NoConflictedDecision is *)
(* not inductive: it needs to know what a handler that has yet to check    *)
(* its actor has on record, and that the maker is never cleared.           *)

DecidesFreely(c) ==
  /\ call[c].pc = "authorize" => call[c].kind \in Decisions /\ (Free(call[c].actor) => call[c].cleared)
  /\ call[c].pc \in Deciding => call[c].cleared
  /\ call[c].cleared => call[c].actor # Maker

Freely == \A c \in Calls : DecidesFreely(c)

MakerOut == Maker \notin history.decider /\ \A i \in StepIds : reviews[i][Maker] = "NONE"

ConflictInv == TypeOK /\ MakerOut /\ Freely

ConflictKept == MakerOut' /\ Freely'

LEMMA OthersFree ==
  ASSUME Freely, NEW c \in Calls, Others(c), conflicted' = conflicted, DecidesFreely(c)'
  PROVE  Freely'
BY DEF Freely, Others, DecidesFreely, Free

(* A handler that goes on, to a write of a decision only from another one. *)
LEMMA GoesFree ==
  ASSUME Freely, NEW c \in Calls, Others(c), conflicted' = conflicted,
         call'[c].actor = call[c].actor, call'[c].cleared = call[c].cleared, call'[c].pc # "authorize",
         call'[c].pc \in Deciding => call[c].pc \in Deciding
  PROVE  Freely'
BY OthersFree DEF Freely, DecidesFreely

LEMMA EndsFree ==
  ASSUME Freely, NEW c \in Calls, Others(c), conflicted' = conflicted, ~call'[c].cleared,
         call'[c].pc \notin Deciding \cup {"authorize"}
  PROVE  Freely'
BY OthersFree DEF DecidesFreely

LEMMA DoneFree ==
  ASSUME TypeOK, Freely, NEW c \in Calls, Done(c), conflicted' = conflicted
  PROVE  Freely'
BY DoneEffect, EndsFree DEF Deciding

LEMMA GotoFree ==
  ASSUME TypeOK, Freely, NEW c \in Calls, NEW pc, Goto(c, pc), conflicted' = conflicted, pc # "authorize",
         pc \in Deciding => call[c].pc \in Deciding
  PROVE  Freely'
BY GotoEffect, GoesFree

LEMMA RereadFree ==
  ASSUME TypeOK, Freely, NEW c \in Calls, NEW pc, Reread(c, pc), conflicted' = conflicted,
         pc \notin Deciding \cup {"authorize"}
  PROVE  Freely'
BY RereadEffect, GoesFree

LEMMA ThrowFree ==
  ASSUME TypeOK, Freely, NEW c \in Calls, Throw(c), conflicted' = conflicted
  PROVE  Freely'
BY ThrowEffect, GoesFree, EndsFree DEF Deciding

LEMMA ConcludeFree ==
  ASSUME ConflictInv, NEW c \in Calls, NEW pc, NEW status, NEW level, Conclude(c, pc, status, level)
  PROVE  ConflictKept
<1>1. CASE LosesRace(c)
  BY <1>1, ThrowFree DEF LosesRace, rows, ConflictInv, ConflictKept, MakerOut
<1>2. CASE ~LosesRace(c)
  BY <1>2, DoneFree DEF Conclude, ConflictInv, ConflictKept, MakerOut
<1> QED
  BY <1>1, <1>2

LEMMA BeginFree ==
  ASSUME ConflictInv, NEW c \in Calls, NEW a, NEW kind, NEW pc, Begin(c, a, kind, pc),
         pc \notin Deciding, pc = "authorize" => kind \in Decisions
  PROVE  ConflictKept
<1>1. /\ Others(c) /\ UNCHANGED rows /\ call'[c].pc = pc /\ call'[c].actor = a
      /\ call'[c].cleared = (kind \in Decisions /\ Free(a)) /\ call'[c].kind = kind
  BY BeginEffect DEF ConflictInv
<1>2. conflicted' = conflicted /\ Free(a)' = Free(a)
  BY <1>1 DEF rows, Free
<1>3. DecidesFreely(c)'
  BY <1>1, <1>2 DEF DecidesFreely, Free
<1> QED
  BY <1>1, <1>2, <1>3, OthersFree DEF ConflictInv, ConflictKept, MakerOut, rows

LEMMA ExecCasFree ==
  ASSUME ConflictInv, NEW c \in Calls, NEW pc, NEW status, NEW next, next \notin Deciding \cup {"authorize"},
         ExecCas(c, pc, status, next)
  PROVE  ConflictKept
<1>1. CASE LosesRace(c)
  BY <1>1, ThrowFree DEF LosesRace, rows, ConflictInv, ConflictKept, MakerOut
<1>2. CASE ~LosesRace(c)
  BY <1>2, GotoFree DEF ExecCas, ConflictInv, ConflictKept, MakerOut
<1> QED
  BY <1>1, <1>2

LEMMA ContinueFree ==
  ASSUME ConflictInv, NEW c \in Calls, Continue(c)
  PROVE  ConflictKept
<1>0. TypeOK /\ MakerOut /\ Freely
  BY DEF ConflictInv
<1>1. CASE Authorize(c)
  <2>1. Others(c) /\ UNCHANGED rows /\ call[c].pc = "authorize"
    BY <1>0, <1>1, AuthorizeEffect DEF Authorize, At
  <2>2. CASE ~call'[c].cleared /\ call'[c].pc = "idle"
    BY <1>0, <2>1, <2>2, EndsFree DEF rows, Deciding, ConflictKept, MakerOut
  <2>3. CASE /\ call'[c].pc \in {"expireRead", "failRead"}
             /\ call'[c].actor = call[c].actor /\ call'[c].cleared = call[c].cleared
    BY <1>0, <2>1, <2>3, GoesFree DEF rows, Deciding, ConflictKept, MakerOut
  <2>4. CASE /\ call'[c].pc = "upsert" /\ Free(call[c].actor)
             /\ call'[c].actor = call[c].actor /\ call'[c].cleared = call[c].cleared
    <3>1. DecidesFreely(c)'
      BY <1>0, <2>1, <2>4 DEF Freely, DecidesFreely
    <3> QED
      BY <1>0, <2>1, <3>1, OthersFree DEF rows, ConflictKept, MakerOut
  <2> QED
    BY <1>0, <1>1, <2>2, <2>3, <2>4, AuthorizeEffect
<1>2. CASE UpsertReviewer(c)
  <2>1. call[c].actor # Maker /\ call[c].actor \in Admins /\ call[c].step \in StepIds
    BY <1>0, <1>2, CallHasStep DEF UpsertReviewer, At, WorksOnStep, Freely, DecidesFreely, Deciding, TypeOK, Call
  <2>2. AfterUpsert(call[c].kind) # "authorize"
    BY DEF AfterUpsert
  <2>3. Freely'
    BY <1>0, <1>2, <2>2, GotoFree DEF UpsertReviewer, At, Deciding
  <2>4. history'.decider = history.decider
    BY <1>0, <1>2 DEF UpsertReviewer, TypeOK, History
  <2>5. ASSUME NEW i \in StepIds PROVE reviews'[i][Maker] = reviews[i][Maker]
    BY <1>0, <1>2, <2>1, <2>5, ConstantsAssumption DEF UpsertReviewer, TypeOK
  <2> QED
    BY <1>0, <2>3, <2>4, <2>5 DEF MakerOut, ConflictKept
<1>3. CASE WipeReviewers(c)
  <2>1. Freely'
    BY <1>0, <1>3, GotoFree DEF WipeReviewers, At, Deciding
  <2>2. \A i \in StepIds : reviews'[i][Maker] = "NONE"
    BY <1>0, <1>3, ConstantsAssumption DEF WipeReviewers, MakerOut
  <2>3. history'.decider = history.decider
    BY <1>0, <1>3 DEF WipeReviewers, TypeOK, History
  <2> QED
    BY <1>0, <2>1, <2>2, <2>3 DEF MakerOut, ConflictKept
<1>4. CASE Approve(c)
  <2>1. CASE LosesRace(c)
    BY <1>0, <2>1, ThrowFree DEF LosesRace, rows, MakerOut, ConflictKept
  <2>2. CASE ~LosesRace(c)
    <3>1. call[c].actor # Maker
      BY <1>0, <1>4 DEF Approve, At, Freely, DecidesFreely, Deciding
    <3>2. history'.decider = {call[c].actor}
      BY <1>0, <1>4, <2>2 DEF Approve, TypeOK, History
    <3>3. Freely' /\ reviews' = reviews
      BY <1>0, <1>4, <2>2, DoneFree DEF Approve
    <3> QED
      BY <1>0, <3>1, <3>2, <3>3 DEF MakerOut, ConflictKept
  <2> QED
    BY <2>1, <2>2
<1>5. CASE OpenNextStep(c)
  <2>1. /\ Others(c) /\ call'[c].actor = call[c].actor /\ call'[c].cleared = call[c].cleared
        /\ call'[c].pc \in {"approve", "advance"} /\ call[c].pc = "openNext" /\ UNCHANGED <<conflicted, reviews, history>>
    BY <1>0, <1>5, OpenNextEffect DEF OpenNextStep, At
  <2> QED
    BY <1>0, <2>1, GoesFree DEF Deciding, MakerOut, ConflictKept
<1>6. CASE AddStep(c)
  <2>1. Freely'
    BY <1>0, <1>6, GotoFree, ThrowFree DEF AddStep, Deciding
  <2>2. history'.decider = history.decider
    BY <1>0, <1>6 DEF AddStep, TypeOK, History
  <2> QED
    BY <1>0, <1>6, <2>1, <2>2 DEF AddStep, MakerOut, ConflictKept
<1>7. CASE RequestChanges(c)
  <2>1. Freely'
    BY <1>0, <1>7, DoneFree, ThrowFree DEF RequestChanges, LosesRace, rows
  <2>2. history'.decider = history.decider /\ reviews' = reviews
    BY <1>0, <1>7 DEF RequestChanges, LosesRace, rows, TypeOK, History
  <2> QED
    BY <1>0, <2>1, <2>2 DEF MakerOut, ConflictKept
<1>8. CASE Submit(c)
  BY <1>0, <1>8, GotoFree, ThrowFree DEF Submit, LosesRace, rows, MakerOut, ConflictKept, Deciding
<1>9. CASE WipeSteps(c) \/ SatisfyStep(c)
  BY <1>0, <1>9, GotoFree DEF WipeSteps, SatisfyStep, At, Deciding, MakerOut, ConflictKept
<1>10. CASE OpenFirstStep(c)
  BY <1>0, <1>10, DoneFree DEF OpenFirstStep, MakerOut, ConflictKept
<1>11. CASE CheckQuorum(c)
  BY <1>0, <1>11, GotoFree DEF CheckQuorum, At, rows, Deciding, MakerOut, ConflictKept
<1>12. CASE Reject(c) \/ PartiallyApprove(c) \/ AdvanceLevel(c) \/ Cancel(c) \/ Expire(c) \/ Escalate(c) \/ MarkFailed(c)
  BY <1>12, ConcludeFree DEF Reject, PartiallyApprove, AdvanceLevel, Cancel, Expire, Escalate, MarkFailed
<1>13. CASE ExpireRead(c)
  BY <1>0, <1>13, RereadFree, DoneFree DEF ExpireRead, rows, Deciding, MakerOut, ConflictKept
<1>14. CASE Perform(c)
  BY <1>0, <1>14, GotoFree DEF Perform, Deciding, MakerOut, ConflictKept
<1>15. CASE ExecRead(c)
  BY <1>0, <1>15, RereadFree, DoneFree, ThrowFree DEF ExecRead, rows, Deciding, MakerOut, ConflictKept
<1>16. CASE MarkExecuted(c)
  <2>1. CASE LogSucceeded(c)
    BY <1>0, <2>1, DoneFree DEF LogSucceeded, MakerOut, ConflictKept
  <2>2. ASSUME NEW pc, NEW next, next \notin Deciding \cup {"authorize"}, ExecReread(c, pc, next)
        PROVE  ConflictKept
    BY <1>0, <2>2, RereadFree DEF ExecReread, rows, MakerOut, ConflictKept
  <2> QED
    BY <1>16, <2>1, <2>2, ExecCasFree DEF MarkExecuted, Deciding
<1>17. CASE FailRead(c)
  BY <1>0, <1>17, RereadFree DEF FailRead, rows, Deciding, MakerOut, ConflictKept
<1> QED
  BY <1>1, <1>2, <1>3, <1>4, <1>5, <1>6, <1>7, <1>8, <1>9, <1>10, <1>11, <1>12, <1>13, <1>14, <1>15, <1>16,
     <1>17 DEF Continue

(* Whoever comes out of a conflict is cleared in every decision of theirs  *)
(* that is under way.                                                      *)
LEMMA ChangeFree ==
  ASSUME ConflictInv, NEW a \in Exposed, ConflictChanges(a)
  PROVE  ConflictKept
<1>0. TypeOK /\ MakerOut /\ Freely /\ a # Maker
  BY ConstantsAssumption DEF ConflictInv
<1>1. ASSUME NEW c \in Calls PROVE DecidesFreely(c)'
  <2>1. call[c] \in Call /\ DecidesFreely(c)
    BY <1>0 DEF TypeOK, Freely
  <2>2. CASE a \in conflicted /\ call[c].actor = a /\ call[c].kind \in Decisions
    <3>1. call'[c].cleared /\ call'[c].actor = a /\ call'[c].kind = call[c].kind
      BY <2>1, <2>2 DEF ConflictChanges, Call
    <3> QED
      BY <1>0, <2>2, <3>1 DEF DecidesFreely
  <2>3. CASE ~(a \in conflicted /\ call[c].actor = a /\ call[c].kind \in Decisions)
    <3>1. call'[c] = call[c]
      BY <2>3 DEF ConflictChanges
    <3>2. call[c].pc = "authorize" => call[c].kind \in Decisions
      BY <2>1 DEF DecidesFreely
    <3>3. call[c].pc = "authorize" /\ Free(call[c].actor)' => Free(call[c].actor)
      BY <2>3, <3>1, <3>2 DEF ConflictChanges, Free
    <3> QED
      BY <2>1, <3>1, <3>3 DEF DecidesFreely, Free
  <2> QED
    BY <2>2, <2>3
<1> QED
  BY <1>0, <1>1 DEF ConflictChanges, ConflictKept, Freely, MakerOut

LEMMA ConflictStep == ConflictInv /\ [Next]_vars => ConflictInv'
<1> SUFFICES ASSUME ConflictInv, [Next]_vars PROVE ConflictKept
  BY NextType DEF ConflictInv, ConflictKept
<1>0. TypeOK /\ MakerOut /\ Freely
  BY DEF ConflictInv
<1>1. ASSUME NEW c \in Calls, Start(c) PROVE ConflictKept
  <2>1. CASE BeginEscalate(c)
    BY <1>0, <2>1, EscalateBegins, EndsFree DEF rows, Deciding, MakerOut, ConflictKept
  <2>2. ASSUME NEW a \in Admins, NEW kind \in Decisions, BeginDecision(c, a, kind) PROVE ConflictKept
    BY <2>2, BeginFree DEF BeginDecision, Deciding
  <2> QED
    BY <1>1, <2>1, <2>2, BeginFree DEF Start, BeginSubmit, BeginCancel, BeginGate, BeginExecute, Deciding
<1>2. ASSUME NEW c \in Calls, Crash(c) PROVE ConflictKept
  BY <1>0, <1>2, DoneFree DEF Crash, rows, MakerOut, ConflictKept
<1>3. CASE BeginSweep
  BY <1>0, <1>3, SweepBegins, EndsFree, ConstantsAssumption DEF rows, Deciding, MakerOut, ConflictKept
<1>4. CASE PassDeadline \/ (\E a \in Admins : Deactivate(a)) \/ UNCHANGED vars
  <2>1. UNCHANGED <<call, conflicted, reviews, history>>
    BY <1>4 DEF PassDeadline, Deactivate, vars
  <2> QED
    BY <1>0, <2>1 DEF MakerOut, Freely, DecidesFreely, Free, ConflictKept
<1> QED
  BY <1>1, <1>2, <1>3, <1>4, ContinueFree, ChangeFree DEF Next

(* conflict.ts, policy-engine.ts: whatever the interleaving of handlers     *)
(* and of changes to the record, the maker never decides, and nobody else  *)
(* does who was in conflict from the moment they asked to.                 *)
THEOREM ConflictExcluded == Spec => []NoConflictedDecision
<1>1. Init => ConflictInv
  <2> SUFFICES ASSUME Init PROVE MakerOut /\ Freely
    BY InitType DEF ConflictInv
  <2>1. \A c \in Calls : call[c].pc = "idle" /\ ~call[c].cleared
    BY DEF Init, IdleCall
  <2>2. Freely
    BY <2>1 DEF Freely, DecidesFreely, Deciding
  <2> QED
    BY <2>2, ConstantsAssumption DEF Init, MakerOut
<1>2. ConflictInv => NoConflictedDecision
  BY DEF ConflictInv, MakerOut, Freely, DecidesFreely, NoConflictedDecision
<1> QED
  BY <1>1, <1>2, ConflictStep, PTL DEF Spec

-----------------------------------------------------------------------------
(* Every change of status is in the table, but for those the handlers of   *)
(* the gate and of the execute route make: markApprovalExecuted writes on  *)
(* a version it reads again after its own write, whatever the status is by *)
(* then, and markApprovalExecutionFailed checks no status at all.          *)

NoExecution == Kinds \cap {"GATE", "EXECUTE"} = {}

Executors == {"perform", "execRead", "pendingCas", "reread", "executing", "reread2", "executed",
              "logSucceeded", "failRead", "fail"}

(* What a handler checked before is still so if its version is the row's. *)
MayWrite(c) ==
  /\ NoExecution => call[c].pc \notin Executors /\ call[c].kind # "EXECUTE"
  /\ call[c].snap.version <= req.version
  /\ Fresh(c) =>
       /\ call[c].pc \in Deciding \cup {"addStep", "escalate"} => req.status \in Active
       /\ call[c].pc = "submit" => "SUBMITTED" \in AllowedTransitions(req.status)
       /\ call[c].pc = "cancel" => isValidTransition(req.status, "CANCELLED")
       /\ call[c].pc = "expire" => isValidTransition(req.status, "EXPIRED")

TableInv == TypeOK /\ \A c \in Calls : MayWrite(c)

(* A call that goes on as it was, but perhaps for what is on record of it. *)
SameCall(d) ==
  /\ call'[d].pc = call[d].pc /\ call'[d].kind = call[d].kind
  /\ call'[d].step = call[d].step /\ call'[d].snap = call[d].snap

LEMMA MayStillWrite ==
  ASSUME TypeOK, NEW d \in Calls, MayWrite(d), SameCall(d),
         req' = req \/ req'.version = req.version + 1
  PROVE  MayWrite(d)'
<1>1. call[d].snap.version \in Nat /\ req.version \in Nat
  BY DEF TypeOK, Call, Row
<1>2. CASE req' = req
  BY <1>2 DEF MayWrite, Fresh, SameCall
<1>3. CASE req'.version = req.version + 1
  <2>1. ~Fresh(d)'
    BY <1>1, <1>3 DEF MayWrite, Fresh, SameCall
  <2> QED
    BY <1>1, <1>3, <2>1 DEF MayWrite, SameCall
<1> QED
  BY <1>2, <1>3

LEMMA IdleWrites ==
  ASSUME TypeOK, NEW c \in Calls, call'[c] = IdleCall, req' = req \/ req'.version = req.version + 1
  PROVE  MayWrite(c)'
<1>1. /\ IdleCall.pc = "idle" /\ IdleCall.kind = "NONE" /\ IdleCall.snap.version = 0
  BY DEF IdleCall, NoRow
<1>2. req.version \in Nat /\ req'.version >= 0
  BY DEF TypeOK, Row
<1> QED
  BY <1>1, <1>2 DEF MayWrite, Executors, Deciding

LEMMA UpdateEffect ==
  ASSUME TypeOK, NEW status, NEW level, VersionedUpdate(status, level)
  PROVE  req'.status = status /\ req'.version = req.version + 1
BY DEF TypeOK, Row, VersionedUpdate

LEMMA ActiveMoves ==
  ASSUME req.status \in Active,
         NEW s \in {"PENDING_APPROVAL", "PARTIALLY_APPROVED", "APPROVED", "REJECTED", "CHANGES_REQUESTED"}
  PROVE  StatusStep(req.status, s)
BY DEF StatusStep, isValidTransition, AllowedTransitions, Active

ExecutionStatuses == {"EXECUTION_PENDING", "EXECUTING", "EXECUTED", "EXECUTION_FAILED"}

Lawful ==
  /\ \A d \in Calls : MayWrite(d)'
  /\ StatusStep(req.status, req'.status) \/ (~NoExecution /\ req'.status \in ExecutionStatuses)
  /\ req' = req \/ req'.version = req.version + 1

(* The row stays, and one handler goes on. *)
LEMMA ReadLawful ==
  ASSUME TableInv, NEW c \in Calls, Others(c), req' = req, MayWrite(c)'
  PROVE  Lawful
<1>1. \A d \in Calls : MayWrite(d)'
  BY MayStillWrite DEF TableInv, Others, SameCall
<1> QED
  BY <1>1 DEF Lawful, StatusStep, isValidTransition

(* A handler that ends or loses the race. *)
LEMMA EndLawful ==
  ASSUME TableInv, NEW c \in Calls, Done(c) \/ Throw(c), req' = req
  PROVE  Lawful
<1>1. /\ Others(c)
      /\ \/ call'[c] = IdleCall
         \/ /\ call'[c].pc = "failRead" /\ call'[c].kind = "EXECUTE" /\ call[c].kind = "EXECUTE"
            /\ call'[c].snap = call[c].snap
  BY DoneEffect, ThrowEffect DEF TableInv
<1>2. MayWrite(c) /\ TypeOK
  BY DEF TableInv
<1>3. MayWrite(c)'
  BY <1>1, <1>2, IdleWrites DEF MayWrite, Fresh, Deciding
<1> QED
  BY <1>1, <1>3, ReadLawful

(* The row changes, as the table allows. *)
LEMMA WriteLawful ==
  ASSUME TableInv, NEW c \in Calls, NEW status, NEW level,
         VersionedUpdate(status, level), Others(c), MayWrite(c)',
         StatusStep(req.status, status) \/ (~NoExecution /\ status \in ExecutionStatuses)
  PROVE  Lawful
<1>1. req'.status = status /\ req'.version = req.version + 1
  BY UpdateEffect DEF TableInv
<1>2. \A d \in Calls : MayWrite(d)'
  BY <1>1, MayStillWrite DEF TableInv, Others, SameCall
<1> QED
  BY <1>1, <1>2 DEF Lawful

LEMMA ConcludeLawful ==
  ASSUME TableInv, NEW c \in Calls, NEW pc, NEW status, NEW level, Conclude(c, pc, status, level),
         Fresh(c) => StatusStep(req.status, status) \/ (~NoExecution /\ status \in ExecutionStatuses)
  PROVE  Lawful
<1>1. CASE LosesRace(c)
  BY <1>1, EndLawful DEF LosesRace, rows
<1>2. CASE Fresh(c) /\ VersionedUpdate(status, level) /\ Done(c)
  <2>1. Others(c) /\ call'[c] = IdleCall /\ req'.version = req.version + 1
    BY <1>2, DoneEffect, UpdateEffect DEF TableInv
  <2>2. MayWrite(c)'
    BY <2>1, IdleWrites DEF TableInv
  <2> QED
    BY <1>2, <2>1, <2>2, WriteLawful
<1> QED
  BY <1>1, <1>2 DEF Conclude

(* A handler that goes on to an await of the same kind has checked enough. *)
LEMMA GoesLawful ==
  ASSUME TableInv, NEW c \in Calls, Others(c), req' = req,
         call'[c].kind = call[c].kind, call'[c].snap = call[c].snap, call'[c].pc \notin Executors,
         call'[c].pc \notin {"submit", "cancel", "expire"},
         call'[c].pc \in Deciding \cup {"addStep", "escalate"} =>
           call[c].pc \in Deciding \cup {"addStep", "escalate"} \/ req.status \in Active
  PROVE  Lawful
<1>1. MayWrite(c)'
  BY DEF TableInv, MayWrite, Fresh
<1> QED
  BY <1>1, ReadLawful

(* The gate and the execute route: what they write is on the list. *)
LEMMA ExecutorGoes ==
  ASSUME TableInv, NEW c \in Calls, call[c].pc \in Executors, Others(c),
         call'[c].pc \in Executors, call'[c].snap \in {call[c].snap, req},
         \/ req' = req
         \/ \E status \in ExecutionStatuses, level \in Nat : VersionedUpdate(status, level)
  PROVE  Lawful
<1>1. /\ ~NoExecution /\ TypeOK /\ req.version \in Nat /\ call[c].snap.version \in Nat
      /\ call[c].snap.version <= req.version
  BY DEF TableInv, MayWrite, TypeOK, Call, Row
<1>2. req' = req \/ req'.version = req.version + 1
  BY <1>1, UpdateEffect
<1>3. MayWrite(c)'
  BY <1>1, <1>2 DEF MayWrite, Executors, Deciding
<1>4. CASE req' = req
  BY <1>3, <1>4, ReadLawful
<1>5. ASSUME NEW status \in ExecutionStatuses, NEW level \in Nat, VersionedUpdate(status, level)
      PROVE  Lawful
  BY <1>1, <1>3, <1>5, WriteLawful
<1> QED
  BY <1>4, <1>5

LEMMA ExecutorLawful ==
  ASSUME TableInv, NEW c \in Calls,
         Perform(c) \/ ExecRead(c) \/ MarkExecuted(c) \/ FailRead(c) \/ MarkFailed(c)
  PROVE  Lawful
<1>0. TypeOK /\ req.level \in Nat
  BY DEF TableInv, TypeOK, Row
<1>1. ASSUME LosesRace(c) PROVE Lawful
  BY <1>1, EndLawful DEF LosesRace, rows
<1>2. CASE Perform(c)
  BY <1>0, <1>2, GotoEffect, ExecutorGoes DEF Perform, At, Executors
<1>3. CASE ExecRead(c)
  <2>1. CASE Done(c) \/ Throw(c)
    BY <1>3, <2>1, EndLawful DEF ExecRead, rows
  <2>2. CASE Reread(c, IF req.status = "APPROVED" THEN "pendingCas" ELSE "executing")
    <3>1. Others(c) /\ call'[c].snap = req /\ call'[c].pc \in {"pendingCas", "executing"}
      BY <1>0, <2>2, RereadEffect
    <3> QED
      BY <1>3, <3>1, ExecutorGoes DEF ExecRead, At, rows, Executors
  <2> QED
    BY <1>3, <2>1, <2>2 DEF ExecRead
<1>4. CASE MarkExecuted(c)
  <2>1. ASSUME NEW pc \in Executors, NEW status \in ExecutionStatuses, NEW next \in Executors,
               ExecCas(c, pc, status, next)
        PROVE  Lawful
    <3>1. CASE ~LosesRace(c)
      BY <1>0, <2>1, <3>1, GotoEffect, ExecutorGoes DEF ExecCas, At
    <3> QED
      BY <1>1, <3>1
  <2>2. ASSUME NEW pc \in Executors, NEW next \in Executors, ExecReread(c, pc, next) PROVE Lawful
    BY <1>0, <2>2, RereadEffect, ExecutorGoes DEF ExecReread, At, rows
  <2>3. CASE LogSucceeded(c)
    BY <2>3, EndLawful DEF LogSucceeded
  <2>4. /\ {"pendingCas", "reread", "executing", "reread2", "executed", "logSucceeded"} \subseteq Executors
        /\ {"EXECUTION_PENDING", "EXECUTING", "EXECUTED"} \subseteq ExecutionStatuses
    BY DEF Executors, ExecutionStatuses
  <2> QED
    BY <1>4, <2>1, <2>2, <2>3, <2>4 DEF MarkExecuted
<1>5. CASE FailRead(c)
  BY <1>0, <1>5, RereadEffect, ExecutorGoes DEF FailRead, At, rows, Executors
<1>6. CASE MarkFailed(c)
  <2>1. ~NoExecution
    BY <1>6 DEF MarkFailed, Conclude, At, TableInv, MayWrite, Executors
  <2> QED
    BY <1>6, <2>1, ConcludeLawful DEF MarkFailed, ExecutionStatuses
<1> QED
  BY <1>2, <1>3, <1>4, <1>5, <1>6

LEMMA ContinueLawful ==
  ASSUME TableInv, NEW c \in Calls, Continue(c)
  PROVE  Lawful
<1> USE DEF TableInv
<1>0. MayWrite(c)
  OBVIOUS
<1>1. CASE Authorize(c)
  <2>1. CASE call'[c] = IdleCall
    <3>1. MayWrite(c)'
      BY <1>1, <2>1, IdleWrites, AuthorizeEffect DEF rows
    <3> QED
      BY <1>1, <3>1, ReadLawful, AuthorizeEffect DEF rows
  <2>2. CASE call'[c].pc = "expireRead" /\ call'[c].kind = call[c].kind /\ call'[c].snap = call[c].snap
    BY <1>1, <2>2, GoesLawful, AuthorizeEffect DEF rows, Executors, Deciding
  <2>3. CASE /\ call'[c].pc = "upsert" /\ call'[c].kind = call[c].kind /\ call'[c].snap = call[c].snap
             /\ req.status \in Active
    BY <1>1, <2>3, GoesLawful, AuthorizeEffect DEF rows, Executors
  <2>4. CASE /\ call'[c].pc = "failRead" /\ call'[c].kind = "EXECUTE" /\ call[c].kind = "EXECUTE"
             /\ call'[c].snap = call[c].snap
    <3>1. Others(c) /\ req' = req
      BY <1>1, AuthorizeEffect DEF rows
    <3>2. MayWrite(c)'
      BY <1>0, <2>4, <3>1 DEF MayWrite, Fresh, Deciding
    <3> QED
      BY <3>1, <3>2, ReadLawful
  <2> QED
    BY <1>1, <2>1, <2>2, <2>3, <2>4, AuthorizeEffect
<1>2. CASE UpsertReviewer(c)
  <2>1. AfterUpsert(call[c].kind) \in {"quorum", "reject", "wipeReviewers"}
    BY DEF AfterUpsert
  <2> QED
    BY <1>2, <2>1, GotoEffect, GoesLawful DEF UpsertReviewer, At, Executors, Deciding
<1>3. CASE WipeReviewers(c) \/ WipeSteps(c) \/ SatisfyStep(c)
  BY <1>3, GotoEffect, GoesLawful DEF WipeReviewers, WipeSteps, SatisfyStep, At, Executors, Deciding
<1>4. CASE CheckQuorum(c)
  BY <1>4, GotoEffect, GoesLawful DEF CheckQuorum, At, rows, Executors, Deciding
<1>5. CASE OpenNextStep(c)
  BY <1>5, OpenNextEffect, GoesLawful DEF OpenNextStep, At, Executors, Deciding
<1>6. CASE Reject(c) \/ PartiallyApprove(c) \/ AdvanceLevel(c)
  <2>1. Fresh(c) => req.status \in Active
    BY <1>0, <1>6 DEF MayWrite, Deciding, Reject, PartiallyApprove, AdvanceLevel, Conclude, At
  <2>2. Fresh(c) => /\ StatusStep(req.status, "REJECTED") /\ StatusStep(req.status, "PARTIALLY_APPROVED")
                    /\ StatusStep(req.status, "PENDING_APPROVAL")
    BY <2>1, ActiveMoves
  <2> QED
    BY <1>6, <2>2, ConcludeLawful DEF Reject, PartiallyApprove, AdvanceLevel
<1>7. CASE Escalate(c)
  <2>1. Fresh(c) => StatusStep(req.status, "PENDING_APPROVAL")
    BY <1>0, <1>7, ActiveMoves DEF MayWrite, Escalate, Conclude, At
  <2> QED
    BY <1>7, <2>1, ConcludeLawful DEF Escalate
<1>8. CASE Cancel(c)
  <2>1. Fresh(c) => StatusStep(req.status, "CANCELLED")
    BY <1>0, <1>8 DEF MayWrite, Cancel, Conclude, At, StatusStep
  <2> QED
    BY <1>8, <2>1, ConcludeLawful DEF Cancel
<1>9. CASE Expire(c)
  <2>1. Fresh(c) => StatusStep(req.status, "EXPIRED")
    BY <1>0, <1>9 DEF MayWrite, Expire, Conclude, At, StatusStep
  <2> QED
    BY <1>9, <2>1, ConcludeLawful DEF Expire
<1>10. CASE RequestChanges(c) \/ Approve(c)
  <2>1. CASE LosesRace(c)
    BY <2>1, EndLawful DEF LosesRace, rows
  <2>2. ASSUME NEW status \in {"CHANGES_REQUESTED", "APPROVED"}, NEW level,
               Fresh(c), VersionedUpdate(status, level), Done(c)
        PROVE  Lawful
    <3>1. req.status \in Active
      BY <1>0, <1>10, <2>2 DEF MayWrite, Deciding, RequestChanges, Approve, At
    <3>2. StatusStep(req.status, status)
      BY <3>1, ActiveMoves
    <3>3. Others(c) /\ call'[c] = IdleCall /\ req'.version = req.version + 1
      BY <2>2, DoneEffect, UpdateEffect
    <3>4. MayWrite(c)'
      BY <3>3, IdleWrites
    <3> QED
      BY <2>2, <3>2, <3>3, <3>4, WriteLawful
  <2> QED
    BY <1>10, <2>1, <2>2 DEF RequestChanges, Approve
<1>11. CASE Submit(c)
  <2>1. CASE LosesRace(c)
    BY <2>1, EndLawful DEF LosesRace, rows
  <2>2. CASE Fresh(c) /\ VersionedUpdate("PENDING_APPROVAL", steps[1].level) /\ Goto(c, "openFirst")
    <3>1. StatusStep(req.status, "PENDING_APPROVAL")
      BY <1>0, <1>11, <2>2 DEF MayWrite, Submit, At, StatusStep
    <3>2. Others(c) /\ call'[c].pc = "openFirst" /\ call'[c].kind = call[c].kind /\ call'[c].snap = call[c].snap
      BY <2>2, GotoEffect
    <3>3. req'.version = req.version + 1 /\ req.version \in Nat
      BY <2>2, UpdateEffect DEF TypeOK, Row
    <3>4. MayWrite(c)'
      BY <1>0, <2>2, <3>2, <3>3 DEF MayWrite, Fresh, Executors, Deciding
    <3> QED
      BY <2>2, <3>1, <3>2, <3>4, WriteLawful
  <2> QED
    BY <1>11, <2>1, <2>2 DEF Submit
<1>12. CASE OpenFirstStep(c)
  BY <1>12, EndLawful DEF OpenFirstStep
<1>13. CASE ExpireRead(c)
  <2>1. CASE Done(c)
    BY <1>13, <2>1, EndLawful DEF ExpireRead, rows
  <2>2. CASE isValidTransition(req.status, "EXPIRED") /\ Reread(c, "expire")
    <3>1. Others(c) /\ call'[c].pc = "expire" /\ call'[c].snap = req /\ call'[c].kind = call[c].kind
      BY <2>2, RereadEffect
    <3>2. MayWrite(c)'
      BY <1>0, <1>13, <2>2, <3>1 DEF ExpireRead, rows, MayWrite, Executors, Deciding, TypeOK, Row
    <3> QED
      BY <1>13, <3>1, <3>2, ReadLawful DEF ExpireRead, rows
  <2> QED
    BY <1>13, <2>1, <2>2 DEF ExpireRead
<1>14. CASE AddStep(c)
  <2>1. CASE Goto(c, "escalate")
    BY <1>14, <2>1, GotoEffect, GoesLawful DEF AddStep, At, Executors, Deciding
  <2>2. CASE Throw(c)
    BY <1>14, <2>2, EndLawful DEF AddStep
  <2> QED
    BY <1>14, <2>1, <2>2 DEF AddStep
<1>15. CASE Perform(c) \/ ExecRead(c) \/ MarkExecuted(c) \/ FailRead(c) \/ MarkFailed(c)
  BY <1>15, ExecutorLawful
<1> QED
  BY <1>1, <1>2, <1>3, <1>4, <1>5, <1>6, <1>7, <1>8, <1>9, <1>10, <1>11, <1>12, <1>13, <1>14, <1>15 DEF Continue

(* A handler starts: it knows the row as it is. *)
LEMMA StartLawful ==
  ASSUME TableInv, NEW c \in Calls, Start(c)
  PROVE  Lawful
<1> USE DEF TableInv
<1>0. req.version \in Nat /\ req.status # "SUBMITTED"
  BY DEF TypeOK, Row, Statuses, Active, Granted, Closed
<1>1. ASSUME NEW a, NEW kind, NEW pc, pc \in Executors => ~NoExecution, Begin(c, a, kind, pc),
             pc \in Deciding \cup {"addStep", "escalate"} => req.status \in Active,
             pc = "submit" => "SUBMITTED" \in AllowedTransitions(req.status),
             pc = "cancel" => isValidTransition(req.status, "CANCELLED"),
             pc # "expire"
      PROVE  Lawful
  <2>1. /\ Others(c) /\ UNCHANGED rows /\ kind \in Kinds
        /\ call'[c].pc = pc /\ call'[c].kind = kind /\ call'[c].snap = req
    BY <1>1, BeginEffect
  <2>2. MayWrite(c)'
    BY <1>0, <1>1, <2>1 DEF rows, MayWrite, NoExecution
  <2> QED
    BY <2>1, <2>2, ReadLawful DEF rows
<1>2. CASE BeginSubmit(c)
  BY <1>0, <1>1, <1>2 DEF BeginSubmit, isValidTransition, Executors, Deciding
<1>3. CASE BeginCancel(c)
  BY <1>1, <1>3 DEF BeginCancel, Executors, Deciding
<1>4. ASSUME NEW a \in Admins, NEW kind \in Decisions, BeginDecision(c, a, kind) PROVE Lawful
  BY <1>1, <1>4 DEF BeginDecision, Executors, Deciding
<1>5. CASE BeginEscalate(c)
  <2>1. /\ Others(c) /\ UNCHANGED rows /\ req.status \in Active
        /\ call'[c].pc = "addStep" /\ call'[c].kind = "ESCALATE" /\ call'[c].snap = req
    BY <1>5, EscalateBegins
  <2>2. MayWrite(c)'
    BY <1>0, <2>1 DEF rows, MayWrite, Executors
  <2> QED
    BY <2>1, <2>2, ReadLawful DEF rows
<1>6. CASE BeginGate(c) \/ BeginExecute(c)
  BY <1>1, <1>6 DEF BeginGate, BeginExecute, Begin, NoExecution, Deciding
<1> QED
  BY <1>2, <1>3, <1>4, <1>5, <1>6 DEF Start

LEMMA ChangeEffect ==
  ASSUME TypeOK, NEW a \in Exposed, ConflictChanges(a)
  PROVE  /\ UNCHANGED <<req, steps, reviews, performed, history>>
         /\ \A d \in Calls : SameCall(d)
<1>1. ASSUME NEW d \in Calls PROVE SameCall(d)
  <2>1. call[d] \in Call
    BY DEF TypeOK
  <2> QED
    BY <2>1 DEF ConflictChanges, SameCall, Call
<1> QED
  BY <1>1 DEF ConflictChanges

LEMMA TableStep ==
  ASSUME TableInv, [Next]_vars
  PROVE  TypeOK' /\ Lawful
<1> USE DEF TableInv
<1>1. TypeOK'
  BY NextType
<1>2. ASSUME NEW c \in Calls, Crash(c) PROVE Lawful
  BY <1>2, EndLawful DEF Crash, rows
<1>3. ASSUME BeginSweep PROVE Lawful
  <2>1. /\ Others(Sweeper) /\ UNCHANGED rows /\ Sweeper \in Calls
        /\ call'[Sweeper].pc = "expireRead" /\ call'[Sweeper].kind = "SWEEP" /\ call'[Sweeper].snap = NoRow
    BY <1>3, SweepBegins, ConstantsAssumption
  <2>2. req.version \in Nat /\ NoRow.version = 0
    BY DEF TypeOK, Row, NoRow
  <2>3. MayWrite(Sweeper)'
    BY <2>1, <2>2 DEF rows, MayWrite, Executors, Deciding
  <2> QED
    BY <2>1, <2>3, ReadLawful DEF rows
<1>4. ASSUME req' = req, \A d \in Calls : SameCall(d) PROVE Lawful
  <2>1. \A d \in Calls : MayWrite(d)'
    BY <1>4, MayStillWrite
  <2>2. StatusStep(req.status, req'.status)
    BY <1>4 DEF StatusStep, isValidTransition
  <2> QED
    BY <1>4, <2>1, <2>2 DEF Lawful
<1>5. ASSUME PassDeadline \/ (\E a \in Admins : Deactivate(a)) \/ UNCHANGED vars PROVE Lawful
  <2>1. req' = req /\ call' = call
    BY <1>5 DEF PassDeadline, Deactivate, vars
  <2> QED
    BY <1>4, <2>1 DEF SameCall
<1>6. ASSUME NEW a \in Exposed, ConflictChanges(a) PROVE Lawful
  BY <1>4, <1>6, ChangeEffect
<1> QED
  BY <1>1, <1>2, <1>3, <1>5, <1>6, ContinueLawful, StartLawful DEF Next

LEMMA TableStarts == Init => TableInv
<1> SUFFICES ASSUME Init PROVE \A c \in Calls : MayWrite(c)
  BY InitType DEF TableInv
<1>1. TypeOK /\ req.version = 1 /\ \A c \in Calls : call[c] = IdleCall
  BY InitType DEF Init
<1>2. IdleCall.pc = "idle" /\ IdleCall.kind = "NONE" /\ IdleCall.snap.version = 0
  BY DEF IdleCall, NoRow
<1> QED
  BY <1>1, <1>2 DEF MayWrite, Executors, Deciding

(* status.ts:10-27 and withVersionedUpdate: whatever a handler read when    *)
(* it began, it changes the status only as the table allows, as long as    *)
(* approvers, makers and the sweep are the only ones at work.              *)
THEOREM TableFollowed ==
  ASSUME Kinds \cap {"GATE", "EXECUTE"} = {}
  PROVE  Spec => StatusFollowsTable
<1>1. TableInv /\ [Next]_vars => TableInv' /\ [StatusStep(req.status, req'.status)]_vars
  BY TableStep DEF TableInv, Lawful, NoExecution
<1> QED
  BY <1>1, TableStarts, PTL DEF Spec, StatusFollowsTable

-----------------------------------------------------------------------------
(* Four eyes.  Steps and reviews are written without the version, so the   *)
(* argument follows the ladder: a rung is opened only when the ones below  *)
(* it have been approved by enough people.  What was approved stays on     *)
(* record until changes are requested; who had counted a quorum before     *)
(* that is then no longer fresh, and nothing has been granted, because     *)
(* nothing that was granted is ever open again.  None of this survives a   *)
(* reset of a ladder of several rungs (see ApprovalSkip) or an escalation. *)

Open == Active \cup {"DRAFT", "CHANGES_REQUESTED"}

Quorate(i) == Cardinality(Approvers(history.standing, i)) >= steps[i].quorum
Climbed(i) == \A j \in Present : j < i => Quorate(j)

RungInv(i) ==
  /\ steps[i].level = RequiredLevel
  /\ steps[i].status # "PENDING" => Climbed(i)
  /\ RequiredLevel = 3 /\ steps[i].status = "SATISFIED" => Quorate(i)

(* What is granted has every approval it needs and is not opened again. *)
Settled == FullLadder(history.standing) /\ req.status \notin Open

(* What the handler has counted still stands. *)
Current(c) == RequiredLevel = 3 \/ Fresh(c)

OnRung  == {"upsert", "quorum", "satisfy", "openNext"}
Granting == {"perform", "pendingCas", "reread", "executing", "reread2", "executed", "logSucceeded"}

ClimberInv(c) ==
  /\ call[c].pc \in OnRung =>
       /\ call[c].step \in Present
       /\ call[c].step # 1 => steps[call[c].step].status # "PENDING"
  /\ Current(c) /\ call[c].pc \in {"satisfy", "openNext"} => Quorate(call[c].step)
  /\ Current(c) /\ call[c].pc = "approve" => FullLadder(history.standing)
  /\ call[c].pc \in Granting => Settled

LadderInv ==
  /\ RequiredLevel # 3 => Present = {1}
  /\ \A i \in Present : RungInv(i)
  /\ \A c \in Calls : ClimberInv(c)
  /\ req.status \in Granted \/ performed > 0 => Settled

(* Only a handler that was asked for changes resets the ladder. *)
ResetAsked(c) ==
  /\ call[c].pc \in {"authorize", "upsert"} => call[c].kind \in Decisions \cap Kinds
  /\ call[c].pc \in {"wipeReviewers", "wipeSteps", "changes"} => "REQUEST_CHANGES" \in Kinds

ResetsOnlyAsked == \A c \in Calls : ResetAsked(c)

ReviewsOnRecord ==
  /\ \A i \in StepIds, a \in Admins : reviews[i][a] = "APPROVED" => <<i, a>> \in history.sinceReset
  /\ history.sinceReset \subseteq history.standing

EyesInv == TypeOK /\ TableInv /\ ResetsOnlyAsked /\ ReviewsOnRecord /\ (~history.escalated => LadderInv)

(* The ladder keeps its rungs, and the record of approvals grows. *)
SameRungs ==
  /\ Present' = Present /\ history.standing \subseteq history'.standing
  /\ \A i \in Present : /\ steps'[i].roles = steps[i].roles /\ steps'[i].quorum = steps[i].quorum
                        /\ steps'[i].level = steps[i].level

(* What every step does to the row. *)
RowMoves ==
  /\ req' = req \/ req'.version = req.version + 1
  /\ req'.status \in Open => req.status \in Open

LEMMA RowStep == EyesInv /\ [Next]_vars => RowMoves /\ TableInv'
<1> SUFFICES ASSUME EyesInv, [Next]_vars PROVE RowMoves /\ TableInv'
  OBVIOUS
<1>1. TypeOK' /\ Lawful
  BY TableStep DEF EyesInv
<1>2. req.status \in Statuses
  BY DEF EyesInv, TypeOK, Row
<1>3. StatusStep(req.status, req'.status) /\ req'.status \in Open => req.status \in Open
  BY <1>2 DEF StatusStep, isValidTransition, AllowedTransitions, Open, Statuses, Active, Granted, Closed
<1>4. req'.status \in ExecutionStatuses => req'.status \notin Open
  BY DEF ExecutionStatuses, Open, Active
<1> QED
  BY <1>1, <1>3, <1>4 DEF Lawful, RowMoves, TableInv

LEMMA QuorateStays ==
  ASSUME TypeOK, SameRungs, NEW i \in Present, Quorate(i)
  PROVE  Quorate(i)'
<1> DEFINE S == Approvers(history.standing, i)
           T == Approvers(history.standing, i)'
<1>1. S \subseteq T
  BY DEF SameRungs, Approvers, Eligible
<1>2. IsFiniteSet(T)
  <2>1. T \in SUBSET Admins
    BY DEF Approvers
  <2> QED
    BY <2>1, FS_Subset, ConstantsAssumption
<1>3. /\ Cardinality(S) <= Cardinality(T) /\ Cardinality(T) \in Nat /\ IsFiniteSet(S)
  BY <1>1, <1>2, FS_Subset, FS_CardinalityType
<1>4. Cardinality(S) \in Nat
  BY <1>3, FS_CardinalityType
<1>5. steps[i].quorum \in Nat /\ steps'[i].quorum = steps[i].quorum
  BY DEF SameRungs, TypeOK, Step, Present
<1> HIDE DEF S, T
<1>6. Cardinality(S) >= steps[i].quorum => Cardinality(T) >= steps'[i].quorum
  BY <1>3, <1>4, <1>5
<1> QED
  BY <1>6 DEF Quorate, S, T

LEMMA FullStays ==
  ASSUME TypeOK, SameRungs, FullLadder(history.standing)
  PROVE  FullLadder(history.standing)'
<1>1. \A i \in Present : Quorate(i)'
  BY QuorateStays DEF FullLadder, Quorate
<1> QED
  BY <1>1 DEF SameRungs, FullLadder, Quorate

LEMMA SettledStays ==
  ASSUME TypeOK, SameRungs, RowMoves, Settled
  PROVE  Settled'
BY FullStays DEF Settled, RowMoves, Open

(* No rung but the first goes back. *)
NoRungBack == \A i \in Present : i # 1 /\ steps[i].status # "PENDING" => steps'[i].status # "PENDING"

LEMMA ClimberStays ==
  ASSUME TypeOK, SameRungs, NoRungBack, RowMoves, NEW d \in Calls, MayWrite(d), ClimberInv(d), SameCall(d)
  PROVE  ClimberInv(d)'
<1>2. Current(d)' => Current(d)
  <2>1. /\ call[d].snap.version \in Nat /\ req.version \in Nat
        /\ call[d].snap.version <= req.version
    BY DEF TypeOK, Call, Row, MayWrite
  <2> QED
    BY <2>1 DEF Current, Fresh, RowMoves, SameCall
<1>1. call[d].pc \in {"satisfy", "openNext"} => call[d].step \in Present
  BY DEF ClimberInv, OnRung
<1> QED
  BY <1>1, <1>2, QuorateStays, FullStays, SettledStays DEF ClimberInv, SameRungs, NoRungBack, SameCall

LEMMA RungStays ==
  ASSUME TypeOK, SameRungs, NEW i \in Present, RungInv(i), steps'[i].status \in {steps[i].status, "PENDING"}
  PROVE  RungInv(i)'
<1>1. \A j \in Present : Quorate(j) => Quorate(j)'
  BY QuorateStays
<1>2. Climbed(i) => Climbed(i)'
  BY <1>1 DEF Climbed, SameRungs
<1> QED
  BY <1>1, <1>2 DEF RungInv, SameRungs

(* What every step shows: one call and perhaps one rung are written. *)
LEMMA LadderStays ==
  ASSUME TypeOK, TableInv, RowMoves, LadderInv, SameRungs, NoRungBack, NEW c \in Calls, Others(c), ClimberInv(c)',
         \A i \in Present : RungInv(i)',
         req'.status \in Granted => req.status \in Granted \/ Settled',
         performed' > 0 => performed > 0 \/ Settled
  PROVE  LadderInv'
<1>1. \A d \in Calls : ClimberInv(d)'
  BY ClimberStays DEF TableInv, LadderInv, Others, SameCall
<1>2. (req'.status \in Granted \/ performed' > 0) => Settled'
  BY SettledStays DEF LadderInv
<1> QED
  BY <1>1, <1>2 DEF LadderInv, SameRungs

(* The rungs stay as they are. *)
LEMMA StandsStill ==
  ASSUME TypeOK, TableInv, RowMoves, LadderInv, steps' = steps, history.standing \subseteq history'.standing,
         NEW c \in Calls, Others(c), ClimberInv(c)',
         req'.status \in Granted => req.status \in Granted \/ Settled',
         performed' > 0 => performed > 0 \/ Settled
  PROVE  LadderInv'
<1>1. SameRungs /\ NoRungBack
  BY DEF SameRungs, NoRungBack, Present
<1>2. \A i \in Present : RungInv(i)'
  BY <1>1, RungStays DEF LadderInv
<1> QED
  BY <1>1, <1>2, LadderStays

(* One rung gets another status; it was climbed to, and on a ladder of     *)
(* several rungs a satisfied one has its quorum.                           *)
LEMMA RungWritten ==
  ASSUME TypeOK, LadderInv, NEW i \in Present, NEW s \in {"IN_PROGRESS", "SATISFIED"},
         steps' = [steps EXCEPT ![i].status = s], history' = history,
         Climbed(i), RequiredLevel = 3 /\ s = "SATISFIED" => Quorate(i)
  PROVE  SameRungs /\ NoRungBack /\ \A j \in Present : RungInv(j)'
<1>1. /\ i \in StepIds /\ steps \in [StepIds -> Step] /\ steps[i] \in Step
      /\ \A j \in StepIds \ {i} : steps'[j] = steps[j]
  BY DEF TypeOK, Present
<1>2. /\ steps'[i].status = s /\ steps'[i].level = steps[i].level
      /\ steps'[i].roles = steps[i].roles /\ steps'[i].quorum = steps[i].quorum
  BY <1>1 DEF Step
<1>3. SameRungs
  BY <1>1, <1>2 DEF SameRungs, Present
<1>4. NoRungBack
  BY <1>1, <1>2 DEF NoRungBack, Present
<1>5. ASSUME NEW j \in Present, j # i PROVE RungInv(j)'
  BY <1>1, <1>3, <1>5, RungStays DEF LadderInv, Present
<1>6. RungInv(i)'
  <2>1. \A j \in Present : Quorate(j) => Quorate(j)'
    BY <1>3, QuorateStays
  <2>2. Climbed(i)'
    BY <1>3, <2>1 DEF Climbed, SameRungs
  <2> QED
    BY <1>2, <2>1, <2>2 DEF RungInv, LadderInv
<1> QED
  BY <1>3, <1>4, <1>5, <1>6

(* The step findOpenStep finds: a rung in progress, none in progress above *)
(* it, or else the first.                                                  *)
LEMMA OpenRung ==
  ASSUME TypeOK, LadderInv, NEW l, findOpenStep(l) # 0
  PROVE  LET i == findOpenStep(l)
         IN  /\ i \in Present
             /\ i = 1 \/ steps[i].status = "IN_PROGRESS"
             /\ \A s \in Present : steps[s].status = "IN_PROGRESS" => s <= i
<1> DEFINE i == findOpenStep(l)
<1>1. /\ InProgress(l) \in SUBSET StepIds /\ AtLevel(l) \in SUBSET StepIds
      /\ InProgress(l) \subseteq AtLevel(l) /\ AtLevel(l) \subseteq Present
      /\ StepIds \subseteq Nat /\ \A j \in StepIds : j >= 1
  BY ConstantsAssumption DEF AtLevel, InProgress, Present, StepIds
<1>2. AtLevel(l) # {}
  BY <1>1 DEF findOpenStep
<1>3. PICK j \in AtLevel(l) : TRUE
  BY <1>2
<1>4. l = RequiredLevel
  BY <1>3 DEF AtLevel, LadderInv, RungInv
<1>5. AtLevel(l) = Present /\ \A s \in Present : steps[s].status = "IN_PROGRESS" => s \in InProgress(l)
  BY <1>4 DEF AtLevel, InProgress, LadderInv, RungInv
<1>6. CASE InProgress(l) # {}
  <2>1. i = Highest(InProgress(l))
    BY <1>6 DEF findOpenStep
  <2>2. i \in InProgress(l) /\ \A s \in InProgress(l) : s <= i
    BY <1>1, <1>6, <2>1, HighestIsMember
  <2> HIDE DEF i
  <2> QED
    BY <1>1, <1>5, <2>2 DEF InProgress, i
<1>7. CASE InProgress(l) = {}
  <2>1. i = Lowest(AtLevel(l))
    BY <1>2, <1>7 DEF findOpenStep
  <2>2. i \in AtLevel(l) /\ \A s \in AtLevel(l) : i <= s
    BY <1>1, <1>2, <2>1, LowestIsMember
  <2>3. 1 \in AtLevel(l)
    BY <1>5 DEF TypeOK
  <2> HIDE DEF i
  <2>4. i = 1
    <3>1. i \in Nat /\ i >= 1
      BY <1>1, <2>2
    <3>2. i <= 1
      BY <2>2, <2>3
    <3> QED
      BY <3>1, <3>2
  <2>5. 1 \in Present /\ \A s \in Present : steps[s].status # "IN_PROGRESS"
    BY <1>5, <1>7, <2>3
  <2> QED
    BY <2>4, <2>5 DEF i
<1> QED
  BY <1>6, <1>7

(* checkQuorum looks at the open rung, whatever rung the handler is on;    *)
(* either way the handler's own rung has its quorum.                       *)
LEMMA QuorumOfRung ==
  ASSUME TypeOK, LadderInv, ReviewsOnRecord, NEW c \in Calls, call[c].pc = "quorum", checkQuorum
  PROVE  Quorate(call[c].step)
<1> DEFINE k == findOpenStep(req.level)
           s == call[c].step
<1>1. /\ k \in Present /\ (k = 1 \/ steps[k].status = "IN_PROGRESS")
      /\ \A j \in Present : steps[j].status = "IN_PROGRESS" => j <= k
  BY OpenRung DEF checkQuorum
<1>2. s \in Present /\ (s # 1 => steps[s].status # "PENDING")
  BY DEF LadderInv, ClimberInv, OnRung
<1>3. Cardinality(ValidApprovals(k)) >= steps[k].quorum
  BY DEF checkQuorum
<1> HIDE DEF k, s
<1>4. Present \subseteq StepIds /\ StepIds \subseteq Nat /\ \A j \in StepIds : j >= 1
  BY ConstantsAssumption DEF Present, StepIds
<1>5. Quorate(k)
  <2>1. ValidApprovals(k) \subseteq Approvers(history.standing, k)
    BY <1>1, <1>4 DEF ValidApprovals, Approvers, ReviewsOnRecord, TypeOK
  <2>2. IsFiniteSet(Approvers(history.standing, k))
    <3>1. Approvers(history.standing, k) \in SUBSET Admins
      BY DEF Approvers
    <3> QED
      BY <3>1, FS_Subset, ConstantsAssumption
  <2>3. /\ Cardinality(ValidApprovals(k)) <= Cardinality(Approvers(history.standing, k))
        /\ IsFiniteSet(ValidApprovals(k))
    BY <2>1, <2>2, FS_Subset
  <2>4. Cardinality(ValidApprovals(k)) \in Nat /\ Cardinality(Approvers(history.standing, k)) \in Nat
    BY <2>2, <2>3, FS_CardinalityType
  <2>5. steps[k].quorum \in Nat
    BY <1>1, <1>4 DEF TypeOK, Step
  <2> QED
    BY <1>3, <2>3, <2>4, <2>5 DEF Quorate
<1>6. CASE s < k
  <2>1. steps[k].status = "IN_PROGRESS"
    BY <1>1, <1>2, <1>4, <1>6
  <2> QED
    BY <1>1, <1>2, <1>6, <2>1 DEF LadderInv, RungInv, Climbed, s
<1>7. CASE s > k
  <2>0. RequiredLevel = 3
    BY <1>1, <1>2, <1>7 DEF LadderInv
  <2>1. steps[s].status \in {"IN_PROGRESS", "SATISFIED"}
    BY <1>1, <1>2, <1>4, <1>7 DEF TypeOK, Step, Present
  <2>2. steps[s].status = "SATISFIED"
    BY <1>1, <1>2, <1>4, <1>7, <2>1
  <2> QED
    BY <1>2, <2>0, <2>2 DEF LadderInv, RungInv, s
<1>8. CASE s = k
  BY <1>5, <1>8 DEF s
<1>9. s \in Nat /\ k \in Nat
  BY <1>1, <1>2, <1>4
<1> QED
  BY <1>6, <1>7, <1>8, <1>9

(* A rung a handler is on has been climbed to. *)
LEMMA OnRungClimbed ==
  ASSUME TypeOK, LadderInv, NEW c \in Calls, call[c].pc \in OnRung
  PROVE  call[c].step \in Present /\ Climbed(call[c].step)
<1>1. call[c].step \in Present /\ (call[c].step # 1 => Climbed(call[c].step))
  BY DEF LadderInv, ClimberInv, RungInv
<1>2. Climbed(1)
  BY ConstantsAssumption DEF Climbed, Present, StepIds
<1> QED
  BY <1>1, <1>2

-----------------------------------------------------------------------------
EyesKept == ResetsOnlyAsked' /\ ReviewsOnRecord' /\ (~history'.escalated => LadderInv')

Watched == OnRung \cup Granting \cup {"authorize", "approve", "wipeReviewers", "wipeSteps", "changes"}

LEMMA ResetsKept ==
  ASSUME EyesInv, RowMoves, NEW c \in Calls, Others(c), ResetAsked(c)'
  PROVE  ResetsOnlyAsked'
<1>1. \A d \in Calls \ {c} : ResetAsked(d)'
  BY DEF EyesInv, ResetsOnlyAsked, Others, ResetAsked
<1> QED
  BY <1>1 DEF ResetsOnlyAsked

(* Nothing but the request, the deadline and one handler changes. *)
LEMMA StillKept ==
  ASSUME EyesInv, RowMoves, NEW c \in Calls, Others(c), UNCHANGED <<steps, reviews, history>>,
         ResetAsked(c)', ~history.escalated => ClimberInv(c)',
         ~history.escalated => (req'.status \in Granted => req.status \in Granted \/ Settled'),
         ~history.escalated => (performed' > 0 => performed > 0 \/ Settled)
  PROVE  EyesKept
<1>1. ResetsOnlyAsked'
  BY ResetsKept
<1>2. ReviewsOnRecord'
  BY DEF EyesInv, ReviewsOnRecord
<1>3. ASSUME ~history.escalated PROVE LadderInv'
  BY <1>3, StandsStill DEF EyesInv
<1> QED
  BY <1>1, <1>2, <1>3 DEF EyesKept

LEMMA CalmKept ==
  ASSUME EyesInv, RowMoves, NEW c \in Calls, Others(c), UNCHANGED <<steps, reviews, history, performed>>,
         call'[c].pc \notin Watched,
         req'.status \in Granted => req.status \in Granted
  PROVE  EyesKept
<1>1. ResetAsked(c)' /\ ClimberInv(c)'
  BY DEF ResetAsked, ClimberInv, Watched, OnRung
<1> QED
  BY <1>1, StillKept

LEMMA EndKept ==
  ASSUME EyesInv, RowMoves, NEW c \in Calls, Done(c) \/ Throw(c), UNCHANGED <<steps, reviews, history, performed>>,
         req'.status \in Granted => req.status \in Granted
  PROVE  EyesKept
<1>1. Others(c) /\ call'[c].pc \in {"idle", "failRead"}
  BY DoneEffect, ThrowEffect DEF EyesInv
<1> QED
  BY <1>1, CalmKept DEF Watched, OnRung, Granting

LEMMA StatusUpdated ==
  ASSUME TypeOK, NEW status, NEW level, VersionedUpdate(status, level)
  PROVE  req'.status = status
BY DEF TypeOK, Row, VersionedUpdate

(* A handler that ends with the versioned update. *)
LEMMA ConcludeKept ==
  ASSUME EyesInv, RowMoves, NEW c \in Calls, NEW pc, NEW status, NEW level, status \notin Granted,
         Conclude(c, pc, status, level)
  PROVE  EyesKept
<1>1. CASE LosesRace(c)
  BY <1>1, EndKept DEF LosesRace, rows
<1>2. CASE ~LosesRace(c)
  BY <1>2, EndKept, StatusUpdated DEF Conclude, EyesInv
<1> QED
  BY <1>1, <1>2

(* A rung is written: the caller gives what its handler knows afterwards.  *)
LEMMA RungKept ==
  ASSUME EyesInv, RowMoves, NEW c \in Calls, Others(c), UNCHANGED <<req, reviews, performed, history>>,
         ResetAsked(c)',
         ~history.escalated =>
           SameRungs /\ NoRungBack /\ (\A j \in Present : RungInv(j)') /\ ClimberInv(c)'
  PROVE  EyesKept
<1>1. ResetsOnlyAsked'
  BY ResetsKept
<1>2. ReviewsOnRecord'
  BY DEF EyesInv, ReviewsOnRecord
<1>3. ASSUME ~history.escalated PROVE LadderInv'
  BY <1>3, LadderStays DEF EyesInv
<1> QED
  BY <1>1, <1>2, <1>3 DEF EyesKept

LEMMA AuthorizeEyes ==
  ASSUME EyesInv, RowMoves, NEW c \in Calls, Authorize(c)
  PROVE  EyesKept
<1>0. TypeOK /\ ResetAsked(c)
  BY DEF EyesInv, ResetsOnlyAsked
<1>1. Others(c) /\ UNCHANGED <<req, steps, reviews, history, performed>> /\ call[c].pc = "authorize"
  BY <1>0, AuthorizeEffect DEF rows, Authorize, At
<1>2. CASE call'[c].pc \in {"idle", "expireRead", "failRead"}
  BY <1>1, <1>2, CalmKept DEF Watched, OnRung, Granting
<1>3. CASE /\ call'[c].pc = "upsert" /\ call'[c].kind = call[c].kind
           /\ call'[c].step = findOpenStep(call[c].snap.level) /\ call'[c].step # 0
  <2>1. ResetAsked(c)'
    BY <1>0, <1>1, <1>3 DEF ResetAsked
  <2>2. ASSUME ~history.escalated PROVE ClimberInv(c)'
    <3>1. LadderInv
      BY <2>2 DEF EyesInv
    <3>2. call'[c].step \in Present /\ (call'[c].step # 1 => steps[call'[c].step].status # "PENDING")
      BY <1>0, <1>3, <3>1, OpenRung
    <3> QED
      BY <1>1, <1>3, <3>2 DEF ClimberInv, OnRung, Granting, Present
  <2> QED
    BY <1>1, <2>1, <2>2, StillKept
<1> QED
  BY <1>0, <1>2, <1>3, AuthorizeEffect

LEMMA UpsertEyes ==
  ASSUME EyesInv, RowMoves, NEW c \in Calls, UpsertReviewer(c)
  PROVE  EyesKept
<1> DEFINE i == call[c].step
           a == call[c].actor
           next == AfterUpsert(call[c].kind)
<1>0. TypeOK /\ TableInv /\ ResetAsked(c) /\ call[c].pc = "upsert"
  BY DEF EyesInv, ResetsOnlyAsked, UpsertReviewer, At
<1>1. /\ Others(c) /\ call'[c].pc = next /\ call'[c].kind = call[c].kind /\ call'[c].step = i
      /\ UNCHANGED <<req, steps, performed>>
  BY <1>0, GotoEffect DEF UpsertReviewer
<1>2. i \in StepIds /\ a \in Admins /\ call[c].kind \in Decisions \cap Kinds
  BY <1>0, CallHasStep DEF WorksOnStep, ResetAsked, TypeOK, Call
<1>3. /\ next \in {"quorum", "reject", "wipeReviewers"}
      /\ next = "wipeReviewers" => "REQUEST_CHANGES" \in Kinds
  BY <1>2 DEF AfterUpsert, Decisions
<1>4. /\ history.standing \subseteq history'.standing /\ history'.escalated = history.escalated
      /\ history.sinceReset \subseteq history'.sinceReset
      /\ history.sinceReset \subseteq history.standing => history'.sinceReset \subseteq history'.standing
      /\ call[c].kind = "APPROVE" => <<i, a>> \in history'.sinceReset
  BY <1>0 DEF UpsertReviewer, TypeOK, History
<1>5. ResetAsked(c)'
  BY <1>1, <1>3 DEF ResetAsked
<1>6. ReviewsOnRecord'
  <2>1. DecisionValue(call[c].kind) = "APPROVED" => call[c].kind = "APPROVE"
    BY DEF DecisionValue
  <2>2. ASSUME NEW j \in StepIds, NEW b \in Admins, reviews'[j][b] = "APPROVED"
        PROVE  <<j, b>> \in history'.sinceReset
    <3>1. CASE j = i /\ b = a
      BY <1>0, <1>2, <1>4, <2>1, <2>2, <3>1 DEF UpsertReviewer, TypeOK
    <3>2. CASE ~(j = i /\ b = a)
      <4>1. reviews[j][b] = "APPROVED"
        BY <1>0, <1>2, <2>2, <3>2 DEF UpsertReviewer, TypeOK
      <4> QED
        BY <1>4, <4>1 DEF EyesInv, ReviewsOnRecord
    <3> QED
      BY <3>1, <3>2
  <2> QED
    BY <1>4, <2>2 DEF EyesInv, ReviewsOnRecord
<1>7. ASSUME ~history.escalated PROVE LadderInv'
  <2>1. LadderInv /\ ClimberInv(c)
    BY <1>7 DEF EyesInv, LadderInv
  <2> HIDE DEF next
  <2>2. ClimberInv(c)'
    BY <1>0, <1>1, <1>3, <2>1 DEF ClimberInv, OnRung, Granting, Present
  <2> QED
    BY <1>0, <1>1, <1>4, <2>1, <2>2, StandsStill
<1> QED
  BY <1>1, <1>4, <1>5, <1>6, <1>7, ResetsKept DEF EyesKept

(* A reset of the reviews grants nothing, and the ladder stands.           *)
LEMMA WipeReviewersEyes ==
  ASSUME EyesInv, RowMoves, NEW c \in Calls, WipeReviewers(c)
  PROVE  EyesKept
<1>0. TypeOK /\ ResetAsked(c) /\ call[c].pc = "wipeReviewers"
  BY DEF EyesInv, ResetsOnlyAsked, WipeReviewers, At
<1>1. /\ Others(c) /\ call'[c].pc = "wipeSteps" /\ UNCHANGED <<req, steps, performed>>
      /\ history'.standing = history.standing /\ history'.escalated = history.escalated
      /\ history'.sinceReset = {}
  BY <1>0, GotoEffect DEF WipeReviewers, TypeOK, History
<1>2. ResetAsked(c)'
  BY <1>0, <1>1 DEF ResetAsked
<1>3. ReviewsOnRecord'
  BY <1>1 DEF WipeReviewers, ReviewsOnRecord
<1>4. ASSUME ~history.escalated PROVE LadderInv'
  BY <1>0, <1>1, <1>4, StandsStill DEF EyesInv, ClimberInv, OnRung, Granting
<1> QED
  BY <1>1, <1>2, <1>3, <1>4, ResetsKept DEF EyesKept

OneRungOrNoReset == RequiredLevel # 3 \/ "REQUEST_CHANGES" \notin Kinds

LEMMA WipeStepsEyes ==
  ASSUME EyesInv, RowMoves, OneRungOrNoReset, NEW c \in Calls, WipeSteps(c)
  PROVE  EyesKept
<1>0. TypeOK /\ ResetAsked(c) /\ call[c].pc = "wipeSteps"
  BY DEF EyesInv, ResetsOnlyAsked, WipeSteps, At
<1>1. /\ Others(c) /\ call'[c].pc = "changes" /\ UNCHANGED <<req, reviews, performed, history>>
  BY <1>0, GotoEffect DEF WipeSteps
<1>2. ResetAsked(c)'
  BY <1>0, <1>1 DEF ResetAsked
<1>3. RequiredLevel # 3
  BY <1>0 DEF ResetAsked, OneRungOrNoReset
<1>4. ASSUME ~history.escalated
      PROVE  SameRungs /\ NoRungBack /\ (\A j \in Present : RungInv(j)') /\ ClimberInv(c)'
  <2>1. LadderInv /\ Present = {1}
    BY <1>3, <1>4 DEF EyesInv, LadderInv
  <2>2. \A j \in StepIds : steps[j] \in Step
    BY <1>0 DEF TypeOK
  <2>3. \A j \in StepIds : /\ steps'[j].roles = steps[j].roles /\ steps'[j].quorum = steps[j].quorum
                           /\ steps'[j].level = steps[j].level
                           /\ steps'[j].status = IF j \in Present THEN "PENDING" ELSE steps[j].status
    BY <2>2 DEF WipeSteps, Step
  <2>4. SameRungs /\ NoRungBack
    BY <1>1, <2>1, <2>3 DEF SameRungs, NoRungBack, Present
  <2>5. \A j \in Present : RungInv(j)'
    BY <1>0, <2>1, <2>3, <2>4, RungStays DEF LadderInv, Present
  <2>6. ClimberInv(c)'
    BY <1>1 DEF ClimberInv, OnRung, Granting
  <2> QED
    BY <2>4, <2>5, <2>6
<1> QED
  BY <1>1, <1>2, <1>4, RungKept

LEMMA CheckQuorumEyes ==
  ASSUME EyesInv, RowMoves, NEW c \in Calls, CheckQuorum(c)
  PROVE  EyesKept
<1>0. TypeOK /\ ResetAsked(c) /\ ReviewsOnRecord /\ call[c].pc = "quorum"
  BY DEF EyesInv, ResetsOnlyAsked, CheckQuorum, At
<1>1. /\ Others(c) /\ UNCHANGED <<req, steps, reviews, performed, history>> /\ call'[c].step = call[c].step
      /\ call'[c].pc = IF checkQuorum THEN "satisfy" ELSE "partial"
  BY <1>0, GotoEffect DEF CheckQuorum, rows
<1>2. ResetAsked(c)'
  BY <1>1 DEF ResetAsked
<1>3. ASSUME ~history.escalated PROVE ClimberInv(c)'
  <2>1. LadderInv /\ ClimberInv(c)
    BY <1>3 DEF EyesInv, LadderInv
  <2>2. CASE checkQuorum
    <3>1. Quorate(call[c].step)
      BY <1>0, <2>1, <2>2, QuorumOfRung
    <3>2. Quorate(call[c].step)'
      BY <1>1, <3>1 DEF Quorate, Approvers, Eligible
    <3> QED
      BY <1>0, <1>1, <2>1, <2>2, <3>2 DEF ClimberInv, OnRung, Granting, Present
  <2>3. CASE ~checkQuorum
    BY <1>1, <2>3 DEF ClimberInv, OnRung, Granting
  <2> QED
    BY <2>2, <2>3
<1> QED
  BY <1>1, <1>2, <1>3, StillKept

LEMMA SatisfyEyes ==
  ASSUME EyesInv, RowMoves, NEW c \in Calls, SatisfyStep(c)
  PROVE  EyesKept
<1>0. TypeOK /\ call[c].pc = "satisfy"
  BY DEF EyesInv, SatisfyStep, At
<1>1. /\ Others(c) /\ call'[c].pc = "openNext" /\ call'[c].step = call[c].step /\ call'[c].snap = call[c].snap
      /\ UNCHANGED <<req, reviews, performed, history>>
  BY <1>0, GotoEffect DEF SatisfyStep
<1>2. ResetAsked(c)'
  BY <1>1 DEF ResetAsked
<1>3. ASSUME ~history.escalated
      PROVE  SameRungs /\ NoRungBack /\ (\A j \in Present : RungInv(j)') /\ ClimberInv(c)'
  <2>1. LadderInv /\ ClimberInv(c)
    BY <1>3 DEF EyesInv, LadderInv
  <2>2. PICK i \in Present : i = call[c].step /\ Climbed(i) /\ (Current(c) => Quorate(i))
    BY <1>0, <2>1, OnRungClimbed DEF OnRung, ClimberInv
  <2>3. steps' = [steps EXCEPT ![i].status = "SATISFIED"]
    BY <2>2 DEF SatisfyStep
  <2>4. SameRungs /\ NoRungBack /\ \A j \in Present : RungInv(j)'
    BY <1>0, <1>1, <2>1, <2>2, <2>3, RungWritten DEF Current
  <2>5. (Current(c)' => Quorate(i)') /\ i \in Present'
    <3>1. Current(c)' => Current(c)
      BY <1>1 DEF Current, Fresh
    <3> QED
      BY <1>0, <2>2, <2>4, <3>1, QuorateStays DEF SameRungs
  <2>6. steps'[i].status # "PENDING"
    BY <1>0, <2>2, <2>3 DEF TypeOK, Step, Present
  <2>7. ClimberInv(c)'
    BY <1>1, <2>2, <2>5, <2>6 DEF ClimberInv, OnRung, Granting
  <2> QED
    BY <2>4, <2>7
<1> QED
  BY <1>1, <1>2, <1>3, RungKept

LEMMA OpenNextEyes ==
  ASSUME EyesInv, RowMoves, NEW c \in Calls, OpenNextStep(c)
  PROVE  EyesKept
<1> DEFINE later == {i \in Present : i > call[c].step}
           n == Lowest(later)
<1>0. TypeOK /\ call[c].pc = "openNext"
  BY DEF EyesInv, OpenNextStep, At
<1>1. /\ Others(c) /\ UNCHANGED <<req, reviews, performed, history>> /\ call'[c].snap = call[c].snap
      /\ \/ later = {} /\ call'[c].pc = "approve" /\ steps' = steps
         \/ /\ later # {} /\ n \in Present /\ n > call[c].step /\ call'[c].pc = "advance"
            /\ steps' = [steps EXCEPT ![n].status = "IN_PROGRESS"]
  BY <1>0, OpenNextEffect DEF OpenNextStep
<1>2. ResetAsked(c)'
  BY <1>1 DEF ResetAsked
<1>3. ASSUME ~history.escalated
      PROVE  /\ LadderInv /\ call[c].step \in Present /\ call[c].step \in Nat
             /\ Present \subseteq StepIds /\ StepIds \subseteq Nat
             /\ Current(c) => \A j \in Present : j <= call[c].step => Quorate(j)
  <2>1. LadderInv /\ ClimberInv(c)
    BY <1>3 DEF EyesInv, LadderInv
  <2>2. call[c].step \in Present /\ Climbed(call[c].step) /\ (Current(c) => Quorate(call[c].step))
    BY <1>0, <2>1, OnRungClimbed DEF OnRung, ClimberInv
  <2>3. Present \subseteq StepIds /\ StepIds \subseteq Nat /\ Present \subseteq Nat
    BY DEF Present, StepIds
  <2>4. ASSUME NEW j \in Present, j <= call[c].step, Current(c) PROVE Quorate(j)
    <3>0. j \in Nat /\ call[c].step \in Nat
      BY <2>2, <2>3
    <3>1. j < call[c].step \/ j = call[c].step
      BY <2>4, <3>0
    <3> QED
      BY <2>2, <2>4, <3>1 DEF Climbed
  <2> QED
    BY <2>1, <2>2, <2>3, <2>4
<1>4. CASE later = {} /\ call'[c].pc = "approve" /\ steps' = steps
  <2>1. ASSUME ~history.escalated PROVE ClimberInv(c)'
    <3>1. Current(c) => \A j \in Present : Quorate(j)
      BY <1>3, <1>4, <2>1
    <3>2. Current(c)' => FullLadder(history.standing)'
      BY <1>1, <1>4, <3>1 DEF FullLadder, Quorate, Present, Approvers, Eligible, Current, Fresh
    <3> QED
      BY <1>4, <3>2 DEF ClimberInv, OnRung, Granting
  <2> QED
    BY <1>1, <1>2, <1>4, <2>1, StillKept
<1>5. CASE /\ later # {} /\ n \in Present /\ n > call[c].step /\ call'[c].pc = "advance"
           /\ steps' = [steps EXCEPT ![n].status = "IN_PROGRESS"]
  <2>1. ASSUME ~history.escalated
        PROVE  SameRungs /\ NoRungBack /\ (\A j \in Present : RungInv(j)') /\ ClimberInv(c)'
    <3>1. \A j \in later : n <= j
      <4>1. later \in SUBSET StepIds
        BY DEF Present
      <4> QED
        BY <1>5, <4>1, LowestIsMember
    <3>0. Current(c)
      BY <1>3, <1>5, <2>1, ConstantsAssumption DEF Current, LadderInv, StepIds
    <3>2. Climbed(n)
      <4>1. ASSUME NEW j \in Present, j < n PROVE j <= call[c].step
        BY <1>3, <1>5, <2>1, <3>1, <4>1
      <4> QED
        BY <1>3, <2>1, <3>0, <4>1 DEF Climbed
    <3> HIDE DEF n
    <3>3. SameRungs /\ NoRungBack /\ \A j \in Present : RungInv(j)'
      BY <1>0, <1>1, <1>3, <1>5, <2>1, <3>2, RungWritten
    <3> QED
      BY <1>5, <3>3 DEF ClimberInv, OnRung, Granting
  <2> QED
    BY <1>1, <1>2, <2>1, RungKept
<1> QED
  BY <1>1, <1>4, <1>5

LEMMA ApproveEyes ==
  ASSUME EyesInv, RowMoves, NEW c \in Calls, Approve(c)
  PROVE  EyesKept
<1>0. TypeOK /\ call[c].pc = "approve"
  BY DEF EyesInv, Approve, At
<1>1. CASE LosesRace(c)
  BY <1>1, EndKept DEF LosesRace, rows
<1>2. CASE ~LosesRace(c)
  <2>1. /\ Others(c) /\ call'[c].pc = "idle" /\ UNCHANGED <<steps, reviews, performed>>
        /\ history'.standing = history.standing /\ history'.escalated = history.escalated
        /\ history'.sinceReset = history.sinceReset
    BY <1>0, <1>2, DoneEffect DEF Approve, TypeOK, History
  <2>2. ResetsOnlyAsked' /\ ReviewsOnRecord'
    BY <2>1, ResetsKept DEF EyesInv, ReviewsOnRecord, ResetAsked
  <2>3. ASSUME ~history.escalated PROVE LadderInv'
    <3>1. LadderInv /\ FullLadder(history.standing)
      BY <1>0, <1>2, <2>3 DEF EyesInv, LadderInv, ClimberInv, Current, Approve
    <3>4. req'.status = "APPROVED"
      BY <1>0, <1>2, StatusUpdated DEF Approve
    <3>3. Settled'
      BY <2>1, <3>1, <3>4 DEF Settled, FullLadder, Present, Approvers, Eligible, Open, Active
    <3>2. ClimberInv(c)'
      BY <2>1 DEF ClimberInv, OnRung, Granting
    <3> QED
      BY <1>0, <2>1, <3>1, <3>2, <3>3, StandsStill DEF EyesInv
  <2> QED
    BY <2>1, <2>2, <2>3 DEF EyesKept
<1> QED
  BY <1>1, <1>2

(* The first rung opens again, which nobody has to have climbed to. *)
LEMMA OpenFirstEyes ==
  ASSUME EyesInv, RowMoves, NEW c \in Calls, OpenFirstStep(c)
  PROVE  EyesKept
<1>0. TypeOK
  BY DEF EyesInv
<1>1. Others(c) /\ call'[c].pc = "idle" /\ UNCHANGED <<req, reviews, performed, history>>
  BY <1>0, DoneEffect DEF OpenFirstStep
<1>2. ResetAsked(c)' /\ ClimberInv(c)'
  BY <1>1 DEF ResetAsked, ClimberInv, OnRung, Granting
<1>3. ASSUME ~history.escalated PROVE SameRungs /\ NoRungBack /\ \A j \in Present : RungInv(j)'
  <2>1. LadderInv /\ 1 \in Present
    BY <1>0, <1>3 DEF EyesInv, TypeOK
  <2>2. Climbed(1)
    BY ConstantsAssumption DEF Climbed, Present, StepIds
  <2> QED
    BY <1>0, <1>1, <2>1, <2>2, RungWritten DEF OpenFirstStep
<1> QED
  BY <1>1, <1>2, <1>3, RungKept

LEMMA AddStepEyes ==
  ASSUME EyesInv, RowMoves, NEW c \in Calls, AddStep(c)
  PROVE  EyesKept
<1>0. TypeOK
  BY DEF EyesInv
<1>1. CASE Throw(c) /\ UNCHANGED <<steps, history>>
  BY <1>1, EndKept DEF AddStep
<1>2. CASE Goto(c, "escalate") /\ history' = [history EXCEPT !.escalated = TRUE]
  <2>1. /\ Others(c) /\ call'[c].pc = "escalate" /\ reviews' = reviews
        /\ history'.standing = history.standing /\ history'.sinceReset = history.sinceReset
        /\ history'.escalated
    BY <1>0, <1>2, GotoEffect DEF AddStep, TypeOK, History
  <2> QED
    BY <2>1, ResetsKept DEF EyesKept, EyesInv, ReviewsOnRecord, ResetAsked
<1> QED
  BY <1>1, <1>2 DEF AddStep

(* One compare-and-set of markApprovalExecuted: whoever gets here has been *)
(* granted the request.                                                    *)
LEMMA ExecCasEyes ==
  ASSUME EyesInv, RowMoves, NEW c \in Calls, NEW pc \in Granting, NEW status, NEW next \in Granting,
         ExecCas(c, pc, status, next)
  PROVE  EyesKept
<1>0. TypeOK /\ call[c].pc = pc
  BY DEF EyesInv, ExecCas, At
<1>1. CASE LosesRace(c)
  BY <1>1, EndKept DEF LosesRace, rows
<1>2. CASE ~LosesRace(c)
  <2>1. Others(c) /\ call'[c].pc = next /\ UNCHANGED <<steps, reviews, performed, history>>
    BY <1>0, <1>2, GotoEffect DEF ExecCas
  <2>2. ResetAsked(c)'
    BY <2>1 DEF ResetAsked, Granting
  <2>3. ASSUME ~history.escalated PROVE Settled' /\ ClimberInv(c)'
    <3>1. Settled
      BY <1>0, <2>3 DEF EyesInv, LadderInv, ClimberInv
    <3>2. Settled'
      BY <1>0, <2>1, <3>1, SettledStays DEF SameRungs, Present
    <3> QED
      BY <2>1, <3>2 DEF ClimberInv, OnRung, Granting
  <2> QED
    BY <2>1, <2>2, <2>3, StillKept
<1> QED
  BY <1>1, <1>2

LEMMA RereadEyes ==
  ASSUME EyesInv, RowMoves, NEW c \in Calls, NEW pc \in Granting, Reread(c, pc), UNCHANGED rows,
         ~history.escalated => Settled
  PROVE  EyesKept
<1>1. Others(c) /\ call'[c].pc = pc
  BY RereadEffect DEF EyesInv
<1>2. ResetAsked(c)'
  BY <1>1 DEF ResetAsked, Granting
<1>3. ASSUME ~history.escalated PROVE ClimberInv(c)'
  <2>1. Settled'
    BY <1>3 DEF rows, Settled, FullLadder, Present, Approvers, Eligible, Open
  <2> QED
    BY <1>1, <2>1 DEF ClimberInv, OnRung, Granting
<1> QED
  BY <1>1, <1>2, <1>3, StillKept DEF rows

LEMMA ExecReadEyes ==
  ASSUME EyesInv, RowMoves, NEW c \in Calls, ExecRead(c)
  PROVE  EyesKept
<1>1. CASE Done(c) \/ Throw(c)
  BY <1>1, EndKept DEF ExecRead, rows
<1>2. CASE req.status \in Executable /\ Reread(c, IF req.status = "APPROVED" THEN "pendingCas" ELSE "executing")
  <2>1. req.status \in Granted
    BY <1>2 DEF Executable, Granted
  <2>2. ~history.escalated => Settled
    BY <2>1 DEF EyesInv, LadderInv
  <2>3. (IF req.status = "APPROVED" THEN "pendingCas" ELSE "executing") \in Granting
    BY DEF Granting
  <2> QED
    BY <1>2, <2>2, <2>3, RereadEyes DEF ExecRead
<1> QED
  BY <1>1, <1>2 DEF ExecRead

LEMMA MarkExecutedEyes ==
  ASSUME EyesInv, RowMoves, NEW c \in Calls, MarkExecuted(c)
  PROVE  EyesKept
<1>1. ASSUME NEW pc \in Granting, NEW next \in Granting, ExecReread(c, pc, next) PROVE EyesKept
  <2>1. ~history.escalated => Settled
    BY <1>1 DEF ExecReread, At, EyesInv, LadderInv, ClimberInv
  <2> QED
    BY <1>1, <2>1, RereadEyes DEF ExecReread
<1>2. CASE LogSucceeded(c)
  BY <1>2, EndKept DEF LogSucceeded
<1>3. \A s \in {"pendingCas", "reread", "executing", "reread2", "executed", "logSucceeded"} : s \in Granting
  BY DEF Granting
<1> QED
  BY <1>1, <1>2, <1>3, ExecCasEyes DEF MarkExecuted

LEMMA PerformEyes ==
  ASSUME EyesInv, RowMoves, NEW c \in Calls, Perform(c)
  PROVE  EyesKept
<1>1. Others(c) /\ call[c].pc = "perform" /\ call'[c].pc = "execRead" /\ UNCHANGED <<req, steps, reviews, history>>
  BY GotoEffect DEF EyesInv, Perform, At
<1>2. ResetAsked(c)' /\ ClimberInv(c)'
  BY <1>1 DEF ResetAsked, ClimberInv, OnRung, Granting
<1>3. ~history.escalated => Settled
  BY <1>1 DEF EyesInv, LadderInv, ClimberInv, Granting
<1> QED
  BY <1>1, <1>2, <1>3, StillKept

(* Changes are requested: the approvals from before the reset go.  Every   *)
(* other handler loses its race from now on, and nothing has been granted. *)
LEMMA RequestEyes ==
  ASSUME EyesInv, RowMoves, OneRungOrNoReset, NEW c \in Calls, RequestChanges(c)
  PROVE  EyesKept
<1>0. TypeOK /\ MayWrite(c) /\ ResetAsked(c) /\ call[c].pc = "changes"
  BY DEF EyesInv, TableInv, ResetsOnlyAsked, RequestChanges, At
<1>1. CASE LosesRace(c)
  BY <1>1, EndKept DEF LosesRace, rows
<1>2. CASE ~LosesRace(c)
  <2>1. /\ Others(c) /\ call'[c].pc = "idle" /\ UNCHANGED <<steps, reviews, performed>>
        /\ history'.standing = history.sinceReset /\ history'.escalated = history.escalated
        /\ history'.sinceReset = history.sinceReset
        /\ req'.status = "CHANGES_REQUESTED" /\ req'.version = req.version + 1
        /\ Fresh(c)
    BY <1>0, <1>2, DoneEffect, UpdateEffect DEF RequestChanges, TypeOK, History
  <2>2. ResetsOnlyAsked' /\ ReviewsOnRecord'
    BY <2>1, ResetsKept DEF EyesInv, ReviewsOnRecord, ResetAsked
  <2>3. RequiredLevel # 3 /\ req.status \in Open
    BY <1>0, <2>1 DEF ResetAsked, OneRungOrNoReset, MayWrite, Deciding, Open
  <2>4. ASSUME ~history.escalated PROVE LadderInv'
    <3>1. LadderInv /\ Present = {1} /\ Present' = Present
      BY <2>1, <2>3, <2>4 DEF EyesInv, LadderInv, Present
    <3>2. ~Settled
      BY <2>3 DEF Settled
    <3>3. \A i \in Present : RungInv(i)'
      BY <2>1, <2>3, <3>1 DEF LadderInv, RungInv, Climbed
    <3>4. ASSUME NEW d \in Calls, d # c PROVE ClimberInv(d)'
      <4>1. /\ call'[d] = call[d] /\ ClimberInv(d) /\ MayWrite(d)
        BY <2>1, <3>1, <3>4 DEF Others, LadderInv, EyesInv, TableInv
      <4>2. req.version \in Nat /\ call[d].snap.version \in Nat
        BY <1>0 DEF TypeOK, Row, Call
      <4>3. ~Current(d)'
        BY <2>1, <2>3, <4>1, <4>2 DEF Current, Fresh, MayWrite
      <4> QED
        BY <2>1, <3>1, <3>2, <4>1, <4>3 DEF ClimberInv
    <3>5. ClimberInv(c)'
      BY <2>1 DEF ClimberInv, OnRung, Granting
    <3>6. req'.status \notin Granted /\ ~(performed' > 0)
      BY <2>1, <3>1, <3>2 DEF LadderInv, Granted
    <3> QED
      BY <2>3, <3>1, <3>3, <3>4, <3>5, <3>6 DEF LadderInv
  <2> QED
    BY <2>1, <2>2, <2>4 DEF EyesKept
<1> QED
  BY <1>1, <1>2

LEMMA ContinueEyes ==
  ASSUME EyesInv, RowMoves, OneRungOrNoReset, NEW c \in Calls, Continue(c)
  PROVE  EyesKept
<1>0. TypeOK
  BY DEF EyesInv
<1>1. CASE \/ Reject(c) \/ PartiallyApprove(c) \/ AdvanceLevel(c) \/ Cancel(c) \/ Expire(c) \/ Escalate(c)
           \/ MarkFailed(c)
  <2>1. \A s \in {"REJECTED", "PARTIALLY_APPROVED", "PENDING_APPROVAL", "CANCELLED", "EXPIRED",
                  "EXECUTION_FAILED"} : s \notin Granted
    BY DEF Granted
  <2> QED
    BY <1>1, <2>1, ConcludeKept DEF Reject, PartiallyApprove, AdvanceLevel, Cancel, Expire, Escalate, MarkFailed
<1>3. CASE Submit(c)
  <2>1. CASE LosesRace(c)
    BY <2>1, EndKept DEF LosesRace, rows
  <2>2. CASE ~LosesRace(c)
    <3>1. Others(c) /\ call'[c].pc = "openFirst" /\ req'.status = "PENDING_APPROVAL"
      BY <1>0, <1>3, <2>2, GotoEffect, StatusUpdated DEF Submit
    <3> QED
      BY <1>3, <2>2, <3>1, CalmKept DEF Submit, Watched, OnRung, Granting, Granted
  <2> QED
    BY <2>1, <2>2
<1>4. CASE ExpireRead(c)
  <2>1. CASE Done(c)
    BY <1>4, <2>1, EndKept DEF ExpireRead, rows
  <2>2. CASE Reread(c, "expire")
    BY <1>0, <1>4, <2>2, RereadEffect, CalmKept DEF ExpireRead, rows, Watched, OnRung, Granting
  <2> QED
    BY <1>4, <2>1, <2>2 DEF ExpireRead
<1>5. CASE FailRead(c)
  BY <1>0, <1>5, RereadEffect, CalmKept DEF FailRead, rows, Watched, OnRung, Granting
<1> QED
  BY <1>1, <1>3, <1>4, <1>5, RequestEyes, AuthorizeEyes, UpsertEyes, WipeReviewersEyes, WipeStepsEyes, CheckQuorumEyes,
     SatisfyEyes, OpenNextEyes, ApproveEyes, OpenFirstEyes, AddStepEyes, PerformEyes, ExecReadEyes,
     MarkExecutedEyes DEF Continue

LEMMA StartEyes ==
  ASSUME EyesInv, RowMoves, NEW c \in Calls, Start(c)
  PROVE  EyesKept
<1>0. TypeOK
  BY DEF EyesInv
<1>1. CASE BeginSubmit(c) \/ BeginCancel(c) \/ BeginExecute(c)
  <2>1. Others(c) /\ UNCHANGED rows /\ call'[c].pc \in {"submit", "cancel", "execRead"}
    BY <1>0, <1>1, BeginEffect DEF BeginSubmit, BeginCancel, BeginExecute
  <2> QED
    BY <2>1, CalmKept DEF rows, Watched, OnRung, Granting
<1>2. CASE BeginEscalate(c)
  BY <1>0, <1>2, EscalateBegins, CalmKept DEF rows, Watched, OnRung, Granting
<1>3. ASSUME NEW a \in Admins, NEW kind \in Decisions, BeginDecision(c, a, kind) PROVE EyesKept
  <2>1. Others(c) /\ UNCHANGED rows /\ call'[c].pc = "authorize" /\ call'[c].kind = kind /\ kind \in Kinds
    BY <1>0, <1>3, BeginEffect DEF BeginDecision
  <2>2. ResetAsked(c)' /\ ClimberInv(c)'
    BY <2>1 DEF ResetAsked, ClimberInv, OnRung, Granting
  <2> QED
    BY <2>1, <2>2, StillKept DEF rows
<1>4. CASE BeginGate(c)
  <2>1. Others(c) /\ UNCHANGED rows /\ call'[c].pc = "perform" /\ req.status \in Granted
    BY <1>0, <1>4, BeginEffect DEF BeginGate, Executable, Granted
  <2>2. ResetAsked(c)'
    BY <2>1 DEF ResetAsked
  <2>3. ASSUME ~history.escalated PROVE ClimberInv(c)'
    <3>1. Settled
      BY <2>1, <2>3 DEF EyesInv, LadderInv
    <3>2. Settled'
      BY <2>1, <3>1 DEF rows, Settled, FullLadder, Present, Approvers, Eligible, Open
    <3> QED
      BY <2>1, <3>2 DEF ClimberInv, OnRung
  <2> QED
    BY <2>1, <2>2, <2>3, StillKept DEF rows
<1> QED
  BY <1>1, <1>2, <1>3, <1>4 DEF Start

(* What happens outside the handlers. *)
LEMMA OutsideEyes ==
  ASSUME EyesInv, UNCHANGED <<req, steps, reviews, performed, history>>, \A d \in Calls : SameCall(d)
  PROVE  EyesKept
<1>1. ResetsOnlyAsked' /\ ReviewsOnRecord'
  BY DEF EyesInv, ResetsOnlyAsked, ResetAsked, ReviewsOnRecord, SameCall
<1>2. ASSUME LadderInv PROVE LadderInv'
  <2>1. SameRungs /\ NoRungBack /\ RowMoves /\ TypeOK
    BY DEF EyesInv, SameRungs, NoRungBack, RowMoves, Present
  <2>2. \A d \in Calls : ClimberInv(d)'
    BY <1>2, <2>1, ClimberStays DEF EyesInv, TableInv, LadderInv
  <2>3. \A i \in Present : RungInv(i)'
    BY <1>2, <2>1, RungStays DEF LadderInv
  <2>4. Settled => Settled'
    BY <2>1, SettledStays
  <2> QED
    BY <1>2, <2>1, <2>2, <2>3, <2>4 DEF LadderInv, SameRungs
<1> QED
  BY <1>1, <1>2 DEF EyesInv, EyesKept

LEMMA EyesStep == OneRungOrNoReset /\ EyesInv /\ [Next]_vars => EyesInv'
<1> SUFFICES ASSUME OneRungOrNoReset, EyesInv, [Next]_vars PROVE EyesKept
  BY NextType, RowStep DEF EyesInv, EyesKept
<1>0. TypeOK /\ RowMoves
  BY RowStep DEF EyesInv
<1>1. ASSUME NEW c \in Calls, Crash(c) PROVE EyesKept
  BY <1>0, <1>1, EndKept DEF Crash, rows
<1>2. CASE BeginSweep
  BY <1>0, <1>2, SweepBegins, CalmKept, ConstantsAssumption DEF rows, Watched, OnRung, Granting
<1>3. CASE PassDeadline \/ (\E a \in Admins : Deactivate(a)) \/ UNCHANGED vars
  <2>1. UNCHANGED <<req, steps, reviews, call, performed, history>>
    BY <1>3 DEF PassDeadline, Deactivate, vars
  <2> QED
    BY <2>1, OutsideEyes DEF SameCall
<1>4. CASE \E a \in Exposed : ConflictChanges(a)
  BY <1>0, <1>4, ChangeEffect, OutsideEyes
<1> QED
  BY <1>0, <1>1, <1>2, <1>3, <1>4, ContinueEyes, StartEyes DEF Next

LEMMA EyesStarts == Init => EyesInv
<1> SUFFICES ASSUME Init PROVE EyesInv
  OBVIOUS
<1>1. TypeOK /\ \A c \in Calls : call[c].pc = "idle"
  BY InitType DEF Init, IdleCall
<1>2. TableInv /\ ResetsOnlyAsked /\ ReviewsOnRecord
  BY <1>1, TableStarts DEF Init, ResetsOnlyAsked, ResetAsked, ReviewsOnRecord
<1>3. RequiredLevel # 3 => Present = {1}
  BY <1>1, ConstantsAssumption DEF Init, TypeOK, Present, BuildSteps, NoStep, StepIds
<1>4. ASSUME NEW i \in Present PROVE RungInv(i)
  <2>1. i \in StepIds /\ steps[i].status # "ABSENT"
    BY DEF Present
  <2>2. steps[i].status = "PENDING" /\ steps[i].level = RequiredLevel
    BY <2>1, ConstantsAssumption DEF Init, BuildSteps, NewStep, NoStep
  <2> QED
    BY <2>2 DEF RungInv
<1>5. \A c \in Calls : ClimberInv(c)
  BY <1>1 DEF ClimberInv, OnRung, Granting
<1>6. req.status \notin Granted /\ ~(performed > 0)
  BY DEF Init, Granted
<1> QED
  BY <1>1, <1>2, <1>3, <1>4, <1>5, <1>6 DEF EyesInv, LadderInv

(* engine.ts:63-82 (buildSteps) and checkQuorum: whatever handlers race    *)
(* and die, a request that is granted without an escalation has on record,  *)
(* for every rung of its ladder, the approvals of as many eligible people  *)
(* other than the maker as the rung asks for, and no request for changes   *)
(* that took effect has undone them.  A ladder of several rungs that is    *)
(* sent back for changes is left out: there the code fails.                *)
THEOREM FourEyesKept ==
  ASSUME OneRungOrNoReset
  PROVE  Spec => []FourEyes
<1>1. EyesInv => FourEyes
  BY DEF EyesInv, LadderInv, Settled, FourEyes
<1>2. EyesInv /\ [Next]_vars => EyesInv'
  BY EyesStep
<1> QED
  BY <1>1, <1>2, EyesStarts, PTL DEF Spec

(* gate.ts: a governed route has not run its mutation before that, also    *)
(* when the request is cancelled, expires or fails while it runs.          *)
THEOREM QuorumBeforeMutation ==
  ASSUME OneRungOrNoReset
  PROVE  Spec => []PerformedNeedsQuorum
<1>1. EyesInv => PerformedNeedsQuorum
  BY DEF EyesInv, LadderInv, Settled, PerformedNeedsQuorum
<1>2. EyesInv /\ [Next]_vars => EyesInv'
  BY EyesStep
<1> QED
  BY <1>1, <1>2, EyesStarts, PTL DEF Spec
=============================================================================
