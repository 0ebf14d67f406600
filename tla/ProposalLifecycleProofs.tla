---------------------- MODULE ProposalLifecycleProofs ----------------------
(* Theorems about ProposalLifecycle for any set of proposals, profiles,    *)
(* meetings, family decisions and handlers in flight.                      *)
EXTENDS ProposalLifecycle, TLAPS

(* TypeOK is not inductive: what a handler writes depends on the value it  *)
(* has carried since it started, so the strengthening says which values    *)
(* belong to which await.                                                  *)
CascadeValues == {"PROPOSAL_CREATED", "FINALIZED", "MARRIED", "REJECTED", "ARCHIVED"}

Fits(k) ==
  /\ k.pc = "answer"      => k.value \in Answers /\ k.snap \in Statuses
  /\ k.pc = "readAnswers" => k.snap \in Statuses
  /\ k.pc \in {"setStatus", "patch"} => k.value \in Statuses
  /\ k.pc = "moveMeeting" => k.value \in MeetingStatuses
  /\ k.pc = "share"       => k.value \in Levels
  /\ k.pc = "cascade"     => k.value \in CascadeValues

TypeInv == TypeOK /\ \A c \in Calls : Fits(call[c])

LEMMA IdleFits == IdleCall \in Call /\ Fits(IdleCall) /\ AnyProposal \in Proposals
<1>1. AnyProposal \in Proposals
  BY ConstantsAssumption DEF AnyProposal
<1>2. IdleCall \in Call
  BY <1>1 DEF IdleCall, Call, PCs, Sides, Values, AllKinds
<1>3. Fits(IdleCall)
  BY DEF IdleCall, Fits
<1> QED
  BY <1>1, <1>2, <1>3

(* The two pure functions answer a status. *)
LEMMA NextIsStatus ==
  ASSUME NEW current \in Statuses, NEW a, NEW b
  PROVE  nextProposalStatus(current, a, b) \in Statuses /\ statusAfterResponse(current, a, b) \in Statuses
<1>1. {"REJECTED", "BOTH_INTERESTED", "WAITING_FOR_PROFILE_A", "WAITING_FOR_PROFILE_B", "PROFILE_A_INTERESTED",
       "PROFILE_B_INTERESTED", "BOTH_REVIEWING"} \subseteq Statuses
  BY DEF Statuses, Waiting, Promotes, Ended
<1>2. nextProposalStatus(current, a, b) \in Statuses
  BY <1>1 DEF nextProposalStatus
<1> QED
  BY <1>2 DEF statusAfterResponse

-----------------------------------------------------------------------------
(* How a handler's state changes. *)

LEMMA ReplaceCall ==
  ASSUME TypeInv, NEW c \in Calls, NEW k \in Call, Fits(k), call' = [call EXCEPT ![c] = k]
  PROVE  call' \in [Calls -> Call] /\ \A d \in Calls : Fits(call'[d])
BY DEF TypeInv, TypeOK

LEMMA DoneCall ==
  ASSUME TypeInv, NEW c \in Calls, Done(c)
  PROVE  call' \in [Calls -> Call] /\ \A d \in Calls : Fits(call'[d])
BY IdleFits, ReplaceCall DEF Done

LEMMA GotoCall ==
  ASSUME TypeInv, NEW c \in Calls, NEW pc, Goto(c, pc),
         pc \in {"decided", "readPermissions", "promote", "schedule", "complete"}
  PROVE  call' \in [Calls -> Call] /\ \A d \in Calls : Fits(call'[d])
<1> DEFINE k == [call[c] EXCEPT !.pc = pc]
<1>1. call[c] \in Call
  BY DEF TypeInv, TypeOK
<1>2. k \in Call /\ k.pc = pc
  BY <1>1 DEF Call, PCs
<1>3. Fits(k)
  BY <1>2 DEF Fits
<1>4. call' = [call EXCEPT ![c] = k]
  BY DEF Goto
<1> HIDE DEF k
<1> QED
  BY <1>2, <1>3, <1>4, ReplaceCall

LEMMA CascadeCall ==
  ASSUME TypeInv, NEW c \in Calls, NEW v \in CascadeValues, CascadeTo(c, v)
  PROVE  call' \in [Calls -> Call] /\ \A d \in Calls : Fits(call'[d])
<1> DEFINE k == [call[c] EXCEPT !.pc = "cascade", !.value = v, !.todo = Sides]
<1>1. call[c] \in Call
  BY DEF TypeInv, TypeOK
<1>2. v \in Values
  BY DEF CascadeValues, Values, Statuses, Ended
<1>3. k \in Call /\ k.pc = "cascade" /\ k.value = v
  BY <1>1, <1>2 DEF Call, PCs
<1>4. Fits(k)
  BY <1>3 DEF Fits
<1>5. call' = [call EXCEPT ![c] = k]
  BY DEF CascadeTo
<1> HIDE DEF k
<1> QED
  BY <1>3, <1>4, <1>5, ReplaceCall

(* A handler that starts reads the status of a proposal that exists. *)
LEMMA BeginCall ==
  ASSUME TypeInv, NEW c \in Calls, NEW kind \in AllKinds, NEW p \in Proposals, NEW s \in Sides, NEW v \in Values,
         NEW i \in Meetings \cup Decisions \cup {"NONE"}, NEW pc \in PCs, Begin(c, kind, p, s, v, i, pc),
         pc = "answer" => v \in Answers, pc = "patch" => v \in Statuses, pc = "moveMeeting" => v \in MeetingStatuses,
         pc \notin {"readAnswers", "setStatus", "share", "cascade"}
  PROVE  TypeInv'
<1> DEFINE k == [pc |-> pc, kind |-> kind, proposal |-> p, side |-> s, value |-> v,
                 snap |-> status[p], todo |-> {}, item |-> i]
<1>1. status[p] \in Statuses
  BY DEF Begin, TypeInv, TypeOK
<1>2. k \in Call
  BY <1>1 DEF Call
<1>3. Fits(k)
  BY <1>1 DEF Fits
<1>4. call' = [call EXCEPT ![c] = k]
  BY DEF Begin
<1> HIDE DEF k
<1>5. call' \in [Calls -> Call] /\ \A d \in Calls : Fits(call'[d])
  BY <1>2, <1>3, <1>4, ReplaceCall
<1> QED
  BY <1>5 DEF Begin, rows, TypeInv, TypeOK

-----------------------------------------------------------------------------
LEMMA InitType == Init => TypeInv
<1> SUFFICES ASSUME Init PROVE TypeInv
  OBVIOUS
<1>1. call \in [Calls -> Call] /\ \A c \in Calls : Fits(call[c])
  BY IdleFits DEF Init
<1>2. status \in [Proposals -> {"ABSENT"} \cup Statuses]
  BY ConstantsAssumption DEF Init, Statuses, Promotes
<1>3. response \in [Proposals -> [Sides -> {"NONE"} \cup Answers]]
  BY DEF Init, Answers
<1>4. permission \in [Proposals -> [Sides -> Permission]]
  BY DEF Init, Permission
<1>5. meeting \in [Meetings -> MeetingRow] /\ decision \in [Decisions -> Decision]
  BY IdleFits DEF Init, MeetingRow, Decision, Sides, Answers
<1>6. profile \in [Profiles -> ProfileStatus] /\ withdrawn \subseteq Profiles /\ shared \in [Proposals -> SUBSET Levels]
  BY DEF Init, ProfileStatus
<1>7. history \in [Proposals -> [interested: SUBSET Sides, word: [Sides -> Words], mutual: BOOLEAN, held: BOOLEAN]]
  <2> DEFINE H == [interested: SUBSET Sides, word: [Sides -> Words], mutual: BOOLEAN, held: BOOLEAN]
             h(p) == [interested |-> IF OpenAtInterest(p) THEN Sides ELSE {},
                      word |-> [s \in Sides |-> "NONE"], mutual |-> FALSE, held |-> FALSE]
  <2>1. [s \in Sides |-> "NONE"] \in [Sides -> Words]
    BY DEF Words
  <2>2. \A p \in Proposals : h(p) \in H
    BY <2>1
  <2>3. history = [p \in Proposals |-> h(p)]
    BY DEF Init
  <2> HIDE DEF h
  <2> QED
    BY <2>2, <2>3
<1> QED
  BY <1>1, <1>2, <1>3, <1>4, <1>5, <1>6, <1>7 DEF TypeInv, TypeOK

(* Every await of a handler keeps the types. *)
LEMMA ContinueType ==
  ASSUME TypeInv, NEW c \in Calls, Continue(c)
  PROVE  TypeInv'
<1>0. TypeOK /\ call[c] \in Call /\ Fits(call[c]) /\ call[c].proposal \in Proposals /\ call[c].side \in Sides
  BY DEF TypeInv, TypeOK, Call
<1>1. CASE Create(c)
  <2>1. call' \in [Calls -> Call] /\ \A d \in Calls : Fits(call'[d])
    BY <1>1, CascadeCall DEF Create, CascadeValues
  <2>2. status' \in [Proposals -> {"ABSENT"} \cup Statuses]
    BY <1>0, <1>1 DEF Create, SetStatus, TypeOK, Statuses
  <2> QED
    BY <1>0, <1>1, <2>1, <2>2 DEF Create, TypeInv, TypeOK
<1>2. ASSUME NEW s \in Sides, Cascade(c, s) PROVE TypeInv'
  <2> DEFINE rest == call[c].todo \ {s}
             k == [call[c] EXCEPT !.todo = rest]
  <2>1. k \in Call
    BY <1>0 DEF Call
  <2>2. Fits(k)
    BY <1>0 DEF Fits, Call
  <2>3. call' \in [Calls -> Call] /\ \A d \in Calls : Fits(call'[d])
    <3>1. CASE Done(c)
      BY <3>1, DoneCall
    <3>2. CASE call' = [call EXCEPT ![c] = k]
      <4> HIDE DEF k
      <4> QED
        BY <2>1, <2>2, <3>2, ReplaceCall
    <3> QED
      BY <1>2, <3>1, <3>2 DEF Cascade
  <2>4. call[c].value \in CascadeValues
    BY <1>0, <1>2 DEF Cascade, At, Fits
  <2>5. ProfileStatusOn(call[c].value) \in ProfileStatus
    BY <2>4 DEF CascadeValues, ProfileStatusOn, ProfileStatus
  <2>6. profile' \in [Profiles -> ProfileStatus]
    BY <1>0, <1>2, <2>5 DEF Cascade, TypeOK
  <2> QED
    BY <1>0, <1>2, <2>3, <2>6 DEF Cascade, TypeInv, TypeOK
<1>3. CASE UpsertResponse(c)
  <2> DEFINE k == [call[c] EXCEPT !.pc = "readAnswers", !.side = "A", !.value = "NONE"]
  <2>1. call[c].value \in Answers /\ call[c].snap \in Statuses
    BY <1>0, <1>3 DEF UpsertResponse, At, Fits
  <2>2. k \in Call /\ k.pc = "readAnswers" /\ k.snap = call[c].snap
    BY <1>0 DEF Call, PCs, Sides, Values
  <2>3. Fits(k)
    BY <2>1, <2>2 DEF Fits
  <2>4. call' = [call EXCEPT ![c] = k]
    BY <1>3 DEF UpsertResponse
  <2> HIDE DEF k
  <2>5. call' \in [Calls -> Call] /\ \A d \in Calls : Fits(call'[d])
    BY <2>2, <2>3, <2>4, ReplaceCall
  <2>6. response' \in [Proposals -> [Sides -> {"NONE"} \cup Answers]]
    BY <1>0, <1>3, <2>1 DEF UpsertResponse, TypeOK
  <2>7. history' \in [Proposals -> [interested: SUBSET Sides, word: [Sides -> Words], mutual: BOOLEAN, held: BOOLEAN]]
    BY <1>0, <1>3 DEF UpsertResponse, TypeOK
  <2> QED
    BY <1>0, <1>3, <2>5, <2>6, <2>7 DEF UpsertResponse, TypeInv, TypeOK
<1>4. CASE ReadResponses(c)
  <2> DEFINE p == call[c].proposal
             next == IF call[c].kind = "ON_BEHALF"
                       THEN nextProposalStatus(call[c].snap, response[p]["A"], response[p]["B"])
                       ELSE statusAfterResponse(call[c].snap, response[p]["A"], response[p]["B"])
             k == [call[c] EXCEPT !.pc = "setStatus", !.value = next, !.snap = "ABSENT"]
  <2>1. next \in Statuses
    BY <1>0, <1>4, NextIsStatus DEF ReadResponses, At, Fits
  <2>2. call' = [call EXCEPT ![c] = k]
    BY <1>4 DEF ReadResponses
  <2> HIDE DEF next
  <2>3. k \in Call /\ k.pc = "setStatus" /\ k.value = next
    BY <1>0, <2>1 DEF Call, PCs, Values
  <2>4. Fits(k)
    BY <2>1, <2>3 DEF Fits
  <2> HIDE DEF k
  <2>5. call' \in [Calls -> Call] /\ \A d \in Calls : Fits(call'[d])
    BY <2>2, <2>3, <2>4, ReplaceCall
  <2> QED
    BY <1>0, <1>4, <2>5 DEF ReadResponses, rows, TypeInv, TypeOK
<1>5. CASE WriteResponseStatus(c)
  <2>1. call' \in [Calls -> Call] /\ \A d \in Calls : Fits(call'[d])
    BY <1>5, GotoCall, DoneCall DEF WriteResponseStatus
  <2>2. call[c].value \in Statuses
    BY <1>0, <1>5 DEF WriteResponseStatus, At, Fits
  <2>3. status' \in [Proposals -> {"ABSENT"} \cup Statuses]
    BY <1>0, <1>5, <2>2 DEF WriteResponseStatus, SetStatus, TypeOK
  <2> QED
    BY <1>0, <1>5, <2>1, <2>3 DEF WriteResponseStatus, TypeInv, TypeOK
<1>6. CASE MarkConfirmed(c)
  <2>1. call' \in [Calls -> Call] /\ \A d \in Calls : Fits(call'[d])
    BY <1>6, DoneCall DEF MarkConfirmed
  <2>2. decision' \in [Decisions -> Decision]
    BY <1>0, <1>6 DEF MarkConfirmed, TypeOK, Decision
  <2> QED
    BY <1>0, <1>6, <2>1, <2>2 DEF MarkConfirmed, TypeInv, TypeOK
<1>7. CASE WritePermission(c)
  <2> DEFINE p == call[c].proposal
             s == call[c].side
  <2>1. call' \in [Calls -> Call] /\ \A d \in Calls : Fits(call'[d])
    BY <1>7, GotoCall DEF WritePermission
  <2>2. \A row \in Permission : Permitted(call[c].kind, row) \in Permission
    BY DEF Permitted, Permission
  <2>3. permission' \in [Proposals -> [Sides -> Permission]]
    BY <1>0, <1>7, <2>2 DEF WritePermission, TypeOK
  <2>4. \A before \in Words : Word(call[c].kind, before) \in Words
    BY DEF Word, Words
  <2>5. history[p].word[s] \in Words /\ history[p].mutual \in BOOLEAN
    BY <1>0 DEF TypeOK
  <2>6. Word(call[c].kind, history[p].word[s]) \in Words
    BY <2>4, <2>5
  <2>7. Standing(permission'[p]) \in BOOLEAN
    BY DEF Standing
  <2> DEFINE w == Word(call[c].kind, history[p].word[s])
             m == history[p].mutual \/ Standing(permission'[p])
             h == [history[p] EXCEPT !.word[s] = w, !.mutual = m]
  <2>8. history' = [history EXCEPT ![p] = h]
    BY <1>7 DEF WritePermission
  <2> HIDE DEF w, m
  <2>9. w \in Words /\ m \in BOOLEAN
    BY <2>5, <2>6, <2>7 DEF w, m
  <2>10. h \in [interested: SUBSET Sides, word: [Sides -> Words], mutual: BOOLEAN, held: BOOLEAN]
    BY <1>0, <2>9 DEF TypeOK
  <2> HIDE DEF h
  <2>11. history' \in [Proposals -> [interested: SUBSET Sides, word: [Sides -> Words], mutual: BOOLEAN, held: BOOLEAN]]
    BY <1>0, <2>8, <2>10 DEF TypeOK
  <2> QED
    BY <1>0, <1>7, <2>1, <2>3, <2>11 DEF WritePermission, TypeInv, TypeOK
<1>8. CASE ReadPermissions(c)
  BY <1>0, <1>8, GotoCall, DoneCall DEF ReadPermissions, rows, TypeInv, TypeOK
<1>9. CASE Promote(c)
  <2>1. call' \in [Calls -> Call] /\ \A d \in Calls : Fits(call'[d])
    BY <1>9, DoneCall DEF Promote
  <2>2. status' \in [Proposals -> {"ABSENT"} \cup Statuses]
    BY <1>0, <1>9 DEF Promote, SetStatus, TypeOK, Statuses, Contact
  <2> QED
    BY <1>0, <1>9, <2>1, <2>2 DEF Promote, TypeInv, TypeOK
<1>10. ASSUME NEW m \in Meetings, CreateMeeting(c, m) PROVE TypeInv'
  <2>1. call' \in [Calls -> Call] /\ \A d \in Calls : Fits(call'[d])
    BY <1>10, GotoCall, DoneCall DEF CreateMeeting
  <2>2. [proposal |-> call[c].proposal, status |-> "REQUESTED"] \in MeetingRow
    BY <1>0 DEF MeetingRow, MeetingStatuses
  <2>3. meeting' \in [Meetings -> MeetingRow]
    BY <1>0, <1>10, <2>2 DEF CreateMeeting, TypeOK
  <2> QED
    BY <1>0, <1>10, <2>1, <2>3 DEF CreateMeeting, TypeInv, TypeOK
<1>11. CASE MarkScheduled(c)
  <2>1. call' \in [Calls -> Call] /\ \A d \in Calls : Fits(call'[d])
    BY <1>11, DoneCall DEF MarkScheduled
  <2>2. status' \in [Proposals -> {"ABSENT"} \cup Statuses]
    BY <1>0, <1>11 DEF MarkScheduled, SetStatus, TypeOK, Statuses, Contact
  <2> QED
    BY <1>0, <1>11, <2>1, <2>2 DEF MarkScheduled, TypeInv, TypeOK
<1>12. CASE MoveMeeting(c)
  <2>1. call' \in [Calls -> Call] /\ \A d \in Calls : Fits(call'[d])
    BY <1>12, GotoCall, DoneCall DEF MoveMeeting
  <2>2. call[c].value \in MeetingStatuses
    BY <1>0, <1>12 DEF MoveMeeting, At, Fits
  <2>3. meeting' \in [Meetings -> MeetingRow]
    BY <1>0, <1>12, <2>2 DEF MoveMeeting, TypeOK, MeetingRow
  <2>4. history' \in [Proposals -> [interested: SUBSET Sides, word: [Sides -> Words], mutual: BOOLEAN, held: BOOLEAN]]
    <3> DEFINE h == [history[call[c].proposal] EXCEPT !.held = @ \/ call[c].value = "COMPLETED"]
    <3>1. h \in [interested: SUBSET Sides, word: [Sides -> Words], mutual: BOOLEAN, held: BOOLEAN]
      BY <1>0 DEF TypeOK
    <3>2. history' = [history EXCEPT ![call[c].proposal] = h]
      BY <1>12 DEF MoveMeeting
    <3> HIDE DEF h
    <3> QED
      BY <1>0, <3>1, <3>2 DEF TypeOK
  <2> QED
    BY <1>0, <1>12, <2>1, <2>3, <2>4 DEF MoveMeeting, TypeInv, TypeOK
<1>13. CASE MarkCompleted(c)
  <2>1. call' \in [Calls -> Call] /\ \A d \in Calls : Fits(call'[d])
    BY <1>13, DoneCall DEF MarkCompleted
  <2>2. status' \in [Proposals -> {"ABSENT"} \cup Statuses]
    BY <1>0, <1>13 DEF MarkCompleted, SetStatus, TypeOK, Statuses, Contact
  <2> QED
    BY <1>0, <1>13, <2>1, <2>2 DEF MarkCompleted, TypeInv, TypeOK
<1>14. CASE Patch(c)
  <2>1. call' \in [Calls -> Call] /\ \A d \in Calls : Fits(call'[d])
    BY <1>14, CascadeCall, DoneCall DEF Patch, CascadeValues
  <2>2. call[c].value \in Statuses
    BY <1>0, <1>14 DEF Patch, At, Fits
  <2>3. status' \in [Proposals -> {"ABSENT"} \cup Statuses]
    BY <1>0, <1>14, <2>2 DEF Patch, SetStatus, TypeOK
  <2> QED
    BY <1>0, <1>14, <2>1, <2>3 DEF Patch, TypeInv, TypeOK
<1>15. CASE CheckShare(c)
  <2>1. ASSUME NEW v \in Levels, GotoWith(c, "share", v)
        PROVE  call' \in [Calls -> Call] /\ \A d \in Calls : Fits(call'[d])
    <3> DEFINE k == [call[c] EXCEPT !.pc = "share", !.value = v]
    <3>1. k \in Call /\ k.pc = "share" /\ k.value = v
      BY <1>0 DEF Call, PCs, Values
    <3>2. Fits(k)
      BY <3>1 DEF Fits
    <3>3. call' = [call EXCEPT ![c] = k]
      BY <2>1 DEF GotoWith
    <3> HIDE DEF k
    <3> QED
      BY <3>1, <3>2, <3>3, ReplaceCall
  <2>2. call' \in [Calls -> Call] /\ \A d \in Calls : Fits(call'[d])
    BY <1>15, <2>1, DoneCall DEF CheckShare, Levels
  <2> QED
    BY <1>0, <1>15, <2>2 DEF CheckShare, rows, TypeInv, TypeOK
<1>16. CASE Share(c)
  <2>1. call' \in [Calls -> Call] /\ \A d \in Calls : Fits(call'[d])
    BY <1>16, DoneCall DEF Share
  <2>2. call[c].value \in Levels
    BY <1>0, <1>16 DEF Share, At, Fits
  <2>3. shared' \in [Proposals -> SUBSET Levels]
    BY <1>0, <1>16, <2>2 DEF Share, TypeOK
  <2> QED
    BY <1>0, <1>16, <2>1, <2>3 DEF Share, TypeInv, TypeOK
<1> QED
  BY <1>1, <1>2, <1>3, <1>4, <1>5, <1>6, <1>7, <1>8, <1>9, <1>10, <1>11, <1>12, <1>13, <1>14, <1>15, <1>16
     DEF Continue

(* So does the start of a handler. *)
LEMMA StartType ==
  ASSUME TypeInv, NEW c \in Calls, Start(c)
  PROVE  TypeInv'
<1>0. Kinds \subseteq AllKinds /\ PatchTargets \subseteq Statuses /\ Sides = {"A", "B"} /\ "NONE" \in Values
      /\ Answers \subseteq Values /\ Statuses \subseteq Values /\ MeetingStatuses \subseteq Values
  BY ConstantsAssumption DEF SelectableStatuses, Sides, Values
<1>1. ASSUME NEW p \in Proposals, BeginCreate(c, p) PROVE TypeInv'
  <2> DEFINE k == [IdleCall EXCEPT !.pc = "create", !.kind = "CREATE", !.proposal = p]
  <2>1. k \in Call /\ k.pc = "create"
    BY IdleFits DEF Call, PCs, AllKinds
  <2>2. Fits(k)
    BY <2>1 DEF Fits
  <2>3. call' = [call EXCEPT ![c] = k]
    BY <1>1 DEF BeginCreate
  <2> HIDE DEF k
  <2>4. call' \in [Calls -> Call] /\ \A d \in Calls : Fits(call'[d])
    BY <2>1, <2>2, <2>3, ReplaceCall
  <2> QED
    BY <1>1, <2>4 DEF BeginCreate, rows, TypeInv, TypeOK
<1>2. ASSUME NEW p \in Proposals, BeginMeet(c, p) \/ BeginShare(c, p) PROVE TypeInv'
  BY <1>0, <1>2, BeginCall DEF BeginMeet, BeginShare, PCs, AllKinds
<1>3. ASSUME NEW p \in Proposals, NEW v \in PatchTargets, BeginPatch(c, p, v) PROVE TypeInv'
  BY <1>0, <1>3, BeginCall DEF BeginPatch, PCs, AllKinds
<1>4. ASSUME NEW p \in Proposals, NEW s \in Sides, NEW v \in Answers, BeginRespond(c, p, s, v) \/ BeginOnBehalf(c, p, s, v)
      PROVE  TypeInv'
  BY <1>0, <1>4, BeginCall DEF BeginRespond, BeginOnBehalf, PCs, AllKinds
<1>5. ASSUME NEW p \in Proposals, NEW s \in Sides, NEW kind \in {"REQUEST", "APPROVE", "REVOKE"},
             BeginPermission(c, kind, p, s)
      PROVE  TypeInv'
  BY <1>0, <1>5, BeginCall DEF BeginPermission, PCs, AllKinds
<1>6. ASSUME NEW d \in Decisions, NEW s \in Sides, BeginConfirm(c, d, s) PROVE TypeInv'
  <2>1. decision[d] \in Decision
    BY DEF TypeInv, TypeOK
  <2>2. decision[d].proposal \in Proposals /\ decision[d].value \in Answers
    BY <2>1 DEF Decision
  <2> QED
    BY <1>0, <1>6, <2>2, BeginCall DEF BeginConfirm, PCs, AllKinds
<1>7. ASSUME NEW m \in Meetings, NEW who \in {"staff", "applicant", "family"}, NEW to \in MeetingStatuses,
             BeginMeeting(c, m, who, to)
      PROVE  TypeInv'
  <2>1. meeting[m].proposal \in Proposals
    BY DEF TypeInv, TypeOK, MeetingRow
  <2> QED
    BY <1>0, <1>7, <2>1, BeginCall DEF BeginMeeting, PCs, AllKinds
<1> QED
  BY <1>1, <1>2, <1>3, <1>4, <1>5, <1>6, <1>7 DEF Start

LEMMA NextType == TypeInv /\ [Next]_vars => TypeInv'
<1> SUFFICES ASSUME TypeInv, [Next]_vars PROVE TypeInv'
  OBVIOUS
<1>1. ASSUME NEW c \in Calls, Crash(c) PROVE TypeInv'
  BY <1>1, DoneCall DEF Crash, rows, TypeInv, TypeOK
<1>2. ASSUME NEW d \in Decisions, NEW p \in Proposals, NEW v \in Answers, Suggest(d, p, v)
      PROVE  TypeInv'
  <2>1. [proposal |-> p, value |-> v, status |-> "APPLICANT_CONFIRMATION_REQUIRED"] \in Decision
    BY DEF Decision
  <2> QED
    BY <1>2, <2>1 DEF Suggest, TypeInv, TypeOK
<1>3. ASSUME NEW d \in Decisions, CancelDecision(d) PROVE TypeInv'
  <2>1. decision' \in [Decisions -> Decision]
    BY <1>3 DEF CancelDecision, TypeInv, TypeOK, Decision
  <2> QED
    BY <1>3, <2>1 DEF CancelDecision, TypeInv, TypeOK
<1>4. ASSUME NEW x \in Profiles, RecordConsent(x) PROVE TypeInv'
  BY <1>4 DEF RecordConsent, TypeInv, TypeOK
<1>5. CASE UNCHANGED vars
  BY <1>5 DEF vars, TypeInv, TypeOK
<1> QED
  BY <1>1, <1>2, <1>3, <1>4, <1>5, ContinueType, StartType DEF Next

LEMMA TypeAlways == Spec => []TypeInv
BY InitType, NextType, PTL DEF Spec

(* Every row and every handler's local keeps its type; in particular no    *)
(* interleaving writes a profile, a proposal or a meeting a status that is *)
(* not one of theirs.                                                      *)
THEOREM TypeCorrect == Spec => []TypeOK
<1>1. TypeInv => TypeOK
  BY DEF TypeInv
<1> QED
  BY <1>1, TypeAlways, PTL

-----------------------------------------------------------------------------
(* Nothing is shared or approved without mutual permission.                *)
(* ShareNeedsConsent alone is not inductive: the permissions are checked   *)
(* some awaits before the share or the promotion is written, and an answer *)
(* writes back a status its handler read at the start.  So the invariant   *)
(* says that whatever a handler carries already had its moment of mutual   *)
(* permission.                                                             *)

PermissionsCounted == \A p \in Proposals : bothApproved(permission[p]) => history[p].mutual

Vouches(k) ==
  \/ k.pc = "promote"
  \/ k.pc = "share" /\ k.value = "PROPOSAL_APPROVED"
  \/ k.pc \in {"setStatus", "patch"} /\ k.value = "CONTACT_APPROVED"
  \/ k.snap = "CONTACT_APPROVED"

HandlersHaveConsent == \A c \in Calls : Vouches(call[c]) => history[call[c].proposal].mutual

ConsentInv == TypeInv /\ ShareNeedsConsent /\ PermissionsCounted /\ HandlersHaveConsent

(* What has stood together once is remembered. *)
Remembered == \A p \in Proposals : history[p].mutual => history'[p].mutual

(* Only CONTACT_APPROVED itself is ever recomputed to CONTACT_APPROVED. *)
LEMMA NextKeepsApproval ==
  ASSUME NEW current, NEW a, NEW b,
         \/ nextProposalStatus(current, a, b) = "CONTACT_APPROVED"
         \/ statusAfterResponse(current, a, b) = "CONTACT_APPROVED"
  PROVE  current = "CONTACT_APPROVED"
<1>1. ASSUME nextProposalStatus(current, a, b) = "CONTACT_APPROVED" PROVE current = "CONTACT_APPROVED"
  BY <1>1 DEF nextProposalStatus
<1> QED
  BY <1>1 DEF statusAfterResponse

LEMMA ReplaceVouched ==
  ASSUME TypeInv, HandlersHaveConsent, Remembered, NEW c \in Calls, NEW k,
         call' = [call EXCEPT ![c] = k], Vouches(k) => history'[k.proposal].mutual
  PROVE  HandlersHaveConsent'
<1>1. \A d \in Calls : call[d].proposal \in Proposals
  BY DEF TypeInv, TypeOK, Call
<1>2. \A d \in Calls : call'[d] = IF d = c THEN k ELSE call[d]
  BY DEF TypeInv, TypeOK
<1>3. ASSUME NEW d \in Calls, Vouches(call'[d]) PROVE history'[call'[d].proposal].mutual
  BY <1>1, <1>2, <1>3 DEF HandlersHaveConsent, Remembered
<1> QED
  BY <1>3 DEF HandlersHaveConsent, Vouches

LEMMA DoneVouched ==
  ASSUME TypeInv, HandlersHaveConsent, Remembered, NEW c \in Calls, Done(c)
  PROVE  HandlersHaveConsent'
<1>1. ~Vouches(IdleCall)
  BY DEF Vouches, IdleCall
<1> QED
  BY <1>1, ReplaceVouched DEF Done

(* A handler that only moves on, or replaces its value, keeps its snapshot. *)
LEMMA GotoVouched ==
  ASSUME TypeInv, HandlersHaveConsent, Remembered, NEW c \in Calls, NEW pc, Goto(c, pc),
         pc \notin {"setStatus", "patch", "share"},
         pc = "promote" => history'[call[c].proposal].mutual
  PROVE  HandlersHaveConsent'
<1> DEFINE k == [call[c] EXCEPT !.pc = pc]
<1>1. call[c] \in Call
  BY DEF TypeInv, TypeOK
<1>2. k.pc = pc /\ k.snap = call[c].snap /\ k.proposal = call[c].proposal /\ call[c].proposal \in Proposals
  BY <1>1 DEF Call
<1>3. Vouches(k) => history'[k.proposal].mutual
  BY <1>2 DEF Vouches, HandlersHaveConsent, Remembered
<1>4. call' = [call EXCEPT ![c] = k]
  BY DEF Goto
<1> HIDE DEF k
<1> QED
  BY <1>3, <1>4, ReplaceVouched

LEMMA CascadeVouched ==
  ASSUME TypeInv, HandlersHaveConsent, Remembered, NEW c \in Calls, NEW v, CascadeTo(c, v)
  PROVE  HandlersHaveConsent'
<1> DEFINE k == [call[c] EXCEPT !.pc = "cascade", !.value = v, !.todo = Sides]
<1>1. call[c] \in Call
  BY DEF TypeInv, TypeOK
<1>2. k.pc = "cascade" /\ k.snap = call[c].snap /\ k.proposal = call[c].proposal /\ call[c].proposal \in Proposals
  BY <1>1 DEF Call
<1>3. Vouches(k) => history'[k.proposal].mutual
  BY <1>2 DEF Vouches, HandlersHaveConsent, Remembered
<1>4. call' = [call EXCEPT ![c] = k]
  BY DEF CascadeTo
<1> HIDE DEF k
<1> QED
  BY <1>3, <1>4, ReplaceVouched

LEMMA BeginVouched ==
  ASSUME ConsentInv, NEW c \in Calls, NEW kind, NEW p \in Proposals, NEW s, NEW v, NEW i, NEW pc,
         Begin(c, kind, p, s, v, i, pc), pc \notin {"promote", "share", "setStatus"},
         pc = "patch" => v # "CONTACT_APPROVED"
  PROVE  ShareNeedsConsent' /\ PermissionsCounted' /\ HandlersHaveConsent'
<1> DEFINE k == [pc |-> pc, kind |-> kind, proposal |-> p, side |-> s, value |-> v,
                 snap |-> status[p], todo |-> {}, item |-> i]
<1>1. Vouches(k) => history'[k.proposal].mutual
  BY DEF Vouches, Begin, rows, ConsentInv, ShareNeedsConsent
<1>2. call' = [call EXCEPT ![c] = k]
  BY DEF Begin
<1>3. Remembered
  BY DEF Begin, rows, Remembered
<1> HIDE DEF k
<1>4. HandlersHaveConsent'
  BY <1>1, <1>2, <1>3, ReplaceVouched DEF ConsentInv
<1> QED
  BY <1>4 DEF Begin, rows, ConsentInv, ShareNeedsConsent, PermissionsCounted

LEMMA ContinueConsent ==
  ASSUME ConsentInv, NEW c \in Calls, Continue(c)
  PROVE  ShareNeedsConsent' /\ PermissionsCounted' /\ HandlersHaveConsent'
<1>0. TypeInv /\ ShareNeedsConsent /\ PermissionsCounted /\ HandlersHaveConsent /\ TypeOK
      /\ call[c] \in Call /\ call[c].proposal \in Proposals /\ call[c].side \in Sides
  BY DEF ConsentInv, TypeInv, TypeOK, Call
<1>r. ASSUME history' = history PROVE Remembered
  BY <1>r DEF Remembered
<1>1. CASE Create(c)
  <2>1. HandlersHaveConsent'
    BY <1>0, <1>1, <1>r, CascadeVouched DEF Create
  <2>2. \A p \in Proposals : status'[p] = status[p] \/ status'[p] = "PROPOSAL_CREATED"
    BY <1>0, <1>1 DEF Create, SetStatus, TypeOK
  <2> QED
    BY <1>0, <1>1, <2>1, <2>2 DEF Create, ShareNeedsConsent, PermissionsCounted
<1>2. ASSUME NEW s \in Sides, Cascade(c, s)
      PROVE  ShareNeedsConsent' /\ PermissionsCounted' /\ HandlersHaveConsent'
  <2> DEFINE rest == call[c].todo \ {s}
             k == [call[c] EXCEPT !.todo = rest]
  <2>1. k.pc = call[c].pc /\ k.snap = call[c].snap /\ k.value = call[c].value /\ k.proposal = call[c].proposal
    BY <1>0 DEF Call
  <2>2. Vouches(k) => history'[k.proposal].mutual
    BY <1>0, <1>2, <2>1 DEF Vouches, HandlersHaveConsent, Cascade
  <2>3. Remembered
    BY <1>2, <1>r DEF Cascade
  <2>4. HandlersHaveConsent'
    <3>1. ASSUME Done(c) PROVE HandlersHaveConsent'
      BY <1>0, <2>3, <3>1, DoneVouched
    <3>2. ASSUME call' = [call EXCEPT ![c] = k] PROVE HandlersHaveConsent'
      <4> HIDE DEF k
      <4> QED
        BY <1>0, <2>2, <2>3, <3>2, ReplaceVouched
    <3> QED
      BY <1>2, <3>1, <3>2 DEF Cascade
  <2> QED
    BY <1>0, <1>2, <2>4 DEF Cascade, ShareNeedsConsent, PermissionsCounted
<1>3. CASE UpsertResponse(c)
  <2> DEFINE k == [call[c] EXCEPT !.pc = "readAnswers", !.side = "A", !.value = "NONE"]
  <2>1. \A p \in Proposals : history'[p].mutual = history[p].mutual
    BY <1>0, <1>3 DEF UpsertResponse, TypeOK
  <2>2. Remembered
    BY <2>1 DEF Remembered
  <2>3. k.pc = "readAnswers" /\ k.snap = call[c].snap /\ k.proposal = call[c].proposal
    BY <1>0 DEF Call
  <2>4. Vouches(k) => history'[k.proposal].mutual
    BY <1>0, <2>2, <2>3 DEF Vouches, HandlersHaveConsent, Remembered
  <2>5. call' = [call EXCEPT ![c] = k]
    BY <1>3 DEF UpsertResponse
  <2> HIDE DEF k
  <2>6. HandlersHaveConsent'
    BY <1>0, <2>2, <2>4, <2>5, ReplaceVouched
  <2> QED
    BY <1>0, <1>3, <2>1, <2>6 DEF UpsertResponse, ShareNeedsConsent, PermissionsCounted
<1>4. CASE ReadResponses(c)
  <2> DEFINE p == call[c].proposal
             next == IF call[c].kind = "ON_BEHALF"
                       THEN nextProposalStatus(call[c].snap, response[p]["A"], response[p]["B"])
                       ELSE statusAfterResponse(call[c].snap, response[p]["A"], response[p]["B"])
             k == [call[c] EXCEPT !.pc = "setStatus", !.value = next, !.snap = "ABSENT"]
  <2>1. next = "CONTACT_APPROVED" => call[c].snap = "CONTACT_APPROVED"
    BY NextKeepsApproval
  <2>2. call' = [call EXCEPT ![c] = k] /\ history' = history
    BY <1>4 DEF ReadResponses, rows
  <2> HIDE DEF next
  <2>3. k.pc = "setStatus" /\ k.value = next /\ k.snap = "ABSENT" /\ k.proposal = call[c].proposal
    BY <1>0 DEF Call
  <2>4. Vouches(k) => history'[k.proposal].mutual
    BY <1>0, <2>1, <2>2, <2>3 DEF Vouches, HandlersHaveConsent
  <2> HIDE DEF k
  <2>5. HandlersHaveConsent'
    BY <1>0, <1>r, <2>2, <2>4, ReplaceVouched
  <2> QED
    BY <1>0, <1>4, <2>5 DEF ReadResponses, rows, ShareNeedsConsent, PermissionsCounted
<1>5. CASE WriteResponseStatus(c)
  <2>1. HandlersHaveConsent'
    BY <1>0, <1>5, <1>r, GotoVouched, DoneVouched DEF WriteResponseStatus
  <2>2. call[c].value = "CONTACT_APPROVED" => history[call[c].proposal].mutual
    BY <1>0, <1>5 DEF WriteResponseStatus, At, HandlersHaveConsent, Vouches
  <2>3. \A p \in Proposals : status'[p] = IF p = call[c].proposal THEN call[c].value ELSE status[p]
    BY <1>0, <1>5 DEF WriteResponseStatus, SetStatus, TypeOK
  <2> QED
    BY <1>0, <1>5, <2>1, <2>2, <2>3 DEF WriteResponseStatus, ShareNeedsConsent, PermissionsCounted
<1>6. CASE MarkConfirmed(c)
  BY <1>0, <1>6, <1>r, DoneVouched DEF MarkConfirmed, ShareNeedsConsent, PermissionsCounted
<1>7. CASE WritePermission(c)
  <2> DEFINE q == call[c].proposal
  <2>1. \A p \in Proposals : history'[p].mutual =
          IF p = q THEN history[q].mutual \/ Standing(permission'[q]) ELSE history[p].mutual
    BY <1>0, <1>7 DEF WritePermission, TypeOK
  <2>2. \A p \in Proposals \ {q} : permission'[p] = permission[p]
    BY <1>0, <1>7 DEF WritePermission, TypeOK
  <2>3. Remembered
    BY <2>1 DEF Remembered
  <2>4. bothApproved(permission'[q]) => Standing(permission'[q])
    BY DEF bothApproved, isApproved, Standing
  <2>5. PermissionsCounted'
    BY <1>0, <2>1, <2>2, <2>4 DEF PermissionsCounted
  <2>6. HandlersHaveConsent'
    BY <1>0, <1>7, <2>3, GotoVouched DEF WritePermission
  <2> QED
    BY <1>0, <1>7, <2>3, <2>5, <2>6 DEF WritePermission, ShareNeedsConsent, Remembered
<1>8. CASE ReadPermissions(c)
  <2>1. bothApproved(permission[call[c].proposal]) => history'[call[c].proposal].mutual
    BY <1>0, <1>8 DEF ReadPermissions, rows, PermissionsCounted
  <2>2. HandlersHaveConsent'
    BY <1>0, <1>8, <1>r, <2>1, GotoVouched, DoneVouched DEF ReadPermissions, rows
  <2> QED
    BY <1>0, <1>8, <2>2 DEF ReadPermissions, rows, ShareNeedsConsent, PermissionsCounted
<1>9. CASE Promote(c)
  <2>1. HandlersHaveConsent'
    BY <1>0, <1>9, <1>r, DoneVouched DEF Promote
  <2>2. history[call[c].proposal].mutual
    BY <1>0, <1>9 DEF Promote, At, HandlersHaveConsent, Vouches
  <2>3. \A p \in Proposals \ {call[c].proposal} : status'[p] = status[p]
    BY <1>0, <1>9 DEF Promote, SetStatus, TypeOK
  <2> QED
    BY <1>0, <1>9, <2>1, <2>2, <2>3 DEF Promote, ShareNeedsConsent, PermissionsCounted
<1>10. ASSUME NEW m \in Meetings, CreateMeeting(c, m)
       PROVE  ShareNeedsConsent' /\ PermissionsCounted' /\ HandlersHaveConsent'
  <2>1. HandlersHaveConsent'
    BY <1>0, <1>10, <1>r, GotoVouched, DoneVouched DEF CreateMeeting
  <2> QED
    BY <1>0, <1>10, <2>1 DEF CreateMeeting, ShareNeedsConsent, PermissionsCounted
<1>11. CASE MarkScheduled(c)
  <2>1. HandlersHaveConsent'
    BY <1>0, <1>11, <1>r, DoneVouched DEF MarkScheduled
  <2>2. \A p \in Proposals : status'[p] = status[p] \/ status'[p] = "MEETING_SCHEDULED"
    BY <1>0, <1>11 DEF MarkScheduled, SetStatus, TypeOK
  <2> QED
    BY <1>0, <1>11, <2>1, <2>2 DEF MarkScheduled, ShareNeedsConsent, PermissionsCounted
<1>12. CASE MoveMeeting(c)
  <2>1. \A p \in Proposals : history'[p].mutual = history[p].mutual
    BY <1>0, <1>12 DEF MoveMeeting, TypeOK
  <2>2. Remembered
    BY <2>1 DEF Remembered
  <2>3. HandlersHaveConsent'
    BY <1>0, <1>12, <2>2, GotoVouched, DoneVouched DEF MoveMeeting
  <2> QED
    BY <1>0, <1>12, <2>1, <2>3 DEF MoveMeeting, ShareNeedsConsent, PermissionsCounted
<1>13. CASE MarkCompleted(c)
  <2>1. HandlersHaveConsent'
    BY <1>0, <1>13, <1>r, DoneVouched DEF MarkCompleted
  <2>2. \A p \in Proposals : status'[p] = status[p] \/ status'[p] = "MEETING_COMPLETED"
    BY <1>0, <1>13 DEF MarkCompleted, SetStatus, TypeOK
  <2> QED
    BY <1>0, <1>13, <2>1, <2>2 DEF MarkCompleted, ShareNeedsConsent, PermissionsCounted
<1>14. CASE Patch(c)
  <2>1. HandlersHaveConsent'
    BY <1>0, <1>14, <1>r, CascadeVouched, DoneVouched DEF Patch
  <2>2. call[c].value = "CONTACT_APPROVED" => history[call[c].proposal].mutual
    BY <1>0, <1>14 DEF Patch, At, HandlersHaveConsent, Vouches
  <2>3. \A p \in Proposals : status'[p] = IF p = call[c].proposal THEN call[c].value ELSE status[p]
    BY <1>0, <1>14 DEF Patch, SetStatus, TypeOK
  <2> QED
    BY <1>0, <1>14, <2>1, <2>2, <2>3 DEF Patch, ShareNeedsConsent, PermissionsCounted
<1>15. CASE CheckShare(c)
  <2>1. ASSUME NEW v, GotoWith(c, "share", v), v = "PROPOSAL_APPROVED" => history[call[c].proposal].mutual
        PROVE  HandlersHaveConsent'
    <3> DEFINE k == [call[c] EXCEPT !.pc = "share", !.value = v]
    <3>1. k.pc = "share" /\ k.value = v /\ k.snap = call[c].snap /\ k.proposal = call[c].proposal
      BY <1>0 DEF Call
    <3>2. Remembered
      BY <1>15, <1>r DEF CheckShare, rows
    <3>3. Vouches(k) => history'[k.proposal].mutual
      BY <1>0, <2>1, <3>1, <3>2 DEF Vouches, HandlersHaveConsent, Remembered
    <3>4. call' = [call EXCEPT ![c] = k]
      BY <2>1 DEF GotoWith
    <3> HIDE DEF k
    <3> QED
      BY <1>0, <3>2, <3>3, <3>4, ReplaceVouched
  <2>2. bothApproved(permission[call[c].proposal]) => history[call[c].proposal].mutual
    BY <1>0 DEF PermissionsCounted
  <2>3. HandlersHaveConsent'
    BY <1>0, <1>15, <1>r, <2>1, <2>2, DoneVouched DEF CheckShare, rows
  <2> QED
    BY <1>0, <1>15, <2>3 DEF CheckShare, rows, ShareNeedsConsent, PermissionsCounted
<1>16. CASE Share(c)
  <2>1. HandlersHaveConsent'
    BY <1>0, <1>16, <1>r, DoneVouched DEF Share
  <2>2. call[c].value = "PROPOSAL_APPROVED" => history[call[c].proposal].mutual
    BY <1>0, <1>16 DEF Share, At, HandlersHaveConsent, Vouches
  <2>3. \A p \in Proposals :
          shared'[p] = IF p = call[c].proposal THEN shared[p] \cup {call[c].value} ELSE shared[p]
    BY <1>0, <1>16 DEF Share, TypeOK
  <2> QED
    BY <1>0, <1>16, <2>1, <2>2, <2>3 DEF Share, ShareNeedsConsent, PermissionsCounted
<1> QED
  BY <1>1, <1>2, <1>3, <1>4, <1>5, <1>6, <1>7, <1>8, <1>9, <1>10, <1>11, <1>12, <1>13, <1>14, <1>15, <1>16
     DEF Continue

LEMMA StartConsent ==
  ASSUME "CONTACT_APPROVED" \notin PatchTargets, ConsentInv, NEW c \in Calls, Start(c)
  PROVE  ShareNeedsConsent' /\ PermissionsCounted' /\ HandlersHaveConsent'
<1>1. ASSUME NEW p \in Proposals, BeginCreate(c, p)
      PROVE  ShareNeedsConsent' /\ PermissionsCounted' /\ HandlersHaveConsent'
  <2> DEFINE k == [IdleCall EXCEPT !.pc = "create", !.kind = "CREATE", !.proposal = p]
  <2>1. k.pc = "create" /\ k.snap = "ABSENT"
    BY DEF IdleCall
  <2>2. ~Vouches(k)
    BY <2>1 DEF Vouches
  <2>3. call' = [call EXCEPT ![c] = k] /\ Remembered
    BY <1>1 DEF BeginCreate, rows, Remembered
  <2> HIDE DEF k
  <2>4. HandlersHaveConsent'
    BY <2>2, <2>3, ReplaceVouched DEF ConsentInv
  <2> QED
    BY <1>1, <2>4 DEF BeginCreate, rows, ConsentInv, ShareNeedsConsent, PermissionsCounted
<1>2. ASSUME NEW d \in Decisions, NEW s \in Sides, BeginConfirm(c, d, s)
      PROVE  ShareNeedsConsent' /\ PermissionsCounted' /\ HandlersHaveConsent'
  <2>1. decision[d].proposal \in Proposals
    BY DEF ConsentInv, TypeInv, TypeOK, Decision
  <2> QED
    BY <1>2, <2>1, BeginVouched DEF BeginConfirm
<1>3. ASSUME NEW m \in Meetings, NEW who, NEW to, BeginMeeting(c, m, who, to)
      PROVE  ShareNeedsConsent' /\ PermissionsCounted' /\ HandlersHaveConsent'
  <2>1. meeting[m].proposal \in Proposals
    BY DEF ConsentInv, TypeInv, TypeOK, MeetingRow
  <2> QED
    BY <1>3, <2>1, BeginVouched DEF BeginMeeting
<1>4. ASSUME NEW p \in Proposals, NEW v \in PatchTargets, BeginPatch(c, p, v)
      PROVE  ShareNeedsConsent' /\ PermissionsCounted' /\ HandlersHaveConsent'
  BY <1>4, BeginVouched DEF BeginPatch
<1> QED
  BY <1>1, <1>2, <1>3, <1>4, BeginVouched DEF Start, BeginMeet, BeginShare, BeginRespond, BeginOnBehalf, BeginPermission

LEMMA ConsentStep ==
  ASSUME "CONTACT_APPROVED" \notin PatchTargets
  PROVE  ConsentInv /\ [Next]_vars => ConsentInv'
<1> SUFFICES ASSUME ConsentInv, [Next]_vars
             PROVE  ShareNeedsConsent' /\ PermissionsCounted' /\ HandlersHaveConsent'
  BY NextType DEF ConsentInv
<1>1. ASSUME NEW c \in Calls, Crash(c) PROVE ShareNeedsConsent' /\ PermissionsCounted' /\ HandlersHaveConsent'
  <2>1. Remembered
    BY <1>1 DEF Crash, rows, Remembered
  <2> QED
    BY <1>1, <2>1, DoneVouched DEF Crash, rows, ConsentInv, ShareNeedsConsent, PermissionsCounted
<1>2. CASE \/ \E d \in Decisions, p \in Proposals, v \in Answers : Suggest(d, p, v)
           \/ \E d \in Decisions : CancelDecision(d)
           \/ \E x \in Profiles : RecordConsent(x)
           \/ UNCHANGED vars
  <2>1. UNCHANGED <<status, permission, shared, call, history>>
    BY <1>2 DEF Suggest, CancelDecision, RecordConsent, vars
  <2> QED
    BY <2>1 DEF ConsentInv, ShareNeedsConsent, PermissionsCounted, HandlersHaveConsent, Vouches
<1> QED
  BY <1>1, <1>2, ContinueConsent, StartConsent DEF Next

(* As long as no administrator sets CONTACT_APPROVED by hand, contact       *)
(* details are shared on the strength of a proposal, and contact is         *)
(* approved, only after both sides' permissions have stood together,        *)
(* however many handlers interleave.                                        *)
THEOREM ConsentNeeded ==
  ASSUME "CONTACT_APPROVED" \notin PatchTargets
  PROVE  Spec => []ShareNeedsConsent
<1>1. Init => ConsentInv
  <2> SUFFICES ASSUME Init PROVE ShareNeedsConsent /\ PermissionsCounted /\ HandlersHaveConsent
    BY InitType DEF ConsentInv
  <2>1. ~Vouches(IdleCall)
    BY DEF Vouches, IdleCall
  <2>2. \A p \in Proposals : shared[p] = {} /\ status[p] # "CONTACT_APPROVED"
    BY ConstantsAssumption DEF Init
  <2>3. \A p \in Proposals : ~bothApproved(permission[p])
    BY DEF Init, bothApproved, isApproved, Sides
  <2>4. \A c \in Calls : call[c] = IdleCall
    BY DEF Init
  <2> QED
    BY <2>1, <2>2, <2>3, <2>4 DEF ShareNeedsConsent, PermissionsCounted, HandlersHaveConsent
<1>2. ConsentInv /\ [Next]_vars => ConsentInv'
  BY ConsentStep
<1>3. ConsentInv => ShareNeedsConsent
  BY DEF ConsentInv
<1> QED
  BY <1>1, <1>2, <1>3, PTL DEF Spec

-----------------------------------------------------------------------------
(* The statuses that claim something are true of the proposal.             *)
(* Every write of a status is computed from a read made some awaits before *)
(* it, and an answer writes back the status its handler began with.  What  *)
(* makes InterestBacked and MeetingBacked inductive is that each fact they *)
(* ask for is permanent, and that whatever status a handler has read or is *)
(* about to write was backed when it took hold of it.                      *)

Agreed == {"BOTH_INTERESTED", "CONTACT_PERMISSION_PENDING", "CONTACT_APPROVED"}
Met    == {"MEETING_SCHEDULED", "MEETING_COMPLETED"}

Wanted(p)     == history[p].interested = Sides
Held(p)       == history[p].held
HasMeeting(p) == \E m \in Meetings : meeting[m].proposal = p /\ meeting[m].status # "NONE"

(* A claim an administrator may make by hand is not counted. *)
Backed(p, s) ==
  /\ Agreed \cap PatchTargets = {} /\ s \in Agreed => Wanted(p)
  /\ Met \cap PatchTargets = {} /\ s \in Met => HasMeeting(p)
  /\ Met \cap PatchTargets = {} /\ s = "MEETING_COMPLETED" => Held(p)

Carries(k) ==
  /\ Backed(k.proposal, k.snap)
  /\ k.pc \in {"setStatus", "patch"} => Backed(k.proposal, k.value)
  /\ k.pc = "promote"     => Backed(k.proposal, "CONTACT_APPROVED")
  /\ k.pc = "schedule"    => Backed(k.proposal, "MEETING_SCHEDULED")
  /\ k.pc = "complete"    => Backed(k.proposal, "MEETING_COMPLETED")
  /\ k.pc = "moveMeeting" => HasMeeting(k.proposal)

AnswersCounted == \A p \in Proposals, s \in Sides : response[p][s] = "INTERESTED" => s \in history[p].interested
RowsBacked     == \A p \in Proposals : Backed(p, status[p])
HandlersBacked == \A c \in Calls : Carries(call[c])

BackedInv == TypeInv /\ AnswersCounted /\ RowsBacked /\ HandlersBacked

(* What is once true of a proposal stays true: nobody takes back having    *)
(* been interested, no meeting row disappears.                             *)
FactsStay == \A p \in Proposals :
  /\ Wanted(p) => Wanted(p)'
  /\ Held(p) => Held(p)'
  /\ HasMeeting(p) => HasMeeting(p)'

LEMMA BackedStays ==
  ASSUME FactsStay, NEW p \in Proposals, NEW s, Backed(p, s)
  PROVE  Backed(p, s)'
BY DEF FactsStay, Backed

LEMMA CarriesStays ==
  ASSUME FactsStay, NEW k, k.proposal \in Proposals, Carries(k)
  PROVE  Carries(k)'
BY BackedStays DEF Carries, FactsStay

LEMMA ReplaceBacked ==
  ASSUME TypeInv, HandlersBacked, FactsStay, NEW c \in Calls, NEW k,
         call' = [call EXCEPT ![c] = k], Carries(k)'
  PROVE  HandlersBacked'
<1>1. \A d \in Calls : call'[d] = IF d = c THEN k ELSE call[d]
  BY DEF TypeInv, TypeOK
<1>2. ASSUME NEW d \in Calls PROVE Carries(call[d])'
  <2>1. CASE d = c
    <3>1. call'[d] = k
      BY <1>1, <2>1
    <3> QED
      BY <3>1 DEF Carries
  <2>2. CASE d # c
    <3>1. PICK j : j = call[d]
      OBVIOUS
    <3>2. Carries(j) /\ j.proposal \in Proposals
      BY <3>1 DEF HandlersBacked, TypeInv, TypeOK, Call
    <3>3. Carries(j)' /\ call'[d] = j
      BY <1>1, <2>2, <3>1, <3>2, CarriesStays
    <3> QED
      BY <3>3 DEF Carries
  <2> QED
    BY <2>1, <2>2
<1> QED
  BY <1>2 DEF HandlersBacked

LEMMA DoneBacked ==
  ASSUME TypeInv, HandlersBacked, FactsStay, NEW c \in Calls, Done(c)
  PROVE  HandlersBacked'
<1>1. PICK k : k = IdleCall
  OBVIOUS
<1>2. k.pc = "idle" /\ k.snap = "ABSENT"
  BY <1>1 DEF IdleCall
<1>3. Carries(k)'
  BY <1>2 DEF Carries, Backed, Agreed, Met
<1>4. call' = [call EXCEPT ![c] = k]
  BY <1>1 DEF Done
<1> QED
  BY <1>3, <1>4, ReplaceBacked

(* A handler that moves on with its snapshot, and perhaps another value. *)
LEMMA MoveBacked ==
  ASSUME TypeInv, HandlersBacked, FactsStay, NEW c \in Calls, NEW k,
         call' = [call EXCEPT ![c] = k], k.proposal = call[c].proposal, k.snap = call[c].snap,
         k.pc \notin {"setStatus", "patch", "moveMeeting"},
         k.pc = "promote"  => Backed(k.proposal, "CONTACT_APPROVED")',
         k.pc = "schedule" => Backed(k.proposal, "MEETING_SCHEDULED")',
         k.pc = "complete" => Backed(k.proposal, "MEETING_COMPLETED")'
  PROVE  HandlersBacked'
<1>1. k.proposal \in Proposals /\ Backed(k.proposal, k.snap)
  BY DEF HandlersBacked, Carries, TypeInv, TypeOK, Call
<1>2. Backed(k.proposal, k.snap)'
  BY <1>1, BackedStays
<1>3. Carries(k)'
  BY <1>2 DEF Carries
<1> QED
  BY <1>3, ReplaceBacked

LEMMA GotoBacked ==
  ASSUME TypeInv, HandlersBacked, FactsStay, NEW c \in Calls, NEW pc, NEW p, p = call[c].proposal, Goto(c, pc),
         pc \notin {"setStatus", "patch", "moveMeeting"},
         pc = "promote"  => Backed(p, "CONTACT_APPROVED")',
         pc = "schedule" => Backed(p, "MEETING_SCHEDULED")',
         pc = "complete" => Backed(p, "MEETING_COMPLETED")'
  PROVE  HandlersBacked'
<1>1. PICK k : k = [call[c] EXCEPT !.pc = pc]
  OBVIOUS
<1>2. call[c] \in Call
  BY DEF TypeInv, TypeOK
<1>3. k.pc = pc /\ k.snap = call[c].snap /\ k.proposal = call[c].proposal /\ k.proposal = p
  BY <1>1, <1>2 DEF Call
<1>4. call' = [call EXCEPT ![c] = k]
  BY <1>1 DEF Goto
<1>5. /\ k.pc = "promote"  => Backed(k.proposal, "CONTACT_APPROVED")'
      /\ k.pc = "schedule" => Backed(k.proposal, "MEETING_SCHEDULED")'
      /\ k.pc = "complete" => Backed(k.proposal, "MEETING_COMPLETED")'
  BY <1>3
<1> QED
  BY <1>3, <1>4, <1>5, MoveBacked

LEMMA CascadeBacked ==
  ASSUME TypeInv, HandlersBacked, FactsStay, NEW c \in Calls, NEW v, CascadeTo(c, v)
  PROVE  HandlersBacked'
<1>1. PICK k : k = [call[c] EXCEPT !.pc = "cascade", !.value = v, !.todo = Sides]
  OBVIOUS
<1>2. call[c] \in Call
  BY DEF TypeInv, TypeOK
<1>3. k.pc = "cascade" /\ k.snap = call[c].snap /\ k.proposal = call[c].proposal
  BY <1>1, <1>2 DEF Call
<1>4. call' = [call EXCEPT ![c] = k]
  BY <1>1 DEF CascadeTo
<1> QED
  BY <1>3, <1>4, MoveBacked

(* A handler that starts reads a status that is backed. *)
LEMMA BeginBacked ==
  ASSUME BackedInv, NEW c \in Calls, NEW kind, NEW p \in Proposals, NEW s, NEW v, NEW i, NEW pc,
         Begin(c, kind, p, s, v, i, pc), pc \notin {"promote", "schedule", "complete", "setStatus"},
         pc = "patch" => v \in PatchTargets, pc = "moveMeeting" => HasMeeting(p)
  PROVE  AnswersCounted' /\ RowsBacked' /\ HandlersBacked'
<1>0. FactsStay
  BY DEF Begin, rows, FactsStay, Wanted, Held, HasMeeting
<1>1. PICK k : k = [pc |-> pc, kind |-> kind, proposal |-> p, side |-> s, value |-> v,
                    snap |-> status[p], todo |-> {}, item |-> i]
  OBVIOUS
<1>2. k.pc = pc /\ k.proposal = p /\ k.snap = status[p] /\ k.value = v
  BY <1>1
<1>3. Backed(p, k.snap)
  BY <1>2 DEF BackedInv, RowsBacked
<1>4. pc = "patch" => Backed(p, v)
  BY DEF Backed, Met
<1>5. Carries(k)
  BY <1>2, <1>3, <1>4 DEF Carries
<1>6. Carries(k)' /\ call' = [call EXCEPT ![c] = k]
  BY <1>0, <1>1, <1>2, <1>5, CarriesStays DEF Begin
<1>7. HandlersBacked'
  BY <1>0, <1>6, ReplaceBacked DEF BackedInv
<1> QED
  BY <1>7 DEF Begin, rows, BackedInv, AnswersCounted, RowsBacked, Backed, Wanted, Held, HasMeeting

(* A status is recomputed to one that claims something only if it was      *)
(* claimed before, or both answers are there.                              *)
LEMMA NextKeepsClaims ==
  ASSUME NEW current, NEW a, NEW b, NEW next,
         next = nextProposalStatus(current, a, b) \/ next = statusAfterResponse(current, a, b),
         next \in Agreed \cup Met
  PROVE  next = current \/ (next = "BOTH_INTERESTED" /\ a = "INTERESTED" /\ b = "INTERESTED")
<1>1. ASSUME nextProposalStatus(current, a, b) \in Agreed \cup Met
      PROVE  \/ nextProposalStatus(current, a, b) = current
             \/ nextProposalStatus(current, a, b) = "BOTH_INTERESTED" /\ a = "INTERESTED" /\ b = "INTERESTED"
  BY <1>1 DEF nextProposalStatus, Agreed, Met
<1> QED
  BY <1>1 DEF statusAfterResponse

(* The status of one proposal is written, to one that is backed. *)
LEMMA WriteBacked ==
  ASSUME BackedInv, FactsStay, NEW p \in Proposals, NEW v, SetStatus(p, v), Backed(p, v)
  PROVE  RowsBacked'
<1>1. ASSUME NEW q \in Proposals PROVE Backed(q, status[q])'
  <2>1. PICK w : w = status'[q]
    OBVIOUS
  <2>2. Backed(q, w)
    BY <2>1 DEF BackedInv, TypeInv, TypeOK, SetStatus, RowsBacked
  <2>3. Backed(q, w)'
    BY <2>2, BackedStays
  <2> QED
    BY <2>1, <2>3 DEF Backed
<1> QED
  BY <1>1 DEF RowsBacked

(* No status is written. *)
LEMMA KeepBacked ==
  ASSUME BackedInv, FactsStay, status' = status
  PROVE  RowsBacked'
<1>1. ASSUME NEW q \in Proposals PROVE Backed(q, status[q])'
  <2>1. PICK w : w = status[q]
    OBVIOUS
  <2>2. Backed(q, w)'
    BY <2>1, BackedStays DEF BackedInv, RowsBacked
  <2> QED
    BY <2>1, <2>2 DEF Backed
<1> QED
  BY <1>1 DEF RowsBacked

(* Steps that write neither an answer nor a meeting nor history. *)
LEMMA QuietFacts ==
  ASSUME AnswersCounted, UNCHANGED <<response, meeting, history>>
  PROVE  FactsStay /\ AnswersCounted'
BY DEF FactsStay, Wanted, Held, HasMeeting, AnswersCounted

LEMMA ContinueBacked ==
  ASSUME BackedInv, NEW c \in Calls, Continue(c)
  PROVE  AnswersCounted' /\ RowsBacked' /\ HandlersBacked'
<1>0. TypeInv /\ TypeOK /\ AnswersCounted /\ RowsBacked /\ HandlersBacked /\ Fits(call[c])
      /\ call[c] \in Call /\ call[c].proposal \in Proposals /\ call[c].side \in Sides
  BY DEF BackedInv, TypeInv, TypeOK, Call
<1>k. Carries(call[c])
  BY <1>0 DEF HandlersBacked
<1>p. PICK p \in Proposals : p = call[c].proposal
  BY <1>0
<1>1. CASE Create(c)
  <2>1. FactsStay /\ AnswersCounted'
    BY <1>0, <1>1, QuietFacts DEF Create
  <2>2. Backed(p, "PROPOSAL_CREATED")
    BY DEF Backed, Agreed, Met
  <2> QED
    BY <1>0, <1>1, <1>p, <2>1, <2>2, WriteBacked, CascadeBacked DEF Create
<1>2. ASSUME NEW s \in Sides, Cascade(c, s)
      PROVE  AnswersCounted' /\ RowsBacked' /\ HandlersBacked'
  <2>1. FactsStay /\ AnswersCounted'
    BY <1>0, <1>2, QuietFacts DEF Cascade
  <2>2. RowsBacked'
    BY <1>2, <2>1, KeepBacked DEF Cascade
  <2>3. ASSUME Done(c) PROVE HandlersBacked'
    BY <1>0, <2>1, <2>3, DoneBacked
  <2>4. ASSUME call' = [call EXCEPT ![c].todo = call[c].todo \ {s}] PROVE HandlersBacked'
    <3>1. PICK k : k = [call[c] EXCEPT !.todo = call[c].todo \ {s}]
      OBVIOUS
    <3>2. k.pc = "cascade" /\ k.proposal = call[c].proposal /\ k.snap = call[c].snap
      BY <1>0, <1>2, <3>1 DEF Call, Cascade, At
    <3>3. call' = [call EXCEPT ![c] = k]
      BY <2>4, <3>1
    <3> QED
      BY <1>0, <2>1, <3>2, <3>3, MoveBacked
  <2> QED
    BY <1>2, <2>1, <2>2, <2>3, <2>4 DEF Cascade
<1>3. CASE UpsertResponse(c)
  <2>1. PICK k : k = [call[c] EXCEPT !.pc = "readAnswers", !.side = "A", !.value = "NONE"]
    OBVIOUS
  <2>2. k.pc = "readAnswers" /\ k.proposal = call[c].proposal /\ k.snap = call[c].snap
    BY <1>0, <2>1 DEF Call
  <2>3. call' = [call EXCEPT ![c] = k] /\ meeting' = meeting /\ status' = status
    BY <1>3, <2>1 DEF UpsertResponse
  <2>4. \A q \in Proposals : /\ history[q].interested \subseteq history'[q].interested
                             /\ history'[q].interested \subseteq Sides
                             /\ history'[q].held = history[q].held
    BY <1>0, <1>3 DEF UpsertResponse, TypeOK
  <2>5. FactsStay
    BY <2>3, <2>4 DEF FactsStay, Wanted, Held, HasMeeting
  <2>6. call[c].value = "INTERESTED" => call[c].side \in history'[p].interested
    BY <1>0, <1>3, <1>p DEF UpsertResponse, TypeOK
  <2>7. \A q \in Proposals, s \in Sides :
          response'[q][s] = IF q = p /\ s = call[c].side THEN call[c].value ELSE response[q][s]
    BY <1>0, <1>3, <1>p DEF UpsertResponse, TypeOK
  <2>8. AnswersCounted'
    BY <1>0, <2>4, <2>6, <2>7 DEF AnswersCounted
  <2> QED
    BY <1>0, <2>2, <2>3, <2>5, <2>8, MoveBacked, KeepBacked
<1>4. CASE ReadResponses(c)
  <2>1. FactsStay /\ AnswersCounted'
    BY <1>0, <1>4, QuietFacts DEF ReadResponses, rows
  <2>2. RowsBacked'
    BY <1>4, <2>1, KeepBacked DEF ReadResponses, rows
  <2>3. PICK next : next = IF call[c].kind = "ON_BEHALF"
                             THEN nextProposalStatus(call[c].snap, response[p]["A"], response[p]["B"])
                             ELSE statusAfterResponse(call[c].snap, response[p]["A"], response[p]["B"])
    OBVIOUS
  <2>4. next \in Agreed \cup Met =>
          next = call[c].snap \/ (next = "BOTH_INTERESTED" /\ response[p]["A"] = "INTERESTED"
                                                           /\ response[p]["B"] = "INTERESTED")
    <3>1. \/ next = nextProposalStatus(call[c].snap, response[p]["A"], response[p]["B"])
          \/ next = statusAfterResponse(call[c].snap, response[p]["A"], response[p]["B"])
      BY <2>3
    <3> QED
      BY <3>1, NextKeepsClaims
  <2>5. response[p]["A"] = "INTERESTED" /\ response[p]["B"] = "INTERESTED" => Wanted(p)
    BY <1>0 DEF AnswersCounted, Wanted, Sides, TypeOK
  <2>6. Backed(p, call[c].snap)
    BY <1>k, <1>p DEF Carries
  <2>7. Backed(p, next)
    BY <2>4, <2>5, <2>6 DEF Backed, Agreed, Met
  <2>8. PICK k : k = [call[c] EXCEPT !.pc = "setStatus", !.value = next, !.snap = "ABSENT"]
    OBVIOUS
  <2>9. k.pc = "setStatus" /\ k.proposal = p /\ k.value = next /\ k.snap = "ABSENT"
    BY <1>0, <1>p, <2>8 DEF Call
  <2>10. Carries(k)
    BY <2>7, <2>9 DEF Carries, Backed, Agreed, Met
  <2>11. call' = [call EXCEPT ![c] = k]
    BY <1>4, <1>p, <2>3, <2>8 DEF ReadResponses
  <2>12. Carries(k)'
    BY <2>1, <2>9, <2>10, CarriesStays
  <2> QED
    BY <1>0, <2>1, <2>2, <2>11, <2>12, ReplaceBacked
<1>5. CASE WriteResponseStatus(c)
  <2>1. FactsStay /\ AnswersCounted'
    BY <1>0, <1>5, QuietFacts DEF WriteResponseStatus
  <2>2. PICK v : v = call[c].value
    OBVIOUS
  <2>3. Backed(p, v)
    BY <1>5, <1>k, <1>p, <2>2 DEF Carries, WriteResponseStatus, At
  <2>4. RowsBacked'
    BY <1>5, <1>p, <2>1, <2>2, <2>3, WriteBacked DEF WriteResponseStatus
  <2> QED
    BY <1>0, <1>5, <1>p, <2>1, <2>4, GotoBacked, DoneBacked DEF WriteResponseStatus
<1>6. CASE MarkConfirmed(c)
  BY <1>0, <1>6, QuietFacts, KeepBacked, DoneBacked DEF MarkConfirmed
<1>7. CASE WritePermission(c)
  <2>1. \A q \in Proposals : history'[q].interested = history[q].interested /\ history'[q].held = history[q].held
    BY <1>0, <1>7 DEF WritePermission, TypeOK
  <2>2. FactsStay /\ AnswersCounted'
    BY <1>0, <1>7, <2>1 DEF WritePermission, FactsStay, Wanted, Held, HasMeeting, AnswersCounted
  <2> QED
    BY <1>0, <1>7, <1>p, <2>2, GotoBacked, KeepBacked DEF WritePermission
<1>8. CASE ReadPermissions(c)
  <2>1. FactsStay /\ AnswersCounted'
    BY <1>0, <1>8, QuietFacts DEF ReadPermissions, rows
  <2>2. RowsBacked'
    BY <1>8, <2>1, KeepBacked DEF ReadPermissions, rows
  <2>3. ASSUME call[c].snap \in Promotes PROVE Backed(p, "CONTACT_APPROVED")'
    <3>1. Backed(p, call[c].snap)
      BY <1>k, <1>p DEF Carries
    <3>2. Backed(p, "CONTACT_APPROVED")
      BY <2>3, <3>1 DEF Backed, Agreed, Met, Promotes
    <3> QED
      BY <2>1, <3>2, BackedStays
  <2>4. ASSUME Goto(c, "promote"), call[c].snap \in Promotes PROVE HandlersBacked'
    BY <1>0, <1>p, <2>1, <2>3, <2>4, GotoBacked
  <2> QED
    BY <1>0, <1>8, <2>1, <2>2, <2>4, DoneBacked DEF ReadPermissions
<1>9. CASE Promote(c)
  <2>1. FactsStay /\ AnswersCounted'
    BY <1>0, <1>9, QuietFacts DEF Promote
  <2>2. Backed(p, "CONTACT_APPROVED")
    BY <1>9, <1>k, <1>p DEF Carries, Promote, At
  <2> QED
    BY <1>0, <1>9, <1>p, <2>1, <2>2, WriteBacked, DoneBacked DEF Promote
<1>10. ASSUME NEW m \in Meetings, CreateMeeting(c, m)
       PROVE  AnswersCounted' /\ RowsBacked' /\ HandlersBacked'
  <2>1. \A n \in Meetings \ {m} : meeting'[n] = meeting[n]
    BY <1>0, <1>10 DEF CreateMeeting, TypeOK
  <2>2. meeting[m].status = "NONE" /\ meeting'[m].status # "NONE" /\ meeting'[m].proposal = p
    BY <1>0, <1>10, <1>p DEF CreateMeeting, TypeOK
  <2>3. \A q \in Proposals : HasMeeting(q) => HasMeeting(q)'
    BY <2>1, <2>2 DEF HasMeeting
  <2>4. FactsStay /\ AnswersCounted'
    BY <1>0, <1>10, <2>3 DEF CreateMeeting, FactsStay, Wanted, Held, AnswersCounted
  <2>5. HasMeeting(p)'
    BY <2>2 DEF HasMeeting
  <2>6. Backed(p, "MEETING_SCHEDULED")'
    BY <2>5 DEF Backed, Agreed
  <2>7. RowsBacked'
    BY <1>10, <2>4, KeepBacked DEF CreateMeeting
  <2> QED
    BY <1>0, <1>10, <1>p, <2>4, <2>6, <2>7, GotoBacked, DoneBacked DEF CreateMeeting
<1>11. CASE MarkScheduled(c)
  <2>1. FactsStay /\ AnswersCounted'
    BY <1>0, <1>11, QuietFacts DEF MarkScheduled
  <2>2. Backed(p, "MEETING_SCHEDULED")
    BY <1>11, <1>k, <1>p DEF Carries, MarkScheduled, At
  <2> QED
    BY <1>0, <1>11, <1>p, <2>1, <2>2, WriteBacked, DoneBacked DEF MarkScheduled
<1>12. CASE MoveMeeting(c)
  <2>1. call[c].value # "NONE"
    BY <1>0, <1>12 DEF MoveMeeting, At, Fits, MeetingStatuses
  <2>2. \A n \in Meetings : meeting'[n].proposal = meeting[n].proposal
                            /\ meeting'[n].status \in {meeting[n].status, call[c].value}
    BY <1>0, <1>12 DEF MoveMeeting, TypeOK, MeetingRow
  <2>3. \A q \in Proposals : HasMeeting(q) => HasMeeting(q)'
    BY <2>1, <2>2 DEF HasMeeting
  <2>4. \A q \in Proposals :
          /\ history'[q].interested = history[q].interested
          /\ history'[q].held = (history[q].held \/ (q = p /\ call[c].value = "COMPLETED"))
    BY <1>0, <1>12, <1>p DEF MoveMeeting, TypeOK
  <2>5. FactsStay /\ AnswersCounted'
    BY <1>0, <1>12, <2>3, <2>4 DEF MoveMeeting, FactsStay, Wanted, Held, AnswersCounted
  <2>6. HasMeeting(p)'
    BY <1>12, <1>k, <1>p, <2>3 DEF Carries, MoveMeeting, At
  <2>7. ASSUME call[c].value = "COMPLETED" PROVE Backed(p, "MEETING_COMPLETED")'
    BY <2>4, <2>6, <2>7 DEF Backed, Agreed, Held
  <2>8. RowsBacked'
    BY <1>12, <2>5, KeepBacked DEF MoveMeeting
  <2> QED
    BY <1>0, <1>12, <1>p, <2>5, <2>7, <2>8, GotoBacked, DoneBacked DEF MoveMeeting
<1>13. CASE MarkCompleted(c)
  <2>1. FactsStay /\ AnswersCounted'
    BY <1>0, <1>13, QuietFacts DEF MarkCompleted
  <2>2. Backed(p, "MEETING_COMPLETED")
    BY <1>13, <1>k, <1>p DEF Carries, MarkCompleted, At
  <2> QED
    BY <1>0, <1>13, <1>p, <2>1, <2>2, WriteBacked, DoneBacked DEF MarkCompleted
<1>14. CASE Patch(c)
  <2>1. FactsStay /\ AnswersCounted'
    BY <1>0, <1>14, QuietFacts DEF Patch
  <2>2. PICK v : v = call[c].value
    OBVIOUS
  <2>3. Backed(p, v)
    BY <1>14, <1>k, <1>p, <2>2 DEF Carries, Patch, At
  <2>4. RowsBacked'
    BY <1>14, <1>p, <2>1, <2>2, <2>3, WriteBacked DEF Patch
  <2>5. CascadeTo(c, v) \/ Done(c)
    BY <1>14, <2>2 DEF Patch
  <2> QED
    BY <1>0, <2>1, <2>4, <2>5, CascadeBacked, DoneBacked
<1>15. CASE CheckShare(c)
  <2>1. FactsStay /\ AnswersCounted'
    BY <1>0, <1>15, QuietFacts DEF CheckShare, rows
  <2>2. RowsBacked'
    BY <1>15, <2>1, KeepBacked DEF CheckShare, rows
  <2>3. ASSUME NEW v, GotoWith(c, "share", v) PROVE HandlersBacked'
    <3>1. PICK k : k = [call[c] EXCEPT !.pc = "share", !.value = v]
      OBVIOUS
    <3>2. k.pc = "share" /\ k.proposal = call[c].proposal /\ k.snap = call[c].snap
      BY <1>0, <3>1 DEF Call
    <3>3. call' = [call EXCEPT ![c] = k]
      BY <2>3, <3>1 DEF GotoWith
    <3> QED
      BY <1>0, <2>1, <3>2, <3>3, MoveBacked
  <2> QED
    BY <1>0, <1>15, <2>1, <2>2, <2>3, DoneBacked DEF CheckShare
<1>16. CASE Share(c)
  BY <1>0, <1>16, QuietFacts, KeepBacked, DoneBacked DEF Share
<1> QED
  BY <1>1, <1>2, <1>3, <1>4, <1>5, <1>6, <1>7, <1>8, <1>9, <1>10, <1>11, <1>12, <1>13, <1>14, <1>15, <1>16
     DEF Continue

LEMMA StartBacked ==
  ASSUME BackedInv, NEW c \in Calls, Start(c)
  PROVE  AnswersCounted' /\ RowsBacked' /\ HandlersBacked'
<1>1. ASSUME NEW p \in Proposals, BeginCreate(c, p)
      PROVE  AnswersCounted' /\ RowsBacked' /\ HandlersBacked'
  <2>1. FactsStay /\ AnswersCounted' /\ RowsBacked'
    BY <1>1, QuietFacts, KeepBacked DEF BeginCreate, rows, BackedInv
  <2>2. PICK k : k = [IdleCall EXCEPT !.pc = "create", !.kind = "CREATE", !.proposal = p]
    OBVIOUS
  <2>3. k.pc = "create" /\ k.snap = "ABSENT"
    BY <2>2 DEF IdleCall
  <2>4. Carries(k)'
    BY <2>3 DEF Carries, Backed, Agreed, Met
  <2>5. call' = [call EXCEPT ![c] = k]
    BY <1>1, <2>2 DEF BeginCreate
  <2> QED
    BY <2>1, <2>4, <2>5, ReplaceBacked DEF BackedInv
<1>2. ASSUME NEW d \in Decisions, NEW s \in Sides, BeginConfirm(c, d, s)
      PROVE  AnswersCounted' /\ RowsBacked' /\ HandlersBacked'
  <2>1. decision[d].proposal \in Proposals
    BY DEF BackedInv, TypeInv, TypeOK, Decision
  <2> QED
    BY <1>2, <2>1, BeginBacked DEF BeginConfirm
<1>3. ASSUME NEW m \in Meetings, NEW who, NEW to, BeginMeeting(c, m, who, to)
      PROVE  AnswersCounted' /\ RowsBacked' /\ HandlersBacked'
  <2>1. meeting[m].proposal \in Proposals
    BY DEF BackedInv, TypeInv, TypeOK, MeetingRow
  <2>2. HasMeeting(meeting[m].proposal)
    BY <1>3 DEF BeginMeeting, HasMeeting
  <2> QED
    BY <1>3, <2>1, <2>2, BeginBacked DEF BeginMeeting
<1>4. ASSUME NEW p \in Proposals, NEW v \in PatchTargets, BeginPatch(c, p, v)
      PROVE  AnswersCounted' /\ RowsBacked' /\ HandlersBacked'
  BY <1>4, BeginBacked DEF BeginPatch
<1> QED
  BY <1>1, <1>2, <1>3, <1>4, BeginBacked DEF Start, BeginMeet, BeginShare, BeginRespond, BeginOnBehalf, BeginPermission

LEMMA BackedStep == BackedInv /\ [Next]_vars => BackedInv'
<1> SUFFICES ASSUME BackedInv, [Next]_vars
             PROVE  AnswersCounted' /\ RowsBacked' /\ HandlersBacked'
  BY NextType DEF BackedInv
<1>1. ASSUME NEW c \in Calls, Crash(c) PROVE AnswersCounted' /\ RowsBacked' /\ HandlersBacked'
  BY <1>1, QuietFacts, KeepBacked, DoneBacked DEF Crash, rows, BackedInv
<1>2. CASE \/ \E d \in Decisions, p \in Proposals, v \in Answers : Suggest(d, p, v)
           \/ \E d \in Decisions : CancelDecision(d)
           \/ \E x \in Profiles : RecordConsent(x)
           \/ UNCHANGED vars
  <2>1. UNCHANGED <<status, response, meeting, call, history>>
    BY <1>2 DEF Suggest, CancelDecision, RecordConsent, vars
  <2> QED
    BY <2>1 DEF BackedInv, AnswersCounted, RowsBacked, HandlersBacked, Carries, Backed, Wanted, Held, HasMeeting
<1> QED
  BY <1>1, <1>2, ContinueBacked, StartBacked DEF Next

LEMMA BackedInit == Init => BackedInv
<1> SUFFICES ASSUME Init PROVE AnswersCounted /\ RowsBacked /\ HandlersBacked
  BY InitType DEF BackedInv
<1>1. \A p \in Proposals : status[p] \in {"ABSENT", "BOTH_INTERESTED"}
                           /\ (status[p] = "BOTH_INTERESTED" => history[p].interested = Sides)
  BY ConstantsAssumption DEF Init, OpenAtInterest
<1>2. RowsBacked
  BY <1>1 DEF RowsBacked, Backed, Wanted, Met, Agreed
<1>3. AnswersCounted
  BY DEF Init, AnswersCounted
<1>4. Carries(IdleCall)
  BY DEF IdleCall, Carries, Backed, Agreed, Met
<1>5. \A c \in Calls : call[c] = IdleCall
  BY DEF Init
<1> QED
  BY <1>2, <1>3, <1>4, <1>5 DEF HandlersBacked

LEMMA BackedAlways == Spec => []BackedInv
BY BackedInit, BackedStep, PTL DEF Spec

(* As long as no administrator says so by hand, a proposal is never taken  *)
(* for wanted by both, and contact is never approved, before each side has *)
(* itself answered INTERESTED: proposal-workflow.ts:27-53, whatever old    *)
(* statuses answers, permissions and meetings write over one another.      *)
(* CONTACT_PERMISSION_PENDING is among the statuses not to be chosen,      *)
(* because permissions promote from it too (proposal-permissions.ts).      *)
THEOREM InterestIsBacked ==
  ASSUME Agreed \cap PatchTargets = {}
  PROVE  Spec => []InterestBacked
<1>1. BackedInv => InterestBacked
  BY DEF BackedInv, RowsBacked, Backed, Agreed, Wanted, InterestBacked
<1> QED
  BY <1>1, BackedAlways, PTL

(* As long as no administrator chooses a meeting status by hand, a         *)
(* proposal is in one only if it has a meeting, and in MEETING_COMPLETED   *)
(* only after staff marked a meeting of its own as held                    *)
(* (meeting-workflow.ts), also when an answer writes an old status back.   *)
THEOREM MeetingIsBacked ==
  ASSUME Met \cap PatchTargets = {}
  PROVE  Spec => []MeetingBacked
<1>1. BackedInv => MeetingBacked
  BY DEF BackedInv, RowsBacked, Backed, Met, HasMeeting, Held, MeetingBacked
<1> QED
  BY <1>1, BackedAlways, PTL

-----------------------------------------------------------------------------
(* No promotion is lost.  The handler whose write made the two permissions *)
(* stand together reads them afterwards; what it read of the status before *)
(* is not too old, since nothing brings a proposal back among those that   *)
(* wait for a permission.                                                  *)

AnswersSettled ==
  /\ Kinds \cap {"RESPOND", "ON_BEHALF", "CONFIRM", "CRASH"} = {}
  /\ PatchTargets \cap Promotes = {}

(* What handler k may be doing when no answer is in flight. *)
NotReopening(k) ==
  /\ k.pc \notin {"answer", "readAnswers", "setStatus"}
  /\ k.pc = "patch" => k.value \notin Promotes
  /\ k.pc \in {"permit", "readPermissions"} /\ status[k.proposal] \in Promotes => k.snap \in Promotes

NoneReopens == \A c \in Calls : NotReopening(call[c])

SomebodyPromotes ==
  \A p \in Proposals : bothApproved(permission[p]) /\ status[p] \in Promotes =>
    \E c \in Calls : call[c].proposal = p /\ call[c].pc \in {"readPermissions", "promote"}

PromotionInv == TypeInv /\ NoneReopens /\ SomebodyPromotes

(* A status is only ever replaced by one that does not wait for a          *)
(* permission.                                                             *)
NothingReopens == \A p \in Proposals : status'[p] = status[p] \/ status'[p] \notin Promotes

LEMMA ReplaceNoReopen ==
  ASSUME TypeInv, NoneReopens, NothingReopens, NEW c \in Calls, NEW k, k.proposal \in Proposals,
         call' = [call EXCEPT ![c] = k], NotReopening(k)
  PROVE  NoneReopens'
<1>1. \A d \in Calls : call[d].proposal \in Proposals /\ call'[d] = IF d = c THEN k ELSE call[d]
  BY DEF TypeInv, TypeOK, Call
<1>2. \A p \in Proposals : status'[p] \in Promotes => status[p] \in Promotes
  BY DEF NothingReopens
<1> QED
  BY <1>1, <1>2 DEF NoneReopens, NotReopening

LEMMA DoneNoReopen ==
  ASSUME TypeInv, NoneReopens, NothingReopens, NEW c \in Calls, Done(c)
  PROVE  NoneReopens'
<1>1. NotReopening(IdleCall) /\ IdleCall.proposal \in Proposals
  BY IdleFits DEF NotReopening, IdleCall
<1> QED
  BY <1>1, ReplaceNoReopen DEF Done

(* A handler that moves on keeps its snapshot. *)
LEMMA MoveNoReopen ==
  ASSUME TypeInv, NoneReopens, NothingReopens, NEW c \in Calls, NEW k,
         call' = [call EXCEPT ![c] = k], k.proposal = call[c].proposal, k.snap = call[c].snap,
         k.pc \notin {"answer", "readAnswers", "setStatus", "patch", "permit"},
         k.pc = "readPermissions" => call[c].pc = "permit"
  PROVE  NoneReopens'
<1>1. k.proposal \in Proposals
  BY DEF TypeInv, TypeOK, Call
<1>2. NotReopening(k)
  BY DEF NoneReopens, NotReopening
<1> QED
  BY <1>1, <1>2, ReplaceNoReopen

LEMMA GotoNoReopen ==
  ASSUME TypeInv, NoneReopens, NothingReopens, NEW c \in Calls, NEW pc, Goto(c, pc),
         pc \notin {"answer", "readAnswers", "setStatus", "patch", "permit"},
         pc = "readPermissions" => call[c].pc = "permit"
  PROVE  NoneReopens'
<1>1. PICK k : k = [call[c] EXCEPT !.pc = pc]
  OBVIOUS
<1>2. call[c] \in Call
  BY DEF TypeInv, TypeOK
<1>3. k.pc = pc /\ k.snap = call[c].snap /\ k.proposal = call[c].proposal
  BY <1>1, <1>2 DEF Call
<1>4. call' = [call EXCEPT ![c] = k]
  BY <1>1 DEF Goto
<1> QED
  BY <1>3, <1>4, MoveNoReopen

LEMMA CascadeNoReopen ==
  ASSUME TypeInv, NoneReopens, NothingReopens, NEW c \in Calls, NEW v, CascadeTo(c, v)
  PROVE  NoneReopens'
<1>1. PICK k : k = [call[c] EXCEPT !.pc = "cascade", !.value = v, !.todo = Sides]
  OBVIOUS
<1>2. call[c] \in Call
  BY DEF TypeInv, TypeOK
<1>3. k.pc = "cascade" /\ k.snap = call[c].snap /\ k.proposal = call[c].proposal
  BY <1>1, <1>2 DEF Call
<1>4. call' = [call EXCEPT ![c] = k]
  BY <1>1 DEF CascadeTo
<1> QED
  BY <1>3, <1>4, MoveNoReopen

(* A step of a handler that promotes nothing leaves every promotion with   *)
(* whoever has it.                                                         *)
LEMMA OthersPromote ==
  ASSUME TypeInv, SomebodyPromotes, NothingReopens, permission' = permission, NEW c \in Calls,
         call[c].pc \notin {"readPermissions", "promote"}, \A d \in Calls \ {c} : call'[d] = call[d]
  PROVE  SomebodyPromotes'
<1>1. ASSUME NEW p \in Proposals, bothApproved(permission'[p]), status'[p] \in Promotes
      PROVE  \E d \in Calls : call'[d].proposal = p /\ call'[d].pc \in {"readPermissions", "promote"}
  <2>1. bothApproved(permission[p]) /\ status[p] \in Promotes
    BY <1>1 DEF NothingReopens
  <2>2. PICK d \in Calls : call[d].proposal = p /\ call[d].pc \in {"readPermissions", "promote"}
    BY <2>1 DEF SomebodyPromotes
  <2> QED
    BY <2>2
<1> QED
  BY <1>1 DEF SomebodyPromotes, bothApproved, isApproved

LEMMA ContinuePromotes ==
  ASSUME PromotionInv, NEW c \in Calls, Continue(c)
  PROVE  NoneReopens' /\ SomebodyPromotes'
<1>0. TypeInv /\ TypeOK /\ NoneReopens /\ SomebodyPromotes /\ NotReopening(call[c])
      /\ call[c] \in Call /\ call[c].proposal \in Proposals /\ call[c].side \in Sides
  BY DEF PromotionInv, NoneReopens, TypeInv, TypeOK, Call
<1>s. ASSUME NEW v, SetStatus(call[c].proposal, v), v \notin Promotes PROVE NothingReopens
  BY <1>0, <1>s DEF SetStatus, NothingReopens, TypeOK
<1>u. ASSUME status' = status PROVE NothingReopens
  BY <1>u DEF NothingReopens
<1>a. ASSUME NEW k, call' = [call EXCEPT ![c] = k] PROVE \A d \in Calls \ {c} : call'[d] = call[d]
  BY <1>0, <1>a DEF TypeOK
<1>d. Done(c) => \A d \in Calls \ {c} : call'[d] = call[d]
  BY <1>a DEF Done
<1>g. ASSUME NEW pc, Goto(c, pc)
      PROVE  /\ \A d \in Calls \ {c} : call'[d] = call[d]
             /\ call'[c].pc = pc /\ call'[c].proposal = call[c].proposal
  BY <1>0, <1>g DEF Goto, TypeOK, Call
<1>c. ASSUME NEW v, CascadeTo(c, v) PROVE \A d \in Calls \ {c} : call'[d] = call[d]
  BY <1>0, <1>c DEF CascadeTo, TypeOK
<1>1. CASE Create(c)
  <2>1. NothingReopens
    BY <1>1, <1>s DEF Create, Promotes
  <2> QED
    BY <1>0, <1>1, <1>c, <2>1, CascadeNoReopen, OthersPromote DEF Create, At
<1>2. ASSUME NEW s \in Sides, Cascade(c, s)
      PROVE  NoneReopens' /\ SomebodyPromotes'
  <2>1. NothingReopens
    BY <1>2, <1>u DEF Cascade
  <2>2. ASSUME Done(c) PROVE NoneReopens' /\ \A d \in Calls \ {c} : call'[d] = call[d]
    BY <1>0, <1>d, <2>1, <2>2, DoneNoReopen
  <2>3. ASSUME call' = [call EXCEPT ![c].todo = call[c].todo \ {s}]
        PROVE  NoneReopens' /\ \A d \in Calls \ {c} : call'[d] = call[d]
    <3>1. PICK k : k = [call[c] EXCEPT !.todo = call[c].todo \ {s}]
      OBVIOUS
    <3>2. k.pc = "cascade" /\ k.proposal = call[c].proposal /\ k.snap = call[c].snap
      BY <1>0, <1>2, <3>1 DEF Call, Cascade, At
    <3>3. call' = [call EXCEPT ![c] = k]
      BY <2>3, <3>1
    <3> QED
      BY <1>0, <1>a, <2>1, <3>2, <3>3, MoveNoReopen
  <2>4. NoneReopens' /\ \A d \in Calls \ {c} : call'[d] = call[d]
    BY <1>2, <2>2, <2>3 DEF Cascade
  <2> QED
    BY <1>0, <1>2, <2>1, <2>4, OthersPromote DEF Cascade, At
<1>3. CASE UpsertResponse(c) \/ ReadResponses(c) \/ WriteResponseStatus(c)
  BY <1>0, <1>3 DEF NotReopening, UpsertResponse, ReadResponses, WriteResponseStatus, At
<1>6. CASE MarkConfirmed(c)
  <2>1. NothingReopens
    BY <1>6, <1>u DEF MarkConfirmed
  <2> QED
    BY <1>0, <1>6, <1>d, <2>1, DoneNoReopen, OthersPromote DEF MarkConfirmed, At
<1>7. CASE WritePermission(c)
  <2>1. NothingReopens
    BY <1>7, <1>u DEF WritePermission
  <2>2. NoneReopens'
    BY <1>0, <1>7, <2>1, GotoNoReopen DEF WritePermission, At
  <2>3. call'[c].pc = "readPermissions" /\ call'[c].proposal = call[c].proposal
        /\ \A d \in Calls \ {c} : call'[d] = call[d]
    BY <1>7, <1>g DEF WritePermission
  <2>4. ASSUME NEW p \in Proposals, bothApproved(permission'[p]), status'[p] \in Promotes
        PROVE  \E d \in Calls : call'[d].proposal = p /\ call'[d].pc \in {"readPermissions", "promote"}
    <3>1. CASE p = call[c].proposal
      BY <2>3, <3>1
    <3>2. CASE p # call[c].proposal
      <4>1. permission'[p] = permission[p] /\ status'[p] = status[p]
        BY <1>0, <1>7, <3>2 DEF WritePermission, TypeOK
      <4>2. PICK d \in Calls : call[d].proposal = p /\ call[d].pc \in {"readPermissions", "promote"}
        BY <1>0, <2>4, <4>1 DEF SomebodyPromotes
      <4> QED
        BY <2>3, <3>2, <4>2
    <3> QED
      BY <3>1, <3>2
  <2> QED
    BY <2>2, <2>4 DEF SomebodyPromotes, bothApproved, isApproved
<1>8. CASE ReadPermissions(c)
  <2>1. NothingReopens
    BY <1>8, <1>u DEF ReadPermissions, rows
  <2>2. NoneReopens'
    BY <1>0, <1>8, <2>1, GotoNoReopen, DoneNoReopen DEF ReadPermissions
  <2>3. ASSUME NEW p \in Proposals, bothApproved(permission[p]), status[p] \in Promotes
        PROVE  \E d \in Calls : call'[d].proposal = p /\ call'[d].pc \in {"readPermissions", "promote"}
    <3>1. PICK d \in Calls : call[d].proposal = p /\ call[d].pc \in {"readPermissions", "promote"}
      BY <1>0, <2>3 DEF SomebodyPromotes
    <3>2. \A e \in Calls \ {c} : call'[e] = call[e]
      BY <1>8, <1>d, <1>g DEF ReadPermissions
    <3>3. CASE d # c
      BY <3>1, <3>2, <3>3
    <3>4. CASE d = c
      <4>1. call[c].snap \in Promotes
        BY <1>0, <1>8, <2>3, <3>1, <3>4 DEF NotReopening, ReadPermissions, At
      <4>2. Goto(c, "promote")
        BY <1>8, <2>3, <3>1, <3>4, <4>1 DEF ReadPermissions
      <4> QED
        BY <1>g, <3>1, <3>4, <4>2
    <3> QED
      BY <3>3, <3>4
  <2>4. permission' = permission /\ status' = status
    BY <1>8 DEF ReadPermissions, rows
  <2> QED
    BY <2>2, <2>3, <2>4 DEF SomebodyPromotes, bothApproved, isApproved
<1>9. CASE Promote(c)
  <2>1. NothingReopens
    BY <1>9, <1>s DEF Promote, Promotes
  <2>2. NoneReopens'
    BY <1>0, <1>9, <2>1, DoneNoReopen DEF Promote
  <2>3. ASSUME NEW p \in Proposals, bothApproved(permission'[p]), status'[p] \in Promotes
        PROVE  \E d \in Calls : call'[d].proposal = p /\ call'[d].pc \in {"readPermissions", "promote"}
    <3>1. p # call[c].proposal /\ permission'[p] = permission[p] /\ status'[p] = status[p]
      BY <1>0, <1>9, <2>3 DEF Promote, SetStatus, TypeOK, Promotes
    <3>2. PICK d \in Calls : call[d].proposal = p /\ call[d].pc \in {"readPermissions", "promote"}
      BY <1>0, <2>3, <3>1 DEF SomebodyPromotes
    <3> QED
      BY <1>9, <1>d, <3>1, <3>2 DEF Promote
  <2> QED
    BY <2>2, <2>3 DEF SomebodyPromotes, bothApproved, isApproved
<1>10. ASSUME NEW m \in Meetings, CreateMeeting(c, m)
       PROVE  NoneReopens' /\ SomebodyPromotes'
  <2>1. NothingReopens
    BY <1>10, <1>u DEF CreateMeeting
  <2> QED
    BY <1>0, <1>10, <1>d, <1>g, <2>1, DoneNoReopen, GotoNoReopen, OthersPromote DEF CreateMeeting, At
<1>11. CASE MarkScheduled(c)
  <2>1. NothingReopens
    BY <1>11, <1>s DEF MarkScheduled, Promotes
  <2> QED
    BY <1>0, <1>11, <1>d, <2>1, DoneNoReopen, OthersPromote DEF MarkScheduled, At
<1>12. CASE MoveMeeting(c)
  <2>1. NothingReopens
    BY <1>12, <1>u DEF MoveMeeting
  <2> QED
    BY <1>0, <1>12, <1>d, <1>g, <2>1, DoneNoReopen, GotoNoReopen, OthersPromote DEF MoveMeeting, At
<1>13. CASE MarkCompleted(c)
  <2>1. NothingReopens
    BY <1>13, <1>s DEF MarkCompleted, Promotes
  <2> QED
    BY <1>0, <1>13, <1>d, <2>1, DoneNoReopen, OthersPromote DEF MarkCompleted, At
<1>14. CASE Patch(c)
  <2>1. call[c].value \notin Promotes
    BY <1>0, <1>14 DEF Patch, At, NotReopening
  <2>2. NothingReopens
    BY <1>14, <1>s, <2>1 DEF Patch
  <2>3. Done(c) \/ CascadeTo(c, call[c].value)
    BY <1>14 DEF Patch
  <2>4. NoneReopens'
    BY <1>0, <2>2, <2>3, DoneNoReopen, CascadeNoReopen
  <2> QED
    BY <1>0, <1>14, <1>c, <1>d, <2>2, <2>3, <2>4, OthersPromote DEF Patch, At
<1>15. CASE CheckShare(c)
  <2>1. NothingReopens
    BY <1>15, <1>u DEF CheckShare, rows
  <2>2. ASSUME NEW v, GotoWith(c, "share", v) PROVE NoneReopens' /\ \A d \in Calls \ {c} : call'[d] = call[d]
    <3>1. PICK k : k = [call[c] EXCEPT !.pc = "share", !.value = v]
      OBVIOUS
    <3>2. k.pc = "share" /\ k.proposal = call[c].proposal /\ k.snap = call[c].snap
      BY <1>0, <3>1 DEF Call
    <3>3. call' = [call EXCEPT ![c] = k]
      BY <2>2, <3>1 DEF GotoWith
    <3> QED
      BY <1>0, <1>a, <2>1, <3>2, <3>3, MoveNoReopen
  <2>3. NoneReopens' /\ \A d \in Calls \ {c} : call'[d] = call[d]
    BY <1>0, <1>15, <1>d, <2>1, <2>2, DoneNoReopen DEF CheckShare
  <2> QED
    BY <1>0, <1>15, <2>1, <2>3, OthersPromote DEF CheckShare, rows, At
<1>16. CASE Share(c)
  <2>1. NothingReopens
    BY <1>16, <1>u DEF Share
  <2> QED
    BY <1>0, <1>16, <1>d, <2>1, DoneNoReopen, OthersPromote DEF Share, At
<1> QED
  BY <1>1, <1>2, <1>3, <1>6, <1>7, <1>8, <1>9, <1>10, <1>11, <1>12, <1>13, <1>14, <1>15, <1>16
     DEF Continue

LEMMA StartPromotes ==
  ASSUME AnswersSettled, PromotionInv, NEW c \in Calls, Start(c)
  PROVE  NoneReopens' /\ SomebodyPromotes'
<1>0. TypeInv /\ TypeOK /\ NoneReopens /\ SomebodyPromotes
  BY DEF PromotionInv, TypeInv
<1>1. ASSUME NEW k, k.proposal \in Proposals, NotReopening(k), At(c, "idle"), call' = [call EXCEPT ![c] = k],
             UNCHANGED rows
      PROVE  NoneReopens' /\ SomebodyPromotes'
  <2>1. NothingReopens
    BY <1>1 DEF NothingReopens, rows
  <2>2. \A d \in Calls \ {c} : call'[d] = call[d]
    BY <1>0, <1>1 DEF TypeOK
  <2> QED
    BY <1>0, <1>1, <2>1, <2>2, ReplaceNoReopen, OthersPromote DEF At, rows
<1>2. ASSUME NEW kind, NEW p \in Proposals, NEW s, NEW v, NEW i, NEW pc, Begin(c, kind, p, s, v, i, pc),
             pc \notin {"answer", "readAnswers", "setStatus", "readPermissions"}, pc = "patch" => v \in PatchTargets
      PROVE  NoneReopens' /\ SomebodyPromotes'
  <2>1. PICK k : k = [pc |-> pc, kind |-> kind, proposal |-> p, side |-> s, value |-> v,
                      snap |-> status[p], todo |-> {}, item |-> i]
    OBVIOUS
  <2>2. k.pc = pc /\ k.proposal = p /\ k.snap = status[p] /\ k.value = v
    BY <2>1
  <2>3. NotReopening(k)
    BY <1>2, <2>2 DEF NotReopening, AnswersSettled
  <2>4. At(c, "idle") /\ call' = [call EXCEPT ![c] = k] /\ UNCHANGED rows
    BY <1>2, <2>1 DEF Begin
  <2> QED
    BY <1>1, <2>2, <2>3, <2>4
<1>3. ASSUME NEW p \in Proposals, BeginCreate(c, p) PROVE NoneReopens' /\ SomebodyPromotes'
  <2>1. PICK k : k = [IdleCall EXCEPT !.pc = "create", !.kind = "CREATE", !.proposal = p]
    OBVIOUS
  <2>2. k.pc = "create" /\ k.proposal = p
    BY <2>1 DEF IdleCall
  <2>3. NotReopening(k)
    BY <2>2 DEF NotReopening
  <2>4. At(c, "idle") /\ call' = [call EXCEPT ![c] = k] /\ UNCHANGED rows
    BY <1>3, <2>1 DEF BeginCreate
  <2> QED
    BY <1>1, <2>2, <2>3, <2>4
<1>4. ASSUME NEW p \in Proposals, NEW s \in Sides, NEW v \in Answers, BeginRespond(c, p, s, v) \/ BeginOnBehalf(c, p, s, v)
      PROVE  FALSE
  BY <1>4 DEF BeginRespond, BeginOnBehalf, Begin, AnswersSettled
<1>5. ASSUME NEW d \in Decisions, NEW s \in Sides, BeginConfirm(c, d, s) PROVE FALSE
  BY <1>5 DEF BeginConfirm, Begin, AnswersSettled
<1>6. ASSUME NEW m \in Meetings, NEW who, NEW to, BeginMeeting(c, m, who, to)
      PROVE  NoneReopens' /\ SomebodyPromotes'
  <2>1. meeting[m].proposal \in Proposals
    BY <1>0 DEF TypeOK, MeetingRow
  <2> QED
    BY <1>2, <1>6, <2>1 DEF BeginMeeting
<1>7. ASSUME NEW p \in Proposals, NEW v \in PatchTargets, BeginPatch(c, p, v)
      PROVE  NoneReopens' /\ SomebodyPromotes'
  BY <1>2, <1>7 DEF BeginPatch
<1> QED
  BY <1>2, <1>3, <1>4, <1>5, <1>6, <1>7 DEF Start, BeginMeet, BeginShare, BeginPermission

LEMMA PromotionStep ==
  ASSUME AnswersSettled
  PROVE  PromotionInv /\ [Next]_vars => PromotionInv'
<1> SUFFICES ASSUME PromotionInv, [Next]_vars PROVE NoneReopens' /\ SomebodyPromotes'
  BY NextType DEF PromotionInv
<1>1. ASSUME NEW c \in Calls, Crash(c) PROVE FALSE
  BY <1>1 DEF Crash, AnswersSettled
<1>2. CASE \/ \E d \in Decisions, p \in Proposals, v \in Answers : Suggest(d, p, v)
           \/ \E d \in Decisions : CancelDecision(d)
           \/ \E x \in Profiles : RecordConsent(x)
           \/ UNCHANGED vars
  <2>1. UNCHANGED <<status, permission, call>>
    BY <1>2 DEF Suggest, CancelDecision, RecordConsent, vars
  <2> QED
    BY <2>1 DEF PromotionInv, NoneReopens, NotReopening, SomebodyPromotes, bothApproved, isApproved
<1> QED
  BY <1>1, <1>2, ContinuePromotes, StartPromotes DEF Next

(* Two sides that grant their permission at the same time do not miss each *)
(* other (proposal-permissions.ts:55-107): when the handlers of a proposal  *)
(* are done and both its permissions stand, it no longer waits for them,   *)
(* for any number of requests, approvals, revocations, meetings and status *)
(* changes at once.  Not if an answer is in flight, which writes an old    *)
(* status back, nor if a handler is killed before its promotion.           *)
THEOREM PromotionNotLost ==
  ASSUME AnswersSettled
  PROVE  Spec => []NoLostPromotion
<1>1. Init => PromotionInv
  <2> SUFFICES ASSUME Init PROVE NoneReopens /\ SomebodyPromotes
    BY InitType DEF PromotionInv
  <2>1. NotReopening(IdleCall) /\ \A c \in Calls : call[c] = IdleCall
    BY DEF Init, IdleCall, NotReopening
  <2>2. \A p \in Proposals : ~bothApproved(permission[p])
    BY DEF Init, bothApproved, isApproved, Sides
  <2> QED
    BY <2>1, <2>2 DEF NoneReopens, SomebodyPromotes
<1>2. PromotionInv /\ [Next]_vars => PromotionInv'
  BY PromotionStep
<1>3. PromotionInv => NoLostPromotion
  BY DEF PromotionInv, SomebodyPromotes, NoLostPromotion, Quiet, At
<1> QED
  BY <1>1, <1>2, <1>3, PTL DEF Spec
=============================================================================
