-------------------------- MODULE ProposalLifecycle --------------------------
(***************************************************************************)
(* Proposals between two profiles: the answers of the two sides, their     *)
(* contact permissions, the meetings, the family's suggestions, the        *)
(* administrator's status changes and the sharing of contact details.      *)
(*                                                                         *)
(* As in ApprovalEngine a handler is a "call" and every action is one      *)
(* prisma call of it.  Nothing here is versioned: a handler reads the      *)
(* proposal once, into call[c].snap, decides on that snapshot and writes   *)
(* the status without looking at it again.  A handler that answers an      *)
(* error leaves every row as it is, so restriction checks, permissions of  *)
(* the caller and the approval gate (ApprovalEngine) only ever remove a    *)
(* Begin step or the rest of a call.                                       *)
(*                                                                         *)
(* "history" records what happened; no action reads it except to update    *)
(* it.                                                                     *)
(***************************************************************************)
EXTENDS Naturals, FiniteSets

CONSTANTS
  Proposals,     \* Proposal ids
  Profiles,      \* Profile ids
  ProfileOf,     \* [Proposals -> [Sides -> Profiles]]
  Opening,       \* [Proposals -> where each proposal is when the behaviour starts]
  Meetings,      \* bound: Meeting ids
  Decisions,     \* bound: FamilyDecision ids
  Calls,         \* handler invocations that may be in flight together
  Kinds,         \* the operations in play
  PatchTargets   \* the statuses administrators choose

Sides == {"A", "B"}

AllKinds == {"CREATE", "RESPOND", "ON_BEHALF", "SUGGEST", "CONFIRM", "CANCEL", "REQUEST", "APPROVE", "REVOKE",
             "MEET", "MEETING", "PATCH", "SHARE", "OVERRIDE", "CONSENT", "CRASH"}

Answers == {"INTERESTED", "NOT_INTERESTED", "NEED_MORE_INFO"}

Waiting  == {"WAITING_FOR_PROFILE_A", "WAITING_FOR_PROFILE_B", "BOTH_REVIEWING",
             "PROFILE_A_INTERESTED", "PROFILE_B_INTERESTED"}
Promotes == {"BOTH_INTERESTED", "CONTACT_PERMISSION_PENDING"}
Contact  == {"CONTACT_APPROVED", "FAMILIES_CONTACTED", "MEETING_REQUESTED", "MEETING_SCHEDULED",
             "MEETING_COMPLETED", "FURTHER_DISCUSSION"}
Paused   == {"DRAFT", "ON_HOLD", "ACCEPTED"}
Ended    == {"REJECTED", "CLOSED", "ARCHIVED", "FINALIZED", "MARRIED"}
Statuses == {"PROPOSAL_CREATED"} \cup Waiting \cup Promotes \cup Contact \cup Paused \cup Ended

ResponseOpen          == {"PROPOSAL_CREATED"} \cup Waiting \cup Promotes   \* RESPONSE_OPEN_STATUSES
ContactPermissionOpen == Promotes \cup Contact                             \* CONTACT_PERMISSION_OPEN_STATUSES
SelectableStatuses    == Statuses

MeetingStatuses == {"REQUESTED", "SCHEDULED", "CONFIRMED", "COMPLETED", "RESCHEDULED", "CANCELLED"}

ASSUME ConstantsAssumption ==
  /\ Proposals # {}
  /\ ProfileOf \in [Proposals -> [Sides -> Profiles]]
  /\ Opening \in [Proposals -> {"ABSENT", "BOTH_INTERESTED"}]
  /\ Kinds \subseteq AllKinds
  /\ PatchTargets \subseteq SelectableStatuses

-----------------------------------------------------------------------------
VARIABLES
  status,       \* [Proposals -> Proposal.status], "ABSENT" before the row exists
  response,     \* [Proposals -> [Sides -> ProposalResponse.response]], "NONE" where no row exists
  permission,   \* [Proposals -> [Sides -> ContactPermission]]: the row, approvedAt set, revokedAt set
  meeting,      \* [Meetings -> the Meeting row]
  decision,     \* [Decisions -> the FamilyDecision row]
  profile,      \* [Profiles -> Profile.status]
  withdrawn,    \* profiles whose CONTACT_SHARING consent is REVOKED
  shared,       \* [Proposals -> the access levels of its ContactShareLog rows]
  call,         \* [Calls -> the state of the handler]
  history       \* see above

vars == <<status, response, permission, meeting, decision, profile, withdrawn, shared, call, history>>
rows == <<status, response, permission, meeting, decision, profile, withdrawn, shared, history>>

Permission    == [row: BOOLEAN, approved: BOOLEAN, revoked: BOOLEAN]
MeetingRow    == [proposal: Proposals, status: {"NONE"} \cup MeetingStatuses]
Decision      == [proposal: Proposals, value: Answers,
                  status: {"NONE", "APPLICANT_CONFIRMATION_REQUIRED", "CONFIRMED", "CANCELLED"}]
ProfileStatus == {"ACTIVE", "MATCHING", "FINALIZED", "MARRIED"}
Levels        == {"PROPOSAL_APPROVED", "FAMILY_CONTACT_APPROVED"}
Words         == {"NONE", "GRANTED", "REVOKED"}

PCs == {"idle", "create", "answer", "readAnswers", "setStatus", "decided", "permit", "readPermissions", "promote",
        "meet", "schedule", "moveMeeting", "complete", "patch", "cascade", "grantCheck", "share"}
Values == {"NONE"} \cup Answers \cup Statuses \cup MeetingStatuses \cup Levels
Call == [pc: PCs, kind: AllKinds \cup {"NONE"}, proposal: Proposals, side: Sides, value: Values,
         snap: {"ABSENT"} \cup Statuses, todo: SUBSET Sides, item: Meetings \cup Decisions \cup {"NONE"}]

AnyProposal == CHOOSE p \in Proposals : TRUE
IdleCall == [pc |-> "idle", kind |-> "NONE", proposal |-> AnyProposal, side |-> "A", value |-> "NONE",
             snap |-> "ABSENT", todo |-> {}, item |-> "NONE"]

OpenAtInterest(p) == Opening[p] = "BOTH_INTERESTED"

(* A proposal is not yet created, or both its sides have answered that     *)
(* they are interested.                                                    *)
Init ==
  /\ status = Opening
  /\ response = [p \in Proposals |-> [s \in Sides |-> IF OpenAtInterest(p) THEN "INTERESTED" ELSE "NONE"]]
  /\ permission = [p \in Proposals |-> [s \in Sides |-> [row |-> FALSE, approved |-> FALSE, revoked |-> FALSE]]]
  /\ meeting = [m \in Meetings |-> [proposal |-> AnyProposal, status |-> "NONE"]]
  /\ decision = [d \in Decisions |-> [proposal |-> AnyProposal, value |-> "INTERESTED", status |-> "NONE"]]
  /\ profile = [x \in Profiles |->
                  IF \E p \in Proposals, s \in Sides : Opening[p] # "ABSENT" /\ ProfileOf[p][s] = x
                    THEN "MATCHING" ELSE "ACTIVE"]
  /\ withdrawn = {}
  /\ shared = [p \in Proposals |-> {}]
  /\ call = [c \in Calls |-> IdleCall]
  /\ history = [p \in Proposals |->
                  [interested |-> IF OpenAtInterest(p) THEN Sides ELSE {},
                   word |-> [s \in Sides |-> "NONE"], mutual |-> FALSE, held |-> FALSE]]

-----------------------------------------------------------------------------
(* What a handler does to its own state; what it no longer needs is        *)
(* forgotten.                                                              *)

At(c, pc)      == call[c].pc = pc
Goto(c, pc)    == call' = [call EXCEPT ![c].pc = pc]
GotoWith(c, pc, v) == call' = [call EXCEPT ![c].pc = pc, ![c].value = v]
Done(c)        == call' = [call EXCEPT ![c] = IdleCall]

(* A handler reads the proposal and goes on at pc. *)
Begin(c, kind, p, s, v, i, pc) ==
  /\ At(c, "idle")
  /\ kind \in Kinds
  /\ status[p] # "ABSENT"
  /\ call' = [call EXCEPT ![c] = [pc |-> pc, kind |-> kind, proposal |-> p, side |-> s, value |-> v,
                                  snap |-> status[p], todo |-> {}, item |-> i]]
  /\ UNCHANGED rows

SetStatus(p, s) == status' = [status EXCEPT ![p] = s]

-----------------------------------------------------------------------------
(* POST admin/proposals: the row, then both profiles at once *)

BeginCreate(c, p) ==
  /\ At(c, "idle")
  /\ "CREATE" \in Kinds
  /\ status[p] = "ABSENT" /\ \A d \in Calls : ~(At(d, "create") /\ call[d].proposal = p)
  /\ call' = [call EXCEPT ![c] = [IdleCall EXCEPT !.pc = "create", !.kind = "CREATE", !.proposal = p]]
  /\ UNCHANGED rows

CascadeTo(c, v) == call' = [call EXCEPT ![c].pc = "cascade", ![c].value = v, ![c].todo = Sides]

Create(c) ==
  /\ At(c, "create")
  /\ SetStatus(call[c].proposal, "PROPOSAL_CREATED")
  /\ CascadeTo(c, "PROPOSAL_CREATED")
  /\ UNCHANGED <<response, permission, meeting, decision, profile, withdrawn, shared, history>>

(* Mutant: the profiles are given the status of the proposal. *)
SameStatus(v) == v

ProfileStatusOn(v) ==
  CASE v = "PROPOSAL_CREATED" -> "MATCHING" [] v \in {"REJECTED", "ARCHIVED"} -> "ACTIVE" [] OTHER -> v

(* Promise.all: the two profile updates happen in either order. *)
Cascade(c, s) ==
  LET rest == call[c].todo \ {s}
  IN  /\ At(c, "cascade") /\ s \in call[c].todo
      /\ profile' = [profile EXCEPT ![ProfileOf[call[c].proposal][s]] = ProfileStatusOn(call[c].value)]
      /\ IF rest = {} THEN Done(c) ELSE call' = [call EXCEPT ![c].todo = rest]
      /\ UNCHANGED <<status, response, permission, meeting, decision, withdrawn, shared, history>>

-----------------------------------------------------------------------------
(* Answers: proposal-workflow.ts, proposal-response.ts, admin responses *)

(* Mutant: one interested side is enough. *)
EitherInterested(current, a, b) ==
  CASE a = "NOT_INTERESTED" \/ b = "NOT_INTERESTED" -> "REJECTED"
    [] a = "INTERESTED" \/ b = "INTERESTED"         -> "BOTH_INTERESTED"
    [] OTHER                                        -> current

nextProposalStatus(current, a, b) ==
  CASE a = "NOT_INTERESTED" \/ b = "NOT_INTERESTED"      -> "REJECTED"
    [] a = "INTERESTED"     /\ b = "INTERESTED"          -> "BOTH_INTERESTED"
    [] a = "INTERESTED"     /\ b = "NONE"                -> "WAITING_FOR_PROFILE_B"
    [] a = "NONE"           /\ b = "INTERESTED"          -> "WAITING_FOR_PROFILE_A"
    [] a = "INTERESTED"     /\ b = "NEED_MORE_INFO"      -> "PROFILE_A_INTERESTED"
    [] a = "NEED_MORE_INFO" /\ b = "INTERESTED"          -> "PROFILE_B_INTERESTED"
    [] a = "NONE"           /\ b = "NONE"                -> current
    [] OTHER                                             -> "BOTH_REVIEWING"

statusAfterResponse(current, a, b) ==
  LET next == nextProposalStatus(current, a, b)
  IN  IF current \in Promotes /\ next # "REJECTED" THEN current ELSE next

isResponseOpen(s) == s \in ResponseOpen

(* The applicant answers. *)
BeginRespond(c, p, s, v) == isResponseOpen(status[p]) /\ Begin(c, "RESPOND", p, s, v, "NONE", "answer")

(* An administrator records an answer; there is no check of the status. *)
BeginOnBehalf(c, p, s, v) == Begin(c, "ON_BEHALF", p, s, v, "NONE", "answer")

(* An applicant confirms a family's suggestion (confirmFamilyDecision): it *)
(* is looked up by its proposal only, so either party may, and it becomes  *)
(* the answer of the one who confirms.                                     *)
BeginConfirm(c, d, s) ==
  /\ decision[d].status = "APPLICANT_CONFIRMATION_REQUIRED"
  /\ isResponseOpen(status[decision[d].proposal])
  /\ Begin(c, "CONFIRM", decision[d].proposal, s, decision[d].value, d, "answer")

UpsertResponse(c) ==
  LET p == call[c].proposal  s == call[c].side
  IN  /\ At(c, "answer")
      /\ response' = [response EXCEPT ![p][s] = call[c].value]
      /\ history' = IF call[c].value = "INTERESTED" THEN [history EXCEPT ![p].interested = @ \cup {s}] ELSE history
      /\ call' = [call EXCEPT ![c] = [@ EXCEPT !.pc = "readAnswers", !.side = "A", !.value = "NONE"]]
      /\ UNCHANGED <<status, permission, meeting, decision, profile, withdrawn, shared>>

(* Both rows are read after the handler's own write, the status is the one *)
(* read before it.                                                         *)
ReadResponses(c) ==
  LET p == call[c].proposal
      next == IF call[c].kind = "ON_BEHALF" THEN nextProposalStatus(call[c].snap, response[p]["A"], response[p]["B"])
              ELSE statusAfterResponse(call[c].snap, response[p]["A"], response[p]["B"])
  IN  /\ At(c, "readAnswers")
      /\ call' = [call EXCEPT ![c] = [@ EXCEPT !.pc = "setStatus", !.value = next, !.snap = "ABSENT"]]
      /\ UNCHANGED rows

WriteResponseStatus(c) ==
  /\ At(c, "setStatus")
  /\ SetStatus(call[c].proposal, call[c].value)
  /\ IF call[c].kind = "CONFIRM" THEN Goto(c, "decided") ELSE Done(c)
  /\ UNCHANGED <<response, permission, meeting, decision, profile, withdrawn, shared, history>>

MarkConfirmed(c) ==
  /\ At(c, "decided")
  /\ decision' = [decision EXCEPT ![call[c].item].status = "CONFIRMED"]
  /\ Done(c)
  /\ UNCHANGED <<status, response, permission, meeting, profile, withdrawn, shared, history>>

(* suggestProposalResponse: one create. *)
Suggest(d, p, v) ==
  /\ "SUGGEST" \in Kinds
  /\ status[p] # "ABSENT" /\ decision[d].status = "NONE"
  /\ decision' = [decision EXCEPT ![d] = [proposal |-> p, value |-> v, status |-> "APPLICANT_CONFIRMATION_REQUIRED"]]
  /\ UNCHANGED <<status, response, permission, meeting, profile, withdrawn, shared, call, history>>

(* cancelFamilyDecision: one conditional update. *)
CancelDecision(d) ==
  /\ "CANCEL" \in Kinds
  /\ decision[d].status = "APPLICANT_CONFIRMATION_REQUIRED"
  /\ decision' = [decision EXCEPT ![d].status = "CANCELLED"]
  /\ UNCHANGED <<status, response, permission, meeting, profile, withdrawn, shared, call, history>>

-----------------------------------------------------------------------------
(* applyContactPermissionAction *)

BeginPermission(c, kind, p, s) ==
  /\ kind \in {"REQUEST", "APPROVE", "REVOKE"}
  /\ kind # "REVOKE" => status[p] \in ContactPermissionOpen
  /\ Begin(c, kind, p, s, "NONE", "NONE", "permit")

Permitted(kind, row) ==
  CASE kind = "REQUEST" -> [row EXCEPT !.row = TRUE, !.revoked = FALSE]
    [] kind = "APPROVE" -> [row |-> TRUE, approved |-> TRUE, revoked |-> FALSE]
    [] OTHER            -> [row EXCEPT !.revoked = row.row]

(* Mutant: a revocation is not looked at. *)
ApprovedOnce(row) == row.approved

isApproved(row)    == row.approved /\ ~row.revoked
bothApproved(both) == \A s \in Sides : isApproved(both[s])

(* For "history": both permissions stand. *)
Standing(both) == \A s \in Sides : both[s].approved /\ ~both[s].revoked

Word(kind, before) == CASE kind = "APPROVE" -> "GRANTED" [] kind = "REVOKE" -> "REVOKED" [] OTHER -> before

WritePermission(c) ==
  LET p == call[c].proposal  s == call[c].side
  IN  /\ At(c, "permit")
      /\ permission' = [permission EXCEPT ![p][s] = Permitted(call[c].kind, @)]
      /\ history' = [history EXCEPT ![p].word[s] = Word(call[c].kind, @),
                                    ![p].mutual = @ \/ Standing(permission'[p])]
      /\ Goto(c, "readPermissions")
      /\ UNCHANGED <<status, response, meeting, decision, profile, withdrawn, shared>>

(* Mutant: a permission granted before it was asked for promotes nothing. *)
PromotePendingOnly(c) ==
  /\ At(c, "readPermissions")
  /\ IF bothApproved(permission[call[c].proposal]) /\ call[c].snap = "CONTACT_PERMISSION_PENDING"
       THEN Goto(c, "promote") ELSE Done(c)
  /\ UNCHANGED rows

ReadPermissions(c) ==
  /\ At(c, "readPermissions")
  /\ IF bothApproved(permission[call[c].proposal]) /\ call[c].snap \in Promotes THEN Goto(c, "promote") ELSE Done(c)
  /\ UNCHANGED rows

Promote(c) ==
  /\ At(c, "promote")
  /\ SetStatus(call[c].proposal, "CONTACT_APPROVED")
  /\ Done(c)
  /\ UNCHANGED <<response, permission, meeting, decision, profile, withdrawn, shared, history>>

-----------------------------------------------------------------------------
(* Meetings: the create route and applyMeetingUpdate *)

BeginMeet(c, p) == Begin(c, "MEET", p, "A", "NONE", "NONE", "meet")

CreateMeeting(c, m) ==
  /\ At(c, "meet")
  /\ meeting[m].status = "NONE"
  /\ meeting' = [meeting EXCEPT ![m] = [proposal |-> call[c].proposal, status |-> "REQUESTED"]]
  /\ IF call[c].snap \in {"MEETING_SCHEDULED", "MEETING_COMPLETED"} THEN Done(c) ELSE Goto(c, "schedule")
  /\ UNCHANGED <<status, response, permission, decision, profile, withdrawn, shared, history>>

MarkScheduled(c) ==
  /\ At(c, "schedule")
  /\ SetStatus(call[c].proposal, "MEETING_SCHEDULED")
  /\ Done(c)
  /\ UNCHANGED <<response, permission, meeting, decision, profile, withdrawn, shared, history>>

ApplicantAllowed(from) ==
  CASE from = "REQUESTED"   -> {"CONFIRMED", "CANCELLED"}
    [] from = "SCHEDULED"   -> {"CONFIRMED", "RESCHEDULED", "CANCELLED"}
    [] from = "CONFIRMED"   -> {"RESCHEDULED", "CANCELLED"}
    [] from = "RESCHEDULED" -> {"CANCELLED"}
    [] OTHER                -> {}

FamilyAllowed(from) == ApplicantAllowed(from) \ {"CANCELLED"}

(* Staff may choose any status. *)
MayMove(who, from, to) ==
  CASE who = "staff" -> TRUE [] who = "applicant" -> to \in ApplicantAllowed(from) [] OTHER -> to \in FamilyAllowed(from)

BeginMeeting(c, m, who, to) ==
  /\ meeting[m].status # "NONE"
  /\ MayMove(who, meeting[m].status, to)
  /\ Begin(c, "MEETING", meeting[m].proposal, "A", to, m, "moveMeeting")

(* Mutant: any change of a meeting completes the proposal. *)
MoveCompletes(c) ==
  /\ At(c, "moveMeeting")
  /\ meeting' = [meeting EXCEPT ![call[c].item].status = call[c].value]
  /\ history' = [history EXCEPT ![call[c].proposal].held = @ \/ call[c].value = "COMPLETED"]
  /\ Goto(c, "complete")
  /\ UNCHANGED <<status, response, permission, decision, profile, withdrawn, shared>>

MoveMeeting(c) ==
  /\ At(c, "moveMeeting")
  /\ meeting' = [meeting EXCEPT ![call[c].item].status = call[c].value]
  /\ history' = [history EXCEPT ![call[c].proposal].held = @ \/ call[c].value = "COMPLETED"]
  /\ IF call[c].value = "COMPLETED" /\ call[c].snap # "MEETING_COMPLETED" THEN Goto(c, "complete") ELSE Done(c)
  /\ UNCHANGED <<status, response, permission, decision, profile, withdrawn, shared>>

MarkCompleted(c) ==
  /\ At(c, "complete")
  /\ SetStatus(call[c].proposal, "MEETING_COMPLETED")
  /\ Done(c)
  /\ UNCHANGED <<response, permission, meeting, decision, profile, withdrawn, shared, history>>

-----------------------------------------------------------------------------
(* PATCH admin/proposals/[id]; for FINALIZED and MARRIED the gate has      *)
(* answered READY_TO_EXECUTE                                               *)

BeginPatch(c, p, v) == v \in PatchTargets /\ Begin(c, "PATCH", p, "A", v, "NONE", "patch")

Patch(c) ==
  /\ At(c, "patch")
  /\ SetStatus(call[c].proposal, call[c].value)
  /\ IF call[c].value \in {"FINALIZED", "MARRIED", "REJECTED", "ARCHIVED"} THEN CascadeTo(c, call[c].value) ELSE Done(c)
  /\ UNCHANGED <<response, permission, meeting, decision, profile, withdrawn, shared, history>>

-----------------------------------------------------------------------------
(* POST admin/profiles/[id]/contact, for the two profiles of a proposal *)

BeginShare(c, p) == Begin(c, "SHARE", p, "A", "NONE", "NONE", "grantCheck")

(* assertContactShareAllowed: consents and permissions are read, then the  *)
(* approval gate is asked.  OVERRIDE: the administrator holds              *)
(* contact:reveal:override or a break-glass grant.                         *)
CheckShare(c) ==
  LET p == call[c].proposal
  IN  /\ At(c, "grantCheck")
      /\ IF \E s \in Sides : ProfileOf[p][s] \in withdrawn THEN Done(c)
         ELSE IF bothApproved(permission[p]) THEN GotoWith(c, "share", "PROPOSAL_APPROVED")
         ELSE IF "OVERRIDE" \in Kinds THEN GotoWith(c, "share", "FAMILY_CONTACT_APPROVED")
         ELSE Done(c)
      /\ UNCHANGED rows

Share(c) ==
  /\ At(c, "share")
  /\ shared' = [shared EXCEPT ![call[c].proposal] = @ \cup {call[c].value}]
  /\ Done(c)
  /\ UNCHANGED <<status, response, permission, meeting, decision, profile, withdrawn, history>>

(* The privacy centre records a grant or a revocation of CONTACT_SHARING. *)
RecordConsent(x) ==
  /\ "CONSENT" \in Kinds
  /\ withdrawn' = IF x \in withdrawn THEN withdrawn \ {x} ELSE withdrawn \cup {x}
  /\ UNCHANGED <<status, response, permission, meeting, decision, profile, shared, call, history>>

-----------------------------------------------------------------------------
(* The serverless function dies between two awaits. *)
Crash(c) ==
  /\ "CRASH" \in Kinds
  /\ ~At(c, "idle")
  /\ Done(c)
  /\ UNCHANGED rows

Continue(c) ==
  \/ Create(c) \/ \E s \in Sides : Cascade(c, s)
  \/ UpsertResponse(c) \/ ReadResponses(c) \/ WriteResponseStatus(c) \/ MarkConfirmed(c)
  \/ WritePermission(c) \/ ReadPermissions(c) \/ Promote(c)
  \/ (\E m \in Meetings : CreateMeeting(c, m)) \/ MarkScheduled(c) \/ MoveMeeting(c) \/ MarkCompleted(c)
  \/ Patch(c) \/ CheckShare(c) \/ Share(c)

Start(c) ==
  \/ \E p \in Proposals :
       \/ BeginCreate(c, p) \/ BeginMeet(c, p) \/ BeginShare(c, p)
       \/ \E v \in PatchTargets : BeginPatch(c, p, v)
       \/ \E s \in Sides :
            \/ \E v \in Answers : BeginRespond(c, p, s, v) \/ BeginOnBehalf(c, p, s, v)
            \/ \E kind \in {"REQUEST", "APPROVE", "REVOKE"} : BeginPermission(c, kind, p, s)
  \/ \E d \in Decisions, s \in Sides : BeginConfirm(c, d, s)
  \/ \E m \in Meetings, who \in {"staff", "applicant", "family"}, to \in MeetingStatuses : BeginMeeting(c, m, who, to)

Next ==
  \/ \E c \in Calls : Continue(c) \/ Start(c) \/ Crash(c)
  \/ \E d \in Decisions, p \in Proposals, v \in Answers : Suggest(d, p, v)
  \/ \E d \in Decisions : CancelDecision(d)
  \/ \E x \in Profiles : RecordConsent(x)

Spec == Init /\ [][Next]_vars

-----------------------------------------------------------------------------
(* Properties *)

TypeOK ==
  /\ status \in [Proposals -> {"ABSENT"} \cup Statuses]
  /\ response \in [Proposals -> [Sides -> {"NONE"} \cup Answers]]
  /\ permission \in [Proposals -> [Sides -> Permission]]
  /\ meeting \in [Meetings -> MeetingRow]
  /\ decision \in [Decisions -> Decision]
  /\ profile \in [Profiles -> ProfileStatus]
  /\ withdrawn \subseteq Profiles
  /\ shared \in [Proposals -> SUBSET Levels]
  /\ call \in [Calls -> Call]
  /\ history \in [Proposals -> [interested: SUBSET Sides, word: [Sides -> Words],
                                mutual: BOOLEAN, held: BOOLEAN]]

Quiet(p) == \A c \in Calls : At(c, "idle") \/ call[c].proposal # p

(* Unless an administrator says so, a proposal never counts as wanted by   *)
(* both, and contact is never approved, before each side has itself        *)
(* answered that it is interested (nextProposalStatus,                     *)
(* CONTACT_PERMISSION_OPEN_STATUSES), whatever stale status the handlers   *)
(* write over one another.                                                 *)
InterestBacked ==
  \A p \in Proposals : status[p] \in {"BOTH_INTERESTED", "CONTACT_APPROVED"} => history[p].interested = Sides

(* Contact details are shared on the strength of a proposal only if there  *)
(* was a moment at which both sides' permissions stood together            *)
(* (resolveProposalContactAccessLevel), and contact is approved only then, *)
(* unless an administrator sets that status by hand.                       *)
ShareNeedsConsent ==
  \A p \in Proposals :
    "PROPOSAL_APPROVED" \in shared[p] \/ status[p] = "CONTACT_APPROVED" => history[p].mutual

(* Two sides that grant their permission at the same time do not miss each *)
(* other: when their handlers are done, a proposal with both permissions   *)
(* no longer waits for them.                                               *)
NoLostPromotion ==
  \A p \in Proposals : Quiet(p) /\ bothApproved(permission[p]) => status[p] \notin Promotes

(* A proposal is in a meeting status only if it has a meeting, and in      *)
(* MEETING_COMPLETED only if staff has marked one of its own as held.      *)
MeetingBacked ==
  \A p \in Proposals :
    /\ status[p] \in {"MEETING_SCHEDULED", "MEETING_COMPLETED"} =>
         \E m \in Meetings : meeting[m].proposal = p /\ meeting[m].status # "NONE"
    /\ status[p] = "MEETING_COMPLETED" => history[p].held

(* proposal-workflow.ts:8-11: a late response must not "re-open one an     *)
(* administrator had closed".                                              *)
EndedStaysEnded == [][\A p \in Proposals : status[p] \in Ended => status'[p] \in Ended]_vars

(* contact/route.ts:97-99: a share "can never override consent that was    *)
(* since revoked".                                                         *)
ShareRespectsRevocation ==
  [][\A p \in Proposals : "PROPOSAL_APPROVED" \in shared'[p] \ shared[p] =>
       \A s \in Sides : history[p].word[s] = "GRANTED"]_vars
=============================================================================
