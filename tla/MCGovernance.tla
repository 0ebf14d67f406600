---------------------------- MODULE MCGovernance ----------------------------
(* A governed request under its deadline, the erasure of an account and the *)
(* signatures on a document: each behaviour is about one, its agenda.       *)
EXTENDS MCApprovalEngine, AccountDeletion, Signatures

CONSTANTS d1, d2, h1, ann, ben

VARIABLE agenda     \* which of the three this behaviour is about

On(a, A) == agenda = a /\ A

GovernanceInit == agenda \in {"approval", "erasure", "signatures"} /\ Init /\ DelInit /\ SignInit

GovernanceNext ==
  /\ \/ On("approval", Next) /\ UNCHANGED <<delVars, signVars>>
     \/ On("erasure", DelNext) /\ UNCHANGED <<vars, signVars>>
     \/ On("signatures", SignNext) /\ UNCHANGED <<vars, delVars>>
  /\ UNCHANGED agenda

(* The fairness of FairSpec, DelFairness and SignFairness, each of the      *)
(* behaviours on its agenda.                                                *)
GovernanceFairness ==
  /\ WF_vars(On("approval", BeginSweep)) /\ \A c \in Calls : WF_vars(On("approval", Continue(c)))
  /\ WF_delVars(On("erasure", DayEnds)) /\ WF_delVars(On("erasure", \E o \in Officers : DailySweep(o)))
  /\ \A o \in Officers : WF_delVars(On("erasure", OfficerWork(o)))
  /\ WF_signVars(On("signatures", ExpiryPasses)) /\ WF_signVars(On("signatures", sweepExpiredSignatureRequests))
  /\ \A k \in Clerks : WF_signVars(On("signatures", ClerkWork(k)))

GovernanceSpec == GovernanceInit /\ [][GovernanceNext]_<<vars, delVars, signVars, agenda>> /\ GovernanceFairness
=============================================================================
