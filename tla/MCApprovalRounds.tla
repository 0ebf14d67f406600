-------------------------- MODULE MCApprovalRounds --------------------------
(* ApprovalEngine with a record of the round each approval belongs to: a    *)
(* round starts when a request for changes takes effect.                    *)
EXTENDS MCApprovalEngine

VARIABLES
  round,   \* the version the last request for changes gave the request
  fresh    \* approvals of this round, by handlers that read the request in it

ChangesAsked == req.status # "CHANGES_REQUESTED" /\ req'.status = "CHANGES_REQUESTED"

FreshVotes ==
  {<<call[c].step, call[c].actor>> :
     c \in {d \in Calls : /\ At(d, "upsert") /\ call'[d].pc # "upsert"
                          /\ call[d].kind = "APPROVE" /\ call[d].snap.version >= round}}

RoundsInit == Init /\ round = 0 /\ fresh = {}

RoundsNext ==
  /\ Next
  /\ IF ChangesAsked
       THEN round' = req'.version /\ fresh' = {}
       ELSE round' = round /\ fresh' = fresh \cup FreshVotes

RoundsSpec == RoundsInit /\ [][RoundsNext]_<<vars, round, fresh>>

(* engine.ts:259-261: "a material change invalidates prior progress: reset  *)
(* every reviewer decision back to PENDING [...] then bump version so a     *)
(* stale-approved client can never slip through".  A request is granted by  *)
(* approvals of the round it is granted in.                                 *)
ApprovalsAreFresh == req.status \in Granted => FullLadder(fresh)
=============================================================================
