---------------------------- MODULE MCMemberParts ----------------------------
(* What a member goes through, a part of it in each behaviour: the answers, *)
(* the family's suggestions, the contact permissions or the meetings of a   *)
(* proposal, with the operations of that part only, from where it opens; an *)
(* order; a message.                                                        *)
(* No two of the three share a row.                                         *)
EXTENDS MCProposalLifecycle, Settlement, MessageQueue

CONSTANTS o1, r1, r2, ada, ben, mail

ProposalParts ==
  [answers  |-> {"CREATE", "RESPOND", "ON_BEHALF"},
   family   |-> {"CREATE", "RESPOND", "SUGGEST", "CONFIRM", "CANCEL"},
   consent  |-> {"REQUEST", "APPROVE", "REVOKE", "SHARE", "OVERRIDE", "CONSENT", "PATCH"},
   meetings |-> {"MEET", "MEETING", "CRASH"}]

VARIABLE agenda     \* the part this behaviour is about

OfPart(a) == INSTANCE ProposalLifecycle
               WITH Kinds <- ProposalParts[a], Opening <- IF a \in {"answers", "family"} THEN NotCreated ELSE Interested

MemberInit ==
  /\ \/ \E a \in DOMAIN ProposalParts : agenda = a /\ OfPart(a)!Init
     \/ agenda \in {"order", "message"} /\ Init
  /\ PayInit /\ MsgInit

MemberNext ==
  /\ \/ \E a \in DOMAIN ProposalParts : agenda = a /\ OfPart(a)!Next /\ UNCHANGED <<payVars, msgVars>>
     \/ agenda = "order" /\ PayNext /\ UNCHANGED <<vars, msgVars>>
     \/ agenda = "message" /\ MsgNext /\ UNCHANGED <<vars, payVars>>
  /\ UNCHANGED agenda

MemberSpec == MemberInit /\ [][MemberNext]_<<vars, payVars, msgVars, agenda>>
=============================================================================
