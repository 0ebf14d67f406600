------------------------- MODULE MCProposalLifecycle -------------------------
(* Instances of ProposalLifecycle for TLC: one proposal of ann and bob, two *)
(* handlers in flight.                                                      *)
EXTENDS ProposalLifecycle, TLC

CONSTANTS p1, ann, bob, c1, c2, m1, m2, d1

Couples == [p \in Proposals |-> [s \in Sides |-> IF s = "A" THEN ann ELSE bob]]

NotCreated == [p \in Proposals |-> "ABSENT"]
Interested == [p \in Proposals |-> "BOTH_INTERESTED"]

CallsSymmetry == Permutations(Calls)
=============================================================================
