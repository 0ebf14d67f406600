---------------------------- MODULE MCSettlement ----------------------------
(* Instances of Settlement for TLC. *)
EXTENDS Settlement, FiniteSetsExt, TLC

CONSTANTS o1, o2, r1, r2, ada, ben, c1, c2, c3

HandlersSymmetry == Permutations(PayCalls) \cup Permutations(Refunds)

(* refund.ts:21: "Refund amount cannot exceed the original payment amount."
   Counted is the money the provider has been asked to pay back.           *)
RefundsWithinPayment ==
  \A o \in Orders :
    MapThenSumSet(LAMBDA r : refund[r].amount, {r \in Refunds : paidBack[r] > 0 /\ refund[r].order = o}) <= Price
=============================================================================
