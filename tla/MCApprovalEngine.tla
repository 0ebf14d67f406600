-------------------------- MODULE MCApprovalEngine --------------------------
(* Instances of ApprovalEngine for TLC: a maker, managers, a Super Admin    *)
(* and a member of staff; two handlers in flight and the sweep's.           *)
EXTENDS ApprovalEngine, TLC

CONSTANTS maker, mgr1, mgr2, mgr3, super, staff, c1, c2, sweep

Staffing == [a \in Admins |->
               CASE a \in {mgr1, mgr2, mgr3} -> "MANAGER" [] a = super -> SuperAdmin [] OTHER -> "STAFF"]

CallsSymmetry == Permutations(Calls \ {Sweeper})
PairSymmetry  == CallsSymmetry \cup Permutations({mgr1, mgr2})
=============================================================================
