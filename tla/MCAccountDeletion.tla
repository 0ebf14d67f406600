------------------------- MODULE MCAccountDeletion -------------------------
(* AccountDeletion with administrators who keep asking for what they want.  *)
EXTENDS AccountDeletion, TLC

CONSTANTS d1, h1, c1, c2

ReleaseSpec == DelSpec /\ DelFairness /\ ReleaseFairness
=============================================================================
