---------------------------- MODULE MCSignatures ----------------------------
(* Instances of Signatures for TLC: a request that ann and ben must sign.  *)
EXTENDS Signatures

CONSTANTS ann, ben, k1, k2
=============================================================================
