--------------------------- MODULE MCBucketPage ----------------------------
(***************************************************************************)
(* BucketPage on a small instance.                                         *)
(***************************************************************************)
EXTENDS BucketPage, TLC

\* The slots for calls are alike.
MCCalls == Permutations(Calls)
=============================================================================
