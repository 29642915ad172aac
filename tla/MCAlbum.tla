------------------------------ MODULE MCAlbum ------------------------------
(***************************************************************************)
(* Album on small instances.  Requests make no difference among            *)
(* themselves; files do, their ids are ordered.                            *)
(***************************************************************************)
EXTENDS Album, TLC

MCAlike == Permutations(Requests)
=============================================================================
