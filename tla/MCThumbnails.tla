---------------------------- MODULE MCThumbnails ----------------------------
(***************************************************************************)
(* The two caches of thumbnails on small instances, side by side: the      *)
(* copies of the thumbnails of an album, and the thumbnails made on        *)
(* demand. They share no variable and no file: one of them moves, the      *)
(* other rests.                                                            *)
(***************************************************************************)
EXTENDS ThumbMaker, ThumbCopies, TLC

CONSTANTS
  Moving,  \* the parts of which one moves
  gif,
  alike,
  large

VARIABLE part   \* the one that moves

\* Two images that differ behind what is hashed, and a video larger than the limit that
\* begins as they do.
MCContents == {gif, alike, large}
MCMedia == [c \in MCContents |-> IF c = large THEN "video" ELSE "moving"]
MCSize  == [c \in MCContents |-> IF c = large THEN 3 ELSE 1]
MCStart == [c \in MCContents |-> 1]
MCAlike == Permutations(Slots)

everything == <<part, vars, copiesVars>>

-----------------------------------------------------------------------------
OneInit ==
  /\ part \in Moving
  /\ Init /\ CopiesInit
  \* a part that does not move begins in one of its ways
  /\ part # "maker" => entry = [t \in Tokens |-> gif] /\ at = [u \in Urls |-> gif]

RestMaker == UNCHANGED <<part, copiesVars>>
RestCopies == UNCHANGED <<part, vars>>

OneNext ==
  \/ part = "maker" /\ Next /\ RestMaker
  \/ part = "copies" /\ CopiesNext /\ RestCopies

OneSpec == OneInit /\ [][OneNext]_everything
=============================================================================
