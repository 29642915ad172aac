--------------------------- MODULE Administration ---------------------------
(***************************************************************************)
(* The administration: the user that logs in, and the page behind the      *)
(* login, with what it bans, deletes and unblocks.  They share no          *)
(* variable.                                                               *)
(***************************************************************************)
EXTENDS Users, AdminPage

\* What an administrator is told is so: bans that the page reports have taken the
\* files along, an error has a reason, what is shown after a success is what there
\* is, and a change of credentials is refused only if the session is stale
\* (handleBanIpConfirm and the other handlers of the page, changeDetails).
AdminExplained ==
  BannedFilesGone /\ ErrorsExplained /\ []ShowsItsWork /\ RefusalsAreStale
=============================================================================
