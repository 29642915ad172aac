------------------------------ MODULE OnScreen -----------------------------
(***************************************************************************)
(* What a page of files shows beside each other: the browser, the numbers  *)
(* of its pages, and the sidebar of albums.  Each has the state of its own *)
(* component, and what it needs of the server; none reads a variable of    *)
(* another.                                                                *)
(***************************************************************************)
EXTENDS FileBrowser, FilePages, AlbumSidebar

\* What is on screen is so: the sidebar has what was pinned in any tab, but for what a tab wrote
\* over another's, and shows what its handlers have done; a list that has files shows some, and
\* the numbers below it are pages in a row (AlbumSidebar, the pagination of FileBrowser).
ShownIsSo ==
  /\ PinsSurvive /\ DoneIsShown
  /\ PageHasFiles /\ NumbersAroundPage
=============================================================================
