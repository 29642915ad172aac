------------------------------ MODULE MCPages -------------------------------
(***************************************************************************)
(* Parts of pages on small instances, side by side: the browser of files,  *)
(* its pages, and the sidebar of albums. Each has the state of its own     *)
(* component, and what it needs of the server; none reads a variable of    *)
(* another: one moves, the others rest.  The pins of the sidebar and its   *)
(* handlers move in turns of their own.                                    *)
(***************************************************************************)
EXTENDS OnScreen, TLC

CONSTANT Moving  \* the parts of which one moves

VARIABLE part  \* the one that moves

\* Two files, sorted by name or in the order of the layout of the album, with a search and a
\* space that not all match.
TwoFiles   == 1..2
MCSortings == {"name", "layout"}
MCRank     == [s \in Sortings |-> [f \in Files |-> IF s = "name" THEN f ELSE 3 - f]]
MCSearches == {"", " ", "b"}
MCBlanks   == {"", " "}
MCMatches  == [q \in Searches |-> IF q = "" THEN Files ELSE Files \ {1}]

MCAlike == Permutations(Tabs)

everything == <<part, vars, pagesVars, sidebarVars>>

\* The albums that are there in the beginning.
Made == [p \in Moving |-> CASE p = "pins" -> 2 [] p = "albums" -> 1 [] OTHER -> 0]

-----------------------------------------------------------------------------
OneInit ==
  /\ part \in Moving
  /\ Init /\ PagesInit /\ SidebarInit
  \* a part that does not move begins in one of its ways
  /\ part # "browser" => where = [f \in Files |-> CHOOSE p \in Places : TRUE]
  /\ part # "pages" => shown = "all" /\ n = 0
  /\ \A a \in Albums : albums[a].name \in {a, NoAlbum} /\ (albums[a].name = a <=> a <= Made[part])

RestBrowser == UNCHANGED <<part, pagesVars, sidebarVars>>
RestPages == UNCHANGED <<part, vars, sidebarVars>>
RestSidebar == UNCHANGED <<part, vars, pagesVars>>

\* No handler begins, and no form or dialog is opened.
OnlyPins ==
  UNCHANGED works /\ \A t \in Tabs : sidebar'[t].form = NoAlbum /\ sidebar'[t].asked = NoAlbum

OneNext ==
  \/ part = "browser" /\ Next /\ RestBrowser
  \/ part = "pages" /\ PagesNext /\ RestPages
  \/ part = "albums" /\ SidebarNext /\ UNCHANGED pinning /\ RestSidebar
  \/ part = "pins" /\ SidebarNext /\ OnlyPins /\ RestSidebar

OneSpec == OneInit /\ [][OneNext]_everything

=============================================================================
