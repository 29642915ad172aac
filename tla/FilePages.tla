----------------------------- MODULE FilePages -----------------------------
(***************************************************************************)
(* The pages of the list in FileBrowser.  The page and the size of pages   *)
(* are kept twice: in the component, for the list it shows, and in         *)
(* LocalStorage for every list, which other tabs share.  Two effects make  *)
(* one follow the other; an event and the effects it sets off are one      *)
(* step.                                                                   *)
(***************************************************************************)
EXTENDS Integers, FiniteSets

CONSTANTS
  Lists,         \* all files, and the albums
  ItemsPerPage,  \* itemsPerPage
  Factors,       \* of the buttons for the size of a page: 1, 5 and 10
  MaxFiles       \* bound: files in a list

ASSUME PagesAssumption ==
  /\ ItemsPerPage \in Nat \ {0} /\ MaxFiles \in Nat
  /\ 1 \in Factors /\ Factors \subseteq Nat \ {0}

VARIABLES
  shown,      \* the list that is shown
  n,          \* how many files it has: sortedFiles.length
  page,       \* currentPage
  size,       \* currentItemsPerPage
  savedPage,  \* LocalStorage, of every list
  savedSize,
  settled,    \* history: the first effect has run since the size was changed
  left,       \* history: the page on which each list that is not shown was left
  foreign     \* history: the lists that another tab has changed, and the effect not seen yet

storage      == <<savedPage, savedSize>>
pagesHistory == <<settled, left, foreign>>
pagesVars    == <<shown, n, page, size, storage, pagesHistory>>

Sizes == {ItemsPerPage * k : k \in Factors}
PageNumbers == 1..(MaxFiles + 1)

PagesTypeOK ==
  /\ shown \in Lists /\ n \in 0..MaxFiles
  /\ page \in PageNumbers /\ savedPage \in [Lists -> PageNumbers] /\ left \in [Lists -> PageNumbers]
  /\ size \in Sizes /\ savedSize \in [Lists -> Sizes]
  /\ settled \in BOOLEAN /\ foreign \subseteq Lists
  \* the component and LocalStorage part only through another tab
  /\ shown \in foreign \/ (page = savedPage[shown] /\ size = savedSize[shown])

PagesInit ==
  /\ shown \in Lists /\ n \in 0..MaxFiles
  /\ page = 1 /\ size = ItemsPerPage
  /\ savedPage = [l \in Lists |-> 1] /\ savedSize = [l \in Lists |-> ItemsPerPage]
  /\ settled = TRUE /\ left = [l \in Lists |-> 1] /\ foreign = {}

\* totalPages: Math.ceil
Pages(files, s) == (files + s - 1) \div s
TotalPages == Pages(n, size)

-----------------------------------------------------------------------------
(* The effects.                                                             *)

TooFar_Never(l, files) == FALSE
TooFar(l, files) == Pages(files, savedSize[l]) > 0 /\ savedPage[l] > Pages(files, savedSize[l])

\* The page and the size are those of LocalStorage; a page that is not there,
\* and any page of a list that has changed, becomes the first.
Settle(l, files, reset) ==
  /\ shown' = l /\ n' = files
  /\ savedPage' = IF reset \/ TooFar(l, files) THEN [savedPage EXCEPT ![l] = 1] ELSE savedPage
  /\ page' = savedPage'[l] /\ size' = savedSize[l]
  /\ settled' = TRUE /\ foreign' = foreign \ {l}
  /\ UNCHANGED savedSize

-----------------------------------------------------------------------------
(* Events.                                                                  *)

ResetOnSelect_Changed(l) == l # shown
ResetOnSelect(l) == FALSE

\* The other list has another length, but the album has changed.
SelectList(l) ==
  \E files \in 0..MaxFiles :
    /\ l # shown
    /\ Settle(l, files, ResetOnSelect(l))
    /\ left' = [left EXCEPT ![shown] = page, ![l] = 1]

\* The page of the bucket fetches, or a file goes or comes; with a search the
\* length of what is listed and that of the list change apart.
FilesChange ==
  \E files \in 0..MaxFiles, reset \in BOOLEAN :
    /\ Settle(shown, files, reset)
    /\ UNCHANGED left

SearchChanges ==
  \E files \in 0..MaxFiles : Settle(shown, files, TRUE) /\ UNCHANGED left

\* Another order, or a rendering of the page around it.
Rerender == Settle(shown, n, FALSE) /\ UNCHANGED left

\* The buttons with numbers: five at most, around the page.
Numbered_Short ==
  [i \in 0..((IF TotalPages < 5 THEN TotalPages ELSE 5) - 1) |->
     IF TotalPages <= 5 \/ page <= 3 THEN i + 1
     ELSE IF page >= TotalPages - 2 THEN TotalPages - 5 + i
     ELSE page - 2 + i]
Numbered ==
  [i \in 0..((IF TotalPages < 5 THEN TotalPages ELSE 5) - 1) |->
     IF TotalPages <= 5 \/ page <= 3 THEN i + 1
     ELSE IF page >= TotalPages - 2 THEN TotalPages - 4 + i
     ELSE page - 2 + i]

First == IF page > 5 THEN {1} ELSE {}
Last  == IF TotalPages > 5 /\ page < TotalPages - 2 THEN {TotalPages} ELSE {}
Previous == IF page # 1 THEN {page - 1} ELSE {}
Following == IF page # TotalPages THEN {page + 1} ELSE {}
Buttons == {Numbered[i] : i \in DOMAIN Numbered} \cup First \cup Last \cup Previous \cup Following

\* handlePageChange.  The effect runs if the page is another one.
ClickPage(p) ==
  /\ TotalPages > 1 /\ p \in Buttons
  /\ LET wanted == [savedPage EXCEPT ![shown] = p]
         pages  == Pages(n, savedSize[shown])
         to     == IF p # page /\ pages > 0 /\ p > pages THEN 1 ELSE p
     IN  /\ savedPage' = [wanted EXCEPT ![shown] = to]
         /\ page' = to
         /\ size' = IF p # page THEN savedSize[shown] ELSE size
         /\ settled' = (settled \/ p # page)
  /\ foreign' = IF p # page THEN foreign \ {shown} ELSE foreign
  /\ UNCHANGED <<shown, n, savedSize, left>>

WithSize_Shared(s) == [l \in Lists |-> IF l = "all" THEN s ELSE savedSize[l]]
WithSize(s) == [savedSize EXCEPT ![shown] = s]

\* handlePageSizeChange.  No effect runs.
ClickSize(s) ==
  /\ size' = s /\ savedSize' = WithSize(s)
  /\ settled' = FALSE
  /\ UNCHANGED <<shown, n, page, savedPage, left, foreign>>

\* Another tab turns a page or changes the size.
OtherTab(l) ==
  /\ \/ \E p \in 1..MaxFiles : savedPage' = [savedPage EXCEPT ![l] = p] /\ UNCHANGED savedSize
     \/ \E s \in Sizes : savedSize' = [savedSize EXCEPT ![l] = s] /\ UNCHANGED savedPage
  /\ foreign' = foreign \cup {l}
  /\ UNCHANGED <<shown, n, page, size, settled, left>>

PagesNext ==
  \/ \E l \in Lists : SelectList(l) \/ OtherTab(l)
  \/ FilesChange \/ SearchChanges \/ Rerender
  \/ \E p \in Buttons : ClickPage(p)
  \/ \E s \in Sizes : ClickSize(s)

PagesSpec == PagesInit /\ [][PagesNext]_pagesVars

-----------------------------------------------------------------------------
(* Properties.                                                              *)

\* A list that has files shows some of them, whatever was deleted, searched
\* for or selected, here or in another tab; a change of the size of pages
\* may leave the page behind the end until something else is rendered.
PageHasFiles == settled /\ n > 0 => page <= TotalPages

\* Coming back to a list shows the page on which it was left, unless it
\* has lost that page or another tab has turned it.
ComesBack ==
  [][shown' # shown /\ shown' \notin foreign =>
       page' = left[shown'] \/ (page' = 1 /\ n' > 0 /\ left[shown'] > Pages(n', size'))]_pagesVars

\* Where the page is in the list, the numbers are five different pages in a
\* row, or all there are, and the page is one of them.
NumbersAroundPage ==
  page <= TotalPages =>
    /\ \A i \in DOMAIN Numbered : Numbered[i] \in 1..TotalPages
    /\ \A i \in DOMAIN Numbered \ {0} : Numbered[i] = Numbered[i - 1] + 1
    /\ \E i \in DOMAIN Numbered : Numbered[i] = page

\* The browser says "Showing <first>-<last> of <n> files": after a change of
\* the size the first is behind the last, and none is shown.
ShowsWhatItSays == TotalPages > 1 => (page - 1) * size + 1 <= n
=============================================================================
