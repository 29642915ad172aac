----------------------------- MODULE PageProofs -----------------------------
(***************************************************************************)
(* The properties of FileBrowser, for any files, sortings and searches.    *)
(* ToldWhatIsSelected is inductive, and ReordersByLayout follows from the  *)
(* step that reorders.  DeletesWhatWasAsked needs to know that nothing     *)
(* changes the selection behind a dialog unnoticed.                        *)
(*                                                                         *)
(* Then that of FilePages, for any lists and sizes of pages: ComesBack     *)
(* needs to know what is saved for the lists that are not shown.           *)
(*                                                                         *)
(* AlbumSidebar is beside them: a handler that has written is done for the *)
(* table, then for the answer it has fetched, then for the list, unless    *)
(* another wrote or an older answer was shown; and a tab that has not      *)
(* missed a write has read what is stored.  OnScreen puts the three        *)
(* together.                                                               *)
(*                                                                         *)
(* Then those of the pages before them: of FileAccess, where a view is     *)
(* paid for by the download that is under way and every refusal is for the *)
(* password that was sent, or for the IP; and of Users, where without a    *)
(* second user or a second change the one row says what somebody has been  *)
(* told.                                                                   *)
(*                                                                         *)
(* Last, AdminPage: a ban is done for the IPs that are no longer left, and *)
(* what a handler saw, or has fetched, is so while nobody else is at work. *)
(***************************************************************************)
EXTENDS OnScreen, FileAccess, Administration, FiniteSetTheorems, TLAPS

\* A dialog still deletes what it came up for.
MarkedStill == dialog.open /\ ~behind => meant = Marked(dialog.of)

BrowserInv == TypeOK /\ ToldWhatIsSelected /\ MarkedStill

\* Indices are numbers, and what a range selects is of the right type.
LEMMA IndexIsInt ==
  ASSUME NEW f \in Files
  PROVE  Index(f) \in Int
<1>1. IsFiniteSet({g \in Listed : Before(g, f)})
  BY FS_Subset, BrowserAssumption DEF Listed, Shown
<1> QED
  BY <1>1, FS_CardinalityType DEF Index

LEMMA Selectable ==
  ASSUME TypeOK
  PROVE  /\ Listed \in SUBSET Files /\ Listed \in Selections /\ {} \in Selections
         /\ \A f \in Files : Toggled(f) \in Selections /\ {f} \in Selections
         /\ \A i, j \in Int : Between(i, j) \in Selections
BY DEF TypeOK, Listed, Shown, Selections, Toggled, Between

\* A step that leaves the selection and the dialog alone keeps what relates them.
LEMMA ElsewhereKeeps ==
  ASSUME BrowserInv, UNCHANGED <<selection, dialog, history>>
  PROVE  ToldWhatIsSelected' /\ MarkedStill'
BY DEF BrowserInv, ToldWhatIsSelected, MarkedStill, Marked, Reports, selection, history

\* The list may change under the selection.
LEMMA ListKeeps ==
  ASSUME BrowserInv, OfList
  PROVE  BrowserInv'
<1> USE DEF BrowserInv
<1>1. CASE SelectAlbum
  <2>1. TypeOK'
    BY <1>1, Selectable DEF SelectAlbum, TypeOK, list, selection, drag, history, NoMenu, Places
  <2> QED
    BY <1>1, <2>1, ElsewhereKeeps DEF SelectAlbum, selection, drag
<1>2. CASE \E q \in Searches : Search(q)
  <2>1. TypeOK'
    BY <1>2, Selectable DEF Search, TypeOK, list, selection, drag, history, NoMenu
  <2> QED
    BY <1>2, <2>1, ElsewhereKeeps DEF Search, selection, drag
<1>3. CASE \E s \in Sortings : Sort(s)
  <2>1. TypeOK'
    BY <1>3, Selectable DEF Sort, TypeOK, list, selection, drag, history, NoMenu
  <2> QED
    BY <1>3, <2>1, ElsewhereKeeps DEF Sort, selection, drag
<1>4. CASE Refresh
  <2>1. TypeOK'
    BY <1>4 DEF Refresh, TypeOK, list, selection, drag, history
  <2> QED
    BY <1>4, <2>1, ElsewhereKeeps DEF Refresh, selection, drag
<1> QED
  BY <1>1, <1>2, <1>3, <1>4 DEF OfList

\* What the browser selects it tells, but for Escape, which selects nothing.
LEMMA SelectionKeeps ==
  ASSUME BrowserInv, OfSelection
  PROVE  BrowserInv'
<1> USE DEF BrowserInv
<1>1. CASE \E f \in Files, shift \in BOOLEAN : Click(f, shift)
  <2>1. TypeOK'
    BY <1>1, Selectable, IndexIsInt DEF Click, TypeOK, Tell, list, selection, drag, history, NoMenu, Selections
  <2>2. ToldWhatIsSelected'
    BY <1>1 DEF Click, ToldWhatIsSelected, Reports, Tell
  <2>3. MarkedStill'
    BY <1>1, Selectable DEF Click, TypeOK, MarkedStill, Marked, Mouse, history
  <2> QED
    BY <2>1, <2>2, <2>3
<1>2. CASE \E f \in Files : Check(f)
  <2>1. TypeOK'
    <3>1. PICK f \in Files : Check(f)
      BY <1>2
    <3>2. Toggled(f) \in Selections
      BY Selectable
    <3> QED
      BY <3>1, <3>2, Selectable DEF Check, TypeOK, Tell, list, selection, drag, history, NoMenu
  <2>2. ToldWhatIsSelected'
    BY <1>2 DEF Check, ToldWhatIsSelected, Reports, Tell
  <2>3. MarkedStill'
    BY <1>2, Selectable DEF Check, TypeOK, MarkedStill, Marked, Mouse, history
  <2> QED
    BY <2>1, <2>2, <2>3
<1>3. CASE ClickSelectAll
  <2>1. TypeOK'
    BY <1>3, Selectable DEF ClickSelectAll, TypeOK, SelectAll, Tell, list, selection, drag, history, NoMenu
  <2>2. ToldWhatIsSelected'
    BY <1>3 DEF ClickSelectAll, ToldWhatIsSelected, Reports, SelectAll, Tell
  <2>3. MarkedStill'
    BY <1>3, Selectable DEF ClickSelectAll, TypeOK, MarkedStill, Marked, Mouse, history
  <2> QED
    BY <2>1, <2>2, <2>3
<1>4. CASE ClickClear
  <2>1. TypeOK'
    BY <1>4, Selectable DEF ClickClear, TypeOK, ClearSelection, Tell, list, selection, drag, history, NoMenu
  <2>2. ToldWhatIsSelected'
    BY <1>4 DEF ClickClear, ToldWhatIsSelected, Reports, ClearSelection, Tell
  <2>3. MarkedStill'
    BY <1>4, Selectable DEF ClickClear, TypeOK, MarkedStill, Marked, Mouse, history
  <2> QED
    BY <2>1, <2>2, <2>3
<1>5. CASE PressSelectAll
  <2>1. TypeOK'
    BY <1>5, Selectable DEF PressSelectAll, TypeOK, SelectAll, Tell, list, selection, drag, history
  <2>2. ToldWhatIsSelected'
    BY <1>5 DEF PressSelectAll, ToldWhatIsSelected, Reports, SelectAll, Tell
  <2>3. MarkedStill'
    BY <1>5, Selectable DEF PressSelectAll, TypeOK, MarkedStill, Marked, Mouse
  <2> QED
    BY <2>1, <2>2, <2>3
<1>6. CASE PressEscape
  <2>1. TypeOK'
    BY <1>6, Selectable DEF PressEscape, TypeOK, list, selection, drag, history, NoMenu
  <2>2. ToldWhatIsSelected'
    BY <1>6 DEF PressEscape, ToldWhatIsSelected, Reports
  <2>3. MarkedStill'
    BY <1>6, Selectable DEF PressEscape, TypeOK, MarkedStill, Marked, Mouse
  <2> QED
    BY <2>1, <2>2, <2>3
<1> QED
  BY <1>1, <1>2, <1>3, <1>4, <1>5, <1>6 DEF OfSelection

\* A dialog comes up for what is marked.
LEMMA DeletionKeeps ==
  ASSUME BrowserInv, OfDeletion
  PROVE  BrowserInv'
<1> USE DEF BrowserInv
<1>1. CASE ClickDelete
  <2>1. TypeOK'
    BY <1>1, Selectable DEF ClickDelete, TypeOK, AskDelete, Marked, NoDialog, list, selection, drag, history, NoMenu, None
  <2>2. ToldWhatIsSelected'
    BY <1>1 DEF ClickDelete, ToldWhatIsSelected, Reports, selection
  <2>3. MarkedStill'
    BY <1>1, Selectable DEF ClickDelete, TypeOK, MarkedStill, Marked, Mouse, AskDelete, selection, None
  <2> QED
    BY <2>1, <2>2, <2>3
<1>2. CASE PressDelete
  <2>1. TypeOK'
    BY <1>2, Selectable DEF PressDelete, TypeOK, AskDelete, Marked, NoDialog, list, selection, drag, history, None
  <2>2. ToldWhatIsSelected'
    BY <1>2 DEF PressDelete, ToldWhatIsSelected, Reports, selection
  <2>3. MarkedStill'
    BY <1>2, Selectable DEF PressDelete, TypeOK, MarkedStill, Marked, Mouse, AskDelete, selection, None
  <2> QED
    BY <2>1, <2>2, <2>3
<1>3. CASE CancelDelete
  <2>1. TypeOK'
    <3>1. /\ UNCHANGED <<where, album, sorting, search, selected, anchor, told, menu, dragged, toAlbum, held, call>>
          /\ dialog' = [open |-> FALSE, of |-> None] /\ meant' = {} /\ behind' = FALSE
      BY <1>3 DEF CancelDelete, CloseDialog, NoDialog, list, selection, drag
    <3>2. /\ dialog' \in [open : BOOLEAN, of : Files \cup {None}] /\ dialog' = NoDialog
          /\ meant' \in Selections /\ behind' \in BOOLEAN
      BY <3>1, Selectable DEF NoDialog
    <3> QED
      BY <3>1, <3>2 DEF TypeOK
  <2>2. ToldWhatIsSelected'
    BY <1>3 DEF CancelDelete, ToldWhatIsSelected, Reports, selection
  <2>3. MarkedStill'
    BY <1>3, Selectable DEF CancelDelete, TypeOK, MarkedStill, Marked, Mouse, CloseDialog, NoDialog
  <2> QED
    BY <2>1, <2>2, <2>3
<1>4. CASE ConfirmDelete
  <2>1. TypeOK'
    BY <1>4, Selectable DEF ConfirmDelete, TypeOK, FilesToDelete, NoCall, list, selection, drag, history
  <2> QED
    BY <1>4, <2>1, ElsewhereKeeps DEF ConfirmDelete, selection, drag
<1>5. CASE DeleteAnswer
  <2>1. TypeOK'
    <3>1. where' \in [Files -> Places] /\ NoCall.of = {} /\ NoCall.op = "none"
      BY <1>5 DEF DeleteAnswer, TypeOK, Places, NoCall
    <3>2. call' = NoCall /\ UNCHANGED <<album, sorting, search, anchor, told, menu, drag>>
      BY <1>5 DEF DeleteAnswer
    <3>3. \/ selected' = {} /\ CloseDialog
          \/ UNCHANGED <<selected, dialog, history>>
      BY <1>5 DEF DeleteAnswer
    <3>4. NoCall \in [op : {"none", "delete", "remove", "assign", "reorder"}, of : Selections,
                      from : Int, to : Int]
      BY Selectable DEF NoCall
    <3>5. CASE selected' = {} /\ CloseDialog
      BY <3>1, <3>2, <3>4, <3>5, Selectable DEF TypeOK, CloseDialog, NoDialog, drag
    <3>6. CASE UNCHANGED <<selected, dialog, history>>
      BY <3>1, <3>2, <3>4, <3>6 DEF TypeOK, NoDialog, drag, history
    <3> QED
      BY <3>3, <3>5, <3>6
  <2>2. ToldWhatIsSelected'
    BY <1>5 DEF DeleteAnswer, ToldWhatIsSelected, Reports
  <2>3. MarkedStill'
    BY <1>5, Selectable DEF DeleteAnswer, TypeOK, MarkedStill, Marked, Mouse, CloseDialog, NoDialog, history
  <2> QED
    BY <2>1, <2>2, <2>3
<1> QED
  BY <1>1, <1>2, <1>3, <1>4, <1>5 DEF OfDeletion

\* So does the context menu, above a dialog too.
LEMMA MenuKeeps ==
  ASSUME BrowserInv, OfMenu
  PROVE  BrowserInv'
<1> USE DEF BrowserInv
<1>1. CASE \E f \in Files \cup {None} : OpenMenu(f)
  <2>1. TypeOK'
    BY <1>1, Selectable DEF OpenMenu, TypeOK, list, selection, drag, history, Selections
  <2> QED
    BY <1>1, <2>1, ElsewhereKeeps DEF OpenMenu, selection, drag
<1>2. CASE MenuSelectAll
  <2>1. TypeOK'
    BY <1>2, Selectable DEF MenuSelectAll, TypeOK, Item, SelectAll, Tell, NoMenu, list, selection, drag, history
  <2>2. ToldWhatIsSelected'
    BY <1>2 DEF MenuSelectAll, ToldWhatIsSelected, Reports, SelectAll, Tell
  <2>3. MarkedStill'
    BY <1>2, Selectable DEF MenuSelectAll, TypeOK, MarkedStill, Marked, Mouse
  <2> QED
    BY <2>1, <2>2, <2>3
<1>3. CASE MenuClear
  <2>1. TypeOK'
    BY <1>3, Selectable DEF MenuClear, TypeOK, ClearSelection, Tell, NoMenu, list, selection, drag, history
  <2>2. ToldWhatIsSelected'
    BY <1>3 DEF MenuClear, ToldWhatIsSelected, Reports, ClearSelection, Tell
  <2>3. MarkedStill'
    BY <1>3, Selectable DEF MenuClear, TypeOK, MarkedStill, Marked, Mouse
  <2> QED
    BY <2>1, <2>2, <2>3
<1>4. CASE MenuDelete
  <2>1. TypeOK'
    BY <1>4, Selectable DEF MenuDelete, TypeOK, AskDelete, Marked, NoDialog, NoMenu, list, selection, drag, history
  <2>2. ToldWhatIsSelected'
    BY <1>4 DEF MenuDelete, ToldWhatIsSelected, Reports, selection
  <2>3. MarkedStill'
    BY <1>4, Selectable DEF MenuDelete, TypeOK, MarkedStill, Marked, Mouse, AskDelete, selection
  <2> QED
    BY <2>1, <2>2, <2>3
<1>5. CASE MenuRemoveFromAlbum
  <2>1. TypeOK'
    BY <1>5, Selectable DEF MenuRemoveFromAlbum, TypeOK, Item, NoMenu, NoCall, list, selection, drag, history
  <2>2. ToldWhatIsSelected'
    BY <1>5 DEF MenuRemoveFromAlbum, ToldWhatIsSelected, Reports
  <2>3. MarkedStill'
    BY <1>5, Selectable DEF MenuRemoveFromAlbum, TypeOK, MarkedStill, Marked, Mouse
  <2> QED
    BY <2>1, <2>2, <2>3
<1> QED
  BY <1>1, <1>2, <1>3, <1>4, <1>5 DEF OfMenu

\* A drag leaves them alone.
LEMMA DragKeeps ==
  ASSUME BrowserInv, OfDrag
  PROVE  BrowserInv'
<1> USE DEF BrowserInv
<1>1. CASE \E f \in Files : DragStart(f)
  <2>1. TypeOK'
    <3>1. PICK f \in Files : DragStart(f)
      BY <1>1
    <3>2. f # None /\ dragged' # {} /\ dragged' \in Selections
      BY <3>1, Selectable, BrowserAssumption DEF DragStart, TypeOK, None
    <3> QED
      BY <3>1, <3>2, Selectable DEF DragStart, TypeOK, NoMenu, list, selection, history
  <2> QED
    BY <1>1, <2>1, ElsewhereKeeps DEF DragStart, selection, drag
<1>2. CASE \E f \in Files : DropOnFile(f)
  <2>1. TypeOK'
    BY <1>2, Selectable, IndexIsInt DEF DropOnFile, TypeOK, DragOver, list, selection, drag, history
  <2> QED
    BY <1>2, <2>1, ElsewhereKeeps DEF DropOnFile, selection, drag
<1>3. CASE DragEnd
  <2>1. TypeOK'
    BY <1>3, Selectable DEF DragEnd, TypeOK, DragOver, list, selection, drag, history
  <2> QED
    BY <1>3, <2>1, ElsewhereKeeps DEF DragEnd, selection, drag
<1>4. CASE DropOnAlbum
  <2>1. TypeOK'
    BY <1>4, Selectable DEF DropOnAlbum, TypeOK, DragOver, NoCall, Selections, list, selection, drag, history
  <2> QED
    BY <1>4, <2>1, ElsewhereKeeps DEF DropOnAlbum, selection, drag
<1>5. CASE Answer
  <2>1. TypeOK'
    BY <1>5, Selectable DEF Answer, TypeOK, NoCall, list, selection, drag, history
  <2> QED
    BY <1>5, <2>1, ElsewhereKeeps DEF Answer, selection, drag
<1> QED
  BY <1>1, <1>2, <1>3, <1>4, <1>5 DEF OfDrag

-----------------------------------------------------------------------------
LEMMA InitHolds == Init => BrowserInv
<1> SUFFICES ASSUME Init PROVE BrowserInv
  OBVIOUS
<1>1. {} \in Selections /\ sorting \in [BOOLEAN -> Sortings] /\ search \in Searches
  BY BrowserAssumption DEF Init, Selections
<1>2. TypeOK
  <2>1. NoCall \in [op : {"none", "delete", "remove", "assign", "reorder"}, of : Selections,
                    from : Int, to : Int]
    BY <1>1 DEF NoCall
  <2>2. NoMenu \in [open : BOOLEAN, of : Files \cup {None}, holds : Selections, clear : BOOLEAN]
    BY <1>1 DEF NoMenu
  <2> QED
    BY <1>1, <2>1, <2>2 DEF Init, TypeOK, NoDialog
<1> QED
  BY <1>2 DEF Init, BrowserInv, ToldWhatIsSelected, MarkedStill, NoDialog

LEMMA NextKeeps == BrowserInv /\ [Next]_vars => BrowserInv'
<1> SUFFICES ASSUME BrowserInv, [Next]_vars PROVE BrowserInv'
  OBVIOUS
<1>1. CASE UNCHANGED vars
  BY <1>1 DEF vars, list, selection, drag, history, BrowserInv, TypeOK, ToldWhatIsSelected, MarkedStill,
              Marked, Reports
<1> QED
  BY <1>1, ListKeeps, SelectionKeeps, DeletionKeeps, MenuKeeps, DragKeeps DEF Next

\* The inductive invariant of the browser.
THEOREM BrowserInvariant == Spec => []BrowserInv
BY InitHolds, NextKeeps, PTL DEF Spec

\* Every variable keeps its type, and no drag and no dialog leaves anything behind.
THEOREM TypeCorrect == Spec => []TypeOK
BY BrowserInvariant, PTL DEF BrowserInv

\* While something is selected the page has been told of it.
THEOREM PageIsTold == Spec => []ToldWhatIsSelected
BY BrowserInvariant, PTL DEF BrowserInv

\* Which steps ask the page for something.
LEMMA RequestsBegin ==
  ASSUME BrowserInv, [Next]_vars, call = NoCall
  PROVE  /\ call'.op = "delete" => ConfirmDelete
         /\ call'.op = "reorder" => \E g \in Files : DropOnFile(g)
<1>1. CASE UNCHANGED vars \/ OfList \/ OfSelection
  <2>1. call' = call
    BY <1>1 DEF vars, OfList, SelectAlbum, Search, Sort, Refresh, OfSelection, Click, Check,
                ClickSelectAll, ClickClear, PressSelectAll, PressEscape
  <2> QED
    BY <2>1 DEF NoCall
<1>2. CASE OfDeletion
  <2>1. ConfirmDelete \/ call' = NoCall
    BY <1>2 DEF OfDeletion, ClickDelete, PressDelete, CancelDelete, DeleteAnswer
  <2>2. ConfirmDelete => call'.op = "delete"
    BY DEF ConfirmDelete, NoCall
  <2> QED
    BY <2>1, <2>2 DEF NoCall
<1>3. CASE OfMenu
  <2>1. call' = call \/ call'.op = "remove"
    BY <1>3 DEF OfMenu, OpenMenu, MenuSelectAll, MenuClear, MenuDelete, MenuRemoveFromAlbum, NoCall
  <2> QED
    BY <2>1 DEF NoCall
<1>4. CASE OfDrag
  <2>1. \/ call' = NoCall \/ call'.op = "assign"
        \/ \E g \in Files : DropOnFile(g) /\ call'.op = "reorder"
    <3>1. ASSUME NEW g \in Files, DropOnFile(g) PROVE call'.op = "reorder"
      BY <3>1 DEF DropOnFile
    <3>2. ASSUME DropOnAlbum PROVE call'.op = "assign"
      BY <3>2 DEF DropOnAlbum, NoCall
    <3>3. ASSUME Answer \/ DragEnd \/ \E f \in Files : DragStart(f) PROVE call' = NoCall
      BY <1>4, <3>3 DEF DragStart, DragEnd, Answer
    <3> QED
      BY <1>4, <3>1, <3>2, <3>3 DEF OfDrag
  <2> QED
    BY <2>1 DEF NoCall
<1> QED
  BY <1>1, <1>2, <1>3, <1>4 DEF Next

\* A dialog deletes what was marked when it came up, or what has since been selected behind it.
THEOREM DeletesOnlyWhatWasAsked == Spec => DeletesWhatWasAsked
<1>1. ASSUME BrowserInv, [Next]_vars, call = NoCall, call'.op = "delete"
      PROVE  call'.of = meant \/ behind
  <2>1. ConfirmDelete
    BY <1>1, RequestsBegin
  <2>2. call'.of = FilesToDelete(dialog.of)
    BY <2>1 DEF ConfirmDelete, NoCall
  <2> QED
    BY <1>1, <2>1, <2>2 DEF ConfirmDelete, BrowserInv, MarkedStill, Marked, FilesToDelete
<1>2. BrowserInv /\ [Next]_vars => [call = NoCall /\ call'.op = "delete" => call'.of = meant \/ behind]_vars
  BY <1>1
<1> QED
  BY <1>2, BrowserInvariant, PTL DEF DeletesWhatWasAsked, Spec

\* In its layout, with nothing typed that hides a file, the album lists all its files in order.
LEMMA LayoutIsListed ==
  ASSUME TypeOK, CanReorder, ~HiddenByBlanks, NEW f \in Listed
  PROVE  where[f] = "in" /\ Index(f) = InLayout(f)
<1>1. Listed = {g \in Files : where[g] = "in"}
  BY DEF TypeOK, CanReorder, HiddenByBlanks, Listed, Shown, Places
<1>2. {g \in Listed : Before(g, f)}
        = {g \in Files : where[g] = "in" /\ Rank[Layout][g] < Rank[Layout][f]}
  BY <1>1 DEF CanReorder, Before
<1> QED
  BY <1>1, <1>2 DEF Index, InLayout

\* A reorder names the places of the two files in the whole album, unless spaces hide some of it.
THEOREM ReordersOnlyByLayout == Spec => ReordersByLayout
<1>1. ASSUME BrowserInv, [Next]_vars, call = NoCall, call'.op = "reorder"
      PROVE  ByLayout \/ HiddenByBlanks
  <2>1. PICK g \in Files : DropOnFile(g)
    BY <1>1, RequestsBegin
  <2>2. PICK f \in Listed : call' = [op |-> "reorder", of |-> {f}, from |-> Index(f), to |-> Index(g)]
    BY <2>1 DEF DropOnFile
  <2>3. g \in Listed /\ f \in Files /\ CanReorder /\ TypeOK
    BY <1>1, <2>1 DEF DropOnFile, Listed, Shown, BrowserInv
  <2> QED
    BY <2>2, <2>3, LayoutIsListed DEF ByLayout
<1>2. BrowserInv /\ [Next]_vars => [call = NoCall /\ call'.op = "reorder" => ByLayout \/ HiddenByBlanks]_vars
  BY <1>1
<1> QED
  BY <1>2, BrowserInvariant, PTL DEF ReordersByLayout, Spec

-----------------------------------------------------------------------------
(* The pages of the list.                                                   *)

\* A list that no other tab has changed waits with the page on which it was left.
Waiting == \A l \in Lists \ (foreign \cup {shown}) : savedPage[l] = left[l]

PagesInv == PagesTypeOK /\ Waiting

\* As many pages as it takes, and no more than files.
LEMMA PagesOfFiles ==
  ASSUME NEW files \in Nat, NEW s \in Nat \ {0}
  PROVE  Pages(files, s) \in 0..files /\ (Pages(files, s) > 0 => files > 0)
<1>1. (files + s - 1) \div s \in Nat
  OBVIOUS
<1>2. (files + s - 1) \div s <= files
  OBVIOUS
<1> QED
  BY <1>1, <1>2 DEF Pages

LEMMA SizesArePositive == Sizes \subseteq Nat \ {0}
<1>1. \A k \in Factors : ItemsPerPage * k \in Nat \ {0}
  BY PagesAssumption
<1> QED
  BY <1>1 DEF Sizes

\* After the effects the page is one that may be saved.
LEMMA SettledPage ==
  ASSUME PagesTypeOK, NEW l \in Lists, NEW files \in 0..MaxFiles, NEW reset \in BOOLEAN,
         Settle(l, files, reset), left' \in [Lists -> PageNumbers]
  PROVE  PagesTypeOK'
<1>1. savedPage' \in [Lists -> PageNumbers]
  BY PagesAssumption DEF Settle, PagesTypeOK, PageNumbers
<1> QED
  BY <1>1 DEF Settle, PagesTypeOK

LEMMA ButtonsAreNumbers ==
  ASSUME PagesTypeOK, NEW p \in Buttons
  PROVE  p \in Nat \ {0}
<1>1. page \in Nat \ {0} /\ TotalPages \in Nat
  BY PagesOfFiles, SizesArePositive, PagesAssumption DEF PagesTypeOK, PageNumbers, TotalPages
<1>2. \A i \in DOMAIN Numbered : Numbered[i] \in Nat \ {0}
  BY <1>1 DEF Numbered
<1> QED
  BY <1>1, <1>2 DEF Buttons, First, Last, Previous, Following

LEMMA ClickedPage ==
  ASSUME PagesInv, NEW p \in Buttons, ClickPage(p)
  PROVE  PagesInv'
<1> DEFINE pages == Pages(n, savedSize[shown])
           to == IF p # page /\ pages > 0 /\ p > pages THEN 1 ELSE p
<1>1. p \in Nat \ {0} /\ shown \in Lists /\ n \in 0..MaxFiles /\ page \in PageNumbers
  BY ButtonsAreNumbers DEF PagesInv, PagesTypeOK
<1>2. savedPage' = [savedPage EXCEPT ![shown] = to] /\ page' = to
  BY DEF ClickPage, PagesInv, PagesTypeOK
<1>3. to \in PageNumbers
  <2>1. savedSize[shown] \in Nat \ {0} /\ size \in Nat \ {0}
    BY SizesArePositive DEF PagesInv, PagesTypeOK
  <2>2. n \in Nat /\ n <= MaxFiles
    BY <1>1, PagesAssumption
  <2>3. pages \in 0..n /\ TotalPages \in 0..n
    BY <2>1, <2>2, PagesOfFiles DEF TotalPages
  <2>4. n > 0
    BY <2>2, <2>3 DEF ClickPage
  <2>5. pages > 0
    BY <2>1, <2>2, <2>4 DEF Pages
  <2> QED
    BY <1>1, <2>2, <2>3, <2>5, PagesAssumption DEF PageNumbers
<1> HIDE DEF pages, to
<1>4. PagesTypeOK'
  BY <1>2, <1>3 DEF ClickPage, PagesInv, PagesTypeOK
<1>5. Waiting'
  BY <1>2 DEF ClickPage, PagesInv, PagesTypeOK, Waiting
<1> QED
  BY <1>4, <1>5 DEF PagesInv

LEMMA PagesInvKept ==
  ASSUME PagesInv, [PagesNext]_pagesVars
  PROVE  PagesInv'
<1>1. ASSUME NEW l \in Lists, SelectList(l) PROVE PagesInv'
  <2>1. PICK files \in 0..MaxFiles : Settle(l, files, FALSE)
    BY <1>1 DEF SelectList, ResetOnSelect
  <2>2. l # shown /\ left' = [left EXCEPT ![shown] = page, ![l] = 1]
    BY <1>1 DEF SelectList
  <2>3. PagesTypeOK'
    <3>1. left' \in [Lists -> PageNumbers]
      BY <2>2, PagesAssumption DEF PagesInv, PagesTypeOK, PageNumbers
    <3> QED
      BY <2>1, <3>1, SettledPage DEF PagesInv
  <2>4. Waiting'
    BY <2>1, <2>2 DEF Settle, PagesInv, PagesTypeOK, Waiting
  <2> QED
    BY <2>3, <2>4 DEF PagesInv
<1>2. ASSUME NEW files \in 0..MaxFiles, NEW reset \in BOOLEAN,
             Settle(shown, files, reset), UNCHANGED left
      PROVE  PagesInv'
  <2>1. PagesTypeOK'
    BY <1>2, SettledPage DEF PagesInv, PagesTypeOK
  <2>2. Waiting'
    BY <1>2 DEF Settle, PagesInv, PagesTypeOK, Waiting
  <2> QED
    BY <2>1, <2>2 DEF PagesInv
<1>3. CASE FilesChange \/ SearchChanges \/ Rerender
  BY <1>2, <1>3 DEF FilesChange, SearchChanges, Rerender, PagesInv, PagesTypeOK
<1>4. CASE \E p \in Buttons : ClickPage(p)
  BY <1>4, ClickedPage
<1>5. ASSUME NEW s \in Sizes, ClickSize(s) PROVE PagesInv'
  BY <1>5 DEF ClickSize, WithSize, PagesInv, PagesTypeOK, Waiting
<1>6. ASSUME NEW l \in Lists, OtherTab(l) PROVE PagesInv'
  <2>1. \A p \in 1..MaxFiles : p \in PageNumbers
    BY PagesAssumption DEF PageNumbers
  <2>2. savedPage' \in [Lists -> PageNumbers] /\ savedSize' \in [Lists -> Sizes]
    BY <1>6, <2>1 DEF OtherTab, PagesInv, PagesTypeOK
  <2>3. \A k \in Lists \ {l} : savedPage'[k] = savedPage[k] /\ savedSize'[k] = savedSize[k]
    BY <1>6 DEF OtherTab, PagesInv, PagesTypeOK
  <2>4. foreign' = foreign \cup {l} /\ UNCHANGED <<shown, n, page, size, settled, left>>
    BY <1>6 DEF OtherTab
  <2>5. PagesTypeOK'
    BY <2>2, <2>3, <2>4 DEF PagesInv, PagesTypeOK
  <2>6. Waiting'
    BY <2>3, <2>4 DEF PagesInv, Waiting
  <2> QED
    BY <2>5, <2>6 DEF PagesInv
<1>7. CASE UNCHANGED pagesVars
  BY <1>7 DEF pagesVars, storage, pagesHistory, PagesInv, PagesTypeOK, Waiting
<1> QED
  BY <1>1, <1>3, <1>4, <1>5, <1>6, <1>7 DEF PagesNext

\* PagesInv holds initially, and every step keeps it.
THEOREM PagesInvariant == PagesSpec => []PagesInv
<1>1. PagesInit => PagesInv
  BY PagesAssumption DEF PagesInit, PagesInv, PagesTypeOK, Waiting, PageNumbers, Sizes
<1> QED
  BY <1>1, PagesInvKept, PTL DEF PagesSpec

\* ComesBack: whoever comes back to a list sees the page on which it was left, or the first when the
\* list has lost that page, unless another tab has changed it.
THEOREM PagesComeBack == PagesSpec => ComesBack
<1>1. PagesInv /\ [PagesNext]_pagesVars =>
        [shown' # shown /\ shown' \notin foreign =>
           page' = left[shown'] \/ (page' = 1 /\ n' > 0 /\ left[shown'] > Pages(n', size'))]_pagesVars
  <2> SUFFICES ASSUME PagesInv, [PagesNext]_pagesVars, shown' # shown, shown' \notin foreign
               PROVE  \/ page' = left[shown']
                      \/ page' = 1 /\ n' > 0 /\ left[shown'] > Pages(n', size')
    OBVIOUS
  <2>1. PICK l \in Lists, files \in 0..MaxFiles : l # shown /\ Settle(l, files, FALSE)
    BY DEF PagesNext, SelectList, ResetOnSelect, OtherTab, FilesChange, SearchChanges, Rerender,
       Settle, ClickPage, ClickSize, pagesVars
  <2>2. shown' = l /\ n' = files /\ size' = savedSize[l] /\ savedPage[l] = left[l]
    BY <2>1 DEF Settle, PagesInv, Waiting
  <2>3. page' = IF TooFar(l, files) THEN 1 ELSE savedPage[l]
    BY <2>1 DEF Settle, PagesInv, PagesTypeOK
  <2>4. TooFar(l, files) => files > 0 /\ savedPage[l] > Pages(files, savedSize[l])
    <3>1. files \in Nat
      BY PagesAssumption
    <3>2. savedSize[l] \in Nat \ {0}
      BY SizesArePositive DEF PagesInv, PagesTypeOK
    <3> QED
      BY <3>1, <3>2, PagesOfFiles DEF TooFar
  <2> QED
    BY <2>2, <2>3, <2>4
<1> QED
  BY <1>1, PagesInvariant, PTL DEF PagesSpec, ComesBack

\* A list that has files has a page, and after the effects it shows one of them.
LEMMA SettledHasFiles ==
  ASSUME PagesTypeOK, NEW l \in Lists, NEW files \in 0..MaxFiles, NEW reset \in BOOLEAN,
         Settle(l, files, reset)
  PROVE  PageHasFiles'
<1>1. files \in Nat /\ savedSize[l] \in Nat \ {0}
  <2>1. files \in Nat
    BY PagesAssumption
  <2>2. savedSize[l] \in Nat \ {0}
    BY SizesArePositive DEF PagesTypeOK
  <2> QED
    BY <2>1, <2>2
<1>2. files > 0 => Pages(files, savedSize[l]) >= 1
  BY <1>1 DEF Pages
<1>3. page' = IF reset \/ TooFar(l, files) THEN 1 ELSE savedPage[l]
  BY DEF Settle, PagesTypeOK
<1>4. TotalPages' = Pages(files, savedSize[l]) /\ n' = files
  BY DEF Settle, TotalPages, Pages
<1>5. savedPage[l] \in Nat /\ Pages(files, savedSize[l]) \in Nat
  BY <1>1, PagesOfFiles, PagesAssumption DEF PagesTypeOK, PageNumbers
<1> QED
  BY <1>2, <1>3, <1>4, <1>5 DEF PageHasFiles, TooFar

\* PageHasFiles: whatever was deleted, searched for or selected, the page shown has files.
THEOREM PagesHaveFiles == PagesSpec => []PageHasFiles
<1>1. PagesInit => PageHasFiles
  <2> SUFFICES ASSUME PagesInit, n > 0 PROVE page <= TotalPages
    BY DEF PageHasFiles
  <2>1. n \in Nat /\ size \in Nat \ {0} /\ page = 1
    BY PagesAssumption DEF PagesInit
  <2> QED
    BY <2>1 DEF TotalPages, Pages
<1>2. PagesInv /\ PageHasFiles /\ [PagesNext]_pagesVars => PageHasFiles'
  <2> SUFFICES ASSUME PagesInv, PageHasFiles, [PagesNext]_pagesVars PROVE PageHasFiles'
    OBVIOUS
  <2>1. ASSUME NEW l \in Lists, SelectList(l) PROVE PageHasFiles'
    BY <2>1, SettledHasFiles DEF SelectList, ResetOnSelect, PagesInv
  <2>2. CASE FilesChange \/ SearchChanges \/ Rerender
    BY <2>2, SettledHasFiles DEF FilesChange, SearchChanges, Rerender, PagesInv, PagesTypeOK
  <2>3. ASSUME NEW p \in Buttons, ClickPage(p) PROVE PageHasFiles'
    <3>1. p \in Nat \ {0} /\ n \in Nat /\ savedSize[shown] \in Nat \ {0} /\ UNCHANGED n
      <4>1. p \in Nat \ {0}
        BY ButtonsAreNumbers DEF PagesInv
      <4>2. n \in Nat
        BY PagesAssumption DEF PagesInv, PagesTypeOK
      <4>3. savedSize[shown] \in Nat \ {0}
        BY SizesArePositive DEF PagesInv, PagesTypeOK
      <4> QED
        BY <2>3, <4>1, <4>2, <4>3 DEF ClickPage
    <3>2. CASE p = page
      BY <2>3, <3>2 DEF ClickPage, PageHasFiles, TotalPages, Pages, PagesInv, PagesTypeOK
    <3>3. CASE p # page
      <4> DEFINE pages == Pages(n, savedSize[shown])
      <4>1. n > 0 => pages >= 1
        BY <3>1 DEF Pages
      <4>2. pages \in Nat
        BY <3>1, PagesOfFiles
      <4>3. page' = (IF pages > 0 /\ p > pages THEN 1 ELSE p) /\ size' = savedSize[shown]
        BY <2>3, <3>3 DEF ClickPage
      <4>4. TotalPages' = pages
        BY <3>1, <4>3 DEF TotalPages, Pages
      <4> HIDE DEF pages
      <4> QED
        BY <3>1, <4>1, <4>2, <4>3, <4>4 DEF PageHasFiles
    <3> QED
      BY <3>2, <3>3
  <2>4. ASSUME NEW s \in Sizes, ClickSize(s) PROVE PageHasFiles'
    BY <2>4 DEF ClickSize, PageHasFiles
  <2>5. CASE UNCHANGED <<n, page, size, settled>>
    BY <2>5 DEF PageHasFiles, TotalPages, Pages
  <2>6. CASE \E l \in Lists : OtherTab(l)
    BY <2>5, <2>6 DEF OtherTab
  <2>7. CASE UNCHANGED pagesVars
    BY <2>5, <2>7 DEF pagesVars, pagesHistory
  <2> QED
    BY <2>1, <2>2, <2>3, <2>4, <2>6, <2>7 DEF PagesNext
<1> QED
  BY <1>1, <1>2, PagesInvariant, PTL DEF PagesSpec

\* The numbers below a list, wherever its page is.
LEMMA NumbersAreAround ==
  ASSUME PagesTypeOK
  PROVE  NumbersAroundPage
<1> SUFFICES ASSUME page <= TotalPages
             PROVE  /\ \A i \in DOMAIN Numbered : Numbered[i] \in 1..TotalPages
                    /\ \A i \in DOMAIN Numbered \ {0} : Numbered[i] = Numbered[i - 1] + 1
                    /\ \E i \in DOMAIN Numbered : Numbered[i] = page
  BY DEF NumbersAroundPage
<1>1. page \in Nat \ {0} /\ TotalPages \in Nat
  BY PagesOfFiles, SizesArePositive, PagesAssumption DEF PagesTypeOK, PageNumbers, TotalPages
<1> DEFINE T == TotalPages
           from == IF T <= 5 \/ page <= 3 THEN 1 ELSE IF page >= T - 2 THEN T - 4 ELSE page - 2
           upTo == (IF T < 5 THEN T ELSE 5) - 1
<1>2. Numbered = [i \in 0..upTo |-> from + i]
  BY <1>1 DEF Numbered
<1>3. from \in Nat /\ upTo \in Int /\ from >= 1 /\ from + upTo <= T /\ from <= page /\ page <= from + upTo
  BY <1>1
<1> HIDE DEF from, upTo, T
<1>4. page - from \in 0..upTo /\ from + (page - from) = page
  BY <1>1, <1>3
<1>5. \A i \in 0..upTo : from + i \in 1..T
  BY <1>1, <1>3 DEF T
<1>6. \A i \in (0..upTo) \ {0} : i - 1 \in 0..upTo /\ from + i = from + (i - 1) + 1
  BY <1>3
<1>7. Numbered[page - from] = page /\ page - from \in DOMAIN Numbered
  BY <1>2, <1>4
<1> QED
  BY <1>2, <1>5, <1>6, <1>7 DEF T

-----------------------------------------------------------------------------
(* The sidebar of albums.                                                   *)

\* A tab that has read what another wrote last has it, until somebody overwrites it.
PinsAreRead ==
  \A t \in Tabs : sidebar[t].open /\ t \notin unread /\ ~overwritten => sidebar[t].pins = stored

LinksOfAlbums == \A a \in Albums : ~There(a) => albums[a].link = 0

\* A menu, or nothing.
MenusFit == \A t \in Tabs : sidebar[t].menu.link # 0 => sidebar[t].menu.album # NoAlbum

WorkFits(c) ==
  /\ c.pc = "idle" <=> c.op = "none"
  /\ c.op \in {"share", "unshare"} \cup Removals => c.album # NoAlbum
  /\ c.op = "create" => c.name # NoAlbum
  /\ c.pc = "thumbs" => c.op = "share"

\* What a handler has done is so in a table.
Done(rows, c) ==
  /\ c.op = "create" => \E a \in Albums : rows[a].name = c.name
  /\ c.op \in Removals => rows[c.album].name = Removed
  /\ c.op = "share" => rows[c.album].link # 0 \/ (c.pc = "thumbs" /\ rows[c.album].name \notin Names)
  /\ c.op = "unshare" => rows[c.album].link = 0

\* Unless another has overtaken it: in the table, in the answer under way, and in the list.
WorkIsSo(c, rows, tabs) ==
  /\ WorkFits(c)
  /\ c.pc \in {"thumbs", "fetch", "show", "end"} /\ ~c.overtaken => Done(rows, c)
  /\ c.pc = "show" /\ ~c.overtaken => c.answer = rows
  /\ c.pc = "end" /\ c.tab # NoTab /\ ~c.overtaken => Shows(tabs[c.tab].view, c)

SidebarInv ==
  /\ SidebarTypeOK /\ PinsSurvive
  /\ PinsAreRead /\ LinksOfAlbums /\ MenusFit
  /\ \A h \in WorkIds : WorkIsSo(work[h], albums, sidebar)

LEMMA DoneShows ==
  ASSUME NEW rows, NEW c \in Works, WorkFits(c), c.pc = "end", Done(rows, c)
  PROVE  Shows(rows, c)
BY DEF Shows, Done, WorkFits, Works, Removals

LEMMA RecordsFit ==
  /\ Closed \in Sidebars /\ NoAlbumMenu \in AlbumMenus /\ NoWork \in Works /\ NoRow \in AlbumRows
  /\ NoListing \in [Albums -> AlbumRows] /\ WorkFits(NoWork) /\ NoWork.pc = "idle"
<1>1. NoRow \in AlbumRows /\ NoAlbumMenu \in AlbumMenus
  BY SidebarAssumption DEF NoRow, AlbumRows, NoAlbumMenu, AlbumMenus
<1>2. NoListing \in [Albums -> AlbumRows]
  BY <1>1 DEF NoListing
<1>3. Closed \in Sidebars
  BY <1>1 DEF Closed, Sidebars
<1>4. NoWork \in Works
  BY <1>2 DEF NoWork, Works
<1> QED
  BY <1>1, <1>2, <1>3, <1>4 DEF NoWork, WorkFits, Removals

\* What a click makes of a tab.
LEMMA TabBecomes ==
  ASSUME SidebarInv, NEW t \in Tabs, NEW r \in Sidebars,
         sidebar' = [sidebar EXCEPT ![t] = r], UNCHANGED <<albums, covered, work, links, works>>,
         r.view \in {sidebar[t].view, albums}, r.menu.link # 0 => r.menu.album # NoAlbum,
         stored' \subseteq Albums, pinned' \subseteq Albums, unread' \subseteq Tabs,
         overwritten' \in BOOLEAN, refusals' \in 0..MaxRefusals, PinsSurvive', PinsAreRead'
  PROVE  SidebarInv'
<1> USE DEF SidebarInv
<1>1. sidebar' \in [Tabs -> Sidebars] /\ sidebar'[t] = r
      /\ \A u \in Tabs : u # t => sidebar'[u] = sidebar[u]
  BY DEF SidebarTypeOK
<1>2. SidebarTypeOK'
  BY <1>1 DEF SidebarTypeOK
<1>3. ASSUME NEW h \in WorkIds PROVE WorkIsSo(work[h], albums, sidebar')
  <2>1. work[h] \in Works /\ WorkIsSo(work[h], albums, sidebar)
    BY DEF SidebarTypeOK
  <2>2. ASSUME work[h].pc = "end", work[h].tab # NoTab, ~work[h].overtaken
        PROVE  Shows(sidebar'[work[h].tab].view, work[h])
    <3>1. /\ Shows(albums, work[h]) /\ Shows(sidebar[work[h].tab].view, work[h])
          /\ work[h].tab \in Tabs
      BY <2>1, <2>2, DoneShows DEF WorkIsSo, Works
    <3> QED
      BY <1>1, <3>1
  <2> QED
    BY <2>1, <2>2 DEF WorkIsSo
<1>4. MenusFit'
  BY <1>1 DEF MenusFit
<1>5. LinksOfAlbums'
  BY DEF LinksOfAlbums, There
<1> QED
  BY <1>2, <1>3, <1>4, <1>5

\* A click that pins nothing.
LEMMA ClickKeeps ==
  ASSUME SidebarInv, NEW t \in Tabs, NEW r \in Sidebars,
         sidebar' = [sidebar EXCEPT ![t] = r],
         UNCHANGED <<albums, covered, work, pinning, links, works, refusals>>,
         r.view = sidebar[t].view, r.menu.link # 0 => r.menu.album # NoAlbum,
         r.open = sidebar[t].open, r.pins = sidebar[t].pins
  PROVE  SidebarInv'
<1>1. PinsSurvive' /\ PinsAreRead'
  BY DEF SidebarInv, PinsSurvive, PinsAreRead, pinning, SidebarTypeOK
<1> QED
  BY <1>1, TabBecomes DEF SidebarInv, SidebarTypeOK, pinning

\* The list appears, or goes.
LEMMA ListsKeep ==
  ASSUME SidebarInv, NEW t \in Tabs, Mount(t) \/ LeavePage(t)
  PROVE  SidebarInv'
<1> USE DEF SidebarInv
<1>1. CASE Mount(t)
  <2> DEFINE r == [Closed EXCEPT !.open = TRUE, !.view = albums, !.pins = StoredPins]
  <2>1. r \in Sidebars /\ r.menu = NoAlbumMenu /\ r.pins = stored /\ r.open /\ r.view = albums
    BY RecordsFit DEF Closed, Sidebars, SidebarTypeOK, StoredPins
  <2>2. PinsSurvive' /\ PinsAreRead'
    BY <1>1, <2>1 DEF Mount, PinsSurvive, PinsAreRead, SidebarTypeOK
  <2>3. r.menu.link = 0
    BY <2>1 DEF NoAlbumMenu
  <2>4. sidebar' = [sidebar EXCEPT ![t] = r] /\ UNCHANGED <<albums, covered, work, links, works>>
    BY <1>1 DEF Mount
  <2>5. /\ stored' \subseteq Albums /\ pinned' \subseteq Albums /\ unread' \subseteq Tabs
        /\ overwritten' \in BOOLEAN /\ refusals' \in 0..MaxRefusals
    BY <1>1 DEF Mount, SidebarTypeOK
  <2> HIDE DEF r
  <2> QED
    BY <2>1, <2>2, <2>3, <2>4, <2>5, TabBecomes
<1>2. CASE LeavePage(t)
  <2>1. Closed.menu.link = 0 /\ ~Closed.open /\ Closed \in Sidebars
    BY RecordsFit DEF Closed, NoAlbumMenu
  <2>2. sidebar' \in [Tabs -> Sidebars] /\ sidebar'[t] = Closed
        /\ \A u \in Tabs : u # t => sidebar'[u] = sidebar[u]
    BY <1>2, <2>1 DEF LeavePage, SidebarTypeOK
  <2>3. ASSUME NEW h \in WorkIds
        PROVE  work'[h] \in Works /\ WorkIsSo(work'[h], albums', sidebar')
    <3>1. work[h] \in Works /\ WorkIsSo(work[h], albums, sidebar) /\ albums' = albums
      BY <1>2 DEF SidebarTypeOK, LeavePage
    <3>2. CASE work[h].tab = t
      <4> DEFINE c == [work[h] EXCEPT !.tab = NoTab]
      <4>1. work'[h] = c
        BY <1>2, <3>2 DEF LeavePage
      <4>2. /\ c \in Works /\ c.tab = NoTab /\ c.pc = work[h].pc /\ c.op = work[h].op
            /\ c.album = work[h].album /\ c.name = work[h].name /\ c.answer = work[h].answer
            /\ c.overtaken = work[h].overtaken
        BY <3>1 DEF Works
      <4> HIDE DEF c
      <4> QED
        BY <3>1, <4>1, <4>2 DEF WorkIsSo, WorkFits, Done
    <3>3. CASE work[h].tab # t
      <4>1. work'[h] = work[h]
        BY <1>2, <3>3 DEF LeavePage
      <4>2. work[h].tab # NoTab => sidebar'[work[h].tab] = sidebar[work[h].tab]
        BY <2>2, <3>1, <3>3 DEF Works
      <4> QED
        BY <3>1, <4>1, <4>2 DEF WorkIsSo
    <3> QED
      BY <3>2, <3>3
  <2>4. work' \in [WorkIds -> Works]
    BY <1>2, <2>3 DEF LeavePage
  <2>5. SidebarTypeOK'
    BY <1>2, <2>2, <2>4 DEF LeavePage, SidebarTypeOK, pinning
  <2>6. PinsSurvive' /\ PinsAreRead' /\ LinksOfAlbums' /\ MenusFit'
    BY <1>2, <2>1, <2>2 DEF LeavePage, pinning, PinsSurvive, PinsAreRead, LinksOfAlbums, There, MenusFit
  <2> QED
    BY <2>3, <2>5, <2>6
<1> QED
  BY <1>1, <1>2

\* The form, the menu and the dialog.
LEMMA FormsKeep ==
  ASSUME SidebarInv, NEW t \in Tabs,
         \/ \E q \in Names \cup {NoAlbum} : Type(t, q)
         \/ \E a \in Albums : OpenAlbumMenu(t, a)
         \/ Ask(t) \/ KeepAlbum(t)
  PROVE  SidebarInv'
<1> USE DEF SidebarInv
<1> DEFINE Alike(r) == r.pins = sidebar[t].pins /\ r.view = sidebar[t].view /\ r.open = sidebar[t].open
<1>1. ASSUME NEW q \in Names \cup {NoAlbum}, Type(t, q) PROVE SidebarInv'
  <2> DEFINE r == [sidebar[t] EXCEPT !.form = q, !.menu = NoAlbumMenu]
  <2>1. r \in Sidebars /\ r.menu.link = 0 /\ Alike(r)
    BY RecordsFit DEF Sidebars, SidebarTypeOK, NoAlbumMenu
  <2>2. sidebar' = [sidebar EXCEPT ![t] = r]
    BY <1>1 DEF Type
  <2> HIDE DEF r
  <2> QED
    BY <1>1, <2>1, <2>2, ClickKeeps DEF Type
<1>2. ASSUME NEW a \in Albums, OpenAlbumMenu(t, a) PROVE SidebarInv'
  <2> DEFINE m == [album |-> a, link |-> sidebar[t].view[a].link, pinned |-> a \in sidebar[t].pins]
             r == [sidebar[t] EXCEPT !.menu = m]
  <2>1. m \in AlbumMenus /\ m.album = a
    BY DEF AlbumMenus, Sidebars, AlbumRows, SidebarTypeOK
  <2>2. sidebar' = [sidebar EXCEPT ![t] = r]
    BY <1>2 DEF OpenAlbumMenu
  <2> HIDE DEF m
  <2>3. r \in Sidebars /\ r.menu = m /\ Alike(r)
    <3>1. sidebar[t] \in Sidebars
      BY DEF SidebarTypeOK
    <3> QED
      BY <2>1, <3>1 DEF Sidebars
  <2>4. r.menu.link # 0 => r.menu.album # NoAlbum
    BY <2>1, <2>3, SidebarAssumption
  <2> HIDE DEF r
  <2> QED
    BY <1>2, <2>2, <2>3, <2>4, ClickKeeps DEF OpenAlbumMenu
<1>3. CASE Ask(t)
  <2> DEFINE r == [sidebar[t] EXCEPT !.asked = sidebar[t].menu.album, !.menu = NoAlbumMenu]
  <2>1. r \in Sidebars /\ r.menu.link = 0 /\ Alike(r)
    BY RecordsFit DEF Sidebars, SidebarTypeOK, NoAlbumMenu, AlbumMenus
  <2>2. sidebar' = [sidebar EXCEPT ![t] = r]
    BY <1>3 DEF Ask
  <2> HIDE DEF r
  <2> QED
    BY <1>3, <2>1, <2>2, ClickKeeps DEF Ask
<1>4. CASE KeepAlbum(t)
  <2> DEFINE r == [sidebar[t] EXCEPT !.asked = NoAlbum]
  <2>1. r \in Sidebars /\ r.menu = sidebar[t].menu /\ Alike(r)
    BY DEF Sidebars, SidebarTypeOK
  <2>2. r.menu.link # 0 => r.menu.album # NoAlbum
    BY <2>1 DEF MenusFit
  <2>3. sidebar' = [sidebar EXCEPT ![t] = r]
    BY <1>4 DEF KeepAlbum
  <2> HIDE DEF r
  <2> QED
    BY <1>4, <2>1, <2>2, <2>3, ClickKeeps DEF KeepAlbum
<1> QED
  BY <1>1, <1>2, <1>3, <1>4

\* A tab that has read what is stored adds to it, or takes from it, what the click did.
LEMMA PinsKeep ==
  ASSUME SidebarInv, NEW t \in Tabs, Pin(t) \/ Unpin(t)
  PROVE  SidebarInv'
<1> USE DEF SidebarInv
<1> DEFINE a == sidebar[t].menu.album
           pins == IF Pin(t) THEN sidebar[t].pins \cup {a} ELSE sidebar[t].pins \ {a}
           r == [sidebar[t] EXCEPT !.pins = pins, !.menu = NoAlbumMenu]
<1>1. pins \subseteq Albums
  BY DEF Pin, Unpin, SidebarTypeOK, Sidebars, AlbumMenus
<1>2. pinned' = IF Pin(t) THEN pinned \cup {a} ELSE pinned \ {a}
  BY DEF Pin, Unpin
<1>3. pinned' \subseteq Albums
  BY <1>2 DEF Pin, Unpin, SidebarTypeOK, Sidebars, AlbumMenus
<1>4. /\ sidebar' = [sidebar EXCEPT ![t] = r] /\ Ready(t)
      /\ UNCHANGED <<albums, covered, work, links, works>>
  BY DEF Pin, Unpin
<1>5. sidebar'[t] = r /\ r.pins = pins /\ r.menu.link = 0 /\ r.view = sidebar[t].view
  BY <1>4 DEF SidebarTypeOK, Sidebars, NoAlbumMenu
<1>6. Write(t, pins)
  BY <1>5 DEF Pin, Unpin
<1>7. ~overwritten /\ t \notin unread => pins = pinned'
  BY <1>2, <1>4 DEF PinsSurvive, PinsAreRead, Ready
<1>8. r \in Sidebars
  BY <1>1, RecordsFit DEF Sidebars, SidebarTypeOK
<1>9. /\ stored' \subseteq Albums /\ unread' \subseteq Tabs /\ overwritten' \in BOOLEAN
      /\ refusals' \in 0..MaxRefusals
  <2>1. MaxRefusals \in Nat /\ refusals \in 0..MaxRefusals
    BY SidebarAssumption DEF SidebarTypeOK
  <2>2. refusals' \in 0..MaxRefusals
    BY <1>6, <2>1 DEF Write, Refuses
  <2> HIDE DEF r, pins
  <2> QED
    BY <1>1, <1>6, <2>2 DEF Write, Refuses, SidebarTypeOK
<1>10. PinsSurvive'
  BY <1>6, <1>7 DEF Write, PinsSurvive
<1>11. PinsAreRead'
  <2> SUFFICES ASSUME NEW u \in Tabs, sidebar'[u].open, u \notin unread', ~overwritten'
               PROVE  sidebar'[u].pins = stored'
    BY DEF PinsAreRead
  <2>1. stored' = pins /\ unread' = {v \in Tabs \ {t} : sidebar[v].open}
    BY <1>6 DEF Write
  <2>2. u = t
    BY <1>4, <2>1 DEF SidebarTypeOK
  <2> QED
    BY <1>5, <2>1, <2>2
<1> HIDE DEF r, pins
<1> QED
  BY <1>3, <1>4, <1>5, <1>8, <1>9, <1>10, <1>11, TabBecomes

-----------------------------------------------------------------------------
(* Its handlers.                                                            *)

\* The lists and the pins of the tabs stay.
SameLists ==
  /\ sidebar' \in [Tabs -> Sidebars]
  /\ \A u \in Tabs : /\ sidebar'[u].view = sidebar[u].view /\ sidebar'[u].open = sidebar[u].open
                     /\ sidebar'[u].pins = sidebar[u].pins
                     /\ sidebar'[u].menu.link # 0 => sidebar'[u].menu.album # NoAlbum

LEMMA SameSidebar ==
  ASSUME SidebarInv, sidebar' = sidebar
  PROVE  SameLists
BY DEF SameLists, SidebarInv, SidebarTypeOK, MenusFit

\* What a step of a handler makes of it.
LEMMA WorkBecomes ==
  ASSUME SidebarInv, NEW h \in WorkIds, NEW c \in Works,
         work' = [work EXCEPT ![h] = c], covered' \subseteq Tabs, SameLists,
         UNCHANGED <<albums, pinning, links>>,
         works' \in 0..MaxWorks, refusals' \in 0..MaxRefusals, WorkIsSo(c, albums, sidebar)
  PROVE  SidebarInv'
<1> USE DEF SidebarInv, SameLists
<1>1. work' \in [WorkIds -> Works] /\ work'[h] = c /\ \A k \in WorkIds : k # h => work'[k] = work[k]
  BY DEF SidebarTypeOK
<1>2. ASSUME NEW k \in WorkIds PROVE WorkIsSo(work'[k], albums', sidebar')
  <2>1. work'[k] \in Works /\ WorkIsSo(work'[k], albums, sidebar)
    BY <1>1
  <2>2. work'[k].tab # NoTab => sidebar'[work'[k].tab].view = sidebar[work'[k].tab].view
    BY <2>1 DEF Works
  <2> QED
    BY <2>1, <2>2 DEF WorkIsSo
<1>3. SidebarTypeOK'
  BY <1>1 DEF SidebarTypeOK, pinning
<1>4. MenusFit' /\ LinksOfAlbums'
  BY DEF MenusFit, LinksOfAlbums, There
<1>5. PinsSurvive' /\ PinsAreRead'
  BY DEF PinsSurvive, PinsAreRead, pinning
<1> QED
  BY <1>2, <1>3, <1>4, <1>5

LEMMA NoWorkIsSo == WorkIsSo(NoWork, albums, sidebar)
BY RecordsFit DEF WorkIsSo

\* Failures and the end.
LEMMA WorkEnds ==
  ASSUME SidebarInv, NEW h \in WorkIds, EndsWork(h), SameLists, UNCHANGED <<albums, pinning, links>>,
         works' \in 0..MaxWorks, refusals' \in 0..MaxRefusals
  PROVE  SidebarInv'
<1>1. covered' \subseteq Tabs
  BY DEF EndsWork, SidebarInv, SidebarTypeOK
<1> QED
  BY <1>1, RecordsFit, NoWorkIsSo, WorkBecomes DEF EndsWork

\* The form, the dialog, the menu or an upload begins a handler.
LEMMA BeginsKeep ==
  ASSUME SidebarInv, NEW t \in Tabs,
         CreateAlbum(t) \/ ConfirmRemoval(t) \/ ShareAlbum(t) \/ UnshareAlbum(t) \/ RefreshAlbums(t)
  PROVE  SidebarInv'
<1> USE DEF SidebarInv
<1>1. ASSUME NEW c \in Works, WorkIsSo(c, albums, sidebar), BeginWork(t, c), SameLists
      PROVE  SidebarInv'
  <2>1. works + 1 \in WorkIds /\ works' \in 0..MaxWorks /\ covered' \subseteq Tabs
    BY <1>1, SidebarAssumption DEF BeginWork, SidebarTypeOK, WorkIds
  <2>2. refusals' \in 0..MaxRefusals /\ work' = [work EXCEPT ![works + 1] = c]
        /\ UNCHANGED <<albums, pinning, links>>
    BY <1>1 DEF BeginWork, SidebarTypeOK
  <2> QED
    BY <1>1, <2>1, <2>2, WorkBecomes
<1>2. ASSUME NEW op \in {"create", "share", "unshare"} \cup Removals, NEW a \in Albums \cup {NoAlbum},
             NEW q \in Names \cup {NoAlbum}, BeginClick(t, op, a, q),
             IF op = "create" THEN q # NoAlbum ELSE a # NoAlbum
      PROVE  SidebarInv'
  <2> DEFINE c == [NoWork EXCEPT !.pc = "check", !.op = op, !.tab = t, !.album = a, !.name = q]
             r == [sidebar[t] EXCEPT !.menu = NoAlbumMenu]
  <2>1. c \in Works /\ c.pc = "check" /\ c.op = op /\ c.album = a /\ c.name = q
    BY RecordsFit DEF Works, NoWork
  <2>2. WorkIsSo(c, albums, sidebar)
    <3> HIDE DEF c
    <3> QED
      BY <1>2, <2>1 DEF WorkIsSo, WorkFits, Removals
  <2>3. /\ r \in Sidebars /\ r.menu.link = 0 /\ r.pins = sidebar[t].pins /\ r.open = sidebar[t].open
        /\ r.view = sidebar[t].view
    BY RecordsFit DEF Sidebars, SidebarTypeOK, NoAlbumMenu
  <2>4. sidebar' = [sidebar EXCEPT ![t] = r] /\ BeginWork(t, c)
    BY <1>2 DEF BeginClick
  <2> HIDE DEF c, r
  <2>5. SameLists
    BY <2>3, <2>4 DEF SameLists, SidebarTypeOK, MenusFit
  <2> QED
    BY <1>1, <2>1, <2>2, <2>4, <2>5
<1>3. sidebar[t] \in Sidebars /\ sidebar[t].menu \in AlbumMenus
  BY DEF SidebarTypeOK, Sidebars
<1>4. CASE CreateAlbum(t)
  BY <1>2, <1>3, <1>4 DEF CreateAlbum, Sidebars
<1>5. CASE ConfirmRemoval(t)
  <2>1. PICK op \in Removals : BeginClick(t, op, sidebar[t].asked, NoAlbum)
    BY <1>5 DEF ConfirmRemoval
  <2> QED
    BY <1>2, <1>3, <1>5, <2>1 DEF ConfirmRemoval, Sidebars, Removals
<1>6. CASE ShareAlbum(t)
  BY <1>2, <1>3, <1>6 DEF ShareAlbum, AlbumMenus
<1>7. CASE UnshareAlbum(t)
  BY <1>2, <1>3, <1>7 DEF UnshareAlbum, AlbumMenus, MenusFit
<1>8. CASE RefreshAlbums(t)
  <2> DEFINE c == [NoWork EXCEPT !.pc = "fetch", !.op = "refresh", !.tab = t]
  <2>1. c \in Works /\ c.pc = "fetch" /\ c.op = "refresh"
    BY RecordsFit DEF Works, NoWork
  <2>2. BeginWork(t, c) /\ sidebar' = sidebar
    BY <1>8 DEF RefreshAlbums
  <2> HIDE DEF c
  <2>3. WorkIsSo(c, albums, sidebar)
    BY <2>1 DEF WorkIsSo, WorkFits, Done, Removals
  <2> QED
    BY <1>1, <2>1, <2>2, <2>3, SameSidebar
<1> QED
  BY <1>4, <1>5, <1>6, <1>7, <1>8

\* A handler that goes on to another place.
LEMMA WorkGoesOn ==
  ASSUME SidebarInv, NEW h \in WorkIds, NEW pc \in {"write", "fetch"}, GoesOn(h, pc),
         work[h].pc # "idle", UNCHANGED <<albums, pinning, links>>,
         works' \in 0..MaxWorks, refusals' \in 0..MaxRefusals,
         pc = "fetch" /\ ~work[h].overtaken => Done(albums, [work[h] EXCEPT !.pc = pc])
  PROVE  SidebarInv'
<1> DEFINE c == [work[h] EXCEPT !.pc = pc]
<1>1. /\ c \in Works /\ c.pc = pc /\ c.op = work[h].op /\ c.name = work[h].name
      /\ c.album = work[h].album /\ c.overtaken = work[h].overtaken
  BY DEF SidebarInv, SidebarTypeOK, Works
<1>2. WorkFits(work[h])
  BY DEF SidebarInv, WorkIsSo
<1>3. work' = [work EXCEPT ![h] = c] /\ covered' \subseteq Tabs /\ sidebar' = sidebar
  BY DEF GoesOn, SidebarInv, SidebarTypeOK
<1>4. pc = "fetch" /\ ~work[h].overtaken => Done(albums, c)
  OBVIOUS
<1> HIDE DEF c
<1>5. WorkIsSo(c, albums, sidebar)
  BY <1>1, <1>2, <1>4 DEF WorkIsSo, WorkFits
<1> QED
  BY <1>1, <1>3, <1>5, SameSidebar, WorkBecomes

\* Steps of a handler that write nothing in the table.
LEMMA ReadsOfAlbumsKeep ==
  ASSUME SidebarInv, NEW h \in WorkIds,
         CheckAlbum(h) \/ Thumbs(h) \/ Lost(h) \/ FetchBucketData(h)
  PROVE  SidebarInv'
<1> USE DEF SidebarInv
<1>1. work[h] \in Works /\ WorkIsSo(work[h], albums, sidebar) /\ work[h].pc # "idle"
      /\ works' \in 0..MaxWorks /\ UNCHANGED <<albums, pinning, links>>
  BY DEF SidebarTypeOK, CheckAlbum, Thumbs, Lost, FetchBucketData
<1>2. refusals' \in 0..MaxRefusals
  BY SidebarAssumption DEF SidebarTypeOK, CheckAlbum, Thumbs, Lost, Refuses, FetchBucketData
<1>3. CASE Failed(h)
  BY <1>1, <1>2, <1>3, SameSidebar, WorkEnds DEF Failed
<1>4. CASE CheckAlbum(h) /\ ~Failed(h)
  <2> DEFINE pc == IF work[h].op = "share" /\ albums[work[h].album].link # 0 THEN "fetch" ELSE "write"
             c == [work[h] EXCEPT !.pc = pc]
  <2>1. c.pc = pc /\ c.op = work[h].op /\ c.album = work[h].album
    BY <1>1 DEF Works
  <2>2. pc = "fetch" => Done(albums, c)
    BY <2>1 DEF Done, Removals
  <2>3. GoesOn(h, pc)
    BY <1>4 DEF CheckAlbum
  <2> HIDE DEF c
  <2>4. pc = "fetch" => Done(albums, [work[h] EXCEPT !.pc = pc])
    BY <2>2 DEF c
  <2> QED
    BY <1>1, <1>2, <2>3, <2>4, WorkGoesOn
<1>5. CASE Thumbs(h) /\ ~Failed(h)
  <2> DEFINE c == [work[h] EXCEPT !.pc = "fetch"]
  <2>1. c.pc = "fetch" /\ c.op = work[h].op /\ c.name = work[h].name /\ c.album = work[h].album
    BY <1>1 DEF Works
  <2>2. ~work[h].overtaken => Done(albums, c)
    BY <1>1, <1>5, <2>1 DEF Done, Thumbs, There, WorkIsSo, WorkFits, Removals
  <2>3. GoesOn(h, "fetch")
    BY <1>5 DEF Thumbs
  <2> HIDE DEF c
  <2>4. ~work[h].overtaken => Done(albums, [work[h] EXCEPT !.pc = "fetch"])
    BY <2>2 DEF c
  <2> QED
    BY <1>1, <1>2, <2>3, <2>4, WorkGoesOn
<1>6. CASE FetchBucketData(h)
  <2> DEFINE c == [work[h] EXCEPT !.pc = "show", !.answer = albums]
  <2>1. /\ c \in Works /\ c.pc = "show" /\ c.op = work[h].op /\ c.name = work[h].name
        /\ c.album = work[h].album /\ c.overtaken = work[h].overtaken /\ c.answer = albums
    BY <1>1 DEF Works, SidebarTypeOK
  <2>2. /\ work' = [work EXCEPT ![h] = c] /\ covered' \subseteq Tabs /\ sidebar' = sidebar
        /\ work[h].pc = "fetch"
    BY <1>6 DEF FetchBucketData, SidebarTypeOK
  <2> HIDE DEF c
  <2>3. WorkIsSo(c, albums, sidebar)
    BY <1>1, <2>1, <2>2 DEF WorkIsSo, WorkFits, Done
  <2> QED
    BY <1>1, <1>2, <2>1, <2>2, <2>3, SameSidebar, WorkBecomes
<1> QED
  BY <1>3, <1>4, <1>5, <1>6 DEF Lost

\* The answer is shown: it is what the table is now, or overtakes what the tab has shown.
LEMMA AnswerKeeps ==
  ASSUME SidebarInv, NEW h \in WorkIds, SetBucketData(h)
  PROVE  SidebarInv'
<1> USE DEF SidebarInv
<1> DEFINE t == work[h].tab
           c == [work[h] EXCEPT !.pc = "end", !.answer = NoListing]
           Behind(k) == [work[k] EXCEPT !.overtaken = @ \/ work[h].answer # albums]
<1>1. /\ work[h] \in Works /\ WorkIsSo(work[h], albums, sidebar) /\ work[h].pc = "show"
      /\ UNCHANGED <<albums, covered, pinning, links, works, refusals>>
  BY DEF SidebarTypeOK, SetBucketData
<1>2. /\ c \in Works /\ c.pc = "end" /\ c.op = work[h].op /\ c.name = work[h].name /\ c.tab = t
      /\ c.album = work[h].album /\ c.overtaken = work[h].overtaken
  BY <1>1, RecordsFit DEF Works
<1>3. /\ sidebar' \in [Tabs -> Sidebars]
      /\ \A u \in Tabs : /\ sidebar'[u].view = (IF u = t THEN work[h].answer ELSE sidebar[u].view)
                         /\ sidebar'[u].open = sidebar[u].open /\ sidebar'[u].pins = sidebar[u].pins
                         /\ sidebar'[u].menu = sidebar[u].menu
  <2>1. work[h].answer \in [Albums -> AlbumRows] /\ t \in Tabs \cup {NoTab}
    BY <1>1 DEF Works
  <2>2. CASE t = NoTab
    BY <2>2, SidebarAssumption DEF SetBucketData, SidebarTypeOK
  <2>3. CASE t \in Tabs
    <3> DEFINE r == [sidebar[t] EXCEPT !.view = work[h].answer]
    <3>1. /\ r \in Sidebars /\ r.view = work[h].answer /\ r.open = sidebar[t].open
          /\ r.pins = sidebar[t].pins /\ r.menu = sidebar[t].menu
      <4>1. sidebar[t] \in Sidebars
        BY <2>3 DEF SidebarTypeOK
      <4> HIDE DEF t
      <4> QED
        BY <2>1, <4>1 DEF Sidebars
    <3>2. sidebar' = [sidebar EXCEPT ![t] = r]
      BY <2>3, SidebarAssumption DEF SetBucketData
    <3> HIDE DEF r
    <3> QED
      BY <2>3, <3>1, <3>2 DEF SidebarTypeOK
  <2> QED
    BY <2>1, <2>2, <2>3
<1>4. work' = [k \in WorkIds |-> IF k = h THEN c
                                 ELSE IF work[k].tab = t /\ work[k].pc = "end" THEN Behind(k) ELSE work[k]]
  BY DEF SetBucketData
<1> HIDE DEF t, c
<1>5. ASSUME NEW k \in WorkIds
      PROVE  work'[k] \in Works /\ WorkIsSo(work'[k], albums', sidebar')
  <2>1. work[k] \in Works /\ WorkIsSo(work[k], albums, sidebar)
    BY DEF SidebarTypeOK
  <2>2. CASE k = h
    <3>1. work'[k] = c
      BY <1>4, <2>2
    <3>2. WorkFits(c) /\ (~c.overtaken => Done(albums, c) /\ work[h].answer = albums)
      BY <1>1, <1>2 DEF WorkIsSo, WorkFits, Done
    <3>3. c.tab # NoTab /\ ~c.overtaken => Shows(sidebar'[c.tab].view, c)
      <4> SUFFICES ASSUME c.tab # NoTab, ~c.overtaken PROVE Shows(sidebar'[c.tab].view, c)
        OBVIOUS
      <4>1. t \in Tabs /\ sidebar'[t].view = albums
        BY <1>2, <1>3, <3>2 DEF Works
      <4>2. Shows(albums, c)
        BY <1>2, <3>2, DoneShows
      <4> QED
        BY <1>2, <4>1, <4>2
    <3> QED
      BY <1>1, <1>2, <3>1, <3>2, <3>3 DEF WorkIsSo
  <2>3. CASE k # h /\ work[k].tab = t /\ work[k].pc = "end"
    <3> DEFINE d == Behind(k)
    <3>1. work'[k] = d
      BY <1>4, <2>3
    <3>2. /\ d \in Works /\ d.pc = "end" /\ d.op = work[k].op /\ d.name = work[k].name /\ d.tab = t
          /\ d.album = work[k].album /\ d.overtaken = (work[k].overtaken \/ work[h].answer # albums)
      BY <2>1, <2>3 DEF Works
    <3> HIDE DEF d
    <3>3. WorkFits(d) /\ (~d.overtaken => Done(albums, d) /\ work[h].answer = albums)
      BY <2>1, <2>3, <3>2 DEF WorkIsSo, WorkFits, Done
    <3>4. d.tab # NoTab /\ ~d.overtaken => Shows(sidebar'[d.tab].view, d)
      <4> SUFFICES ASSUME d.tab # NoTab, ~d.overtaken PROVE Shows(sidebar'[d.tab].view, d)
        OBVIOUS
      <4>1. t \in Tabs /\ sidebar'[t].view = albums
        BY <1>3, <3>2, <3>3 DEF Works
      <4>2. Shows(albums, d)
        BY <3>2, <3>3, DoneShows
      <4> QED
        BY <3>2, <4>1, <4>2
    <3> QED
      BY <1>1, <3>1, <3>2, <3>3, <3>4 DEF WorkIsSo
  <2>4. CASE k # h /\ ~(work[k].tab = t /\ work[k].pc = "end")
    <3>1. work'[k] = work[k]
      BY <1>4, <2>4
    <3>2. work[k].pc = "end" /\ work[k].tab # NoTab => sidebar'[work[k].tab].view = sidebar[work[k].tab].view
      BY <1>3, <2>1, <2>4 DEF Works
    <3> QED
      BY <1>1, <2>1, <3>1, <3>2 DEF WorkIsSo
  <2> QED
    BY <2>2, <2>3, <2>4
<1>6. work' \in [WorkIds -> Works]
  BY <1>4, <1>5
<1>7. SidebarTypeOK'
  BY <1>1, <1>3, <1>6 DEF SidebarTypeOK, pinning
<1>8. PinsSurvive' /\ PinsAreRead' /\ LinksOfAlbums' /\ MenusFit'
  BY <1>1, <1>3 DEF pinning, PinsSurvive, PinsAreRead, LinksOfAlbums, There, MenusFit
<1> QED
  BY <1>5, <1>7, <1>8

\* The handler ends.
LEMMA EndsKeep ==
  ASSUME SidebarInv, NEW h \in WorkIds, End(h)
  PROVE  SidebarInv'
<1> DEFINE c == work[h]
           r == [sidebar[c.tab] EXCEPT !.form = IF c.op = "create" THEN NoAlbum ELSE @,
                                       !.asked = IF c.op \in Removals THEN NoAlbum ELSE @]
<1>1. c \in Works /\ EndsWork(h) /\ UNCHANGED <<albums, pinning, links, works, refusals>>
  BY DEF SidebarInv, SidebarTypeOK, End
<1>2. SameLists
  <2>1. CASE c.tab = NoTab
    BY <2>1, SameSidebar DEF End
  <2>2. CASE c.tab # NoTab
    <3>1. c.tab \in Tabs
      BY <1>1, <2>2 DEF Works
    <3>2. sidebar' = [sidebar EXCEPT ![c.tab] = r]
      BY <2>2 DEF End
    <3>3. /\ r \in Sidebars /\ r.menu = sidebar[c.tab].menu /\ r.pins = sidebar[c.tab].pins
          /\ r.open = sidebar[c.tab].open /\ r.view = sidebar[c.tab].view
      <4>1. sidebar[c.tab] \in Sidebars
        BY <3>1 DEF SidebarInv, SidebarTypeOK
      <4>2. NoAlbum \in Names \cup {NoAlbum} /\ NoAlbum \in Albums \cup {NoAlbum}
        OBVIOUS
      <4> HIDE DEF c
      <4> QED
        BY <4>1, <4>2 DEF Sidebars
    <3> HIDE DEF r, c
    <3> QED
      BY <3>1, <3>2, <3>3 DEF SidebarInv, SidebarTypeOK, SameLists, MenusFit
  <2> QED
    BY <2>1, <2>2
<1> QED
  BY <1>1, <1>2, WorkEnds DEF SidebarInv, SidebarTypeOK

\* A write in the table overtakes the other handlers.
LEMMA WriteKeeps ==
  ASSUME SidebarInv, NEW h \in WorkIds, NEW pc \in {"thumbs", "fetch"}, work[h].pc = "write",
         pc = "thumbs" => work[h].op = "share", Written(h, pc),
         NEW rows \in [Albums -> AlbumRows], albums' = rows, UNCHANGED <<pinning, works, refusals>>,
         links' \in 0..MaxLinks,
         \A a, b \in Albums : rows[a].name \in Names /\ rows[a].name = rows[b].name => a = b,
         \A a \in Albums : rows[a].name \notin Names => rows[a].link = 0,
         Done(rows, [work[h] EXCEPT !.pc = pc, !.overtaken = FALSE])
  PROVE  SidebarInv'
<1> USE DEF SidebarInv
<1> DEFINE c == [work[h] EXCEPT !.pc = pc, !.overtaken = FALSE]
           Later(k) == [work[k] EXCEPT !.overtaken = work[k].pc # "idle"]
<1>1. \A k \in WorkIds : work[k] \in Works /\ WorkFits(work[k])
  BY DEF SidebarTypeOK, WorkIsSo
<1>2. c \in Works /\ c.pc = pc /\ c.op = work[h].op /\ c.album = work[h].album /\ c.name = work[h].name
  BY <1>1 DEF Works
<1>3. work' = [k \in WorkIds |-> IF k = h THEN c ELSE Later(k)] /\ UNCHANGED <<sidebar, covered>>
  BY DEF Written
<1>4. Done(rows, c)
  OBVIOUS
<1>5. ASSUME NEW k \in WorkIds
      PROVE  work'[k] \in Works /\ WorkIsSo(work'[k], albums', sidebar')
  <2>1. CASE k = h
    <3>1. work'[k] = c
      BY <1>3, <2>1
    <3> HIDE DEF c
    <3> QED
      BY <1>1, <1>2, <1>4, <3>1 DEF WorkIsSo, WorkFits
  <2>2. CASE k # h
    <3> DEFINE d == Later(k)
    <3>1. work'[k] = d
      BY <1>3, <2>2
    <3>2. /\ d \in Works /\ d.pc = work[k].pc /\ d.op = work[k].op /\ d.album = work[k].album
          /\ d.name = work[k].name /\ d.overtaken = (work[k].pc # "idle")
      BY <1>1 DEF Works
    <3> HIDE DEF d
    <3> QED
      BY <1>1, <3>1, <3>2 DEF WorkIsSo, WorkFits
  <2> QED
    BY <2>1, <2>2
<1>6. work' \in [WorkIds -> Works]
  BY <1>3, <1>5
<1> HIDE DEF c, Later
<1>7. SidebarTypeOK'
  BY <1>3, <1>6 DEF SidebarTypeOK, pinning
<1>8. MenusFit' /\ LinksOfAlbums' /\ PinsSurvive' /\ PinsAreRead'
  BY <1>3 DEF MenusFit, LinksOfAlbums, There, PinsSurvive, PinsAreRead, pinning
<1> QED
  BY <1>5, <1>7, <1>8

LEMMA WritesKeep ==
  ASSUME SidebarInv, NEW h \in WorkIds, SaveAlbum(h) \/ SetShareStatus(h) \/ DropAlbum(h)
  PROVE  SidebarInv'
<1> USE DEF SidebarInv
<1>1. work[h] \in Works /\ WorkFits(work[h]) /\ work[h].pc = "write"
      /\ UNCHANGED <<pinning, works, refusals>>
  BY DEF SidebarTypeOK, SaveAlbum, SetShareStatus, DropAlbum, WorkIsSo
<1>2. works' \in 0..MaxWorks /\ refusals' \in 0..MaxRefusals
  BY <1>1 DEF SidebarTypeOK
<1>3. CASE Failed(h) /\ UNCHANGED <<albums, links>>
  BY <1>1, <1>2, <1>3, SameSidebar, WorkEnds DEF Failed
<1>4. CASE SaveAlbum(h) /\ ~Taken(work[h].name)
  <2>1. PICK a \in Albums : /\ albums' = [albums EXCEPT ![a].name = work[h].name]
                            /\ albums[a].name = NoAlbum /\ Written(h, "fetch")
    BY <1>4 DEF SaveAlbum
  <2> DEFINE rows == [albums EXCEPT ![a].name = work[h].name]
             c == [work[h] EXCEPT !.pc = "fetch", !.overtaken = FALSE]
  <2>2. work[h].op = "create" /\ work[h].name \in Names /\ links' \in 0..MaxLinks
    BY <1>1, <1>4 DEF SaveAlbum, WorkFits, Works, SidebarTypeOK
  <2>3. /\ rows \in [Albums -> AlbumRows] /\ rows[a].name = work[h].name
        /\ \A b \in Albums : b # a => rows[b] = albums[b]
    BY <2>2 DEF SidebarTypeOK, AlbumRows
  <2>4. c.op = "create" /\ c.name = work[h].name
    BY <1>1, <2>2 DEF Works
  <2>5. albums' = rows
    BY <2>1
  <2> HIDE DEF rows, c
  <2>6. \A b, d \in Albums : rows[b].name \in Names /\ rows[b].name = rows[d].name => b = d
    BY <1>4, <2>3 DEF Taken, SidebarTypeOK
  <2>7. \A b \in Albums : rows[b].name \notin Names => rows[b].link = 0
    BY <2>2, <2>3 DEF LinksOfAlbums, There
  <2>8. Done(rows, c)
    BY <2>3, <2>4 DEF Done, Removals
  <2>9. Done(rows, [work[h] EXCEPT !.pc = "fetch", !.overtaken = FALSE])
    BY <2>8 DEF c
  <2> QED
    BY <1>1, <2>1, <2>2, <2>3, <2>5, <2>6, <2>7, <2>9, WriteKeeps
<1>5. CASE SetShareStatus(h)
  <2> DEFINE pc == IF work[h].op = "share" THEN "thumbs" ELSE "fetch"
             link == IF work[h].op = "share" THEN links + 1 ELSE 0
             rows == IF There(work[h].album) THEN [albums EXCEPT ![work[h].album].link = link] ELSE albums
             c == [work[h] EXCEPT !.pc = pc, !.overtaken = FALSE]
  <2>1. work[h].op \in {"share", "unshare"} /\ work[h].album \in Albums
    BY <1>1, <1>5 DEF SetShareStatus, WorkFits, Works
  <2>2. links \in Nat /\ MaxLinks \in Nat /\ links \in 0..MaxLinks
    BY SidebarAssumption DEF SidebarTypeOK
  <2>3. links' = (IF work[h].op = "share" THEN links + 1 ELSE links) /\ links' <= MaxLinks
    BY <1>5 DEF SetShareStatus
  <2>4. links' \in 0..MaxLinks /\ link \in 0..MaxLinks /\ (work[h].op = "share" => link # 0)
    BY <2>2, <2>3
  <2>5. albums' = rows
    BY <1>5, <2>3 DEF SetShareStatus
  <2>6. Written(h, pc)
    BY <1>5 DEF SetShareStatus
  <2> HIDE DEF link
  <2>7. /\ rows \in [Albums -> AlbumRows]
        /\ \A b \in Albums : /\ rows[b].name = albums[b].name
                             /\ b # work[h].album \/ ~There(b) => rows[b].link = albums[b].link
        /\ There(work[h].album) => rows[work[h].album].link = link
    BY <2>1, <2>4 DEF SidebarTypeOK, AlbumRows
  <2>8. pc \in {"thumbs", "fetch"} /\ (pc = "thumbs" <=> work[h].op = "share")
    OBVIOUS
  <2>9. c.op = work[h].op /\ c.album = work[h].album /\ c.pc = pc
    BY <1>1, <2>8 DEF Works
  <2> HIDE DEF rows, c, pc
  <2>10. \A b, d \in Albums : rows[b].name \in Names /\ rows[b].name = rows[d].name => b = d
    BY <2>7 DEF SidebarTypeOK
  <2>11. \A b \in Albums : rows[b].name \notin Names => rows[b].link = 0
    BY <2>7 DEF LinksOfAlbums, There
  <2>12. CASE work[h].op = "share"
    <3>1. rows[c.album].link # 0 \/ rows[c.album].name \notin Names
      BY <2>1, <2>4, <2>7, <2>9, <2>12 DEF There
    <3>2. Done(rows, c)
      BY <2>8, <2>9, <2>12, <3>1 DEF Done, Removals
    <3> QED
      BY <1>1, <2>4, <2>5, <2>6, <2>7, <2>8, <2>10, <2>11, <3>2, WriteKeeps DEF c
  <2>13. CASE work[h].op = "unshare"
    <3>1. link = 0
      BY <2>13 DEF link
    <3>2. rows[c.album].link = 0
      BY <2>1, <2>7, <2>9, <2>11, <3>1 DEF There
    <3>3. Done(rows, c)
      BY <2>9, <2>13, <3>2 DEF Done, Removals
    <3> QED
      BY <1>1, <2>4, <2>5, <2>6, <2>7, <2>8, <2>10, <2>11, <3>3, WriteKeeps DEF c
  <2> QED
    BY <2>1, <2>12, <2>13
<1>6. CASE DropAlbum(h) /\ Written(h, "fetch")
  <2> DEFINE rows == [albums EXCEPT ![work[h].album] = [name |-> Removed, link |-> 0]]
             c == [work[h] EXCEPT !.pc = "fetch", !.overtaken = FALSE]
  <2>1. /\ work[h].op \in Removals /\ work[h].album \in Albums /\ work[h].op \in {"delete", "empty"}
        /\ links' \in 0..MaxLinks
    BY <1>1, <1>6 DEF DropAlbum, WorkFits, Works, SidebarTypeOK, Removals
  <2>2. c.op = work[h].op /\ c.album = work[h].album
    BY <1>1 DEF Works
  <2>3. albums' = rows
    <3>1. work'[h] = c /\ c.pc = "fetch"
      BY <1>1, <1>6 DEF Written, Works
    <3>2. NoWork.pc = "idle" /\ (Failed(h) => work'[h] = NoWork)
      BY DEF Failed, EndsWork, NoWork, SidebarTypeOK
    <3>3. ~Failed(h)
      BY <3>1, <3>2
    <3> QED
      BY <1>6, <3>3 DEF DropAlbum
  <2>4. /\ rows \in [Albums -> AlbumRows] /\ rows[work[h].album] = [name |-> Removed, link |-> 0]
        /\ \A b \in Albums : b # work[h].album => rows[b] = albums[b]
    <3>1. [name |-> Removed, link |-> 0] \in AlbumRows
      BY SidebarAssumption DEF AlbumRows
    <3> QED
      BY <2>1, <3>1 DEF SidebarTypeOK
  <2> HIDE DEF rows, c
  <2>5. \A b, d \in Albums : rows[b].name \in Names /\ rows[b].name = rows[d].name => b = d
    BY <2>1, <2>4, SidebarAssumption DEF SidebarTypeOK
  <2>6. \A b \in Albums : rows[b].name \notin Names => rows[b].link = 0
    BY <2>4 DEF LinksOfAlbums, There
  <2>7. Done(rows, c)
    BY <2>1, <2>2, <2>4 DEF Done
  <2>8. Done(rows, [work[h] EXCEPT !.pc = "fetch", !.overtaken = FALSE])
    BY <2>7 DEF c
  <2> QED
    BY <1>1, <1>6, <2>1, <2>3, <2>4, <2>5, <2>6, <2>8, WriteKeeps
<1> QED
  BY <1>3, <1>4, <1>5, <1>6 DEF SaveAlbum, DropAlbum

\* The properties of the sidebar hold together.
THEOREM SidebarInvariant == SidebarSpec => []SidebarInv
<1>1. SidebarInit => SidebarInv
  <2> SUFFICES ASSUME SidebarInit PROVE SidebarInv
    OBVIOUS
  <2>1. (\A t \in Tabs : sidebar[t] = Closed) /\ (\A h \in WorkIds : work[h] = NoWork)
    BY DEF SidebarInit
  <2>2. ~Closed.open /\ Closed.menu.link = 0
    BY DEF Closed, NoAlbumMenu
  <2>3. albums \in [Albums -> AlbumRows] /\ \A a \in Albums : albums[a].link = 0
    BY RecordsFit, SidebarAssumption DEF SidebarInit, NoRow, AlbumRows
  <2>4. SidebarTypeOK
    <3>1. sidebar \in [Tabs -> Sidebars] /\ work \in [WorkIds -> Works]
      BY RecordsFit DEF SidebarInit
    <3>2. links \in 0..MaxLinks /\ works \in 0..MaxWorks /\ refusals \in 0..MaxRefusals
      BY SidebarAssumption DEF SidebarInit
    <3> QED
      BY <2>3, <3>1, <3>2 DEF SidebarInit, SidebarTypeOK
  <2>5. PinsSurvive /\ PinsAreRead /\ LinksOfAlbums /\ MenusFit
    BY <2>1, <2>2, <2>3 DEF SidebarInit, PinsSurvive, PinsAreRead, LinksOfAlbums, MenusFit
  <2> QED
    BY <2>1, <2>4, <2>5, NoWorkIsSo DEF SidebarInv
<1>2. SidebarInv /\ [SidebarNext]_sidebarVars => SidebarInv'
  <2> SUFFICES ASSUME SidebarInv, [SidebarNext]_sidebarVars PROVE SidebarInv'
    OBVIOUS
  <2>1. ASSUME NEW t \in Tabs, Clicks(t) PROVE SidebarInv'
    BY <2>1, ListsKeep, FormsKeep, PinsKeep, BeginsKeep DEF Clicks
  <2>2. ASSUME NEW h \in WorkIds, Runs(h) PROVE SidebarInv'
    BY <2>2, ReadsOfAlbumsKeep, WritesKeep, AnswerKeeps, EndsKeep DEF Runs
  <2>3. CASE UNCHANGED sidebarVars
    BY <2>3 DEF sidebarVars, SidebarInv, SidebarTypeOK, PinsSurvive, PinsAreRead,
                LinksOfAlbums, There, MenusFit
  <2> QED
    BY <2>1, <2>2, <2>3 DEF SidebarNext
<1> QED
  BY <1>1, <1>2, PTL DEF SidebarSpec

\* ShownIsSo: a list that has files shows some with numbers of pages around them, what was
\* pinned is stored, and what a handler has done is shown, but for the named exceptions.
THEOREM WhatIsShownIsSo == PagesSpec /\ SidebarSpec => []ShownIsSo
<1>1. PagesInv => NumbersAroundPage
  BY NumbersAreAround DEF PagesInv
<1>2. SidebarInv => PinsSurvive /\ DoneIsShown
  BY DEF SidebarInv, WorkIsSo, DoneIsShown
<1> QED
  BY <1>1, <1>2, PagesInvariant, PagesHaveFiles, SidebarInvariant, PTL DEF ShownIsSo

-----------------------------------------------------------------------------
(* FileAccess.                                                              *)

\* What a request has, and what it may have been admitted to: only the form sends a password,
\* only a visit is redirected, and a page that checks has no form yet.
RequestFits(r) ==
  /\ r.pc = "idle" => r = Idle
  /\ r.op # "submit" => r.pw = NoPassword
  /\ r.held => Opens(r.pw, file.pw) /\ ~barred
  /\ r.pc = "403" => ~r.held
  /\ r.pc = "serving" /\ ~bare => r.pw # NoPassword

FileFits ==
  /\ \A t \in FileTabs : \A k \in Kinds : RequestFits(req[t][k])
  /\ \A t \in FileTabs : req[t]["own"].op # "submit" /\ req[t]["form"].op \in {"none", "submit"}
  /\ \A t \in FileTabs : req[t]["own"].op = "head" => tab[t].at = "page" /\ ~tab[t].needs
  /\ ~bare => file.pw # NoPassword
  /\ jobs > 0 /\ ~bare => got > 0

FileInv == ChecksUseUpNothing /\ FileFits

Requests ==
  [op : {"none", "visit", "head", "info", "open", "submit"}, pw : Passwords \cup {NoPassword},
   pc : {"idle", "sent", "filtered", "admitted", "serving", "ok", "308", "403", "404"}, held : BOOLEAN]

PageStates ==
  [at : {"away", "page"}, needs : BOOLEAN,
   error : {"none", "missing", "unable", "incorrect", "failed"}, busy : BOOLEAN, held : BOOLEAN]

\* One request of a tab becomes another, and the others stay.
OneBecomes(t, k, r) ==
  /\ req' \in [FileTabs -> [Kinds -> Requests]] /\ req'[t][k] = r
  /\ \A u \in FileTabs, l \in Kinds : u # t \/ l # k => req'[u][l] = req[u][l]

LEMMA RequestBecomes ==
  ASSUME req \in [FileTabs -> [Kinds -> Requests]], NEW t \in FileTabs, NEW k \in Kinds, NEW r \in Requests,
         req' = [req EXCEPT ![t][k] = r]
  PROVE  OneBecomes(t, k, r)
BY DEF OneBecomes

LEMMA RequestGoesOn ==
  ASSUME req \in [FileTabs -> [Kinds -> Requests]], NEW t \in FileTabs, NEW k \in Kinds,
         NEW pc \in {"sent", "filtered", "admitted", "serving", "ok", "308", "403", "404"}, Reaches(t, k, pc)
  PROVE  OneBecomes(t, k, [req[t][k] EXCEPT !.pc = pc])
<1> DEFINE r == [req[t][k] EXCEPT !.pc = pc]
<1>1. req[t][k] \in Requests
  OBVIOUS
<1>2. r \in Requests
  BY <1>1 DEF Requests
<1>3. req' = [req EXCEPT ![t][k] = r]
  BY DEF Reaches
<1> HIDE DEF r
<1>4. OneBecomes(t, k, r)
  BY <1>2, <1>3, RequestBecomes
<1> QED
  BY <1>4 DEF r

LEMMA SentIsRequest ==
  ASSUME FileTypeOK, NEW op \in {"visit", "head", "info", "open", "submit"}, NEW pw \in Passwords \cup {NoPassword}
  PROVE  /\ Send(op, pw) \in Requests /\ Send(op, pw) # Idle /\ Idle \in Requests
         /\ Send(op, pw).op = op /\ Send(op, pw).pw = pw /\ Send(op, pw).pc = "sent"
         /\ Send(op, pw).held = (Opens(pw, file.pw) /\ ~barred)
BY DEF Send, Idle, Requests, Opens

\* Its row, when it is deleted, and when its password is changed.
FileRows ==
  [there : BOOLEAN, pw : Passwords \cup {NoPassword}, once : BOOLEAN, by : {"nobody", "owner", "once"}]

LEMMA RowBecomes ==
  ASSUME FileTypeOK, NEW by \in {"owner", "once"}, NEW pw \in Passwords \cup {NoPassword}
  PROVE  /\ [file EXCEPT !.there = FALSE, !.by = by] \in FileRows
         /\ [file EXCEPT !.there = FALSE, !.by = by].there = FALSE
         /\ [file EXCEPT !.there = FALSE, !.by = by].by = by
         /\ [file EXCEPT !.there = FALSE, !.by = by].pw = file.pw
         /\ [file EXCEPT !.pw = pw] \in FileRows
         /\ [file EXCEPT !.pw = pw].there = file.there
         /\ [file EXCEPT !.pw = pw].by = file.by
         /\ [file EXCEPT !.pw = pw].pw = pw
<1>1. file \in FileRows
  BY DEF FileTypeOK, FileRows
<1> QED
  BY <1>1 DEF FileRows

\* The type in parts: the row, what is counted, the requests, the pages and the lock of the form.
RowType == file \in FileRows /\ (file.there <=> file.by = "nobody")

CountsType ==
  /\ jobs \in Nat /\ views \in Nat /\ got \in Nat /\ {linked, bare, barred} \subseteq BOOLEAN
  /\ visits \in 0..MaxVisits /\ submits \in 0..MaxSubmits
  /\ changes \in 0..MaxChanges /\ faults \in 0..MaxFaults

RequestsType == req \in [FileTabs -> [Kinds -> Requests]]

TabsType == tab \in [FileTabs -> PageStates]

FormLocked ==
  \A t \in FileTabs : (tab[t].busy <=> req[t]["form"] # Idle) /\ (tab[t].busy => tab[t].needs)

FileParts == RowType /\ CountsType /\ RequestsType /\ TabsType /\ FormLocked

LEMMA FileTypeParts == FileTypeOK <=> FileParts
BY DEF FileTypeOK, FileParts, RowType, CountsType, RequestsType, TabsType, FormLocked, FileRows, Requests, PageStates

LEMMA FileTypePartsNext == FileParts' => FileTypeOK'
BY DEF FileTypeOK, FileParts, RowType, CountsType, RequestsType, TabsType, FormLocked, FileRows, Requests, PageStates

\* The server goes on with a request.
LEMMA ServerKeeps ==
  ASSUME FileInv, NEW t \in FileTabs, NEW k \in Kinds,
         IpFilter(t, k) \/ HasPassword(t, k) \/ GetEntry(t, k) \/ Finish(t, k)
  PROVE  FileInv'
<1> USE FileAccessAssumption
<1>a. FileParts /\ FileFits /\ IncorrectMeansWrong /\ UsedUpByDownloads
  BY FileTypeParts DEF FileInv, ChecksUseUpNothing
<1>b. /\ UNCHANGED <<file, tab, views, linked, bare, barred, fileBounds>> /\ req[t][k].pc # "idle"
      /\ jobs' \in Nat /\ got' \in Nat /\ got' >= got
  BY <1>a DEF IpFilter, HasPassword, GetEntry, Finish, FileParts, CountsType
<1>c. PICK pc \in {"filtered", "admitted", "serving", "ok", "308", "403", "404"} :
        /\ Reaches(t, k, pc)
        /\ pc = "403" => ~Opens(req[t][k].pw, file.pw) \/ barred
        /\ pc = "serving" => Opens(req[t][k].pw, file.pw)
  BY DEF IpFilter, HasPassword, GetEntry, Finish, RequiresPassword, Opens
<1>d. /\ req' \in [FileTabs -> [Kinds -> Requests]]
      /\ req'[t][k] = [req[t][k] EXCEPT !.pc = pc]
      /\ \A u \in FileTabs, l \in Kinds : u # t \/ l # k => req'[u][l] = req[u][l]
  <2>1. pc \in {"sent", "filtered", "admitted", "serving", "ok", "308", "403", "404"} /\ Reaches(t, k, pc)
    BY <1>c
  <2>2. req \in [FileTabs -> [Kinds -> Requests]]
    BY <1>a DEF FileParts, RequestsType
  <2>3. OneBecomes(t, k, [req[t][k] EXCEPT !.pc = pc])
    BY <2>1, <2>2, RequestGoesOn
  <2> QED
    BY <2>3 DEF OneBecomes
<1>e. req[t][k] \in Requests
  BY <1>a DEF FileParts, RequestsType
<1>1. \A u \in FileTabs : req'[u]["form"] # Idle <=> req[u]["form"] # Idle
  BY <1>b, <1>c, <1>d, <1>e DEF Idle, Requests, Kinds
<1>2. FileTypeOK'
  <2>1. RowType' /\ CountsType' /\ RequestsType' /\ TabsType'
    BY <1>a, <1>b, <1>d DEF FileParts, RowType, CountsType, RequestsType, TabsType, fileBounds
  <2>2. FormLocked'
    BY <1>a, <1>b, <1>1 DEF FileParts, FormLocked
  <2> QED
    BY <2>1, <2>2, FileTypePartsNext DEF FileParts
<1>3. \A u \in FileTabs : \A l \in Kinds : RequestFits(req[u][l])'
  <2> SUFFICES ASSUME NEW u \in FileTabs, NEW l \in Kinds
               PROVE  RequestFits(req[u][l])'
    OBVIOUS
  <2>1. RequestFits(req[u][l]) /\ (~bare => file.pw # NoPassword)
    BY <1>a DEF FileFits
  <2>2. CASE u # t \/ l # k
    BY <1>b, <1>d, <2>1, <2>2 DEF RequestFits, Opens
  <2>3. CASE u = t /\ l = k
    <3>1. /\ req'[t][k].pc = pc /\ req'[t][k].op = req[t][k].op
          /\ req'[t][k].pw = req[t][k].pw /\ req'[t][k].held = req[t][k].held
      BY <1>d, <1>e DEF Requests
    <3> QED
      BY <1>b, <1>c, <2>1, <2>3, <3>1 DEF RequestFits, Opens
  <2> QED
    BY <2>2, <2>3
<1>4. \A u \in FileTabs, l \in Kinds : req'[u][l].op = req[u][l].op
  BY <1>d, <1>e DEF Requests, Kinds
<1>5. jobs' > 0 /\ ~bare => got' > 0
  <2>1. CASE IpFilter(t, k) \/ HasPassword(t, k) \/ GetEntry(t, k)
    BY <1>a, <2>1 DEF IpFilter, HasPassword, GetEntry, FileFits
  <2>2. CASE Finish(t, k)
    <3>1. ~bare => req[t][k].op = "submit"
      BY <1>a, <2>2 DEF Finish, FileFits, RequestFits
    <3> QED
      BY <1>a, <2>2, <3>1 DEF Finish, FileParts, CountsType
  <2> QED
    BY <2>1, <2>2
<1>6. FileFits'
  BY <1>a, <1>b, <1>3, <1>4, <1>5 DEF FileFits, Kinds
<1>7. IncorrectMeansWrong' /\ UsedUpByDownloads'
  BY <1>a, <1>b DEF IncorrectMeansWrong, UsedUpByDownloads, FileParts, CountsType
<1> QED
  BY <1>2, <1>6, <1>7 DEF FileInv, ChecksUseUpNothing

\* The row goes, and its password stays.
LEMMA RowGoes ==
  ASSUME FileInv, RowType', CountsType', file'.pw = file.pw, UNCHANGED <<req, tab, bare, barred, got>>,
         jobs' <= jobs, file'.by = "once" => file.by = "once" \/ jobs > 0
  PROVE  FileInv'
<1>a. FileParts /\ FileFits /\ IncorrectMeansWrong /\ UsedUpByDownloads
  BY FileTypeParts DEF FileInv, ChecksUseUpNothing
<1>1. FileTypeOK'
  <2>1. RequestsType' /\ TabsType' /\ FormLocked'
    BY <1>a DEF FileParts, RequestsType, TabsType, FormLocked
  <2> QED
    BY <2>1, FileTypePartsNext DEF FileParts
<1>2. \A t \in FileTabs, k \in Kinds : RequestFits(req[t][k])'
  BY <1>a DEF FileFits, RequestFits, Opens
<1>3. jobs' > 0 => jobs > 0
  BY <1>a DEF FileParts, CountsType
<1>4. FileFits'
  BY <1>a, <1>2, <1>3 DEF FileFits
<1>5. UsedUpByDownloads' /\ IncorrectMeansWrong'
  BY <1>a DEF UsedUpByDownloads, IncorrectMeansWrong, FileFits
<1> QED
  BY <1>1, <1>4, <1>5 DEF FileInv, ChecksUseUpNothing

\* What is done once an answer is out, and what the owner does.
LEMMA PostProcessKeeps ==
  ASSUME FileInv, PostProcess
  PROVE  FileInv'
<1>a. FileTypeOK /\ FileParts
  BY FileTypeParts DEF FileInv, ChecksUseUpNothing
<1>b. jobs > 0 /\ jobs' <= jobs /\ jobs' \in Nat /\ UNCHANGED <<req, tab, bare, barred, got, linked, fileBounds>>
  BY <1>a DEF PostProcess, FileParts, CountsType
<1>1. CASE file.once /\ file.there
  <2>1. file' = [file EXCEPT !.there = FALSE, !.by = "once"] /\ UNCHANGED views
    BY <1>1 DEF PostProcess
  <2>2. RowType' /\ file'.pw = file.pw
    BY <1>a, <2>1, RowBecomes DEF RowType
  <2>3. CountsType'
    BY <1>a, <1>b, <2>1 DEF FileParts, CountsType, fileBounds
  <2> QED
    BY <1>b, <2>2, <2>3, RowGoes
<1>2. CASE ~(file.once /\ file.there)
  <2>1. UNCHANGED file /\ views' \in Nat
    BY <1>a, <1>2 DEF PostProcess, FileParts, CountsType
  <2>2. RowType' /\ CountsType'
    BY <1>a, <1>b, <2>1 DEF FileParts, RowType, CountsType, fileBounds
  <2> QED
    BY <1>b, <2>1, <2>2, RowGoes
<1> QED
  BY <1>1, <1>2

LEMMA OwnerKeeps ==
  ASSUME FileInv, Delete \/ Bar \/ \E pw \in Passwords \cup {NoPassword} : ChangePassword(pw)
  PROVE  FileInv'
<1> USE FileAccessAssumption
<1>a. FileTypeOK /\ FileParts /\ FileFits /\ IncorrectMeansWrong /\ UsedUpByDownloads
  BY FileTypeParts DEF FileInv, ChecksUseUpNothing
<1>b. changes' \in 0..MaxChanges /\ UNCHANGED <<jobs, views, got, visits, submits, faults>> /\ jobs <= jobs
  BY <1>a DEF Delete, Bar, ChangePassword, FileParts, CountsType
<1>1. CASE Delete
  <2>1. RowType' /\ file'.pw = file.pw /\ file'.by = "owner"
    BY <1>a, <1>1, RowBecomes DEF Delete, RowType
  <2>2. CountsType'
    BY <1>a, <1>b, <1>1 DEF Delete, FileParts, CountsType
  <2> QED
    BY <1>b, <1>1, <2>1, <2>2, RowGoes DEF Delete
<1>2. ASSUME NEW pw \in Passwords \cup {NoPassword}, ChangePassword(pw) \/ (Bar /\ pw = file.pw)
      PROVE  FileInv'
  <2>1. /\ Judged /\ UNCHANGED tab
        /\ bare => bare'
        /\ ~bare' => pw # NoPassword \/ (~bare /\ pw = file.pw)
        /\ {linked', bare', barred'} \subseteq BOOLEAN
    <3>1. linked \in BOOLEAN /\ bare \in BOOLEAN /\ barred \in BOOLEAN
      BY <1>a DEF FileParts, CountsType
    <3>2. CASE ChangePassword(pw)
      BY <3>1, <3>2 DEF ChangePassword
    <3>3. CASE Bar /\ pw = file.pw
      <4>1. Judged /\ barred' = ~barred /\ UNCHANGED <<tab, linked, bare>>
        BY <3>3 DEF Bar
      <4> QED
        BY <3>1, <3>3, <4>1
    <3> QED
      BY <1>2, <3>2, <3>3
  <2>2. file'.pw = pw /\ file'.by = file.by /\ RowType'
    <3>1. CASE ChangePassword(pw)
      BY <1>a, <3>1, RowBecomes DEF ChangePassword, FileParts, RowType
    <3>2. CASE Bar /\ pw = file.pw
      BY <1>a, <3>2 DEF Bar, FileParts, RowType
    <3> QED
      BY <1>2, <3>1, <3>2
  <2>3. ASSUME NEW t \in FileTabs, NEW k \in Kinds
        PROVE  /\ req'[t][k] \in Requests
               /\ req'[t][k].op = req[t][k].op /\ req'[t][k].pw = req[t][k].pw /\ req'[t][k].pc = req[t][k].pc
               /\ req'[t][k].held => req[t][k].held /\ Opens(req[t][k].pw, pw) /\ ~barred'
    <3>1. req[t][k] \in Requests
      BY <1>a DEF FileParts, RequestsType
    <3>2. req'[t][k] = [req[t][k] EXCEPT !.held = @ /\ Opens(req[t][k].pw, pw) /\ ~barred']
      BY <2>1, <2>2 DEF Judged
    <3>3. (req[t][k].held /\ Opens(req[t][k].pw, pw) /\ ~barred') \in BOOLEAN
      BY DEF Opens
    <3> QED
      BY <3>1, <3>2, <3>3 DEF Requests
  <2>4. RequestsType' /\ TabsType' /\ CountsType'
    <3>1. req' = [t \in FileTabs |-> [k \in Kinds |-> req'[t][k]]]
      BY <2>1 DEF Judged
    <3>2. RequestsType'
      BY <2>3, <3>1 DEF RequestsType
    <3> QED
      BY <1>a, <1>b, <2>1, <3>2 DEF FileParts, TabsType, CountsType
  <2>5. ASSUME NEW t \in FileTabs
        PROVE  req'[t]["form"] # Idle <=> req[t]["form"] # Idle
    <3>1. "form" \in Kinds
      BY DEF Kinds
    <3>2. req[t]["form"] \in Requests
      BY <1>a, <3>1 DEF FileParts, RequestsType
    <3>3. CASE req[t]["form"] = Idle
      <4>1. /\ req'[t]["form"].held = FALSE /\ req'[t]["form"].op = "none"
            /\ req'[t]["form"].pw = NoPassword /\ req'[t]["form"].pc = "idle"
        BY <2>3, <3>1, <3>3 DEF Idle, Requests
      <4> QED
        BY <2>3, <3>1, <3>3, <4>1 DEF Idle, Requests
    <3>4. CASE req[t]["form"] # Idle
      <4>1. req[t]["form"].pc # "idle"
        BY <1>a, <3>1, <3>4 DEF FileFits, RequestFits
      <4> QED
        BY <2>3, <3>1, <3>4, <4>1 DEF Idle
    <3> QED
      BY <3>3, <3>4
  <2>6. FormLocked'
    BY <1>a, <2>1, <2>5 DEF FileParts, FormLocked
  <2>7. FileTypeOK'
    BY <2>2, <2>4, <2>6, FileTypePartsNext DEF FileParts
  <2>8. \A t \in FileTabs, k \in Kinds : RequestFits(req[t][k])'
    <3> SUFFICES ASSUME NEW t \in FileTabs, NEW k \in Kinds
                 PROVE  RequestFits(req[t][k])'
      OBVIOUS
    <3>1. RequestFits(req[t][k])
      BY <1>a DEF FileFits
    <3>2. req'[t][k].pc = "idle" => req'[t][k] = Idle
      <4> SUFFICES ASSUME req'[t][k].pc = "idle"
                   PROVE  req'[t][k] = Idle
        OBVIOUS
      <4>1. req[t][k] = Idle
        BY <2>3, <3>1 DEF RequestFits
      <4>2. /\ req'[t][k].held = FALSE /\ req'[t][k].op = "none"
            /\ req'[t][k].pw = NoPassword /\ req'[t][k].pc = "idle"
        BY <2>3, <4>1 DEF Idle, Requests
      <4> QED
        BY <2>3, <4>1, <4>2 DEF Idle, Requests
    <3>3. req[t][k].pc = "serving" /\ ~bare' => req[t][k].pw # NoPassword
      BY <2>1, <3>1 DEF RequestFits
    <3> QED
      BY <2>2, <2>3, <3>1, <3>2, <3>3 DEF RequestFits
  <2>9. FileFits'
    BY <1>a, <1>b, <2>1, <2>2, <2>3, <2>8 DEF FileFits, Kinds, FileParts, CountsType
  <2> QED
    BY <1>a, <1>b, <2>1, <2>2, <2>7, <2>9 DEF FileInv, ChecksUseUpNothing, UsedUpByDownloads, IncorrectMeansWrong
<1>3. file.pw \in Passwords \cup {NoPassword}
  BY <1>a DEF FileParts, RowType, FileRows
<1> QED
  BY <1>1, <1>2, <1>3

\* What a tab shows, and what it waits for.
TabFits(p, q) ==
  /\ p \in PageStates /\ q \in [Kinds -> Requests]
  /\ (p.busy <=> q["form"] # Idle) /\ (p.busy => p.needs)
  /\ p.error = "incorrect" => ~p.held
  /\ q["own"].op # "submit" /\ q["form"].op \in {"none", "submit"}
  /\ q["own"].op = "head" => p.at = "page" /\ ~p.needs
  /\ \A k \in Kinds : RequestFits(q[k])

LEMMA TabsFit ==
  ASSUME FileInv, NEW t \in FileTabs
  PROVE  TabFits(tab[t], req[t])
BY FileTypeParts DEF FileInv, ChecksUseUpNothing, FileParts, RequestsType, TabsType, FormLocked,
                     IncorrectMeansWrong, FileFits, TabFits

\* In one tab something happens.
LEMMA TabKeeps ==
  ASSUME FileInv, NEW t \in FileTabs, NEW p, NEW q, TabFits(p, q),
         tab' = [tab EXCEPT ![t] = p], req' = [req EXCEPT ![t] = q],
         UNCHANGED <<file, jobs, views, got, linked, bare, barred, changes>>,
         visits' \in 0..MaxVisits, submits' \in 0..MaxSubmits, faults' \in 0..MaxFaults
  PROVE  FileInv'
<1>a. FileParts /\ FileFits /\ IncorrectMeansWrong /\ UsedUpByDownloads
  BY FileTypeParts DEF FileInv, ChecksUseUpNothing
<1>b. /\ tab'[t] = p /\ req'[t] = q
      /\ \A u \in FileTabs \ {t} : tab'[u] = tab[u] /\ req'[u] = req[u]
  BY <1>a DEF FileParts, RequestsType, TabsType
<1>1. RowType' /\ CountsType' /\ RequestsType' /\ TabsType'
  BY <1>a DEF FileParts, RowType, CountsType, RequestsType, TabsType, TabFits
<1>2. FormLocked'
  BY <1>a, <1>b DEF FileParts, FormLocked, TabFits
<1>3. FileTypeOK'
  BY <1>1, <1>2, FileTypePartsNext DEF FileParts
<1>4. \A u \in FileTabs, k \in Kinds : RequestFits(req[u][k])'
  <2> SUFFICES ASSUME NEW u \in FileTabs, NEW k \in Kinds
               PROVE  RequestFits(req[u][k])'
    OBVIOUS
  <2>1. RequestFits(req'[u][k])
    BY <1>a, <1>b DEF FileFits, TabFits
  <2> QED
    BY <2>1 DEF RequestFits, Opens
<1>5. FileFits'
  BY <1>a, <1>b, <1>4 DEF FileFits, TabFits
<1>6. IncorrectMeansWrong' /\ UsedUpByDownloads'
  BY <1>a, <1>b DEF IncorrectMeansWrong, UsedUpByDownloads, TabFits
<1> QED
  BY <1>3, <1>5, <1>6 DEF FileInv, ChecksUseUpNothing

\* One request of a tab, by itself or of its form, and the page with it.
LEMMA TabOneBecomes ==
  ASSUME FileInv, NEW t \in FileTabs, NEW k \in Kinds, NEW r \in Requests, NEW p \in PageStates, RequestFits(r),
         k = "own" => r.op # "submit" /\ (r.op = "head" => p.at = "page" /\ ~p.needs),
         k = "form" => r.op \in {"none", "submit"} /\ (req[t]["own"].op = "head" => p.at = "page" /\ ~p.needs),
         p.busy <=> (IF k = "form" THEN r ELSE req[t]["form"]) # Idle, p.busy => p.needs,
         p.error = "incorrect" => ~p.held,
         tab' = [tab EXCEPT ![t] = p], req' = [req EXCEPT ![t][k] = r],
         UNCHANGED <<file, jobs, views, got, linked, bare, barred, changes>>,
         visits' \in 0..MaxVisits, submits' \in 0..MaxSubmits, faults' \in 0..MaxFaults
  PROVE  FileInv'
<1> DEFINE q == [req[t] EXCEPT ![k] = r]
<1>1. TabFits(tab[t], req[t])
  BY TabsFit
<1>2. /\ q \in [Kinds -> Requests] /\ q[k] = r /\ \A l \in Kinds \ {k} : q[l] = req[t][l]
      /\ Kinds = {"own", "form"}
  BY <1>1 DEF TabFits, Kinds
<1>3. req' = [req EXCEPT ![t] = q]
  OBVIOUS
<1> HIDE DEF q
<1>4. TabFits(p, q)
  BY <1>1, <1>2 DEF TabFits
<1> QED
  BY <1>3, <1>4, TabKeeps

\* A page comes up, or is closed: all its requests begin anew, or end.
LEMMA ArriveKeeps ==
  ASSUME FileInv, NEW t \in FileTabs, ShowPage(t) \/ Leave(t),
         UNCHANGED <<file, jobs, views, got, linked, bare, barred, submits, changes, faults>>,
         visits' \in 0..MaxVisits
  PROVE  FileInv'
<1> USE FileAccessAssumption
<1>a. FileTypeOK /\ FileParts
  BY FileTypeParts DEF FileInv, ChecksUseUpNothing
<1> DEFINE p == IF ShowPage(t) THEN [NoPage EXCEPT !.at = "page"] ELSE NoPage
           q == [k \in Kinds |-> IF ShowPage(t) /\ k = "own" THEN Send("head", NoPassword) ELSE Idle]
<1>1. tab' = [tab EXCEPT ![t] = p] /\ req' = [req EXCEPT ![t] = q]
  BY DEF ShowPage, Leave
<1>2. RequestFits(Idle) /\ RequestFits(Send("head", NoPassword))
  BY <1>a, SentIsRequest DEF RequestFits, Idle, Opens
<1>3. TabFits(p, q)
  BY <1>a, <1>2, SentIsRequest DEF TabFits, PageStates, NoPage, Kinds, Idle
<1> HIDE DEF p, q
<1>4. submits' \in 0..MaxSubmits /\ faults' \in 0..MaxFaults
  BY <1>a DEF FileParts, CountsType
<1> QED
  BY <1>1, <1>3, <1>4, TabKeeps

\* What is sent fits, and what is over; a page that is changed is a page.
LEMMA Pieces ==
  ASSUME FileInv, NEW t \in FileTabs
  PROVE  /\ tab \in [FileTabs -> PageStates] /\ tab[t] \in PageStates /\ (tab' = tab => tab' = [tab EXCEPT ![t] = tab[t]])
         /\ Idle \in Requests /\ RequestFits(Idle)
         /\ \A op \in {"visit", "head", "info", "open"} :
              Send(op, NoPassword) \in Requests /\ RequestFits(Send(op, NoPassword))
         /\ \A pw \in Passwords : Send("submit", pw) \in Requests /\ RequestFits(Send("submit", pw))
         /\ visits \in 0..MaxVisits /\ submits \in 0..MaxSubmits /\ faults \in 0..MaxFaults
<1>1. FileTypeOK /\ FileParts
  BY FileTypeParts DEF FileInv, ChecksUseUpNothing
<1>2. /\ tab \in [FileTabs -> PageStates] /\ tab[t] \in PageStates
      /\ (tab' = tab => tab' = [tab EXCEPT ![t] = tab[t]])
  BY <1>1 DEF FileParts, TabsType
<1>3. Idle \in Requests /\ RequestFits(Idle)
  BY FileAccessAssumption DEF Idle, Requests, RequestFits
<1>4. ASSUME NEW op \in {"visit", "head", "info", "open", "submit"}, NEW pw \in Passwords \cup {NoPassword},
             op # "submit" => pw = NoPassword
      PROVE  Send(op, pw) \in Requests /\ RequestFits(Send(op, pw))
  <2> DEFINE r == Send(op, pw)
  <2>1. /\ r \in Requests /\ r.op = op /\ r.pw = pw /\ r.pc = "sent"
        /\ r.held = (Opens(pw, file.pw) /\ ~barred)
    BY <1>1, SentIsRequest
  <2> HIDE DEF r
  <2>2. r.held => Opens(r.pw, file.pw) /\ ~barred
    BY <2>1
  <2>3. r.pc # "idle" /\ r.pc # "403" /\ r.pc # "serving" /\ (r.op # "submit" => r.pw = NoPassword)
    BY <1>4, <2>1
  <2>4. RequestFits(r)
    BY <2>1, <2>2, <2>3 DEF RequestFits
  <2> QED
    BY <2>1, <2>4 DEF r
<1> QED
  BY <1>1, <1>2, <1>3, <1>4 DEF FileParts, CountsType

\* The page asks by itself.
LEMMA OwnBecomes ==
  ASSUME FileInv, NEW t \in FileTabs, NEW r \in Requests, NEW p \in PageStates, RequestFits(r),
         r.op \notin {"submit", "head"}, p.busy = tab[t].busy, p.busy => p.needs,
         p.error = "incorrect" => ~p.held,
         tab' = [tab EXCEPT ![t] = p], req' = [req EXCEPT ![t]["own"] = r],
         UNCHANGED <<file, jobs, views, got, linked, bare, barred, changes>>,
         visits' \in 0..MaxVisits, submits' \in 0..MaxSubmits, faults' \in 0..MaxFaults
  PROVE  FileInv'
<1>1. p.busy <=> req[t]["form"] # Idle
  BY TabsFit DEF TabFits
<1>2. "own" \in Kinds
  BY DEF Kinds
<1> QED
  BY <1>1, <1>2, TabOneBecomes

LEMMA OwnKeeps ==
  ASSUME FileInv, NEW t \in FileTabs,
         \/ FollowLink(t) \/ Redirected(t) \/ Rendered(t) \/ CheckOk(t) \/ CheckForbidden(t)
         \/ CheckMissing(t) \/ Informed(t)
  PROVE  FileInv'
<1> USE FileAccessAssumption, Pieces
<1>a. TabFits(tab[t], req[t]) /\ FileTypeOK
  BY TabsFit DEF FileInv, ChecksUseUpNothing
<1>b. visits \in 0..MaxVisits /\ submits \in 0..MaxSubmits /\ faults \in 0..MaxFaults
  OBVIOUS
<1>1. CASE FollowLink(t)
  <2>1. visits' \in 0..MaxVisits /\ UNCHANGED <<file, jobs, views, got, linked, bare, barred, submits, changes, faults>>
    BY <1>1 DEF FollowLink
  <2>2. CASE ShowPage(t)
    BY <2>1, <2>2, ArriveKeeps
  <2>3. CASE req' = [req EXCEPT ![t]["own"] = Send("visit", NoPassword)] /\ UNCHANGED tab
    <3> DEFINE r == Send("visit", NoPassword)
    <3>1. r \in Requests /\ RequestFits(r) /\ r.op \notin {"submit", "head"}
      BY SentIsRequest, <1>a
    <3>2. tab' = [tab EXCEPT ![t] = tab[t]] /\ req' = [req EXCEPT ![t]["own"] = r]
      BY <2>3
    <3> HIDE DEF r
    <3> QED
      BY <1>a, <1>b, <2>1, <3>1, <3>2, OwnBecomes DEF TabFits
  <2> QED
    BY <1>1, <2>2, <2>3 DEF FollowLink
<1>2. CASE Redirected(t)
  BY <1>2, <1>b, ArriveKeeps DEF Redirected, fileBounds
<1>3. CASE Rendered(t)
  <2> DEFINE p == tab[t]
             r == Idle
  <2>1. p \in PageStates /\ p.busy = tab[t].busy /\ (p.busy => p.needs) /\ (p.error = "incorrect" => ~p.held)
    BY <1>a, <1>3 DEF Rendered, TabFits, PageStates, NoPage, Checking
  <2>2. r \in Requests /\ RequestFits(r) /\ r.op \notin {"submit", "head"}
    BY SentIsRequest, <1>a DEF Idle
  <2>3. tab' = [tab EXCEPT ![t] = p] /\ req' = [req EXCEPT ![t]["own"] = r]
    BY <1>3 DEF Rendered
  <2> HIDE DEF p, r
  <2> QED
    BY <1>3, <1>a, <1>b, <2>1, <2>2, <2>3, OwnBecomes DEF Rendered, fileBounds
<1>4. CASE CheckOk(t)
  <2> DEFINE p == NoPage
             r == Send("open", NoPassword)
  <2>1. p \in PageStates /\ p.busy = tab[t].busy /\ (p.busy => p.needs) /\ (p.error = "incorrect" => ~p.held)
    BY <1>a, <1>4 DEF CheckOk, TabFits, PageStates, NoPage, Checking
  <2>2. r \in Requests /\ RequestFits(r) /\ r.op \notin {"submit", "head"}
    BY SentIsRequest, <1>a DEF Idle
  <2>3. tab' = [tab EXCEPT ![t] = p] /\ req' = [req EXCEPT ![t]["own"] = r]
    BY <1>4 DEF CheckOk
  <2> HIDE DEF p, r
  <2> QED
    BY <1>4, <1>a, <1>b, <2>1, <2>2, <2>3, OwnBecomes DEF CheckOk, fileBounds
<1>5. CASE CheckForbidden(t)
  <2> DEFINE p == [tab[t] EXCEPT !.needs = TRUE]
             r == Send("info", NoPassword)
  <2>1. p \in PageStates /\ p.busy = tab[t].busy /\ (p.busy => p.needs) /\ (p.error = "incorrect" => ~p.held)
    BY <1>a, <1>5 DEF CheckForbidden, TabFits, PageStates, NoPage, Checking
  <2>2. r \in Requests /\ RequestFits(r) /\ r.op \notin {"submit", "head"}
    BY SentIsRequest, <1>a DEF Idle
  <2>3. tab' = [tab EXCEPT ![t] = p] /\ req' = [req EXCEPT ![t]["own"] = r]
    BY <1>5 DEF CheckForbidden
  <2> HIDE DEF p, r
  <2> QED
    BY <1>5, <1>a, <1>b, <2>1, <2>2, <2>3, OwnBecomes DEF CheckForbidden, fileBounds
<1>6. CASE CheckMissing(t)
  <2> DEFINE p == [tab[t] EXCEPT !.error = "missing"]
             r == Idle
  <2>1. p \in PageStates /\ p.busy = tab[t].busy /\ (p.busy => p.needs) /\ (p.error = "incorrect" => ~p.held)
    BY <1>a, <1>6 DEF CheckMissing, TabFits, PageStates, NoPage, Checking
  <2>2. r \in Requests /\ RequestFits(r) /\ r.op \notin {"submit", "head"}
    BY SentIsRequest, <1>a DEF Idle
  <2>3. tab' = [tab EXCEPT ![t] = p] /\ req' = [req EXCEPT ![t]["own"] = r]
    BY <1>6 DEF CheckMissing
  <2> HIDE DEF p, r
  <2> QED
    BY <1>6, <1>a, <1>b, <2>1, <2>2, <2>3, OwnBecomes DEF CheckMissing, fileBounds
<1>7. CASE Informed(t)
  <2>1. PICK p \in {tab[t], [tab[t] EXCEPT !.error = "unable"]} : tab' = [tab EXCEPT ![t] = p]
    BY <1>7 DEF Informed
  <2>2. p \in PageStates /\ p.busy = tab[t].busy /\ (p.busy => p.needs) /\ (p.error = "incorrect" => ~p.held)
    BY <1>a, <2>1 DEF TabFits, PageStates
  <2>3. Idle \in Requests /\ RequestFits(Idle) /\ Idle.op \notin {"submit", "head"}
    BY DEF Idle
  <2>4. req' = [req EXCEPT ![t]["own"] = Idle]
    BY <1>7 DEF Informed
  <2> QED
    BY <1>7, <1>a, <1>b, <2>1, <2>2, <2>3, <2>4, OwnBecomes DEF Informed, fileBounds
<1> QED
  BY <1>1, <1>2, <1>3, <1>4, <1>5, <1>6, <1>7

\* The form, and what goes wrong.
LEMMA FormBecomes ==
  ASSUME FileInv, NEW t \in FileTabs, NEW r \in Requests, NEW p \in PageStates, RequestFits(r),
         p.busy <=> r # Idle, r.op \in {"none", "submit"}, p.needs = tab[t].needs, p.at = tab[t].at, p.busy => p.needs,
         p.error = "incorrect" => ~p.held,
         tab' = [tab EXCEPT ![t] = p], req' = [req EXCEPT ![t]["form"] = r],
         UNCHANGED <<file, jobs, views, got, linked, bare, barred, changes>>,
         visits' \in 0..MaxVisits, submits' \in 0..MaxSubmits, faults' \in 0..MaxFaults
  PROVE  FileInv'
<1>1. req[t]["own"].op = "head" => p.at = "page" /\ ~p.needs
  BY TabsFit DEF TabFits
<1>2. "form" \in Kinds /\ "form" # "own"
  BY DEF Kinds
<1> QED
  BY <1>1, <1>2, TabOneBecomes

LEMMA FormKeeps ==
  ASSUME FileInv, NEW t \in FileTabs, Submitted(t) \/ \E pw \in Passwords : SubmitPassword(t, pw)
  PROVE  FileInv'
<1> USE FileAccessAssumption, Pieces
<1>a. TabFits(tab[t], req[t]) /\ FileTypeOK
  BY TabsFit DEF FileInv, ChecksUseUpNothing
<1>b. visits \in 0..MaxVisits /\ submits \in 0..MaxSubmits /\ faults \in 0..MaxFaults
  OBVIOUS
<1>1. ASSUME NEW pw \in Passwords, SubmitPassword(t, pw)
      PROVE  FileInv'
  <2> DEFINE p == [tab[t] EXCEPT !.error = "none", !.busy = TRUE]
             r == Send("submit", pw)
  <2>1. /\ p \in PageStates /\ p.busy = TRUE /\ p.needs = tab[t].needs /\ p.at = tab[t].at
        /\ p.needs /\ p.error = "none"
    BY <1>a, <1>1 DEF SubmitPassword, PageStates, TabFits
  <2>2. r \in Requests /\ RequestFits(r) /\ r # Idle /\ r.op = "submit"
    BY <1>a, SentIsRequest
  <2>3. tab' = [tab EXCEPT ![t] = p] /\ req' = [req EXCEPT ![t]["form"] = r]
    <3>1. tab' = [tab EXCEPT ![t].error = "none", ![t].busy = TRUE] /\ req' = [req EXCEPT ![t]["form"] = r]
      BY <1>1 DEF SubmitPassword
    <3> QED
      BY <3>1
  <2>4. submits' \in 0..MaxSubmits
    BY <1>b, <1>1 DEF SubmitPassword
  <2> HIDE DEF p, r
  <2> QED
    BY <1>1, <1>b, <2>1, <2>2, <2>3, <2>4, FormBecomes DEF SubmitPassword
<1>2. CASE Submitted(t)
  <2> DEFINE e == ErrorOf(req[t]["form"].pc)
             h == req[t]["form"].held
             p == [tab[t] EXCEPT !.error = e, !.busy = FALSE, !.held = h]
  <2>1. h \in BOOLEAN /\ RequestFits(req[t]["form"]) /\ req[t]["form"].pc \in {"ok", "403", "404"}
    BY <1>a, <1>2 DEF TabFits, Kinds, Requests, Submitted
  <2>2. e \in {"none", "incorrect", "failed"} /\ (e = "incorrect" => ~h)
    BY <2>1 DEF ErrorOf, RequestFits
  <2>3. tab' = [tab EXCEPT ![t] = p] /\ req' = [req EXCEPT ![t]["form"] = Idle]
    BY <1>2 DEF Submitted
  <2> HIDE DEF e, h
  <2>4. /\ p \in PageStates /\ p.busy = FALSE /\ p.needs = tab[t].needs /\ p.at = tab[t].at
        /\ (p.error = "incorrect" => ~p.held)
    BY <1>a, <2>1, <2>2 DEF PageStates, TabFits
  <2>5. UNCHANGED <<file, jobs, views, got, linked, bare, barred, changes, visits, submits, faults>>
    BY <1>2 DEF Submitted, fileBounds
  <2> HIDE DEF p
  <2> QED
    BY <1>b, <2>3, <2>4, <2>5, FormBecomes DEF Idle
<1> QED
  BY <1>1, <1>2

LEMMA FailureKeeps ==
  ASSUME FileInv, NEW t \in FileTabs, NEW k \in Kinds, RequestFails(t, k)
  PROVE  FileInv'
<1> USE FileAccessAssumption, Pieces
<1>a. TabFits(tab[t], req[t]) /\ FileTypeOK
  BY TabsFit DEF FileInv, ChecksUseUpNothing
<1>b. /\ visits \in 0..MaxVisits /\ submits \in 0..MaxSubmits /\ faults' \in 0..MaxFaults
      /\ UNCHANGED <<file, jobs, views, got, linked, bare, barred, changes, visits, submits>>
      /\ req' = [req EXCEPT ![t][k] = Idle]
  <2>1. MaxFaults \in Nat /\ faults \in 0..MaxFaults
    OBVIOUS
  <2>2. /\ faults < MaxFaults /\ faults' = faults + 1 /\ req' = [req EXCEPT ![t][k] = Idle]
        /\ UNCHANGED <<file, jobs, views, got, linked, bare, barred, visits, submits, changes>>
    BY DEF RequestFails
  <2> QED
    BY <2>1, <2>2
<1>1. CASE k = "form"
  <2> DEFINE p == [tab[t] EXCEPT !.error = "failed", !.busy = FALSE]
  <2>1. /\ p \in PageStates /\ p.busy = FALSE /\ p.needs = tab[t].needs /\ p.at = tab[t].at /\ p.error = "failed"
    BY <1>a DEF PageStates, TabFits
  <2>2. tab' = [tab EXCEPT ![t] = p]
    <3>1. tab' = [tab EXCEPT ![t].error = "failed", ![t].busy = FALSE]
      BY <1>1, <1>a DEF RequestFails, TabFits
    <3> QED
      BY <3>1
  <2> HIDE DEF p
  <2> QED
    BY <1>1, <1>b, <2>1, <2>2, FormBecomes DEF Idle
<1>2. CASE k = "own"
  <2>1. PICK p \in {tab[t], [tab[t] EXCEPT !.error = "unable"]} : tab' = [tab EXCEPT ![t] = p]
    BY <1>2 DEF RequestFails
  <2>2. p \in PageStates /\ p.busy = tab[t].busy /\ (p.busy => p.needs) /\ (p.error = "incorrect" => ~p.held)
    BY <1>a, <2>1 DEF TabFits, PageStates
  <2>3. Idle \in Requests /\ RequestFits(Idle) /\ Idle.op \notin {"submit", "head"}
    BY DEF Idle
  <2> QED
    BY <1>2, <1>b, <2>1, <2>2, <2>3, OwnBecomes
<1> QED
  BY <1>1, <1>2 DEF Kinds

LEMMA FileInvInductive == FileInv /\ [FileNext]_fileVars => FileInv'
<1> SUFFICES ASSUME FileInv, [FileNext]_fileVars
             PROVE  FileInv'
  OBVIOUS
<1>1. CASE UNCHANGED fileVars
  <2>1. FileParts /\ FileFits /\ IncorrectMeansWrong /\ UsedUpByDownloads
    BY FileTypeParts DEF FileInv, ChecksUseUpNothing
  <2>2. FileTypeOK'
    BY <1>1, <2>1, FileTypePartsNext
       DEF FileParts, RowType, CountsType, RequestsType, TabsType, FormLocked, fileVars, fileBounds
  <2>3. FileFits' /\ IncorrectMeansWrong' /\ UsedUpByDownloads'
    BY <1>1, <2>1 DEF FileFits, RequestFits, Opens, IncorrectMeansWrong, UsedUpByDownloads, fileVars
  <2> QED
    BY <2>2, <2>3 DEF FileInv, ChecksUseUpNothing
<1>2. CASE PostProcess \/ Delete \/ Bar \/ \E pw \in Passwords \cup {NoPassword} : ChangePassword(pw)
  BY <1>2, PostProcessKeeps, OwnerKeeps
<1>3. ASSUME NEW t \in FileTabs, FollowLink(t) \/ Handle(t)
      PROVE  FileInv'
  BY <1>3, ServerKeeps, OwnKeeps, FormKeeps DEF Handle
<1>4. ASSUME NEW t \in FileTabs, Leave(t)
      PROVE  FileInv'
  <2>1. visits' \in 0..MaxVisits
    BY <1>4, Pieces DEF Leave, fileBounds
  <2> QED
    BY <1>4, <2>1, ArriveKeeps DEF Leave, fileBounds
<1>5. ASSUME NEW t \in FileTabs, \/ \E pw \in Passwords : SubmitPassword(t, pw)
                                 \/ \E k \in Kinds : RequestFails(t, k)
      PROVE  FileInv'
  BY <1>5, FormKeeps, FailureKeeps
<1> QED
  BY <1>1, <1>2, <1>3, <1>4, <1>5 DEF FileNext

\* The page of a file with a password, for any tabs and passwords (FileSpec).
THEOREM FileInvariant == FileSpec => []FileInv
<1>1. FileInit => FileInv
  <2> SUFFICES ASSUME FileInit
               PROVE  FileInv
    OBVIOUS
  <2> USE FileAccessAssumption
  <2>1. RowType /\ TabsType /\ FormLocked
    BY DEF FileInit, RowType, FileRows, TabsType, PageStates, NoPage, FormLocked, Kinds
  <2>2. RequestsType
    BY DEF FileInit, RequestsType, Requests, Idle
  <2>3. CountsType
    <3>1. MaxVisits \in Nat /\ MaxSubmits \in Nat /\ MaxChanges \in Nat /\ MaxFaults \in Nat
      OBVIOUS
    <3> QED
      BY <3>1 DEF FileInit, CountsType
  <2>4. FileTypeOK
    BY <2>1, <2>2, <2>3, FileTypeParts DEF FileParts
  <2>5. FileFits
    BY DEF FileInit, FileFits, RequestFits, Idle, Kinds, Opens
  <2>6. IncorrectMeansWrong /\ UsedUpByDownloads
    BY DEF FileInit, IncorrectMeansWrong, UsedUpByDownloads, NoPage
  <2> QED
    BY <2>4, <2>5, <2>6 DEF FileInv, ChecksUseUpNothing
<1> QED
  BY <1>1, FileInvInductive, PTL DEF FileSpec

\* The requests with which a page checks a one-time file that always had a password do not use it
\* up, and a right password is never called incorrect (getFile, hasPassword).
THEOREM OnlyDownloadsUseUp == FileSpec => []ChecksUseUpNothing
BY FileInvariant, PTL DEF FileInv

-----------------------------------------------------------------------------
(* Users.                                                                   *)

\* A request that is under way asks with credentials, a change of a session that is logged in;
\* what it has found is a row.
RequestsFit ==
  \A c \in Clients :
    /\ request[c].pc # "idle" <=> request[c].op # "none"
    /\ request[c].op # "none" => request[c].asked \in Credentials
    /\ request[c].op = "change" => session[c] # NoUser
    /\ request[c].pc = "read" => request[c].id \in Rows

\* One process has made the one row: what it says is known, or that process will still say it.
OneRow ==
  ~twins =>
    /\ \A i, j \in Rows : i = j
    /\ ~lost => \A i \in Rows : \/ row[i] \in known
                                \/ \E p \in Processes : boot[p] = "log" /\ row[i] = FirstUser(p)

\* Of the one change that is under way: what it has written is in the table until it is told;
\* what was told last is in the table unless it has written.
ChangesFit ==
  ~twins /\ ~overlapped =>
    /\ \A c, d \in Changing : c = d
    /\ last # NoUser => Rows # {}
    /\ \A c \in Changing : request[c].pc = "ok" => Rows # {} /\ \A i \in Rows : row[i] = request[c].asked
    /\ (\A c \in Changing : request[c].pc # "ok") /\ last # NoUser => \A i \in Rows : row[i] = last

UsersInv == UsersTypeOK /\ RequestsFit /\ OneRow /\ ChangesFit

RequestStates ==
  [op : {"none", "login", "change"}, pc : {"idle", "sent", "read", "ok", "refused"},
   asked : Credentials \cup {NoUser}, id : Ids \cup {NoUser}, read : AllPasswords \cup {NoUser}]

\* The type in parts: the table and the sessions, the processes, the requests, the history.
TableType ==
  /\ row \in [Ids -> Credentials \cup {NoUser}]
  /\ session \in [Clients -> LoggedIn \cup {NoUser}]
  /\ \A c \in Clients : session[c] # NoUser => session[c].id \in Rows

BootType == boot \in [Processes -> {"down", "hash", "log", "up"}]

RequestType == request \in [Clients -> RequestStates]

HistoryType ==
  /\ known \subseteq Credentials /\ last \in Credentials \cup {NoUser}
  /\ twins \in BOOLEAN /\ lost \in BOOLEAN /\ overlapped \in BOOLEAN
  /\ requests \in 0..MaxRequests /\ crashes \in 0..MaxCrashes

UsersParts == TableType /\ BootType /\ RequestType /\ HistoryType

LEMMA UsersTypeParts == UsersTypeOK <=> UsersParts
BY DEF UsersTypeOK, UsersParts, TableType, BootType, RequestType, HistoryType, RequestStates

\* The invariant of the next state, from its parts.
LEMMA UsersInvNext == UsersParts' /\ RequestsFit' /\ OneRow' /\ ChangesFit' => UsersInv'
BY DEF UsersInv, UsersTypeOK, UsersParts, TableType, BootType, RequestType, HistoryType, RequestStates

\* $afterInit of a process.
LEMMA BootKeeps ==
  ASSUME UsersInv, NEW p \in Processes, Boot(p)
  PROVE  UsersInv'
<1> USE UsersAssumption
<1>a. UsersParts /\ RequestsFit /\ OneRow /\ ChangesFit
  BY UsersTypeParts DEF UsersInv
<1>b. UNCHANGED <<session, request, last, overlapped, requests>>
  BY DEF Boot, GetAllUsers, CreateUser, Announce, Crash, table, usersHistory, usersBounds
<1>1. CASE GetAllUsers(p) \/ Announce(p) \/ Crash(p)
  <2>1. UNCHANGED <<row, twins>> /\ boot' \in [Processes -> {"down", "hash", "log", "up"}]
        /\ known \subseteq known' /\ known' \subseteq Credentials /\ lost' \in BOOLEAN /\ crashes' \in 0..MaxCrashes
    <3>1. boot \in [Processes -> {"down", "hash", "log", "up"}] /\ known \subseteq Credentials
          /\ lost \in BOOLEAN /\ crashes \in 0..MaxCrashes /\ MaxCrashes \in Nat
      BY <1>a DEF UsersParts, BootType, HistoryType
    <3>2. CASE GetAllUsers(p)
      BY <3>1, <3>2 DEF GetAllUsers, table, usersHistory, usersBounds
    <3>3. CASE Announce(p)
      <4>1. FirstUser(p) \in Credentials
        BY DEF FirstUser, Credentials, AllEmails, AllPasswords
      <4> QED
        BY <3>1, <3>3, <4>1 DEF Announce, table, usersBounds
    <3>4. CASE Crash(p)
      BY <3>1, <3>4 DEF Crash, table
    <3> QED
      BY <1>1, <3>2, <3>3, <3>4
  <2>2. UsersParts'
    BY <1>a, <1>b, <2>1 DEF UsersParts, TableType, BootType, RequestType, HistoryType, Rows
  <2>3. RequestsFit' /\ ChangesFit'
    BY <1>a, <1>b, <2>1 DEF RequestsFit, ChangesFit, Rows, Changing
  <2>4. OneRow'
    <3> SUFFICES ASSUME ~twins', ~lost', NEW i \in Rows'
                 PROVE  row'[i] \in known' \/ \E q \in Processes : boot'[q] = "log" /\ row'[i] = FirstUser(q)
      BY <1>a, <2>1 DEF OneRow, Rows
    <3>1. ~lost /\ (boot[p] = "log" => Announce(p))
      BY <1>a, <1>1 DEF GetAllUsers, Announce, Crash, usersHistory, UsersParts, HistoryType
    <3>2. row[i] \in known \/ \E q \in Processes : boot[q] = "log" /\ row[i] = FirstUser(q)
      BY <1>a, <2>1, <3>1 DEF OneRow, Rows
    <3>3. ASSUME NEW q \in Processes, boot[q] = "log", row[i] = FirstUser(q)
          PROVE  row'[i] \in known' \/ boot'[q] = "log"
      BY <1>a, <1>1, <2>1, <3>1, <3>3 DEF GetAllUsers, Announce, Crash, UsersParts, BootType
    <3> QED
      BY <2>1, <3>2, <3>3
  <2> QED
    BY <2>2, <2>3, <2>4, UsersInvNext
<1>2. CASE CreateUser(p)
  <2>1. PICK i \in Ids \ Rows : row' = [row EXCEPT ![i] = FirstUser(p)]
    BY <1>2 DEF CreateUser, Rows
  <2>2. /\ boot' = [boot EXCEPT ![p] = "log"] /\ (twins' <=> twins \/ Rows # {}) /\ twins' \in BOOLEAN
        /\ UNCHANGED <<known, lost, crashes>>
    BY <1>a, <1>2 DEF CreateUser, usersBounds, UsersParts, HistoryType
  <2>3. FirstUser(p) \in Credentials
    BY DEF FirstUser, Credentials, AllEmails, AllPasswords
  <2>4. Rows' = Rows \cup {i} /\ row'[i] = FirstUser(p) /\ \A j \in Rows : row'[j] = row[j]
    BY <1>a, <2>1, <2>3 DEF Rows, UsersParts, TableType
  <2>5. UsersParts'
    BY <1>a, <1>b, <2>1, <2>2, <2>3, <2>4 DEF UsersParts, TableType, BootType, RequestType, HistoryType
  <2>6. RequestsFit'
    BY <1>a, <1>b, <2>4 DEF RequestsFit
  <2>7. OneRow'
    BY <1>a, <2>2, <2>4 DEF OneRow, UsersParts, BootType
  <2>8. ChangesFit'
    BY <1>a, <1>b, <2>2, <2>4 DEF ChangesFit, Changing
  <2> QED
    BY <2>5, <2>6, <2>7, <2>8, UsersInvNext
<1> QED
  BY <1>1, <1>2 DEF Boot

\* A request of a client becomes another, and its session with it.
OneAsks(c, r) ==
  /\ r \in RequestStates /\ (r.pc # "idle" <=> r.op # "none") /\ (r.op # "none" => r.asked \in Credentials)
  /\ r.op = "change" => session'[c] # NoUser
  /\ r.pc = "read" => r.id \in Rows'

LEMMA AskKeeps ==
  ASSUME RequestType, RequestsFit, NEW c \in Clients, NEW r, OneAsks(c, r),
         request' = [request EXCEPT ![c] = r], \A d \in Clients \ {c} : session'[d] = session[d], Rows \subseteq Rows'
  PROVE  RequestType' /\ RequestsFit' /\ request'[c] = r /\ \A d \in Clients \ {c} : request'[d] = request[d]
<1>1. request'[c] = r /\ \A d \in Clients \ {c} : request'[d] = request[d]
  BY DEF RequestType
<1>2. RequestType'
  BY DEF RequestType, OneAsks
<1>3. RequestsFit'
  BY <1>1 DEF RequestsFit, OneAsks
<1> QED
  BY <1>1, <1>2, <1>3

\* The requests that only ask, read or answer leave the table alone.
LEMMA ReadsKeep ==
  ASSUME UsersInv, NEW c \in Clients, NEW r, OneAsks(c, r), request' = [request EXCEPT ![c] = r],
         UNCHANGED <<row, boot, known, twins, lost>>, session' \in [Clients -> LoggedIn \cup {NoUser}],
         session'[c] # NoUser => session'[c].id \in Rows, \A d \in Clients \ {c} : session'[d] = session[d],
         last' \in Credentials \cup {NoUser}, overlapped' \in BOOLEAN,
         requests' \in 0..MaxRequests, crashes' \in 0..MaxCrashes,
         ChangesFit'
  PROVE  UsersInv'
<1>a. UsersParts /\ RequestsFit /\ OneRow
  BY UsersTypeParts DEF UsersInv
<1>1. Rows' = Rows
  BY DEF Rows
<1>2. RequestType' /\ RequestsFit'
  BY <1>a, <1>1, AskKeeps DEF UsersParts
<1>3. TableType' /\ BootType' /\ HistoryType'
  BY <1>a, <1>1 DEF UsersParts, TableType, BootType, HistoryType
<1>4. OneRow'
  BY <1>a, <1>1 DEF OneRow
<1> QED
  BY <1>2, <1>3, <1>4, UsersInvNext DEF UsersParts

\* No change writes or is told.
LEMMA ChangesKeep ==
  ASSUME ChangesFit, NEW c \in Clients, \A d \in Clients \ {c} : request'[d] = request[d],
         UNCHANGED <<row, twins, last>>, overlapped => overlapped',
         ~overlapped' /\ c \in Changing' => c \in Changing \/ Changing = {},
         ~overlapped' /\ c \in Changing => request[c].pc # "ok",
         c \in Changing' => request'[c].pc # "ok"
  PROVE  ChangesFit'
<1> SUFFICES ASSUME ~twins', ~overlapped'
             PROVE  /\ \A d, e \in Changing' : d = e
                    /\ last' # NoUser => Rows' # {}
                    /\ \A d \in Changing' : request'[d].pc = "ok" =>
                          Rows' # {} /\ \A i \in Rows' : row'[i] = request'[d].asked
                    /\ (\A d \in Changing' : request'[d].pc # "ok") /\ last' # NoUser =>
                          \A i \in Rows' : row'[i] = last'
  BY DEF ChangesFit
<1>1. /\ \A d, e \in Changing : d = e
      /\ last # NoUser => Rows # {}
      /\ \A d \in Changing : request[d].pc = "ok" => Rows # {} /\ \A i \in Rows : row[i] = request[d].asked
      /\ (\A d \in Changing : request[d].pc # "ok") /\ last # NoUser => \A i \in Rows : row[i] = last
  BY DEF ChangesFit
<1>2. Rows' = Rows
  BY DEF Rows
<1>3. \A d \in Clients \ {c} : d \in Changing' <=> d \in Changing
  BY DEF Changing
<1>4. Changing \subseteq Clients /\ Changing' \subseteq Clients
  BY DEF Changing
<1>5. \A d, e \in Changing' : d = e
  BY <1>1, <1>3, <1>4
<1>6. (\A d \in Changing' : request'[d].pc # "ok") => \A d \in Changing : request[d].pc # "ok"
  BY <1>3, <1>4
<1> QED
  BY <1>1, <1>2, <1>3, <1>4, <1>5, <1>6

LEMMA RequestKeeps ==
  ASSUME UsersInv, NEW c \in Clients,
         \/ \E asked \in Credentials : Login(c, asked)
         \/ \E e \in Emails, w \in Chosen : ChangeDetails(c, [email |-> e, password |-> w])
         \/ GetUser(c) \/ Verify(c) \/ Reply(c) \/ LogOut(c) \/ LoseRequest(c)
  PROVE  UsersInv'
<1> USE UsersAssumption
<1>a. TableType /\ BootType /\ RequestType /\ HistoryType /\ RequestsFit /\ OneRow /\ ChangesFit
  BY UsersTypeParts DEF UsersInv, UsersParts
<1>b. /\ request[c] \in RequestStates /\ (request[c].pc # "idle" <=> request[c].op # "none")
      /\ request[c].op # "none" => request[c].asked \in Credentials
      /\ request[c].op = "change" => session[c] # NoUser
      /\ request[c].pc = "read" => request[c].id \in Rows
  BY <1>a DEF RequestType, RequestsFit
<1>c. /\ session \in [Clients -> LoggedIn \cup {NoUser}] /\ (session[c] # NoUser => session[c].id \in Rows)
      /\ last \in Credentials \cup {NoUser} /\ overlapped \in BOOLEAN
      /\ requests \in 0..MaxRequests /\ crashes \in 0..MaxCrashes
  BY <1>a DEF TableType, HistoryType
<1>d. NoReq \in RequestStates /\ NoReq.op = "none" /\ NoReq.pc = "idle"
  BY DEF NoReq, RequestStates
<1>e. ASSUME NEW op \in {"login", "change"}, NEW asked \in Credentials, Begin(c, op, asked),
             UNCHANGED row, op = "change" => session'[c] # NoUser
      PROVE  /\ requests' \in 0..MaxRequests
             /\ \E r : /\ OneAsks(c, r) /\ request' = [request EXCEPT ![c] = r] /\ r.op = op /\ r.pc = "sent"
  <2> DEFINE r == [NoReq EXCEPT !.op = op, !.pc = "sent", !.asked = asked]
  <2>1. r \in RequestStates /\ r.op = op /\ r.pc = "sent" /\ r.asked = asked
    BY DEF NoReq, RequestStates
  <2>2. request' = [request EXCEPT ![c] = r]
    BY <1>e DEF Begin
  <2>3. requests' \in 0..MaxRequests
    BY <1>c, <1>e DEF Begin
  <2> HIDE DEF r
  <2> QED
    BY <1>e, <2>1, <2>2, <2>3 DEF OneAsks
<1>1. ASSUME NEW asked \in Credentials, Login(c, asked)
      PROVE  UsersInv'
  <2>1. Begin(c, "login", asked) /\ UNCHANGED <<row, session, boot, known, last, twins, lost, overlapped, crashes>>
    BY <1>1 DEF Login, table, usersHistory
  <2>2. PICK r : OneAsks(c, r) /\ request' = [request EXCEPT ![c] = r] /\ r.op = "login"
    BY <1>e, <2>1
  <2>3. request'[c] = r /\ \A d \in Clients \ {c} : request'[d] = request[d]
    BY <1>a, <2>2 DEF RequestType
  <2>4. c \notin Changing' /\ c \notin Changing
    BY <1>b, <2>1, <2>2, <2>3 DEF Changing, Begin
  <2>5. ChangesFit'
    BY <1>a, <2>1, <2>3, <2>4, ChangesKeep
  <2> QED
    BY <1>c, <1>e, <2>1, <2>2, <2>5, ReadsKeep
<1>2. ASSUME NEW e \in Emails, NEW w \in Chosen, ChangeDetails(c, [email |-> e, password |-> w])
      PROVE  UsersInv'
  <2> DEFINE asked == [email |-> e, password |-> w]
  <2>1. /\ Begin(c, "change", asked) /\ UNCHANGED <<row, session, boot, known, last, twins, lost, crashes>>
        /\ session[c] # NoUser /\ overlapped' = (overlapped \/ Changing # {})
    BY <1>2 DEF ChangeDetails, table
  <2>2. asked \in Credentials
    BY DEF Credentials, AllEmails, AllPasswords
  <2> HIDE DEF asked
  <2>3. PICK r : OneAsks(c, r) /\ request' = [request EXCEPT ![c] = r] /\ r.op = "change" /\ r.pc = "sent"
    BY <1>e, <2>1, <2>2
  <2>4. request'[c] = r /\ \A d \in Clients \ {c} : request'[d] = request[d]
    BY <1>a, <2>3 DEF RequestType
  <2>5. c \notin Changing
    BY <1>b, <2>1 DEF Changing, Begin
  <2>6. overlapped' \in BOOLEAN /\ (overlapped => overlapped') /\ (~overlapped' => Changing = {})
    BY <1>c, <2>1
  <2>7. ChangesFit'
    BY <1>a, <2>1, <2>3, <2>4, <2>5, <2>6, ChangesKeep
  <2>8. requests' \in 0..MaxRequests
    BY <1>e, <2>1, <2>2
  <2> QED
    BY <1>c, <2>1, <2>3, <2>6, <2>7, <2>8, ReadsKeep
<1>3. CASE GetUser(c)
  <2>1. request[c].pc = "sent" /\ UNCHANGED <<row, session, boot, known, last, twins, lost, overlapped, requests, crashes>>
    BY <1>3 DEF GetUser, table, usersHistory, usersBounds
  <2>2. PICK r : /\ r \in RequestStates /\ r.op = request[c].op /\ r.asked = request[c].asked
                 /\ r.pc \in {"read", "refused"} /\ (r.pc = "read" => r.id \in Rows)
                 /\ request' = [request EXCEPT ![c] = r]
    <3>1. CASE Sought(c) = {}
      <4> DEFINE r == [request[c] EXCEPT !.pc = "refused"]
      <4>1. /\ r \in RequestStates /\ r.op = request[c].op /\ r.asked = request[c].asked /\ r.pc = "refused"
            /\ request' = [request EXCEPT ![c] = r]
        BY <1>3, <1>b, <3>1 DEF GetUser, Goes, RequestStates
      <4> HIDE DEF r
      <4> QED
        BY <4>1
    <3>2. CASE Sought(c) # {}
      <4>1. PICK i \in Sought(c) :
              request' = [request EXCEPT ![c].pc = "read", ![c].id = i, ![c].read = row[i].password]
        BY <1>3, <3>2 DEF GetUser
      <4>2. i \in Ids /\ i \in Rows /\ row[i].password \in AllPasswords
        BY <1>a, <4>1 DEF Sought, With, Rows, TableType, Credentials
      <4> DEFINE r == [request[c] EXCEPT !.pc = "read", !.id = i, !.read = row[i].password]
      <4>3. /\ r \in RequestStates /\ r.op = request[c].op /\ r.asked = request[c].asked /\ r.pc = "read" /\ r.id = i
        BY <1>b, <4>2 DEF RequestStates
      <4>4. request' = [request EXCEPT ![c] = r]
        BY <1>a, <4>1 DEF RequestType, RequestStates
      <4> HIDE DEF r
      <4> QED
        BY <4>2, <4>3, <4>4
    <3> QED
      BY <3>1, <3>2
  <2>3. Rows' = Rows
    BY <2>1 DEF Rows
  <2>4. OneAsks(c, r)
    BY <1>b, <2>1, <2>2, <2>3 DEF OneAsks
  <2>5. request'[c] = r /\ \A d \in Clients \ {c} : request'[d] = request[d]
    BY <1>a, <2>2 DEF RequestType
  <2>6. (c \in Changing' => c \in Changing) /\ request[c].pc # "ok" /\ request'[c].pc # "ok"
    BY <2>1, <2>2, <2>5 DEF Changing
  <2>7. ChangesFit'
    BY <1>a, <2>1, <2>5, <2>6, ChangesKeep
  <2> QED
    BY <1>c, <2>1, <2>2, <2>4, <2>7, ReadsKeep
<1>4. CASE Verify(c)
  <2>1. /\ request[c].op = "login" /\ request[c].pc = "read"
        /\ UNCHANGED <<row, boot, known, last, twins, lost, overlapped, requests, crashes>>
    BY <1>4 DEF Verify, usersHistory, usersBounds
  <2>2. PICK pc \in {"ok", "refused"} : request' = [request EXCEPT ![c].pc = pc]
    BY <1>4 DEF Verify, Goes
  <2> DEFINE r == [request[c] EXCEPT !.pc = pc]
  <2>3. r \in RequestStates /\ r.op = "login" /\ r.asked = request[c].asked /\ r.pc = pc
    BY <1>b, <2>1, <2>2 DEF RequestStates
  <2>4. request' = [request EXCEPT ![c] = r]
    BY <2>2
  <2> HIDE DEF r
  <2>5. OneAsks(c, r)
    BY <1>b, <2>1, <2>2, <2>3 DEF OneAsks
  <2>6. request'[c] = r /\ \A d \in Clients \ {c} : request'[d] = request[d]
    BY <1>a, <2>4 DEF RequestType
  <2>7. c \notin Changing /\ c \notin Changing'
    BY <2>1, <2>3, <2>6 DEF Changing
  <2>8. ChangesFit'
    BY <1>a, <2>1, <2>6, <2>7, ChangesKeep
  <2>9. /\ session' \in [Clients -> LoggedIn \cup {NoUser}] /\ (session'[c] # NoUser => session'[c].id \in Rows)
        /\ \A d \in Clients \ {c} : session'[d] = session[d]
    <3> DEFINE u == [id |-> request[c].id, email |-> request[c].asked.email]
    <3>1. u \in LoggedIn /\ u.id \in Rows
      BY <1>b, <2>1 DEF LoggedIn, Credentials, Rows
    <3>2. session' = [session EXCEPT ![c] = u] \/ session' = session
      BY <1>4 DEF Verify
    <3> HIDE DEF u
    <3> QED
      BY <1>c, <3>1, <3>2
  <2> QED
    BY <1>c, <2>1, <2>4, <2>5, <2>8, <2>9, ReadsKeep
<1>f. OneAsks(c, NoReq)
  BY <1>d DEF OneAsks
<1>5. CASE Reply(c)
  <2>1. /\ request[c].pc \in {"ok", "refused"} /\ request' = [request EXCEPT ![c] = NoReq]
        /\ last' = IF request[c].op = "change" /\ request[c].pc = "ok" THEN request[c].asked ELSE last
        /\ UNCHANGED <<row, session, boot, known, twins, lost, overlapped, requests, crashes>>
    BY <1>5 DEF Reply, table, usersBounds
  <2>2. request'[c] = NoReq /\ \A d \in Clients \ {c} : request'[d] = request[d]
    BY <1>a, <2>1 DEF RequestType
  <2>3. c \notin Changing'
    BY <1>d, <2>2 DEF Changing
  <2>4. last' \in Credentials \cup {NoUser}
    BY <1>b, <1>c, <2>1
  <2>5. ChangesFit'
    <3>1. CASE request[c].op = "change" /\ request[c].pc = "ok"
      <4>1. c \in Changing /\ last' = request[c].asked /\ Rows' = Rows
        BY <2>1, <3>1 DEF Changing, Rows
      <4>2. \A d \in Changing' : d \in Changing /\ d # c
        BY <2>2, <2>3 DEF Changing
      <4> QED
        BY <1>a, <2>1, <3>1, <4>1, <4>2 DEF ChangesFit
    <3>2. CASE ~(request[c].op = "change" /\ request[c].pc = "ok")
      <4>1. last' = last /\ (c \in Changing => request[c].pc # "ok")
        BY <2>1, <3>2 DEF Changing
      <4> QED
        BY <1>a, <2>1, <2>2, <2>3, <4>1, ChangesKeep
    <3> QED
      BY <3>1, <3>2
  <2> QED
    BY <1>c, <1>f, <2>1, <2>4, <2>5, ReadsKeep
<1>6. CASE LogOut(c)
  <2>1. /\ request[c].pc = "idle" /\ session' = [session EXCEPT ![c] = NoUser]
        /\ UNCHANGED <<row, boot, request, known, last, twins, lost, overlapped, requests, crashes>>
    BY <1>6 DEF LogOut, usersHistory, usersBounds
  <2>2. request' = [request EXCEPT ![c] = request[c]] /\ OneAsks(c, request[c])
    BY <1>a, <1>b, <2>1 DEF OneAsks, RequestType
  <2>3. /\ session' \in [Clients -> LoggedIn \cup {NoUser}] /\ session'[c] = NoUser
        /\ \A d \in Clients \ {c} : session'[d] = session[d]
    BY <1>c, <2>1
  <2>4. ChangesFit'
    BY <1>a, <2>1 DEF ChangesFit, Changing, Rows
  <2> QED
    BY <1>c, <2>1, <2>2, <2>3, <2>4, ReadsKeep
<1>7. CASE LoseRequest(c)
  <2>1. /\ crashes < MaxCrashes /\ crashes' = crashes + 1 /\ request' = [request EXCEPT ![c] = NoReq]
        /\ overlapped' = (overlapped \/ request[c].op = "change")
        /\ UNCHANGED <<row, session, boot, known, last, twins, lost, requests>>
    BY <1>7 DEF LoseRequest, table
  <2>2. crashes' \in 0..MaxCrashes
    BY <1>c, <2>1
  <2>3. request'[c] = NoReq /\ \A d \in Clients \ {c} : request'[d] = request[d]
    BY <1>a, <2>1 DEF RequestType
  <2>4. c \notin Changing' /\ (~overlapped' => c \notin Changing) /\ overlapped' \in BOOLEAN /\ (overlapped => overlapped')
    BY <1>c, <1>d, <2>1, <2>3 DEF Changing
  <2>5. ChangesFit'
    BY <1>a, <2>1, <2>3, <2>4, ChangesKeep
  <2> QED
    BY <1>c, <1>f, <2>1, <2>2, <2>4, <2>5, ReadsKeep
<1> QED
  BY <1>1, <1>2, <1>3, <1>4, <1>5, <1>6, <1>7

\* The one change that is under way writes the one row.
LEMMA UpdateKeeps ==
  ASSUME UsersInv, NEW c \in Clients, UpdateUser(c)
  PROVE  UsersInv'
<1> USE UsersAssumption
<1>a. TableType /\ BootType /\ RequestType /\ HistoryType /\ RequestsFit /\ OneRow /\ ChangesFit
  BY UsersTypeParts DEF UsersInv, UsersParts
<1>b. /\ request[c] \in RequestStates /\ request[c].asked \in Credentials
      /\ session[c] # NoUser /\ request[c].id \in Rows
      /\ request[c].op = "change" /\ request[c].pc = "read"
  BY <1>a DEF UpdateUser, RequestType, RequestsFit
<1>1. /\ row' = [row EXCEPT ![request[c].id] = request[c].asked]
      /\ known' = known \cup {request[c].asked} /\ request' = [request EXCEPT ![c].pc = "ok"]
      /\ UNCHANGED <<session, boot, last, twins, lost, overlapped, requests, crashes>>
  BY DEF UpdateUser, Changed, Goes, usersBounds
<1>2. /\ Rows' = Rows /\ row'[request[c].id] = request[c].asked
      /\ \A i \in Rows \ {request[c].id} : row'[i] = row[i]
  BY <1>a, <1>b, <1>1 DEF TableType, Rows
<1> DEFINE r == [request[c] EXCEPT !.pc = "ok"]
<1>3. /\ r \in RequestStates /\ r.op = "change" /\ r.pc = "ok" /\ r.asked = request[c].asked
      /\ request' = [request EXCEPT ![c] = r]
  BY <1>b, <1>1 DEF RequestStates
<1> HIDE DEF r
<1>4. RequestType' /\ RequestsFit' /\ request'[c] = r /\ \A d \in Clients \ {c} : request'[d] = request[d]
  <2>1. OneAsks(c, r) /\ Rows \subseteq Rows' /\ \A d \in Clients \ {c} : session'[d] = session[d]
    BY <1>b, <1>1, <1>2, <1>3 DEF OneAsks
  <2> QED
    BY <1>a, <1>3, <2>1, AskKeeps
<1>5. UsersParts'
  BY <1>a, <1>b, <1>1, <1>2, <1>4 DEF UsersParts, TableType, BootType, HistoryType
<1>6. OneRow'
  BY <1>a, <1>b, <1>1, <1>2 DEF OneRow
<1>7. ChangesFit'
  <2> SUFFICES ASSUME ~twins, ~overlapped
               PROVE  /\ \A d, e \in Changing' : d = e
                      /\ last' # NoUser => Rows' # {}
                      /\ \A d \in Changing' : request'[d].pc = "ok" =>
                           Rows' # {} /\ \A i \in Rows' : row'[i] = request'[d].asked
                      /\ (\A d \in Changing' : request'[d].pc # "ok") /\ last' # NoUser =>
                           \A i \in Rows' : row'[i] = last'
    BY <1>1 DEF ChangesFit
  <2>1. Changing' = Changing /\ c \in Changing
    BY <1>b, <1>3, <1>4 DEF Changing
  <2>2. \A d \in Changing : d = c
    BY <1>a, <2>1 DEF ChangesFit
  <2>3. \A i \in Rows : i = request[c].id
    BY <1>a, <1>b DEF OneRow
  <2>4. Rows' # {} /\ \A i \in Rows' : row'[i] = request'[c].asked
    BY <1>b, <1>2, <1>3, <1>4, <2>3
  <2>5. request'[c].pc = "ok"
    BY <1>3, <1>4
  <2> QED
    BY <2>1, <2>2, <2>4, <2>5
<1> QED
  BY <1>4, <1>5, <1>6, <1>7, UsersInvNext

\* The types of the table of users and its sessions, that without a second first user the one
\* row is known, and what the one change under way has done (UserService).
THEOREM UsersInvariant == UsersSpec => []UsersInv
<1>1. UsersInit => UsersInv
  <2> SUFFICES ASSUME UsersInit
               PROVE  UsersInv
    OBVIOUS
  <2>1. Rows = {} /\ Changing = {}
    BY DEF UsersInit, Rows, Changing, NoReq
  <2>2. UsersTypeOK
    <3>1. TableType
      BY <2>1 DEF UsersInit, TableType
    <3>2. NoReq \in RequestStates
      BY DEF NoReq, RequestStates
    <3>3. RequestType
      BY <3>2 DEF UsersInit, RequestType
    <3>4. BootType
      BY DEF UsersInit, BootType
    <3>5. 0 \in 0..MaxRequests /\ 0 \in 0..MaxCrashes
      BY UsersAssumption
    <3>6. HistoryType
      BY <3>5 DEF UsersInit, HistoryType
    <3> QED
      BY <3>1, <3>3, <3>4, <3>6, UsersTypeParts DEF UsersParts
  <2>3. RequestsFit /\ OneRow /\ ChangesFit
    BY <2>1 DEF UsersInit, RequestsFit, OneRow, ChangesFit, NoReq
  <2> QED
    BY <2>2, <2>3 DEF UsersInv
<1>2. UsersInv /\ [UsersNext]_usersVars => UsersInv'
  <2> SUFFICES ASSUME UsersInv, [UsersNext]_usersVars
               PROVE  UsersInv'
    OBVIOUS
  <2>1. ASSUME NEW p \in Processes, Boot(p)
        PROVE  UsersInv'
    BY <2>1, BootKeeps
  <2>2. ASSUME NEW c \in Clients, Request(c)
        PROVE  UsersInv'
    BY <2>2, RequestKeeps, UpdateKeeps DEF Request
  <2>3. CASE UNCHANGED usersVars
    BY <2>3 DEF usersVars, table, usersHistory, usersBounds, UsersInv, UsersTypeOK, RequestsFit, OneRow, ChangesFit,
                Rows, Changing
  <2> QED
    BY <2>1, <2>2, <2>3 DEF UsersNext
<1> QED
  BY <1>1, <1>2, PTL DEF UsersSpec

\* Who is told that credentials work can log in with them: the password that the first user is
\* announced with, and the one that was changed last (UserService.$afterInit, changeDetails).
THEOREM ToldCredentialsLogIn == UsersSpec => []LastChangeWorks
<1>1. UsersInv => LastChangeWorks
  <2> SUFFICES ASSUME UsersInv
               PROVE  LastChangeWorks
    OBVIOUS
  <2>1. ChangedLogsIn
    BY DEF UsersInv, ChangesFit, ChangedLogsIn, LogsIn, With, OneRow, Changing
  <2>2. NobodyLockedOut
    <3> SUFFICES ASSUME Rows # {}, \A p \in Processes : boot[p] # "log", ~lost, ~twins
                 PROVE  \E k \in known : LogsIn(k)
      BY DEF NobodyLockedOut
    <3>1. PICK i \in Rows : TRUE
      OBVIOUS
    <3>2. row[i] \in known /\ \A j \in Rows : j = i
      BY <3>1 DEF UsersInv, OneRow
    <3>3. LogsIn(row[i])
      BY <3>1, <3>2 DEF LogsIn, With
    <3> QED
      BY <3>2, <3>3
  <2> QED
    BY <2>1, <2>2 DEF LastChangeWorks, UsersInv
<1> QED
  BY <1>1, UsersInvariant, PTL

\* A change is refused only of a session whose user has another email by now: the row is there,
\* and is not found by the email of the session (UserService.changeDetails, getUser).
THEOREM RefusedWhenStale == UsersSpec => RefusalsAreStale
<1>1. UsersInv /\ [UsersNext]_usersVars =>
        [\A c \in Clients : request[c].op = "change" /\ request[c].pc = "sent" /\ request'[c].pc = "refused" =>
           row[session[c].id].email # session[c].email]_usersVars
  <2> SUFFICES ASSUME UsersInv, UsersNext, NEW c \in Clients,
                      request[c].op = "change", request[c].pc = "sent", request'[c].pc = "refused"
               PROVE  row[session[c].id].email # session[c].email
    OBVIOUS
  <2>1. request \in [Clients -> RequestStates] /\ session[c] # NoUser /\ session[c].id \in Rows
    BY UsersTypeParts DEF UsersInv, UsersParts, RequestType, RequestsFit, TableType
  <2>2. PICK d \in Clients : Request(d)
    BY <2>1 DEF UsersNext, Boot, GetAllUsers, CreateUser, Announce, Crash
  <2>3. d = c
    <3>1. CASE \E asked \in Credentials : Login(d, asked)
      BY <2>1, <3>1 DEF Login, Begin
    <3>2. CASE \E e \in Emails, w \in Chosen : ChangeDetails(d, [email |-> e, password |-> w])
      BY <2>1, <3>2 DEF ChangeDetails, Begin
    <3>3. CASE GetUser(d)
      BY <2>1, <3>3 DEF GetUser, Goes
    <3>4. CASE Verify(d) \/ UpdateUser(d)
      BY <2>1, <3>4 DEF Verify, UpdateUser, Goes
    <3>5. CASE Reply(d) \/ LoseRequest(d)
      BY <2>1, <3>5 DEF Reply, LoseRequest
    <3>6. CASE LogOut(d)
      BY <2>1, <3>6 DEF LogOut
    <3> QED
      BY <2>2, <3>1, <3>2, <3>3, <3>4, <3>5, <3>6 DEF Request
  <2>4. GetUser(c)
    <3>1. ~Verify(c) /\ ~UpdateUser(c) /\ ~Reply(c)
      BY DEF Verify, UpdateUser, Reply
    <3>2. ~LogOut(c) /\ (\A asked \in Credentials : ~Login(c, asked))
          /\ \A e \in Emails, w \in Chosen : ~ChangeDetails(c, [email |-> e, password |-> w])
      BY DEF LogOut, Login, ChangeDetails, Begin
    <3>3. ~LoseRequest(c)
      BY <2>1 DEF LoseRequest, NoReq
    <3> QED
      BY <2>2, <2>3, <3>1, <3>2, <3>3 DEF Request
  <2>5. Sought(c) = {}
    <3> SUFFICES ASSUME Sought(c) # {}
                 PROVE  FALSE
      OBVIOUS
    <3>1. PICK i \in Sought(c) :
            request' = [request EXCEPT ![c].pc = "read", ![c].id = i, ![c].read = row[i].password]
      BY <2>4 DEF GetUser
    <3>2. request'[c].pc = "read"
      BY <2>1, <3>1 DEF RequestStates
    <3> QED
      BY <3>2
  <2> QED
    BY <2>1, <2>5 DEF Sought, With
<1> QED
  BY <1>1, UsersInvariant, PTL DEF UsersSpec, RefusalsAreStale

-----------------------------------------------------------------------------
(* The page of the administrator.                                           *)


\* What is left to be banned, and the IPs that are done.
Undone(c) == IF c.pc = "fetch" THEN {} ELSE c.left

\* None of the files of these IPs is there, but those that BannedFilesGone excepts.
Cleaned(ips) ==
  \A f \in Of(ips) \cap Stored : f \in spared \cup unmoved \/ IpOf[f] \in freed

StageFits(c) ==
  /\ c.pc = "idle" <=> c.op = "none"
  /\ c.op = "load" => c.pc = "fetch"
  /\ c.op = "delete" => c.pc \in {"delete", "fetch"}
  /\ c.op = "unblock" => c.pc \in {"unblock", "fetch"}
  /\ c.op = "ban" => c.pc \in {"block", "list", "remove", "fetch"}
  /\ c.pc # "fetch" => c.got = {}

BanFits(c) ==
  /\ c.left \subseteq c.asked
  /\ c.pc = "block" => c.ip = NoIp
  /\ c.pc \in {"list", "remove"} => c.del /\ c.ip \in c.left

BanDone(c) ==
  /\ c.asked \ Undone(c) \subseteq blocked \cup freed
  /\ c.del => Cleaned(c.asked \ Undone(c))
  /\ c.pc \in {"list", "remove"} => c.ip \in blocked \cup freed
  /\ c.pc = "remove" => \A f \in Of({c.ip}) \cap Stored :
                          f \in c.listed \cup spared \cup unmoved \/ c.ip \in freed

ComingAreSpared == \A f \in AllFiles : place[f] = "coming" /\ IpOf[f] \in blocked => f \in spared

OneAtATime ==
  ~together => \A h, k \in Handlers : handler[h].pc # "idle" /\ handler[k].pc # "idle" => h = k

\* What a handler has seen, or fetched, is so when nobody else is at work.
SawWell(c) ==
  /\ c.pc = "delete" /\ "delete" \notin others /\ ~outdated => c.saw.files \subseteq Remaining
  /\ c.op = "ban" /\ c.pc # "fetch" /\ "block" \notin others /\ ~outdated =>
       (c.left \ {c.ip}) \cap blocked \subseteq c.saw.ips
  /\ "files" \in c.got /\ "delete" \notin others => c.snap.files \subseteq Remaining
  /\ "ips" \in c.got /\ "unblock" \notin others => c.snap.ips \subseteq blocked
  /\ "ips" \in c.got /\ "block" \notin others => blocked \subseteq c.snap.ips

PageIsFresh ==
  Quiet /\ ~together /\ ~outdated =>
    /\ "delete" \notin others => onPage.files \subseteq Remaining
    /\ "block" \notin others => blocked \subseteq onPage.ips
    /\ "unblock" \notin others => onPage.ips \subseteq blocked

\* Nothing is ticked that is not blocked, until a handler unblocks it.
TicksFit ==
  ~together /\ errors = 0 /\ "unblock" \notin others =>
    /\ \A h \in Handlers : handler[h].pc = "unblock" => handler[h].asked \subseteq blocked
    /\ (\A h \in Handlers : ~(handler[h].op = "unblock" /\ handler[h].pc = "fetch")) =>
         onPage.ips \cup ticked \subseteq blocked

HandlerFits(c) ==
  /\ StageFits(c)
  /\ c.op = "ban" => BanFits(c) /\ BanDone(c)
  /\ ~together => SawWell(c)

HandlersFit == \A h \in Handlers : HandlerFits(handler[h])

ToldIsFresh == outcome = "told" => ~outdated

AdminInv ==
  /\ AdminTypeOK /\ HandlersFit /\ ComingAreSpared /\ OneAtATime
  /\ PageIsFresh /\ TicksFit /\ ToldIsFresh

LEMMA HandlersFitNext ==
  ASSUME handler' \in [Handlers -> HandlerStates],
         \A h \in Handlers, c \in HandlerStates : handler'[h] = c => HandlerFits(c)'
  PROVE  HandlersFit'
<1> SUFFICES ASSUME NEW h \in Handlers
             PROVE  HandlerFits(handler[h])'
  BY DEF HandlersFit
<1>1. PICK c \in HandlerStates : c = handler'[h]
  OBVIOUS
<1>2. HandlerFits(c)'
  BY <1>1
<1> QED
  BY <1>1, <1>2 DEF HandlerFits, StageFits, BanFits, BanDone, SawWell, Undone, Cleaned

LEMMA HandlerFitsNow ==
  ASSUME AdminInv, NEW h \in Handlers
  PROVE  handler[h] \in HandlerStates /\ \A c \in HandlerStates : handler[h] = c => HandlerFits(c)
BY DEF AdminInv, AdminTypeOK, HandlersFit

\* What a step of the server, whoever sets it off, does not take back.
ServerGrows ==
  /\ freed \subseteq freed' /\ blocked \subseteq blocked' \cup freed'
  /\ spared \subseteq spared' /\ unmoved \subseteq unmoved'
  /\ \A f \in Stored' \ Stored : IpOf[f] \in blocked => f \in spared'

LEMMA BanDoneStays ==
  ASSUME AdminTypeOK, ServerGrows, NEW c \in HandlerStates, BanDone(c)
  PROVE  BanDone(c)'
<1> DEFINE done == c.asked \ Undone(c)
<1>1. done \subseteq blocked' \cup freed'
  BY DEF BanDone, ServerGrows
<1>2. ASSUME NEW f \in AllFiles, f \in Stored', IpOf[f] \in blocked \cup freed, f \notin spared', IpOf[f] \notin freed'
      PROVE  f \in Stored
  BY <1>2 DEF ServerGrows
<1>3. Cleaned(done) => Cleaned(done)'
  <2> HIDE DEF done
  <2> SUFFICES ASSUME Cleaned(done), done \subseteq blocked \cup freed,
                      NEW f \in AllFiles, f \in Stored', IpOf[f] \in done,
                      f \notin spared' \cup unmoved', IpOf[f] \notin freed'
               PROVE  FALSE
    BY DEF Cleaned, Of, BanDone, Undone, done
  <2> QED
    BY <1>2 DEF Cleaned, Of, ServerGrows
<1>4. c.pc \in {"list", "remove"} => c.ip \in blocked' \cup freed'
  BY DEF BanDone, ServerGrows
<1>5. ASSUME c.pc = "remove", NEW f \in AllFiles, f \in Stored', IpOf[f] = c.ip
      PROVE  f \in c.listed \cup spared' \cup unmoved' \/ c.ip \in freed'
  BY <1>2, <1>5 DEF BanDone, Of, ServerGrows
<1>6. c.del => Cleaned(done)'
  BY <1>3 DEF BanDone
<1>7. \A f \in (Of({c.ip}) \cap Stored)' : f \in AllFiles /\ f \in Stored' /\ IpOf[f] = c.ip
  BY DEF Of, Stored
<1> QED
  BY <1>1, <1>4, <1>5, <1>6, <1>7 DEF BanDone, Undone

\* Nothing that a handler has seen changes without a name: others, or together with it.
ViewsStay ==
  /\ "delete" \notin others' => Remaining \subseteq Remaining'
  /\ "unblock" \notin others' => blocked \subseteq blocked'
  /\ "block" \notin others' => blocked' \subseteq blocked
  /\ others \subseteq others' /\ (outdated => outdated')

LEMMA SawWellStays ==
  ASSUME ViewsStay, NEW c \in HandlerStates, SawWell(c)
  PROVE  SawWell(c)'
BY DEF ViewsStay, SawWell

LEMMA NoHandlerFits ==
  /\ NoHandler \in HandlerStates
  /\ \A c \in HandlerStates : c.pc = "idle" /\ StageFits(c) => SawWell(c)' /\ (HandlerFits(c))'
BY DEF NoHandler, HandlerStates, Stages, Views, NoView, StageFits, HandlerFits, SawWell

\* A step of no handler.
LEMMA OthersKeepHandlers ==
  ASSUME AdminInv, ServerGrows, ViewsStay, UNCHANGED <<handler, together>>
  PROVE  HandlersFit'
<1> SUFFICES ASSUME NEW h \in Handlers, NEW c \in HandlerStates, handler'[h] = c
             PROVE  HandlerFits(c)'
  BY HandlersFitNext DEF AdminInv, AdminTypeOK
<1>1. HandlerFits(c)
  BY HandlerFitsNow
<1> QED
  BY <1>1, BanDoneStays, SawWellStays DEF HandlerFits, StageFits, BanFits, AdminInv

\* A step of a handler, which makes it another.
LEMMA HandlerMoves ==
  ASSUME AdminInv, ServerGrows, NEW h \in Handlers, NEW c \in HandlerStates,
         handler' = [handler EXCEPT ![h] = c], HandlerFits(c)', OneAtATime', together => together',
         c.pc # "idle" \/ handler[h].pc # "idle"
  PROVE  HandlersFit'
<1> SUFFICES ASSUME NEW k \in Handlers, NEW d \in HandlerStates, handler'[k] = d
             PROVE  HandlerFits(d)'
  BY HandlersFitNext DEF AdminInv, AdminTypeOK
<1>1. CASE k = h
  BY <1>1 DEF AdminInv, AdminTypeOK
<1>2. CASE k # h
  <2>1. handler[k] = d /\ HandlerFits(d)
    BY <1>2, HandlerFitsNow DEF AdminInv, AdminTypeOK
  <2>2. ~together' => d.pc = "idle"
    BY <1>2, <2>1 DEF AdminInv, AdminTypeOK, OneAtATime
  <2>3. StageFits(d) /\ (d.op = "ban" => BanFits(d) /\ BanDone(d)')
    BY <2>1, BanDoneStays DEF HandlerFits, AdminInv
  <2>4. ~together' => SawWell(d)'
    BY <2>2, <2>3, NoHandlerFits
  <2> QED
    BY <2>3, <2>4 DEF HandlerFits, StageFits, BanFits
<1> QED
  BY <1>1, <1>2

ServerTypes ==
  /\ place \in [AllFiles -> {"new", "coming", "stored", "expired", "gone"}] /\ blocked \subseteq IPs
  /\ spared \subseteq AllFiles /\ unmoved \subseteq AllFiles /\ freed \subseteq IPs

ServerFits == ServerTypes' /\ ServerGrows /\ ComingAreSpared'

\* The server rests.
LEMMA ServerRests ==
  ASSUME AdminInv, UNCHANGED <<place, blocked, spared, unmoved, freed>>
  PROVE  ServerFits
BY DEF AdminInv, AdminTypeOK, ServerTypes, ServerFits, ServerGrows, ComingAreSpared, Stored

\* Files are removed, or are not.
LEMMA ServerRemoves ==
  ASSUME AdminInv, NEW S \in SUBSET AllFiles, Removes(S), UNCHANGED <<blocked, spared, freed>>
  PROVE  /\ ServerFits /\ Stored' \subseteq Stored /\ errors' \in 0..MaxErrors
         /\ \A f \in Stored' : f \in S => f \in unmoved'
         /\ errors' = 0 => errors = 0
<1> USE DEF AdminInv, AdminTypeOK
<1>1. Stored' \subseteq Stored /\ place' \in [AllFiles -> {"new", "coming", "stored", "expired", "gone"}]
      /\ \A f \in AllFiles : place'[f] = "coming" => place[f] = "coming"
  BY DEF Removes, Stored, Remaining
<1>2. unmoved \subseteq unmoved' /\ unmoved' \subseteq AllFiles
  BY DEF Removes
<1>3. \A f \in Stored' : f \in S => f \in unmoved'
  BY DEF Removes, Stored, Remaining
<1>4. errors' \in 0..MaxErrors /\ (errors' = 0 => errors = 0)
  <2>1. MaxErrors \in Nat /\ errors \in 0..MaxErrors
    BY AdminAssumption
  <2> QED
    BY <2>1 DEF Removes
<1> QED
  BY <1>1, <1>2, <1>3, <1>4 DEF ServerFits, ServerTypes, ServerGrows, ComingAreSpared

\* An IP is blocked, and what is on its way is written down.
LEMMA ServerBlocks ==
  ASSUME AdminInv, NEW ip \in IPs, blocked' = blocked \cup {ip},
         spared' = spared \cup {f \in Of({ip}) : place[f] = "coming"}, UNCHANGED <<place, unmoved, freed>>
  PROVE  ServerFits /\ Stored' = Stored /\ Remaining' = Remaining
<1> USE DEF AdminInv, AdminTypeOK
<1>1. Stored' = Stored /\ Remaining' = Remaining
  BY DEF Stored, Remaining
<1>2. ComingAreSpared'
  BY DEF ComingAreSpared, Of
<1>3. spared' \subseteq AllFiles
  BY DEF Of
<1> QED
  BY <1>1, <1>2, <1>3 DEF ServerFits, ServerTypes, ServerGrows

LEMMA ServerUnblocks ==
  ASSUME AdminInv, NEW ips \in SUBSET IPs, blocked' = blocked \ ips, freed' = freed \cup ips,
         UNCHANGED <<place, spared, unmoved>>
  PROVE  ServerFits /\ Stored' = Stored /\ Remaining' = Remaining
<1> USE DEF AdminInv, AdminTypeOK
<1>1. Stored' = Stored /\ Remaining' = Remaining
  BY DEF Stored, Remaining
<1> QED
  BY <1>1 DEF ServerFits, ServerTypes, ServerGrows, ComingAreSpared

LEMMA ServerUploads ==
  ASSUME AdminInv, NEW f \in AllFiles, StartUpload(f) \/ EndUpload(f) \/ Expires(f)
  PROVE  ServerFits /\ Remaining \subseteq Remaining'
<1> USE DEF AdminInv, AdminTypeOK
<1>1. CASE StartUpload(f)
  BY <1>1 DEF StartUpload, Stored, Remaining, ServerFits, ServerTypes, ServerGrows, ComingAreSpared, adminHistory
<1>2. CASE EndUpload(f)
  BY <1>2 DEF EndUpload, Stored, Remaining, ServerFits, ServerTypes, ServerGrows, ComingAreSpared, adminHistory
<1>3. CASE Expires(f)
  BY <1>3 DEF Expires, Stored, Remaining, ServerFits, ServerTypes, ServerGrows, ComingAreSpared, adminHistory
<1> QED
  BY <1>1, <1>2, <1>3

\* Somebody who is not at the page.
Outside ==
  \/ \E f \in AllFiles : StartUpload(f) \/ EndUpload(f) \/ Expires(f) \/ OthersDelete(f)
  \/ \E ip \in IPs : OthersBlock(ip) \/ OthersUnblock(ip)

LEMMA OutsideIs ==
  ASSUME AdminInv, Outside
  PROVE  /\ ServerFits /\ ViewsStay /\ others' \subseteq {"delete", "block", "unblock"}
         /\ UNCHANGED <<onPage, seen, ticked, ban, handler, begun, errors, outcome, outdated, together>>
<1> USE DEF AdminInv, AdminTypeOK
<1>1. ASSUME NEW f \in AllFiles, StartUpload(f) \/ EndUpload(f) \/ Expires(f)
      PROVE  UNCHANGED <<onPage, seen, ticked, ban, handler, begun, errors, outcome, outdated, together,
                         others, blocked>>
  BY <1>1 DEF StartUpload, EndUpload, Expires, adminPage, adminBounds, adminHistory
<1>2. CASE \E f \in AllFiles : StartUpload(f) \/ EndUpload(f) \/ Expires(f)
  BY <1>1, <1>2, ServerUploads DEF ViewsStay
<1>3. ASSUME NEW f \in AllFiles, OthersDelete(f)
      PROVE  /\ ServerFits /\ others' = others \cup {"delete"} /\ blocked' = blocked
             /\ UNCHANGED <<onPage, seen, ticked, ban, handler, begun, errors, outcome, outdated, together>>
  BY <1>3 DEF OthersDelete, Other, adminPage, Stored, Remaining, ServerFits, ServerTypes, ServerGrows, ComingAreSpared
<1>4. ASSUME NEW ip \in IPs, OthersBlock(ip)
      PROVE  /\ ServerFits /\ Remaining' = Remaining /\ others' = others \cup {"block"} /\ blocked \subseteq blocked'
             /\ UNCHANGED <<onPage, seen, ticked, ban, handler, begun, errors, outcome, outdated, together>>
  BY <1>4, ServerBlocks DEF OthersBlock, Other, adminPage
<1>5. ASSUME NEW ip \in IPs, OthersUnblock(ip)
      PROVE  /\ ServerFits /\ Remaining' = Remaining /\ others' = others \cup {"unblock"} /\ blocked' \subseteq blocked
             /\ UNCHANGED <<onPage, seen, ticked, ban, handler, begun, errors, outcome, outdated, together>>
  <2>1. {ip} \in SUBSET IPs /\ blocked' = blocked \ {ip} /\ freed' = freed \cup {ip}
        /\ UNCHANGED <<place, spared, unmoved>>
    BY <1>5 DEF OthersUnblock, Other
  <2>2. ServerFits /\ Remaining' = Remaining
    BY <2>1, ServerUnblocks
  <2> QED
    BY <1>5, <2>1, <2>2 DEF OthersUnblock, Other, adminPage
<1> QED
  BY <1>2, <1>3, <1>4, <1>5 DEF Outside, ViewsStay

LEMMA OutsideKeeps ==
  ASSUME AdminInv, Outside
  PROVE  AdminInv'
<1> USE DEF AdminInv
<1>1. /\ ServerFits /\ ViewsStay /\ others' \subseteq {"delete", "block", "unblock"}
      /\ UNCHANGED <<onPage, seen, ticked, ban, handler, begun, errors, outcome, outdated, together>>
  BY OutsideIs
<1>2. AdminTypeOK'
  BY <1>1 DEF AdminTypeOK, ServerFits, ServerTypes
<1>3. HandlersFit'
  BY <1>1, OthersKeepHandlers DEF ServerFits
<1>4. PageIsFresh'
  BY <1>1 DEF PageIsFresh, Quiet, ViewsStay
<1>5. TicksFit'
  BY <1>1 DEF TicksFit, ViewsStay
<1>6. OneAtATime' /\ ToldIsFresh'
  BY <1>1 DEF OneAtATime, ToldIsFresh
<1> QED
  BY <1>1, <1>2, <1>3, <1>4, <1>5, <1>6 DEF ServerFits

\* The boxes of the table, and the dialog.
LEMMA ClicksKeep ==
  ASSUME AdminInv, Tick \/ AskBan \/ CheckDelete \/ CancelBan
  PROVE  AdminInv'
<1> USE DEF AdminInv
<1>1. UNCHANGED <<place, blocked, spared, unmoved, freed, onPage, seen, handler, begun, others, errors,
                  outcome, outdated, together>>
  BY DEF Tick, AskBan, CheckDelete, CancelBan, adminServer, adminBounds, adminHistory
<1>2. ServerFits /\ ViewsStay
  BY <1>1, ServerRests DEF ViewsStay, Remaining
<1>3. onPage \in Views /\ onPage.files \subseteq AllFiles /\ onPage.ips \subseteq IPs
  BY DEF AdminTypeOK, Views
<1>4. ban' \in Bans /\ (IF ban'.open THEN ban'.ips # {} ELSE ban' = NoBan)
  <2>1. CASE Tick
    BY <2>1 DEF Tick, AdminTypeOK
  <2>2. CASE AskBan
    <3>1. PICK ips : /\ ban' = [open |-> TRUE, ips |-> ips, del |-> FALSE]
                     /\ ips \in {{IpOf[f] : f \in S} : S \in (SUBSET onPage.files) \ {{}}}
                                \cup {{IpOf[f]} : f \in seen}
      BY <2>2 DEF AskBan
    <3>2. ips \subseteq IPs /\ ips # {}
      BY <1>3, <3>1, AdminAssumption DEF AdminTypeOK
    <3> QED
      BY <3>1, <3>2 DEF Bans
  <2>3. CASE CheckDelete
    BY <2>3 DEF CheckDelete, AdminTypeOK, Bans
  <2>4. CASE CancelBan
    BY <2>4 DEF CancelBan, CloseBan, NoBan, Bans
  <2> QED
    BY <2>1, <2>2, <2>3, <2>4
<1>5. ticked' \subseteq ticked \cup onPage.ips
  BY DEF Tick, AskBan, CheckDelete, CancelBan
<1>6. AdminTypeOK'
  BY <1>1, <1>3, <1>4, <1>5 DEF AdminTypeOK
<1>7. HandlersFit'
  BY <1>1, <1>2, OthersKeepHandlers DEF ServerFits
<1>8. PageIsFresh' /\ OneAtATime' /\ ToldIsFresh'
  BY <1>1 DEF PageIsFresh, Quiet, Remaining, OneAtATime, ToldIsFresh
<1>9. TicksFit'
  BY <1>1, <1>5 DEF TicksFit
<1> QED
  BY <1>2, <1>6, <1>7, <1>8, <1>9 DEF ServerFits

\* A handler begins, with what is on the page.
LEMMA BeginKeeps ==
  ASSUME AdminInv, NEW h \in Handlers, NEW b \in HandlerStates, BeginHandler(h, b),
         StageFits(b), b.pc \in {"fetch", "delete", "unblock", "block"}, b.got = {},
         b.op = "ban" => b.pc = "block" /\ b.left = b.asked /\ b.ip = NoIp,
         b.op = "unblock" => b.pc = "unblock" /\ b.asked = ticked
  PROVE  AdminInv'
<1> USE DEF AdminInv
<1>0. PICK c \in HandlerStates : c = [b EXCEPT !.saw = onPage]
  BY DEF HandlerStates, AdminTypeOK
<1>1. /\ c.pc = b.pc /\ c.op = b.op /\ c.got = {} /\ c.left = b.left
      /\ c.asked = b.asked /\ c.ip = b.ip /\ c.saw = onPage /\ c.del = b.del
  BY <1>0 DEF HandlerStates
<1>2. handler' = [handler EXCEPT ![h] = c] /\ handler[h].pc = "idle"
  BY <1>0 DEF BeginHandler
<1>3. /\ UNCHANGED <<place, blocked, spared, unmoved, freed, onPage, seen, ticked, ban, others, errors,
                      outcome, outdated>>
      /\ begun' \in 0..MaxBegun /\ together' = (together \/ ~Quiet)
  BY AdminAssumption DEF BeginHandler, adminServer, adminPage, AdminTypeOK
<1>4. ServerFits
  BY <1>3, ServerRests
<1>5. handler' \in [Handlers -> HandlerStates] /\ handler'[h] = c
      /\ \A k \in Handlers : k # h => handler'[k] = handler[k]
  BY <1>1, <1>2 DEF AdminTypeOK
<1>6. OneAtATime'
  <2> SUFFICES ASSUME Quiet, NEW k \in Handlers, NEW g \in Handlers, handler'[k].pc # "idle", handler'[g].pc # "idle"
               PROVE  k = g
    BY <1>3 DEF OneAtATime
  <2> QED
    BY <1>5 DEF Quiet
<1>7. HandlerFits(c)'
  <2>1. StageFits(c)
    BY <1>1 DEF StageFits
  <2>2. c.op = "ban" => BanFits(c) /\ BanDone(c)'
    BY <1>1 DEF BanFits, BanDone, Undone, Cleaned, Of
  <2>3. ~together' => SawWell(c)'
    <3> SUFFICES ASSUME ~together, Quiet PROVE SawWell(c)'
      BY <1>3
    <3>1. Remaining' = Remaining
      BY <1>3 DEF Remaining
    <3> QED
      BY <1>1, <1>3, <3>1 DEF SawWell, PageIsFresh
  <2> QED
    BY <2>1, <2>2, <2>3 DEF HandlerFits, StageFits, BanFits
<1>8. HandlersFit'
  BY <1>1, <1>2, <1>3, <1>4, <1>6, <1>7, HandlerMoves DEF ServerFits, AdminTypeOK
<1>9. AdminTypeOK'
  BY <1>3, <1>5 DEF AdminTypeOK
<1>10. PageIsFresh'
  BY <1>1, <1>5 DEF PageIsFresh, Quiet
<1>11. TicksFit'
  <2> SUFFICES ASSUME ~together, Quiet, errors = 0, "unblock" \notin others
               PROVE  /\ \A k \in Handlers : handler'[k].pc = "unblock" => handler'[k].asked \subseteq blocked
                      /\ onPage.ips \cup ticked \subseteq blocked
    BY <1>3 DEF TicksFit
  <2>1. onPage.ips \cup ticked \subseteq blocked
    BY DEF TicksFit, Quiet
  <2>2. \A k \in Handlers : handler'[k].pc = "unblock" => handler'[k].asked \subseteq blocked
    <3>1. c.pc = "unblock" => c.asked = ticked
      BY <1>1 DEF StageFits, HandlerStates
    <3> QED
      BY <1>5, <2>1, <3>1 DEF Quiet
  <2> QED
    BY <2>1, <2>2
<1> QED
  BY <1>3, <1>4, <1>6, <1>8, <1>9, <1>10, <1>11 DEF ServerFits, ToldIsFresh

LEMMA BeginsOfAdminKeep ==
  ASSUME AdminInv, NEW h \in Handlers, LoadPage(h) \/ DeleteFiles(h) \/ Unblock(h) \/ ConfirmBan(h)
  PROVE  AdminInv'
<1> USE DEF AdminInv
<1>1. CASE LoadPage(h)
  <2> DEFINE b == [NoHandler EXCEPT !.op = "load", !.pc = "fetch"]
  <2>1. b \in HandlerStates /\ b.pc = "fetch" /\ b.op = "load" /\ b.got = {}
    BY NoHandlerFits DEF NoHandler, HandlerStates, Stages
  <2>2. BeginHandler(h, b)
    BY <1>1 DEF LoadPage
  <2> HIDE DEF b
  <2> QED
    BY <2>1, <2>2, BeginKeeps DEF StageFits
<1>2. CASE DeleteFiles(h)
  <2>1. PICK S \in SUBSET seen : BeginHandler(h, [NoHandler EXCEPT !.op = "delete", !.pc = "delete", !.files = S])
    BY <1>2 DEF DeleteFiles
  <2> DEFINE b == [NoHandler EXCEPT !.op = "delete", !.pc = "delete", !.files = S]
  <2>2. b \in HandlerStates /\ b.pc = "delete" /\ b.op = "delete" /\ b.got = {}
    BY NoHandlerFits DEF NoHandler, HandlerStates, Stages, AdminTypeOK
  <2>3. BeginHandler(h, b)
    BY <2>1
  <2> HIDE DEF b
  <2> QED
    BY <2>2, <2>3, BeginKeeps DEF StageFits
<1>3. CASE Unblock(h)
  <2> DEFINE b == [NoHandler EXCEPT !.op = "unblock", !.pc = "unblock", !.asked = ticked]
  <2>1. b \in HandlerStates /\ b.pc = "unblock" /\ b.op = "unblock" /\ b.got = {} /\ b.asked = ticked
    BY NoHandlerFits DEF NoHandler, HandlerStates, Stages, AdminTypeOK
  <2>2. BeginHandler(h, b)
    BY <1>3 DEF Unblock
  <2> HIDE DEF b
  <2> QED
    BY <2>1, <2>2, BeginKeeps DEF StageFits
<1>4. CASE ConfirmBan(h)
  <2> DEFINE b == [NoHandler EXCEPT !.op = "ban", !.pc = StepsOf(ban.del)[1], !.asked = ban.ips,
                                    !.left = ban.ips, !.del = ban.del]
  <2>1. StepsOf(ban.del)[1] = "block"
    BY DEF StepsOf
  <2>2. ban.ips \subseteq IPs /\ ban.del \in BOOLEAN
    BY DEF AdminTypeOK, Bans
  <2>3. /\ b \in HandlerStates /\ b.pc = "block" /\ b.op = "ban" /\ b.got = {} /\ b.left = b.asked
        /\ b.ip = NoIp
    BY <2>1, <2>2, NoHandlerFits DEF NoHandler, HandlerStates, Stages
  <2>4. BeginHandler(h, b)
    BY <1>4 DEF ConfirmBan
  <2> HIDE DEF b
  <2> QED
    BY <2>3, <2>4, BeginKeeps DEF StageFits
<1> QED
  BY <1>1, <1>2, <1>3, <1>4

\* The handlers after a step of one of them.
LEMMA HandlersAfter ==
  ASSUME AdminInv, NEW h \in Handlers, NEW c \in HandlerStates, handler[h].pc # "idle",
         handler' = [handler EXCEPT ![h] = c], UNCHANGED together
  PROVE  /\ handler' \in [Handlers -> HandlerStates] /\ handler'[h] = c /\ OneAtATime'
         /\ \A k \in Handlers : k # h => handler'[k] = handler[k]
         /\ ~together => \A k \in Handlers : k # h => handler[k].pc = "idle"
BY DEF AdminInv, AdminTypeOK, OneAtATime

LEMMA TicksStay ==
  ASSUME AdminInv, NEW h \in Handlers, NEW c \in HandlerStates, handler[h].pc # "idle",
         handler' = [handler EXCEPT ![h] = c], UNCHANGED <<onPage, others, together>>,
         errors' = 0 => errors = 0, ticked' \subseteq ticked, c.pc # "unblock",
         \/ c.op = "unblock" /\ c.pc = "fetch"
         \/ blocked \subseteq blocked' /\ ~(handler[h].op = "unblock" /\ handler[h].pc = "fetch")
  PROVE  TicksFit'
<1> SUFFICES ASSUME ~together, errors = 0, "unblock" \notin others
             PROVE  /\ \A k \in Handlers : handler'[k].pc = "unblock" => handler'[k].asked \subseteq blocked'
                    /\ (\A k \in Handlers : ~(handler'[k].op = "unblock" /\ handler'[k].pc = "fetch")) =>
                         onPage.ips \cup ticked' \subseteq blocked'
  BY DEF TicksFit
<1>1. handler'[h] = c /\ \A k \in Handlers : k # h => handler'[k] = handler[k] /\ handler[k].pc = "idle"
  BY HandlersAfter
<1>2. CASE c.op = "unblock" /\ c.pc = "fetch"
  BY <1>1, <1>2
<1>3. CASE blocked \subseteq blocked' /\ ~(handler[h].op = "unblock" /\ handler[h].pc = "fetch")
  <2>1. onPage.ips \cup ticked \subseteq blocked
    BY <1>1, <1>3 DEF AdminInv, TicksFit
  <2> QED
    BY <1>1, <1>3, <2>1
<1> QED
  BY <1>2, <1>3

\* A handler that goes on.
LEMMA GoesKeeps ==
  ASSUME AdminInv, NEW h \in Handlers, NEW c \in HandlerStates, handler[h].pc # "idle",
         HandlerGoes(h, c), c.pc # "idle", c.pc # "unblock", ServerFits, UNCHANGED <<others, begun, together>>,
         errors' \in 0..MaxErrors, errors' = 0 => errors = 0, HandlerFits(c)',
         \/ c.op = "unblock" /\ c.pc = "fetch"
         \/ blocked \subseteq blocked' /\ ~(handler[h].op = "unblock" /\ handler[h].pc = "fetch")
  PROVE  AdminInv'
<1>1. handler' = [handler EXCEPT ![h] = c] /\ UNCHANGED <<onPage, seen, ticked, ban, outcome, outdated>>
  BY DEF HandlerGoes, adminPage
<1>2. handler' \in [Handlers -> HandlerStates] /\ handler'[h] = c /\ OneAtATime'
  BY <1>1, HandlersAfter
<1>3. HandlersFit'
  BY <1>1, <1>2, HandlerMoves DEF ServerFits
<1>4. AdminTypeOK'
  BY <1>1, <1>2 DEF ServerFits, ServerTypes, AdminInv, AdminTypeOK
<1>5. TicksFit'
  BY <1>1, TicksStay
<1>6. PageIsFresh' /\ ToldIsFresh'
  BY <1>1, <1>2 DEF PageIsFresh, Quiet, AdminInv, ToldIsFresh
<1> QED
  BY <1>2, <1>3, <1>4, <1>5, <1>6 DEF AdminInv, ServerFits

\* A handler that ends.
LEMMA EndLeaves ==
  ASSUME AdminInv, NEW h \in Handlers, handler[h].pc # "idle", handler' = [handler EXCEPT ![h] = NoHandler],
         ServerFits, UNCHANGED <<others, begun, together>>, errors' \in 0..MaxErrors,
         onPage' \in Views, seen' \subseteq AllFiles, onPage'.files \subseteq seen', ticked' \subseteq IPs,
         ban' \in {ban, NoBan}, outcome' \in {"told", "error"}, outdated' = (outcome' = "error"),
         PageIsFresh', TicksFit'
  PROVE  AdminInv'
<1>0. NoHandler.pc = "idle" /\ NoHandler.op = "none" /\ NoHandler.got = {} /\ NoHandler \in HandlerStates
  BY NoHandlerFits DEF NoHandler
<1>1. handler' \in [Handlers -> HandlerStates] /\ OneAtATime'
  BY <1>0, HandlersAfter
<1>2. HandlerFits(NoHandler)'
  <2>1. StageFits(NoHandler)
    BY <1>0 DEF StageFits
  <2>2. PICK c \in HandlerStates : c = NoHandler
    BY <1>0
  <2> QED
    BY <1>0, <2>1, NoHandlerFits
<1>3. HandlersFit'
  BY <1>0, <1>1, <1>2, HandlerMoves DEF ServerFits
<1>4. AdminTypeOK'
  <2>1. ban' \in Bans /\ (IF ban'.open THEN ban'.ips # {} ELSE ban' = NoBan)
    <3>1. NoBan \in Bans /\ ~NoBan.open
      BY DEF NoBan, Bans
    <3>2. ban \in Bans /\ (IF ban.open THEN ban.ips # {} ELSE ban = NoBan)
      BY DEF AdminInv, AdminTypeOK
    <3> QED
      BY <3>1, <3>2
  <2> QED
    BY <1>1, <2>1 DEF ServerFits, ServerTypes, AdminInv, AdminTypeOK
<1> QED
  BY <1>1, <1>3, <1>4 DEF AdminInv, ServerFits, ToldIsFresh

\* A handler that fails.
LEMMA FailKeeps ==
  ASSUME AdminInv, NEW h \in Handlers, handler[h].pc \notin {"idle", "fetch"}, Fail(h), ServerFits,
         UNCHANGED <<others, begun, together>>, errors' \in 0..MaxErrors, errors' = 0 => errors = 0,
         errors' > 0 \/ blocked \subseteq blocked'
  PROVE  AdminInv'
<1> USE DEF AdminInv
<1>0. NoHandler.pc = "idle" /\ NoHandler.op = "none" /\ NoHandler \in HandlerStates
  BY NoHandlerFits DEF NoHandler
<1>1. /\ handler' = [handler EXCEPT ![h] = NoHandler] /\ UNCHANGED <<onPage, seen, ban>>
      /\ outcome' = "error" /\ outdated' = TRUE /\ ticked' \subseteq ticked
  BY DEF Fail, AfterUnblock
<1>2. TicksFit'
  <2>1. CASE errors' > 0
    BY <2>1, AdminAssumption DEF TicksFit
  <2>2. CASE blocked \subseteq blocked'
    BY <1>0, <1>1, <2>2, TicksStay
  <2> QED
    BY <2>1, <2>2
<1>3. PageIsFresh'
  BY <1>1 DEF PageIsFresh
<1>4. onPage \in Views /\ seen \subseteq AllFiles /\ onPage.files \subseteq seen /\ ticked \subseteq IPs
  BY DEF AdminTypeOK
<1> QED
  BY <1>1, <1>2, <1>3, <1>4, EndLeaves

\* Everything is fetched, or is not.
LEMMA FetchEndsKeep ==
  ASSUME AdminInv, NEW h \in Handlers, Deliver(h) \/ FailFetch(h)
  PROVE  AdminInv'
<1> USE DEF AdminInv
<1>0. NoHandler.pc = "idle" /\ NoHandler.op = "none" /\ NoHandler \in HandlerStates
  BY NoHandlerFits DEF NoHandler
<1>1. /\ handler[h].pc = "fetch" /\ handler' = [handler EXCEPT ![h] = NoHandler] /\ ban' \in {ban, NoBan}
      /\ ticked' = IF handler[h].op = "unblock" THEN {} ELSE ticked
      /\ UNCHANGED <<place, blocked, spared, unmoved, freed, begun, others, together>>
  BY DEF Deliver, FailFetch, Closes, AfterUnblock, CloseBan, adminServer, adminBounds
<1>2. ServerFits /\ ticked' \subseteq IPs
  BY <1>1, ServerRests DEF AdminTypeOK
<1>3. \A c \in HandlerStates : handler[h] = c => HandlerFits(c)
  BY HandlerFitsNow
<1>4. PICK c \in HandlerStates : c = handler[h]
  BY DEF AdminTypeOK
<1>5. /\ handler' \in [Handlers -> HandlerStates] /\ handler'[h] = NoHandler
      /\ ~together => \A k \in Handlers : k # h => handler'[k] = handler[k] /\ handler[k].pc = "idle"
  BY <1>0, <1>1, HandlersAfter
<1>6. CASE FailFetch(h)
  <2>1. /\ errors' = errors + 1 /\ errors < MaxErrors /\ outcome' = "error" /\ outdated' = TRUE
        /\ UNCHANGED <<onPage, seen>>
    BY <1>6 DEF FailFetch
  <2>2. errors' \in 0..MaxErrors /\ errors' # 0
    BY <2>1, AdminAssumption DEF AdminTypeOK
  <2>3. PageIsFresh' /\ TicksFit'
    BY <2>1, <2>2 DEF PageIsFresh, TicksFit
  <2>4. onPage \in Views /\ seen \subseteq AllFiles /\ onPage.files \subseteq seen
    BY DEF AdminTypeOK
  <2> QED
    BY <1>1, <1>2, <2>1, <2>2, <2>3, <2>4, EndLeaves
<1>7. CASE Deliver(h)
  <2>1. /\ onPage' = c.snap /\ seen' = seen \cup c.snap.files /\ outcome' = "told" /\ outdated' = FALSE
        /\ UNCHANGED errors /\ c.got = {"files", "ips"} /\ c.pc = "fetch"
    BY <1>4, <1>7 DEF Deliver, adminBounds
  <2>2. c.snap \in Views /\ c.snap.files \subseteq AllFiles
    BY DEF HandlerStates, Views
  <2>3. ~together => SawWell(c)
    BY <1>3, <1>4 DEF HandlerFits
  <2>4. Remaining' = Remaining
    BY <1>1 DEF Remaining
  <2>5. PageIsFresh'
    BY <1>1, <2>1, <2>3, <2>4 DEF PageIsFresh, SawWell
  <2>6. TicksFit'
    <3> SUFFICES ASSUME ~together, errors = 0, "unblock" \notin others
                 PROVE  /\ \A k \in Handlers : handler'[k].pc = "unblock" => handler'[k].asked \subseteq blocked
                        /\ onPage'.ips \cup ticked' \subseteq blocked
      BY <1>1, <2>1 DEF TicksFit
    <3>1. \A k \in Handlers : handler'[k].pc = "idle"
      BY <1>0, <1>5
    <3>2. onPage'.ips \subseteq blocked
      BY <2>1, <2>3 DEF SawWell
    <3>3. CASE handler[h].op = "unblock"
      BY <1>1, <3>1, <3>2, <3>3
    <3>4. CASE handler[h].op # "unblock"
      <4>1. \A k \in Handlers : ~(handler[k].op = "unblock" /\ handler[k].pc = "fetch")
        BY <1>5, <3>4
      <4>2. ticked \subseteq blocked
        BY <4>1 DEF TicksFit
      <4> QED
        BY <1>1, <3>1, <3>2, <3>4, <4>2
    <3> QED
      BY <3>3, <3>4
  <2>7. seen' \subseteq AllFiles /\ errors' \in 0..MaxErrors /\ onPage'.files \subseteq seen' /\ onPage' \in Views
    BY <2>1, <2>2 DEF AdminTypeOK
  <2> QED
    BY <1>1, <1>2, <2>1, <2>5, <2>6, <2>7, EndLeaves
<1> QED
  BY <1>6, <1>7

\* Both are asked for at once.
LEMMA FetchesKeep ==
  ASSUME AdminInv, NEW h \in Handlers, ReadFiles(h) \/ ReadIps(h)
  PROVE  AdminInv'
<1> USE DEF AdminInv
<1>1. PICK b \in HandlerStates : b = handler[h]
  BY DEF AdminTypeOK
<1>2. HandlerFits(b) /\ b.pc = "fetch"
  BY <1>1, HandlerFitsNow DEF ReadFiles, ReadIps
<1>3. UNCHANGED <<place, blocked, spared, unmoved, freed, begun, others, errors, together, outdated>>
  BY DEF ReadFiles, ReadIps, HandlerGoes, adminServer, adminBounds
<1>4. ServerFits /\ Remaining' = Remaining /\ Stored \subseteq Remaining
  BY <1>3, ServerRests DEF Stored, Remaining
<1>5. PICK c \in HandlerStates :
        /\ HandlerGoes(h, c)
        /\ c.pc = b.pc /\ c.op = b.op /\ c.asked = b.asked /\ c.left = b.left /\ c.ip = b.ip /\ c.del = b.del
        /\ c.listed = b.listed /\ c.saw = b.saw
        /\ \/ c.got = b.got \cup {"files"} /\ c.snap.files = Stored /\ c.snap.ips = b.snap.ips
           \/ c.got = b.got \cup {"ips"} /\ c.snap.ips = blocked /\ c.snap.files = b.snap.files
  <2>1. b.snap \in Views
    BY DEF HandlerStates
  <2>2. CASE ReadFiles(h)
    <3> DEFINE d == [b EXCEPT !.got = @ \cup {"files"}, !.snap.files = Stored]
    <3>1. /\ d \in HandlerStates
          /\ d.pc = b.pc /\ d.op = b.op /\ d.asked = b.asked /\ d.left = b.left /\ d.ip = b.ip
          /\ d.del = b.del /\ d.listed = b.listed /\ d.saw = b.saw
          /\ d.got = b.got \cup {"files"} /\ d.snap.files = Stored /\ d.snap.ips = b.snap.ips
      BY <2>1 DEF HandlerStates, Views, Stored
    <3>2. HandlerGoes(h, d)
      BY <1>1, <2>2 DEF ReadFiles
    <3> HIDE DEF d
    <3> QED
      BY <3>1, <3>2
  <2>3. CASE ReadIps(h)
    <3> DEFINE d == [b EXCEPT !.got = @ \cup {"ips"}, !.snap.ips = blocked]
    <3>1. /\ d \in HandlerStates
          /\ d.pc = b.pc /\ d.op = b.op /\ d.asked = b.asked /\ d.left = b.left /\ d.ip = b.ip
          /\ d.del = b.del /\ d.listed = b.listed /\ d.saw = b.saw
          /\ d.got = b.got \cup {"ips"} /\ d.snap.ips = blocked /\ d.snap.files = b.snap.files
      BY <2>1 DEF HandlerStates, Views, AdminTypeOK
    <3>2. HandlerGoes(h, d)
      BY <1>1, <2>3 DEF ReadIps
    <3> HIDE DEF d
    <3> QED
      BY <3>1, <3>2
  <2> QED
    BY <2>2, <2>3
<1>6. StageFits(c) /\ (c.op = "ban" => BanFits(c) /\ BanDone(c))
  BY <1>2, <1>5 DEF HandlerFits, StageFits, BanFits, BanDone, Undone
<1>7. ~together => SawWell(c)'
  BY <1>2, <1>3, <1>4, <1>5 DEF HandlerFits, SawWell
<1>8. HandlerFits(c)'
  <2>1. c.op = "ban" => BanDone(c)'
    BY <1>4, <1>6, BanDoneStays DEF ServerFits
  <2> QED
    BY <1>3, <1>6, <1>7, <2>1 DEF HandlerFits, StageFits, BanFits
<1>9. \/ c.op = "unblock" /\ c.pc = "fetch"
      \/ blocked \subseteq blocked' /\ ~(handler[h].op = "unblock" /\ handler[h].pc = "fetch")
  BY <1>1, <1>2, <1>3, <1>5
<1>10. errors' \in 0..MaxErrors /\ (errors' = 0 => errors = 0)
  BY <1>3 DEF AdminTypeOK
<1> QED
  BY <1>1, <1>2, <1>3, <1>4, <1>5, <1>8, <1>9, <1>10, GoesKeeps

\* A handler that has changed something fetches.
LEMMA ChangeIs ==
  ASSUME AdminInv, NEW h \in Handlers, handler[h].pc \notin {"idle", "fetch"}
  PROVE  \E c \in HandlerStates :
           /\ c = [handler[h] EXCEPT !.pc = "fetch"]
           /\ c.pc = "fetch" /\ c.op = handler[h].op /\ c.asked = handler[h].asked
           /\ c.left = handler[h].left /\ c.del = handler[h].del /\ c.got = {}
           /\ c.ip = handler[h].ip
<1>1. handler[h] \in HandlerStates /\ handler[h].got = {}
  BY HandlerFitsNow DEF HandlerFits, StageFits
<1> DEFINE d == [handler[h] EXCEPT !.pc = "fetch"]
<1>2. /\ d \in HandlerStates /\ d.pc = "fetch" /\ d.op = handler[h].op /\ d.asked = handler[h].asked
      /\ d.left = handler[h].left /\ d.del = handler[h].del /\ d.got = {} /\ d.ip = handler[h].ip
  BY <1>1 DEF HandlerStates, Stages
<1> HIDE DEF d
<1>3. d = [handler[h] EXCEPT !.pc = "fetch"]
  BY DEF d
<1> QED
  BY <1>2, <1>3

\* The requests of the page that delete files or unblock IPs.
LEMMA RequestsKeep ==
  ASSUME AdminInv, NEW h \in Handlers, DeleteEntries(h) \/ RemoveBlockedIps(h) \/ AnswerLost(h)
  PROVE  AdminInv'
<1> USE DEF AdminInv
<1>1. PICK b \in HandlerStates : b = handler[h]
  BY DEF AdminTypeOK
<1>2. HandlerFits(b) /\ b.pc \notin {"idle", "fetch"} /\ handler[h].pc \notin {"idle", "fetch"}
  BY <1>1, HandlerFitsNow DEF DeleteEntries, RemoveBlockedIps, AnswerLost
<1>3. UNCHANGED <<begun, others, together>>
  BY DEF DeleteEntries, RemoveBlockedIps, AnswerLost, adminBounds
<1>4. PICK c \in HandlerStates :
        /\ c = [handler[h] EXCEPT !.pc = "fetch"]
        /\ c.pc = "fetch" /\ c.op = b.op /\ c.got = {}
  BY <1>1, <1>2, ChangeIs
<1>5. ASSUME b.op \in {"delete", "unblock"} PROVE HandlerFits(c)'
  BY <1>4, <1>5 DEF HandlerFits, StageFits, SawWell
<1>6. CASE AnswerLost(h)
  <2>1. errors' \in 0..MaxErrors /\ errors' > 0 /\ ServerFits /\ Fail(h)
    <3>1. errors' = errors + 1 /\ errors < MaxErrors /\ UNCHANGED <<place, blocked, spared, unmoved, freed>>
      BY <1>6 DEF AnswerLost, adminServer
    <3> QED
      BY <1>6, <3>1, ServerRests, AdminAssumption DEF AdminTypeOK, AnswerLost
  <2> QED
    BY <1>2, <1>3, <2>1, FailKeeps
<1>7. CASE DeleteEntries(h)
  <2>1. b.op = "delete" /\ b.files \subseteq AllFiles
    BY <1>1, <1>2, <1>7 DEF DeleteEntries, HandlerFits, StageFits, HandlerStates
  <2>2. CASE b.files \cap Remaining = {}
    <3>1. Fail(h) /\ UNCHANGED <<place, blocked, spared, unmoved, freed, errors>>
      BY <1>1, <1>7, <2>2 DEF DeleteEntries
    <3> QED
      BY <1>2, <1>3, <3>1, ServerRests, FailKeeps DEF AdminTypeOK
  <2>3. CASE b.files \cap Remaining # {}
    <3>1. Removes(b.files) /\ HandlerGoes(h, c) /\ UNCHANGED <<blocked, spared, freed>>
      BY <1>1, <1>4, <1>7, <2>3 DEF DeleteEntries, AfterChange
    <3>2. ServerFits /\ errors' \in 0..MaxErrors /\ (errors' = 0 => errors = 0)
      BY <2>1, <3>1, ServerRemoves
    <3>3. blocked \subseteq blocked' /\ handler[h].pc # "idle"
          /\ ~(handler[h].op = "unblock" /\ handler[h].pc = "fetch")
      BY <1>2, <3>1
    <3>4. c.pc # "idle" /\ c.pc # "unblock" /\ HandlerFits(c)'
      BY <1>4, <1>5, <2>1
    <3> QED
      BY <1>3, <3>1, <3>2, <3>3, <3>4, GoesKeeps
  <2> QED
    BY <2>2, <2>3
<1>8. CASE RemoveBlockedIps(h)
  <2>1. b.op = "unblock" /\ b.asked \in SUBSET IPs /\ b.pc = "unblock"
    BY <1>1, <1>2, <1>8 DEF RemoveBlockedIps, HandlerFits, StageFits, HandlerStates
  <2>2. /\ blocked' = blocked \ b.asked /\ freed' = freed \cup b.asked
        /\ UNCHANGED <<place, spared, unmoved, errors>>
    BY <1>1, <1>8 DEF RemoveBlockedIps, adminBounds
  <2>3. ServerFits
    BY <2>1, <2>2, ServerUnblocks
  <2>4. errors' \in 0..MaxErrors /\ (errors' = 0 => errors = 0)
    BY <2>2 DEF AdminTypeOK
  <2>5. CASE b.asked \subseteq blocked
    <3>1. HandlerGoes(h, c)
      BY <1>1, <1>4, <1>8, <2>5 DEF RemoveBlockedIps, AfterChange
    <3>2. c.pc # "idle" /\ c.pc # "unblock" /\ HandlerFits(c)' /\ c.op = "unblock" /\ c.pc = "fetch"
      BY <1>4, <1>5, <2>1
    <3> QED
      BY <1>2, <1>3, <2>3, <2>4, <3>1, <3>2, GoesKeeps
  <2>6. CASE ~(b.asked \subseteq blocked)
    <3>1. /\ handler' = [handler EXCEPT ![h] = NoHandler] /\ UNCHANGED <<onPage, seen, ban>>
          /\ outcome' = "error" /\ outdated' = TRUE /\ ticked' = {}
      BY <1>1, <1>8, <2>1, <2>6 DEF RemoveBlockedIps, Fail, AfterUnblock
    <3>2. ~together /\ errors = 0 => "unblock" \in others
      BY <1>1, <2>1, <2>6 DEF TicksFit
    <3>3. TicksFit' /\ PageIsFresh'
      BY <1>3, <2>2, <3>1, <3>2 DEF TicksFit, PageIsFresh
    <3>4. onPage \in Views /\ seen \subseteq AllFiles /\ onPage.files \subseteq seen
      BY DEF AdminTypeOK
    <3> QED
      BY <1>2, <1>3, <2>3, <2>4, <3>1, <3>3, <3>4, EndLeaves
  <2> QED
    BY <2>5, <2>6
<1> QED
  BY <1>6, <1>7, <1>8

\* A ban has done a step for an IP: the next step, the next IP, or the end.
LEMMA GoOnIs ==
  ASSUME AdminInv, NEW h \in Handlers, NEW ip \in IPs, NEW b \in HandlerStates, GoOn(h, ip, b),
         b.pc \in {"block", "list", "remove"}, b.pc # "block" => b.del
  PROVE  \/ b.pc = "block" /\ b.del /\ HandlerGoes(h, [b EXCEPT !.pc = "list", !.ip = ip])
         \/ b.pc = "list" /\ HandlerGoes(h, [b EXCEPT !.pc = "remove", !.ip = ip])
         \/ /\ (b.pc = "block" /\ ~b.del) \/ b.pc = "remove"
            /\ \/ /\ b.left \ {ip} # {}
                  /\ HandlerGoes(h, [b EXCEPT !.pc = "block", !.ip = NoIp, !.left = b.left \ {ip}])
               \/ b.left \ {ip} = {} /\ AfterChange(h)
<1> DEFINE steps == StepsOf(b.del)
           at == CHOOSE i \in DOMAIN steps : steps[i] = b.pc
<1>1. CASE b.del
  <2>1. steps = <<"block", "list", "remove">> /\ DOMAIN steps = 1..3 /\ Len(steps) = 3
        /\ steps[1] = "block" /\ steps[2] = "list" /\ steps[3] = "remove"
    BY <1>1 DEF StepsOf
  <2>2. at \in 1..3 /\ steps[at] = b.pc
    BY <2>1
  <2>3. at = (IF b.pc = "block" THEN 1 ELSE IF b.pc = "list" THEN 2 ELSE 3)
    BY <2>1, <2>2
  <2> HIDE DEF at, steps
  <2>4. CASE b.pc = "block"
    <3>1. at < Len(steps) /\ steps[at + 1] = "list"
      BY <2>1, <2>3, <2>4
    <3> QED
      BY <1>1, <2>4, <3>1 DEF GoOn, at, steps
  <2>5. CASE b.pc = "list"
    <3>1. at < Len(steps) /\ steps[at + 1] = "remove"
      BY <2>1, <2>3, <2>5
    <3> QED
      BY <1>1, <2>5, <3>1 DEF GoOn, at, steps
  <2>6. CASE b.pc = "remove"
    <3>1. ~(at < Len(steps)) /\ steps[1] = "block"
      BY <2>1, <2>3, <2>6
    <3> QED
      BY <1>1, <2>6, <3>1 DEF GoOn, at, steps
  <2> QED
    BY <2>4, <2>5, <2>6
<1>2. CASE ~b.del
  <2>1. steps = <<"block">> /\ DOMAIN steps = 1..1 /\ Len(steps) = 1 /\ steps[1] = "block" /\ b.pc = "block"
    BY <1>2 DEF StepsOf
  <2>2. at \in 1..1
    BY <2>1
  <2> HIDE DEF at, steps
  <2>3. ~(at < Len(steps))
    BY <2>1, <2>2
  <2> QED
    BY <1>2, <2>1, <2>3 DEF GoOn, at, steps
<1> QED
  BY <1>1, <1>2

\* A ban goes on when its step for an IP is done: what the next stage needs is so.
LEMMA BanGoesOn ==
  ASSUME AdminInv, NEW h \in Handlers, NEW ip \in IPs, NEW b \in HandlerStates, GoOn(h, ip, b),
         b.pc \in {"block", "list", "remove"}, b.pc # "block" => b.del, b.op = "ban", b.got = {},
         handler[h] \in HandlerStates, b.pc = handler[h].pc, b.op = handler[h].op, b.del = handler[h].del,
         b.left = handler[h].left, b.asked = handler[h].asked,
         b.left \subseteq b.asked, ip \in b.left,
         ServerFits, UNCHANGED <<others, begun, together>>,
         errors' \in 0..MaxErrors, errors' = 0 => errors = 0, blocked \subseteq blocked',
         (b.asked \ b.left) \cup {ip} \subseteq blocked' \cup freed',
         b.del => Cleaned(b.asked \ b.left)',
         b.pc = "list" => \A f \in Stored' : IpOf[f] = ip =>
                            f \in b.listed \cup spared' \cup unmoved' \/ ip \in freed',
         b.pc = "remove" => \A f \in Stored' : IpOf[f] = ip =>
                              f \in spared' \cup unmoved' \/ ip \in freed',
         ~together' /\ "block" \notin others' /\ ~outdated' =>
           (b.left \ {ip}) \cap blocked' \subseteq b.saw.ips
  PROVE  AdminInv'
<1> USE DEF AdminInv
<1>1. handler[h].pc \notin {"idle", "fetch"}
  OBVIOUS
<1>2. b.del /\ b.pc = "remove" => Cleaned((b.asked \ b.left) \cup {ip})'
  BY DEF Cleaned, Of, Stored
<1>3. ASSUME NEW c \in HandlerStates, HandlerGoes(h, c), c.op = "ban", c.pc # "idle", c.pc # "unblock",
             HandlerFits(c)'
      PROVE  AdminInv'
  BY <1>1, <1>3, GoesKeeps
<1>4. CASE b.pc = "block" /\ b.del /\ HandlerGoes(h, [b EXCEPT !.pc = "list", !.ip = ip])
  <2>1. PICK c \in HandlerStates : c = [b EXCEPT !.pc = "list", !.ip = ip]
    BY DEF HandlerStates, Stages
  <2>2. /\ c.pc = "list" /\ c.ip = ip /\ c.op = "ban" /\ c.left = b.left /\ c.asked = b.asked /\ c.del
        /\ c.got = {} /\ c.saw = b.saw
    BY <1>4, <2>1 DEF HandlerStates
  <2>3. StageFits(c) /\ BanFits(c) /\ BanDone(c)'
    <3>1. c.asked \ Undone(c) = b.asked \ b.left
      BY <2>2 DEF Undone
    <3>2. Cleaned(b.asked \ b.left)' /\ b.asked \ b.left \subseteq blocked' \cup freed' /\ ip \in blocked' \cup freed'
      BY <1>4
    <3>3. BanDone(c)'
      BY <2>2, <3>1, <3>2 DEF BanDone
    <3> QED
      BY <2>2, <3>3 DEF StageFits, BanFits
  <2>4. ~together' => SawWell(c)'
    BY <2>2 DEF SawWell
  <2>5. HandlerFits(c)'
    BY <2>3, <2>4 DEF HandlerFits, StageFits, BanFits
  <2> QED
    BY <1>3, <1>4, <2>1, <2>2, <2>5
<1>5. CASE b.pc = "list" /\ HandlerGoes(h, [b EXCEPT !.pc = "remove", !.ip = ip])
  <2>1. PICK c \in HandlerStates : c = [b EXCEPT !.pc = "remove", !.ip = ip]
    BY DEF HandlerStates, Stages
  <2>2. /\ c.pc = "remove" /\ c.ip = ip /\ c.op = "ban" /\ c.left = b.left /\ c.asked = b.asked /\ c.del
        /\ c.got = {} /\ c.saw = b.saw /\ c.listed = b.listed
    BY <1>5, <2>1 DEF HandlerStates
  <2>3. StageFits(c) /\ BanFits(c) /\ BanDone(c)'
    BY <1>5, <2>2 DEF StageFits, BanFits, BanDone, Undone, Of
  <2>4. ~together' => SawWell(c)'
    BY <2>2 DEF SawWell
  <2>5. HandlerFits(c)'
    BY <2>3, <2>4 DEF HandlerFits, StageFits, BanFits
  <2> QED
    BY <1>3, <1>5, <2>1, <2>2, <2>5
<1>6. CASE /\ (b.pc = "block" /\ ~b.del) \/ b.pc = "remove"
           /\ b.left \ {ip} # {}
           /\ HandlerGoes(h, [b EXCEPT !.pc = "block", !.ip = NoIp, !.left = b.left \ {ip}])
  <2>1. PICK c \in HandlerStates : c = [b EXCEPT !.pc = "block", !.ip = NoIp, !.left = b.left \ {ip}]
    BY DEF HandlerStates, Stages
  <2>2. /\ c.pc = "block" /\ c.ip = NoIp /\ c.op = "ban" /\ c.left = b.left \ {ip} /\ c.asked = b.asked
        /\ c.del = b.del /\ c.got = {} /\ c.saw = b.saw
    BY <1>6, <2>1 DEF HandlerStates
  <2>3. c.asked \ c.left = (b.asked \ b.left) \cup {ip}
    BY <2>2
  <2>4. StageFits(c) /\ BanFits(c) /\ BanDone(c)'
    BY <1>2, <1>6, <2>2, <2>3 DEF StageFits, BanFits, BanDone, Undone
  <2>5. ~together' => SawWell(c)'
    BY <2>2 DEF SawWell
  <2>6. HandlerFits(c)'
    BY <2>4, <2>5 DEF HandlerFits, StageFits, BanFits
  <2> QED
    BY <1>3, <1>6, <2>1, <2>2, <2>6
<1>7. CASE /\ (b.pc = "block" /\ ~b.del) \/ b.pc = "remove"
           /\ b.left \ {ip} = {} /\ AfterChange(h)
  <2>1. PICK c \in HandlerStates :
          /\ c = [handler[h] EXCEPT !.pc = "fetch"]
          /\ c.pc = "fetch" /\ c.op = b.op /\ c.asked = b.asked /\ c.left = b.left /\ c.del = b.del /\ c.got = {}
    BY <1>1, ChangeIs
  <2>2. c.asked \ Undone(c) = (b.asked \ b.left) \cup {ip}
    BY <1>7, <2>1 DEF Undone
  <2>3. StageFits(c) /\ BanFits(c) /\ BanDone(c)'
    BY <1>2, <1>7, <2>1, <2>2 DEF StageFits, BanFits, BanDone
  <2>4. SawWell(c)'
    BY <2>1 DEF SawWell
  <2>5. HandlerFits(c)'
    BY <2>3, <2>4 DEF HandlerFits, StageFits, BanFits
  <2> QED
    BY <1>3, <1>7, <2>1, <2>5 DEF AfterChange
<1> QED
  BY <1>4, <1>5, <1>6, <1>7, GoOnIs

\* The steps of a ban.
LEMMA BansKeep ==
  ASSUME AdminInv, NEW h \in Handlers, NEW ip \in IPs, Block(h, ip) \/ List(h, ip) \/ RemoveListed(h, ip)
  PROVE  AdminInv'
<1> USE DEF AdminInv
<1>1. PICK b \in HandlerStates : b = handler[h]
  BY DEF AdminTypeOK
<1>2. HandlerFits(b) /\ b.pc \in {"block", "list", "remove"} /\ ip \in b.left /\ b.ip \in {NoIp, ip}
  BY <1>1, HandlerFitsNow DEF Block, List, RemoveListed, BansNow
<1>3. /\ b.op = "ban" /\ b.got = {} /\ b.left \subseteq b.asked /\ b.asked \subseteq IPs /\ b.left \subseteq IPs
      /\ b.pc = "block" => b.ip = NoIp
      /\ b.pc # "block" => b.del /\ b.ip = ip
  <2>1. b.op = "ban" /\ b.got = {} /\ b.asked \subseteq IPs
    BY <1>2 DEF HandlerFits, StageFits, HandlerStates
  <2>2. BanFits(b)
    BY <1>2, <2>1 DEF HandlerFits
  <2>3. NoIp \notin b.left
    BY <2>1, <2>2, AdminAssumption DEF BanFits
  <2> QED
    BY <1>2, <2>1, <2>2, <2>3 DEF BanFits
<1>4. BanDone(b) /\ (~together => SawWell(b))
  BY <1>2, <1>3 DEF HandlerFits
<1>5. /\ b.asked \ b.left \subseteq blocked \cup freed
      /\ b.del => Cleaned(b.asked \ b.left)
      /\ b.pc # "block" => ip \in blocked \cup freed
      /\ b.pc = "remove" => \A f \in Stored : IpOf[f] = ip => f \in b.listed \cup spared \cup unmoved \/ ip \in freed
  BY <1>2, <1>3, <1>4 DEF BanDone, Undone, Of, Stored
<1>6. UNCHANGED <<begun, others, together>>
  BY DEF Block, List, RemoveListed, adminBounds
<1>7. ~together /\ "block" \notin others /\ ~outdated => (b.left \ {ip}) \cap blocked \subseteq b.saw.ips
  <2> SUFFICES ASSUME ~together, "block" \notin others, ~outdated, NEW i \in b.left, i # ip, i \in blocked
               PROVE  i \in b.saw.ips
    BY DEF SawWell
  <2>1. (b.left \ {b.ip}) \cap blocked \subseteq b.saw.ips
    BY <1>2, <1>3, <1>4 DEF SawWell
  <2>2. i # b.ip
    BY <1>2, <1>3, AdminAssumption
  <2> QED
    BY <2>1, <2>2
<1>8. CASE Block(h, ip)
  <2>1. b.pc = "block" /\ UNCHANGED <<place, unmoved, freed, errors>>
    BY <1>1, <1>8 DEF Block, adminBounds
  <2>2. errors' \in 0..MaxErrors /\ (errors' = 0 => errors = 0)
    BY <2>1 DEF AdminTypeOK
  <2>3. CASE ip \in blocked
    <3>1. Fail(h) /\ UNCHANGED <<blocked, spared>>
      BY <1>8, <2>3 DEF Block
    <3>2. handler[h].pc \notin {"idle", "fetch"}
      BY <1>1, <2>1
    <3> QED
      BY <1>6, <2>1, <2>2, <3>1, <3>2, ServerRests, FailKeeps
  <2>4. CASE ip \notin blocked
    <3>1. /\ blocked' = blocked \cup {ip} /\ spared' = spared \cup {f \in Of({ip}) : place[f] = "coming"}
          /\ GoOn(h, ip, b)
      BY <1>1, <1>8, <2>4 DEF Block
    <3>2. ServerFits /\ Stored' = Stored
      BY <2>1, <3>1, ServerBlocks
    <3>3. b.del => Cleaned(b.asked \ b.left)'
      BY <1>5, <2>1, <3>1, <3>2 DEF Cleaned
    <3>4. UNCHANGED outdated \/ outdated'
      BY <3>1, <1>1, <1>2, GoOnIs, <1>3 DEF HandlerGoes, AfterChange
    <3>5. ~together' /\ "block" \notin others' /\ ~outdated' =>
            (b.left \ {ip}) \cap blocked' \subseteq b.saw.ips
      BY <1>6, <1>7, <3>1, <3>4
    <3>6. (b.asked \ b.left) \cup {ip} \subseteq blocked' \cup freed'
      BY <1>5, <2>1, <3>1
    <3> QED
      BY <1>1, <1>2, <1>3, <1>6, <2>1, <2>2, <3>1, <3>2, <3>3, <3>5, <3>6, BanGoesOn
  <2> QED
    BY <2>3, <2>4
<1>9. CASE List(h, ip)
  <2>1. PICK d \in HandlerStates : d = [b EXCEPT !.listed = Of({ip}) \cap Stored]
    BY DEF HandlerStates, Of, Stored
  <2>2. /\ d.pc = "list" /\ d.op = b.op /\ d.del = b.del /\ d.left = b.left /\ d.asked = b.asked
        /\ d.got = b.got /\ d.saw = b.saw /\ d.listed = Of({ip}) \cap Stored /\ b.pc = "list"
    BY <1>1, <1>9, <2>1 DEF List, HandlerStates
  <2>3. GoOn(h, ip, d) /\ UNCHANGED <<place, blocked, spared, unmoved, freed, errors>>
    BY <1>1, <1>9, <2>1 DEF List, adminServer, adminBounds
  <2>4. ServerFits /\ Stored' = Stored
    BY <2>3, ServerRests DEF Stored
  <2>5. errors' \in 0..MaxErrors /\ (errors' = 0 => errors = 0)
    BY <2>3 DEF AdminTypeOK
  <2>6. \A f \in Stored' : IpOf[f] = ip => f \in d.listed
    BY <2>2, <2>4 DEF Of, Stored
  <2>7. Cleaned(b.asked \ b.left)'
    BY <1>3, <1>5, <2>2, <2>3, <2>4 DEF Cleaned
  <2>8. UNCHANGED outdated
    BY <1>3, <2>2, <2>3, GoOnIs DEF HandlerGoes
  <2>9. (d.asked \ d.left) \cup {ip} \subseteq blocked' \cup freed' /\ blocked \subseteq blocked'
    BY <1>5, <2>2, <2>3
  <2>10. ~together' /\ "block" \notin others' /\ ~outdated' =>
           (d.left \ {ip}) \cap blocked' \subseteq d.saw.ips
    BY <1>6, <1>7, <2>2, <2>3, <2>8
  <2> QED
    BY <1>1, <1>2, <1>3, <1>6, <2>2, <2>3, <2>4, <2>5, <2>6, <2>7, <2>9, <2>10, BanGoesOn
<1>10. CASE RemoveListed(h, ip)
  <2>1. PICK d \in HandlerStates : d = [b EXCEPT !.listed = {}]
    BY DEF HandlerStates
  <2>2. /\ d.pc = "remove" /\ d.op = b.op /\ d.del = b.del /\ d.left = b.left /\ d.asked = b.asked
        /\ d.got = b.got /\ d.saw = b.saw /\ b.pc = "remove" /\ b.listed \in SUBSET AllFiles
    BY <1>1, <1>10, <2>1 DEF RemoveListed, HandlerStates
  <2>3. GoOn(h, ip, d) /\ Removes(b.listed) /\ UNCHANGED <<blocked, spared, freed>>
    BY <1>1, <1>10, <2>1 DEF RemoveListed
  <2>4. /\ ServerFits /\ Stored' \subseteq Stored /\ errors' \in 0..MaxErrors /\ (errors' = 0 => errors = 0)
        /\ \A f \in Stored' : f \in b.listed => f \in unmoved'
    BY <2>2, <2>3, ServerRemoves
  <2>5. unmoved \subseteq unmoved'
    BY <2>4 DEF ServerFits, ServerGrows
  <2>6. \A f \in Stored' : IpOf[f] = ip => f \in spared' \cup unmoved' \/ ip \in freed'
    BY <1>5, <2>2, <2>3, <2>4, <2>5
  <2>7. Cleaned(b.asked \ b.left)'
    BY <1>3, <1>5, <2>2, <2>3, <2>4, <2>5 DEF Cleaned
  <2>8. UNCHANGED outdated
    BY <1>3, <2>2, <2>3, GoOnIs DEF HandlerGoes, AfterChange
  <2>9. (d.asked \ d.left) \cup {ip} \subseteq blocked' \cup freed' /\ blocked \subseteq blocked'
    BY <1>5, <2>2, <2>3
  <2>10. ~together' /\ "block" \notin others' /\ ~outdated' =>
           (d.left \ {ip}) \cap blocked' \subseteq d.saw.ips
    BY <1>6, <1>7, <2>2, <2>3, <2>8
  <2> QED
    BY <1>1, <1>2, <1>3, <1>6, <2>2, <2>3, <2>4, <2>6, <2>7, <2>9, <2>10, BanGoesOn
<1> QED
  BY <1>8, <1>9, <1>10

\* The types, what each handler of the administrator's page has done of its request, and what
\* it has seen and fetched of the tables (handleBanIpConfirm, handleDeleteFiles,
\* handleUnblockIps, fetchAdminData).
THEOREM AdminInvariant == AdminSpec => []AdminInv
<1> USE DEF AdminInv
<1>1. AdminInit => AdminInv
  <2> SUFFICES ASSUME AdminInit PROVE AdminInv
    OBVIOUS
  <2>1. AdminTypeOK
    <3>1. Stored \subseteq AllFiles /\ blocked \in SUBSET IPs
      BY DEF AdminInit, Stored
    <3>2. onPage \in Views /\ onPage.files \subseteq seen /\ seen \subseteq AllFiles
      BY <3>1 DEF AdminInit, Views
    <3>3. handler \in [Handlers -> HandlerStates]
      BY NoHandlerFits DEF AdminInit
    <3>4. ban \in Bans /\ ~ban.open /\ ban = NoBan
      BY DEF AdminInit, NoBan, Bans
    <3>5. begun \in 0..MaxBegun /\ errors \in 0..MaxErrors
      BY AdminAssumption DEF AdminInit
    <3> QED
      BY <3>1, <3>2, <3>3, <3>4, <3>5 DEF AdminInit, AdminTypeOK
  <2>2. \A h \in Handlers : handler[h] = NoHandler
    BY DEF AdminInit
  <2>3. NoHandler.pc = "idle" /\ NoHandler.op = "none" /\ NoHandler.got = {}
    BY DEF NoHandler
  <2>4. HandlersFit
    <3> SUFFICES ASSUME NEW h \in Handlers PROVE HandlerFits(handler[h])
      BY DEF HandlersFit
    <3> QED
      BY <2>2, <2>3 DEF HandlerFits, StageFits, SawWell
  <2>5. ComingAreSpared /\ OneAtATime
    BY <2>2, <2>3 DEF AdminInit, ComingAreSpared, OneAtATime
  <2>6. PageIsFresh /\ ToldIsFresh
    BY DEF AdminInit, PageIsFresh, ToldIsFresh, Stored, Remaining
  <2>7. TicksFit
    BY <2>2, <2>3 DEF AdminInit, TicksFit
  <2> QED
    BY <2>1, <2>4, <2>5, <2>6, <2>7
<1>2. AdminInv /\ [AdminNext]_adminVars => AdminInv'
  <2> SUFFICES ASSUME AdminInv, [AdminNext]_adminVars PROVE AdminInv'
    OBVIOUS
  <2>1. CASE Tick \/ AskBan \/ CheckDelete \/ CancelBan
    BY <2>1, ClicksKeep
  <2>2. CASE Outside
    BY <2>2, OutsideKeeps
  <2>3. ASSUME NEW h \in Handlers, LoadPage(h) \/ DeleteFiles(h) \/ Unblock(h) \/ ConfirmBan(h)
        PROVE  AdminInv'
    BY <2>3, BeginsOfAdminKeep
  <2>4. ASSUME NEW h \in Handlers, DeleteEntries(h) \/ RemoveBlockedIps(h) \/ AnswerLost(h)
        PROVE  AdminInv'
    BY <2>4, RequestsKeep
  <2>5. ASSUME NEW h \in Handlers, NEW ip \in IPs, Block(h, ip) \/ List(h, ip) \/ RemoveListed(h, ip)
        PROVE  AdminInv'
    BY <2>5, BansKeep
  <2>6. ASSUME NEW h \in Handlers, ReadFiles(h) \/ ReadIps(h) PROVE AdminInv'
    BY <2>6, FetchesKeep
  <2>7. ASSUME NEW h \in Handlers, Deliver(h) \/ FailFetch(h) PROVE AdminInv'
    BY <2>7, FetchEndsKeep
  <2>8. CASE UNCHANGED adminVars
    <3>1. UNCHANGED <<place, blocked, onPage, seen, ticked, ban, handler, begun, others, errors, outcome,
                      outdated, together, spared, unmoved, freed>>
      BY <2>8 DEF adminVars, adminServer, adminPage, adminBounds, adminHistory
    <3>2. ServerFits /\ HandlersFit'
      BY <3>1, ServerRests, OthersKeepHandlers DEF ServerFits, ViewsStay, Remaining
    <3>3. AdminTypeOK'
      BY <3>1 DEF AdminTypeOK
    <3>4. PageIsFresh'
      BY <3>1 DEF PageIsFresh, Quiet, Remaining
    <3>5. TicksFit'
      BY <3>1 DEF TicksFit
    <3> QED
      BY <3>1, <3>2, <3>3, <3>4, <3>5 DEF ServerFits, OneAtATime, ToldIsFresh
  <2> QED
    BY <2>1, <2>2, <2>3, <2>4, <2>5, <2>6, <2>7, <2>8 DEF AdminNext, Outside
<1> QED
  BY <1>1, <1>2, PTL DEF AdminSpec

\* The steps of a handler, and nothing else, end it.
LEMMA EndedBy ==
  ASSUME AdminInv, [AdminNext]_adminVars, NEW h \in Handlers, handler[h].pc # "idle", handler'[h].pc = "idle"
  PROVE  \/ Deliver(h) \/ FailFetch(h) \/ AnswerLost(h) \/ DeleteEntries(h) \/ RemoveBlockedIps(h)
         \/ \E ip \in IPs : Block(h, ip)
<1>1. handler \in [Handlers -> HandlerStates]
  BY DEF AdminInv, AdminTypeOK
<1>2. ASSUME UNCHANGED handler PROVE FALSE
  BY <1>2
<1>3. ASSUME NEW k \in Handlers, NEW c, handler' = [handler EXCEPT ![k] = c] PROVE k = h /\ c.pc = "idle"
  BY <1>1, <1>3
<1>4. CASE Tick \/ AskBan \/ CheckDelete \/ CancelBan \/ Outside \/ UNCHANGED adminVars
  BY <1>2, <1>4, OutsideIs DEF Tick, AskBan, CheckDelete, CancelBan, adminVars
<1>5. ASSUME NEW k \in Handlers, LoadPage(k) \/ DeleteFiles(k) \/ Unblock(k) \/ ConfirmBan(k) PROVE FALSE
  <2>1. handler[k].pc = "idle" /\ k # h
    BY <1>5 DEF LoadPage, DeleteFiles, Unblock, ConfirmBan, BeginHandler
  <2>2. \E c : handler' = [handler EXCEPT ![k] = c]
    BY <1>5 DEF LoadPage, DeleteFiles, Unblock, ConfirmBan, BeginHandler
  <2> QED
    BY <1>3, <2>1, <2>2
<1>6. ASSUME NEW k \in Handlers, ReadFiles(k) \/ ReadIps(k) PROVE FALSE
  <2>1. PICK b \in HandlerStates : b = handler[k]
    BY <1>1
  <2>2. b.pc = "fetch"
    BY <1>6, <2>1 DEF ReadFiles, ReadIps
  <2>3. CASE ReadFiles(k)
    <3>1. PICK c \in HandlerStates : c = [b EXCEPT !.got = @ \cup {"files"}, !.snap.files = Stored]
      BY DEF HandlerStates, Views, Stored
    <3>2. c.pc = "fetch" /\ handler' = [handler EXCEPT ![k] = c]
      BY <2>1, <2>2, <2>3, <3>1 DEF ReadFiles, HandlerGoes, HandlerStates
    <3> QED
      BY <1>3, <3>2
  <2>4. CASE ReadIps(k)
    <3>1. PICK c \in HandlerStates : c = [b EXCEPT !.got = @ \cup {"ips"}, !.snap.ips = blocked]
      BY DEF HandlerStates, Views, AdminInv, AdminTypeOK
    <3>2. c.pc = "fetch" /\ handler' = [handler EXCEPT ![k] = c]
      BY <2>1, <2>2, <2>4, <3>1 DEF ReadIps, HandlerGoes, HandlerStates
    <3> QED
      BY <1>3, <3>2
  <2> QED
    BY <1>6, <2>3, <2>4
<1>7. ASSUME NEW k \in Handlers, Deliver(k) \/ FailFetch(k) \/ AnswerLost(k) PROVE k = h
  BY <1>3, <1>7 DEF Deliver, FailFetch, AnswerLost, Closes, Fail
<1>8. ASSUME NEW k \in Handlers, AfterChange(k), handler[k].pc # "idle" PROVE k = h
  BY <1>3, <1>8 DEF AfterChange, HandlerGoes
<1>9. ASSUME NEW k \in Handlers, DeleteEntries(k) \/ RemoveBlockedIps(k) PROVE k = h
  BY <1>3, <1>8, <1>9 DEF DeleteEntries, RemoveBlockedIps, Fail, AfterChange, HandlerGoes
<1>10. ASSUME NEW k \in Handlers, NEW b \in HandlerStates, NEW ip \in IPs, GoOn(k, ip, b),
              b.pc \in {"block", "list", "remove"}, b.pc # "block" => b.del, handler[k].pc # "idle"
       PROVE  FALSE
  <2>1. PICK c \in HandlerStates : c = [b EXCEPT !.pc = "list", !.ip = ip]
    BY DEF HandlerStates, Stages
  <2>2. PICK d \in HandlerStates : d = [b EXCEPT !.pc = "remove", !.ip = ip]
    BY DEF HandlerStates, Stages
  <2>3. PICK e \in HandlerStates : e = [b EXCEPT !.pc = "block", !.ip = NoIp, !.left = b.left \ {ip}]
    BY DEF HandlerStates, Stages
  <2>4. PICK g \in HandlerStates : g = [handler[k] EXCEPT !.pc = "fetch"]
    BY <1>1 DEF HandlerStates, Stages
  <2>5. c.pc # "idle" /\ d.pc # "idle" /\ e.pc # "idle" /\ g.pc # "idle"
    BY <1>1, <2>1, <2>2, <2>3, <2>4 DEF HandlerStates
  <2>6. \E x \in {c, d, e, g} : handler' = [handler EXCEPT ![k] = x]
    <3>1. \/ HandlerGoes(k, [b EXCEPT !.pc = "list", !.ip = ip])
          \/ HandlerGoes(k, [b EXCEPT !.pc = "remove", !.ip = ip])
          \/ HandlerGoes(k, [b EXCEPT !.pc = "block", !.ip = NoIp, !.left = b.left \ {ip}])
          \/ AfterChange(k)
      BY <1>10, GoOnIs
    <3>2. HandlerGoes(k, c) \/ HandlerGoes(k, d) \/ HandlerGoes(k, e) \/ HandlerGoes(k, g)
      BY <2>1, <2>2, <2>3, <2>4, <3>1 DEF AfterChange
    <3> QED
      BY <3>2 DEF HandlerGoes
  <2> QED
    BY <1>3, <2>5, <2>6
<1>11. ASSUME NEW k \in Handlers, NEW ip \in IPs, Block(k, ip) \/ List(k, ip) \/ RemoveListed(k, ip)
       PROVE  k = h /\ Block(k, ip)
  <2>1. PICK b \in HandlerStates : b = handler[k]
    BY <1>1
  <2>2. b.pc \in {"block", "list", "remove"} /\ (b.pc # "block" => b.del) /\ b.listed \subseteq AllFiles
    BY <1>11, <2>1, HandlerFitsNow DEF Block, List, RemoveListed, HandlerFits, StageFits, BanFits, HandlerStates
  <2>3. ~GoOn(k, ip, b)
    BY <1>10, <2>1, <2>2
  <2>4. ~List(k, ip)
    <3> SUFFICES ASSUME List(k, ip) PROVE FALSE
      OBVIOUS
    <3>1. PICK c \in HandlerStates : c = [b EXCEPT !.listed = Of({ip}) \cap Stored]
      BY DEF HandlerStates, Of, Stored
    <3>2. GoOn(k, ip, c) /\ c.pc = b.pc /\ c.del = b.del
      BY <2>1, <3>1 DEF List, HandlerStates
    <3> QED
      BY <1>10, <2>1, <2>2, <3>2
  <2>5. ~RemoveListed(k, ip)
    <3> SUFFICES ASSUME RemoveListed(k, ip) PROVE FALSE
      OBVIOUS
    <3>1. PICK c \in HandlerStates : c = [b EXCEPT !.listed = {}]
      BY DEF HandlerStates
    <3>2. GoOn(k, ip, c) /\ c.pc = b.pc /\ c.del = b.del
      BY <2>1, <3>1 DEF RemoveListed, HandlerStates
    <3> QED
      BY <1>10, <2>1, <2>2, <3>2
  <2>6. Block(k, ip) /\ Fail(k)
    BY <1>11, <2>1, <2>3, <2>4, <2>5 DEF Block
  <2> QED
    BY <1>3, <2>6 DEF Fail
<1> QED
  BY <1>4, <1>5, <1>6, <1>7, <1>9, <1>11 DEF AdminNext, Outside

\* A request that fails has failed because of somebody, or of what the page showed.
LEMMA RefusalIsFor ==
  ASSUME AdminInv, NEW h \in Handlers, handler[h].pc # "idle", handler'[h].pc = "idle",
         DeleteEntries(h) \/ RemoveBlockedIps(h) \/ \E ip \in IPs : Block(h, ip)
  PROVE  /\ outcome' = "error"
         /\ \/ errors' > 0 \/ together \/ outdated
            \/ /\ handler[h].op = "ban"
               /\ "block" \in others \/ handler[h].asked \cap handler[h].saw.ips # {}
            \/ /\ handler[h].op = "delete"
               /\ "delete" \in others \/ handler[h].files \cap handler[h].saw.files = {}
            \/ handler[h].op = "unblock" /\ "unblock" \in others
<1>1. PICK b \in HandlerStates : b = handler[h]
  BY DEF AdminInv, AdminTypeOK
<1>2. HandlerFits(b) /\ handler \in [Handlers -> HandlerStates]
  BY <1>1, HandlerFitsNow DEF AdminInv, AdminTypeOK
<1>3. ~AfterChange(h)
  <2>1. PICK c \in HandlerStates : c = [b EXCEPT !.pc = "fetch"]
    BY DEF HandlerStates, Stages
  <2>2. c.pc = "fetch"
    BY <2>1 DEF HandlerStates
  <2> QED
    BY <1>1, <1>2, <2>1, <2>2 DEF AfterChange, HandlerGoes
<1>4. CASE DeleteEntries(h)
  <2>1. b.pc = "delete" /\ b.files \cap Remaining = {} /\ Fail(h)
    BY <1>1, <1>3, <1>4 DEF DeleteEntries
  <2>2. b.op = "delete" /\ (~together => SawWell(b))
    BY <1>2, <2>1 DEF HandlerFits, StageFits, HandlerStates
  <2>3. together \/ outdated \/ "delete" \in others \/ b.files \cap b.saw.files = {}
    BY <2>1, <2>2 DEF SawWell
  <2> QED
    BY <1>1, <2>1, <2>2, <2>3 DEF Fail
<1>5. CASE RemoveBlockedIps(h)
  <2>1. b.pc = "unblock" /\ ~(b.asked \subseteq blocked) /\ Fail(h) /\ errors' = errors
    BY <1>1, <1>3, <1>5 DEF RemoveBlockedIps, adminBounds
  <2>2. b.op = "unblock"
    BY <1>2, <2>1 DEF HandlerFits, StageFits, HandlerStates
  <2>3. together \/ errors # 0 \/ "unblock" \in others
    BY <1>1, <2>1 DEF AdminInv, TicksFit
  <2>4. errors # 0 => errors' > 0
    BY <2>1, AdminAssumption DEF AdminInv, AdminTypeOK
  <2> QED
    BY <1>1, <2>1, <2>2, <2>3, <2>4 DEF Fail
<1>6. ASSUME NEW ip \in IPs, Block(h, ip)
      PROVE  /\ outcome' = "error" /\ b.op = "ban"
             /\ together \/ outdated \/ "block" \in others \/ b.asked \cap b.saw.ips # {}
  <2>1. b.pc = "block" /\ ip \in b.left
    BY <1>1, <1>6 DEF Block, BansNow
  <2>2. b.op = "ban" /\ BanFits(b) /\ (~together => SawWell(b))
    BY <1>2, <2>1 DEF HandlerFits, StageFits, HandlerStates
  <2>3. ~GoOn(h, ip, b)
    <3>1. PICK c \in HandlerStates : c = [b EXCEPT !.pc = "list", !.ip = ip]
      BY DEF HandlerStates, Stages
    <3>2. PICK e \in HandlerStates : e = [b EXCEPT !.pc = "block", !.ip = NoIp, !.left = b.left \ {ip}]
      BY DEF HandlerStates, Stages
    <3>3. c.pc # "idle" /\ e.pc # "idle"
      BY <3>1, <3>2 DEF HandlerStates
    <3>4. SUFFICES ASSUME GoOn(h, ip, b) PROVE FALSE
      OBVIOUS
    <3>5. \/ HandlerGoes(h, [b EXCEPT !.pc = "list", !.ip = ip])
          \/ HandlerGoes(h, [b EXCEPT !.pc = "block", !.ip = NoIp, !.left = b.left \ {ip}])
      BY <1>3, <2>1, <3>4, GoOnIs
    <3>6. HandlerGoes(h, c) \/ HandlerGoes(h, e)
      BY <3>1, <3>2, <3>5
    <3> QED
      BY <1>2, <3>3, <3>6 DEF HandlerGoes
  <2>4. ip \in blocked /\ Fail(h)
    BY <1>1, <1>6, <2>3 DEF Block
  <2>5. ip # NoIp /\ b.ip = NoIp
    BY <2>1, <2>2, AdminAssumption DEF BanFits
  <2>6. together \/ outdated \/ "block" \in others \/ ip \in b.saw.ips
    BY <2>1, <2>2, <2>4, <2>5 DEF SawWell
  <2> QED
    BY <2>1, <2>2, <2>4, <2>6 DEF Fail, BanFits
<1> QED
  BY <1>1, <1>4, <1>5, <1>6

\* A handler that tells of its success is through with all that was asked.
LEMMA ToldIsDone ==
  ASSUME AdminInv, NEW h \in Handlers, Deliver(h), handler[h].op = "ban", handler[h].del
  PROVE  \A f \in Of(handler[h].asked) \cap Stored : f \in spared \cup unmoved \/ IpOf[f] \in freed
<1>1. PICK b \in HandlerStates : b = handler[h]
  BY DEF AdminInv, AdminTypeOK
<1>2. BanDone(b) /\ b.pc = "fetch"
  BY <1>1, HandlerFitsNow DEF HandlerFits, Deliver
<1>3. Cleaned(b.asked \ Undone(b)) /\ b.asked \ Undone(b) = b.asked
  BY <1>1, <1>2 DEF BanDone, Undone
<1> QED
  BY <1>1, <1>3 DEF Cleaned

\* The three properties of the page: a ban that is told as done has taken the files of its IPs
\* along, an error has a reason, and after a success the page shows what is there.
THEOREM AdministrationIsExplained == AdminSpec => BannedFilesGone /\ ErrorsExplained /\ []ShowsItsWork
<1>1. AdminInv /\ [AdminNext]_adminVars =>
        [\A h \in Handlers :
           Ends(h, "told") /\ handler[h].op = "ban" /\ handler[h].del =>
             \A f \in Of(handler[h].asked) \cap Remaining :
               f \in spared \cup unmoved \/ IpOf[f] \in freed \/ place[f] = "expired"]_adminVars
  <2> SUFFICES ASSUME AdminInv, [AdminNext]_adminVars, NEW h \in Handlers, Ends(h, "told"),
                      handler[h].op = "ban", handler[h].del
               PROVE  \A f \in Of(handler[h].asked) \cap Remaining :
                        f \in spared \cup unmoved \/ IpOf[f] \in freed \/ place[f] = "expired"
    OBVIOUS
  <2>1. Deliver(h)
    BY EndedBy, RefusalIsFor DEF Ends, FailFetch, AnswerLost, Fail
  <2> QED
    BY <2>1, ToldIsDone DEF Stored, Remaining
<1>2. AdminInv /\ [AdminNext]_adminVars =>
        [\A h \in Handlers : Ends(h, "error") =>
           \/ errors' > 0 \/ together \/ outdated
           \/ /\ handler[h].op = "ban"
              /\ "block" \in others \/ handler[h].asked \cap handler[h].saw.ips # {}
           \/ /\ handler[h].op = "delete"
              /\ "delete" \in others \/ handler[h].files \cap handler[h].saw.files = {}
           \/ handler[h].op = "unblock" /\ "unblock" \in others]_adminVars
  <2> SUFFICES ASSUME AdminInv, [AdminNext]_adminVars, NEW h \in Handlers, Ends(h, "error")
               PROVE  \/ errors' > 0 \/ together \/ outdated
                      \/ /\ handler[h].op = "ban"
                         /\ "block" \in others \/ handler[h].asked \cap handler[h].saw.ips # {}
                      \/ /\ handler[h].op = "delete"
                         /\ "delete" \in others \/ handler[h].files \cap handler[h].saw.files = {}
                      \/ handler[h].op = "unblock" /\ "unblock" \in others
    OBVIOUS
  <2>1. CASE FailFetch(h) \/ AnswerLost(h)
    <3>1. errors' = errors + 1 /\ errors \in 0..MaxErrors
      BY <2>1 DEF FailFetch, AnswerLost, AdminInv, AdminTypeOK
    <3> QED
      BY <3>1, AdminAssumption
  <2>2. ~Deliver(h)
    BY DEF Ends, Deliver
  <2> QED
    BY <2>1, <2>2, EndedBy, RefusalIsFor DEF Ends
<1>3. AdminInv => ShowsItsWork
  <2> SUFFICES ASSUME AdminInv, Quiet, outcome = "told", others = {}, ~together
               PROVE  onPage.files \subseteq Remaining /\ onPage.ips = blocked
    BY DEF ShowsItsWork
  <2> QED
    BY DEF AdminInv, ToldIsFresh, PageIsFresh
<1> QED
  BY <1>1, <1>2, <1>3, AdminInvariant, PTL DEF AdminSpec, BannedFilesGone, ErrorsExplained

\* What an administrator is told is so, of the page and of changes of the credentials
\* (AdminPage, changeDetails of UserService).
THEOREM WhatAnAdministratorIsTold == AdminSpec /\ UsersSpec => AdminExplained
BY AdministrationIsExplained, RefusedWhenStale, PTL DEF AdminExplained

=============================================================================
