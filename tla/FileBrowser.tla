---------------------------- MODULE FileBrowser ----------------------------
(***************************************************************************)
(* The browser of files in the pages of a bucket, of the administrator and *)
(* of a public album: what is selected in it, and what it asks of its page *)
(* for the selection: to delete files, to take them out of the album, to   *)
(* reorder the album, to put them into one by dragging them to the sidebar.*)
(*                                                                         *)
(* The browser is one component for all albums of a bucket, so that the    *)
(* selection outlives the list it was made in.  An event of the mouse or   *)
(* the keyboard, and the rendering that follows it, is one step.  Dialogs  *)
(* and the overlay of a request keep the mouse from the list; they do not  *)
(* keep from it the keys, which the browser hears from the document.       *)
(*                                                                         *)
(* Which page of the list is shown is in FilePages: any listed file may be *)
(* in reach of the mouse.                                                  *)
(***************************************************************************)
EXTENDS Integers, FiniteSets

CONSTANTS
  Files,      \* ids of files
  Mode,       \* the page: "bucket", "admin" or "public"
  Sortings,   \* the orders of the sort buttons, field and direction in one
  Rank,       \* of each sorting: the place of every file in it
  Searches,   \* what may be typed into the field
  NoSearch,   \* nothing
  Blanks,     \* nothing but spaces, or nothing
  Matches     \* of each of them: the files whose names contain it

None      == -1
Undefined == 0      \* an element of the selection that is no file
Layout    == "layout"

ASSUME BrowserAssumption ==
  /\ IsFiniteSet(Files) /\ Files \subseteq Nat \ {0}
  /\ Mode \in {"bucket", "admin", "public"} /\ "name" \in Sortings
  /\ Rank \in [Sortings -> [Files -> Nat]]
  /\ \A s \in Sortings : \A f, g \in Files : Rank[s][f] = Rank[s][g] => f = g
  /\ NoSearch \in Blanks /\ Blanks \subseteq Searches
  /\ Matches \in [Searches -> SUBSET Files] /\ Matches[NoSearch] = Files

VARIABLES
  where,      \* of each file: what the page knows of it
  album,      \* the album is shown, not all files
  sorting,    \* of each of the two: the order kept in LocalStorage
  search,
  selected,   \* selectedFiles
  anchor,     \* lastSelectedFile
  told,       \* what onFilesSelected was last called with
  dialog,     \* deleteFilesDialog
  menu,       \* the context menu, with what its items hold
  dragged,    \* draggedFiles
  toAlbum,    \* isDraggingToAlbum
  held,       \* the file that the mouse drags
  call,       \* the request under way
  meant,      \* history: what was to be deleted when the dialog came up
  behind     \* history: the selection has changed since, behind the dialog

list      == <<where, album, sorting, search>>
selection == <<selected, anchor, told>>
drag      == <<dragged, toAlbum, held>>
history   == <<meant, behind>>
vars      == <<list, selection, dialog, menu, drag, call, history>>

Reports        == Mode \in {"admin", "public"}    \* the page passes onFilesSelected
AllowDeletion  == Mode # "public"
Places         == IF Mode = "bucket" THEN {"gone", "out", "in"} ELSE {"gone", "out"}
Selections     == SUBSET (Files \cup {Undefined})

NoDialog == [open |-> FALSE, of |-> None]
NoMenu   == [open |-> FALSE, of |-> None, holds |-> {}, clear |-> FALSE]
NoCall   == [op |-> "none", of |-> {}, from |-> 0, to |-> 0]

TypeOK ==
  /\ where \in [Files -> Places] /\ album \in BOOLEAN
  /\ sorting \in [BOOLEAN -> Sortings] /\ search \in Searches
  /\ selected \in Selections /\ told \in Selections /\ meant \in Selections
  /\ anchor \in Files \cup {None} /\ held \in Files \cup {None}
  /\ dialog \in [open : BOOLEAN, of : Files \cup {None}]
  /\ menu \in [open : BOOLEAN, of : Files \cup {None}, holds : Selections, clear : BOOLEAN]
  /\ dragged \in Selections /\ toAlbum \in BOOLEAN /\ behind \in BOOLEAN
  /\ call \in [op : {"none", "delete", "remove", "assign", "reorder"}, of : Selections,
               from : Int, to : Int]
  \* no drag and no dialog leaves anything to the next one
  /\ (held = None) = (dragged = {})
  /\ dialog.open \/ (dialog = NoDialog /\ meant = {} /\ ~behind)

Init ==
  /\ where \in [Files -> Places] /\ album = FALSE
  /\ sorting = [a \in BOOLEAN |-> "name"]
  /\ search = NoSearch
  /\ selected = {} /\ anchor = None /\ told = {}
  /\ dialog = NoDialog /\ menu = NoMenu
  /\ dragged = {} /\ toAlbum = FALSE /\ held = None
  /\ call = NoCall /\ meant = {} /\ behind = FALSE

-----------------------------------------------------------------------------
(* The list.                                                                *)

Shown  == {f \in Files : where[f] # "gone" /\ (album => where[f] = "in")}     \* files
Listed == Shown \cap Matches[search]                                         \* sortedFiles

\* isSearchActive trims what was typed; the filter does not.
Searching == search \notin Blanks
HiddenByBlanks == ~Searching /\ Matches[search] # Files

Before(f, g) == Rank[sorting[album]][f] < Rank[sorting[album]][g]
Index(f) == IF f \in Listed THEN Cardinality({g \in Listed : Before(g, f)}) ELSE -1

Smaller(i, j) == IF i < j THEN i ELSE j
Larger(i, j)  == IF i < j THEN j ELSE i

\* What is at the indices between two; at -1 there is nothing, which is undefined.
Between(i, j) ==
  {f \in Listed : Smaller(i, j) <= Index(f) /\ Index(f) <= Larger(i, j)}
    \cup (IF Smaller(i, j) = -1 THEN {Undefined} ELSE {})

Mouse == call = NoCall /\ ~dialog.open /\ held = None
Tell(S) == told' = IF Reports THEN S ELSE told

SelectAlbum ==
  /\ Mode = "bucket" /\ Mouse
  /\ album' = ~album /\ menu' = NoMenu
  /\ UNCHANGED <<where, sorting, search, selection, dialog, drag, call, history>>

Search(q) ==
  /\ Mouse /\ Shown # {}
  /\ search' = q /\ menu' = NoMenu
  /\ UNCHANGED <<where, album, sorting, selection, dialog, drag, call, history>>

\* The button of the layout is there in an album only.
Sort(s) ==
  /\ Mouse /\ Shown # {} /\ (s = Layout => album)
  /\ sorting' = [sorting EXCEPT ![album] = s] /\ menu' = NoMenu
  /\ UNCHANGED <<where, album, search, selection, dialog, drag, call, history>>

\* The page has fetched its files again.
Refresh ==
  /\ Mode # "public"
  /\ where' \in [Files -> Places]
  /\ UNCHANGED <<album, sorting, search, selection, dialog, menu, drag, call, history>>

-----------------------------------------------------------------------------
(* The selection.                                                           *)

Toggled(f) == IF f \in selected THEN selected \ {f} ELSE selected \cup {f}

\* handleFileSelect
Click(f, shift) ==
  /\ Mouse /\ f \in Listed
  /\ LET S == IF shift /\ anchor # None
              THEN selected \cup Between(Index(anchor), Index(f))
              ELSE Toggled(f)
     IN  selected' = S /\ Tell(S)
  /\ anchor' = f /\ menu' = NoMenu
  /\ UNCHANGED <<list, dialog, drag, call, history>>

Check_Silent(f) ==
  /\ Mouse /\ f \in Listed
  /\ selected' = Toggled(f) /\ told' = told
  /\ anchor' = f /\ menu' = NoMenu
  /\ UNCHANGED <<list, dialog, drag, call, history>>

\* renderFileCheckbox
Check(f) ==
  /\ Mouse /\ f \in Listed
  /\ selected' = Toggled(f) /\ Tell(Toggled(f))
  /\ anchor' = f /\ menu' = NoMenu
  /\ UNCHANGED <<list, dialog, drag, call, history>>

\* handleSelectAll, of the button, or of the menu with the files as it came up.
SelectAll(S) ==
  /\ selected' = S /\ Tell(S)
  /\ UNCHANGED anchor

\* handleClearSelection
ClearSelection ==
  /\ selected' = {} /\ Tell({})
  /\ UNCHANGED anchor

ClickSelectAll ==
  /\ Mouse /\ Shown # {} /\ SelectAll(Listed) /\ menu' = NoMenu
  /\ UNCHANGED <<list, dialog, drag, call, history>>

ClickClear ==
  /\ Mouse /\ Shown # {} /\ selected # {} /\ ClearSelection /\ menu' = NoMenu
  /\ UNCHANGED <<list, dialog, drag, call, history>>

\* Ctrl+A, wherever the focus is.
PressSelectAll ==
  /\ held = None /\ SelectAll(Listed)
  /\ behind' = dialog.open
  /\ UNCHANGED <<list, dialog, menu, drag, call, meant>>

\* Escape tells nobody.
PressEscape ==
  /\ held = None /\ selected' = {} /\ menu' = NoMenu
  /\ behind' = dialog.open
  /\ UNCHANGED <<list, anchor, told, dialog, drag, call, meant>>

-----------------------------------------------------------------------------
(* Deletion.                                                                *)

\* What is marked when a dialog of file `f`, or of none, comes up ...
Marked(f) == IF f \in selected \cup {None} THEN selected ELSE {f}

\* ... and what is deleted when it is confirmed.
FilesToDelete_Selection(f) == selected
FilesToDelete(f) == IF f # None /\ f \notin selected THEN {f} ELSE selected

\* handleDeleteFilesClick
AskDelete(f) ==
  /\ dialog' = [open |-> TRUE, of |-> f]
  /\ meant' = Marked(f) /\ behind' = FALSE

ClickDelete ==
  /\ Mouse /\ Shown # {} /\ AllowDeletion /\ selected # {}
  /\ AskDelete(None) /\ menu' = NoMenu
  /\ UNCHANGED <<list, selection, drag, call>>

PressDelete ==
  /\ held = None /\ AllowDeletion /\ selected # {}
  /\ AskDelete(None)
  /\ UNCHANGED <<list, selection, menu, drag, call>>

CloseDialog_Keeping == dialog' = [dialog EXCEPT !.open = FALSE] /\ meant' = {} /\ behind' = FALSE
CloseDialog == dialog' = NoDialog /\ meant' = {} /\ behind' = FALSE

CancelDelete ==
  /\ dialog.open /\ call = NoCall
  /\ CloseDialog
  /\ UNCHANGED <<list, selection, menu, drag, call>>

\* handleDeleteFilesConfirm.  The dialog stays until the answer comes.
ConfirmDelete ==
  /\ dialog.open /\ call = NoCall /\ FilesToDelete(dialog.of) # {}
  /\ call' = [NoCall EXCEPT !.op = "delete", !.of = FilesToDelete(dialog.of)]
  /\ UNCHANGED <<list, selection, dialog, menu, drag, history>>

\* What was selected in the meantime is cleared too; a failure leaves all as it is.
DeleteAnswer ==
  /\ call.op = "delete"
  /\ \/ /\ where' = [f \in Files |-> IF f \in call.of THEN "gone" ELSE where[f]]
        /\ selected' = {} /\ CloseDialog
     \/ UNCHANGED <<where, selected, dialog, history>>
  /\ call' = NoCall
  /\ UNCHANGED <<album, sorting, search, anchor, told, menu, drag>>

-----------------------------------------------------------------------------
(* The context menu.                                                        *)

\* handleContextMenu, on a file or beside them.  Its items hold what they are for as it is now:
\* the files to select, or those to take out of the album.
OpenMenu(f) ==
  /\ Mouse /\ Shown # {} /\ f \in Listed \cup {None}
  /\ menu' = [open |-> TRUE, of |-> f, clear |-> f = None /\ selected # {},
               holds |-> IF f = None THEN Listed ELSE IF f \in selected THEN selected ELSE {f}]
  /\ UNCHANGED <<list, selection, dialog, drag, call, history>>

\* The menu is above a dialog that the Delete key has opened beside it.
Item == menu.open /\ call = NoCall /\ held = None

MenuSelectAll ==
  /\ Item /\ menu.of = None
  /\ SelectAll(menu.holds) /\ menu' = NoMenu
  /\ behind' = dialog.open
  /\ UNCHANGED <<list, dialog, drag, call, meant>>

MenuClear ==
  /\ Item /\ menu.clear
  /\ ClearSelection /\ menu' = NoMenu
  /\ behind' = dialog.open
  /\ UNCHANGED <<list, dialog, drag, call, meant>>

MenuDelete ==
  /\ Item /\ menu.of # None /\ AllowDeletion
  /\ AskDelete(menu.of) /\ menu' = NoMenu
  /\ UNCHANGED <<list, selection, drag, call>>

\* Once confirmed the selection goes at once, whatever becomes of the request.
MenuRemoveFromAlbum ==
  /\ Item /\ menu.of # None /\ album
  /\ call' = [NoCall EXCEPT !.op = "remove", !.of = menu.holds]
  /\ selected' = {} /\ menu' = NoMenu
  /\ behind' = dialog.open
  /\ UNCHANGED <<list, anchor, told, dialog, drag, meant>>

-----------------------------------------------------------------------------
(* Dragging.                                                                *)

\* Files may be dragged within an album in its layout, and to the sidebar otherwise; on the
\* other pages a drag goes nowhere.
AwayFromList == ~album \/ Searching \/ sorting[album] # Layout

DragStart(f) ==
  /\ Mode = "bucket" /\ Mouse /\ f \in Listed
  /\ dragged' = IF f \in selected THEN selected ELSE {f}
  /\ toAlbum' = (toAlbum \/ AwayFromList)
  /\ held' = f /\ menu' = NoMenu
  /\ UNCHANGED <<list, selection, dialog, call, history>>

DragOver_Kept == held' = None /\ UNCHANGED <<dragged, toAlbum>>

\* handleDragEnd; dragend does not come from a file that is no longer there.
DragOver ==
  /\ held' = None /\ dragged' = {}
  /\ toAlbum' = (toAlbum /\ held \notin Listed)

DragEnd ==
  /\ held # None /\ DragOver
  /\ UNCHANGED <<list, selection, dialog, menu, call, history>>

CanReorder_InAlbum == album
CanReorder == album /\ ~toAlbum /\ sorting[album] = Layout /\ ~Searching

\* handleDrop: the indices in the list are the places in the album.
DropOnFile(g) ==
  /\ held # None /\ call = NoCall /\ g \in Listed
  /\ CanReorder
  /\ \E f \in Listed :
       /\ dragged = {f} /\ f # g
       /\ call' = [op |-> "reorder", of |-> {f}, from |-> Index(f), to |-> Index(g)]
  /\ DragOver
  /\ UNCHANGED <<list, selection, dialog, menu, history>>

\* The sidebar takes whatever carries tokens; only of listed files they are known.
DropOnAlbum ==
  /\ Mode = "bucket" /\ held # None /\ call = NoCall
  /\ call' = [NoCall EXCEPT !.op = "assign", !.of = dragged \cap Listed]
  /\ DragOver
  /\ UNCHANGED <<list, selection, dialog, menu, history>>

\* The page answers the other requests.
Answer ==
  /\ call.op \in {"remove", "assign", "reorder"}
  /\ call' = NoCall
  /\ UNCHANGED <<list, selection, dialog, menu, drag, history>>

-----------------------------------------------------------------------------
OfList == SelectAlbum \/ (\E q \in Searches : Search(q)) \/ (\E s \in Sortings : Sort(s)) \/ Refresh
OfSelection ==
  \/ \E f \in Files : Check(f) \/ \E shift \in BOOLEAN : Click(f, shift)
  \/ ClickSelectAll \/ ClickClear \/ PressSelectAll \/ PressEscape
OfDeletion == ClickDelete \/ PressDelete \/ CancelDelete \/ ConfirmDelete \/ DeleteAnswer
OfMenu ==
  \/ \E f \in Files \cup {None} : OpenMenu(f)
  \/ MenuSelectAll \/ MenuClear \/ MenuDelete \/ MenuRemoveFromAlbum
OfDrag == (\E f \in Files : DragStart(f) \/ DropOnFile(f)) \/ DragEnd \/ DropOnAlbum \/ Answer

Next == OfList \/ OfSelection \/ OfDeletion \/ OfMenu \/ OfDrag
Spec == Init /\ [][Next]_vars

-----------------------------------------------------------------------------
(* Properties.                                                              *)

\* While something is selected the page has been told of it: what the
\* administrator bans by, and what a visitor downloads, is what is marked
\* in the list, through ranges, albums, searches, menus and deletions.
ToldWhatIsSelected == Reports /\ selected # {} => told = selected

\* What a confirmed dialog deletes is what was marked when it came up, or the
\* file whose menu asked for it, unless the selection has changed behind
\* the dialog.
DeletesWhatWasAsked ==
  [][call = NoCall /\ call'.op = "delete" => call'.of = meant \/ behind]_vars

\* A file is reordered by its place, and that of the file it is dropped on,
\* among all files of the album in the order of the layout: the server
\* knows no other list.  Unless spaces are typed into the field of the search:
\* they hide the files without one, and are taken for no search.
InLayout(f) == Cardinality({g \in Files : where[g] = "in" /\ Rank[Layout][g] < Rank[Layout][f]})
ByLayout ==
  \E f, g \in Files : /\ where[f] = "in" /\ where[g] = "in" /\ call'.of = {f}
                      /\ call'.from = InLayout(f) /\ call'.to = InLayout(g)
ReordersByLayout ==
  [][call = NoCall /\ call'.op = "reorder" => ByLayout \/ HiddenByBlanks]_vars

\* Without that exception: with a space typed a file lands where the hidden ones put it.
ReordersUnsearched == [][call = NoCall /\ call'.op = "reorder" => ByLayout]_vars

\* The code says that the selection is a set of numbers, the ids of files:
\* a range from a file that the list has lost puts undefined into it.
SelectedAreFiles == selected \subseteq Files

\* The dialog asks whether to delete "these file(s)": with Ctrl+A behind it
\* all files are deleted instead.
DeletesThese == [][call = NoCall /\ call'.op = "delete" => call'.of = meant]_vars

\* A public album offers to "Download Selected" what it was told: after
\* Escape nothing is selected and the files are downloaded all the same.
OffersSelected == Mode = "public" => told = selected
=============================================================================
