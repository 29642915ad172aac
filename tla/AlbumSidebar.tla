--------------------------- MODULE AlbumSidebar ----------------------------
(***************************************************************************)
(* The list of albums beside the files of a bucket, in several tabs: the   *)
(* form that makes an album, the menu of an album, the dialog that deletes *)
(* one, the pins, and the handlers of the page behind them.                *)
(*                                                                         *)
(* The menu holds what was true of its album when it was opened, and stays *)
(* while the end of an upload brings another list.  The pins are read from *)
(* LocalStorage when the list appears and written as a whole.  A handler   *)
(* is a request that checks and then writes, its answer, and the bucket    *)
(* fetched again.  The overlay of a tab lets no other handler begin; but   *)
(* the end of an upload fetches the bucket at any time, and takes the      *)
(* overlay away under a handler that runs.                                 *)
(***************************************************************************)
EXTENDS Naturals

CONSTANTS
  Tabs,
  NoTab,       \* of a handler whose page is gone
  Albums,      \* tokens of albums, those that are not made yet included
  Names,       \* of albums
  NoAlbum,     \* the name of an album that is not made yet
  Removed,     \* and of one that is deleted
  MaxLinks,    \* bound: public tokens given
  MaxWorks,    \* bound: handlers begun, and uploads ended
  MaxRefusals  \* bound: requests that fail, and writes refused by the browser

ASSUME SidebarAssumption ==
  /\ Albums \subseteq Nat     \* ids, in the order of their creation
  /\ NoTab \notin Tabs /\ NoAlbum \notin Names /\ NoAlbum \notin Albums /\ Removed \notin Names
  /\ {MaxLinks, MaxWorks, MaxRefusals} \subseteq Nat

VARIABLES
  albums,       \* the table: names, and public tokens (0 is none)
  sidebar,      \* the sidebar of each tab, with the dialog of the page
  covered,      \* the tabs with the overlay: isLoading
  work,         \* the handlers
  stored,       \* PINNED_ALBUMS_KEY
  pinned,       \* history: what was pinned and not unpinned since, in any tab
  unread,       \* history: the tabs that have not read them since another wrote
  overwritten,  \* history: one of those wrote, or a tab could not
  links, works, refusals

sidebarVars ==
  <<albums, sidebar, covered, work, stored, pinned, unread, overwritten, links, works, refusals>>

AlbumRows   == [name : Names \cup {NoAlbum, Removed}, link : 0..MaxLinks]
NoRow       == [name |-> NoAlbum, link |-> 0]
NoAlbumMenu == [album |-> NoAlbum, link |-> 0, pinned |-> FALSE]
AlbumMenus  == [album : Albums \cup {NoAlbum}, link : 0..MaxLinks, pinned : BOOLEAN]
Closed == [open |-> FALSE, view |-> [a \in Albums |-> NoRow], form |-> NoAlbum,
           asked |-> NoAlbum, menu |-> NoAlbumMenu, pins |-> {}]
Sidebars == [open : BOOLEAN, view : [Albums -> AlbumRows], form : Names \cup {NoAlbum},
             asked : Albums \cup {NoAlbum}, menu : AlbumMenus, pins : SUBSET Albums]

WorkIds == 1..MaxWorks
NoListing == [a \in Albums |-> NoRow]
NoWork == [pc |-> "idle", op |-> "none", tab |-> NoTab, album |-> NoAlbum, name |-> NoAlbum,
           answer |-> NoListing, overtaken |-> FALSE]
Removals == {"delete", "empty"}     \* keeping the files, or with them
Works == [pc : {"idle", "check", "write", "thumbs", "fetch", "show", "end"},
          op : {"none", "refresh", "create", "share", "unshare"} \cup Removals,
          tab : Tabs \cup {NoTab}, album : Albums \cup {NoAlbum}, name : Names \cup {NoAlbum},
          answer : [Albums -> AlbumRows],
          overtaken : BOOLEAN]   \* history: another wrote since it did, or an older list is shown

SidebarTypeOK ==
  /\ albums \in [Albums -> AlbumRows]
  /\ sidebar \in [Tabs -> Sidebars] /\ covered \subseteq Tabs /\ work \in [WorkIds -> Works]
  /\ stored \subseteq Albums /\ pinned \subseteq Albums
  /\ unread \subseteq Tabs /\ overwritten \in BOOLEAN
  /\ links \in 0..MaxLinks /\ works \in 0..MaxWorks /\ refusals \in 0..MaxRefusals
  \* the unique index of names
  /\ \A a, b \in Albums : albums[a].name \in Names /\ albums[a].name = albums[b].name => a = b

\* A bucket with some albums, none of which is shared yet.
SidebarInit ==
  /\ albums \in [Albums -> {NoRow} \cup [name : Names, link : {0}]]
  /\ \A a, b \in Albums : albums[a].name \in Names /\ albums[a].name = albums[b].name => a = b
  /\ \A a, b \in Albums : albums[a].name = NoAlbum /\ a < b => albums[b].name = NoAlbum
  /\ sidebar = [t \in Tabs |-> Closed] /\ covered = {} /\ work = [h \in WorkIds |-> NoWork]
  /\ stored = {} /\ pinned = {} /\ unread = {} /\ overwritten = FALSE
  /\ links = 0 /\ works = 0 /\ refusals = 0

There(a)  == albums[a].name \in Names
Taken(n)  == \E a \in Albums : albums[a].name = n
ListedAlbums(t) == {a \in Albums : sidebar[t].view[a].name \in Names}
Ready(t)  == sidebar[t].open /\ t \notin covered
Refuses   == refusals < MaxRefusals /\ refusals' = refusals + 1
pinning   == <<stored, pinned, unread, overwritten>>

-----------------------------------------------------------------------------
(* The sidebar.                                                             *)

\* LocalStorage.getJson
StoredPins_Default == {}
StoredPins == stored

\* The page has fetched the bucket and is rendered.
Mount(t) ==
  /\ ~sidebar[t].open
  /\ sidebar' = [sidebar EXCEPT ![t] =
                   [Closed EXCEPT !.open = TRUE, !.view = albums, !.pins = StoredPins]]
  /\ unread' = unread \ {t}
  /\ UNCHANGED <<albums, covered, work, stored, pinned, overwritten, links, works, refusals>>

\* It is loaded again, or left: what its handlers have begun goes on, and nobody sees it.
LeavePage(t) ==
  /\ sidebar[t].open
  /\ sidebar' = [sidebar EXCEPT ![t] = Closed] /\ covered' = covered \ {t}
  /\ work' = [h \in WorkIds |-> IF work[h].tab = t THEN [work[h] EXCEPT !.tab = NoTab] ELSE work[h]]
  /\ UNCHANGED <<albums, pinning, links, works, refusals>>

\* The form is opened, and a name typed; or it is cancelled.
Type(t, n) ==
  /\ Ready(t) /\ sidebar[t].asked = NoAlbum
  /\ sidebar' = [sidebar EXCEPT ![t].form = n, ![t].menu = NoAlbumMenu]
  /\ UNCHANGED <<albums, covered, work, pinning, links, works, refusals>>

OpenAlbumMenu(t, a) ==
  /\ Ready(t) /\ sidebar[t].asked = NoAlbum /\ a \in ListedAlbums(t)
  /\ sidebar' = [sidebar EXCEPT ![t].menu = [album |-> a, link |-> sidebar[t].view[a].link,
                                             pinned |-> a \in sidebar[t].pins]]
  /\ UNCHANGED <<albums, covered, work, pinning, links, works, refusals>>

\* LocalStorage.setJson: the browser may refuse, and nobody is told.
Write(t, pins) ==
  \/ /\ stored' = pins /\ overwritten' = (overwritten \/ t \in unread)
     /\ unread' = {u \in Tabs \ {t} : sidebar[u].open} /\ UNCHANGED refusals
  \/ Refuses /\ overwritten' = TRUE /\ UNCHANGED <<stored, unread>>

Pin(t) ==
  LET a == sidebar[t].menu.album IN
  /\ Ready(t) /\ a # NoAlbum /\ ~sidebar[t].menu.pinned
  /\ sidebar' = [sidebar EXCEPT ![t].pins = @ \cup {a}, ![t].menu = NoAlbumMenu]
  /\ Write(t, sidebar'[t].pins) /\ pinned' = pinned \cup {a}
  /\ UNCHANGED <<albums, covered, work, links, works>>

Unpin(t) ==
  LET a == sidebar[t].menu.album IN
  /\ Ready(t) /\ sidebar[t].menu.pinned
  /\ sidebar' = [sidebar EXCEPT ![t].pins = @ \ {a}, ![t].menu = NoAlbumMenu]
  /\ Write(t, sidebar'[t].pins) /\ pinned' = pinned \ {a}
  /\ UNCHANGED <<albums, covered, work, links, works>>

\* handleDeleteClick
Ask(t) ==
  /\ Ready(t) /\ sidebar[t].menu.album # NoAlbum
  /\ sidebar' = [sidebar EXCEPT ![t].asked = sidebar[t].menu.album, ![t].menu = NoAlbumMenu]
  /\ UNCHANGED <<albums, covered, work, pinning, links, works, refusals>>

\* handleDeleteCancel
KeepAlbum(t) ==
  /\ Ready(t) /\ sidebar[t].asked # NoAlbum /\ sidebar' = [sidebar EXCEPT ![t].asked = NoAlbum]
  /\ UNCHANGED <<albums, covered, work, pinning, links, works, refusals>>

-----------------------------------------------------------------------------
(* The handlers.                                                            *)

\* withLoading
BeginWork(t, c) ==
  /\ works < MaxWorks /\ works' = works + 1
  /\ work' = [work EXCEPT ![works'] = c]
  /\ covered' = covered \cup {t}
  /\ UNCHANGED <<albums, pinning, links, refusals>>

BeginClick(t, op, a, n) ==
  /\ Ready(t) /\ sidebar' = [sidebar EXCEPT ![t].menu = NoAlbumMenu]
  /\ BeginWork(t, [NoWork EXCEPT !.pc = "check", !.op = op, !.tab = t, !.album = a, !.name = n])

CreateAlbum(t) ==
  /\ sidebar[t].asked = NoAlbum /\ sidebar[t].form # NoAlbum
  /\ BeginClick(t, "create", NoAlbum, sidebar[t].form)
ConfirmRemoval(t) ==
  /\ sidebar[t].asked # NoAlbum
  /\ \E op \in Removals : BeginClick(t, op, sidebar[t].asked, NoAlbum)
ShareAlbum(t) ==
  LET m == sidebar[t].menu
  IN  m.album # NoAlbum /\ m.link = 0 /\ BeginClick(t, "share", m.album, NoAlbum)
UnshareAlbum(t) ==
  LET m == sidebar[t].menu
  IN  m.link # 0 /\ BeginClick(t, "unshare", m.album, NoAlbum)

\* handleUploadComplete: an upload has ended, whatever the page is doing.
RefreshAlbums(t) ==
  /\ sidebar[t].open
  /\ BeginWork(t, [NoWork EXCEPT !.pc = "fetch", !.op = "refresh", !.tab = t])
  /\ UNCHANGED sidebar

\* The overlay goes with whatever ends first.
EndsWork(h) == work' = [work EXCEPT ![h] = NoWork] /\ covered' = covered \ {work[h].tab}

\* An error is shown and thrown again: the form and the dialog stay as they are.
Failed(h) == EndsWork(h) /\ UNCHANGED sidebar

GoesOn(h, pc) == work' = [work EXCEPT ![h].pc = pc] /\ UNCHANGED <<sidebar, covered>>

\* The table is read: an album of that name, or no album of that token.
CheckAlbum(h) ==
  LET c == work[h] IN
  /\ c.pc = "check"
  /\ IF IF c.op = "create" THEN Taken(c.name) ELSE ~There(c.album) THEN Failed(h)
     ELSE GoesOn(h, IF c.op = "share" /\ albums[c.album].link # 0 THEN "fetch" ELSE "write")
  /\ UNCHANGED <<albums, pinning, links, works, refusals>>

\* A change is written; the other handlers are overtaken by it.
Written(h, pc) ==
  /\ work' = [k \in WorkIds |-> IF k = h THEN [work[h] EXCEPT !.pc = pc, !.overtaken = FALSE]
                                 ELSE [work[k] EXCEPT !.overtaken = work[k].pc # "idle"]]
  /\ UNCHANGED <<sidebar, covered>>

\* The unique index refuses a name that was taken meanwhile.
SaveAlbum(h) ==
  LET c == work[h] IN
  /\ c.pc = "write" /\ c.op = "create"
  /\ IF Taken(c.name) THEN Failed(h) /\ UNCHANGED albums
     ELSE \E a \in Albums :
            /\ albums[a].name = NoAlbum /\ \A b \in Albums : b < a => albums[b].name # NoAlbum
            /\ albums' = [albums EXCEPT ![a].name = c.name]
            /\ Written(h, "fetch")
  /\ UNCHANGED <<pinning, links, works, refusals>>

\* setShareStatus; an update of no row is no error.
SetShareStatus(h) ==
  LET c == work[h] IN
  /\ c.pc = "write" /\ c.op \in {"share", "unshare"}
  /\ links' = IF c.op = "share" THEN links + 1 ELSE links
  /\ links' <= MaxLinks
  /\ albums' = IF There(c.album)
               THEN [albums EXCEPT ![c.album].link = IF c.op = "share" THEN links' ELSE 0]
               ELSE albums
  /\ Written(h, IF c.op = "share" THEN "thumbs" ELSE "fetch")
  /\ UNCHANGED <<pinning, works, refusals>>

\* generateThumbnails reads the album again.
Thumbs(h) ==
  /\ work[h].pc = "thumbs"
  /\ IF There(work[h].album) THEN GoesOn(h, "fetch") ELSE Failed(h)
  /\ UNCHANGED <<albums, pinning, links, works, refusals>>

\* The transaction that deletes the files with the album does not look whether it did.
DropAlbum(h) ==
  LET c == work[h] IN
  /\ c.pc = "write" /\ c.op \in Removals
  /\ IF c.op = "delete" /\ ~There(c.album) THEN Failed(h) /\ UNCHANGED albums
     ELSE /\ albums' = [albums EXCEPT ![c.album] = [name |-> Removed, link |-> 0]]
          /\ Written(h, "fetch")
  /\ UNCHANGED <<pinning, links, works, refusals>>

\* getBucketData reads the table,
FetchBucketData(h) ==
  /\ work[h].pc = "fetch"
  /\ work' = [work EXCEPT ![h].pc = "show", ![h].answer = albums]
  /\ UNCHANGED <<albums, sidebar, covered, pinning, links, works, refusals>>

\* and its answer is shown when it comes, in whatever order the answers of a tab come.
SetBucketData(h) ==
  LET t == work[h].tab IN
  /\ work[h].pc = "show"
  /\ sidebar' = IF t = NoTab THEN sidebar
                ELSE [sidebar EXCEPT ![t].view = work[h].answer]
  /\ work' = [k \in WorkIds |->
                IF k = h THEN [work[h] EXCEPT !.pc = "end", !.answer = NoListing]
                ELSE IF work[k].tab = t /\ work[k].pc = "end"
                THEN [work[k] EXCEPT !.overtaken = @ \/ work[h].answer # albums] ELSE work[k]]
  /\ UNCHANGED <<albums, covered, pinning, links, works, refusals>>

\* The request, its answer or the fetch after it is lost.
Lost(h) ==
  /\ work[h].pc \in {"check", "fetch", "show"} /\ Refuses /\ Failed(h)
  /\ UNCHANGED <<albums, pinning, links, works>>

\* The type of the bucket has come, or not, and the handler ends.
End(h) ==
  LET c == work[h] IN
  /\ c.pc = "end" /\ EndsWork(h)
  /\ sidebar' = IF c.tab = NoTab THEN sidebar
                ELSE [sidebar EXCEPT ![c.tab].form  = IF c.op = "create" THEN NoAlbum ELSE @,
                                     ![c.tab].asked = IF c.op \in Removals THEN NoAlbum ELSE @]
  /\ UNCHANGED <<albums, pinning, links, works, refusals>>

Clicks(t) ==
  \/ Mount(t) \/ LeavePage(t) \/ \E n \in Names \cup {NoAlbum} : Type(t, n)
  \/ \E a \in Albums : OpenAlbumMenu(t, a)
  \/ Pin(t) \/ Unpin(t) \/ Ask(t) \/ KeepAlbum(t)
  \/ CreateAlbum(t) \/ ConfirmRemoval(t) \/ ShareAlbum(t) \/ UnshareAlbum(t) \/ RefreshAlbums(t)

Runs(h) ==
  CheckAlbum(h) \/ SaveAlbum(h) \/ SetShareStatus(h) \/ Thumbs(h) \/ DropAlbum(h)
  \/ FetchBucketData(h) \/ SetBucketData(h) \/ Lost(h) \/ End(h)

SidebarNext == (\E t \in Tabs : Clicks(t)) \/ (\E h \in WorkIds : Runs(h))
SidebarSpec == SidebarInit /\ [][SidebarNext]_sidebarVars

-----------------------------------------------------------------------------
(* Properties.                                                              *)

\* When a handler ends well the list of its tab shows what it has done, unless another handler
\* has changed the albums since, or the tab has shown, after its answer, an older one.
Shows(view, c) ==
  CASE c.op = "create" -> \E a \in Albums : view[a].name = c.name
    [] c.op \in Removals -> view[c.album].name = Removed
    [] c.op = "share" -> view[c.album].link # 0
    [] c.op = "unshare" -> view[c.album].link = 0
    [] OTHER -> TRUE
DoneIsShown ==
  \A h \in WorkIds :
    LET c == work[h]
    IN  c.pc = "end" /\ c.tab # NoTab /\ ~c.overtaken => Shows(sidebar[c.tab].view, c)

\* What is stored is what was pinned, in any tab and through any reload, unless a tab
\* wrote what it had read before another wrote, or the browser refused.
PinsSurvive == overwritten \/ stored = pinned

\* An album that was pinned stays so until it is unpinned: violated by two tabs.
PinsKept == refusals = 0 => pinned \subseteq stored

\* The dialog asks whether to delete an album that is there: violated by one tab, whose
\* dialog has deleted it.
AsksOfAlbums ==
  \A t \in Tabs : Ready(t) /\ sidebar[t].asked # NoAlbum => There(sidebar[t].asked)
=============================================================================
