---------------------------- MODULE BucketPage -----------------------------
(***************************************************************************)
(* The page that manages one bucket: what it shows of the bucket, the      *)
(* album it shows, and the handlers that change the bucket and then fetch  *)
(* it again.  A handler is a call: its change, the read of the bucket at   *)
(* the server, the answer that becomes the view, and what is left of the   *)
(* handler are four steps, and calls interleave.                           *)
(*                                                                         *)
(* The uploads of UploadQueue run beside the calls and end in a fetch.     *)
(* Others (another tab, the API, the cleaner) change the bucket too.       *)
(*                                                                         *)
(* FileBrowser keeps its selection whatever it lists: what is selected is  *)
(* any set of files of the view, listed or not, and Stale stands for the   *)
(* selected ids that are no file's of the view.                            *)
(***************************************************************************)
EXTENDS UploadQueue

CONSTANTS
  Stored0,     \* the files in the bucket at first
  MaxBegun     \* bound: handlers and uploads begun

ASSUME PageAssumption ==
  Stored0 \subseteq Files /\ MaxBegun \in Nat

VARIABLES
  view,           \* bucketData
  loaded,         \* and whether it is there
  selectedAlbum,
  isLoading,      \* the overlay
  call,           \* the handlers under way
  begun,
  seen,           \* history: whether the view has every change the page knows of
  crowded,        \* history: files were refused by an album for its limit
  blurred         \* history: why that may happen

page    == <<view, loaded, selectedAlbum, isLoading>>
history == <<seen, crowded, blurred>>
vars    == <<server, uploader, faults, page, call, begun, history>>

Stale == 0
Snapshot == [row |-> row, albums |-> albums]
NoView == [row |-> [f \in Files |-> Absent], albums |-> {}]
NoCall == [pc |-> "idle", op |-> "none", of |-> {}, album |-> None, at |-> None,
           snap |-> NoView, fresh |-> FALSE]
Fetch  == [NoCall EXCEPT !.pc = "read"]      \* fetchBucketData begins

Removals == {"deleteAlbum", "emptyAlbum"}     \* keeping the files, or with them
Ops == {"none", "delete", "assign", "remove"} \cup Removals
Views == [row : [Files -> Albums \cup {None, Absent}], albums : SUBSET Albums]

TypeOK ==
  /\ QueueTypeOK
  /\ view \in Views /\ loaded \in BOOLEAN /\ isLoading \in BOOLEAN
  /\ selectedAlbum \in Albums \cup {None}
  /\ call \in [Calls -> [pc : {"idle", "change", "read", "answer", "type"}, op : Ops,
                         of : SUBSET (Files \cup {Stale}), album : Albums \cup {None},
                         at : Albums \cup {None}, snap : Views, fresh : BOOLEAN]]
  /\ begun \in 0..MaxBegun
  /\ seen \in {"fresh", "behind", "overtaken", "failed"}
  /\ crowded \in BOOLEAN /\ blurred \in BOOLEAN
  \* a call is a handler or an upload
  /\ \A c \in Calls : call[c].pc = "idle" \/ upload[c].pc = "idle"

Viewed == {f \in Files : view.row[f] # Absent}
\* filteredFiles: what the browser lists.
Listed == {f \in Viewed : selectedAlbum = None \/ view.row[f] = selectedAlbum}

Free(c) == call[c].pc = "idle" /\ upload[c].pc = "idle"
Busy == \E c \in Calls : ~Free(c)
Blur(b) == blurred' = (blurred \/ b)

-----------------------------------------------------------------------------
(* Handlers.                                                                *)

\* handleAlbumSelect.  The buttons of the sidebar are disabled under the overlay.
SelectAlbum(a) ==
  /\ loaded /\ ~isLoading /\ a \in view.albums \cup {None}
  /\ selectedAlbum' = a
  /\ UNCHANGED <<server, uploader, faults, view, loaded, isLoading, call, begun, history>>

\* A handler begins, under the overlay.
Begin(c, op, S, a) ==
  /\ loaded /\ Free(c) /\ begun < MaxBegun
  /\ begun' = begun + 1
  /\ call' = [call EXCEPT ![c] = [NoCall EXCEPT !.pc = "change", !.op = op, !.of = S,
                                                !.album = a, !.at = selectedAlbum]]
  /\ isLoading' = TRUE
  /\ Blur(Busy)
  /\ UNCHANGED <<server, uploader, faults, view, loaded, selectedAlbum, seen, crowded>>

\* handleDeleteFilesConfirm and handleDeleteFiles, for a file or for the selection.
\* The dialog stays until they are deleted: it may be confirmed again.
DeleteFiles(c) ==
  \E S \in SUBSET (Viewed \cup {Stale}) : S # {} /\ Begin(c, "delete", S, None)

\* handleDeleteConfirm
DeleteAlbum(c) ==
  \E op \in Removals, a \in view.albums : Begin(c, op, {}, a)

\* handleFilesDropped: listed files are dragged onto an album of the sidebar.
FilesDropped(c) ==
  /\ ~isLoading /\ ~dialog.open
  /\ \E S \in SUBSET Listed, a \in view.albums : S # {} /\ Begin(c, "assign", S, a)

\* handleRemoveFromAlbum: the selection, as far as the view has it.
RemoveFromAlbum(c) ==
  /\ selectedAlbum # None
  /\ \E S \in SUBSET Viewed : Begin(c, "remove", S, selectedAlbum)

\* When the server refuses a request, and when it serves it.  What it does with
\* ids that are no file's beside others is left open.
Refuses(k) ==
  CASE k.op = "delete"      -> k.of \cap Stored = {} \/ Stale \in k.of
    [] k.op \in Removals    -> k.album \notin albums
    [] k.op = "assign"      -> ~MayAssign(k.album, k.of)
    [] k.op = "remove"      -> k.album \notin albums \/ ~(k.of \subseteq InAlbum(k.album))

Serves(k) == IF k.op = "delete" THEN k.of \cap Stored # {} ELSE ~Refuses(k)

Does(k) ==
  /\ row' = [f \in Files |->
       CASE k.op = "delete" /\ f \in k.of              -> Absent
         [] k.op = "emptyAlbum" /\ row[f] = k.album    -> Absent
         [] k.op = "deleteAlbum" /\ row[f] = k.album   -> None
         [] k.op = "remove" /\ f \in k.of              -> None
         [] k.op = "assign" /\ f \in k.of              -> k.album
         [] OTHER                                      -> row[f]]
  /\ albums' = IF k.op \in Removals THEN albums \ {k.album} ELSE albums

\* The calls of which none has an answer under way with a change that is made now.
Outdated ==
  [d \in Calls |-> IF call[d].pc = "answer" THEN [call[d] EXCEPT !.fresh = FALSE] ELSE call[d]]

AfterChange_Over == [NoCall EXCEPT !.pc = "type"]
AfterChange == Fetch

\* The change is made and answered; fetchBucketData is next.  An album that was
\* deleted is unselected if it was selected when the handler began.
Change(c) ==
  /\ call[c].pc = "change" /\ Serves(call[c])
  /\ Does(call[c])
  /\ call' = [Outdated EXCEPT ![c] = AfterChange]
  /\ seen' = "behind" /\ isLoading' = TRUE
  /\ selectedAlbum' = IF call[c].op \in Removals /\ call[c].at = call[c].album THEN None
                      ELSE selectedAlbum
  /\ UNCHANGED <<uploader, faults, view, loaded, begun, crowded, blurred>>

EndWithError_Covered(c) ==
  /\ call' = [call EXCEPT ![c] = NoCall]
  /\ UNCHANGED <<uploader, page, begun, crowded, blurred>>

\* The handler ends with an error, and the overlay is lifted.
EndWithError(c) ==
  /\ call' = [call EXCEPT ![c] = NoCall]
  /\ isLoading' = FALSE
  /\ UNCHANGED <<uploader, view, loaded, selectedAlbum, begun, crowded, blurred>>

\* The change is refused, or fails, or its answer is lost.
ChangeFails(c) ==
  /\ call[c].pc = "change"
  /\ \/ Refuses(call[c]) /\ UNCHANGED server /\ NoFault
     \/ Fault /\ UNCHANGED server
     \/ Fault /\ Serves(call[c]) /\ Does(call[c])
  /\ EndWithError(c) /\ UNCHANGED seen

-----------------------------------------------------------------------------
(* fetchBucketData                                                          *)

Read(c) ==
  /\ call[c].pc = "read"
  /\ call' = [call EXCEPT ![c].pc = "answer", ![c].snap = Snapshot, ![c].fresh = TRUE]
  /\ UNCHANGED <<server, uploader, faults, page, begun, history>>

\* A selected album that the new view v has not is unselected.
StillSelected_Always(v) == selectedAlbum
StillSelected(v) == IF selectedAlbum \in v.albums THEN selectedAlbum ELSE None

\* The answer is the view, whatever was answered before.
Deliver(c) ==
  /\ call[c].pc = "answer"
  /\ view' = call[c].snap /\ loaded' = TRUE
  /\ selectedAlbum' = StillSelected(call[c].snap)
  /\ seen' = IF call[c].fresh THEN "fresh" ELSE IF seen = "fresh" THEN "overtaken" ELSE seen
  /\ call' = [call EXCEPT ![c] = [NoCall EXCEPT !.pc = "type"]]
  /\ UNCHANGED <<server, uploader, faults, isLoading, begun, crowded, blurred>>

\* getBucketType is answered, or not: the handler is over.
Finish(c) ==
  /\ call[c].pc = "type"
  /\ call' = [call EXCEPT ![c] = NoCall]
  /\ isLoading' = FALSE
  /\ UNCHANGED <<server, uploader, faults, view, loaded, selectedAlbum, begun, history>>

FetchFails(c) ==
  /\ call[c].pc \in {"read", "answer"} /\ Fault
  /\ EndWithError(c)
  /\ seen' = IF seen = "behind" THEN "failed" ELSE seen
  /\ UNCHANGED server

-----------------------------------------------------------------------------
(* The dialog of UploadQueue, on the page.                                  *)

Apart == UNCHANGED <<page, call, begun>>

\* currentAlbumFileCount is how many files the browser lists: those of the album
\* it shows, and of them those that match what is searched for.
Adds(f) ==
  /\ \E n \in 0..Cardinality(Listed) :
       /\ AddFile(f, IF dialog.album = None THEN 0 ELSE n)
       /\ Blur(dialog.album # None /\ (Busy \/ selectedAlbum # dialog.album \/ n < Cardinality(Listed)))
  /\ Apart /\ UNCHANGED <<seen, crowded>>

UseDialog ==
  \/ /\ \/ loaded /\ OpenDialog(selectedAlbum)
        \/ CloseDialog \/ ClearAll
        \/ \E f \in Files : RemoveFile(f)
     /\ Apart /\ UNCHANGED history
  \/ \E f \in Files : Adds(f)

Starts(c) ==
  /\ StartUpload(c) /\ call[c].pc = "idle"
  /\ begun < MaxBegun /\ begun' = begun + 1
  /\ Blur(Busy)
  /\ UNCHANGED <<page, call, seen, crowded>>

\* What was changed, if anything, is a change the page knows of.
Known ==
  IF server' = server THEN UNCHANGED <<seen, call>> ELSE seen' = "behind" /\ call' = Outdated

Uploads(c) ==
  /\ \/ \E f \in Files : Accept(c, f) /\ Known
     \/ \E f \in Files : Fail(c, f) /\ UNCHANGED <<seen, call>>
     \/ (NextBatch(c) \/ SendAssociate(c)) /\ UNCHANGED <<seen, call>>
  /\ UNCHANGED <<page, begun, crowded, blurred>>

\* handleUploadComplete of the page: whatever came of it, the bucket is fetched.
Uploaded(c) ==
  /\ \/ UploadsDone(c) /\ UNCHANGED <<seen, crowded>>
     \/ Associated(c) /\ seen' = "behind" /\ UNCHANGED crowded
     \/ /\ NotAssociated(c)
        /\ crowded' = (crowded \/ OverLimit(upload[c].album, upload[c].good))
        /\ UNCHANGED seen
  /\ call' = [(IF seen' = "behind" THEN Outdated ELSE call) EXCEPT ![c] = Fetch]
  /\ isLoading' = TRUE
  /\ UNCHANGED <<view, loaded, selectedAlbum, begun, blurred>>

-----------------------------------------------------------------------------
\* Somebody else moves or deletes a file, or deletes an album.
Elsewhere ==
  /\ Fault
  /\ \/ \E f \in Stored, p \in albums \cup {None, Absent} :
          row' = [row EXCEPT ![f] = p] /\ UNCHANGED albums
     \/ \E a \in albums :
          /\ albums' = albums \ {a}
          /\ row' = [f \in Files |-> IF row[f] = a THEN None ELSE row[f]]
  /\ UNCHANGED <<uploader, page, call, begun, history>>

\* The page mounts and fetches the bucket; the album comes from LocalStorage.
Init ==
  /\ row \in [Files -> Albums \cup {None, Absent}] /\ Stored = Stored0 /\ albums = Albums
  /\ \A a \in Albums : Cardinality(InAlbum(a)) <= Limit
  /\ QueueInit
  /\ view = NoView /\ loaded = FALSE /\ isLoading = TRUE
  /\ selectedAlbum \in Albums \cup {None}
  /\ \E c \in Calls :
       call = [d \in Calls |-> IF d = c THEN Fetch ELSE NoCall]
  /\ begun = 0
  /\ seen = "behind" /\ crowded = FALSE /\ blurred = FALSE

Handle(c) ==
  DeleteFiles(c) \/ DeleteAlbum(c) \/ FilesDropped(c) \/ RemoveFromAlbum(c) \/ Starts(c)

Continue(c) ==
  \/ Change(c) \/ ChangeFails(c)
  \/ Read(c) \/ Deliver(c) \/ Finish(c) \/ FetchFails(c)
  \/ Uploads(c) \/ Uploaded(c)

Next ==
  \/ \E a \in Albums \cup {None} : SelectAlbum(a)
  \/ UseDialog \/ Elsewhere
  \/ \E c \in Calls : Handle(c) \/ Continue(c)

Spec == Init /\ [][Next]_vars

-----------------------------------------------------------------------------
(* Properties.                                                              *)

\* fetchBucketData after every handler: when nothing is under way the page
\* shows every change it made and was told of, unless an older answer
\* overtook a newer one or a fetch failed; and if nothing else happened, it
\* shows the bucket.
ShowsItsChanges ==
  ~Busy => /\ seen # "behind"
           /\ seen = "fresh" /\ faults = 0 => view = Snapshot

\* The album that is shown, and that files are uploaded to, is one of the
\* view's, whatever was stored in the browser and deleted meanwhile.
ShownAlbumIsThere == loaded /\ selectedAlbum # None => selectedAlbum \in view.albums

\* The dialog counts what the album may still take (processFiles).  The server
\* refuses what it uploaded only if the count was blurred: a search or another
\* album on the page, calls beside each other, a fault, or somebody else.
RefusalsExplained == crowded => blurred \/ faults > 0

\* A file shows as uploading exactly when one batch of this dialog has it: no
\* second upload of it runs, and none is over without the dialog knowing.
StatusFollowsUploads ==
  \A f \in Files :
    status[f] = "uploading" <=>
      Cardinality({c \in Calls : upload[c].pc = "batch" /\ upload[c].mounted
                                 /\ f \in upload[c].batch}) = 1

\* A file that was uploaded is never sent again by the same dialog (startUpload).
NeverSentTwice ==
  [][\A f \in Files : status[f] = "completed" => status'[f] \in {"completed", "none"}]_vars

\* withLoading and fetchBucketData: whatever succeeds, fails or overlaps, the
\* overlay is lifted once nothing is under way.
OverlayLifts == ~Busy => ~isLoading

\* Of the page at any time: its album is there, a refusal has a reason, and the overlay is
\* lifted again.
PageInv == TypeOK /\ ShownAlbumIsThere /\ RefusalsExplained /\ OverlayLifts
=============================================================================
