---------------------------- MODULE UploadQueue ----------------------------
(***************************************************************************)
(* The upload dialog of the bucket page: its queue of files, the uploads   *)
(* it runs in batches, and the request that puts what was uploaded into    *)
(* the album the dialog was opened for.  Closing the dialog unmounts the   *)
(* queue; the uploads it started go on and report to nobody but the page.  *)
(*                                                                         *)
(* The server is what the page sees of it: each request is one step.  Its  *)
(* answer comes with it, or is lost.  The queue is a set: in which order   *)
(* the user has filled it, and with it which files come next, is left      *)
(* open.  BucketPage composes this module with the rest of the page.       *)
(***************************************************************************)
EXTENDS Naturals, FiniteSets

CONSTANTS
  Files,          \* what is in the bucket, or may be sent to it
  Albums,         \* album tokens
  None,           \* null
  Absent,         \* of a file: it is not in the bucket
  Limit,          \* maxAlbumSize, which the server enforces too
  MaxConcurrent,  \* MAX_CONCURRENT
  Rejected,       \* the files validateFile finds too large or of a banned type
  Calls,          \* bound: what the page does at once
  MaxFaults       \* bound: refused uploads, failed requests, lost answers, and changes by others

ASSUME QueueAssumption ==
  /\ Files \subseteq Nat \ {0} /\ IsFiniteSet(Files) /\ Rejected \subseteq Files
  /\ None # Absent /\ None \notin Files \cup Albums /\ Absent \notin Albums
  /\ Limit \in Nat /\ MaxConcurrent \in Nat \ {0} /\ MaxFaults \in Nat

VARIABLES
  row,     \* server: of each file, the album it is in, None, or Absent
  albums,  \* server: the albums there are
  dialog,  \* uploadModal: whether it is open, and the album it is for
  status,  \* of each file in uploadFiles, and "none" of the others
  upload,  \* startUpload, for each call that runs it
  faults

server   == <<row, albums>>
uploader == <<dialog, status, upload>>

Statuses == {"none", "pending", "uploading", "completed", "error"}
NoUpload == [pc |-> "idle", todo |-> {}, batch |-> {}, flight |-> {}, good |-> {},
             album |-> None, mounted |-> FALSE]

Empty  == [f \in Files |-> "none"]
Queued == {f \in Files : status[f] # "none"}

QueueTypeOK ==
  /\ row \in [Files -> Albums \cup {None, Absent}] /\ albums \subseteq Albums
  /\ dialog \in [open : BOOLEAN, album : Albums \cup {None}]
  /\ status \in [Files -> Statuses]
  /\ upload \in [Calls -> [pc : {"idle", "batch", "associate"}, todo : SUBSET Files,
                           batch : SUBSET Files, flight : SUBSET Files, good : SUBSET Files,
                           album : Albums \cup {None}, mounted : BOOLEAN]]
  /\ faults \in 0..MaxFaults
  /\ \A f \in Files : row[f] \in albums \cup {None, Absent}

QueueInit ==
  /\ dialog = [open |-> FALSE, album |-> None]
  /\ status = Empty
  /\ upload = [c \in Calls |-> NoUpload]
  /\ faults = 0

Stored == {f \in Files : row[f] # Absent}
InAlbum(a) == {f \in Files : row[f] = a}

Fault == faults < MaxFaults /\ faults' = faults + 1
NoFault == UNCHANGED faults

-----------------------------------------------------------------------------
(* The dialog and its queue.                                                *)

OpenDialog(a) ==
  /\ ~dialog.open
  /\ dialog' = [open |-> TRUE, album |-> a]
  /\ UNCHANGED <<server, status, upload, faults>>

\* The overlay or the cross, which are never disabled.
CloseDialog ==
  /\ dialog.open
  /\ dialog' = [open |-> FALSE, album |-> None]
  /\ status' = Empty
  /\ upload' = [c \in Calls |-> [upload[c] EXCEPT !.mounted = FALSE]]
  /\ UNCHANGED <<server, faults>>

HasRoom_NotQueued(n) == dialog.album = None \/ n + 1 <= Limit

\* Whether one more file may join, when the page counts n files in the album.
HasRoom(n) == dialog.album = None \/ n + Cardinality(Queued) + 1 <= Limit

\* processFiles, file by file.
AddFile(f, n) ==
  /\ dialog.open /\ f \notin Queued
  /\ HasRoom(n)
  /\ status' = [status EXCEPT ![f] = "pending"]
  /\ UNCHANGED <<server, dialog, upload, faults>>

IsUploading == \E c \in Calls : upload[c].pc = "batch" /\ upload[c].mounted

RemoveFile(f) ==
  /\ f \in Queued /\ ~IsUploading
  /\ status' = [status EXCEPT ![f] = "none"]
  /\ UNCHANGED <<server, dialog, upload, faults>>

ClearAll ==
  /\ Queued # {} /\ ~IsUploading
  /\ status' = Empty
  /\ UNCHANGED <<server, dialog, upload, faults>>

-----------------------------------------------------------------------------
(* startUpload                                                              *)

Uploadable_All == Queued \ Rejected

Uploadable == {f \in Queued \ Rejected : status[f] \in {"pending", "error"}}

\* As many of S as a batch takes.
Batches(S) ==
  LET n == Cardinality(S)
  IN  {B \in SUBSET S : Cardinality(B) = IF n < MaxConcurrent THEN n ELSE MaxConcurrent}

\* The next batch of u, whose files show it in the dialog if that is still there.
Launch(c, u, shown) ==
  \E batch \in Batches(u.todo) :
      /\ upload' = [upload EXCEPT ![c] =
                      [u EXCEPT !.todo = @ \ batch, !.batch = batch, !.flight = batch]]
      /\ status' = [f \in Files |-> IF u.mounted /\ f \in batch THEN "uploading" ELSE shown[f]]

StartUpload(c) ==
  /\ dialog.open /\ ~IsUploading /\ Uploadable # {}
  /\ upload[c].pc = "idle"
  /\ Launch(c, [NoUpload EXCEPT !.pc = "batch", !.album = dialog.album, !.mounted = TRUE,
                                !.todo = Uploadable],
            [f \in Files |-> IF f \in Uploadable THEN "pending" ELSE status[f]])
  /\ UNCHANGED <<server, dialog, faults>>

\* One upload is answered.  A file the bucket has already is not stored twice.
Answered(c, f, stored, ok) ==
  /\ f \in upload[c].flight
  /\ row' = IF stored /\ row[f] = Absent THEN [row EXCEPT ![f] = None] ELSE row
  /\ upload' = [upload EXCEPT ![c].flight = @ \ {f},
                              ![c].good = IF ok THEN @ \cup {f} ELSE @]
  /\ UNCHANGED <<albums, dialog, status>>

Accept(c, f) == Answered(c, f, TRUE, TRUE) /\ NoFault
\* The server refuses it, the upload stalls, or its answer is lost.
Fail(c, f) == Fault /\ \E stored \in BOOLEAN : Answered(c, f, stored, FALSE)

Results_OfTheGood(u) ==
  [f \in Files |-> IF u.mounted /\ f \in u.batch \cap u.good THEN "completed" ELSE status[f]]

\* What the dialog shows once the batch of u is over.
Results(u) ==
  [f \in Files |-> IF ~u.mounted \/ f \notin u.batch THEN status[f]
                   ELSE IF f \in u.good THEN "completed" ELSE "error"]

BatchOver(c) == upload[c].pc = "batch" /\ upload[c].flight = {}

NextBatch(c) ==
  /\ BatchOver(c) /\ upload[c].todo # {}
  /\ Launch(c, upload[c], Results(upload[c]))
  /\ UNCHANGED <<server, dialog, faults>>

\* handleUploadComplete: nothing to put into an album, the page is told.
UploadsDone(c) ==
  /\ BatchOver(c) /\ upload[c].todo = {}
  /\ upload[c].album = None \/ upload[c].good = {}
  /\ status' = Results(upload[c])
  /\ upload' = [upload EXCEPT ![c] = NoUpload]
  /\ UNCHANGED <<server, dialog, faults>>

\* handleUploadComplete: the uploaded files are to join the album.
SendAssociate(c) ==
  /\ BatchOver(c) /\ upload[c].todo = {}
  /\ upload[c].album # None /\ upload[c].good # {}
  /\ status' = Results(upload[c])
  /\ upload' = [upload EXCEPT ![c] = [NoUpload EXCEPT !.pc = "associate", !.good = upload[c].good,
                                                      !.album = upload[c].album]]
  /\ UNCHANGED <<server, dialog, faults>>

\* assignFilesToAlbum of the server.
OverLimit(a, F) == a \in albums /\ F \subseteq Stored /\ Cardinality(InAlbum(a) \cup F) > Limit
MayAssign_Gone(a, F) == F \subseteq Stored /\ ~OverLimit(a, F)
MayAssign(a, F) == a \in albums /\ F \subseteq Stored /\ ~OverLimit(a, F)
Assign(a, F) == row' = [f \in Files |-> IF f \in F THEN a ELSE row[f]] /\ UNCHANGED albums

Associating(c) ==
  /\ upload[c].pc = "associate"
  /\ upload' = [upload EXCEPT ![c] = NoUpload]
  /\ UNCHANGED <<dialog, status>>

Associated(c) ==
  /\ Associating(c)
  /\ MayAssign(upload[c].album, upload[c].good)
  /\ Assign(upload[c].album, upload[c].good) /\ NoFault

\* Refused or lost: an error is shown, and the page is told all the same.
NotAssociated(c) ==
  /\ Associating(c)
  /\ \/ ~MayAssign(upload[c].album, upload[c].good) /\ UNCHANGED server /\ NoFault
     \/ Fault /\ UNCHANGED server
     \/ Fault /\ MayAssign(upload[c].album, upload[c].good)
              /\ Assign(upload[c].album, upload[c].good)

=============================================================================
