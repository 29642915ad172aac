-------------------------- MODULE BucketPageProofs --------------------------
(***************************************************************************)
(* The safety properties of the bucket page and its dialog, for any files, *)
(* albums, limit, size of a batch, calls and faults.                       *)
(*                                                                         *)
(* Three arguments share the types: what the dialog shows of its uploads   *)
(* (UploadsInv), that every change the page knows of is fetched            *)
(* (FetchInv), and that the dialog counts right while nothing blurs the    *)
(* count (QuietInv).                                                       *)
(*                                                                         *)
(* Then those of BucketAccess, for any tabs and buckets: the types in      *)
(* parts, of the server, of the pages and of the handlers; and, as long as *)
(* one handler at a time is under way and nothing fails, that what it has  *)
(* read of the session is still so (CalmFits).                             *)
(* With one tab, an empty page follows the one handler that can make it.   *)
(*                                                                         *)
(* Last, the captcha of LoginForm, whose argument is whose a token is, and *)
(* the loads of FilePreview; Visitor puts the three together.              *)
(***************************************************************************)
EXTENDS BucketPage, Visitor, FiniteSetTheorems, TLAPS

\* What the dialog shows of the uploads it runs: of one at a time, its batch is uploading and the
\* rest of its files are waiting.  A dialog that is closed has no files and no album.
UploadsInv ==
  /\ \A c \in Calls :
       /\ upload[c].mounted =>
            /\ upload[c].pc = "batch" /\ dialog.open
            /\ upload[c].todo \cap upload[c].batch = {}
            /\ \A f \in upload[c].todo : status[f] = "pending"
            /\ \A f \in upload[c].batch : status[f] = "uploading"
       /\ upload[c].flight \subseteq upload[c].batch
       /\ upload[c].pc = "batch" \/ upload[c].batch = {}
  /\ \A c, d \in Calls : upload[c].mounted /\ upload[d].mounted => c = d
  /\ \A f \in Files : status[f] = "uploading" => \E c \in Calls : upload[c].mounted /\ f \in upload[c].batch
  /\ dialog.open \/ (status = Empty /\ dialog.album = None)

\* A view that is behind will be fetched; what was read last is so, while only the page changes
\* the bucket.
WillFetch(c) ==
  upload[c].pc # "idle" \/ call[c].pc = "read" \/ (call[c].pc = "answer" /\ call[c].fresh)

FetchInv ==
  /\ seen = "behind" => \E c \in Calls : WillFetch(c)
  /\ faults = 0 =>
       /\ \A c \in Calls : call[c].pc = "answer" /\ call[c].fresh => call[c].snap = Snapshot
       /\ seen = "fresh" => view = Snapshot

\* While nothing blurs the count, one call at a time is under way, and what the dialog has counted
\* fits into the album.
Quiet == ~blurred /\ faults = 0
Fits(a, S) == Cardinality(InAlbum(a) \cup S) <= Limit
Sent(c) == upload[c].todo \cup upload[c].batch \cup upload[c].good
Sending(c) == upload[c].pc # "idle" /\ upload[c].album # None

CountInv ==
  /\ \A a \in Albums : Fits(a, {})
  /\ dialog.album # None => Fits(dialog.album, Queued)
  /\ \A c \in Calls : Sending(c) =>
       /\ Fits(upload[c].album, Sent(c))
       /\ dialog.album = upload[c].album => Fits(upload[c].album, Sent(c) \cup Queued)

QuietInv ==
  /\ ~crowded
  /\ \A c, d \in Calls : ~Free(c) /\ ~Free(d) => c = d
  /\ seen \in {"fresh", "behind"} /\ \A c \in Calls : call[c].pc = "answer" => call[c].fresh
  /\ \A c \in Calls : call[c].pc = "change" /\ call[c].op = "assign" =>
       Queued = {} \/ dialog.album = None
  /\ CountInv

BucketInv ==
  /\ TypeOK /\ UploadsInv /\ FetchInv /\ ShownAlbumIsThere /\ OverlayLifts
  /\ Quiet => QuietInv

-----------------------------------------------------------------------------
(* Types.                                                                   *)

UploadRecords ==
  [pc : {"idle", "batch", "associate"}, todo : SUBSET Files, batch : SUBSET Files,
   flight : SUBSET Files, good : SUBSET Files, album : Albums \cup {None}, mounted : BOOLEAN]

CallRecords ==
  [pc : {"idle", "change", "read", "answer", "type"}, op : Ops, of : SUBSET (Files \cup {Stale}),
   album : Albums \cup {None}, at : Albums \cup {None}, snap : Views, fresh : BOOLEAN]

ServerTypes ==
  /\ row \in [Files -> Albums \cup {None, Absent}] /\ albums \subseteq Albums
  /\ \A f \in Files : row[f] \in albums \cup {None, Absent}

DialogTypes ==
  dialog \in [open : BOOLEAN, album : Albums \cup {None}] /\ status \in [Files -> Statuses]

UploadTypes == upload \in [Calls -> UploadRecords]

PageTypes ==
  /\ view \in Views /\ loaded \in BOOLEAN /\ isLoading \in BOOLEAN
  /\ selectedAlbum \in Albums \cup {None}

CallTypes == call \in [Calls -> CallRecords]

CountTypes ==
  /\ begun \in 0..MaxBegun /\ faults \in 0..MaxFaults
  /\ seen \in {"fresh", "behind", "overtaken", "failed"}
  /\ crowded \in BOOLEAN /\ blurred \in BOOLEAN

Exclusive == \A c \in Calls : call[c].pc = "idle" \/ upload[c].pc = "idle"

AllTypes ==
  /\ ServerTypes /\ DialogTypes /\ UploadTypes /\ PageTypes /\ CallTypes /\ CountTypes
  /\ Exclusive

LEMMA TypesAre == (TypeOK <=> AllTypes) /\ (TypeOK' <=> AllTypes')
BY DEF TypeOK, QueueTypeOK, AllTypes, ServerTypes, DialogTypes, UploadTypes, PageTypes, CallTypes,
       CountTypes, Exclusive, UploadRecords, CallRecords

LEMMA Records ==
  /\ NoUpload \in UploadRecords
  /\ NoView \in Views /\ NoCall \in CallRecords /\ Fetch \in CallRecords
BY QueueAssumption DEF NoUpload, UploadRecords, NoView, Views, NoCall, CallRecords, Fetch, Ops, Stale

LEMMA FaultCounts ==
  ASSUME faults \in 0..MaxFaults, Fault \/ NoFault
  PROVE  faults' \in 0..MaxFaults
BY QueueAssumption DEF Fault, NoFault

\* The server after what a call asks for, and after an assignment.
LEMMA DoesTypes ==
  ASSUME ServerTypes, NEW k \in CallRecords, Serves(k), Does(k)
  PROVE  ServerTypes'
<1> USE DEF ServerTypes, Does
<1>1. row' \in [Files -> Albums \cup {None, Absent}] /\ albums' \subseteq Albums
  BY DEF CallRecords
<1>2. ASSUME NEW f \in Files
      PROVE  row'[f] \in albums' \cup {None, Absent}
  <2>1. CASE k.op \in Removals
    BY <2>1 DEF Removals
  <2>2. CASE k.op \notin Removals
    <3>1. k.op = "assign" => k.album \in albums
      BY DEF Serves, Refuses, MayAssign, Removals
    <3>2. QED
      BY <2>2, <3>1 DEF Removals
  <2>3. QED
    BY <2>1, <2>2
<1>3. QED
  BY <1>1, <1>2

LEMMA AssignTypes ==
  ASSUME ServerTypes, NEW a \in albums, NEW F, Assign(a, F)
  PROVE  ServerTypes'
BY DEF ServerTypes, Assign

\* The next batch, and what the dialog shows of it.
LEMMA LaunchTypes ==
  ASSUME UploadTypes, NEW c \in Calls, NEW u \in UploadRecords, u.pc = "batch",
         NEW display \in [Files -> Statuses], Launch(c, u, display)
  PROVE  /\ UploadTypes' /\ status' \in [Files -> Statuses]
         /\ upload'[c].pc = "batch" /\ \A d \in Calls \ {c} : upload'[d] = upload[d]
<1>1. PICK batch \in Batches(u.todo) :
        /\ upload' = [upload EXCEPT ![c] =
                        [u EXCEPT !.todo = @ \ batch, !.batch = batch, !.flight = batch]]
        /\ status' = [f \in Files |-> IF u.mounted /\ f \in batch THEN "uploading" ELSE display[f]]
  BY DEF Launch
<1>2. batch \subseteq u.todo /\ u.todo \subseteq Files
  BY DEF Batches, UploadRecords
<1>3. [u EXCEPT !.todo = @ \ batch, !.batch = batch, !.flight = batch] \in UploadRecords
  BY <1>2 DEF UploadRecords
<1>4. QED
  BY <1>1, <1>3 DEF UploadTypes, Statuses, UploadRecords

LEMMA ResultsTypes ==
  ASSUME DialogTypes, NEW u
  PROVE  Results(u) \in [Files -> Statuses]
BY DEF DialogTypes, Results, Statuses

\* Steps that only the dialog and the page take.
LEMMA DialogTypesKept ==
  ASSUME AllTypes, UseDialog \/ \E a \in Albums \cup {None} : SelectAlbum(a)
  PROVE  AllTypes'
<1> USE DEF AllTypes, server, uploader, page, history, Apart
<1>1. CASE \E a \in Albums \cup {None} : SelectAlbum(a)
  BY <1>1 DEF SelectAlbum, ServerTypes, DialogTypes, UploadTypes, PageTypes, CallTypes, CountTypes,
              Exclusive
<1>2. CASE loaded /\ OpenDialog(selectedAlbum) /\ Apart /\ UNCHANGED history
  BY <1>2 DEF OpenDialog, ServerTypes, DialogTypes, UploadTypes, PageTypes, CallTypes, CountTypes,
              Exclusive
<1>3. CASE CloseDialog /\ Apart /\ UNCHANGED history
  <2> USE <1>3 DEF CloseDialog
  <2>1. DialogTypes'
    BY DEF DialogTypes, Empty, Statuses
  <2>2. ASSUME NEW c \in Calls
        PROVE  [upload[c] EXCEPT !.mounted = FALSE] \in UploadRecords
    BY DEF UploadTypes, UploadRecords
  <2>3. UploadTypes'
    BY <2>2 DEF UploadTypes
  <2>4. Exclusive'
    BY DEF Exclusive, UploadTypes, UploadRecords
  <2>5. QED
    BY <2>1, <2>3, <2>4 DEF ServerTypes, PageTypes, CallTypes, CountTypes
<1>4. CASE (ClearAll \/ \E f \in Files : RemoveFile(f)) /\ Apart /\ UNCHANGED history
  <2>1. DialogTypes'
    BY <1>4 DEF ClearAll, RemoveFile, DialogTypes, Empty, Statuses
  <2>2. QED
    BY <1>4, <2>1 DEF ClearAll, RemoveFile, ServerTypes, UploadTypes, PageTypes, CallTypes, CountTypes,
                      Exclusive
<1>5. CASE \E f \in Files : Adds(f)
  <2>1. PICK f \in Files : Adds(f)
    BY <1>5
  <2>2. DialogTypes' /\ UNCHANGED <<server, upload, faults>>
    BY <2>1 DEF Adds, AddFile, DialogTypes, Statuses
  <2>3. CountTypes'
    BY <2>1, <2>2 DEF Adds, Blur, CountTypes
  <2>4. QED
    BY <2>1, <2>2, <2>3 DEF Adds, ServerTypes, UploadTypes, PageTypes, CallTypes, Exclusive
<1>6. QED
  BY <1>1, <1>2, <1>3, <1>4, <1>5 DEF UseDialog

\* Every handler begins as Begin has it, with what it is asked to change.
LEMMA HandlersBegin ==
  ASSUME PageTypes, NEW c \in Calls,
         DeleteFiles(c) \/ DeleteAlbum(c) \/ FilesDropped(c) \/ RemoveFromAlbum(c)
  PROVE  \E op \in Ops, S \in SUBSET (Files \cup {Stale}), a \in Albums \cup {None} :
           Begin(c, op, S, a) /\ (op = "assign" => ~dialog.open)
BY DEF PageTypes, Views, DeleteFiles, DeleteAlbum, FilesDropped, RemoveFromAlbum, Ops, Removals, Viewed,
       Listed

LEMMA BeginTypesKept ==
  ASSUME AllTypes, NEW c \in Calls, NEW op \in Ops, NEW S \in SUBSET (Files \cup {Stale}),
         NEW a \in Albums \cup {None}, Begin(c, op, S, a)
  PROVE  AllTypes'
<1> USE DEF AllTypes, Begin, server, uploader
<1> DEFINE k == [NoCall EXCEPT !.pc = "change", !.op = op, !.of = S, !.album = a, !.at = selectedAlbum]
<1>1. k \in CallRecords
  BY Records DEF CallRecords, NoCall, PageTypes
<1>2. CallTypes'
  BY <1>1 DEF CallTypes
<1>3. Exclusive'
  BY DEF Exclusive, Free, CallTypes
<1>4. CountTypes'
  BY PageAssumption DEF CountTypes, Blur
<1>5. QED
  BY <1>2, <1>3, <1>4 DEF ServerTypes, DialogTypes, UploadTypes, PageTypes

\* Calls that go on, and those of which the answers are outdated.
LEMMA OutdatedTypes ==
  ASSUME CallTypes
  PROVE  /\ Outdated \in [Calls -> CallRecords]
         /\ \A c \in Calls : Outdated[c].pc = call[c].pc
BY DEF CallTypes, Outdated, CallRecords

LEMMA CallTypesKept ==
  ASSUME AllTypes, NEW c \in Calls,
         Change(c) \/ ChangeFails(c) \/ Read(c) \/ Deliver(c) \/ Finish(c) \/ FetchFails(c)
  PROVE  AllTypes'
<1> USE DEF AllTypes, server, uploader, page, history
<1>0. call[c] \in CallRecords
  BY DEF CallTypes
<1>1. CASE Change(c)
  <2> USE <1>1 DEF Change, AfterChange
  <2>1. ServerTypes'
    BY <1>0, DoesTypes
  <2>2. CallTypes'
    BY Records, OutdatedTypes DEF CallTypes
  <2>3. Exclusive'
    BY OutdatedTypes DEF Exclusive, CallTypes
  <2>4. PageTypes'
    BY DEF PageTypes
  <2>5. QED
    BY <2>1, <2>2, <2>3, <2>4 DEF DialogTypes, UploadTypes, CountTypes
<1>2. CASE ChangeFails(c)
  <2> USE <1>2 DEF ChangeFails, EndWithError
  <2>1. ServerTypes'
    <3>1. CASE UNCHANGED server
      BY <3>1 DEF ServerTypes
    <3>2. CASE Serves(call[c]) /\ Does(call[c])
      BY <1>0, <3>2, DoesTypes
    <3>3. QED
      BY <3>1, <3>2
  <2>2. CallTypes' /\ Exclusive'
    BY Records DEF CallTypes, Exclusive, NoCall
  <2>3. CountTypes'
    BY FaultCounts DEF CountTypes
  <2>4. QED
    BY <2>1, <2>2, <2>3 DEF DialogTypes, UploadTypes, PageTypes
<1>3. CASE Read(c)
  <2>1. Snapshot \in Views
    BY DEF Snapshot, Views, ServerTypes
  <2>2. [call[c] EXCEPT !.pc = "answer", !.snap = Snapshot, !.fresh = TRUE] \in CallRecords
    BY <1>0, <2>1 DEF CallRecords
  <2>3. call' = [call EXCEPT ![c] = [call[c] EXCEPT !.pc = "answer", !.snap = Snapshot, !.fresh = TRUE]]
    BY <1>3, <1>0 DEF Read, CallTypes, CallRecords
  <2>4. CallTypes' /\ Exclusive'
    BY <1>3, <2>2, <2>3 DEF Read, CallTypes, Exclusive
  <2>5. QED
    BY <1>3, <2>4 DEF Read, ServerTypes, DialogTypes, UploadTypes, PageTypes, CountTypes
<1>4. CASE Deliver(c)
  <2> USE <1>4 DEF Deliver
  <2>1. call[c].snap \in Views /\ [NoCall EXCEPT !.pc = "type"] \in CallRecords
    BY <1>0, Records DEF CallRecords, NoCall
  <2>2. CallTypes' /\ Exclusive'
    BY <2>1 DEF CallTypes, Exclusive
  <2>3. PageTypes'
    BY <2>1 DEF PageTypes, StillSelected
  <2>4. CountTypes'
    BY DEF CountTypes
  <2>5. QED
    BY <2>2, <2>3, <2>4 DEF ServerTypes, DialogTypes, UploadTypes
<1>5. CASE Finish(c)
  BY <1>5, Records DEF Finish, CallTypes, Exclusive, NoCall, ServerTypes, DialogTypes, UploadTypes,
                       PageTypes, CountTypes
<1>6. CASE FetchFails(c)
  <2> USE <1>6 DEF FetchFails, EndWithError
  <2>1. CallTypes' /\ Exclusive'
    BY Records DEF CallTypes, Exclusive, NoCall
  <2>2. CountTypes'
    BY FaultCounts DEF CountTypes
  <2>3. QED
    BY <2>1, <2>2 DEF ServerTypes, DialogTypes, UploadTypes, PageTypes
<1>7. QED
  BY <1>1, <1>2, <1>3, <1>4, <1>5, <1>6

\* The server after an upload is answered, and after the files are assigned.
LEMMA AnsweredTypes ==
  ASSUME ServerTypes, UploadTypes, NEW c \in Calls, NEW f \in Files, NEW inside, NEW ok,
         Answered(c, f, inside, ok)
  PROVE  ServerTypes' /\ UploadTypes'
<1> USE DEF Answered
<1>1. ServerTypes'
  BY DEF ServerTypes
<1>2. upload[c] \in UploadRecords /\ f \in upload[c].flight
  BY DEF UploadTypes
<1>3. [upload[c] EXCEPT !.flight = @ \ {f}, !.good = IF ok THEN @ \cup {f} ELSE @] \in UploadRecords
  BY <1>2 DEF UploadRecords
<1>4. upload' = [upload EXCEPT ![c] =
                   [upload[c] EXCEPT !.flight = @ \ {f}, !.good = IF ok THEN @ \cup {f} ELSE @]]
  BY <1>2 DEF UploadTypes, UploadRecords
<1>5. QED
  BY <1>1, <1>3, <1>4 DEF UploadTypes

LEMMA AssociateTypes ==
  ASSUME ServerTypes, UploadTypes, NEW c \in Calls, Associated(c) \/ NotAssociated(c)
  PROVE  ServerTypes' /\ UploadTypes' /\ upload' = [upload EXCEPT ![c] = NoUpload]
         /\ UNCHANGED <<dialog, status>>
<1> USE DEF Associated, NotAssociated, Associating, MayAssign
<1>1. upload' = [upload EXCEPT ![c] = NoUpload] /\ UNCHANGED <<dialog, status>>
  OBVIOUS
<1>2. ServerTypes'
  <2>1. CASE UNCHANGED server
    BY <2>1 DEF server, ServerTypes
  <2>2. CASE upload[c].album \in albums /\ Assign(upload[c].album, upload[c].good)
    BY <2>2, AssignTypes
  <2>3. QED
    BY <2>1, <2>2
<1>3. QED
  BY <1>1, <1>2, Records DEF UploadTypes

\* What the calls are after a step of an upload that the page may know of.
LEMMA KnownTypes ==
  ASSUME CallTypes, Known \/ UNCHANGED <<seen, call>>
  PROVE  /\ CallTypes' /\ \A d \in Calls : call'[d].pc = call[d].pc
         /\ (call' = call \/ call' = Outdated) /\ (seen' = seen \/ seen' = "behind")
BY OutdatedTypes DEF Known, CallTypes

LEMMA UploadTypesKept ==
  ASSUME AllTypes, NEW c \in Calls, Starts(c) \/ Uploads(c) \/ Uploaded(c)
  PROVE  AllTypes'
<1> USE DEF AllTypes, server, page, history
<1>0. upload[c] \in UploadRecords
  BY DEF UploadTypes
<1>1. CASE Starts(c)
  <2> USE <1>1 DEF Starts, StartUpload
  <2> DEFINE u == [NoUpload EXCEPT !.pc = "batch", !.album = dialog.album, !.mounted = TRUE,
                                   !.todo = Uploadable]
             display == [f \in Files |-> IF f \in Uploadable THEN "pending" ELSE status[f]]
  <2>1. u \in UploadRecords /\ u.pc = "batch"
    BY Records DEF UploadRecords, NoUpload, DialogTypes, Uploadable, Queued
  <2>2. display \in [Files -> Statuses]
    BY DEF DialogTypes, Statuses
  <2>3. Launch(c, u, display)
    OBVIOUS
  <2>4. UploadTypes' /\ DialogTypes' /\ upload'[c].pc = "batch"
       /\ \A d \in Calls \ {c} : upload'[d] = upload[d]
    BY <2>1, <2>2, <2>3, LaunchTypes DEF DialogTypes
  <2>5. CountTypes'
    BY PageAssumption DEF CountTypes, Blur
  <2>6. Exclusive'
    BY <2>4 DEF Exclusive
  <2>7. QED
    BY <2>4, <2>5, <2>6 DEF ServerTypes, PageTypes, CallTypes
<1>2. ASSUME NEW f \in Files, Uploads(c), Accept(c, f) \/ Fail(c, f), Known \/ UNCHANGED <<seen, call>>
      PROVE  AllTypes'
  <2>1. \E inside \in BOOLEAN, ok \in BOOLEAN : Answered(c, f, inside, ok)
    BY <1>2 DEF Accept, Fail
  <2>2. ServerTypes' /\ UploadTypes'
    BY <2>1, AnsweredTypes
  <2>4. \A d \in Calls : upload'[d].pc = upload[d].pc
    BY <2>1 DEF Answered, UploadTypes, UploadRecords
  <2>5. CallTypes' /\ Exclusive'
    BY <1>2, <2>4, KnownTypes DEF Exclusive
  <2>6. CountTypes'
    BY <1>2, KnownTypes, FaultCounts DEF CountTypes, Uploads, Accept, Fail
  <2>7. DialogTypes'
    BY <2>1 DEF Answered, DialogTypes
  <2>8. QED
    BY <1>2, <2>2, <2>5, <2>6, <2>7 DEF Uploads, PageTypes
<1>3. CASE NextBatch(c) /\ Uploads(c) /\ UNCHANGED <<seen, call>>
  <2> USE <1>3 DEF NextBatch, BatchOver
  <2>1. Results(upload[c]) \in [Files -> Statuses]
    BY ResultsTypes
  <2>2. UploadTypes' /\ DialogTypes' /\ upload'[c].pc = "batch"
       /\ \A d \in Calls \ {c} : upload'[d] = upload[d]
    BY <1>0, <2>1, LaunchTypes DEF DialogTypes
  <2>3. Exclusive'
    BY <2>2 DEF Exclusive
  <2>4. QED
    BY <2>2, <2>3 DEF Uploads, ServerTypes, PageTypes, CallTypes, CountTypes
<1>4. CASE SendAssociate(c) /\ Uploads(c) /\ UNCHANGED <<seen, call>>
  <2> USE <1>4 DEF SendAssociate, BatchOver
  <2>1. DialogTypes'
    BY ResultsTypes DEF DialogTypes
  <2>2. [NoUpload EXCEPT !.pc = "associate", !.good = upload[c].good, !.album = upload[c].album]
          \in UploadRecords
    BY <1>0, Records DEF UploadRecords, NoUpload
  <2>3. UploadTypes' /\ Exclusive'
    BY <2>2 DEF UploadTypes, Exclusive
  <2>4. QED
    BY <2>1, <2>3 DEF Uploads, ServerTypes, PageTypes, CallTypes, CountTypes
<1>5. CASE Uploaded(c)
  <2> USE <1>5 DEF Uploaded
  <2>1. ServerTypes' /\ UploadTypes' /\ upload' = [upload EXCEPT ![c] = NoUpload] /\ DialogTypes'
    <3>1. CASE UploadsDone(c)
      BY <3>1, Records, ResultsTypes DEF UploadsDone, ServerTypes, UploadTypes, DialogTypes
    <3>2. CASE Associated(c) \/ NotAssociated(c)
      BY <3>2, AssociateTypes DEF DialogTypes
    <3>3. QED
      BY <3>1, <3>2
  <2>2. CallTypes'
    BY Records, OutdatedTypes DEF CallTypes
  <2>3. \A d \in Calls \ {c} : call'[d].pc = call[d].pc
    BY OutdatedTypes DEF CallTypes
  <2>4. Exclusive'
    BY <2>1, <2>3 DEF Exclusive, UploadTypes, NoUpload
  <2>5. faults' \in 0..MaxFaults
    BY FaultCounts DEF UploadsDone, Associated, NotAssociated, CountTypes, NoFault
  <2>6. CountTypes'
    BY <2>5 DEF CountTypes
  <2>7. PageTypes'
    BY DEF PageTypes
  <2>8. QED
    BY <2>1, <2>2, <2>4, <2>6, <2>7
<1>6. QED
  BY <1>1, <1>2, <1>3, <1>4, <1>5 DEF Uploads

LEMMA ElsewhereTypesKept ==
  ASSUME AllTypes, Elsewhere
  PROVE  AllTypes'
<1> USE DEF AllTypes, Elsewhere, uploader, page, history
<1>1. ServerTypes'
  BY DEF ServerTypes, Stored
<1>2. CountTypes'
  BY FaultCounts DEF CountTypes
<1>3. QED
  BY <1>1, <1>2 DEF DialogTypes, UploadTypes, PageTypes, CallTypes, Exclusive

LEMMA TypesKept ==
  ASSUME AllTypes, [Next]_vars
  PROVE  AllTypes'
<1>1. ASSUME NEW c \in Calls, Handle(c), ~Starts(c)
      PROVE  AllTypes'
  BY <1>1, HandlersBegin, BeginTypesKept DEF Handle, AllTypes
<1>2. CASE UNCHANGED vars
  BY <1>2 DEF vars, server, uploader, page, history, AllTypes, ServerTypes, DialogTypes, UploadTypes,
              PageTypes, CallTypes, CountTypes, Exclusive
<1>3. QED
  BY <1>1, <1>2, DialogTypesKept, CallTypesKept, UploadTypesKept, ElsewhereTypesKept
  DEF Next, Handle, Continue

-----------------------------------------------------------------------------
(* What the dialog shows.                                                   *)

LEMMA DialogShows ==
  ASSUME AllTypes, UploadsInv, UseDialog
  PROVE  UploadsInv'
<1> USE DEF AllTypes, UploadTypes, UploadRecords, DialogTypes, UploadsInv
<1>1. CASE OpenDialog(selectedAlbum)
  BY <1>1 DEF OpenDialog
<1>2. CASE CloseDialog
  <2>1. /\ dialog' = [open |-> FALSE, album |-> None] /\ status' = Empty
        /\ \A c \in Calls : upload'[c] = [upload[c] EXCEPT !.mounted = FALSE]
    BY <1>2 DEF CloseDialog
  <2>2. \A c \in Calls : /\ ~upload'[c].mounted /\ upload'[c].flight = upload[c].flight
                         /\ upload'[c].batch = upload[c].batch /\ upload'[c].pc = upload[c].pc
    <3>1. SUFFICES ASSUME NEW c \in Calls
                   PROVE  /\ ~upload'[c].mounted /\ upload'[c].flight = upload[c].flight
                          /\ upload'[c].batch = upload[c].batch /\ upload'[c].pc = upload[c].pc
      OBVIOUS
    <3>2. upload[c] \in UploadRecords /\ upload'[c] = [upload[c] EXCEPT !.mounted = FALSE]
      BY <2>1
    <3> QED
      BY <3>2
  <2>3. \A f \in Files : status'[f] # "uploading"
    BY <2>1 DEF Empty
  <2> QED
    BY <2>1, <2>2, <2>3 DEF Empty
<1>3. CASE ClearAll
  BY <1>3 DEF ClearAll, IsUploading, Empty, Queued
<1>4. ASSUME NEW f \in Files, RemoveFile(f)
      PROVE  UploadsInv'
  BY <1>4 DEF RemoveFile, IsUploading, Empty, Queued
<1>5. ASSUME NEW f \in Files, Adds(f)
      PROVE  UploadsInv'
  BY <1>5 DEF Adds, AddFile, Queued
<1>6. QED
  BY <1>1, <1>2, <1>3, <1>4, <1>5 DEF UseDialog

\* The first batch of an upload, and the next one: what is launched.
LEMMA Starting ==
  ASSUME AllTypes, NEW c \in Calls, StartUpload(c)
  PROVE  /\ dialog.open /\ dialog' = dialog /\ UNCHANGED server
         /\ \A d \in Calls \ {c} : upload'[d] = upload[d]
         /\ Uploadable \subseteq Queued /\ Queued \subseteq Files
         /\ \E B \in SUBSET Uploadable :
              /\ upload'[c].mounted /\ upload'[c].pc = "batch" /\ upload'[c].todo = Uploadable \ B
              /\ upload'[c].batch = B /\ upload'[c].flight = B
              /\ upload'[c].good = {} /\ upload'[c].album = dialog.album
              /\ \A f \in Files :
                   status'[f] = IF f \in B THEN "uploading"
                                ELSE IF f \in Uploadable THEN "pending" ELSE status[f]
<1> USE DEF AllTypes, UploadTypes, StartUpload
<1> DEFINE u == [NoUpload EXCEPT !.pc = "batch", !.album = dialog.album, !.mounted = TRUE,
                                 !.todo = Uploadable]
           display == [f \in Files |-> IF f \in Uploadable THEN "pending" ELSE status[f]]
<1>1. /\ u.mounted = TRUE /\ u.pc = "batch" /\ u.todo = Uploadable /\ u.good = {} /\ u.album = dialog.album
      /\ DOMAIN u = {"pc", "todo", "batch", "flight", "good", "album", "mounted"}
  BY DEF NoUpload
<1> HIDE DEF u
<1>2. PICK B \in Batches(Uploadable) :
        /\ upload' = [upload EXCEPT ![c] =
                        [u EXCEPT !.todo = @ \ B, !.batch = B, !.flight = B]]
        /\ status' = [f \in Files |-> IF u.mounted /\ f \in B THEN "uploading" ELSE display[f]]
  BY <1>1 DEF Launch, u
<1>3. B \in SUBSET Uploadable /\ Uploadable \subseteq Queued /\ Queued \subseteq Files
  BY DEF Batches, Uploadable, Queued
<1>4. /\ upload'[c].mounted /\ upload'[c].pc = "batch" /\ upload'[c].todo = Uploadable \ B
      /\ upload'[c].batch = B /\ upload'[c].flight = B
      /\ upload'[c].good = {} /\ upload'[c].album = dialog.album
  BY <1>1, <1>2
<1>5. \A f \in Files : status'[f] = IF f \in B THEN "uploading"
                                    ELSE IF f \in Uploadable THEN "pending" ELSE status[f]
  BY <1>1, <1>2
<1>6. \A d \in Calls \ {c} : upload'[d] = upload[d]
  BY <1>2
<1>7. QED
  BY <1>3, <1>4, <1>5, <1>6

LEMMA Continuing ==
  ASSUME AllTypes, NEW c \in Calls, NextBatch(c)
  PROVE  /\ dialog' = dialog /\ UNCHANGED server
         /\ \A d \in Calls \ {c} : upload'[d] = upload[d]
         /\ \E B \in SUBSET upload[c].todo :
              /\ upload'[c].mounted = upload[c].mounted /\ upload'[c].pc = "batch"
              /\ upload'[c].todo = upload[c].todo \ B /\ upload'[c].batch = B /\ upload'[c].flight = B
              /\ upload'[c].good = upload[c].good /\ upload'[c].album = upload[c].album
              /\ status' \in [Files -> Statuses]
              /\ \A f \in Files : status'[f] = IF upload[c].mounted /\ f \in B THEN "uploading"
                                               ELSE Results(upload[c])[f]
<1> USE DEF AllTypes, UploadTypes, UploadRecords, DialogTypes, NextBatch, BatchOver
<1>1. PICK B \in Batches(upload[c].todo) :
        /\ upload' = [upload EXCEPT ![c] =
             [upload[c] EXCEPT !.todo = @ \ B, !.batch = B, !.flight = B]]
        /\ status' = [f \in Files |-> IF upload[c].mounted /\ f \in B THEN "uploading"
                                      ELSE Results(upload[c])[f]]
  BY DEF Launch
<1>2. B \in SUBSET upload[c].todo
  BY DEF Batches
<1>3. status' \in [Files -> Statuses]
  BY ResultsTypes, LaunchTypes
<1>4. QED
  BY <1>1, <1>2, <1>3

LEMMA StartShows ==
  ASSUME AllTypes, UploadsInv, NEW c \in Calls, StartUpload(c)
  PROVE  UploadsInv'
<1> USE DEF AllTypes, UploadTypes, UploadRecords, DialogTypes
<1>1. \A d \in Calls : ~upload[d].mounted
  BY DEF StartUpload, UploadsInv, IsUploading
<1>2. \A f \in Files : status[f] # "uploading"
  BY <1>1 DEF UploadsInv
<1>3. QED
  BY <1>1, <1>2, Starting DEF UploadsInv

LEMMA NextShows ==
  ASSUME AllTypes, UploadsInv, NEW c \in Calls, NextBatch(c)
  PROVE  UploadsInv'
<1> USE DEF AllTypes, UploadTypes, UploadRecords, DialogTypes
<1>1. PICK B \in SUBSET upload[c].todo :
        /\ upload'[c].mounted = upload[c].mounted /\ upload'[c].pc = "batch"
        /\ upload'[c].todo = upload[c].todo \ B /\ upload'[c].batch = B /\ upload'[c].flight = B
        /\ status' \in [Files -> Statuses]
        /\ \A f \in Files : status'[f] = IF upload[c].mounted /\ f \in B THEN "uploading"
                                         ELSE Results(upload[c])[f]
  BY Continuing
<1>2. dialog' = dialog /\ \A d \in Calls \ {c} : upload'[d] = upload[d]
  BY Continuing
<1>3. CASE upload[c].mounted
  <2>1. \A f \in Files : /\ f \in B => status'[f] = "uploading"
                         /\ f \in upload[c].todo \ B => status'[f] = "pending"
                         /\ f \notin B => status'[f] # "uploading"
    BY <1>1, <1>3 DEF Results, UploadsInv
  <2>2. upload[c].todo \subseteq Files /\ dialog.open
    BY <1>3 DEF UploadsInv
  <2>3. \A d \in Calls \ {c} : ~upload[d].mounted
    BY <1>3 DEF UploadsInv
  <2>4. \A d \in Calls : upload'[d].mounted => d = c
    BY <1>2, <2>3
  <2>5. /\ upload'[c].todo \cap upload'[c].batch = {}
        /\ \A f \in upload'[c].todo : status'[f] = "pending"
        /\ \A f \in upload'[c].batch : status'[f] = "uploading"
    BY <1>1, <2>1, <2>2
  <2>6. \A d \in Calls : /\ upload'[d].flight \subseteq upload'[d].batch
                         /\ upload'[d].pc = "batch" \/ upload'[d].batch = {}
    BY <1>1, <1>2 DEF UploadsInv
  <2>7. \A f \in Files : status'[f] = "uploading" => upload'[c].mounted /\ f \in upload'[c].batch
    BY <1>1, <1>3, <2>1
  <2>8. QED
    BY <1>1, <1>2, <2>2, <2>4, <2>5, <2>6, <2>7 DEF UploadsInv
<1>4. CASE ~upload[c].mounted
  <2>1. \A f \in Files : status'[f] = status[f]
    BY <1>1, <1>4 DEF Results
  <2>2. status' = status
    BY <1>1, <2>1
  <2>3. QED
    BY <1>1, <1>2, <1>4, <2>2 DEF UploadsInv
<1>5. QED
  BY <1>3, <1>4

\* An upload that is over.
LEMMA EndShows ==
  ASSUME AllTypes, UploadsInv, NEW c \in Calls, UploadsDone(c) \/ SendAssociate(c)
  PROVE  UploadsInv'
<1> USE DEF AllTypes, UploadTypes, UploadRecords, DialogTypes
<1>1. /\ ~upload'[c].mounted /\ upload'[c].flight \subseteq upload'[c].batch /\ upload'[c].batch = {}
      /\ \A d \in Calls \ {c} : upload'[d] = upload[d]
  <2>1. CASE UploadsDone(c)
    BY <2>1 DEF UploadsDone, NoUpload
  <2>2. CASE SendAssociate(c)
    BY <2>2 DEF SendAssociate, NoUpload
  <2>3. QED
    BY <2>1, <2>2
<1>2. status' = Results(upload[c]) /\ dialog' = dialog
  BY DEF UploadsDone, SendAssociate
<1>3. CASE upload[c].mounted
  <2>1. \A f \in Files : status'[f] # "uploading"
    BY <1>2, <1>3 DEF Results, UploadsInv
  <2>2. QED
    BY <1>1, <1>2, <1>3, <2>1 DEF UploadsInv
<1>4. CASE ~upload[c].mounted
  <2>1. status' = status
    BY <1>2, <1>4 DEF Results
  <2>2. QED
    BY <1>1, <1>2, <1>4, <2>1 DEF UploadsInv
<1>5. QED
  BY <1>3, <1>4

LEMMA UploadsKept ==
  ASSUME AllTypes, UploadsInv, [Next]_vars
  PROVE  UploadsInv'
<1>1. CASE UNCHANGED uploader
  BY <1>1 DEF uploader, UploadsInv
<1>2. CASE UseDialog
  BY <1>2, DialogShows
<1>3. ASSUME NEW c \in Calls, NEW f \in Files, NEW inside, NEW ok, Answered(c, f, inside, ok)
      PROVE  UploadsInv'
  BY <1>3 DEF Answered, UploadsInv, AllTypes, UploadTypes, UploadRecords
<1>4. ASSUME NEW c \in Calls, Associating(c)
      PROVE  UploadsInv'
  BY <1>4 DEF Associating, NoUpload, UploadsInv, AllTypes, UploadTypes
<1>5. ASSUME NEW c \in Calls, Continue(c)
      PROVE  UploadsInv'
  BY <1>1, <1>3, <1>4, <1>5, NextShows, EndShows
  DEF Continue, Change, ChangeFails, EndWithError, Read, Deliver, Finish, FetchFails, Uploads, Uploaded,
      Accept, Fail, Associated, NotAssociated
<1>6. ASSUME NEW c \in Calls, Handle(c)
      PROVE  UploadsInv'
  BY <1>1, <1>6, StartShows
  DEF Handle, DeleteFiles, DeleteAlbum, FilesDropped, RemoveFromAlbum, Begin, Starts
<1>7. QED
  BY <1>1, <1>2, <1>5, <1>6 DEF Next, SelectAlbum, Elsewhere, vars

-----------------------------------------------------------------------------
(* What is fetched.                                                         *)

\* Of the steps of uploads: what they leave of other uploads, and of their own.
LEMMA UploadSteps ==
  ASSUME AllTypes, UploadsInv, NEW c \in Calls
  PROVE  /\ Uploads(c) => /\ upload'[c].pc # "idle" /\ upload[c].pc # "idle"
                          /\ \A d \in Calls \ {c} : upload'[d] = upload[d]
                          /\ Known \/ (UNCHANGED <<seen, call>> /\ (faults' = 0 => UNCHANGED server))
                          /\ \/ UNCHANGED server
                             \/ \E f \in Files : Accept(c, f) \/ Fail(c, f)
         /\ Starts(c) => /\ upload'[c].pc # "idle" /\ Free(c)
                         /\ \A d \in Calls \ {c} : upload'[d] = upload[d]
         /\ Uploaded(c) => /\ upload'[c].pc = "idle" /\ upload[c].pc # "idle"
                           /\ \A d \in Calls \ {c} : upload'[d] = upload[d]
<1> USE DEF AllTypes, UploadTypes, UploadRecords
<1>1. ASSUME Uploads(c)
      PROVE  /\ upload'[c].pc # "idle" /\ upload[c].pc # "idle"
             /\ \A d \in Calls \ {c} : upload'[d] = upload[d]
             /\ Known \/ (UNCHANGED <<seen, call>> /\ (faults' = 0 => UNCHANGED server))
             /\ UNCHANGED server \/ \E f \in Files : Accept(c, f) \/ Fail(c, f)
  <2>1. ASSUME NEW f \in Files, Accept(c, f) \/ Fail(c, f)
        PROVE  /\ upload'[c].pc # "idle" /\ upload[c].pc # "idle"
               /\ \A d \in Calls \ {c} : upload'[d] = upload[d]
    <3>1. PICK inside, ok : Answered(c, f, inside, ok)
      BY <2>1 DEF Accept, Fail
    <3>2. upload[c].pc = "batch"
      BY <3>1 DEF Answered, UploadsInv
    <3>3. QED
      BY <3>1, <3>2 DEF Answered
  <2>2. CASE \E f \in Files : Accept(c, f) /\ Known
    BY <2>1, <2>2
  <2>3. CASE \E f \in Files : Fail(c, f) /\ UNCHANGED <<seen, call>>
    <3>1. PICK f \in Files : Fail(c, f) /\ UNCHANGED <<seen, call>>
      BY <2>3
    <3>2. faults' # 0
      BY <3>1 DEF Fail, Fault, CountTypes
    <3>3. QED
      BY <2>1, <3>1, <3>2
  <2>4. CASE (NextBatch(c) \/ SendAssociate(c)) /\ UNCHANGED <<seen, call>>
    <3>1. CASE NextBatch(c)
      BY <2>4, <3>1 DEF NextBatch, BatchOver, Launch
    <3>2. CASE SendAssociate(c)
      BY <2>4, <3>2 DEF SendAssociate, BatchOver, NoUpload
    <3>3. QED
      BY <2>4, <3>1, <3>2
  <2>5. QED
    BY <1>1, <2>2, <2>3, <2>4 DEF Uploads
<1>2. ASSUME Starts(c)
      PROVE  /\ upload'[c].pc # "idle" /\ Free(c)
             /\ \A d \in Calls \ {c} : upload'[d] = upload[d]
  BY <1>2 DEF Starts, StartUpload, Launch, NoUpload, Free
<1>3. ASSUME Uploaded(c)
      PROVE  /\ upload'[c].pc = "idle" /\ upload[c].pc # "idle"
             /\ \A d \in Calls \ {c} : upload'[d] = upload[d]
  BY <1>3 DEF Uploaded, UploadsDone, BatchOver, Associated, NotAssociated, Associating, NoUpload
<1>4. QED
  BY <1>1, <1>2, <1>3

\* A handler, a call that goes on, and the dialog: what each leaves of the calls.
LEMMA OtherSteps ==
  ASSUME AllTypes
  PROVE  /\ (UseDialog \/ Elsewhere \/ \E a \in Albums \cup {None} : SelectAlbum(a)) =>
              /\ UNCHANGED <<call, view, loaded, isLoading, seen, crowded>>
              /\ \A c \in Calls : upload'[c].pc = upload[c].pc
              /\ (faults' = 0 => UNCHANGED <<server, faults>>)
         /\ \A c \in Calls :
              Handle(c) => /\ UNCHANGED <<server, faults, view, loaded, selectedAlbum, seen, crowded>>
                           /\ Free(c) /\ (upload'[c].pc # "idle" \/ call'[c].pc = "change")
                           /\ \A d \in Calls \ {c} : upload'[d] = upload[d] /\ call'[d] = call[d]
                           /\ call'[c] = call[c] \/ call'[c].pc = "change"
<1> USE DEF AllTypes
<1>1. ASSUME UseDialog \/ Elsewhere \/ \E a \in Albums \cup {None} : SelectAlbum(a)
      PROVE  /\ UNCHANGED <<call, view, loaded, isLoading, seen, crowded>>
             /\ \A c \in Calls : upload'[c].pc = upload[c].pc
             /\ (faults' = 0 => UNCHANGED <<server, faults>>)
  <2>1. CASE Elsewhere
    BY <2>1 DEF Elsewhere, Fault, CountTypes, page, history, uploader
  <2>2. CASE \E a \in Albums \cup {None} : SelectAlbum(a)
    BY <2>2 DEF SelectAlbum, history, uploader
  <2>3. CASE UseDialog
    BY <2>3 DEF UseDialog, OpenDialog, CloseDialog, ClearAll, RemoveFile, Adds, AddFile, Apart, page,
                history, UploadTypes, UploadRecords
  <2>4. QED
    BY <1>1, <2>1, <2>2, <2>3
<1>2. ASSUME NEW c \in Calls, Handle(c)
      PROVE  /\ UNCHANGED <<server, faults, view, loaded, selectedAlbum, seen, crowded>>
             /\ Free(c) /\ (upload'[c].pc # "idle" \/ call'[c].pc = "change")
             /\ \A d \in Calls \ {c} : upload'[d] = upload[d] /\ call'[d] = call[d]
             /\ call'[c] = call[c] \/ call'[c].pc = "change"
  <2>1. CASE Starts(c)
    BY <2>1 DEF Starts, StartUpload, Launch, NoUpload, Free, page, UploadTypes
  <2>2. CASE ~Starts(c)
    <3>1. PICK op, S, a : Begin(c, op, S, a)
      BY <1>2, <2>2, HandlersBegin DEF Handle
    <3>2. QED
      BY <3>1 DEF Begin, uploader, NoCall, CallTypes
  <2>3. QED
    BY <2>1, <2>2
<1>3. QED
  BY <1>1, <1>2

\* A call that goes on, of the other calls.
LEMMA CallSteps ==
  ASSUME AllTypes, NEW c \in Calls,
         Change(c) \/ ChangeFails(c) \/ Read(c) \/ Deliver(c) \/ Finish(c) \/ FetchFails(c)
  PROVE  /\ UNCHANGED uploader /\ call[c].pc # "idle"
         /\ \A d \in Calls \ {c} : call'[d] = call[d] \/ (Change(c) /\ call'[d] = Outdated[d])
<1> USE DEF AllTypes, CallTypes
<1>1. CASE Change(c)
  BY <1>1 DEF Change, OutdatedTypes
<1>2. CASE Read(c)
  BY <1>2 DEF Read, CallRecords
<1>3. CASE ChangeFails(c) \/ Deliver(c) \/ Finish(c) \/ FetchFails(c)
  BY <1>3 DEF ChangeFails, Deliver, Finish, FetchFails, EndWithError
<1>4. QED
  BY <1>1, <1>2, <1>3

LEMMA BehindIsFetched ==
  ASSUME AllTypes, UploadsInv, FetchInv, [Next]_vars, seen' = "behind"
  PROVE  \E c \in Calls : WillFetch(c)'
<1> USE DEF AllTypes, WillFetch
<1>1. CASE UNCHANGED vars \/ UseDialog \/ Elsewhere \/ \E a \in Albums \cup {None} : SelectAlbum(a)
  <2>1. UNCHANGED <<call, seen>> /\ \A c \in Calls : upload'[c].pc = upload[c].pc
    BY <1>1, OtherSteps DEF vars, uploader, history
  <2>2. QED
    BY <2>1 DEF FetchInv
<1>2. ASSUME NEW c \in Calls, Handle(c)
      PROVE  \E d \in Calls : WillFetch(d)'
  <2>1. PICK d \in Calls : WillFetch(d)
    BY <1>2, OtherSteps DEF FetchInv
  <2>2. d # c
    BY <1>2, <2>1, OtherSteps DEF Free
  <2>3. QED
    BY <1>2, <2>1, <2>2, OtherSteps
<1>3. ASSUME NEW c \in Calls,
             Change(c) \/ ChangeFails(c) \/ Read(c) \/ Deliver(c) \/ Finish(c) \/ FetchFails(c)
      PROVE  \E d \in Calls : WillFetch(d)'
  <2>1. upload[c].pc = "idle" /\ UNCHANGED uploader /\ call[c].pc # "idle"
    BY <1>3, CallSteps DEF Exclusive
  <2>2. CASE Change(c)
    BY <2>2 DEF Change, AfterChange, Fetch, NoCall, Outdated
  <2>3. CASE Read(c)
    BY <2>3 DEF Read, CallTypes, CallRecords
  <2>4. CASE FetchFails(c)
    BY <2>4 DEF FetchFails
  <2>5. CASE (ChangeFails(c) \/ Deliver(c) \/ Finish(c)) /\ ~Change(c)
    <3>1. seen = "behind" /\ (call[c].pc = "answer" => ~call[c].fresh) /\ call[c].pc # "read"
      BY <2>5 DEF ChangeFails, Deliver, Finish, history
    <3>2. PICK d \in Calls : WillFetch(d)
      BY <3>1 DEF FetchInv
    <3>3. d # c
      BY <2>1, <3>1, <3>2
    <3>4. upload'[d] = upload[d] /\ call'[d] = call[d]
      BY <1>3, <2>1, <2>5, <3>3, CallSteps DEF uploader
    <3>5. QED
      BY <3>2, <3>4
  <2>6. QED
    BY <1>3, <2>2, <2>3, <2>4, <2>5 DEF Change, ChangeFails, Deliver, Finish
<1>4. ASSUME NEW c \in Calls, Uploads(c)
      PROVE  \E d \in Calls : WillFetch(d)'
  BY <1>4, UploadSteps
<1>5. ASSUME NEW c \in Calls, Uploaded(c)
      PROVE  \E d \in Calls : WillFetch(d)'
  BY <1>5, OutdatedTypes DEF Uploaded, Fetch, NoCall, CallTypes
<1>6. QED
  BY <1>1, <1>2, <1>3, <1>4, <1>5 DEF Next, Continue

\* While only the page changes the bucket, what was read last is so.
LEMMA ReadIsSo ==
  ASSUME AllTypes, UploadsInv, FetchInv, [Next]_vars, faults' = 0
  PROVE  /\ \A c \in Calls : call'[c].pc = "answer" /\ call'[c].fresh => call'[c].snap = Snapshot'
         /\ seen' = "fresh" => view' = Snapshot'
<1> USE DEF AllTypes
<1>0. faults = 0 /\ ~Fault
  <2>1. ~Fault
    BY DEF Fault, CountTypes
  <2>2. faults' = faults
    BY <2>1, OtherSteps, HandlersBegin
    DEF Next, vars, Continue, Change, ChangeFails, NoFault, Read, Deliver, Finish, FetchFails, Uploads,
        Accept, Fail, NextBatch, SendAssociate, Uploaded, UploadsDone, Associated, NotAssociated
  <2>3. QED
    BY <2>1, <2>2
<1>1. /\ \A c \in Calls : call[c].pc = "answer" /\ call[c].fresh => call[c].snap = Snapshot
      /\ seen = "fresh" => view = Snapshot
  BY <1>0 DEF FetchInv
<1>2. CASE UNCHANGED <<server, view, seen>> /\ \A c \in Calls : call'[c] = call[c] \/ call'[c].pc # "answer"
  <2>1. Snapshot' = Snapshot
    BY <1>2 DEF Snapshot, server
  <2>2. QED
    BY <1>1, <1>2, <2>1
<1>3. CASE seen' = "behind" /\ \A c \in Calls : call'[c] = Outdated[c] \/ call'[c].pc # "answer"
  BY <1>3 DEF Outdated, CallTypes, CallRecords
<1>4. CASE UNCHANGED vars \/ UseDialog \/ Elsewhere \/ \E a \in Albums \cup {None} : SelectAlbum(a)
  <2>1. UNCHANGED <<server, view, seen, call>>
    BY <1>4, OtherSteps DEF vars, page, history
  <2>2. QED
    BY <1>2, <2>1
<1>5. ASSUME NEW c \in Calls, Handle(c)
      PROVE  UNCHANGED <<server, view, seen>> /\ \A d \in Calls : call'[d] = call[d] \/ call'[d].pc # "answer"
  BY <1>5, OtherSteps
<1>6. ASSUME NEW c \in Calls, Change(c)
      PROVE  seen' = "behind" /\ \A d \in Calls : call'[d] = Outdated[d] \/ call'[d].pc # "answer"
  BY <1>6, OutdatedTypes DEF Change, AfterChange, Fetch, NoCall
<1>7. ASSUME NEW c \in Calls, ChangeFails(c) \/ Finish(c) \/ FetchFails(c)
      PROVE  UNCHANGED <<server, view, seen>> /\ \A d \in Calls : call'[d] = call[d] \/ call'[d].pc # "answer"
  BY <1>0, <1>7 DEF ChangeFails, Finish, FetchFails, EndWithError, NoCall, CallTypes, history
<1>8. ASSUME NEW c \in Calls, Read(c)
      PROVE  /\ \A d \in Calls : call'[d].pc = "answer" /\ call'[d].fresh => call'[d].snap = Snapshot'
             /\ seen' = "fresh" => view' = Snapshot'
  <2>1. Snapshot' = Snapshot /\ UNCHANGED <<server, view, seen>>
    BY <1>8 DEF Read, Snapshot, server, page, history
  <2>2. call'[c].snap = Snapshot /\ \A d \in Calls \ {c} : call'[d] = call[d]
    BY <1>8 DEF Read, CallTypes, CallRecords
  <2>3. QED
    BY <1>1, <2>1, <2>2
<1>9. ASSUME NEW c \in Calls, Deliver(c)
      PROVE  /\ \A d \in Calls : call'[d].pc = "answer" /\ call'[d].fresh => call'[d].snap = Snapshot'
             /\ seen' = "fresh" => view' = Snapshot'
  <2>1. Snapshot' = Snapshot
    BY <1>9 DEF Deliver, Snapshot, server
  <2>2. \A d \in Calls : call'[d] = call[d] \/ call'[d].pc = "type"
    BY <1>9 DEF Deliver, NoCall, CallTypes
  <2>3. seen' = "fresh" => call[c].fresh /\ view' = call[c].snap /\ call[c].pc = "answer"
    BY <1>9 DEF Deliver
  <2>4. QED
    BY <1>1, <2>1, <2>2, <2>3
<1>10. ASSUME NEW c \in Calls, Uploads(c)
       PROVE  \/ /\ UNCHANGED <<server, view, seen>>
                 /\ \A d \in Calls : call'[d] = call[d] \/ call'[d].pc # "answer"
              \/ seen' = "behind" /\ \A d \in Calls : call'[d] = Outdated[d] \/ call'[d].pc # "answer"
  BY <1>10, UploadSteps DEF Known, Uploads, page
<1>11. ASSUME NEW c \in Calls, Uploaded(c)
       PROVE  \/ /\ UNCHANGED <<server, view, seen>>
                 /\ \A d \in Calls : call'[d] = call[d] \/ call'[d].pc # "answer"
              \/ seen' = "behind" /\ \A d \in Calls : call'[d] = Outdated[d] \/ call'[d].pc # "answer"
  <2>1. \A d \in Calls : \/ call'[d] = IF seen' = "behind" THEN Outdated[d] ELSE call[d]
                         \/ call'[d].pc # "answer"
    BY <1>11, OutdatedTypes DEF Uploaded, Fetch, NoCall, CallTypes
  <2>2. view' = view /\ (seen' = "behind" \/ UNCHANGED <<server, seen>>)
    BY <1>0, <1>11 DEF Uploaded, UploadsDone, NotAssociated
  <2>3. QED
    BY <2>1, <2>2
<1>12. ASSUME NEW c \in Calls, Handle(c) \/ Continue(c)
       PROVE  /\ \A d \in Calls : call'[d].pc = "answer" /\ call'[d].fresh => call'[d].snap = Snapshot'
              /\ seen' = "fresh" => view' = Snapshot'
  BY <1>2, <1>3, <1>5, <1>6, <1>7, <1>8, <1>9, <1>10, <1>11, <1>12 DEF Continue
<1>13. QED
  BY <1>4, <1>12 DEF Next

LEMMA FetchKept ==
  ASSUME AllTypes, UploadsInv, FetchInv, [Next]_vars
  PROVE  FetchInv'
BY BehindIsFetched, ReadIsSo DEF FetchInv

-----------------------------------------------------------------------------
(* The album that is shown, and the overlay.                                *)

LEMMA AlbumStays ==
  ASSUME AllTypes, ShownAlbumIsThere, [Next]_vars
  PROVE  ShownAlbumIsThere'
<1> USE DEF AllTypes, ShownAlbumIsThere
<1>1. CASE UNCHANGED <<view, loaded, selectedAlbum>>
  BY <1>1
<1>2. ASSUME NEW a \in Albums \cup {None}, SelectAlbum(a)
      PROVE  ShownAlbumIsThere'
  BY <1>2 DEF SelectAlbum
<1>3. CASE UseDialog \/ Elsewhere
  BY <1>1, <1>3 DEF UseDialog, Elsewhere, Adds, Apart, page
<1>4. ASSUME NEW c \in Calls, Deliver(c)
      PROVE  ShownAlbumIsThere'
  BY <1>4 DEF Deliver, StillSelected
<1>5. ASSUME NEW c \in Calls, Change(c)
      PROVE  ShownAlbumIsThere'
  BY <1>5 DEF Change
<1>6. ASSUME NEW c \in Calls, Continue(c), ~Deliver(c), ~Change(c)
      PROVE  UNCHANGED <<view, loaded, selectedAlbum>>
  BY <1>6 DEF Continue, ChangeFails, EndWithError, Read, Finish, FetchFails, Uploads, Uploaded, page
<1>7. QED
  BY <1>1, <1>2, <1>3, <1>4, <1>5, <1>6, OtherSteps DEF Next, vars, page

LEMMA OverlayStays ==
  ASSUME AllTypes, UploadsInv, OverlayLifts, [Next]_vars
  PROVE  OverlayLifts'
<1> USE DEF AllTypes, OverlayLifts, Busy, Free
<1>1. CASE UNCHANGED <<isLoading, call>> /\ \A c \in Calls : upload'[c].pc = upload[c].pc
  BY <1>1
<1>2. ASSUME NEW c \in Calls, Handle(c) \/ Uploads(c)
      PROVE  OverlayLifts'
  BY <1>2, OtherSteps, UploadSteps
<1>3. ASSUME NEW c \in Calls, Change(c) \/ Read(c) \/ Deliver(c)
      PROVE  call'[c].pc # "idle"
  BY <1>3, OutdatedTypes DEF Change, AfterChange, Fetch, Read, Deliver, NoCall, CallTypes, CallRecords
<1>4. ASSUME NEW c \in Calls, ChangeFails(c) \/ Finish(c) \/ FetchFails(c)
      PROVE  ~isLoading'
  BY <1>4 DEF ChangeFails, Finish, FetchFails, EndWithError
<1>5. ASSUME NEW c \in Calls, Uploaded(c)
      PROVE  call'[c].pc # "idle"
  BY <1>5, OutdatedTypes DEF Uploaded, Fetch, NoCall, CallTypes
<1>6. ASSUME NEW c \in Calls, Handle(c) \/ Continue(c)
      PROVE  OverlayLifts'
  BY <1>2, <1>3, <1>4, <1>5, <1>6 DEF Continue
<1>7. QED
  BY <1>1, <1>6, OtherSteps DEF Next, vars, page, uploader

-----------------------------------------------------------------------------
(* What the dialog counts, while nothing blurs the count.                   *)

LEMMA Smaller ==
  ASSUME NEW S \in SUBSET Files, NEW T \in SUBSET S, Cardinality(S) <= Limit
  PROVE  Cardinality(T) <= Limit
<1>1. IsFiniteSet(S)
  BY QueueAssumption, FS_Subset
<1>2. IsFiniteSet(T) /\ Cardinality(T) <= Cardinality(S)
  BY <1>1, FS_Subset
<1>3. Cardinality(S) \in Nat /\ Cardinality(T) \in Nat /\ Limit \in Nat
  BY <1>1, <1>2, FS_CardinalityType, QueueAssumption
<1>4. QED
  BY <1>2, <1>3

LEMMA SetsAreFiles ==
  ASSUME AllTypes
  PROVE  /\ Queued \in SUBSET Files /\ \A a : InAlbum(a) \in SUBSET Files
         /\ \A c \in Calls : Sent(c) \in SUBSET Files /\ upload[c].good \in SUBSET Files
BY DEF AllTypes, Queued, InAlbum, Sent, UploadTypes, UploadRecords

\* Nothing joins an album, the queue or an upload.
LEMMA FewerFit ==
  ASSUME AllTypes, CountInv,
         \A a \in Albums : InAlbum(a)' \subseteq InAlbum(a),
         Queued' \subseteq Queued, dialog'.album \in {dialog.album, None},
         \A c \in Calls : Sending(c)' => /\ Sending(c) /\ upload'[c].album = upload[c].album
                                         /\ Sent(c)' \subseteq Sent(c)
  PROVE  CountInv'
<1>0. dialog.album \in Albums \cup {None} /\ \A c \in Calls : upload[c].album \in Albums \cup {None}
  BY DEF AllTypes, DialogTypes, UploadTypes, UploadRecords
<1>1. ASSUME NEW a \in Albums
      PROVE  Fits(a, {})'
  <2>1. InAlbum(a)' \cup {} \in SUBSET (InAlbum(a) \cup {}) /\ Cardinality(InAlbum(a) \cup {}) <= Limit
    BY DEF CountInv, Fits
  <2>2. QED
    BY <2>1, Smaller, SetsAreFiles DEF Fits
<1>2. ASSUME dialog'.album # None
      PROVE  Fits(dialog.album, Queued)'
  <2>1. dialog'.album = dialog.album /\ dialog.album \in Albums /\ Fits(dialog.album, Queued)
    BY <1>0, <1>2 DEF CountInv
  <2>2. InAlbum(dialog.album)' \cup Queued' \in SUBSET (InAlbum(dialog.album) \cup Queued)
    BY <2>1 DEF InAlbum
  <2>3. QED
    BY <2>1, <2>2, Smaller, SetsAreFiles DEF Fits
<1>3. ASSUME NEW c \in Calls, Sending(c)'
      PROVE  Fits(upload[c].album, Sent(c))'
  <2>1. /\ upload'[c].album = upload[c].album /\ upload[c].album \in Albums
        /\ Fits(upload[c].album, Sent(c))
    BY <1>0, <1>3 DEF CountInv, Sending
  <2>2. InAlbum(upload[c].album)' \cup Sent(c)' \in SUBSET (InAlbum(upload[c].album) \cup Sent(c))
    BY <1>3, <2>1 DEF InAlbum
  <2>3. QED
    BY <2>1, <2>2, Smaller, SetsAreFiles DEF Fits
<1>4. ASSUME NEW c \in Calls, Sending(c)', dialog'.album = upload'[c].album
      PROVE  Fits(upload[c].album, Sent(c) \cup Queued)'
  <2>1. /\ upload'[c].album = upload[c].album /\ upload[c].album \in Albums /\ dialog.album = upload[c].album
        /\ Fits(upload[c].album, Sent(c) \cup Queued)
    BY <1>0, <1>4, QueueAssumption DEF CountInv, Sending
  <2>2. InAlbum(upload[c].album)' \cup (Sent(c)' \cup Queued')
          \in SUBSET (InAlbum(upload[c].album) \cup (Sent(c) \cup Queued))
    BY <1>4, <2>1 DEF InAlbum
  <2>3. QED
    BY <2>1, <2>2, Smaller, SetsAreFiles DEF Fits
<1>5. QED
  BY <1>1, <1>2, <1>3, <1>4 DEF CountInv

\* What an upload leaves of the queue: which files are in it.
LEMMA QueueKept ==
  ASSUME AllTypes, UploadsInv, NEW c \in Calls,
         StartUpload(c) \/ NextBatch(c) \/ SendAssociate(c) \/ UploadsDone(c)
  PROVE  Queued' = Queued
<1> USE DEF AllTypes, UploadTypes, UploadRecords, DialogTypes
<1>1. CASE StartUpload(c)
  BY <1>1, Starting DEF Queued
<1>2. \A f \in Files : Results(upload[c])[f] = "none" <=> status[f] = "none"
  BY DEF Results, UploadsInv
<1>3. CASE NextBatch(c)
  BY <1>2, <1>3, Continuing DEF Queued, UploadsInv
<1>4. CASE SendAssociate(c) \/ UploadsDone(c)
  BY <1>2, <1>4 DEF SendAssociate, UploadsDone, Queued
<1>5. QED
  BY <1>1, <1>3, <1>4

\* The count of what the page does beside uploads, while nothing blurs it.
LEMMA QuietBefore ==
  ASSUME AllTypes, [Next]_vars, Quiet'
  PROVE  Quiet /\ ~Fault
<1>1. ~Fault
  BY DEF Quiet, Fault, AllTypes, CountTypes
<1>2. faults = 0
  BY <1>1, OtherSteps
  DEF Quiet, Next, vars, Continue, Change, ChangeFails, NoFault, Read, Deliver, Finish, FetchFails, Uploads,
      Accept, Fail, NextBatch, SendAssociate, Uploaded, UploadsDone, Associated, NotAssociated
<1>3. blurred => blurred'
  BY HandlersBegin
  DEF AllTypes, Next, vars, history, UseDialog, Adds, Blur, Elsewhere, SelectAlbum, Handle, Starts, Begin,
      Continue, Change, ChangeFails, EndWithError, Read, Deliver, Finish, FetchFails, Uploads, Uploaded
<1>4. QED
  BY <1>1, <1>2, <1>3 DEF Quiet

LEMMA OnlyOne ==
  ASSUME AllTypes, UploadsInv, [Next]_vars, Quiet', QuietInv
  PROVE  \A c, d \in Calls : ~Free(c)' /\ ~Free(d)' => c = d
<1> USE DEF AllTypes, Free
<1>1. \A c, d \in Calls : ~Free(c) /\ ~Free(d) => c = d
  BY DEF QuietInv
<1>2. CASE UNCHANGED vars \/ UseDialog \/ Elsewhere \/ \E a \in Albums \cup {None} : SelectAlbum(a)
  BY <1>1, <1>2, OtherSteps DEF vars, uploader
<1>3. ASSUME NEW c \in Calls, Handle(c)
      PROVE  \A d \in Calls \ {c} : Free(d)'
  <2>1. ~Busy
    BY <1>3, HandlersBegin DEF Handle, Starts, Begin, Blur, Quiet
  <2>2. QED
    BY <1>3, <2>1, OtherSteps DEF Busy
<1>4. ASSUME NEW c \in Calls, Continue(c)
      PROVE  \A d \in Calls \ {c} : Free(d)'
  <2>1. ~Free(c) /\ \A d \in Calls \ {c} : upload'[d].pc = upload[d].pc
    BY <1>4, CallSteps, UploadSteps DEF Continue, uploader
  <2>2. \A d \in Calls \ {c} : Free(d)
    BY <1>1, <2>1
  <2>3. \A d \in Calls \ {c} : call'[d].pc = call[d].pc
    <3>1. CASE Uploads(c)
      BY <3>1, KnownTypes, UploadSteps
    <3>2. CASE Uploaded(c)
      BY <3>2, OutdatedTypes DEF Uploaded, CallTypes
    <3>3. CASE ~Uploads(c) /\ ~Uploaded(c)
      BY <1>4, <3>3, CallSteps, OutdatedTypes DEF Continue
    <3>4. QED
      BY <3>1, <3>2, <3>3
  <2>4. QED
    BY <2>1, <2>2, <2>3
<1>5. QED
  BY <1>2, <1>3, <1>4 DEF Next

\* The server's limit: what was refused for it had not been counted.
LEMMA NotCrowded ==
  ASSUME AllTypes, [Next]_vars, Quiet', QuietInv
  PROVE  ~crowded'
<1> USE DEF AllTypes
<1>1. ~crowded /\ CountInv
  BY DEF QuietInv
<1>2. ASSUME NEW c \in Calls, NotAssociated(c)
      PROVE  ~OverLimit(upload[c].album, upload[c].good)
  <2>1. CASE upload[c].album = None
    BY <2>1, QueueAssumption DEF OverLimit, ServerTypes
  <2>2. CASE upload[c].album # None
    <3>1. Fits(upload[c].album, Sent(c))
      BY <1>1, <1>2, <2>2 DEF NotAssociated, Associating, Sending, CountInv
    <3>2. InAlbum(upload[c].album) \cup upload[c].good \in SUBSET (InAlbum(upload[c].album) \cup Sent(c))
      BY DEF Sent
    <3>3. Cardinality(InAlbum(upload[c].album) \cup upload[c].good) <= Limit
      BY <3>1, <3>2, Smaller, SetsAreFiles DEF Fits
    <3>4. Cardinality(InAlbum(upload[c].album) \cup upload[c].good) \in Nat /\ Limit \in Nat
      BY SetsAreFiles, FS_Subset, FS_CardinalityType, QueueAssumption
    <3>5. QED
      BY <3>3, <3>4 DEF OverLimit
  <2>3. QED
    BY <2>1, <2>2
<1>3. ASSUME NEW c \in Calls, Uploaded(c)
      PROVE  ~crowded'
  BY <1>1, <1>2, <1>3 DEF Uploaded
<1>4. ASSUME NEW c \in Calls, Continue(c), ~Uploaded(c)
      PROVE  crowded' = crowded
  BY <1>4 DEF Continue, Change, ChangeFails, EndWithError, Read, Deliver, Finish, FetchFails, Uploads, history
<1>5. QED
  BY <1>1, <1>3, <1>4, OtherSteps DEF Next, vars, history

\* One call at a time never has an answer that is outdated.
LEMMA NotOvertaken ==
  ASSUME AllTypes, UploadsInv, [Next]_vars, Quiet', QuietInv
  PROVE  seen' \in {"fresh", "behind"} /\ \A c \in Calls : call'[c].pc = "answer" => call'[c].fresh
<1> USE DEF AllTypes
<1>1. ~Fault /\ seen \in {"fresh", "behind"} /\ \A c \in Calls : call[c].pc = "answer" => call[c].fresh
  BY QuietBefore DEF QuietInv
<1>2. \A c, d \in Calls : ~Free(c)' /\ ~Free(d)' => c = d
  BY OnlyOne
<1>3. CASE UNCHANGED vars \/ UseDialog \/ Elsewhere \/ \E a \in Albums \cup {None} : SelectAlbum(a)
  BY <1>1, <1>3, OtherSteps DEF vars, history
<1>4. ASSUME NEW c \in Calls, Handle(c)
      PROVE  seen' = seen /\ \A d \in Calls : call'[d] = call[d] \/ call'[d].pc # "answer"
  BY <1>4, OtherSteps
<1>5. ASSUME NEW c \in Calls, Continue(c)
      PROVE  /\ seen' \in {"fresh", "behind"}
             /\ call'[c].pc = "answer" => call'[c].fresh
  <2>1. CASE Change(c)
    BY <2>1, OutdatedTypes DEF Change, AfterChange, Fetch, NoCall
  <2>2. CASE ChangeFails(c) \/ Finish(c) \/ FetchFails(c)
    BY <1>1, <2>2 DEF ChangeFails, Finish, FetchFails, EndWithError, NoCall, CallTypes, history
  <2>3. CASE Read(c)
    BY <1>1, <2>3 DEF Read, CallTypes, CallRecords, history
  <2>4. CASE Deliver(c)
    <3>1. call[c].fresh
      BY <1>1, <2>4 DEF Deliver
    <3>2. seen' = "fresh" /\ call'[c].pc = "type"
      BY <2>4, <3>1 DEF Deliver, NoCall, CallTypes
    <3>3. QED
      BY <3>2
  <2>5. CASE Uploads(c)
    <3>1. call[c].pc = "idle"
      BY <2>5, UploadSteps DEF Exclusive
    <3>2. QED
      BY <1>1, <2>5, <3>1, KnownTypes, UploadSteps
  <2>6. CASE Uploaded(c)
    BY <1>1, <2>6, OutdatedTypes DEF Uploaded, Fetch, NoCall, CallTypes
  <2>7. QED
    BY <1>5, <2>1, <2>2, <2>3, <2>4, <2>5, <2>6 DEF Continue
<1>6. ASSUME NEW c \in Calls, Continue(c), NEW d \in Calls \ {c}
      PROVE  call'[d].pc # "answer"
  <2>1. Free(d)
    BY <1>6, CallSteps, UploadSteps DEF Continue, Free, QuietInv
  <2>2. call'[d].pc = call[d].pc
    BY <1>6, CallSteps, OutdatedTypes, KnownTypes, UploadSteps DEF Continue, Uploaded, CallTypes
  <2>3. QED
    BY <2>1, <2>2 DEF Free
<1>7. QED
  BY <1>1, <1>3, <1>4, <1>5, <1>6 DEF Next

\* Files are dragged onto an album while the dialog is closed, and nothing is counted for an
\* album while another call is under way.
LEMMA NothingAssigned ==
  ASSUME AllTypes, UploadsInv, [Next]_vars, Quiet', QuietInv
  PROVE  \A c \in Calls : call'[c].pc = "change" /\ call'[c].op = "assign" =>
           Queued' = {} \/ dialog'.album = None
<1> USE DEF AllTypes
<1>1. \A c \in Calls : call[c].pc = "change" /\ call[c].op = "assign" => Queued = {} \/ dialog.album = None
  BY DEF QuietInv
<1>2. CASE UNCHANGED <<uploader, call>>
  BY <1>1, <1>2 DEF uploader, Queued
<1>3. CASE UseDialog
  <2>1. call' = call
    BY <1>3, OtherSteps
  <2>2. CASE OpenDialog(selectedAlbum)
    BY <2>2 DEF OpenDialog, UploadsInv, Queued, Empty
  <2>3. CASE CloseDialog \/ ClearAll
    BY <2>3 DEF CloseDialog, ClearAll, Queued, Empty
  <2>4. ASSUME NEW f \in Files, RemoveFile(f)
        PROVE  Queued' \subseteq Queued /\ dialog' = dialog
    BY <2>4 DEF RemoveFile, Queued, DialogTypes
  <2>5. ASSUME NEW f \in Files, Adds(f)
        PROVE  dialog' = dialog /\ (dialog.album = None \/ ~Busy)
    BY <2>5 DEF Adds, AddFile, Blur, Quiet
  <2>6. QED
    BY <1>1, <1>3, <2>1, <2>2, <2>3, <2>4, <2>5 DEF UseDialog, Busy, Free
<1>4. ASSUME NEW c \in Calls, Handle(c)
      PROVE  \A d \in Calls : call'[d].pc = "change" /\ call'[d].op = "assign" =>
               Queued' = {} \/ dialog'.album = None
  <2>1. ~Busy
    BY <1>4, HandlersBegin DEF Handle, Starts, Begin, Blur, Quiet
  <2>2. CASE Starts(c)
    BY <2>1, <2>2 DEF Starts, Busy, Free
  <2>3. CASE ~Starts(c)
    <3>1. PICK op, S, a : Begin(c, op, S, a) /\ (op = "assign" => ~dialog.open)
      BY <1>4, <2>3, HandlersBegin DEF Handle
    <3>2. op = "assign" => Queued' = {}
      BY <3>1 DEF Begin, UploadsInv, Queued, Empty, uploader
    <3>3. QED
      BY <2>1, <3>1, <3>2 DEF Begin, Busy, Free, NoCall, CallTypes
  <2>4. QED
    BY <2>2, <2>3
<1>5. ASSUME NEW c \in Calls, Continue(c), ~(Uploads(c) \/ Uploaded(c))
      PROVE  \A d \in Calls : call'[d].pc = "change" /\ call'[d].op = "assign" =>
               Queued' = {} \/ dialog'.album = None
  <2>1. dialog' = dialog /\ Queued' = Queued
    BY <1>5, CallSteps DEF Continue, uploader, Queued
  <2>2. \A d \in Calls : call'[d].pc = "change" => call'[d] = call[d] \/ (Change(c) /\ call'[d] = Outdated[d])
    <3>1. ASSUME Change(c)
          PROVE  call'[c].pc # "change"
      BY <3>1, OutdatedTypes DEF Change, AfterChange, Fetch, NoCall
    <3>2. ASSUME Read(c)
          PROVE  call'[c].pc # "change"
      BY <3>2 DEF Read, CallTypes, CallRecords
    <3>3. ASSUME ChangeFails(c) \/ Deliver(c) \/ Finish(c) \/ FetchFails(c)
          PROVE  call'[c].pc # "change"
      BY <3>3 DEF ChangeFails, EndWithError, Deliver, Finish, FetchFails, NoCall, CallTypes
    <3>4. QED
      BY <1>5, <3>1, <3>2, <3>3, CallSteps DEF Continue
  <2>3. \A d \in Calls : Outdated[d].pc = "change" => Outdated[d] = call[d]
    BY DEF Outdated, CallTypes, CallRecords
  <2>4. QED
    BY <1>1, <2>1, <2>2, <2>3
<1>6. ASSUME NEW c \in Calls, Uploads(c) \/ Uploaded(c), NEW d \in Calls
      PROVE  call'[d].pc # "change"
  <2>1. upload[c].pc # "idle" /\ call[c].pc = "idle"
    BY <1>6, UploadSteps DEF Exclusive
  <2>2. call[d].pc = "idle"
    BY <2>1 DEF QuietInv, Free
  <2>3. CASE Uploads(c)
    BY <2>2, <2>3, KnownTypes, OutdatedTypes, UploadSteps DEF CallTypes
  <2>4. CASE Uploaded(c)
    BY <2>2, <2>4, KnownTypes, OutdatedTypes, UploadSteps DEF Uploaded, Fetch, NoCall, CallTypes
  <2>5. QED
    BY <1>6, <2>3, <2>4
<1>7. QED
  BY <1>1, <1>2, <1>3, <1>4, <1>5, <1>6 DEF Next, Continue, Elsewhere, SelectAlbum, vars

\* What is counted while nothing blurs it fits: the dialog, when it adds a file, ...
LEMMA AddedFits ==
  ASSUME AllTypes, FetchInv, CountInv, NEW f \in Files, Adds(f), Quiet', Quiet,
         Quiet => QuietInv
  PROVE  CountInv'
<1> USE DEF AllTypes
<1>1. UNCHANGED <<row, albums, dialog, upload>> /\ dialog.album \in Albums \cup {None}
  BY DEF Adds, AddFile, server, DialogTypes
<1>2. CASE dialog.album = None
  BY <1>1, <1>2 DEF CountInv, Sending, Fits, InAlbum, Sent
<1>3. CASE dialog.album # None
  <2>1. PICK n \in 0..Cardinality(Listed) :
          /\ AddFile(f, IF dialog.album = None THEN 0 ELSE n)
          /\ Blur(dialog.album # None /\ (Busy \/ selectedAlbum # dialog.album \/ n < Cardinality(Listed)))
    BY DEF Adds
  <2>2. ~Busy /\ selectedAlbum = dialog.album /\ n = Cardinality(Listed) /\ n \in Nat
    <3>1. Listed \in SUBSET Files
      BY DEF Listed, Viewed
    <3>2. Cardinality(Listed) \in Nat
      BY <3>1, QueueAssumption, FS_Subset, FS_CardinalityType
    <3>3. ~(Busy \/ selectedAlbum # dialog.album \/ n < Cardinality(Listed))
      <4> DEFINE b == Busy \/ selectedAlbum # dialog.album \/ n < Cardinality(Listed)
      <4>1. Blur(dialog.album # None /\ b)
        BY <2>1
      <4> HIDE DEF b
      <4>2. ~b
        BY <1>3, <4>1 DEF Blur, Quiet
      <4>3. QED
        BY <4>2 DEF b
    <3>4. QED
      BY <3>2, <3>3
  <2>3. view = Snapshot
    <3>1. seen # "behind"
      BY <2>2 DEF FetchInv, WillFetch, Busy, Free
    <3>2. seen = "fresh"
      BY <3>1 DEF QuietInv
    <3>3. QED
      BY <3>2 DEF FetchInv, Quiet
  <2>4. Listed = InAlbum(dialog.album)
    BY <1>1, <1>3, <2>2, <2>3, QueueAssumption DEF Listed, Viewed, InAlbum, Snapshot
  <2>5. Queued' = Queued \cup {f} /\ f \notin Queued
    BY <2>1 DEF AddFile, Queued, DialogTypes
  <2>6. Cardinality(InAlbum(dialog.album) \cup (Queued \cup {f})) <= Limit
    <3>1. /\ IsFiniteSet(InAlbum(dialog.album)) /\ IsFiniteSet(Queued)
      BY SetsAreFiles, QueueAssumption, FS_Subset
    <3>2. IsFiniteSet(Queued \cup {f}) /\ Cardinality(Queued \cup {f}) = Cardinality(Queued) + 1
      BY <2>5, <3>1, FS_AddElement
    <3>3. Cardinality(InAlbum(dialog.album) \cup (Queued \cup {f})) =
            Cardinality(InAlbum(dialog.album)) + Cardinality(Queued \cup {f})
              - Cardinality(InAlbum(dialog.album) \cap (Queued \cup {f}))
      BY <3>1, <3>2, FS_Union
    <3>4. /\ Cardinality(InAlbum(dialog.album) \cap (Queued \cup {f})) \in Nat
          /\ Cardinality(Queued) \in Nat
      <4>1. IsFiniteSet(InAlbum(dialog.album) \cap (Queued \cup {f}))
        BY <3>1, FS_Subset
      <4>2. QED
        BY <3>1, <4>1, FS_CardinalityType
    <3>5. n + Cardinality(Queued) + 1 <= Limit
      BY <1>3, <2>1 DEF AddFile, HasRoom
    <3>6. QED
      BY <2>2, <2>4, <3>2, <3>3, <3>4, <3>5, QueueAssumption
  <2>7. \A c \in Calls : ~Sending(c)'
    BY <1>1, <2>2 DEF Busy, Free, Sending
  <2>8. InAlbum(dialog.album)' = InAlbum(dialog.album) /\ \A a \in Albums : Fits(a, {})'
    BY <1>1 DEF InAlbum, CountInv, Fits
  <2>9. QED
    BY <1>1, <2>5, <2>6, <2>7, <2>8 DEF CountInv, Fits
<1>4. QED
  BY <1>2, <1>3

\* ... when it opens, with an empty queue, ...
LEMMA OpenedFits ==
  ASSUME AllTypes, UploadsInv, CountInv, OpenDialog(selectedAlbum)
  PROVE  CountInv'
<1>1. Queued = {} /\ Queued' = {} /\ UNCHANGED <<row, upload>>
  BY DEF OpenDialog, UploadsInv, Queued, Empty, server
<1>2. dialog'.album \in Albums \cup {None}
  BY DEF OpenDialog, AllTypes, PageTypes
<1>3. \A a \in Albums : Fits(a, {})' /\ Fits(a, {})
  BY <1>1 DEF CountInv, Fits, InAlbum
<1>4. \A c \in Calls : Sending(c)' => /\ Fits(upload[c].album, Sent(c))'
                                      /\ Fits(upload[c].album, Sent(c) \cup Queued)'
  <2>1. ASSUME NEW c \in Calls, Sending(c)'
        PROVE  Fits(upload[c].album, Sent(c))
    BY <1>1, <2>1 DEF CountInv, Sending
  <2>2. \A c \in Calls : /\ Sent(c)' = Sent(c) /\ (Sent(c) \cup Queued)' = Sent(c)
                         /\ InAlbum(upload[c].album)' = InAlbum(upload[c].album)
    BY <1>1 DEF Sent, InAlbum
  <2>3. QED
    BY <2>1, <2>2 DEF Fits
<1>5. dialog'.album # None => Fits(dialog.album, Queued)'
  BY <1>1, <1>2, <1>3 DEF Fits
<1>6. QED
  BY <1>3, <1>4, <1>5 DEF CountInv

\* ... and when it sends what it has counted.
LEMMA StartedFits ==
  ASSUME AllTypes, UploadsInv, CountInv, NEW c \in Calls, Starts(c), Quiet', Quiet
  PROVE  CountInv'
<1> USE DEF AllTypes
<1>1. StartUpload(c) /\ ~Busy
  BY DEF Starts, Blur, Quiet
<1>2. /\ Queued' = Queued /\ dialog' = dialog /\ row' = row
      /\ upload'[c].album = dialog.album /\ Sent(c)' \subseteq Queued
      /\ \A d \in Calls \ {c} : ~Sending(d)'
  BY <1>1, Starting, QueueKept DEF server, Sent, Busy, Free, Sending
<1>3. \A a : InAlbum(a)' = InAlbum(a)
  BY <1>2 DEF InAlbum
<1>4. Sent(c)' \cup Queued' = Queued
  BY <1>2
<1>5. dialog.album # None => Fits(dialog.album, Queued)'
  BY <1>2, <1>3 DEF CountInv, Fits
<1>6. ASSUME dialog.album # None
      PROVE  Fits(upload[c].album, Sent(c))' /\ Fits(upload[c].album, Sent(c) \cup Queued)'
  <2>1. Cardinality(InAlbum(dialog.album) \cup Queued) <= Limit
    BY <1>6 DEF CountInv, Fits
  <2>2. InAlbum(dialog.album) \cup Sent(c)' \in SUBSET (InAlbum(dialog.album) \cup Queued)
    BY <1>2
  <2>3. Cardinality(InAlbum(dialog.album) \cup Sent(c)') <= Limit
    BY <2>1, <2>2, Smaller, SetsAreFiles
  <2>4. InAlbum(upload[c].album)' = InAlbum(dialog.album)
    BY <1>2 DEF InAlbum
  <2>5. QED
    BY <1>4, <2>1, <2>3, <2>4 DEF Fits
<1>7. \A a \in Albums : Fits(a, {})'
  BY <1>3 DEF CountInv, Fits
<1>8. QED
  BY <1>2, <1>5, <1>6, <1>7 DEF CountInv, Sending

\* The server's assignments, of a handler and of an upload, keep the limit.
LEMMA AssignedFits ==
  ASSUME AllTypes, NEW a \in Albums, NEW F \in SUBSET Files, MayAssign(a, F), NEW b \in Albums,
         row' = [f \in Files |-> IF f \in F THEN a ELSE row[f]]
  PROVE  /\ InAlbum(b)' = IF b = a THEN InAlbum(a) \cup F ELSE InAlbum(b) \ F
         /\ Cardinality(InAlbum(a) \cup F) <= Limit
<1>1. InAlbum(b)' = IF b = a THEN InAlbum(a) \cup F ELSE InAlbum(b) \ F
  BY DEF InAlbum, AllTypes, ServerTypes
<1>2. Cardinality(InAlbum(a) \cup F) \in Nat /\ Limit \in Nat
  BY SetsAreFiles, FS_Subset, FS_CardinalityType, QueueAssumption
<1>3. QED
  BY <1>1, <1>2 DEF MayAssign, OverLimit

LEMMA ChangedFits ==
  ASSUME AllTypes, UploadsInv, QuietInv, NEW c \in Calls, Change(c)
  PROVE  CountInv'
<1> USE DEF AllTypes
<1>1. CountInv /\ UNCHANGED uploader /\ call[c] \in CallRecords /\ Does(call[c]) /\ Serves(call[c])
  BY DEF QuietInv, Change, CallTypes
<1>2. \A d \in Calls : ~Sending(d)'
  <2>1. call[c].pc = "change" /\ upload[c].pc = "idle"
    BY DEF Change, Exclusive
  <2>2. QED
    BY <1>1, <2>1 DEF QuietInv, Free, Sending, uploader
<1>3. Queued' = Queued /\ dialog' = dialog
  BY <1>1 DEF uploader, Queued
<1>4. CASE call[c].op # "assign"
  <2>1. \A a \in Albums : InAlbum(a)' \subseteq InAlbum(a)
    BY <1>1, <1>4, QueueAssumption DEF InAlbum, Does, ServerTypes
  <2>2. QED
    BY <1>1, <1>2, <1>3, <2>1, FewerFit
<1>5. CASE call[c].op = "assign"
  <2>0. call[c].album \in Albums /\ call[c].of \in SUBSET Files
    BY <1>1, <1>5 DEF Serves, Refuses, Removals, MayAssign, Stored, ServerTypes
  <2>1. PICK a \in Albums, F \in SUBSET Files : a = call[c].album /\ F = call[c].of
    BY <2>0
  <2>2. MayAssign(a, F) /\ row' = [f \in Files |-> IF f \in F THEN a ELSE row[f]]
    BY <1>1, <1>5, <2>1 DEF Does, Serves, Refuses, Removals
  <2>a. \A b \in Albums : /\ InAlbum(b)' = IF b = a THEN InAlbum(a) \cup F ELSE InAlbum(b) \ F
                          /\ Cardinality(InAlbum(a) \cup F) <= Limit
    BY <2>2, AssignedFits
  <2>3. \A b \in Albums : Fits(b, {})'
    <3>1. ASSUME NEW b \in Albums
          PROVE  Fits(b, {})'
      <4>1. CASE b = a
        BY <2>a, <4>1 DEF Fits
      <4>2. CASE b # a
        <5>1. InAlbum(b)' \cup {} \in SUBSET (InAlbum(b) \cup {}) /\ Cardinality(InAlbum(b) \cup {}) <= Limit
          BY <1>1, <2>a, <4>2 DEF CountInv, Fits
        <5>2. QED
          BY <5>1, Smaller, SetsAreFiles DEF Fits
      <4>3. QED
        BY <4>1, <4>2
    <3>2. QED
      BY <3>1
  <2>4. Queued = {} \/ dialog.album = None
    BY <1>5 DEF QuietInv, Change
  <2>5. dialog'.album # None => Fits(dialog.album, Queued)'
    <3>1. dialog.album \in Albums \cup {None}
      BY DEF DialogTypes
    <3>2. dialog'.album # None => Queued' = {} /\ dialog'.album \in Albums
      BY <1>3, <2>4, <3>1
    <3>3. \A b \in Albums : b = dialog'.album /\ Queued' = {} => Fits(dialog.album, Queued)'
      BY <2>3 DEF Fits, InAlbum
    <3>4. QED
      BY <3>2, <3>3
  <2>6. QED
    BY <1>2, <2>3, <2>5 DEF CountInv
<1>6. QED
  BY <1>4, <1>5

LEMMA AssociatedFits ==
  ASSUME AllTypes, UploadsInv, QuietInv, NEW c \in Calls, Associated(c)
  PROVE  CountInv'
<1> USE DEF AllTypes
<1>0. PICK a, F : a = upload[c].album /\ F = upload[c].good
  OBVIOUS
<1>1. /\ upload[c].pc = "associate" /\ upload' = [upload EXCEPT ![c] = NoUpload]
      /\ UNCHANGED <<dialog, status>> /\ MayAssign(a, F)
      /\ row' = [f \in Files |-> IF f \in F THEN a ELSE row[f]]
  BY <1>0 DEF Associated, Associating, Assign
<1>2. a \in Albums /\ F \in SUBSET Files /\ F \subseteq Sent(c) /\ CountInv
  BY <1>0, <1>1 DEF MayAssign, ServerTypes, UploadTypes, UploadRecords, Sent, QuietInv
<1>3. \A d \in Calls : ~Sending(d)'
  BY <1>1 DEF QuietInv, Free, Sending, UploadTypes, NoUpload
<1>4. Fits(a, F) /\ (dialog.album = a => Fits(a, Sent(c) \cup Queued)) /\ a # None
  <2>1. a # None
    BY <1>2, QueueAssumption
  <2>2. InAlbum(a) \cup F \in SUBSET (InAlbum(a) \cup Sent(c)) /\ Fits(a, Sent(c))
    BY <1>0, <1>1, <1>2, <2>1 DEF CountInv, Sending
  <2>3. QED
    BY <1>0, <1>1, <1>2, <2>1, <2>2, Smaller, SetsAreFiles DEF CountInv, Sending, Fits
<1>5. Queued' = Queued /\ dialog' = dialog
  BY <1>1 DEF Queued
<1>a. \A b \in Albums : /\ InAlbum(b)' = IF b = a THEN InAlbum(a) \cup F ELSE InAlbum(b) \ F
                        /\ Cardinality(InAlbum(a) \cup F) <= Limit
  BY <1>1, <1>2, AssignedFits
<1>6. ASSUME NEW b \in Albums
      PROVE  Fits(b, {})'
  <2>1. CASE b = a
    BY <1>a, <2>1 DEF Fits
  <2>2. CASE b # a
    <3>1. InAlbum(b)' \cup {} \in SUBSET (InAlbum(b) \cup {}) /\ Cardinality(InAlbum(b) \cup {}) <= Limit
      BY <1>2, <1>a, <2>2 DEF CountInv, Fits
    <3>2. QED
      BY <3>1, Smaller, SetsAreFiles DEF Fits
  <2>3. QED
    BY <2>1, <2>2
<1>7. ASSUME dialog'.album # None
      PROVE  Fits(dialog.album, Queued)'
  <2>1. dialog.album \in Albums
    BY <1>5, <1>7 DEF DialogTypes
  <2>2. CASE dialog.album = a
    <3>1. InAlbum(a)' \cup Queued \in SUBSET (InAlbum(a) \cup (Sent(c) \cup Queued))
      BY <1>2, <1>a
    <3>2. Cardinality(InAlbum(a)' \cup Queued) <= Limit
      BY <1>4, <2>2, <3>1, Smaller, SetsAreFiles DEF Fits
    <3>3. InAlbum(dialog.album)' = InAlbum(a)'
      BY <1>5, <2>2 DEF InAlbum
    <3>4. QED
      BY <1>5, <3>2, <3>3 DEF Fits
  <2>3. CASE dialog.album # a
    <3>1. InAlbum(dialog.album)' = {f \in Files : row'[f] = dialog.album}
      BY <1>5 DEF InAlbum
    <3>2. InAlbum(dialog.album)' \cup Queued \in SUBSET (InAlbum(dialog.album) \cup Queued)
      BY <1>1, <2>1, <2>3, <3>1 DEF InAlbum
    <3>3. Fits(dialog.album, Queued)
      BY <1>2, <2>1, QueueAssumption DEF CountInv
    <3>4. QED
      BY <1>5, <3>2, <3>3, Smaller, SetsAreFiles DEF Fits
  <2>4. QED
    BY <2>2, <2>3
<1>8. QED
  BY <1>3, <1>6, <1>7 DEF CountInv

LEMMA UploadsFit ==
  ASSUME AllTypes, UploadsInv, CountInv, ~Fault, NEW c \in Calls,
         Uploads(c) \/ UploadsDone(c) \/ NotAssociated(c)
  PROVE  CountInv'
<1> USE DEF AllTypes, UploadTypes, UploadRecords
<1>1. ASSUME NEW f \in Files, Accept(c, f)
      PROVE  CountInv'
  <2>1. Answered(c, f, TRUE, TRUE)
    BY <1>1 DEF Accept
  <2>2. \A a \in Albums : InAlbum(a)' \subseteq InAlbum(a)
    BY <2>1, QueueAssumption DEF Answered, InAlbum, ServerTypes
  <2>3. Queued' = Queued /\ dialog' = dialog
    BY <2>1 DEF Answered, Queued
  <2>4. f \in upload[c].batch
    BY <2>1 DEF Answered, UploadsInv
  <2>5. \A d \in Calls : /\ upload'[d].pc = upload[d].pc /\ upload'[d].album = upload[d].album
                         /\ Sent(d)' \subseteq Sent(d)
    BY <2>1, <2>4 DEF Answered, Sent
  <2>6. QED
    BY <2>2, <2>3, <2>5, FewerFit DEF Sending
<1>2. ASSUME UNCHANGED <<row, dialog>>, Queued' = Queued,
             \A d \in Calls \ {c} : upload'[d] = upload[d],
             Sending(c)' => Sending(c) /\ upload'[c].album = upload[c].album /\ Sent(c)' \subseteq Sent(c)
      PROVE  CountInv'
  <2>1. \A a \in Albums : InAlbum(a)' \subseteq InAlbum(a)
    BY <1>2 DEF InAlbum
  <2>2. \A d \in Calls : Sending(d)' => /\ Sending(d) /\ upload'[d].album = upload[d].album
                                        /\ Sent(d)' \subseteq Sent(d)
    BY <1>2 DEF Sending, Sent
  <2>3. QED
    BY <1>2, <2>1, <2>2, FewerFit
<1>3. CASE NextBatch(c)
  <2>1. UNCHANGED <<row, dialog>> /\ Queued' = Queued /\ \A d \in Calls \ {c} : upload'[d] = upload[d]
    BY <1>3, QueueKept, Continuing DEF server
  <2>2. /\ upload'[c].album = upload[c].album /\ upload[c].pc = "batch"
        /\ Sent(c)' \subseteq Sent(c)
    BY <1>3, Continuing DEF Sent, NextBatch, BatchOver
  <2>3. QED
    BY <1>2, <2>1, <2>2 DEF Sending
<1>4. CASE SendAssociate(c)
  <2>1. UNCHANGED <<row, dialog>> /\ Queued' = Queued /\ \A d \in Calls \ {c} : upload'[d] = upload[d]
    BY <1>4, QueueKept DEF SendAssociate, server
  <2>2. /\ upload'[c].album = upload[c].album /\ upload[c].pc = "batch"
        /\ Sent(c)' \subseteq Sent(c)
    BY <1>4 DEF Sent, SendAssociate, BatchOver, NoUpload
  <2>3. QED
    BY <1>2, <2>1, <2>2 DEF Sending
<1>5. CASE UploadsDone(c)
  <2>1. UNCHANGED <<row, dialog>> /\ Queued' = Queued /\ \A d \in Calls \ {c} : upload'[d] = upload[d]
    BY <1>5, QueueKept DEF UploadsDone, server
  <2>2. ~Sending(c)'
    BY <1>5 DEF UploadsDone, Sending, NoUpload
  <2>3. QED
    BY <1>2, <2>1, <2>2
<1>6. CASE NotAssociated(c)
  <2>1. UNCHANGED <<row, dialog, status>> /\ upload' = [upload EXCEPT ![c] = NoUpload]
    BY <1>6 DEF NotAssociated, Associating, server
  <2>2. ~Sending(c)' /\ Queued' = Queued /\ \A d \in Calls \ {c} : upload'[d] = upload[d]
    BY <2>1 DEF Sending, NoUpload, Queued
  <2>3. QED
    BY <1>2, <2>1, <2>2
<1>7. QED
  BY <1>1, <1>3, <1>4, <1>5, <1>6 DEF Uploads, Fail

LEMMA CountKept ==
  ASSUME AllTypes, UploadsInv, FetchInv, [Next]_vars, Quiet', Quiet, QuietInv
  PROVE  CountInv'
<1> USE DEF AllTypes
<1>1. CountInv /\ ~Fault
  BY QuietBefore DEF QuietInv
<1>2. ASSUME UNCHANGED row, Queued' \subseteq Queued, dialog'.album \in {dialog.album, None},
             \A c \in Calls : /\ upload'[c].pc = upload[c].pc /\ upload'[c].album = upload[c].album
                              /\ Sent(c)' = Sent(c)
      PROVE  CountInv'
  <2>1. \A a \in Albums : InAlbum(a)' \subseteq InAlbum(a)
    BY <1>2 DEF InAlbum
  <2>2. QED
    BY <1>1, <1>2, <2>1, FewerFit DEF Sending
<1>3. CASE UNCHANGED <<row, uploader>>
  BY <1>2, <1>3 DEF uploader, Queued, Sent
<1>4. CASE UseDialog
  <2>1. CASE OpenDialog(selectedAlbum)
    BY <1>1, <2>1, OpenedFits
  <2>2. CASE CloseDialog
    <3>1. UNCHANGED row /\ Queued' = {} /\ dialog'.album = None
      BY <2>2 DEF CloseDialog, server, Queued, Empty
    <3>2. \A c \in Calls : /\ upload'[c].pc = upload[c].pc /\ upload'[c].album = upload[c].album
                           /\ Sent(c)' = Sent(c)
      BY <2>2 DEF CloseDialog, UploadTypes, UploadRecords, Sent
    <3>3. QED
      BY <1>2, <3>1, <3>2
  <2>3. ASSUME ClearAll \/ \E f \in Files : RemoveFile(f)
        PROVE  CountInv'
    <3>1. UNCHANGED <<row, dialog, upload>> /\ Queued' \subseteq Queued
      BY <2>3 DEF ClearAll, RemoveFile, server, Queued, Empty, DialogTypes
    <3>2. QED
      BY <1>2, <3>1 DEF Sent
  <2>4. ASSUME NEW f \in Files, Adds(f)
        PROVE  CountInv'
    BY <1>1, <2>4, AddedFits
  <2>5. QED
    BY <1>4, <2>1, <2>2, <2>3, <2>4 DEF UseDialog
<1>5. ASSUME NEW c \in Calls, Handle(c)
      PROVE  CountInv'
  <2>1. CASE Starts(c)
    BY <1>1, <2>1, StartedFits
  <2>2. CASE ~Starts(c)
    BY <1>3, <1>5, <2>2, HandlersBegin DEF Handle, Begin, server
  <2>3. QED
    BY <2>1, <2>2
<1>6. ASSUME NEW c \in Calls, Continue(c)
      PROVE  CountInv'
  <2>1. CASE Change(c)
    BY <2>1, ChangedFits
  <2>2. CASE ChangeFails(c) \/ Read(c) \/ Deliver(c) \/ Finish(c) \/ FetchFails(c)
    BY <1>1, <1>3, <2>2 DEF ChangeFails, EndWithError, Read, Deliver, Finish, FetchFails, server
  <2>3. CASE Uploads(c)
    BY <1>1, <2>3, UploadsFit
  <2>4. CASE Uploaded(c)
    BY <1>1, <2>4, UploadsFit, AssociatedFits DEF Uploaded
  <2>5. QED
    BY <1>6, <2>1, <2>2, <2>3, <2>4 DEF Continue
<1>7. QED
  BY <1>1, <1>3, <1>4, <1>5, <1>6 DEF Next, Elsewhere, SelectAlbum, vars, server

-----------------------------------------------------------------------------
(* The theorems.                                                            *)

LEMMA BucketStep ==
  ASSUME BucketInv, [Next]_vars
  PROVE  BucketInv'
<1>1. AllTypes /\ UploadsInv /\ FetchInv
  BY TypesAre DEF BucketInv
<1>2. AllTypes' /\ UploadsInv' /\ FetchInv' /\ ShownAlbumIsThere' /\ OverlayLifts'
  BY <1>1, TypesKept, UploadsKept, FetchKept, AlbumStays, OverlayStays DEF BucketInv
<1>3. ASSUME Quiet'
      PROVE  QuietInv'
  <2>1. Quiet /\ QuietInv
    BY <1>1, <1>3, QuietBefore DEF BucketInv
  <2>2. /\ ~crowded'
        /\ \A c, d \in Calls : ~Free(c)' /\ ~Free(d)' => c = d
        /\ seen' \in {"fresh", "behind"} /\ \A c \in Calls : call'[c].pc = "answer" => call'[c].fresh
        /\ \A c \in Calls : call'[c].pc = "change" /\ call'[c].op = "assign" =>
             Queued' = {} \/ dialog'.album = None
    BY <1>1, <1>3, <2>1, NotCrowded, OnlyOne, NotOvertaken, NothingAssigned
  <2>3. CountInv'
    BY <1>1, <1>3, <2>1, CountKept
  <2>4. QED
    BY <2>2, <2>3 DEF QuietInv
<1>4. QED
  BY <1>2, <1>3, TypesAre DEF BucketInv

LEMMA BucketInit ==
  ASSUME Init
  PROVE  BucketInv
<1> USE DEF Init, QueueInit
<1>0. PICK c \in Calls : call = [d \in Calls |-> IF d = c THEN Fetch ELSE NoCall]
  OBVIOUS
<1>1. AllTypes
  <2>1. ServerTypes /\ PageTypes
    BY Records DEF ServerTypes, PageTypes
  <2>2. DialogTypes /\ UploadTypes /\ CallTypes /\ Exclusive
    BY <1>0, Records DEF DialogTypes, UploadTypes, CallTypes, Exclusive, Empty, Statuses, NoUpload
  <2>3. CountTypes
    <3>1. begun = 0 /\ faults = 0 /\ MaxBegun \in Nat /\ MaxFaults \in Nat
      BY QueueAssumption, PageAssumption
    <3>2. begun \in 0..MaxBegun /\ faults \in 0..MaxFaults
      BY <3>1
    <3>3. QED
      BY <3>2 DEF CountTypes
  <2>4. QED
    BY <2>1, <2>2, <2>3 DEF AllTypes
<1>2. UploadsInv
  BY DEF UploadsInv, NoUpload, Empty
<1>3. call[c].pc = "read" /\ \A d \in Calls : d # c => call[d].pc = "idle"
  BY <1>0 DEF Fetch, NoCall
<1>4. FetchInv
  BY <1>3 DEF FetchInv, WillFetch
<1>5. ShownAlbumIsThere /\ OverlayLifts
  BY <1>3 DEF ShownAlbumIsThere, OverlayLifts, Busy, Free
<1>6. Queued = {} /\ \A d \in Calls : upload[d].pc = "idle"
  BY DEF Queued, Empty, NoUpload
<1>7. CountInv
  BY <1>6 DEF CountInv, Fits, Sending
<1>8. QuietInv
  BY <1>3, <1>6, <1>7 DEF QuietInv, Free
<1>9. QED
  BY <1>1, <1>2, <1>4, <1>5, <1>8, TypesAre DEF BucketInv

\* The page's state at any time: the invariant the other theorems follow from.
THEOREM BucketInvariant == Spec => []BucketInv
BY BucketInit, BucketStep, PTL DEF Spec

\* PageInv: the album that is shown is one of the view's, an album refuses what the dialog let the
\* user add only when the count was blurred, and the overlay is lifted once nothing is under way.
THEOREM PageKeepsItsPromises == Spec => []PageInv
<1>1. BucketInv => PageInv
  BY TypesAre DEF BucketInv, PageInv, RefusalsExplained, QuietInv, Quiet, AllTypes, CountTypes
<1>2. QED
  BY <1>1, BucketInvariant, PTL

\* ShowsItsChanges: when nothing is under way, every change the page was told of was fetched again
\* or the fetch failed, and undisturbed the page shows the bucket.
THEOREM PageShowsItsChanges == Spec => []ShowsItsChanges
<1>1. BucketInv => ShowsItsChanges
  BY DEF BucketInv, FetchInv, WillFetch, ShowsItsChanges, Busy, Free
<1>2. QED
  BY <1>1, BucketInvariant, PTL

\* StatusFollowsUploads: a file shows as uploading exactly when one batch of this dialog has it.
THEOREM StatusIsOfUploads == Spec => []StatusFollowsUploads
<1>1. ASSUME BucketInv
      PROVE  StatusFollowsUploads
  <2> SUFFICES ASSUME NEW f \in Files
               PROVE  status[f] = "uploading" <=>
                        Cardinality({c \in Calls : upload[c].pc = "batch" /\ upload[c].mounted
                                                   /\ f \in upload[c].batch}) = 1
    BY DEF StatusFollowsUploads
  <2> DEFINE With == {c \in Calls : upload[c].pc = "batch" /\ upload[c].mounted /\ f \in upload[c].batch}
  <2>0. UploadsInv
    BY <1>1 DEF BucketInv
  <2>1. \A c, d \in With : c = d
    BY <2>0 DEF UploadsInv
  <2>2. \A c \in With : status[f] = "uploading"
    BY <2>0 DEF UploadsInv
  <2>3. status[f] = "uploading" => \E c \in Calls : c \in With
    BY <2>0 DEF UploadsInv
  <2>4. CASE With = {}
    <3>1. Cardinality(With) = 0
      BY <2>4, FS_EmptySet
    <3>2. QED
      BY <2>3, <2>4, <3>1
  <2>5. CASE With # {}
    <3>1. PICK c \in With : TRUE
      BY <2>5
    <3>2. With = {c}
      BY <2>1, <3>1
    <3>3. Cardinality(With) = 1
      BY <3>2, FS_Singleton
    <3>4. QED
      BY <2>2, <3>1, <3>3
  <2>6. QED
    BY <2>4, <2>5
<1>2. QED
  BY <1>1, BucketInvariant, PTL

\* NeverSentTwice: what this dialog has uploaded stays so until it leaves the queue.
THEOREM UploadedIsNotSentAgain == Spec => NeverSentTwice
<1>1. ASSUME BucketInv, [Next]_vars
      PROVE  [\A f \in Files : status[f] = "completed" => status'[f] \in {"completed", "none"}]_vars
  <2>0. AllTypes /\ UploadsInv
    BY <1>1, TypesAre DEF BucketInv
  <2> SUFFICES ASSUME NEW f \in Files, status[f] = "completed"
               PROVE  status'[f] \in {"completed", "none"}
    OBVIOUS
  <2>1. CASE status' = status
    BY <2>1
  <2>2. CASE UseDialog
    BY <2>0, <2>2 DEF UseDialog, OpenDialog, CloseDialog, ClearAll, RemoveFile, Adds, AddFile, Empty,
                      AllTypes, DialogTypes, Queued
  <2>3. ASSUME NEW c \in Calls, StartUpload(c)
        PROVE  status'[f] = "completed"
    BY <2>0, <2>3, Starting DEF Uploadable
  <2>4. ASSUME NEW c \in Calls
        PROVE  Results(upload[c])[f] = "completed"
    BY <2>0 DEF Results, UploadsInv
  <2>5. ASSUME NEW c \in Calls, NextBatch(c)
        PROVE  status'[f] = "completed"
    BY <2>0, <2>4, <2>5, Continuing DEF UploadsInv
  <2>6. ASSUME NEW c \in Calls, SendAssociate(c) \/ UploadsDone(c)
        PROVE  status'[f] = "completed"
    BY <2>4, <2>6 DEF SendAssociate, UploadsDone
  <2>7. ASSUME NEW c \in Calls, Handle(c), ~Starts(c)
        PROVE  status' = status
    BY <2>0, <2>7, HandlersBegin DEF Handle, Begin, uploader, AllTypes
  <2>8. ASSUME NEW c \in Calls, Continue(c), ~NextBatch(c), ~SendAssociate(c), ~UploadsDone(c)
        PROVE  status' = status
    BY <2>8 DEF Continue, Change, ChangeFails, EndWithError, Read, Deliver, Finish, FetchFails, Uploads,
                Accept, Fail, Answered, Uploaded, Associated, NotAssociated, Associating, uploader
  <2>9. QED
    BY <1>1, <2>1, <2>2, <2>3, <2>5, <2>6, <2>7, <2>8
    DEF Next, Starts, Elsewhere, SelectAlbum, uploader, vars
<1>2. QED
  BY <1>1, BucketInvariant, PTL DEF Spec, NeverSentTwice
-----------------------------------------------------------------------------
(* BucketAccess                                                             *)

\* Who has nothing under way; only the page of the bucket fetches.
PagesFit ==
  \A t \in Tabs :
    /\ act[t].pc = "idle" <=> act[t] = NoAct
    /\ act[t].pc # "idle" => act[t].op # "none"
    /\ own[t].op = "fetch" => path[t] = "bucket" /\ auth[t] = "yes"
    /\ own[t].op # "none" => path[t] # "away"

\* The session names a bucket that is there, or none.
Sound == SessionToken \in There \cup {Nothing}

\* What a handler has read is still so: it is the only one under way.
ActFits(t) ==
  /\ act[t].op \in {"none", "submit", "create"} => Sound
  /\ act[t].op = "submit" /\ act[t].pc = "found" =>
       act[t].b \in There /\ act[t].sid = Sid(t) /\ act[t].had = SessionToken
  /\ act[t].op = "submit" /\ act[t].pc = "ok" =>
       act[t].b \in There /\ act[t].sid \in Sids /\ store[act[t].sid] = act[t].b
  /\ act[t].op = "delete" /\ act[t].pc # "ok" => Sound
  /\ act[t].op = "delete" /\ act[t].pc = "found" => act[t].b = SessionToken /\ act[t].b \in There
  /\ act[t].op = "close" => act[t].pc # "refused"
  /\ act[t].op = "close" /\ act[t].pc = "found" => act[t].sid = Sid(t) /\ act[t].had = SessionToken
  /\ act[t].op = "close" /\ act[t].pc = "ok" => SessionToken = Nothing

CalmFits ==
  Calm =>
    /\ \A t, u \in Tabs : act[t].pc # "idle" /\ act[u].pc # "idle" => t = u
    /\ (\A t \in Tabs : act[t].pc = "idle") => Sound
    /\ \A t \in Tabs : act[t].pc # "idle" => ActFits(t)

AccessInv == AccessTypeOK /\ PagesFit /\ CalmFits


\* The parts of the type, and of what fits, that are about the server, the pages and the handlers.
ServerType ==
  /\ bucket \in [Buckets -> {"unmade", "there", "gone"}]
  /\ mine \in Buckets \cup {Nothing} /\ (mine # Nothing => bucket[mine] = "there")
  /\ store \in [Sids -> Buckets \cup {Nothing, Lost}] /\ cookie \in Sids \cup {Nothing}
  /\ acts \in 0..MaxActs /\ mishaps \in 0..MaxMishaps /\ foreign \in 0..MaxForeign
  /\ crossed \in BOOLEAN

PagesType ==
  /\ path \in [Tabs -> {"away", "access", "bucket"}]
  /\ auth \in [Tabs -> {"unknown", "yes", "no"}]
  /\ shown \in [Tabs -> Buckets \cup {Nothing}]
  /\ own \in [Tabs -> [op : {"none", "check", "fetch"}, pc : {"idle", "sent", "answered"},
                       got : Buckets \cup {Nothing}]]
  /\ \A t \in Tabs :
       /\ shown[t] # Nothing => path[t] = "bucket" /\ auth[t] = "yes"
       /\ path[t] = "bucket" /\ auth[t] = "unknown" => own[t].op = "check"
       /\ own[t].op = "fetch" => path[t] = "bucket" /\ auth[t] = "yes"
       /\ own[t].op # "none" => path[t] # "away"

ActsType ==
  /\ act \in [Tabs -> [op : {"none", "submit", "create", "delete", "close"},
                       pc : {"idle", "sent", "found", "ok", "refused"},
                       b : Buckets \cup {Nothing}, sid : Sids \cup {Nothing},
                       had : Buckets \cup {Nothing}]]
  /\ \A t \in Tabs :
       /\ act[t].pc = "idle" <=> act[t] = NoAct
       /\ act[t].pc # "idle" => act[t].op # "none"

LEMMA TypeParts == AccessTypeOK /\ PagesFit <=> ServerType /\ PagesType /\ ActsType
BY DEF AccessTypeOK, PagesFit, ServerType, PagesType, ActsType

\* The pages, when they alone move, when they come up, and when they learn.
LEMMA ArrivePages ==
  ASSUME PagesType, NEW t \in Tabs, NEW p \in {"away", "access", "bucket"}, Arrive(t, p)
  PROVE  PagesType'
BY DEF PagesType, Arrive, NoOwn, Check

LEMMA LearnPages ==
  ASSUME PagesType, NEW t \in Tabs, NEW yes \in BOOLEAN, own[t].op = "check", Learn(t, yes)
  PROVE  PagesType'
<1>1. CASE path[t] = "access" /\ yes
  BY <1>1, ArrivePages DEF Learn
<1>2. CASE path[t] # "access" /\ ~yes
  BY <1>2, ArrivePages DEF Learn
<1>3. CASE path[t] = "access" /\ ~yes
  <2>1. auth' = [auth EXCEPT ![t] = "no"] /\ own' = [own EXCEPT ![t] = NoOwn] /\ UNCHANGED <<path, shown>>
    BY <1>3 DEF Learn
  <2> QED
    BY <1>3, <2>1 DEF PagesType, NoOwn
<1>4. CASE path[t] # "access" /\ yes
  <2>1. auth' = [auth EXCEPT ![t] = "yes"] /\ own' = [own EXCEPT ![t] = FetchBucket] /\ UNCHANGED <<path, shown>>
    BY <1>4 DEF Learn, AfterYes
  <2>2. path[t] = "bucket"
    BY <1>4 DEF PagesType
  <2> QED
    BY <2>1, <2>2 DEF PagesType, FetchBucket
<1> QED
  BY <1>1, <1>2, <1>3, <1>4

LEMMA ShowPages ==
  ASSUME PagesType, NEW t \in Tabs, NEW b \in Buckets \cup {Nothing}, own[t].op # "check",
         own[t].op = "fetch" \/ b = Nothing, Show(t, b)
  PROVE  PagesType'
BY DEF PagesType, Show, NoOwn
LEMMA AnswerPages ==
  ASSUME PagesType, NEW t \in Tabs, NEW b \in Buckets \cup {Nothing}, UNCHANGED <<path, auth, shown>>,
         own' = [own EXCEPT ![t].pc = "answered", ![t].got = b]
  PROVE  PagesType'
<1> DEFINE r == [own[t] EXCEPT !.pc = "answered", !.got = b]
<1>1. r \in [op : {"none", "check", "fetch"}, pc : {"idle", "sent", "answered"}, got : Buckets \cup {Nothing}]
  BY DEF PagesType
<1>2. own' = [own EXCEPT ![t] = r] /\ r.op = own[t].op
  BY DEF PagesType
<1> QED
  BY <1>1, <1>2 DEF PagesType

\* What a handler may be.
ActType ==
  [op : {"none", "submit", "create", "delete", "close"},
   pc : {"idle", "sent", "found", "ok", "refused"},
   b : Buckets \cup {Nothing}, sid : Sids \cup {Nothing}, had : Buckets \cup {Nothing}]

LEMMA ActBecomes ==
  ASSUME ActsType, NEW t \in Tabs, NEW a \in ActType, act' = [act EXCEPT ![t] = a],
         a.pc = "idle" <=> a = NoAct, a.pc # "idle" => a.op # "none"
  PROVE  ActsType'
BY DEF ActsType, ActType

\* A handler goes on, with what it has read.
LEMMA ActGoesOn ==
  ASSUME ActsType, NEW t \in Tabs, act[t].pc # "idle", NEW pc \in {"sent", "found", "ok", "refused"},
         act' = [act EXCEPT ![t].pc = pc]
  PROVE  ActsType'
<1> DEFINE a == [act[t] EXCEPT !.pc = pc]
<1>1. act[t] \in ActType /\ act[t].op # "none"
  BY DEF ActsType, ActType
<1>2. a \in ActType /\ a.pc = pc /\ a.op = act[t].op
  BY <1>1 DEF ActType
<1>3. act' = [act EXCEPT ![t] = a]
  OBVIOUS
<1>4. a # NoAct
  BY <1>2 DEF NoAct
<1> QED
  BY <1>1, <1>2, <1>3, <1>4, ActBecomes

LEMMA ActFindsBucket ==
  ASSUME ActsType, NEW t \in Tabs, act[t].pc # "idle", NEW pc \in {"sent", "found", "ok", "refused"},
         NEW b \in Buckets \cup {Nothing},
         act' = [act EXCEPT ![t].b = b, ![t].pc = pc]
  PROVE  ActsType'
<1> DEFINE a == [act[t] EXCEPT !.b = b, !.pc = pc]
<1>1. act[t] \in ActType /\ act[t].op # "none"
  BY DEF ActsType, ActType
<1>2. a \in ActType /\ a.pc = pc /\ a.op = act[t].op
  BY <1>1 DEF ActType
<1>3. act' = [act EXCEPT ![t] = a]
  OBVIOUS
<1>4. a # NoAct
  BY <1>2 DEF NoAct
<1> QED
  BY <1>1, <1>2, <1>3, <1>4, ActBecomes

LEMMA ActFindsSession ==
  ASSUME ActsType, NEW t \in Tabs, act[t].pc # "idle", NEW pc \in {"sent", "found", "ok", "refused"},
         NEW sid \in Sids, NEW was \in Buckets \cup {Nothing},
         act' = [act EXCEPT ![t].pc = pc, ![t].sid = sid, ![t].had = was]
  PROVE  ActsType'
<1> DEFINE a == [act[t] EXCEPT !.pc = pc, !.sid = sid, !.had = was]
<1>1. act[t] \in ActType /\ act[t].op # "none"
  BY DEF ActsType, ActType
<1>2. a \in ActType /\ a.pc = pc /\ a.op = act[t].op
  BY <1>1 DEF ActType
<1>3. act' = [act EXCEPT ![t] = a]
  OBVIOUS
<1>4. a # NoAct
  BY <1>2 DEF NoAct
<1> QED
  BY <1>1, <1>2, <1>3, <1>4, ActBecomes

\* A handler that begins, and one that has ended.
LEMMA ActBegins ==
  ASSUME AccessAssumption, NEW op \in {"submit", "create", "delete", "close"}, NEW b \in Buckets \cup {Nothing}
  PROVE  /\ NoAct \in ActType
         /\ [NoAct EXCEPT !.op = op, !.pc = "sent", !.b = b] \in ActType
         /\ [NoAct EXCEPT !.op = op, !.pc = "sent"] \in ActType
         /\ [NoAct EXCEPT !.op = op, !.pc = "sent", !.b = b] # NoAct
         /\ [NoAct EXCEPT !.op = op, !.pc = "sent"] # NoAct
BY DEF ActType, NoAct

\* One step keeps the types: of a user, of a page, of a handler, and of a fault.
LEMMA UserTypes ==
  ASSUME ServerType, PagesType, ActsType, NEW t \in Tabs, User(t)
  PROVE  ServerType' /\ PagesType' /\ ActsType'
<1> USE AccessAssumption
<1>1. CASE \E p \in {"access", "bucket"} : Visit(t, p)
  <2>1. PICK p \in {"access", "bucket"} : BeginAct(t, NoAct) /\ Arrive(t, p)
    BY <1>1 DEF Visit
  <2>2. PagesType'
    BY <2>1, ArrivePages
  <2>3. ServerType'
    BY <2>1 DEF ServerType, BeginAct, stored
  <2> QED
    BY <2>1, <2>2, <2>3 DEF ActsType, BeginAct, NoAct
<1>2. CASE \E b \in Buckets : Submit(t, b)
  <2>1. PICK b \in Buckets : BeginAct(t, [NoAct EXCEPT !.op = "submit", !.pc = "sent", !.b = b]) /\ UNCHANGED pages
    BY <1>2 DEF Submit
  <2>2. ServerType' /\ PagesType'
    BY <2>1 DEF BeginAct, stored, pages, ServerType, PagesType
  <2>3. ActsType'
    BY <2>1, ActBecomes, ActBegins DEF BeginAct, NoAct
  <2> QED
    BY <2>2, <2>3
<1>3. CASE Create(t) \/ Confirm(t) \/ Logout(t)
  <2>1. PICK op \in {"create", "delete", "close"} : BeginAct(t, [NoAct EXCEPT !.op = op, !.pc = "sent"]) /\ UNCHANGED pages
    BY <1>3 DEF Create, Confirm, Logout
  <2>2. ServerType' /\ PagesType'
    BY <2>1 DEF BeginAct, stored, pages, ServerType, PagesType
  <2>3. ActsType'
    BY <2>1, ActBecomes, ActBegins DEF BeginAct, NoAct
  <2> QED
    BY <2>2, <2>3
<1>4. CASE Refresh(t)
  <2>1. ServerType' /\ ActsType'
    BY <1>4 DEF Refresh, BeginAct, NoAct, stored, ServerType, ActsType
  <2> QED
    BY <1>4, <2>1 DEF Refresh, PagesType, FetchBucket, NoOwn
<1> QED
  BY <1>1, <1>2, <1>3, <1>4 DEF User

LEMMA OwnPageTypes ==
  ASSUME ServerType, PagesType, ActsType, NEW t \in Tabs, PageStep(t)
  PROVE  /\ ServerType' /\ PagesType' /\ ActsType'
         /\ UNCHANGED <<stored, cookie, act, bounds, crossed>>
<1>1. UNCHANGED <<stored, cookie, act, bounds, crossed>>
  BY DEF PageStep, Answer, Checked, Fetched
<1>2. ServerType' /\ ActsType'
  BY <1>1 DEF ServerType, ActsType, stored, bounds
<1>3. CASE Answer(t)
  <2>1. Found(t) \in Buckets \cup {Nothing}
    BY DEF Found, SessionToken, ServerType, Sids
  <2> QED
    BY <1>1, <1>2, <1>3, <2>1, AnswerPages DEF Answer
<1>4. CASE Checked(t)
  BY <1>1, <1>2, <1>4, LearnPages DEF Checked
<1>5. CASE Fetched(t)
  <2>1. own[t].got \in Buckets \cup {Nothing}
    BY DEF PagesType
  <2> QED
    BY <1>1, <1>2, <1>5, <2>1, ShowPages DEF Fetched
<1> QED
  BY <1>3, <1>4, <1>5 DEF PageStep

\* What the session says is a bucket or nothing.
LEMMA TokenType ==
  ASSUME ServerType
  PROVE  /\ SessionToken \in Buckets \cup {Nothing}
         /\ SessionToken # Nothing => cookie \in Sids /\ store[cookie] = SessionToken
BY DEF ServerType, SessionToken

LEMMA HandlerTypes ==
  ASSUME ServerType, PagesType, ActsType, NEW t \in Tabs, ActStep(t)
  PROVE  ServerType' /\ PagesType' /\ ActsType'
<1> USE AccessAssumption
<1>s. Sid(t) \in Sids /\ SessionToken \in Buckets \cup {Nothing}
  BY TokenType DEF Sid, Sids, ServerType
<1>a. act[t].b \in Buckets \cup {Nothing} /\ act[t].sid \in Sids \cup {Nothing}
  BY DEF ActsType
<1>1. CASE GetBucket(t) \/ GetBucketByIp(t) \/ ReadBucket(t) \/ CloseBucket(t) \/ Deleted(t) \/ Told(t)
  <2>1. ServerType' /\ PagesType'
    BY <1>1 DEF GetBucket, GetBucketByIp, ReadBucket, CloseBucket, Deleted, Told, stored, pages, bounds,
                ServerType, PagesType
  <2>2. CASE GetBucket(t)
    BY <1>s, <2>1, <2>2, ActFindsSession DEF GetBucket
  <2>3. CASE GetBucketByIp(t)
    BY <2>1, <2>3, ActGoesOn DEF GetBucketByIp, To
  <2>4. CASE ReadBucket(t)
    BY <1>s, <2>1, <2>4, ActFindsBucket DEF ReadBucket, WhichBucket
  <2>5. CASE CloseBucket(t)
    BY <1>s, <2>1, <2>5, ActFindsSession DEF CloseBucket
  <2>6. CASE Deleted(t) \/ Told(t)
    BY <2>1, <2>6, ActBecomes, ActBegins DEF Deleted, Told, NoAct
  <2> QED
    BY <1>1, <2>2, <2>3, <2>4, <2>5, <2>6
<1>2. CASE CreateSession(t) \/ CloseEnds(t)
  <2>1. PagesType' /\ ActsType'
    BY <1>2, ActGoesOn DEF CreateSession, CloseEnds, To, pages, PagesType
  <2>2. store' \in [Sids -> Buckets \cup {Nothing, Lost}]
    BY <1>2, <1>a DEF CreateSession, CloseEnds, DestroySession, Saved, ServerType
  <2> QED
    BY <1>2, <2>1, <2>2 DEF CreateSession, CloseEnds, bounds, ServerType
<1>3. CASE Insert(t)
  <2>1. PagesType' /\ ActsType'
    BY <1>3, ActGoesOn DEF Insert, To, pages, PagesType
  <2> QED
    BY <1>3, <2>1 DEF Insert, bounds, ServerType
<1>4. CASE DeleteBucket(t)
  <2>1. PagesType' /\ ActsType'
    BY <1>4, ActGoesOn DEF DeleteBucket, To, pages, PagesType
  <2> QED
    BY <1>4, <2>1, TokenType DEF DeleteBucket, RemoveBucket, There, stored, bounds, ServerType
<1>5. CASE Opened(t)
  <2>1. PagesType'
    BY <1>5, ArrivePages DEF Opened, pages, PagesType
  <2>2. ActsType'
    BY <1>5 DEF Opened, NoAct, ActsType
  <2> QED
    BY <1>5, <1>a, <2>1, <2>2 DEF Opened, SetsCookie, stored, bounds, ServerType
<1>6. CASE Closed(t)
  <2>1. PagesType'
    BY <1>6, ArrivePages DEF Closed
  <2> QED
    BY <1>6, <2>1 DEF Closed, NoAct, stored, bounds, ServerType, ActsType
<1> QED
  BY <1>1, <1>2, <1>3, <1>4, <1>5, <1>6 DEF ActStep

LEMMA FaultTypes ==
  ASSUME ServerType, PagesType, ActsType,
         \/ \E t \in Tabs : OwnFails(t) \/ ActFails(t)
         \/ Expire \/ \E b \in Buckets : OtherDeletes(b)
  PROVE  ServerType' /\ PagesType' /\ ActsType' /\ ~Calm'
<1> USE AccessAssumption
<1>1. ASSUME NEW t \in Tabs, OwnFails(t)
      PROVE  ServerType' /\ PagesType' /\ ActsType' /\ ~Calm'
  <2>1. ServerType' /\ ActsType' /\ ~Calm'
    BY <1>1 DEF OwnFails, Faulty, Calm, stored, ServerType, ActsType
  <2>2. CASE own[t].op = "check"
    BY <1>1, <2>1, <2>2, LearnPages DEF OwnFails
  <2>3. CASE own[t].op # "check"
    BY <1>1, <2>1, <2>3, ShowPages DEF OwnFails
  <2> QED
    BY <2>2, <2>3
<1>2. ASSUME NEW t \in Tabs, ActFails(t)
      PROVE  ServerType' /\ PagesType' /\ ActsType' /\ ~Calm'
  <2>1. ServerType' /\ ActsType' /\ ~Calm'
    BY <1>2 DEF ActFails, Faulty, Calm, stored, NoAct, ServerType, ActsType
  <2>2. PagesType'
    BY <1>2, ArrivePages DEF ActFails, pages, PagesType
  <2> QED
    BY <2>1, <2>2
<1>3. CASE Expire
  BY <1>3 DEF Expire, Calm, pages, ServerType, PagesType, ActsType
<1>4. CASE \E b \in Buckets : OtherDeletes(b)
  <2>1. PICK b \in Buckets : OtherDeletes(b)
    BY <1>4
  <2>2. PagesType' /\ ActsType' /\ ~Calm'
    BY <2>1 DEF OtherDeletes, Calm, pages, PagesType, ActsType, ServerType
  <2> QED
    BY <2>1, <2>2 DEF OtherDeletes, RemoveBucket, There, ServerType
<1> QED
  BY <1>1, <1>2, <1>3, <1>4

\* Who is calm after a step was before.
LEMMA CalmBefore ==
  ASSUME ServerType, PagesType, ActsType, AccessNext, Calm'
  PROVE  Calm /\ \E t \in Tabs : User(t) \/ PageStep(t) \/ ActStep(t)
<1>1. ASSUME NEW t \in Tabs, User(t)
      PROVE  UNCHANGED <<mishaps, foreign>> /\ (crossed => crossed')
  BY <1>1 DEF User, Visit, Submit, Create, Confirm, Logout, Refresh, BeginAct
<1>2. ASSUME NEW t \in Tabs, PageStep(t) \/ ActStep(t)
      PROVE  UNCHANGED <<mishaps, foreign, crossed>>
  BY <1>2 DEF PageStep, ActStep, Answer, Checked, Fetched, GetBucket, CreateSession, GetBucketByIp, Insert,
              ReadBucket, DeleteBucket, CloseBucket, CloseEnds, Opened, Deleted, Closed, Told, bounds
<1>3. \E t \in Tabs : User(t) \/ PageStep(t) \/ ActStep(t)
  BY FaultTypes DEF AccessNext
<1> QED
  BY <1>1, <1>2, <1>3 DEF Calm

\* Of the one handler that is under way, what fits after its step is all there is to know.
LEMMA OneActs ==
  ASSUME CalmFits, Calm, NEW t \in Tabs, act[t].pc # "idle",
         \A u \in Tabs \ {t} : act'[u] = act[u],
         act'[t].pc # "idle" => ActFits(t)', act'[t].pc = "idle" => Sound'
  PROVE  CalmFits'
<1>1. \A u \in Tabs \ {t} : act'[u].pc = "idle"
  BY DEF CalmFits
<1> QED
  BY <1>1 DEF CalmFits

LEMMA UserFits ==
  ASSUME ActsType, CalmFits, NEW t \in Tabs, User(t), Calm, Calm'
  PROVE  CalmFits'
<1>1. \E a \in ActType : BeginAct(t, a) /\ (a = NoAct \/ a.pc = "sent")
  <2>1. CASE (\E p \in {"access", "bucket"} : Visit(t, p)) \/ Refresh(t)
    BY <2>1, AccessAssumption, ActBegins DEF Visit, Refresh
  <2>2. CASE \E b \in Buckets : Submit(t, b)
    <3>1. PICK b \in Buckets : BeginAct(t, [NoAct EXCEPT !.op = "submit", !.pc = "sent", !.b = b])
      BY <2>2 DEF Submit
    <3> DEFINE a == [NoAct EXCEPT !.op = "submit", !.pc = "sent", !.b = b]
    <3>2. a \in ActType /\ a.pc = "sent"
      BY AccessAssumption, ActBegins DEF NoAct
    <3> QED
      BY <3>1, <3>2
  <2>3. CASE Create(t) \/ Confirm(t) \/ Logout(t)
    <3>1. PICK op \in {"create", "delete", "close"} : BeginAct(t, [NoAct EXCEPT !.op = op, !.pc = "sent"])
      BY <2>3 DEF Create, Confirm, Logout
    <3> DEFINE a == [NoAct EXCEPT !.op = op, !.pc = "sent"]
    <3>2. a \in ActType /\ a.pc = "sent"
      BY AccessAssumption, ActBegins DEF NoAct
    <3> QED
      BY <3>1, <3>2
  <2> QED
    BY <2>1, <2>2, <2>3 DEF User
<1>2. PICK a \in ActType : BeginAct(t, a) /\ (a = NoAct \/ a.pc = "sent")
  BY <1>1
<1>3. /\ act[t].pc = "idle" /\ UNCHANGED <<stored, cookie>>
      /\ \A u \in Tabs \ {t} : act[u].pc = "idle" /\ act'[u] = act[u]
      /\ act'[t] = a
  BY <1>2 DEF BeginAct, Calm, ActsType
<1>4. Sound /\ Sound'
  BY <1>3 DEF CalmFits, Sound, SessionToken, There, stored
<1>5. act'[t].pc # "idle" => ActFits(t)'
  BY <1>2, <1>3, <1>4 DEF ActFits, NoAct
<1>6. \A u \in Tabs \ {t} : act'[u].pc = "idle"
  BY <1>3
<1> QED
  BY <1>4, <1>5, <1>6 DEF CalmFits

LEMMA PageFits ==
  ASSUME CalmFits, UNCHANGED <<stored, cookie, act, bounds, crossed>>
  PROVE  CalmFits'
<1>1. UNCHANGED <<Sound, SessionToken, There, Calm>> /\ \A t \in Tabs : UNCHANGED <<Sid(t), ActFits(t)>>
  BY DEF Sound, SessionToken, There, Calm, Sid, ActFits, stored, bounds
<1> QED
  BY <1>1 DEF CalmFits

\* What a handler does to itself alone, and what it does to the session.
LEMMA HandlerFits ==
  ASSUME ServerType, ActsType, CalmFits, NEW t \in Tabs, ActStep(t), Calm
  PROVE  CalmFits'
<1> USE AccessAssumption DEF ActsType
<1>a. act[t].pc # "idle" /\ ActFits(t)
  <2>1. act[t].pc # "idle"
    BY DEF ActStep, GetBucket, CreateSession, GetBucketByIp, Insert, ReadBucket, DeleteBucket,
           CloseBucket, CloseEnds, Opened, Deleted, Closed, Told
  <2> QED
    BY <2>1 DEF CalmFits
<1>b. SessionToken \in Buckets \cup {Nothing} /\ There \subseteq Buckets
  BY TokenType DEF There
<1>c. SessionToken # Nothing => cookie \in Sids /\ store[cookie] = SessionToken /\ Sid(t) = cookie
  BY TokenType DEF Sid, SessionToken
<1>1. CASE GetBucket(t)
  <2>1. UNCHANGED <<Sound, SessionToken, There, Sid(t)>>
    BY <1>1 DEF GetBucket, Sound, SessionToken, There, Sid, stored
  <2>2. ActFits(t)'
    BY <1>1, <1>a, <2>1 DEF GetBucket, ActFits
  <2> QED
    BY <1>1, <1>a, <2>2, OneActs DEF GetBucket
<1>2. CASE CreateSession(t)
  <2>1. act[t].b \in There /\ act[t].sid = Sid(t) /\ act[t].had = SessionToken /\ Sound
    BY <1>2, <1>a DEF CreateSession, ActFits
  <2>2. store'[Sid(t)] = act[t].b /\ \A s \in Sids \ {Sid(t)} : store'[s] = store[s]
    BY <1>2, <1>b, <1>c, <2>1 DEF CreateSession, Saved, ServerType, Sid, Sids
  <2>3. Sound'
    BY <1>2, <1>b, <1>c, <2>1, <2>2 DEF CreateSession, Sound, SessionToken, There, Sid, ServerType
  <2>4. ActFits(t)'
    BY <1>2, <2>1, <2>2, <2>3 DEF CreateSession, To, ActFits, There, Sid, Sids, ServerType
  <2> QED
    BY <1>2, <1>a, <2>4, OneActs DEF CreateSession, To
<1>3. CASE GetBucketByIp(t)
  <2>1. UNCHANGED Sound /\ Sound
    BY <1>3, <1>a DEF GetBucketByIp, Sound, SessionToken, There, Sid, stored, ActFits
  <2>2. ActFits(t)'
    BY <1>3, <2>1 DEF GetBucketByIp, ActFits, To
  <2> QED
    BY <1>3, <1>a, <2>2, OneActs DEF GetBucketByIp, To
<1>4. CASE Insert(t)
  <2>1. Sound
    BY <1>4, <1>a DEF Insert, ActFits
  <2>2. There \subseteq There'
    BY <1>4 DEF Insert, There, Made, ServerType
  <2>3. Sound'
    BY <1>4, <2>1, <2>2 DEF Insert, Sound, SessionToken
  <2>4. ActFits(t)'
    BY <1>4, <2>3 DEF Insert, ActFits, To
  <2> QED
    BY <1>4, <1>a, <2>4, OneActs DEF Insert, To
<1>5. CASE ReadBucket(t)
  <2>1. UNCHANGED <<Sound, SessionToken, There>> /\ Sound
    BY <1>5, <1>a DEF ReadBucket, Sound, SessionToken, There, stored, ActFits
  <2>2. ActFits(t)'
    BY <1>5, <2>1 DEF ReadBucket, WhichBucket, ActFits
  <2> QED
    BY <1>5, <1>a, <2>2, OneActs DEF ReadBucket
<1>6. CASE DeleteBucket(t)
  <2>1. act[t].b \in There /\ act'[t] = [act[t] EXCEPT !.pc = "ok"] /\ act[t].op = "delete"
    BY <1>6, <1>a DEF DeleteBucket, ActFits, To
  <2>2. ActFits(t)'
    BY <2>1 DEF ActFits
  <2> QED
    BY <1>6, <1>a, <2>1, <2>2, OneActs DEF DeleteBucket, To
<1>7. CASE CloseBucket(t)
  <2>1. UNCHANGED <<SessionToken, Sid(t)>>
    BY <1>7 DEF CloseBucket, SessionToken, Sid, stored
  <2>2. ActFits(t)'
    BY <1>7, <2>1 DEF CloseBucket, ActFits
  <2> QED
    BY <1>7, <1>a, <2>2, OneActs DEF CloseBucket
<1>8. CASE CloseEnds(t)
  <2>1. act[t].sid = Sid(t) /\ act[t].had = SessionToken
    BY <1>8, <1>a DEF CloseEnds, ActFits
  <2>2. SessionToken' = Nothing
    BY <1>8, <1>c, <2>1 DEF CloseEnds, DestroySession, Saved, SessionToken, ServerType
  <2>3. ActFits(t)'
    BY <1>8, <2>2 DEF CloseEnds, To, ActFits
  <2> QED
    BY <1>8, <1>a, <2>3, OneActs DEF CloseEnds, To
<1>9. CASE Opened(t)
  <2>1. SessionToken' \in There' /\ act'[t].pc = "idle"
    BY <1>9, <1>a, <1>b DEF Opened, SetsCookie, ActFits, SessionToken, There, stored, NoAct, Sids
  <2> QED
    BY <1>9, <1>a, <2>1, OneActs DEF Opened, Sound
<1>10. CASE Deleted(t)
  <2>1. ActFits(t)'
    BY <1>10 DEF Deleted, ActFits, NoAct
  <2> QED
    BY <1>10, <1>a, <2>1, OneActs DEF Deleted, NoAct
<1>11. CASE Closed(t)
  <2>1. SessionToken' = Nothing /\ act'[t].pc = "idle"
    BY <1>11, <1>a DEF Closed, ActFits, SessionToken, stored, NoAct
  <2> QED
    BY <1>11, <1>a, <2>1, OneActs DEF Closed, Sound
<1>12. CASE Told(t)
  <2>1. Sound
    BY <1>12, <1>a DEF Told, ActFits
  <2>2. Sound' /\ act'[t].pc = "idle"
    BY <1>12, <2>1 DEF Told, Sound, SessionToken, There, stored, NoAct
  <2> QED
    BY <1>12, <1>a, <2>2, OneActs DEF Told
<1> QED
  BY <1>1, <1>2, <1>3, <1>4, <1>5, <1>6, <1>7, <1>8, <1>9, <1>10, <1>11, <1>12 DEF ActStep

LEMMA AccessInvInductive == AccessInv /\ [AccessNext]_accessVars => AccessInv'
<1> SUFFICES ASSUME AccessInv, [AccessNext]_accessVars
             PROVE  AccessInv'
  OBVIOUS
<1>a. ServerType /\ PagesType /\ ActsType /\ CalmFits
  BY TypeParts DEF AccessInv
<1>b. ServerType' /\ PagesType' /\ ActsType' /\ CalmFits' => AccessInv'
  BY DEF AccessInv, AccessTypeOK, PagesFit, ServerType, PagesType, ActsType
<1>1. CASE UNCHANGED accessVars
  <2>1. ServerType' /\ PagesType' /\ ActsType'
    BY <1>a, <1>1 DEF accessVars, stored, pages, bounds, ServerType, PagesType, ActsType
  <2> QED
    BY <1>a, <1>b, <1>1, <2>1, PageFits DEF accessVars
<1>2. CASE AccessNext
  <2>1. ServerType' /\ PagesType' /\ ActsType'
    BY <1>a, <1>2, UserTypes, OwnPageTypes, HandlerTypes, FaultTypes DEF AccessNext
  <2>2. CalmFits'
    <3>1. CASE ~Calm'
      BY <3>1 DEF CalmFits
    <3>2. CASE Calm'
      <4>1. Calm /\ \E t \in Tabs : User(t) \/ PageStep(t) \/ ActStep(t)
        BY <1>a, <1>2, <3>2, CalmBefore
      <4> QED
        BY <1>a, <3>2, <4>1, UserFits, OwnPageTypes, PageFits, HandlerFits
    <3> QED
      BY <3>1, <3>2
  <2> QED
    BY <1>b, <2>1, <2>2
<1> QED
  BY <1>1, <1>2

\* The session of a browser, its pages and the handlers under way, for any number of tabs and
\* buckets (AccessSpec): what SessionsInv follows from.
THEOREM AccessInvariant == AccessSpec => []AccessInv
<1>1. AccessInit => AccessInv
  <2> SUFFICES ASSUME AccessInit
               PROVE  AccessInv
    OBVIOUS
  <2>1. AccessTypeOK /\ PagesFit
    <3>1. ServerType
      <4>1. 0 \in 0..MaxActs /\ 0 \in 0..MaxMishaps /\ 0 \in 0..MaxForeign
        BY AccessAssumption
      <4>2. bucket \in [Buckets -> {"unmade", "there", "gone"}]
        BY DEF AccessInit
      <4>3. mine \in Buckets \cup {Nothing} /\ (mine # Nothing => bucket[mine] = "there")
        BY DEF AccessInit, There
      <4> QED
        BY <4>1, <4>2, <4>3 DEF AccessInit, ServerType
    <3>2. PagesType /\ ActsType
      BY AccessAssumption DEF AccessInit, PagesType, ActsType, NoOwn, NoAct
    <3> QED
      BY <3>1, <3>2, TypeParts
  <2>2. Sound /\ \A t \in Tabs : act[t].pc = "idle"
    BY DEF AccessInit, Sound, SessionToken, NoAct
  <2> QED
    BY <2>1, <2>2 DEF AccessInv, CalmFits
<1> QED
  BY <1>1, AccessInvInductive, PTL DEF AccessSpec

\* Who deletes a bucket closes it: without faults and overlapping handlers, the session names no
\* bucket that is gone once no handler is under way (deleteBucket, closeBucket).
THEOREM SessionsNameBuckets == AccessSpec => []SessionsInv
<1>1. AccessInv => SessionsInv
  BY DEF AccessInv, SessionsInv, OpenBucketIsThere, CalmFits, Sound, NoAct
<1> QED
  BY <1>1, AccessInvariant, PTL

\* The token that was accepted is that of the session when the page goes on, and nothing is open
\* after a logout, unless handlers of other tabs were under way (handleSubmit, closeBucket).
THEOREM SessionIsAsAnswered == AccessSpec => SessionFollows
<1> DEFINE Follows ==
      \A t \in Tabs :
        act[t].pc = "ok" /\ act'[t] = NoAct /\ Calm /\ mishaps' = 0 =>
          /\ act[t].op = "submit" => SessionToken' = act[t].b
          /\ act[t].op = "close"  => SessionToken' = Nothing
<1>1. ASSUME AccessInv, [AccessNext]_accessVars
      PROVE  Follows
  <2> SUFFICES ASSUME NEW t \in Tabs, act[t].pc = "ok", act'[t] = NoAct, Calm, mishaps' = 0
               PROVE  /\ act[t].op = "submit" => SessionToken' = act[t].b
                      /\ act[t].op = "close"  => SessionToken' = Nothing
    OBVIOUS
  <2>1. ServerType /\ PagesType /\ ActsType /\ ActFits(t) /\ \A u \in Tabs : act[u].pc # "idle" => u = t
    BY <1>1, TypeParts DEF AccessInv, CalmFits
  <2>2. act'[t] # act[t]
    BY DEF NoAct
  <2>3. AccessNext
    BY <1>1, <2>2 DEF accessVars
  <2>4. ActStep(t)
    <3>1. \A u \in Tabs : ~OwnFails(u) /\ ~ActFails(u)
      BY <2>1, AccessAssumption DEF OwnFails, ActFails, Faulty, ServerType, Calm
    <3>2. ~Expire
      BY <2>1 DEF Expire, ServerType
    <3>3. \A b \in Buckets : ~OtherDeletes(b)
      BY <2>2 DEF OtherDeletes
    <3>4. \A u \in Tabs : ~PageStep(u)
      BY <2>2 DEF PageStep, Answer, Checked, Fetched
    <3>5. \A u \in Tabs : ~User(u)
      <4> SUFFICES ASSUME NEW u \in Tabs, User(u)
                   PROVE  FALSE
        OBVIOUS
      <4>1. act[u].pc = "idle" /\ \E a : act' = [act EXCEPT ![u] = a]
        BY DEF User, Visit, Submit, Create, Confirm, Logout, Refresh, BeginAct
      <4> QED
        BY <2>1, <2>2, <4>1 DEF ActsType
    <3>6. PICK u \in Tabs : ActStep(u)
      BY <2>3, <3>1, <3>2, <3>3, <3>4, <3>5 DEF AccessNext
    <3>7. act[u].pc # "idle"
      BY <3>6 DEF ActStep, GetBucket, CreateSession, GetBucketByIp, Insert, ReadBucket, DeleteBucket,
                  CloseBucket, CloseEnds, Opened, Deleted, Closed, Told
    <3> QED
      BY <2>1, <3>6, <3>7
  <2>5. Opened(t) \/ Closed(t) \/ Told(t) \/ Deleted(t)
    BY <2>4 DEF ActStep, GetBucket, CreateSession, GetBucketByIp, Insert, ReadBucket, DeleteBucket,
                CloseBucket, CloseEnds
  <2> QED
    BY <2>1, <2>5, AccessAssumption
       DEF Opened, Closed, Told, Deleted, SetsCookie, ActFits, SessionToken, There, stored, NoAct, Sids
<1> QED
  BY <1>1, AccessInvariant, PTL DEF AccessSpec, SessionFollows

\* Of one tab: its page has a bucket, or fetches one that is there; who deletes it, or closes it,
\* still shows it.
Alone(t) == Tabs = {t} /\ mishaps = 0 /\ foreign = 0
Opens == SessionToken \in There

ShowsOrFetches(t) ==
  /\ own[t].op = "check" => auth[t] = "unknown"
  /\ path[t] = "bucket" => auth[t] # "no" /\ (auth[t] = "yes" => shown[t] # Nothing \/ own[t].op = "fetch")
  /\ shown[t] = Nothing =>
       /\ act[t].op \notin {"delete", "close"}
       /\ own[t].pc = "answered" /\ own[t].got # Nothing => Opens
       /\ own[t].op = "fetch" => IF own[t].pc = "answered" THEN own[t].got # Nothing ELSE Opens

AloneFits == \A t \in Tabs : Alone(t) => ~crossed /\ ShowsOrFetches(t)

\* The session stays open while nothing is deleted or closed.
LEMMA StaysOpen ==
  ASSUME ServerType, ActsType, CalmFits, NEW t \in Tabs, ActStep(t), Calm, Opens, act[t].op \notin {"delete", "close"}
  PROVE  Opens'
<1> USE AccessAssumption DEF ActsType
<1>a. act[t].pc # "idle" /\ ActFits(t)
  <2>1. act[t].pc # "idle"
    BY DEF ActStep, GetBucket, CreateSession, GetBucketByIp, Insert, ReadBucket, DeleteBucket,
           CloseBucket, CloseEnds, Opened, Deleted, Closed, Told
  <2> QED
    BY <2>1 DEF CalmFits
<1>b. There \subseteq Buckets
  BY DEF There
<1>c. cookie \in Sids /\ store[cookie] = SessionToken /\ Sid(t) = cookie
  BY <1>b, TokenType DEF Opens, Sid, SessionToken
<1>1. CASE GetBucket(t) \/ GetBucketByIp(t) \/ Told(t)
  BY <1>1 DEF GetBucket, GetBucketByIp, Told, Opens, SessionToken, There, stored
<1>2. CASE CreateSession(t)
  <2>1. act[t].b \in There /\ act[t].sid = Sid(t)
    BY <1>2, <1>a DEF CreateSession, ActFits
  <2>2. store'[cookie] = act[t].b \/ (store' = store)
    BY <1>2, <1>c, <2>1 DEF CreateSession, Saved, ServerType, Sids
  <2> QED
    BY <1>2, <1>b, <2>1, <2>2 DEF CreateSession, Opens, SessionToken, There
<1>3. CASE Insert(t)
  <2>1. There \subseteq There'
    BY <1>3 DEF Insert, There, Made, ServerType
  <2> QED
    BY <1>3, <2>1 DEF Insert, Opens, SessionToken
<1>4. CASE Opened(t)
  BY <1>4, <1>a, <1>b DEF Opened, SetsCookie, ActFits, Opens, SessionToken, There, stored, Sids
<1> QED
  BY <1>1, <1>2, <1>3, <1>4 DEF ActStep, ReadBucket, DeleteBucket, CloseBucket, CloseEnds, Deleted, Closed

\* Another page comes up, and asks.
LEMMA ArrivesFit ==
  ASSUME PagesType, NEW t \in Tabs, NEW p \in {"away", "access", "bucket"}, Arrive(t, p),
         act'[t].op \notin {"delete", "close"}
  PROVE  ShowsOrFetches(t)'
BY DEF PagesType, Arrive, ShowsOrFetches, NoOwn, Check

LEMMA UserStays ==
  ASSUME PagesType, ActsType, NEW t \in Tabs, User(t), ShowsOrFetches(t)
  PROVE  ShowsOrFetches(t)'
<1>1. CASE \E p \in {"access", "bucket"} : Visit(t, p)
  <2>1. PICK p \in {"access", "bucket"} : Arrive(t, p) /\ act' = [act EXCEPT ![t] = NoAct]
    BY <1>1 DEF Visit, BeginAct
  <2>2. act'[t].op = "none"
    BY <2>1 DEF ActsType, NoAct
  <2> QED
    BY <2>1, <2>2, ArrivesFit
<1>2. CASE (\E b \in Buckets : Submit(t, b)) \/ Create(t)
  <2>1. UNCHANGED <<SessionToken, There, pages>> /\ act'[t].op \notin {"delete", "close"}
    <3>1. PICK a : BeginAct(t, a) /\ a.op \in {"submit", "create"} /\ UNCHANGED pages
      <4>1. \A b : [NoAct EXCEPT !.op = "submit", !.pc = "sent", !.b = b].op = "submit"
        BY DEF NoAct
      <4>2. [NoAct EXCEPT !.op = "create", !.pc = "sent"].op = "create"
        BY DEF NoAct
      <4> QED
        BY <1>2, <4>1, <4>2 DEF Submit, Create
    <3>2. act'[t] = a
      BY <3>1 DEF BeginAct, ActsType
    <3> QED
      BY <3>1, <3>2 DEF BeginAct, SessionToken, There, stored
  <2> QED
    BY <2>1 DEF ShowsOrFetches, Opens, pages
<1>3. CASE Confirm(t) \/ Logout(t)
  BY <1>3 DEF Confirm, Logout, BeginAct, ShowsOrFetches, pages
<1>4. CASE Refresh(t)
  BY <1>4 DEF Refresh, BeginAct, ShowsOrFetches, PagesType, FetchBucket
<1> QED
  BY <1>1, <1>2, <1>3, <1>4 DEF User

LEMMA PageStays ==
  ASSUME ServerType, PagesType, ActsType, CalmFits, Calm, NEW t \in Tabs, Tabs = {t}, PageStep(t), ShowsOrFetches(t)
  PROVE  ShowsOrFetches(t)'
<1> USE AccessAssumption
<1>1. UNCHANGED <<SessionToken, There, act, Opens>>
  BY DEF PageStep, Answer, Checked, Fetched, stored, SessionToken, There, Opens
<1>2. shown[t] = Nothing => SessionToken \in There \cup {Nothing}
  BY DEF ShowsOrFetches, CalmFits, ActFits, ActsType, Sound
<1>3. CASE Answer(t)
  <2>1. /\ UNCHANGED <<path, auth, shown>> /\ own[t].pc = "sent"
        /\ own'[t] = [own[t] EXCEPT !.pc = "answered", !.got = Found(t)]
    BY <1>3 DEF Answer, PagesType
  <2>2. own'[t].op = own[t].op /\ own'[t].pc = "answered" /\ own'[t].got = Found(t)
    BY <2>1 DEF PagesType
  <2>3. shown[t] = Nothing => (Found(t) # Nothing => Opens) /\ (own[t].op = "fetch" => Found(t) # Nothing)
    BY <1>2, <2>1 DEF Found, Opens, ShowsOrFetches, There
  <2> QED
    BY <1>1, <2>1, <2>2, <2>3 DEF ShowsOrFetches
<1>4. CASE Checked(t)
  <2> DEFINE yes == own[t].got # Nothing
  <2>1. own[t].op = "check" /\ own[t].pc = "answered" /\ Learn(t, yes) /\ shown[t] = Nothing /\ path[t] \in {"access", "bucket"}
    BY <1>4 DEF Checked, ShowsOrFetches, PagesType
  <2>2. (yes => Opens) /\ act'[t].op \notin {"delete", "close"}
    BY <1>1, <2>1 DEF ShowsOrFetches
  <2> HIDE DEF yes
  <2>3. CASE (path[t] = "access") = yes
    <3>1. \E p \in {"access", "bucket"} : Arrive(t, p)
      BY <2>1, <2>3 DEF Learn
    <3> QED
      BY <2>2, <3>1, ArrivesFit
  <2>4. CASE (path[t] = "access") # yes
    <3>1. /\ auth'[t] = IF yes THEN "yes" ELSE "no"
          /\ own'[t] = IF yes THEN FetchBucket ELSE NoOwn
          /\ UNCHANGED <<path, shown>>
      BY <2>1, <2>4 DEF Learn, AfterYes, PagesType
    <3>2. yes \in BOOLEAN
      BY DEF yes
    <3> QED
      BY <1>1, <2>1, <2>2, <2>4, <3>1, <3>2 DEF ShowsOrFetches, FetchBucket, NoOwn
  <2> QED
    BY <2>3, <2>4
<1>5. CASE Fetched(t)
  <2>1. /\ own[t].op = "fetch" /\ own[t].pc = "answered" /\ own'[t] = NoOwn /\ UNCHANGED <<path, auth>>
        /\ shown'[t] = IF own[t].got = Nothing THEN shown[t] ELSE own[t].got
    BY <1>5 DEF Fetched, Show, PagesType
  <2>2. shown'[t] # Nothing
    BY <2>1 DEF ShowsOrFetches
  <2>3. auth[t] = "yes"
    BY <2>1 DEF PagesType
  <2> QED
    BY <2>1, <2>2, <2>3 DEF ShowsOrFetches, NoOwn
<1> QED
  BY <1>3, <1>4, <1>5 DEF PageStep

LEMMA HandlerStays ==
  ASSUME ServerType, PagesType, ActsType, CalmFits, Calm, NEW t \in Tabs, ActStep(t), ShowsOrFetches(t)
  PROVE  ShowsOrFetches(t)'
<1>1. CASE \E p \in {"away", "bucket"} : Arrive(t, p) /\ act' = [act EXCEPT ![t] = NoAct]
  <2>1. act'[t].op = "none"
    BY <1>1 DEF ActsType, NoAct
  <2> QED
    BY <1>1, <2>1, ArrivesFit
<1>2. CASE UNCHANGED pages
  <2>1. shown[t] = Nothing => (Opens => Opens') /\ act'[t].op \notin {"delete", "close"}
    <3> SUFFICES ASSUME shown[t] = Nothing
                 PROVE  (Opens => Opens') /\ act'[t].op \notin {"delete", "close"}
      OBVIOUS
    <3>1. act[t].op \notin {"delete", "close"}
      BY DEF ShowsOrFetches
    <3>2. act'[t].op \in {act[t].op, "none"}
      BY <3>1 DEF ActStep, GetBucket, CreateSession, GetBucketByIp, Insert, ReadBucket, DeleteBucket,
                  CloseBucket, CloseEnds, Opened, Deleted, Closed, Told, To, ActsType, NoAct
    <3> QED
      BY <3>1, <3>2, StaysOpen
  <2> QED
    BY <1>2, <2>1 DEF ShowsOrFetches, pages
<1> QED
  BY <1>1, <1>2 DEF ActStep, GetBucket, CreateSession, GetBucketByIp, Insert, ReadBucket, DeleteBucket,
                    CloseBucket, CloseEnds, Opened, Deleted, Closed, Told

LEMMA AloneStep ==
  ASSUME AccessInv, AloneFits, [AccessNext]_accessVars
  PROVE  AloneFits'
<1>a. ServerType /\ PagesType /\ ActsType /\ CalmFits
  BY TypeParts DEF AccessInv
<1>1. CASE UNCHANGED accessVars
  BY <1>1 DEF accessVars, stored, pages, bounds, AloneFits, Alone, ShowsOrFetches, Opens, SessionToken, There
<1>2. CASE AccessNext
  <2> SUFFICES ASSUME NEW t \in Tabs, Alone(t)'
               PROVE  ~crossed' /\ ShowsOrFetches(t)'
    BY DEF AloneFits
  <2>1. Alone(t) /\ (User(t) \/ PageStep(t) \/ ActStep(t))
    <3>1. \A u \in Tabs : u = t
      BY DEF Alone
    <3>2. ~(\E u \in Tabs : OwnFails(u) \/ ActFails(u)) /\ ~Expire /\ ~\E b \in Buckets : OtherDeletes(b)
      <4>1. mishaps \in Nat /\ foreign \in Nat /\ mishaps' = 0 /\ foreign' = 0
        BY <1>a, AccessAssumption DEF Alone, ServerType
      <4>2. \A u \in Tabs : ~OwnFails(u) /\ ~ActFails(u)
        <5>1. ~Faulty
          BY <4>1 DEF Faulty
        <5> QED
          BY <5>1 DEF OwnFails, ActFails
      <4>3. ~Expire /\ \A b \in Buckets : ~OtherDeletes(b)
        BY <4>1 DEF Expire, OtherDeletes
      <4> QED
        BY <4>2, <4>3
    <3>3. User(t) \/ PageStep(t) \/ ActStep(t)
      BY <1>2, <3>1, <3>2 DEF AccessNext
    <3>4. UNCHANGED <<mishaps, foreign>>
      BY <3>3 DEF User, Visit, Submit, Create, Confirm, Logout, Refresh, BeginAct, PageStep, ActStep, Answer, Checked,
                  Fetched, GetBucket, CreateSession, GetBucketByIp, Insert, ReadBucket, DeleteBucket, CloseBucket,
                  CloseEnds, Opened, Deleted, Closed, Told, bounds
    <3> QED
      BY <3>3, <3>4 DEF Alone
  <2>2. ~crossed /\ Calm /\ ShowsOrFetches(t) /\ Tabs = {t}
    BY <2>1 DEF AloneFits, Alone, Calm
  <2>3. ~crossed'
    <3>1. CASE User(t)
      <4>1. \E a : BeginAct(t, a)
        BY <3>1 DEF User, Visit, Submit, Create, Confirm, Logout, Refresh
      <4> QED
        BY <2>2, <4>1 DEF BeginAct
    <3>2. CASE PageStep(t) \/ ActStep(t)
      BY <2>2, <3>2 DEF PageStep, ActStep, Answer, Checked, Fetched, GetBucket, CreateSession, GetBucketByIp, Insert,
                        ReadBucket, DeleteBucket, CloseBucket, CloseEnds, Opened, Deleted, Closed, Told
    <3> QED
      BY <2>1, <3>1, <3>2
  <2>4. ShowsOrFetches(t)'
    BY <1>a, <2>1, <2>2, UserStays, PageStays, HandlerStays
  <2> QED
    BY <2>3, <2>4
<1> QED
  BY <1>1, <1>2

\* The one tab that has a bucket open shows it, or fetches it: its page is empty only after a fault, or
\* when somebody else has deleted the bucket (useBucketAuth, fetchBucketData).
THEOREM EmptyIsExplained == AccessSpec => []EmptyExplained
<1>1. AccessInit => AloneFits
  BY DEF AccessInit, AloneFits, ShowsOrFetches, NoOwn, NoAct
<1>2. AccessInv /\ AloneFits => EmptyExplained
  <2> SUFFICES ASSUME AccessInv, AloneFits, NEW t \in Tabs, Tabs = {t}, path[t] = "bucket", own[t] = NoOwn,
                      shown[t] = Nothing, ~(mishaps > 0), ~(foreign > 0)
               PROVE  FALSE
    BY DEF EmptyExplained
  <2>1. PagesType /\ mishaps \in Nat /\ foreign \in Nat
    BY TypeParts, AccessAssumption DEF AccessInv, ServerType
  <2>2. Alone(t)
    BY <2>1 DEF Alone
  <2>3. own[t].op = "none"
    BY DEF NoOwn
  <2> QED
    BY <2>1, <2>2, <2>3 DEF AloneFits, ShowsOrFetches, PagesType
<1> QED
  BY <1>1, <1>2, AloneStep, AccessInvariant, PTL DEF AccessSpec

-----------------------------------------------------------------------------
(* LoginForm                                                                *)

\* The timer runs until there is a widget; the page knows that there is no captcha, of a server
\* that wants one, only if it could not ask.
WidgetFits ==
  /\ timer => config = "captcha" /\ widget = "none"
  /\ config # "captcha" => widget = "none"
  /\ config = "captcha" => Enabled
  /\ Enabled /\ config = "none" => failed > 0

\* A request that knows of the captcha has a token.
RequestFits(s) ==
  /\ sending[s].pc = "idle" => sending[s] = NotSent
  /\ sending[s].pc # "idle" /\ sending[s].knew = "captcha" => sending[s].token # NoToken
  /\ Enabled /\ sending[s].knew = "none" => failed > 0

\* A token is sent once, or is shared; it is used by whom it was sent by, and then the page has
\* another, or none, when the answer has come, unless it was accepted and the page is left.
TokensFit ==
  /\ \A s \in Submits : sending[s].token # NoToken =>
       /\ taken[sending[s].token] # "unmade"
       /\ sending[s].pc = "sent" => sending[s].token \in shared \/ leaving \/ taken[sending[s].token] # "used"
       /\ \A r \in Submits \ {s} : sending[r].token = sending[s].token => sending[s].token \in shared
  /\ here /\ token # NoToken =>
       taken[token] # "unmade" /\ (taken[token] = "used" => leaving \/ \E s \in Submits : sending[s].token = token)
  /\ Locks => shared = {}

LoginInv ==
  /\ LoginTypeOK /\ CaptchaRefusalsExplained
  /\ WidgetFits /\ TokensFit /\ \A s \in Submits : RequestFits(s)

Requests ==
  [pc : {"idle", "sent", "verified", "captcha", "refused", "ok"},
   token : Tokens \cup {NoToken}, knew : {"loading", "captcha", "none"}]

FormType ==
  /\ config \in {"loading", "captcha", "none"} /\ script \in {"absent", "early", "ready"}
  /\ timer \in BOOLEAN /\ widget \in {"none", "unsolved", "solved"}
  /\ token \in Tokens \cup {NoToken} /\ here \in BOOLEAN /\ leaving \in BOOLEAN
  /\ here => (token # NoToken <=> widget = "solved")

ServiceType == taken \in [Tokens -> {"unmade", "fresh", "used", "expired"}] /\ shared \subseteq Tokens

SendingType == sending \in [Submits -> Requests]

TallyType ==
  /\ submits \in 0..MaxSubmits /\ typed \in 0..MaxTyped /\ failed \in 0..MaxFailed
  /\ missed \in BOOLEAN /\ why \in {"no", "loading", "none", "captcha", "shared", "used", "expired"}

LEMMA LoginParts ==
  /\ LoginInv <=> /\ FormType /\ ServiceType /\ SendingType /\ TallyType /\ CaptchaRefusalsExplained
                  /\ WidgetFits /\ TokensFit /\ \A s \in Submits : RequestFits(s)
  /\ LoginInv' <=> /\ FormType' /\ ServiceType' /\ SendingType' /\ TallyType' /\ CaptchaRefusalsExplained'
                   /\ WidgetFits' /\ TokensFit' /\ \A s \in Submits : RequestFits(s)'
BY DEF LoginInv, LoginTypeOK, FormType, ServiceType, SendingType, TallyType, Requests

LEMMA NotSentFits ==
  NotSent \in Requests /\ NotSent.pc = "idle" /\ NotSent.token = NoToken /\ NotSent.knew = "loading"
BY DEF NotSent, Requests

\* The steps of the page and its captcha, which send nothing.
LEMMA FormKeeps ==
  ASSUME LoginInv,
         Loads \/ RenderCaptcha \/ Solve \/ ExpireToken \/ Type \/ Navigate
  PROVE  LoginInv'
<1> USE LoginAssumption
<1>a. /\ FormType /\ ServiceType /\ SendingType /\ TallyType /\ CaptchaRefusalsExplained
      /\ WidgetFits /\ TokensFit /\ \A s \in Submits : RequestFits(s)
  BY LoginParts
<1>b. UNCHANGED <<leaving, sending, shared, why>> /\ failed <= failed' /\ failed \in Nat /\ (here' => here)
  BY <1>a DEF Loads, LoadConfig, LoadScript, RenderCaptcha, Solve, ExpireToken, Type, Navigate, loginBounds, loginPast,
              TallyType
<1>1. FormType' /\ TallyType' /\ WidgetFits'
  <2>1. ASSUME NEW c \in {"captcha", "none"}, LoadConfig(c)
        PROVE  FormType' /\ TallyType' /\ WidgetFits'
    BY <1>a, <2>1 DEF LoadConfig, loginPast, FormType, TallyType, WidgetFits
  <2>2. ASSUME NEW to \in {"early", "ready"}, LoadScript(to)
        PROVE  FormType' /\ TallyType' /\ WidgetFits'
    BY <1>a, <2>2 DEF LoadScript, loginPast, loginBounds, FormType, TallyType, WidgetFits
  <2>3. CASE RenderCaptcha
    BY <1>a, <2>3 DEF RenderCaptcha, loginBounds, FormType, TallyType, WidgetFits
  <2>4. CASE Solve
    BY <1>a, <2>4 DEF Solve, RenderForm, loginPast, loginBounds, FormType, TallyType, WidgetFits
  <2>5. CASE ExpireToken
    BY <1>a, <2>5 DEF ExpireToken, RenderForm, loginPast, loginBounds, FormType, TallyType, WidgetFits
  <2>6. CASE Type
    BY <1>a, <2>6 DEF Type, RenderForm, loginPast, FormType, TallyType, WidgetFits
  <2>7. CASE Navigate
    BY <1>a, <2>7 DEF Navigate, loginPast, loginBounds, FormType, TallyType, WidgetFits
  <2> QED
    BY <2>1, <2>2, <2>3, <2>4, <2>5, <2>6, <2>7 DEF Loads
<1>2. ServiceType' /\ TokensFit'
  <2>1. CASE Solve
    <3>1. PICK t \in Tokens : taken[t] = "unmade" /\ taken' = [taken EXCEPT ![t] = "fresh"] /\ token' = t
      BY <2>1 DEF Solve
    <3>2. taken'[t] = "fresh" /\ \A u \in Tokens \ {t} : taken'[u] = taken[u]
      BY <1>a, <3>1 DEF ServiceType
    <3>3. \A s \in Submits : sending[s].token # NoToken => sending[s].token \in Tokens \ {t}
      BY <1>a, <3>1 DEF SendingType, Requests, TokensFit
    <3> QED
      BY <1>a, <1>b, <3>1, <3>2, <3>3 DEF ServiceType, TokensFit
  <2>2. CASE ExpireToken
    <3>1. token' = NoToken /\ taken' = [taken EXCEPT ![token] = IF @ = "fresh" THEN "expired" ELSE @]
      BY <2>2 DEF ExpireToken
    <3>2. \A u \in Tokens : taken'[u] = taken[u] \/ (taken[u] = "fresh" /\ taken'[u] = "expired")
      BY <1>a, <3>1 DEF ServiceType
    <3>3. ServiceType'
      BY <1>a, <1>b, <3>1 DEF ServiceType
    <3>4. \A s \in Submits : sending[s].token # NoToken => sending[s].token \in Tokens
      BY <1>a DEF SendingType, Requests
    <3> QED
      BY <1>a, <1>b, <3>1, <3>2, <3>3, <3>4 DEF TokensFit
  <2>3. CASE Loads \/ RenderCaptcha \/ Type \/ Navigate
    <3>1. UNCHANGED <<taken, token>>
      BY <2>3 DEF Loads, LoadConfig, LoadScript, RenderCaptcha, Type, Navigate
    <3> QED
      BY <1>a, <1>b, <3>1 DEF ServiceType, TokensFit
  <2> QED
    BY <2>1, <2>2, <2>3
<1>3. SendingType' /\ \A s \in Submits : RequestFits(s)'
  BY <1>a, <1>1, <1>b DEF SendingType, RequestFits, TallyType
<1>4. CaptchaRefusalsExplained'
  BY <1>a, <1>1, <1>b DEF CaptchaRefusalsExplained, TallyType
<1> QED
  BY <1>1, <1>2, <1>3, <1>4, LoginParts

\* One call becomes another.
LEMMA OneCall ==
  ASSUME SendingType, NEW s \in Submits, NEW c \in Requests, sending' = [sending EXCEPT ![s] = c],
         \A r \in Submits : RequestFits(r), failed \in Nat, failed' \in Nat, failed <= failed',
         c.pc = "idle" => c = NotSent,
         c.pc # "idle" /\ c.knew = "captcha" => c.token # NoToken,
         Enabled /\ c.knew = "none" => failed' > 0
  PROVE  SendingType' /\ (\A r \in Submits : RequestFits(r)') /\ sending'[s] = c
         /\ \A r \in Submits \ {s} : sending'[r] = sending[r]
<1>1. sending'[s] = c /\ \A r \in Submits \ {s} : sending'[r] = sending[r]
  BY DEF SendingType
<1>2. \A r \in Submits : RequestFits(r)'
  BY <1>1 DEF RequestFits
<1> QED
  BY <1>1, <1>2 DEF SendingType

LEMMA SubmitKeeps ==
  ASSUME LoginInv, NEW s \in Submits, SubmitForm(s)
  PROVE  LoginInv'
<1> USE LoginAssumption
<1>a. /\ FormType /\ ServiceType /\ SendingType /\ TallyType /\ CaptchaRefusalsExplained
      /\ WidgetFits /\ TokensFit /\ \A r \in Submits : RequestFits(r)
  BY LoginParts
<1> DEFINE c == [pc |-> "sent", token |-> TokenSent, knew |-> config]
<1>1. /\ FormReady /\ Unlocked /\ sending[s] = NotSent /\ sending' = [sending EXCEPT ![s] = c]
      /\ shared' = shared \cup {t \in {TokenSent} \ {NoToken} : \E r \in Submits : sending[r].token = t}
      /\ UNCHANGED <<config, script, widget, token, here, leaving, taken, typed, failed, missed, why>>
  BY DEF SubmitForm
<1>2. TokenSent \in Tokens \cup {NoToken} /\ (TokenSent # NoToken => TokenSent = token /\ here)
      /\ (config = "captcha" => TokenSent # NoToken)
  BY <1>a, <1>1 DEF FormType, TokenSent, FormReady
<1>3. c \in Requests /\ c.pc = "sent" /\ c.token = TokenSent /\ c.knew = config
  BY <1>a, <1>2 DEF Requests, FormType
<1> HIDE DEF c
<1>4. FormType' /\ TallyType' /\ WidgetFits'
  BY <1>a, <1>1 DEF SubmitForm, RenderForm, FormType, TallyType, WidgetFits
<1>5. /\ SendingType' /\ (\A r \in Submits : RequestFits(r)') /\ sending'[s] = c
      /\ \A r \in Submits \ {s} : sending'[r] = sending[r]
  <2>1. failed \in Nat /\ failed' \in Nat /\ failed <= failed'
    BY <1>a, <1>1 DEF TallyType
  <2>2. Enabled /\ config = "none" => failed' > 0
    BY <1>a, <1>1 DEF WidgetFits
  <2> QED
    BY <1>a, <1>1, <1>2, <1>3, <2>1, <2>2, OneCall
<1>6. ServiceType' /\ shared \subseteq shared'
  BY <1>a, <1>1, <1>2 DEF ServiceType
<1>7. sending[s].token = NoToken
  BY <1>1, NotSentFits
<1>8. TokenSent # NoToken =>
        /\ taken[TokenSent] # "unmade"
        /\ (\E r \in Submits : sending[r].token = TokenSent) => TokenSent \in shared'
        /\ taken[TokenSent] = "used" => leaving \/ \E r \in Submits : sending[r].token = TokenSent
  BY <1>a, <1>1, <1>2 DEF TokensFit
<1>9. TokensFit'
  <2>1. ASSUME NEW r \in Submits, sending'[r].token # NoToken
        PROVE  /\ taken'[sending'[r].token] # "unmade"
               /\ sending'[r].pc = "sent" => sending'[r].token \in shared' \/ leaving' \/ taken'[sending'[r].token] # "used"
               /\ \A q \in Submits \ {r} : sending'[q].token = sending'[r].token => sending'[r].token \in shared'
    <3>1. CASE r = s
      BY <1>1, <1>3, <1>5, <1>8, <2>1, <3>1
    <3>2. CASE r # s
      BY <1>a, <1>1, <1>3, <1>5, <1>6, <1>8, <2>1, <3>2 DEF TokensFit
    <3> QED
      BY <3>1, <3>2
  <2>2. here' /\ token' # NoToken =>
          taken'[token'] # "unmade" /\ (taken'[token'] = "used" => leaving' \/ \E r \in Submits : sending'[r].token = token')
    BY <1>a, <1>1, <1>5, <1>7 DEF TokensFit
  <2>3. Locks => shared' = {}
    <3> SUFFICES ASSUME Locks
                 PROVE  shared' = {}
      OBVIOUS
    <3>1. \A r \in Submits : sending[r].token = NoToken
      BY <1>1, NotSentFits DEF Unlocked
    <3> QED
      BY <1>a, <1>1, <3>1 DEF TokensFit
  <2> QED
    BY <2>1, <2>2, <2>3 DEF TokensFit
<1>10. CaptchaRefusalsExplained'
  BY <1>a, <1>1 DEF CaptchaRefusalsExplained
<1> QED
  BY <1>4, <1>5, <1>6, <1>9, <1>10, LoginParts

\* The server has seen the token, or the credentials.
LEMMA AnswersKeep ==
  ASSUME LoginInv, NEW s \in Submits, Verify(s) \/ Authenticate(s)
  PROVE  LoginInv'
<1> USE LoginAssumption
<1>a. /\ FormType /\ ServiceType /\ SendingType /\ TallyType /\ CaptchaRefusalsExplained
      /\ WidgetFits /\ TokensFit /\ \A r \in Submits : RequestFits(r)
  BY LoginParts
<1>1. /\ sending[s].pc \in {"sent", "verified"}
      /\ \E pc \in {"verified", "captcha", "ok", "refused"} : GoesTo(s, pc)
      /\ UNCHANGED <<form, loginBounds, shared, missed>>
  BY DEF Verify, Authenticate, loginPast
<1>2. PICK pc \in {"verified", "captcha", "ok", "refused"} : GoesTo(s, pc)
  BY <1>1
<1> DEFINE c == [sending[s] EXCEPT !.pc = pc]
<1>3. c \in Requests /\ c.pc = pc /\ c.token = sending[s].token /\ c.knew = sending[s].knew
  BY <1>a, <1>2 DEF SendingType, Requests
<1>4. sending' = [sending EXCEPT ![s] = c]
  BY <1>2 DEF GoesTo
<1> HIDE DEF c
<1>5. /\ SendingType' /\ (\A r \in Submits : RequestFits(r)') /\ sending'[s] = c
      /\ \A r \in Submits \ {s} : sending'[r] = sending[r]
  <2>1. failed \in Nat /\ failed' \in Nat /\ failed <= failed'
    BY <1>a, <1>1 DEF TallyType, loginBounds
  <2>2. RequestFits(s)
    BY <1>a
  <2> QED
    BY <1>a, <1>1, <1>3, <1>4, <2>1, <2>2, OneCall DEF RequestFits, loginBounds
<1>6. FormType' /\ WidgetFits'
  BY <1>a, <1>1 DEF FormType, WidgetFits, form, loginBounds
<1>7. CASE UNCHANGED taken
  <2>1. ServiceType' /\ TokensFit'
    <3>1. \A r \in Submits : sending'[r].token = sending[r].token /\ (sending'[r].pc = "sent" => sending[r].pc = "sent")
      BY <1>2, <1>3, <1>5
    <3> QED
      BY <1>a, <1>1, <1>7, <3>1 DEF ServiceType, TokensFit, form
  <2>2. TallyType' /\ CaptchaRefusalsExplained'
    <3>1. CASE UNCHANGED why
      BY <1>a, <1>1, <3>1 DEF TallyType, CaptchaRefusalsExplained, loginBounds, form
    <3>2. CASE ~UNCHANGED why
      <4>1. Verify(s) /\ why' = Reason(s) /\ Enabled /\ ~Takes(s) /\ sending[s].pc = "sent"
        BY <3>2 DEF Verify, Authenticate, loginPast
      <4>2. /\ sending[s].token \in Tokens \cup {NoToken} /\ sending[s].knew \in {"loading", "captcha", "none"}
            /\ sending[s].token # NoToken => taken[sending[s].token] \in {"unmade", "fresh", "used", "expired"}
            /\ failed \in Nat /\ RequestFits(s)
        BY <1>a DEF SendingType, Requests, ServiceType, TallyType
      <4>3. CASE sending[s].token = NoToken
        <5>1. Reason(s) \in {"loading", "none"} /\ (Reason(s) = "none" => failed > 0)
          BY <4>1, <4>2, <4>3 DEF Reason, RequestFits
        <5> QED
          BY <1>a, <1>1, <4>1, <5>1 DEF TallyType, CaptchaRefusalsExplained, loginBounds
      <4>4. CASE sending[s].token # NoToken /\ sending[s].token \in shared
        <5>1. Reason(s) = "shared" /\ ~Locks
          BY <1>a, <4>4 DEF Reason, TokensFit
        <5> QED
          BY <1>a, <1>1, <4>1, <5>1 DEF TallyType, CaptchaRefusalsExplained, loginBounds
      <4>5. CASE sending[s].token # NoToken /\ sending[s].token \notin shared
        <5>1. Reason(s) = "expired" \/ (Reason(s) = "used" /\ leaving)
          BY <1>a, <4>1, <4>2, <4>5 DEF Reason, TokensFit, Takes
        <5> QED
          BY <1>a, <1>1, <4>1, <5>1 DEF TallyType, CaptchaRefusalsExplained, loginBounds, form
      <4> QED
        BY <4>3, <4>4, <4>5
    <3> QED
      BY <3>1, <3>2
  <2> QED
    BY <1>5, <1>6, <2>1, <2>2, LoginParts
<1>8. CASE ~UNCHANGED taken
  <2>1. /\ Verify(s) /\ Takes(s) /\ UNCHANGED why /\ taken' = [taken EXCEPT ![sending[s].token] = "used"]
        /\ GoesTo(s, "verified") /\ sending[s].pc = "sent"
    BY <1>8 DEF Verify, Authenticate
  <2>2. sending'[s].pc = "verified"
    BY <1>a, <2>1 DEF GoesTo, SendingType, Requests
  <2> DEFINE t == sending[s].token
  <2>3. t \in Tokens /\ t # NoToken /\ taken'[t] = "used" /\ \A u \in Tokens \ {t} : taken'[u] = taken[u]
    BY <1>a, <2>1 DEF ServiceType, SendingType, Requests, Takes
  <2>4. ServiceType'
    BY <1>a, <1>1, <2>1 DEF ServiceType
  <2>5. \A r \in Submits : sending'[r].token = sending[r].token /\ sending[r].token \in Tokens \cup {NoToken}
    BY <1>a, <1>3, <1>5 DEF SendingType, Requests
  <2>6. TokensFit'
    <3>1. ASSUME NEW r \in Submits, sending'[r].token # NoToken
          PROVE  /\ taken'[sending'[r].token] # "unmade"
                 /\ sending'[r].pc = "sent" => sending'[r].token \in shared' \/ leaving' \/ taken'[sending'[r].token] # "used"
                 /\ \A q \in Submits \ {r} : sending'[q].token = sending'[r].token => sending'[r].token \in shared'
      BY <1>a, <1>1, <1>5, <2>2, <2>3, <2>5, <3>1 DEF TokensFit, form
    <3>2. here' /\ token' # NoToken =>
            taken'[token'] # "unmade" /\ (taken'[token'] = "used" => leaving' \/ \E r \in Submits : sending'[r].token = token')
      BY <1>a, <1>1, <2>3, <2>5 DEF TokensFit, form, FormType
    <3> QED
      BY <1>a, <1>1, <3>1, <3>2 DEF TokensFit
  <2>7. TallyType' /\ CaptchaRefusalsExplained'
    BY <1>a, <1>1, <2>1 DEF TallyType, CaptchaRefusalsExplained, loginBounds, form
  <2> QED
    BY <1>5, <1>6, <2>4, <2>6, <2>7, LoginParts
<1> QED
  BY <1>7, <1>8

\* A call ends; the page that is still there forgets its token, or is about to be left.
LEMMA EndsKeep ==
  ASSUME LoginInv, NEW s \in Submits, Refused(s) \/ Accepted(s) \/ Fails(s)
  PROVE  LoginInv'
<1> USE LoginAssumption
<1>a. /\ FormType /\ ServiceType /\ SendingType /\ TallyType /\ CaptchaRefusalsExplained
      /\ WidgetFits /\ TokensFit /\ \A r \in Submits : RequestFits(r)
  BY LoginParts
<1>1. sending' = [sending EXCEPT ![s] = NotSent] /\ UNCHANGED <<config, script, taken, submits, typed, shared, missed, why>>
  BY DEF Refused, Accepted, Fails, Ends, loginBounds, loginPast
<1>2. TallyType' /\ failed \in Nat /\ failed' \in Nat /\ failed <= failed'
  BY <1>a, <1>1 DEF Refused, Accepted, Fails, loginBounds, TallyType
<1>3. /\ SendingType' /\ (\A r \in Submits : RequestFits(r)') /\ sending'[s] = NotSent
      /\ \A r \in Submits \ {s} : sending'[r] = sending[r]
  BY <1>a, <1>1, <1>2, NotSentFits, OneCall
<1>4. /\ here' = here /\ (leaving => leaving')
      /\ here' => token' = NoToken \/ (leaving' /\ token' = token)
  BY DEF Refused, Accepted, Fails, Reset
<1>5. FormType' /\ WidgetFits'
  <2>1. CASE Refused(s) \/ Fails(s)
    BY <1>a, <1>1, <1>2, <2>1 DEF Refused, Fails, Reset, RenderForm, FormType, WidgetFits
  <2>2. CASE Accepted(s)
    BY <1>a, <1>1, <2>2 DEF Accepted, RenderForm, FormType, WidgetFits, loginBounds
  <2> QED
    BY <2>1, <2>2
<1>6. ServiceType' /\ TokensFit'
  BY <1>a, <1>1, <1>3, <1>4, NotSentFits DEF ServiceType, TokensFit
<1>7. CaptchaRefusalsExplained'
  BY <1>a, <1>1, <1>2, <1>4 DEF CaptchaRefusalsExplained
<1> QED
  BY <1>2, <1>3, <1>5, <1>6, <1>7, LoginParts

\* The types of the form, what each request knew when it was sent, and whose a token is
\* (useCaptcha, handleSubmit, the check of the token).
THEOREM LoginInvariant == LoginSpec => []LoginInv
<1>1. LoginInit => LoginInv
  <2> SUFFICES ASSUME LoginInit
               PROVE  LoginInv
    OBVIOUS
  <2>1. 0 \in 0..MaxSubmits /\ 0 \in 0..MaxTyped /\ 0 \in 0..MaxFailed
    BY LoginAssumption
  <2>2. FormType /\ ServiceType /\ SendingType /\ TallyType
    BY <2>1, NotSentFits DEF LoginInit, FormType, ServiceType, SendingType, TallyType
  <2>3. CaptchaRefusalsExplained /\ WidgetFits /\ TokensFit /\ \A s \in Submits : RequestFits(s)
    BY NotSentFits DEF LoginInit, CaptchaRefusalsExplained, WidgetFits, TokensFit, RequestFits
  <2> QED
    BY <2>2, <2>3, LoginParts
<1>2. LoginInv /\ [LoginNext]_loginVars => LoginInv'
  <2> SUFFICES ASSUME LoginInv, [LoginNext]_loginVars
               PROVE  LoginInv'
    OBVIOUS
  <2>1. CASE LoginNext
    BY <2>1, FormKeeps, SubmitKeeps, AnswersKeep, EndsKeep DEF LoginNext, Step
  <2>2. CASE UNCHANGED loginVars
    BY <2>2, LoginParts
    DEF loginVars, form, loginBounds, loginPast, FormType, ServiceType, SendingType, TallyType,
        CaptchaRefusalsExplained, WidgetFits, TokensFit, RequestFits
  <2> QED
    BY <2>1, <2>2
<1> QED
  BY <1>1, <1>2, PTL DEF LoginSpec

-----------------------------------------------------------------------------
(* FilePreview                                                              *)

\* Only what has a thumbnail is loaded, and no file that is protected; what has arrived is in the
\* cache.
LoadsFit ==
  \A f \in Previewed :
    /\ load[f] => f \in Thumbed \ protected
    /\ stale[f] > 0 => f \in Thumbed
    /\ f \in had => f \in cache

PreviewInv == PreviewTypeOK /\ LoadsFit

Components == [mounted : BOOLEAN, seen : BOOLEAN, loading : BOOLEAN, error : BOOLEAN, url : BOOLEAN]

\* The type of one component and its loads.
ComponentFits(f) ==
  /\ preview[f].seen /\ preview[f].loading => load[f]
  /\ load[f] => preview[f].mounted /\ preview[f].seen /\ f \in Thumbed \ protected
  /\ stale[f] > 0 => f \in Thumbed

LoadsType ==
  preview \in [Previewed -> Components] /\ load \in [Previewed -> BOOLEAN] /\ stale \in [Previewed -> 0..MaxStale]

CacheType ==
  /\ protected \in SUBSET Remote /\ cache \subseteq Thumbed /\ had \subseteq Remote \cap cache

CountsType == renders \in 0..MaxRenders /\ changes \in 0..MaxChanges /\ broken \in 0..MaxBroken

LEMMA PreviewParts ==
  /\ PreviewInv <=> LoadsType /\ CacheType /\ CountsType /\ \A f \in Previewed : ComponentFits(f)
  /\ PreviewInv' <=> LoadsType' /\ CacheType' /\ CountsType' /\ \A f \in Previewed : ComponentFits(f)'
BY PreviewAssumption DEF PreviewInv, PreviewTypeOK, LoadsFit, LoadsType, CacheType, CountsType, ComponentFits, Components

\* A step of one component.
LEMMA OneComponent ==
  ASSUME LoadsType, NEW f \in Previewed, NEW c \in Components, NEW l \in BOOLEAN, NEW n \in 0..MaxStale,
         preview' = [preview EXCEPT ![f] = c], load' = [load EXCEPT ![f] = l], stale' = [stale EXCEPT ![f] = n],
         protected' \ {f} \subseteq protected \ {f}, \A g \in Previewed : ComponentFits(g),
         c.seen /\ c.loading => l, l => c.mounted /\ c.seen /\ f \in Thumbed \ protected', n > 0 => f \in Thumbed
  PROVE  LoadsType' /\ \A g \in Previewed : ComponentFits(g)'
<1>1. preview'[f] = c /\ load'[f] = l /\ stale'[f] = n
  BY DEF LoadsType
<1>2. \A g \in Previewed \ {f} : preview'[g] = preview[g] /\ load'[g] = load[g] /\ stale'[g] = stale[g]
  BY DEF LoadsType
<1>3. \A g \in Previewed \ {f} : ComponentFits(g)'
  BY <1>2 DEF ComponentFits
<1> QED
  BY <1>1, <1>3 DEF LoadsType, ComponentFits

\* The effect loads what is to be seen, and abandons what it has begun before.
LEMMA EffectFits ==
  ASSUME LoadsType, NEW f \in Previewed, \A g \in Previewed : ComponentFits(g), NEW c \in Components,
         NEW p \in SUBSET Remote, p = protected', p \ {f} \subseteq protected \ {f}, RunEffect(f, c, p)
  PROVE  LoadsType' /\ \A g \in Previewed : ComponentFits(g)'
<1> DEFINE d == AfterEffect(f, c, p)
<1> DEFINE l == MustLoad(f, c, p)
<1> DEFINE n == Abandoned(f)
<1>1. preview' = [preview EXCEPT ![f] = d] /\ load' = [load EXCEPT ![f] = l] /\ stale' = [stale EXCEPT ![f] = n]
  BY DEF RunEffect
<1>2. l \in BOOLEAN
  BY DEF MustLoad
<1>3. n \in 0..MaxStale /\ (n > 0 => f \in Thumbed)
  <2>1. stale[f] \in Nat /\ n <= MaxStale /\ n = IF load[f] THEN stale[f] + 1 ELSE stale[f]
    BY DEF LoadsType, RunEffect, Abandoned
  <2>2. (load[f] => f \in Thumbed) /\ (stale[f] > 0 => f \in Thumbed)
    BY DEF ComponentFits
  <2> HIDE DEF n
  <2> QED
    BY <2>1, <2>2, PreviewAssumption
<1>4. d \in Components /\ d.mounted = c.mounted /\ d.seen = c.seen /\ (d.seen /\ d.loading => l)
  BY DEF AfterEffect, MustLoad, Components
<1>5. l => c.mounted /\ c.seen /\ f \in Thumbed \ p
  BY DEF MustLoad
<1> HIDE DEF d, l, n
<1> QED
  BY <1>1, <1>2, <1>3, <1>4, <1>5, OneComponent

LEMMA UnmountedType == Unmounted \in Components /\ ~Unmounted.seen /\ ~Unmounted.mounted
BY DEF Unmounted, Components

LEMMA PreviewStep == PreviewInv /\ [PreviewNext]_previewVars => PreviewInv'
<1> SUFFICES ASSUME PreviewInv, [PreviewNext]_previewVars
             PROVE  PreviewInv'
  OBVIOUS
<1> USE PreviewAssumption
<1>a. LoadsType /\ CacheType /\ CountsType /\ \A g \in Previewed : ComponentFits(g)
  BY PreviewParts
<1>1. CASE UNCHANGED previewVars
  BY <1>a, <1>1, PreviewParts DEF previewVars, previewBounds, LoadsType, CacheType, CountsType, ComponentFits
<1>2. ASSUME NEW f \in Previewed, NEW c \in Components, RunEffect(f, c, protected), UNCHANGED <<protected, cache, had>>,
             CountsType'
      PROVE  PreviewInv'
  <2>1. protected \in SUBSET Remote /\ CacheType'
    BY <1>a, <1>2 DEF CacheType
  <2>2. LoadsType' /\ \A g \in Previewed : ComponentFits(g)'
    BY <1>a, <1>2, <2>1, EffectFits
  <2> QED
    BY <1>2, <2>1, <2>2, PreviewParts
<1>3. ASSUME NEW f \in Previewed, UNCHANGED previewBounds
      PROVE  CountsType'
  BY <1>a, <1>3 DEF CountsType, previewBounds
<1>4. ASSUME NEW f \in Previewed, MountPreview(f)
      PROVE  PreviewInv'
  <2> DEFINE c == [Unmounted EXCEPT !.mounted = TRUE, !.loading = TRUE, !.seen = f \notin Remote]
  <2>1. c \in Components
    BY DEF Unmounted, Components
  <2>2. RunEffect(f, c, protected) /\ UNCHANGED <<protected, cache, had, previewBounds>>
    BY <1>4 DEF MountPreview
  <2> HIDE DEF c
  <2> QED
    BY <1>2, <1>3, <2>1, <2>2
<1>5. ASSUME NEW f \in Previewed, UnmountPreview(f)
      PROVE  PreviewInv'
  BY <1>2, <1>3, <1>5, UnmountedType DEF UnmountPreview
<1>6. ASSUME NEW f \in Previewed, Intersect(f)
      PROVE  PreviewInv'
  <2> DEFINE c == [preview[f] EXCEPT !.seen = TRUE]
  <2>1. c \in Components
    BY <1>a DEF LoadsType, Components
  <2>2. RunEffect(f, c, protected) /\ UNCHANGED <<protected, cache, had, previewBounds>>
    BY <1>6 DEF Intersect
  <2> HIDE DEF c
  <2> QED
    BY <1>2, <1>3, <2>1, <2>2
<1>7. ASSUME NEW f \in Previewed, WrapAnew(f)
      PROVE  PreviewInv'
  <2>1. preview[f] \in Components /\ CountsType'
    BY <1>a, <1>7 DEF LoadsType, WrapAnew, CountsType
  <2> QED
    BY <1>2, <1>7, <2>1 DEF WrapAnew
<1>8. ASSUME NEW f \in Previewed, ChangeProtection(f)
      PROVE  PreviewInv'
  <2>1. preview[f] \in Components /\ CountsType'
    BY <1>a, <1>8 DEF LoadsType, ChangeProtection, CountsType
  <2>2. protected' \in SUBSET Remote /\ protected' \ {f} \subseteq protected \ {f} /\ CacheType'
    BY <1>a, <1>8 DEF ChangeProtection, Flipped, CacheType
  <2>3. LoadsType' /\ \A g \in Previewed : ComponentFits(g)'
    BY <1>a, <1>8, <2>1, <2>2, EffectFits DEF ChangeProtection
  <2> QED
    BY <2>1, <2>2, <2>3, PreviewParts
<1>9. ASSUME NEW f \in Previewed, LoadEnds(f) \/ ImageFails(f)
      PROVE  PreviewInv'
  <2>a. /\ preview[f] \in Components /\ load[f] \in BOOLEAN /\ stale[f] \in 0..MaxStale /\ ComponentFits(f)
        /\ protected \in SUBSET Remote
    BY <1>a DEF LoadsType, CacheType
  <2>b. UNCHANGED protected /\ CountsType'
    BY <1>a, <1>9 DEF LoadEnds, LoadDone, LoadFails, StaleDone, StaleFails, ImageFails, Breaks, CountsType, previewBounds
  <2>1. CacheType'
    BY <1>a, <1>9, <2>a DEF LoadEnds, LoadDone, LoadFails, StaleDone, StaleFails, ImageFails, CacheType, ComponentFits
  <2>2. LoadsType' /\ \A g \in Previewed : ComponentFits(g)'
    <3>1. CASE LoadDone(f)
      <4> DEFINE c == [preview[f] EXCEPT !.url = TRUE, !.loading = FALSE]
      <4>1. c \in Components /\ ~c.loading
        BY <2>a DEF Components
      <4>2. preview' = [preview EXCEPT ![f] = c] /\ load' = [load EXCEPT ![f] = FALSE]
            /\ stale' = [stale EXCEPT ![f] = stale[f]]
        BY <1>a, <3>1 DEF LoadDone, LoadsType, Components
      <4> HIDE DEF c
      <4> QED
        BY <1>a, <2>a, <2>b, <4>1, <4>2, OneComponent DEF ComponentFits
    <3>2. CASE LoadFails(f)
      <4> DEFINE c == [preview[f] EXCEPT !.error = TRUE, !.loading = FALSE]
      <4> DEFINE l == f \notin Remote /\ preview'[f] # preview[f]
      <4>1. c \in Components /\ ~c.loading /\ c.mounted = preview[f].mounted /\ c.seen = preview[f].seen
        BY <2>a DEF Components
      <4>2. preview' = [preview EXCEPT ![f] = c] /\ load' = [load EXCEPT ![f] = l] /\ load[f]
            /\ stale' = [stale EXCEPT ![f] = stale[f]]
        BY <1>a, <3>2 DEF LoadFails, LoadsType, Components
      <4>3. l \in BOOLEAN /\ (l => f \notin Remote)
        OBVIOUS
      <4> HIDE DEF c, l
      <4> QED
        BY <1>a, <2>a, <2>b, <4>1, <4>2, <4>3, OneComponent DEF ComponentFits
    <3>3. CASE StaleDone(f) \/ StaleFails(f)
      <4>1. stale' = [stale EXCEPT ![f] = stale[f] - 1] /\ stale[f] > 0 /\ stale[f] - 1 \in 0..MaxStale
        BY <2>a, <3>3 DEF StaleDone, StaleFails
      <4>2. preview' = [preview EXCEPT ![f] = preview[f]] /\ load' = [load EXCEPT ![f] = load[f]]
        BY <1>a, <3>3 DEF StaleDone, StaleFails, LoadsType
      <4> QED
        BY <1>a, <2>a, <2>b, <4>1, <4>2, OneComponent DEF ComponentFits
    <3>4. CASE ImageFails(f)
      <4> DEFINE c == [preview[f] EXCEPT !.error = TRUE]
      <4>1. c \in Components /\ c.loading = preview[f].loading /\ c.mounted = preview[f].mounted
            /\ c.seen = preview[f].seen
        BY <2>a DEF Components
      <4>2. preview' = [preview EXCEPT ![f] = c] /\ load' = [load EXCEPT ![f] = load[f]]
            /\ stale' = [stale EXCEPT ![f] = stale[f]]
        BY <1>a, <3>4 DEF ImageFails, LoadsType, Components
      <4> HIDE DEF c
      <4> QED
        BY <1>a, <2>a, <2>b, <4>1, <4>2, OneComponent DEF ComponentFits
    <3> QED
      BY <1>9, <3>1, <3>2, <3>3, <3>4 DEF LoadEnds
  <2> QED
    BY <2>1, <2>2, <2>b, PreviewParts
<1> QED
  BY <1>1, <1>4, <1>5, <1>6, <1>7, <1>8, <1>9 DEF PreviewNext

\* The types of the previews, that nothing protected is loaded, and that what has arrived is in
\* the cache (the effects of FilePreview).
THEOREM PreviewInvariant == PreviewSpec => []PreviewInv
<1>1. PreviewInit => PreviewInv
  <2> SUFFICES ASSUME PreviewInit
               PROVE  PreviewInv
    OBVIOUS
  <2>1. 0 \in 0..MaxRenders /\ 0 \in 0..MaxChanges /\ 0 \in 0..MaxBroken /\ 0 \in 0..MaxStale
    BY PreviewAssumption
  <2>2. LoadsType /\ \A f \in Previewed : ComponentFits(f)
    BY <2>1, UnmountedType DEF PreviewInit, LoadsType, ComponentFits
  <2>3. CacheType /\ CountsType
    BY <2>1 DEF PreviewInit, CacheType, CountsType
  <2> QED
    BY <2>2, <2>3, PreviewParts
<1> QED
  BY <1>1, PreviewStep, PTL DEF PreviewSpec

\* Once a thumbnail of a file has arrived, whoever had asked for it, none is asked for again
\* (thumbnailCache).
THEOREM ArrivedIsNotAskedFor == PreviewSpec => NotAskedAgain
<1> DEFINE NoMore == \A f \in had : InFlight(f)' <= InFlight(f)
<1>1. ASSUME PreviewInv, [PreviewNext]_previewVars
      PROVE  NoMore
  <2> SUFFICES ASSUME NEW f \in had
               PROVE  InFlight(f)' <= InFlight(f)
    OBVIOUS
  <2>1. f \in Previewed /\ f \in Remote \cap cache /\ load \in [Previewed -> BOOLEAN] /\ stale \in [Previewed -> 0..MaxStale]
        /\ preview \in [Previewed -> Components]
    BY <1>1, PreviewParts, PreviewAssumption DEF LoadsType, CacheType
  <2>2. stale[f] \in Nat /\ load[f] \in BOOLEAN
    BY <2>1, PreviewAssumption
  <2>3. CASE UNCHANGED <<load[f], stale[f]>>
    BY <2>2, <2>3 DEF InFlight
  <2>4. ASSUME NEW g \in Previewed, NEW c, NEW p, RunEffect(g, c, p)
        PROVE  InFlight(f)' <= InFlight(f)
    <3>1. CASE g # f
      BY <2>1, <2>3, <2>4, <3>1 DEF RunEffect
    <3>2. CASE g = f
      <4>1. load'[f] = FALSE /\ stale'[f] = Abandoned(f)
        BY <2>1, <2>4, <3>2 DEF RunEffect, MustLoad
      <4> QED
        BY <2>2, <4>1 DEF InFlight, Abandoned
    <3> QED
      BY <3>1, <3>2
  <2>5. ASSUME NEW g \in Previewed, LoadEnds(g)
        PROVE  InFlight(f)' <= InFlight(f)
    <3>1. CASE g # f
      BY <2>1, <2>3, <2>5, <3>1 DEF LoadEnds, LoadDone, LoadFails, StaleDone, StaleFails
    <3>2. CASE g = f
      <4>1. \/ load[f] /\ load'[f] = FALSE /\ stale'[f] = stale[f]
            \/ stale'[f] = stale[f] - 1 /\ load'[f] = load[f]
        BY <2>1, <2>5, <3>2 DEF LoadEnds, LoadDone, LoadFails, StaleDone, StaleFails
      <4> QED
        BY <2>2, <4>1 DEF InFlight
    <3> QED
      BY <3>1, <3>2
  <2>6. ASSUME NEW g \in Previewed, MountPreview(g) \/ UnmountPreview(g) \/ Intersect(g) \/ WrapAnew(g) \/ ChangeProtection(g)
        PROVE  InFlight(f)' <= InFlight(f)
    BY <2>4, <2>6 DEF MountPreview, UnmountPreview, Intersect, WrapAnew, ChangeProtection
  <2>7. ASSUME NEW g \in Previewed, ImageFails(g)
        PROVE  InFlight(f)' <= InFlight(f)
    BY <2>3, <2>7 DEF ImageFails
  <2>8. CASE UNCHANGED previewVars
    BY <2>3, <2>8 DEF previewVars
  <2> QED
    BY <1>1, <2>5, <2>6, <2>7, <2>8 DEF PreviewNext
<1> QED
  BY <1>1, PreviewInvariant, PTL DEF PreviewSpec, NotAskedAgain

-----------------------------------------------------------------------------
\* Of what somebody meets who opens a bucket, nothing is uncalled for: whichever of the three moves
\* next, the page is empty, the captcha refuses and a picture is hidden only for a reason.
THEOREM NothingIsUncalledFor == AccessSpec /\ LoginSpec /\ PreviewSpec => []NothingUncalledFor
<1>1. AccessInv /\ EmptyExplained /\ LoginInv /\ PreviewInv => NothingUncalledFor
  <2>1. PreviewInv => ProtectedIsHidden
    BY PreviewAssumption DEF PreviewInv, PreviewTypeOK, LoadsFit, ProtectedIsHidden, View
  <2> QED
    BY <2>1 DEF NothingUncalledFor, AccessInv, LoginInv, PreviewInv
<1> QED
  BY <1>1, AccessInvariant, EmptyIsExplained, LoginInvariant, PreviewInvariant, PTL
=============================================================================
