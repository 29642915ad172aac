---------------------------- MODULE ThumbCopies ----------------------------
(***************************************************************************)
(* The thumbnail of one file: its row, which ThumbBatch inserts, and the   *)
(* copy of it in Redis.  The service writes the copy after it has answered *)
(* for the row; a reader that finds none writes it from the row; whoever   *)
(* deletes the row deletes the copy next, and waits for neither.           *)
(*                                                                         *)
(* The file is of a supported type, and may be in one album, which is      *)
(* public.  A thumbnail can be empty: ffmpeg succeeds without a frame when *)
(* it is told to seek to the end of a video.                               *)
(***************************************************************************)
EXTENDS Naturals, FiniteSets

CONSTANTS
  Slots,     \* slots for requests; each serves any number of them
  Enforced,  \* whether the service's connection enforces foreign keys; that of the
             \* server does
  MaxFaults  \* bound: calls of Redis and of the service that fail

ASSUME EnforcedAssumption == Enforced \in BOOLEAN

VARIABLES
  fileRow,    \* the file's row: without a password, with one, or deleted
  inAlbum,
  row, copy,  \* the thumbnail in the database and in Redis
  doing,      \* of each request: what it does, where it is, what it has read
  making,     \* the service makes a thumbnail
  storing,    \* thumbnails saved whose copy is not yet written
  faults,
  stale,      \* history: why a copy may have no row
  missed      \* history: why a file in the album may have no thumbnail

file       == <<fileRow, inAlbum>>
goService  == <<making, storing>>
history    == <<stale, missed>>
copiesVars == <<file, row, copy, doing, goService, faults, history>>

ThumbData == {"none", "empty", "thumb"}
Deletions == {"delete", "deleteBucket"}
Ops == {"none", "get", "assign", "share", "disassociate"} \cup Deletions
Resting == [op |-> "none", pc |-> "idle", valid |-> FALSE, del |-> FALSE]

CopiesTypeOK ==
  /\ fileRow \in {"plain", "protected", "gone"} /\ inAlbum \in BOOLEAN
  /\ row \in ThumbData /\ copy \in ThumbData
  /\ doing \in [Slots -> [op : Ops, valid : BOOLEAN, del : BOOLEAN,
                           pc : {"idle", "redis", "db", "empty", "thumb", "generate", "has", "rows", "entry"}]]
  /\ making \in BOOLEAN /\ storing \subseteq ThumbData
  /\ faults \in Nat
  /\ stale \subseteq {"stored late", "filled late", "not deleted", "lost"}
  /\ missed \subseteq {"deleted", "protected", "dropped", "failed"}

CopiesInit ==
  /\ fileRow = "plain" /\ inAlbum = FALSE
  /\ row = "none" /\ copy = "none"
  /\ doing = [r \in Slots |-> Resting]
  /\ making = FALSE /\ storing = {}
  /\ faults = 0
  /\ stale = {} /\ missed = {}

To(r, pc) == doing' = [doing EXCEPT ![r].pc = pc]
End(r) == doing' = [doing EXCEPT ![r] = [Resting EXCEPT !.del = doing[r].del]]
Fault == faults < MaxFaults /\ faults' = faults + 1

Free(r) == doing[r].pc = "idle" /\ ~doing[r].del
Starts(r, op, pc) ==
  /\ Free(r)
  /\ doing' = [doing EXCEPT ![r] = [Resting EXCEPT !.op = op, !.pc = pc, !.valid = op \in Deletions /\ fileRow = "plain"]]

-----------------------------------------------------------------------------
(* Thumbnails are made.                                                     *)

\* What ThumbnailService sends, and ThumbBatch then makes unless it is busy already.
Sent == fileRow = "plain" /\ inAlbum /\ row = "none"

\* AlbumService.generateThumbnails, to the end of Process' first step.
GenerateThumbnails ==
  /\ \/ Sent /\ ~making /\ making' = TRUE /\ missed' = {} /\ UNCHANGED faults
     \/ Sent /\ making /\ missed' = missed \cup {"dropped"} /\ UNCHANGED <<making, faults>>
     \/ Sent /\ Fault /\ missed' = missed \cup {"failed"} /\ UNCHANGED making
     \/ ~Sent /\ UNCHANGED <<missed, making, faults>>
  /\ UNCHANGED <<storing, stale>>

\* SaveThumbnails of a batch with the file: refused if it has a row, or, unless the
\* database is SQLite, has gone.
SaveThumbnails(t) ==
  /\ making
  /\ making' = FALSE
  /\ IF row = "none" /\ (Enforced => fileRow # "gone")
     THEN row' = t /\ storing' = storing \cup {t} /\ missed' = {}
     ELSE UNCHANGED <<row, storing, missed>>
  /\ UNCHANGED <<file, copy, doing, faults, stale>>

GenerateFails ==
  /\ making /\ Fault
  /\ making' = FALSE
  /\ missed' = missed \cup {"failed"}
  /\ UNCHANGED <<file, row, copy, doing, storing, stale>>

\* storeRedis, in a goroutine of its own.
StoreRedis(t) ==
  /\ t \in storing
  /\ storing' = storing \ {t}
  /\ \/ copy' = t /\ UNCHANGED faults
        /\ stale' = stale \cup (IF row = "none" THEN {"stored late"} ELSE {})
     \/ Fault /\ UNCHANGED <<copy, stale>>
  /\ UNCHANGED <<file, row, doing, making, missed>>

-----------------------------------------------------------------------------
(* GET .../thumbnail: AlbumService.getThumbnail.                           *)

\* The entry is looked up in the cached list of the album, which may be an older one: a
\* file that has a thumbnail was in the album, and one that has none changes nothing here.
Get(r) ==
  /\ (fileRow = "plain" /\ inAlbum) \/ row # "none" \/ copy # "none"
  /\ Starts(r, "get", "redis")
  /\ UNCHANGED <<file, row, copy, goService, faults, history>>

\* getThumbnailBuffer: a copy that is empty counts as none.
GetBuffer(r) ==
  /\ doing[r].op = "get" /\ doing[r].pc = "redis"
  /\ IF copy = "thumb" THEN End(r) ELSE To(r, "db")
  /\ UNCHANGED <<file, row, copy, goService, faults, history>>

GetThumbnailCache(r) ==
  /\ doing[r].op = "get" /\ doing[r].pc = "db"
  /\ IF row = "none" THEN End(r) ELSE To(r, row)
  /\ UNCHANGED <<file, row, copy, goService, faults, history>>

\* Mutant: whatever was found is written, before the row has been read.
CacheRedis_Unread(r) ==
  /\ doing[r].op = "get" /\ doing[r].pc \in {"db", "empty", "thumb"}
  /\ copy' = doing[r].pc
  /\ End(r)
  /\ UNCHANGED <<file, row, goService, faults, history>>

\* cacheRedis, and the answer: an empty one is generated again, and the default sent.
CacheRedis(r) ==
  LET found == doing[r].pc
  IN  /\ doing[r].op = "get" /\ found \in {"empty", "thumb"}
      /\ copy' = found
      /\ stale' = stale \cup (IF row = "none" THEN {"filled late"} ELSE {})
      /\ IF found = "thumb" THEN End(r) ELSE To(r, "generate")
      /\ UNCHANGED <<file, row, goService, faults, missed>>

-----------------------------------------------------------------------------
(* Files come into the album, and get passwords.                            *)

\* assignFilesToAlbum, up to the thumbnails; shareAlbum, likewise.
Assign(r) ==
  /\ fileRow # "gone" /\ Starts(r, "assign", "generate")
  /\ inAlbum' = TRUE
  /\ UNCHANGED <<fileRow, row, copy, goService, faults, history>>

Share(r) ==
  /\ inAlbum /\ Starts(r, "share", "generate")
  /\ UNCHANGED <<file, row, copy, goService, faults, history>>

\* Mutant: only shareAlbum generates.
Generate_Shared(r) ==
  /\ doing[r].pc = "generate"
  /\ End(r)
  /\ IF doing[r].op = "assign" THEN UNCHANGED <<goService, faults, history>> ELSE GenerateThumbnails
  /\ UNCHANGED <<file, row, copy>>

Generate(r) ==
  /\ doing[r].pc = "generate"
  /\ End(r)
  /\ GenerateThumbnails
  /\ UNCHANGED <<file, row, copy>>

\* modifyEntry with a password, or without: the thumbnail stays as it is.
ChangePassword ==
  /\ fileRow \in {"plain", "protected"}
  /\ fileRow' = IF fileRow = "plain" THEN "protected" ELSE "plain"
  /\ missed' = missed \cup (IF fileRow = "protected" /\ inAlbum /\ row = "none" THEN {"protected"} ELSE {})
  /\ UNCHANGED <<inAlbum, row, copy, doing, goService, faults, stale>>

-----------------------------------------------------------------------------
(* Thumbnails are deleted.                                                  *)

\* disassociateFilesFromAlbum, and deleteAlbum that keeps the files.
Disassociate(r) ==
  /\ inAlbum /\ Starts(r, "disassociate", "rows")
  /\ inAlbum' = FALSE
  /\ missed' = {}
  /\ UNCHANGED <<fileRow, row, copy, goService, faults, stale>>

\* FileRepo.deleteEntries and an album deleted with its files; BucketRepo.deleteBucket.
Delete(r, op) ==
  /\ op \in Deletions
  /\ fileRow # "gone" /\ Starts(r, op, "has")
  /\ UNCHANGED <<file, row, copy, goService, faults, history>>

\* deleteThumbsIfExist: only of files that have one and no password, as they were read.
DeletesThumb(r) == row # "none" /\ doing[r].valid

HasThumbnails(r) ==
  /\ doing[r].op \in Deletions /\ doing[r].pc = "has"
  /\ To(r, IF DeletesThumb(r) THEN "rows" ELSE "entry")
  /\ UNCHANGED <<file, row, copy, goService, faults, history>>

\* deleteThumbnailCaches: the rows, then del, which nobody waits for.  The rows of a
\* bucket go with its transaction, which readers on its connection look into.
Mine(r) == IF doing[r].op = "deleteBucket" THEN {row, "none"} ELSE {"none"}

\* Mutant: the copy is left to time out.
AfterRows_Rows(r) == IF doing[r].op = "disassociate" THEN Resting ELSE [doing[r] EXCEPT !.pc = "entry"]

AfterRows(r) ==
  IF doing[r].op = "disassociate" THEN [Resting EXCEPT !.del = TRUE]
  ELSE [doing[r] EXCEPT !.pc = "entry", !.del = TRUE]

DeleteThumbnailCaches(r) ==
  /\ doing[r].pc = "rows" /\ doing[r].op \in Deletions \cup {"disassociate"}
  /\ row' \in Mine(r)
  /\ doing' = [doing EXCEPT ![r] = AfterRows(r)]
  /\ missed' = missed \cup (IF inAlbum /\ doing[r].op = "disassociate" THEN {"deleted"} ELSE {})
  /\ UNCHANGED <<file, copy, goService, faults, stale>>

RedisDel(r) ==
  /\ doing[r].del
  /\ doing' = [doing EXCEPT ![r].del = FALSE]
  /\ \/ copy' = "none" /\ stale' = {} /\ UNCHANGED faults
     \/ Fault /\ stale' = stale \cup {"lost"} /\ UNCHANGED copy
  /\ UNCHANGED <<file, row, goService, missed>>

\* The entry goes, and by its foreign key the thumbnail, with or without a copy.
DeleteFile(r) ==
  /\ doing[r].pc = "entry"
  /\ fileRow' = "gone" /\ inAlbum' = FALSE /\ row' = "none"
  /\ End(r)
  /\ stale' = stale \cup (IF row # "none" /\ copy # "none" THEN {"not deleted"} ELSE {})
  /\ UNCHANGED <<copy, goService, faults, missed>>

DeleteFails(r) ==
  /\ doing[r].pc = "entry" /\ doing[r].op = "delete" /\ Fault
  /\ End(r)
  /\ missed' = missed \cup {"failed"}
  /\ UNCHANGED <<file, row, copy, goService, stale>>

-----------------------------------------------------------------------------
GiveThumb(r) == Get(r) \/ GetBuffer(r) \/ GetThumbnailCache(r) \/ CacheRedis(r)
Remove(r) ==
  \/ \E op \in Deletions : Delete(r, op)
  \/ Disassociate(r) \/ HasThumbnails(r) \/ DeleteThumbnailCaches(r) \/ RedisDel(r) \/ DeleteFile(r) \/ DeleteFails(r)
Service == GenerateFails \/ \E t \in {"empty", "thumb"} : SaveThumbnails(t) \/ StoreRedis(t)

CopiesNext ==
  \/ \E r \in Slots : GiveThumb(r) \/ Remove(r) \/ Assign(r) \/ Share(r) \/ Generate(r)
  \/ Service
  \/ ChangePassword

CopiesSpec == CopiesInit /\ [][CopiesNext]_copiesVars

\* Somebody looks at the album again and again, and requests are worked on.
FairCopiesSpec ==
  /\ CopiesSpec
  /\ \A r \in Slots :
       /\ SF_copiesVars(Get(r))
       /\ WF_copiesVars(GetBuffer(r) \/ GetThumbnailCache(r) \/ CacheRedis(r) \/ Generate(r))
       /\ WF_copiesVars(HasThumbnails(r) \/ DeleteThumbnailCaches(r) \/ RedisDel(r) \/ DeleteFile(r))
  /\ WF_copiesVars(\E t \in {"empty", "thumb"} : SaveThumbnails(t))

-----------------------------------------------------------------------------
\* A copy goes with its row, which alone is deleted by name (deleteThumbnailCaches): what
\* is in Redis without one was written after its row was deleted, or was not deleted
\* because the file had a password, or because its bucket's rows went after their copies.
CopiesGo ==
  copy # "none" /\ row = "none" => stale # {} \/ \E r \in Slots : doing[r].del

\* A file that everybody may see in the album has a thumbnail, or is about to get one, but
\* for the ways to miss it: an older request deletes it, the file had a password when it
\* came into the album, the service was busy, or something failed.
Awaited ==
  \/ making
  \/ \E r \in Slots : doing[r].pc = "generate" /\ doing[r].op # "get"
  \/ \E r \in Slots : doing[r].op \in Deletions /\ doing[r].pc = "entry"
NoneMissed == fileRow = "plain" /\ inAlbum /\ row = "none" => Awaited \/ missed # {}

\* AlbumService.getThumbnail: "something went wrong, the entry is in the DB, but data is an
\* empty string, re-generate thumbnail".
EmptyIsReplaced == row = "empty" ~> row # "empty" \/ fileRow # "plain" \/ ~inAlbum
=============================================================================
