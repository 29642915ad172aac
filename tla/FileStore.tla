----------------------------- MODULE FileStore -----------------------------
(***************************************************************************)
(* The file store of WaifuVault: the rows of the file_upload_model table   *)
(* and the files of the directory `files`, which no transaction keeps      *)
(* together.  Four kinds of actor change them, each in steps separated by  *)
(* the awaits of its code:                                                 *)
(*                                                                         *)
(*   uploads   FileUploadService.processUpload, one per PUT /rest          *)
(*   requests  GET /f/:t, GET and DELETE /rest/:token, DELETE /rest/bucket *)
(*   nodes     FileCleaner, run by cron in every process of the cluster    *)
(*   jobs      FileService.processDelete, called by each of the others     *)
(*                                                                         *)
(* An upload names its token, its file name and its row: all three are     *)
(* fresh for every upload.  Times are abstracted to the set of the rows    *)
(* whose expiry has passed.                                                *)
(***************************************************************************)
EXTENDS Naturals, FiniteSets

CONSTANTS
  Uploads,       \* the PUT requests
  Requests,      \* clients of the other endpoints; each issues any number of calls
  Nodes,         \* the clustered processes (processes.config.cjs runs four)
  Keys,          \* what makes two uploads duplicates: checksum and bucket, or checksum and ip
  KeyOf,         \* the key of each upload
  Buckets,       \* bucket tokens
  Bucketed,      \* the uploads sent to a bucket
  BucketOf,      \* and the bucket of each of those
  OneTime,       \* the uploads with one_time_download=true
  Protected,     \* the uploads with a password: their file is encrypted in place
  SoftDeleteSet, \* whether SOFT_DELETE_LOCATION is set
  MaxFaults      \* bound: how many I/O errors and crashes a behaviour has

ASSUME ActorsAssumption ==
  /\ Uploads \cap Requests = {}
  /\ Uploads \cap Nodes = {}
  /\ Requests \cap Nodes = {}

ASSUME KindsAssumption ==
  /\ KeyOf \in [Uploads -> Keys]
  /\ Bucketed \subseteq Uploads
  /\ BucketOf \in [Bucketed -> Buckets]
  /\ OneTime \subseteq Uploads
  /\ Protected \subseteq Uploads
  /\ SoftDeleteSet \in BOOLEAN
  /\ MaxFaults \in Nat

\* A key of bucketed uploads holds the bucket: no other upload has it.
ASSUME KeyAssumption ==
  \A u, v \in Uploads : KeyOf[u] = KeyOf[v] =>
      /\ u \in Bucketed <=> v \in Bucketed
      /\ u \in Bucketed => BucketOf[u] = BucketOf[v]

VARIABLES
  disk,       \* the files in filesDir
  rows,       \* the rows of the file table
  id,         \* the primary key each row got when it was inserted, 0 before that
  nextId,     \* the sequence of the primary key
  expired,    \* the uploads whose row's `expires` has passed
  buckets,    \* the rows of the bucket table
  upc,        \* where processUpload is, for each upload
  found,      \* the existing entry it found (itself: none)
  jpc,        \* where the owner's call of processDelete is
  jtok,       \* the tokens it was called with
  jfile,      \* the entries it read for them
  rpc,        \* what each request is doing
  tgt,        \* the entries it read
  bkt,        \* the bucket it is deleting (at most one)
  npc,        \* where FileCleaner is, on each node
  snap,       \* sync: the rows it read
  doomed,     \* sync: the files it is moving away
  clean,      \* sync: no rename was refused so far
  groups,     \* removeDuplicates: the keys still to be visited
  victims,    \* removeDuplicates: the rows about to be deleted
  faults,     \* I/O errors and crashes so far
  asked,      \* history: uploads somebody had the right to have deleted
  superseded, \* history: uploads whose row removeDuplicates deleted
  unborn,     \* history: the uploads that had no row when sync read the rows
  caught      \* history: of those, the ones whose file sync then moved away

store   == <<disk, rows, id, nextId, expired, buckets>>
upload  == <<upc, found>>
job     == <<jpc, jtok, jfile>>
request == <<rpc, tgt, bkt>>
cleaner == <<npc, snap, doomed, clean, groups, victims>>
history == <<asked, superseded, unborn, caught>>
vars    == <<store, upload, job, request, cleaner, faults, history>>

Owners == Uploads \cup Requests \cup Nodes

UploadPC  == {"new", "received", "exists", "purging", "fresh", "filtered", "sized",
              "checked", "encrypting", "ready", "stored", "existing", "failed"}
RequestPC == {"idle", "check", "serving", "bucketTx", "bucketFiles"}
NodePC    == {"idle", "expire", "list", "sweep", "tidy", "dupes", "drop"}
JobPC     == {"idle", "unlink", "rows"}

Finished == {"stored", "existing", "failed"}
Saved    == {u \in Uploads : id[u] # 0}
SameKey(k) == {u \in rows : KeyOf[u] = k}

TypeOK ==
  /\ disk \subseteq Uploads /\ rows \subseteq Uploads
  /\ id \in [Uploads -> Nat] /\ nextId \in Nat \ {0}
  /\ expired \subseteq Uploads /\ buckets \subseteq Buckets
  /\ upc \in [Uploads -> UploadPC] /\ found \in [Uploads -> Uploads]
  /\ jpc \in [Owners -> JobPC]
  /\ jtok \in [Owners -> SUBSET Uploads] /\ jfile \in [Owners -> SUBSET Uploads]
  /\ rpc \in [Requests -> RequestPC] /\ tgt \in [Requests -> SUBSET Uploads]
  /\ bkt \in [Requests -> SUBSET Buckets]
  /\ npc \in [Nodes -> NodePC]
  /\ snap \in [Nodes -> SUBSET Uploads] /\ doomed \in [Nodes -> SUBSET Uploads]
  /\ clean \in [Nodes -> BOOLEAN]
  /\ groups \in [Nodes -> SUBSET Keys] /\ victims \in [Nodes -> SUBSET Uploads]
  /\ faults \in 0..MaxFaults
  /\ asked \subseteq Uploads /\ superseded \subseteq Uploads /\ caught \subseteq Uploads
  /\ unborn \in [Nodes -> SUBSET Uploads]
  /\ rows \subseteq Saved                            \* every row has a primary key,
  /\ \A u \in Saved : id[u] < nextId                 \* which the sequence has passed,
  /\ \A u, v \in Saved : id[u] = id[v] => u = v      \* and no two rows share one
  /\ \A u \in Uploads : u \in Saved <=> upc[u] = "stored"

Init ==
  /\ disk = {} /\ rows = {} /\ expired = {} /\ buckets = Buckets
  /\ id = [u \in Uploads |-> 0] /\ nextId = 1
  /\ upc = [u \in Uploads |-> "new"] /\ found = [u \in Uploads |-> u]
  /\ jpc = [o \in Owners |-> "idle"]
  /\ jtok = [o \in Owners |-> {}] /\ jfile = [o \in Owners |-> {}]
  /\ rpc = [r \in Requests |-> "idle"] /\ tgt = [r \in Requests |-> {}]
  /\ bkt = [r \in Requests |-> {}]
  /\ npc = [n \in Nodes |-> "idle"]
  /\ snap = [n \in Nodes |-> {}] /\ doomed = [n \in Nodes |-> {}]
  /\ clean = [n \in Nodes |-> TRUE]
  /\ groups = [n \in Nodes |-> {}] /\ victims = [n \in Nodes |-> {}]
  /\ faults = 0
  /\ asked = {} /\ superseded = {} /\ caught = {}
  /\ unborn = [n \in Nodes |-> {}]

-----------------------------------------------------------------------------
(* processDelete(tokens): read the entries, unlink their files, delete the  *)
(* rows.  The read goes through the shared query cache, so it may return    *)
(* entries that were deleted since; it never misses a row, because a token  *)
(* is unknown before its row exists and no row comes back.                  *)

CachedEntries(T) == {E \in SUBSET (T \cap Saved) : T \cap rows \subseteq E}

\* The call up to its first effect; with no entry to delete it returns false.
StartDelete(o, T) ==
  \E E \in CachedEntries(T) :
    IF E = {}
    THEN UNCHANGED job
    ELSE /\ jpc' = [jpc EXCEPT ![o] = "unlink"]
         /\ jtok' = [jtok EXCEPT ![o] = T]
         /\ jfile' = [jfile EXCEPT ![o] = E]

\* deleteFilesFromDisk, every unlink done.
DeleteFilesFromDisk(o) ==
  /\ jpc[o] = "unlink"
  /\ disk' = disk \ jfile[o]
  /\ jpc' = [jpc EXCEPT ![o] = "rows"]
  /\ jfile' = [jfile EXCEPT ![o] = {}]
  /\ UNCHANGED <<rows, id, nextId, expired, buckets, upload, jtok, request, cleaner,
                 faults, history>>

\* deleteFilesFromDisk swallows what fs.rm throws: some files stay, the rows go.
DeleteFilesFails(o) ==
  /\ jpc[o] = "unlink" /\ faults < MaxFaults
  /\ \E kept \in (SUBSET jfile[o]) \ {{}} : disk' = disk \ (jfile[o] \ kept)
  /\ jpc' = [jpc EXCEPT ![o] = "rows"]
  /\ jfile' = [jfile EXCEPT ![o] = {}]
  /\ faults' = faults + 1
  /\ UNCHANGED <<rows, id, nextId, expired, buckets, upload, jtok, request, cleaner, history>>

EndJob(o) ==
  /\ jpc' = [jpc EXCEPT ![o] = "idle"]
  /\ jtok' = [jtok EXCEPT ![o] = {}]
  /\ jfile' = [jfile EXCEPT ![o] = {}]

\* FileRepo.deleteEntries: every token asked for, whatever the read returned.
DeleteEntries(o) ==
  /\ jpc[o] = "rows"
  /\ rows' = rows \ jtok[o]
  /\ EndJob(o)
  /\ UNCHANGED <<disk, id, nextId, expired, buckets, upload, request, cleaner, faults, history>>

\* The database refuses: caught, logged and answered false; the files are gone.
DeleteEntriesFails(o) ==
  /\ jpc[o] = "rows" /\ faults < MaxFaults
  /\ EndJob(o)
  /\ faults' = faults + 1
  /\ UNCHANGED <<store, upload, request, cleaner, history>>

-----------------------------------------------------------------------------
(* processUpload.                                                           *)

UploadStep(u, from, to) ==
  /\ upc[u] = from
  /\ upc' = [upc EXCEPT ![u] = to]

\* Multer's storage engine writes the file before processUpload runs.
Receive(u) ==
  /\ UploadStep(u, "new", "received")
  /\ disk' = disk \cup {u}
  /\ UNCHANGED <<rows, id, nextId, expired, buckets, found, job, request, cleaner,
                 faults, history>>

\* getFileHash: no file, no hash; the stream's error is no Exception.
HashFails(u) ==
  /\ u \notin disk
  /\ UploadStep(u, "received", "failed")
  /\ UNCHANGED <<store, found, job, request, cleaner, faults, history>>

\* handleExistingFileModel: the rows with this checksum in this bucket or, without a
\* bucket, from this ip.  (Its own deleteFile joins filesDir to an absolute path and
\* removes nothing.)
HandleExistingFileModel(u) ==
  /\ u \in disk
  /\ \/ /\ SameKey(KeyOf[u]) = {}
        /\ UploadStep(u, "received", "fresh")
        /\ UNCHANGED found
     \/ \E v \in SameKey(KeyOf[u]) :
          /\ UploadStep(u, "received", "exists")
          /\ found' = [found EXCEPT ![u] = v]
  /\ UNCHANGED <<store, job, request, cleaner, faults, history>>

\* An entry exists: the file just received goes, whether or not that entry expired.
ReturnExisting(u) ==
  /\ found[u] \notin expired
  /\ UploadStep(u, "exists", "existing")
  /\ disk' = disk \ {u}
  /\ UNCHANGED <<rows, id, nextId, expired, buckets, found, job, request, cleaner,
                 faults, history>>

\* The entry that exists has expired: it is deleted and the upload goes on, without its file.
PurgeExpired(u) ==
  /\ found[u] \in expired
  /\ UploadStep(u, "exists", "purging")
  /\ disk' = disk \ {u}
  /\ StartDelete(u, {found[u]})
  /\ UNCHANGED <<rows, id, nextId, expired, buckets, found, request, cleaner, faults, history>>

Purged(u) ==
  /\ jpc[u] = "idle"
  /\ UploadStep(u, "purging", "fresh")
  /\ UNCHANGED <<store, found, job, request, cleaner, faults, history>>

\* filterFile: extension, mime type, name pattern and antivirus.
FilterPasses(u) ==
  /\ UploadStep(u, "fresh", "filtered")
  /\ UNCHANGED <<store, found, job, request, cleaner, faults, history>>

\* A rejected file is deleted by the filter, or by ProcessUploadErrorProcessorEngine.
FilterRejects(u) ==
  /\ UploadStep(u, "fresh", "failed")
  /\ disk' = disk \ {u}
  /\ UNCHANGED <<rows, id, nextId, expired, buckets, found, job, request, cleaner,
                 faults, history>>

\* Mutant: the size comes from the request and nothing looks at the file.
StatSucceeds_Unchecked(u) == TRUE
StatSucceeds(u) == u \in disk

\* getFileSize: fs.stat throws when the file is gone.
GetFileSize(u) ==
  /\ UploadStep(u, "filtered", IF StatSucceeds(u) THEN "sized" ELSE "failed")
  /\ UNCHANGED <<store, found, job, request, cleaner, faults, history>>

\* bucketExists; a BadRequest is an Exception, so the error processor deletes the file.
BucketExists(u) ==
  LET there == u \in Bucketed => BucketOf[u] \in buckets
  IN  /\ UploadStep(u, "sized", IF there THEN "checked" ELSE "failed")
      /\ disk' = IF there THEN disk ELSE disk \ {u}
      /\ UNCHANGED <<rows, id, nextId, expired, buckets, found, job, request, cleaner,
                     faults, history>>

\* EncryptionService.encrypt reads the whole file ...
EncryptRead(u) ==
  /\ u \in Protected
  /\ UploadStep(u, "checked", IF u \in disk THEN "encrypting" ELSE "failed")
  /\ UNCHANGED <<store, found, job, request, cleaner, faults, history>>

\* ... and writes it again, creating it if it has gone since.
EncryptWrite(u) ==
  /\ UploadStep(u, "encrypting", "ready")
  /\ disk' = disk \cup {u}
  /\ UNCHANGED <<rows, id, nextId, expired, buckets, found, job, request, cleaner,
                 faults, history>>

ReadyToSave(u) == upc[u] = "ready" \/ (upc[u] = "checked" /\ u \notin Protected)

\* Mutant: the sequence of the primary key does not advance.
NextKey_Stuck == nextId
NextKey == nextId + 1

\* repo.saveEntry: the row appears under the next primary key.
SaveEntry(u) ==
  /\ ReadyToSave(u)
  /\ u \in Bucketed => BucketOf[u] \in buckets
  /\ upc' = [upc EXCEPT ![u] = "stored"]
  /\ rows' = rows \cup {u}
  /\ id' = [id EXCEPT ![u] = nextId]
  /\ nextId' = NextKey
  /\ UNCHANGED <<disk, expired, buckets, found, job, request, cleaner, faults, history>>

\* The foreign key fails: the bucket went after bucketExists.  A QueryFailedError is no
\* Exception: nothing deletes the file.
SaveEntryRefused(u) ==
  /\ ReadyToSave(u)
  /\ u \in Bucketed /\ BucketOf[u] \notin buckets
  /\ upc' = [upc EXCEPT ![u] = "failed"]
  /\ UNCHANGED <<store, found, job, request, cleaner, faults, history>>

\* The process dies or the database is unreachable: the upload stops where it is.
UploadCrash(u) ==
  /\ upc[u] \notin Finished \cup {"new"} /\ faults < MaxFaults
  /\ upc' = [upc EXCEPT ![u] = "failed"]
  /\ EndJob(u)
  /\ faults' = faults + 1
  /\ UNCHANGED <<store, found, request, cleaner, history>>

-----------------------------------------------------------------------------
(* Time and the other endpoints.                                            *)

\* A row's `expires` passes; from then on hasExpired is true.
Expire(u) ==
  /\ u \in rows \ expired
  /\ expired' = expired \cup {u}
  /\ UNCHANGED <<disk, rows, id, nextId, buckets, upload, job, request, cleaner,
                 faults, history>>

\* A client issues its next call when the last one has been answered.
Free(r) == rpc[r] = "idle" /\ jpc[r] = "idle"

RequestStep(r, from, to) ==
  /\ rpc[r] = from
  /\ rpc' = [rpc EXCEPT ![r] = to]

\* DELETE /rest/:token, and the same call from the admin pages and the reputation check.
DeleteEntry(r, u) ==
  /\ Free(r) /\ u \in Saved
  /\ StartDelete(r, {u})
  /\ asked' = asked \cup {u}
  /\ UNCHANGED <<store, upload, request, cleaner, faults, superseded, unborn, caught>>

\* GET /rest/:token of an expired entry, read through the cache, deletes it.
GetFileInfo(r, u) ==
  /\ Free(r) /\ u \in Saved \cap expired
  /\ StartDelete(r, {u})
  /\ UNCHANGED <<store, upload, request, cleaner, faults, history>>

\* GET /f/:t: getEntry reads the row ...
GetEntry(r, u) ==
  /\ Free(r) /\ u \in rows
  /\ RequestStep(r, "idle", "check")
  /\ tgt' = [tgt EXCEPT ![r] = {u}]
  /\ UNCHANGED <<store, upload, job, bkt, cleaner, faults, history>>

\* ... then looks for the file: a row that has expired or lost its file is deleted, ...
GetEntryGone(r) ==
  /\ RequestStep(r, "check", "idle")
  /\ ~ tgt[r] \subseteq disk \ expired
  /\ StartDelete(r, tgt[r])
  /\ tgt' = [tgt EXCEPT ![r] = {}]
  /\ UNCHANGED <<store, upload, bkt, cleaner, faults, history>>

\* ... any other is streamed.
GetEntryServe(r) ==
  /\ RequestStep(r, "check", "serving")
  /\ tgt[r] \subseteq disk \ expired
  /\ UNCHANGED <<store, upload, job, tgt, bkt, cleaner, faults, history>>

\* postProcess, when the response has been sent: a one-time file is deleted.
PostProcess(r) ==
  LET once == tgt[r] \cap OneTime
  IN  /\ RequestStep(r, "serving", "idle")
      /\ IF once = {} THEN UNCHANGED job ELSE StartDelete(r, once)
      /\ asked' = asked \cup once
      /\ tgt' = [tgt EXCEPT ![r] = {}]
      /\ UNCHANGED <<store, upload, bkt, cleaner, faults, superseded, unborn, caught>>

\* The client goes away before the response is finished: nothing is deleted.
ServeAborted(r) ==
  /\ RequestStep(r, "serving", "idle")
  /\ tgt' = [tgt EXCEPT ![r] = {}]
  /\ UNCHANGED <<store, upload, job, bkt, cleaner, faults, history>>

InBucket(b) == {u \in rows \cap Bucketed : BucketOf[u] = b}

\* Mutant: the files are read without the condition on the bucket.
BucketFiles(b) == InBucket(b)

\* BucketService.deleteBucket reads the bucket with its files, ...
DeleteBucket(r, b) ==
  /\ Free(r) /\ b \in buckets
  /\ RequestStep(r, "idle", "bucketTx")
  /\ bkt' = [bkt EXCEPT ![r] = {b}]
  /\ tgt' = [tgt EXCEPT ![r] = BucketFiles(b)]
  /\ UNCHANGED <<store, upload, job, cleaner, faults, history>>

\* ... BucketRepo.deleteBucket deletes it and, by the foreign key, the rows it has now
\* (a bucket that went in the meantime ends the call), ...
DeleteBucketTx(r, b) ==
  /\ b \in bkt[r]
  /\ RequestStep(r, "bucketTx", IF b \in buckets THEN "bucketFiles" ELSE "idle")
  /\ bkt' = [bkt EXCEPT ![r] = {}]
  /\ tgt' = IF b \in buckets THEN tgt ELSE [tgt EXCEPT ![r] = {}]
  /\ buckets' = buckets \ {b}
  /\ rows' = rows \ InBucket(b)
  /\ asked' = asked \cup InBucket(b)
  /\ UNCHANGED <<disk, id, nextId, expired, upload, job, cleaner, faults,
                 superseded, unborn, caught>>

\* ... and deleteFilesFromDisk gets the files of the first read.
DeleteBucketFiles(r) ==
  /\ RequestStep(r, "bucketFiles", "idle")
  /\ disk' = disk \ tgt[r]
  /\ tgt' = [tgt EXCEPT ![r] = {}]
  /\ UNCHANGED <<rows, id, nextId, expired, buckets, upload, job, bkt, cleaner,
                 faults, history>>

\* The process dies with the request, and with the processDelete it was in.
RequestCrash(r) ==
  /\ ~ Free(r) /\ faults < MaxFaults
  /\ rpc' = [rpc EXCEPT ![r] = "idle"]
  /\ tgt' = [tgt EXCEPT ![r] = {}] /\ bkt' = [bkt EXCEPT ![r] = {}]
  /\ EndJob(r)
  /\ faults' = faults + 1
  /\ UNCHANGED <<store, upload, cleaner, history>>

-----------------------------------------------------------------------------
(* FileCleaner.                                                             *)

NodeStep(n, from, to) ==
  /\ npc[n] = from
  /\ npc' = [npc EXCEPT ![n] = to]

\* processFiles, by the hourly cron and when the server starts.
ProcessFiles(n) ==
  /\ NodeStep(n, "idle", "expire")
  /\ StartDelete(n, rows \cap expired)
  /\ UNCHANGED <<store, upload, request, snap, doomed, clean, groups, victims, faults, history>>

\* sync reads all the rows ...
SyncRows(n) ==
  /\ jpc[n] = "idle"
  /\ NodeStep(n, "expire", "list")
  /\ snap' = [snap EXCEPT ![n] = rows]
  /\ unborn' = [unborn EXCEPT ![n] = Uploads \ Saved]
  /\ UNCHANGED <<store, upload, job, request, doomed, clean, groups, victims, faults,
                 asked, superseded, caught>>

\* Mutants: every file listed is moved, or none is.
Unknown_All(n) == disk
Unknown_None(n) == {}
\* The files listed that no row read before accounts for.
Unknown(n) == disk \ snap[n]

\* Mutants: the negation of the filter is lost, or the filter.
Orphaned_Inverted(n) == snap[n] \cap disk
Orphaned_None(n) == {}
\* The rows read whose file is not in the listing.
Orphaned(n) == snap[n] \ disk

\* ... and then lists the directory; both kinds of mismatch are put right at once.
SyncFiles(n) ==
  /\ NodeStep(n, "list", "sweep")
  /\ doomed' = [doomed EXCEPT ![n] = Unknown(n)]
  /\ StartDelete(n, Orphaned(n))
  /\ snap' = [snap EXCEPT ![n] = {}]
  /\ UNCHANGED <<store, upload, request, clean, groups, victims, faults, history>>

\* softDelete renames a file away, and fails if it is no longer there.  Without a
\* SOFT_DELETE_LOCATION it calls deleteFile with an absolute path, which deleteFile
\* joins to filesDir again: rm --force of a path that does not exist.
SyncMove(n, f) ==
  /\ npc[n] = "sweep" /\ f \in doomed[n]
  /\ doomed' = [doomed EXCEPT ![n] = @ \ {f}]
  /\ clean' = [clean EXCEPT ![n] = @ /\ (SoftDeleteSet => f \in disk)]
  /\ disk' = IF SoftDeleteSet THEN disk \ {f} ELSE disk
  /\ caught' = IF SoftDeleteSet THEN caught \cup ({f} \cap disk \cap unborn[n]) ELSE caught
  /\ UNCHANGED <<rows, id, nextId, expired, buckets, upload, job, request, npc, snap, groups,
                 victims, faults, asked, superseded, unborn>>

\* A rename that failed rejects the Promise.all: the hourly run ends without removeDupes.
SyncDone(n) ==
  /\ jpc[n] = "idle" /\ doomed[n] = {}
  /\ NodeStep(n, "sweep", IF clean[n] THEN "tidy" ELSE "idle")
  /\ clean' = [clean EXCEPT ![n] = TRUE]
  /\ unborn' = [unborn EXCEPT ![n] = {}]
  /\ UNCHANGED <<store, upload, job, request, snap, doomed, groups, victims, faults,
                 asked, superseded, caught>>

\* Mutant: COUNT(*) > 2.
DuplicateGroups_OffByOne == {k \in Keys : Cardinality(SameKey(k)) > 2}
DuplicateGroups == {k \in Keys : Cardinality(SameKey(k)) > 1}

\* removeDuplicates, after sync and by the cron of every minute, groups the rows by key ...
RemoveDuplicates(n) ==
  /\ npc[n] \in {"idle", "tidy"}
  /\ npc' = [npc EXCEPT ![n] = "dupes"]
  /\ groups' = [groups EXCEPT ![n] = DuplicateGroups]
  /\ UNCHANGED <<store, upload, job, request, snap, doomed, clean, victims, faults, history>>

\* Mutant: slice(0) in the place of slice(1).
Duplicates_All(k) == SameKey(k)
\* All the rows of a key but the one with the lowest primary key.
Duplicates(k) == {u \in SameKey(k) : \E v \in SameKey(k) : id[v] < id[u]}

\* ... reads the rows of one group after the other ...
FindDuplicates(n, k) ==
  /\ k \in groups[n]
  /\ NodeStep(n, "dupes", "drop")
  /\ groups' = [groups EXCEPT ![n] = @ \ {k}]
  /\ victims' = [victims EXCEPT ![n] = Duplicates(k)]
  /\ UNCHANGED <<store, upload, job, request, snap, doomed, clean, faults, history>>

\* ... and deletes the duplicates among them; the files are left to sync.
DropDuplicates(n) ==
  /\ NodeStep(n, "drop", "dupes")
  /\ rows' = rows \ victims[n]
  /\ superseded' = superseded \cup (victims[n] \cap rows)
  /\ victims' = [victims EXCEPT ![n] = {}]
  /\ UNCHANGED <<disk, id, nextId, expired, buckets, upload, job, request, snap, doomed,
                 clean, groups, faults, asked, unborn, caught>>

DuplicatesDone(n) ==
  /\ groups[n] = {}
  /\ NodeStep(n, "dupes", "idle")
  /\ UNCHANGED <<store, upload, job, request, snap, doomed, clean, groups, victims, faults, history>>

\* The process dies in the middle of a run; the next run starts over.
NodeCrash(n) ==
  /\ npc[n] # "idle" /\ faults < MaxFaults
  /\ npc' = [npc EXCEPT ![n] = "idle"]
  /\ snap' = [snap EXCEPT ![n] = {}] /\ doomed' = [doomed EXCEPT ![n] = {}]
  /\ clean' = [clean EXCEPT ![n] = TRUE]
  /\ groups' = [groups EXCEPT ![n] = {}] /\ victims' = [victims EXCEPT ![n] = {}]
  /\ unborn' = [unborn EXCEPT ![n] = {}]
  /\ EndJob(n)
  /\ faults' = faults + 1
  /\ UNCHANGED <<store, upload, request, asked, superseded, caught>>

-----------------------------------------------------------------------------
UploadNext(u) ==
  \/ Receive(u) \/ HashFails(u) \/ HandleExistingFileModel(u)
  \/ ReturnExisting(u) \/ PurgeExpired(u) \/ Purged(u)
  \/ FilterPasses(u) \/ FilterRejects(u) \/ GetFileSize(u) \/ BucketExists(u)
  \/ EncryptRead(u) \/ EncryptWrite(u) \/ SaveEntry(u) \/ SaveEntryRefused(u)
  \/ UploadCrash(u)
  \/ Expire(u)

RequestNext(r) ==
  \/ \E u \in Uploads : DeleteEntry(r, u) \/ GetFileInfo(r, u) \/ GetEntry(r, u)
  \/ GetEntryGone(r) \/ GetEntryServe(r) \/ PostProcess(r) \/ ServeAborted(r)
  \/ \E b \in Buckets : DeleteBucket(r, b) \/ DeleteBucketTx(r, b)
  \/ DeleteBucketFiles(r)
  \/ RequestCrash(r)

NodeNext(n) ==
  \/ ProcessFiles(n) \/ SyncRows(n) \/ SyncFiles(n) \/ SyncDone(n)
  \/ \E f \in Uploads : SyncMove(n, f)
  \/ RemoveDuplicates(n)
  \/ \E k \in Keys : FindDuplicates(n, k)
  \/ DropDuplicates(n) \/ DuplicatesDone(n)
  \/ NodeCrash(n)

JobNext(o) ==
  \/ DeleteFilesFromDisk(o) \/ DeleteFilesFails(o)
  \/ DeleteEntries(o) \/ DeleteEntriesFails(o)

Next ==
  \/ \E u \in Uploads : UploadNext(u)
  \/ \E r \in Requests : RequestNext(r)
  \/ \E n \in Nodes : NodeNext(n)
  \/ \E o \in Owners : JobNext(o)

Spec == Init /\ [][Next]_vars

(***************************************************************************)
(* A processDelete that was called goes on, and so does a run of the       *)
(* cleaner; the hourly cron fires again and again, although the cron of    *)
(* every minute also runs in between (SF: neither is always waiting).      *)
(* Nothing is assumed of clients and uploads.                              *)
(***************************************************************************)
Fairness ==
  /\ \A o \in Owners : WF_vars(DeleteFilesFromDisk(o)) /\ WF_vars(DeleteEntries(o))
  /\ \A n \in Nodes :
       /\ SF_vars(ProcessFiles(n)) /\ SF_vars(RemoveDuplicates(n))
       /\ WF_vars(SyncRows(n)) /\ WF_vars(SyncFiles(n)) /\ WF_vars(SyncDone(n))
       /\ WF_vars(\E f \in Uploads : SyncMove(n, f))
       /\ WF_vars(\E k \in Keys : FindDuplicates(n, k))
       /\ WF_vars(DropDuplicates(n)) /\ WF_vars(DuplicatesDone(n))

FairSpec == Spec /\ Fairness

-----------------------------------------------------------------------------
(* Properties.                                                              *)

\* The reasons for which an entry may go.
Excused == asked \cup expired \cup superseded \cup caught

\* The entry a successful upload answered with.
Answer(u) == IF upc[u] = "existing" THEN found[u] ELSE u

\* An upload answered 201 or 200 leaves its client with an entry whose row and file both
\* exist, until somebody asks for its deletion, it expires, it is removed as a duplicate,
\* or - the one loss nobody intends - sync moved the file away while the upload was still
\* on its way to its row.  No interleaving of deletes, cleaners, bucket deletions, crashes
\* and I/O errors loses a file in another way (processUpload, processDelete, sync).
NoOtherLoss ==
  \A u \in Uploads : upc[u] \in {"stored", "existing"} =>
      Answer(u) \in (rows \cap disk) \cup Excused

\* The entries sync deletes because it did not see their file have none, then or ever
\* again: it reads the table before the directory, and a file is written before its row.
SyncPurgesDeadRows ==
  \A n \in Nodes : npc[n] = "sweep" => jtok[n] \cap disk = {}

(* What makes NoOtherLoss and SyncPurgesDeadRows inductive.                 *)

\* Every row that was ever inserted is intact or may go.
Accounted == \A u \in Saved : u \in (rows \cap disk) \cup Excused

\* What an upload takes for an existing entry was one.
FoundKnown ==
  \A u \in Uploads : upc[u] \in {"exists", "purging", "existing"} => found[u] \in Saved

\* processDelete works only on entries that may go; it reads no others.
JobsExcused ==
  \A o \in Owners : /\ jfile[o] \subseteq jtok[o]
                    /\ jtok[o] \subseteq Saved \cap Excused
                    /\ jpc[o] = "idle" => jtok[o] = {}

\* What a request holds: one entry to serve, or the files of a bucket.
TargetsKnown ==
  \A r \in Requests :
    /\ tgt[r] \subseteq Saved
    /\ rpc[r] = "idle" => tgt[r] = {}
    /\ rpc[r] \in {"check", "serving"} => \E u \in Saved : tgt[r] = {u}
    /\ rpc[r] = "bucketTx" =>
         \A u \in tgt[r] : \A b \in bkt[r] : u \in Bucketed /\ BucketOf[u] = b
    /\ rpc[r] = "bucketFiles" => tgt[r] \subseteq Excused

\* sync sees each file's row, or the file had none yet, or it may go.
SyncAccounts ==
  \A n \in Nodes :
    /\ snap[n] \subseteq Saved
    /\ npc[n] = "list" =>
         jtok[n] = {} /\ Uploads \subseteq snap[n] \cup unborn[n] \cup (Excused \cap Saved)
    /\ doomed[n] \subseteq unborn[n] \cup (Excused \cap Saved)
    /\ npc[n] # "sweep" => doomed[n] = {}

\* From getFileSize to the row, only sync takes an upload's file away.
UnsavedHeld ==
  \A u \in Uploads : upc[u] \in {"sized", "checked", "encrypting", "ready"} =>
      u \in disk \cup caught

StoreInv ==
  TypeOK /\ Accounted /\ FoundKnown /\ JobsExcused /\ TargetsKnown /\ SyncAccounts
         /\ UnsavedHeld /\ SyncPurgesDeadRows

\* removeDuplicates never costs the content: while no upload of a key was asked away, has
\* expired or was caught by sync, some entry of that key has its row and its file, however
\* the duplicate removals of the nodes and new uploads of the same content interleave.
ContentSurvives ==
  \A k \in Keys :
    LET same == {u \in Uploads : KeyOf[u] = k}
    IN  /\ \E u \in same : upc[u] = "stored"
        /\ same \cap (asked \cup expired \cup caught) = {}
        => \E v \in same : v \in rows \cap disk

(* What makes ContentSurvives inductive.                                    *)

\* Among the entries a key ever had one is the first, ...
HasFirst ==
  \A u \in Saved : \E v \in Saved :
    KeyOf[v] = KeyOf[u] /\ \A w \in Saved : KeyOf[w] = KeyOf[u] => id[v] <= id[w]

Later(u) == u \in Saved /\ \E v \in Saved : KeyOf[v] = KeyOf[u] /\ id[v] < id[u]

\* ... and the duplicates that were, or are about to be, deleted come after another.
VictimsLater ==
  /\ \A u \in superseded : Later(u)
  /\ \A n \in Nodes : \A u \in victims[n] : Later(u)

DuplicatesInv == TypeOK /\ HasFirst /\ VictimsLater

\* A file with no row, its upload over, is eventually moved out of filesDir by sync.
OrphansReclaimed ==
  \A u \in Uploads : (u \in disk \ rows /\ upc[u] \in Finished) ~> u \notin disk

\* A row with no file, or one that has expired, is eventually deleted.
DeadRowsReclaimed ==
  \A u \in Uploads : (u \in rows /\ (u \notin disk \/ u \in expired)) ~> u \notin rows

\* What should not be there does not stay: no dead row, and no orphan if SOFT_DELETE_LOCATION
\* is set; without it sync removes none (getSoftDeleteLocation, softDelete).
AllReclaimed == (SoftDeleteSet => OrphansReclaimed) /\ DeadRowsReclaimed

\* Once no more uploads are stored, at most one row of every key is left.
DuplicatesCollapse == <>[](\A k \in Keys : Cardinality(SameKey(k)) <= 1)

\* README.md:3 "file uploads that are hosted for a set amount of time".
HostedForItsTime ==
  \A u \in Uploads : upc[u] = "stored" => u \in (rows \cap disk) \cup (Excused \ caught)
=============================================================================
