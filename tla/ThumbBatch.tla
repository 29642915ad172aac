----------------------------- MODULE ThumbBatch -----------------------------
(***************************************************************************)
(* Thumbnails for the files of one album.  The main server reads which     *)
(* files have none and posts them to the thumbnail service, which accepts  *)
(* the request and runs BatchProcessor.Process in a goroutine: a feeder    *)
(* sends the files to the workers over one channel, the workers send the   *)
(* thumbnails to the collector over another, and the collector saves them  *)
(* in batches.  Both channels are unbuffered, so that a send and its       *)
(* receive are one step.                                                   *)
(*                                                                         *)
(* Albums share neither the processing flag nor rows.  The copies that     *)
(* Redis keeps of the rows are read nowhere here and are left out.         *)
(***************************************************************************)
EXTENDS Naturals, FiniteSets

CONSTANTS
  Requests,      \* calls of generateThumbnail for the album
  Adding,        \* those made with file ids, i.e. addingAdditionalFiles
  Files,         \* the unprotected files of the album
  Wanted,        \* the files each request is about
  Unsupported,   \* the files SupportsFile declines
  Workers,
  BatchSize,
  ForeignKeys,   \* whether the database enforces the thumbnail's fileId (Postgres does)
  NoFile,        \* a worker without a file
  Removable,     \* bound: the files that are removed from the album or deleted
  MaxFaults      \* bound: how many errors and crashes a behaviour has

ASSUME ThumbAssumption ==
  /\ Adding \subseteq Requests
  /\ Wanted \in [Requests -> SUBSET Files]
  /\ Unsupported \subseteq Files
  /\ Removable \subseteq Files
  /\ Workers # {}
  /\ BatchSize \in Nat \ {0}
  /\ ForeignKeys \in BOOLEAN
  /\ NoFile \notin Files
  /\ MaxFaults \in Nat

VARIABLES
  loading,  \* whether albumProcessing holds the album
  rpc,      \* where each request is
  feed,     \* the files a request has yet to hand to a worker
  files,    \* its filesChan: "none", "open", "closed"
  wpc,      \* where each of its workers is
  wfile,    \* and the file it works on
  results,  \* its resultsChan: "none", "open", "closed"
  cpc,      \* where its collector is
  batch,    \* the thumbnails the collector has not saved yet
  rows,     \* the files with a row in the thumbnail table, whose fileId is unique
  entries,  \* the files with a row in the file table
  faults

pool == <<feed, files, wpc, wfile, results, cpc, batch>>
tables == <<rows, entries>>
vars == <<loading, rpc, pool, tables, faults>>

Ended == {"nothing", "refused", "dropped", "ended", "crashed"}
RequestPC == {"idle", "asked", "posted", "running"} \cup Ended
Channel == {"none", "open", "closed"}
WorkerPC == {"none", "receive", "generate", "send", "exit"}
CollectorPC == {"none", "receive", "save", "final", "closed"}

TypeOK ==
  /\ loading \in BOOLEAN
  /\ rpc \in [Requests -> RequestPC]
  /\ feed \in [Requests -> SUBSET Files]
  /\ files \in [Requests -> Channel]
  /\ wpc \in [Requests -> [Workers -> WorkerPC]]
  /\ wfile \in [Requests -> [Workers -> Files \cup {NoFile}]]
  /\ results \in [Requests -> Channel]
  /\ cpc \in [Requests -> CollectorPC]
  /\ batch \in [Requests -> SUBSET Files]
  /\ rows \subseteq Files
  /\ entries \subseteq Files
  /\ faults \in 0..MaxFaults

Init ==
  /\ loading = FALSE
  /\ rpc = [r \in Requests |-> "idle"]
  /\ feed = [r \in Requests |-> {}]
  /\ files = [r \in Requests |-> "none"]
  /\ wpc = [r \in Requests |-> [w \in Workers |-> "none"]]
  /\ wfile = [r \in Requests |-> [w \in Workers |-> NoFile]]
  /\ results = [r \in Requests |-> "none"]
  /\ cpc = [r \in Requests |-> "none"]
  /\ batch = [r \in Requests |-> {}]
  /\ rows = {} /\ entries = Files
  /\ faults = 0

Fault == faults < MaxFaults /\ faults' = faults + 1

-----------------------------------------------------------------------------
\* ThumbnailService.generateThumbnail, up to the call: what needs a thumbnail, as of now.
Missing(r) == (Wanted[r] \cap entries) \ rows

GenerateThumbnail(r) ==
  /\ rpc[r] = "idle"
  /\ rpc' = [rpc EXCEPT ![r] = IF Missing(r) = {} THEN "nothing" ELSE "asked"]
  /\ feed' = [feed EXCEPT ![r] = Missing(r)]
  /\ UNCHANGED <<loading, files, wpc, wfile, results, cpc, batch, tables, faults>>

\* The handler of POST /generateThumbnails.  The answer to "posted" is 200.
Post(r) ==
  /\ rpc[r] = "asked"
  /\ rpc' = [rpc EXCEPT ![r] = IF r \notin Adding /\ loading THEN "refused" ELSE "posted"]
  /\ UNCHANGED <<loading, pool, tables, faults>>

\* BatchProcessor.Process: LoadOrStore of the flag, then the goroutines.
Process(r) ==
  /\ rpc[r] = "posted"
  /\ ~loading
  /\ loading' = TRUE
  /\ rpc' = [rpc EXCEPT ![r] = "running"]
  /\ files' = [files EXCEPT ![r] = "open"]
  /\ wpc' = [wpc EXCEPT ![r] = [w \in Workers |-> "receive"]]
  /\ results' = [results EXCEPT ![r] = "open"]
  /\ cpc' = [cpc EXCEPT ![r] = "receive"]
  /\ UNCHANGED <<feed, wfile, batch, tables, faults>>

\* "already being processed": the error is logged, the caller has its 200 already.
ProcessDropped(r) ==
  /\ rpc[r] = "posted"
  /\ loading
  /\ rpc' = [rpc EXCEPT ![r] = "dropped"]
  /\ UNCHANGED <<loading, pool, tables, faults>>

\* batchSaveDone is closed: Process returns and its deferred Delete clears the flag.
\* Mutant: Process waits for the workers only.
Return_NoWait(r) ==
  /\ rpc[r] = "running" /\ results[r] = "closed"
  /\ loading' = FALSE
  /\ rpc' = [rpc EXCEPT ![r] = "ended"]
  /\ UNCHANGED <<pool, tables, faults>>

Return(r) ==
  /\ rpc[r] = "running" /\ cpc[r] = "closed"
  /\ loading' = FALSE
  /\ rpc' = [rpc EXCEPT ![r] = "ended"]
  /\ UNCHANGED <<pool, tables, faults>>

-----------------------------------------------------------------------------
\* The feeder.
Feed(r, w) ==
  /\ files[r] = "open" /\ wpc[r][w] = "receive"
  /\ \E f \in feed[r] :
       /\ feed' = [feed EXCEPT ![r] = @ \ {f}]
       /\ wfile' = [wfile EXCEPT ![r][w] = f]
  /\ wpc' = [wpc EXCEPT ![r][w] = "generate"]
  /\ UNCHANGED <<loading, rpc, files, results, cpc, batch, tables, faults>>

CloseFiles(r) ==
  /\ files[r] = "open" /\ feed[r] = {}
  /\ files' = [files EXCEPT ![r] = "closed"]
  /\ UNCHANGED <<loading, rpc, feed, wpc, wfile, results, cpc, batch, tables, faults>>

-----------------------------------------------------------------------------
\* A worker.
Generate(r, w) ==
  /\ wpc[r][w] = "generate" /\ wfile[r][w] \notin Unsupported
  /\ wpc' = [wpc EXCEPT ![r][w] = "send"]
  /\ UNCHANGED <<loading, rpc, feed, files, wfile, results, cpc, batch, tables, faults>>

NextFile(r, w) ==
  /\ wpc' = [wpc EXCEPT ![r][w] = "receive"]
  /\ wfile' = [wfile EXCEPT ![r][w] = NoFile]
  /\ UNCHANGED <<loading, rpc, feed, files, results, cpc, tables>>

Skip(r, w) ==
  /\ wpc[r][w] = "generate" /\ wfile[r][w] \in Unsupported
  /\ NextFile(r, w)
  /\ UNCHANGED <<batch, faults>>

GenerateFails(r, w) ==
  /\ wpc[r][w] = "generate" /\ wfile[r][w] \notin Unsupported
  /\ \/ wfile[r][w] \notin entries /\ UNCHANGED faults
     \/ Fault
  /\ NextFile(r, w)
  /\ UNCHANGED batch

WorkerDone(r, w) ==
  /\ wpc[r][w] = "receive" /\ files[r] = "closed"
  /\ wpc' = [wpc EXCEPT ![r][w] = "exit"]
  /\ UNCHANGED <<loading, rpc, feed, files, wfile, results, cpc, batch, tables, faults>>

\* The goroutine that waits for the workers.
CloseResults(r) ==
  /\ results[r] = "open"
  /\ \A w \in Workers : wpc[r][w] = "exit"
  /\ results' = [results EXCEPT ![r] = "closed"]
  /\ UNCHANGED <<loading, rpc, feed, files, wpc, wfile, cpc, batch, tables, faults>>

-----------------------------------------------------------------------------
\* batchProcess, the collector, and the worker that sends to it.
Collect(r, w) ==
  /\ wpc[r][w] = "send" /\ cpc[r] = "receive"
  /\ batch' = [batch EXCEPT ![r] = @ \cup {wfile[r][w]}]
  /\ wpc' = [wpc EXCEPT ![r][w] = "receive"]
  /\ wfile' = [wfile EXCEPT ![r][w] = NoFile]
  /\ cpc' = [cpc EXCEPT ![r] = IF Cardinality(batch'[r]) >= BatchSize THEN "save" ELSE "receive"]
  /\ UNCHANGED <<loading, rpc, feed, files, results, tables, faults>>

\* Mutant: the last batch is not saved.
EndOfResults_NoFinal(r) ==
  /\ cpc[r] = "receive" /\ results[r] = "closed"
  /\ cpc' = [cpc EXCEPT ![r] = "closed"]
  /\ UNCHANGED <<loading, rpc, feed, files, wpc, wfile, results, batch, tables, faults>>

EndOfResults(r) ==
  /\ cpc[r] = "receive" /\ results[r] = "closed"
  /\ cpc' = [cpc EXCEPT ![r] = IF batch[r] = {} THEN "closed" ELSE "final"]
  /\ UNCHANGED <<loading, rpc, feed, files, wpc, wfile, results, batch, tables, faults>>

\* The collector starts a new batch, or is done.
NextBatch(r) ==
  /\ cpc[r] \in {"save", "final"}
  /\ batch' = [batch EXCEPT ![r] = {}]
  /\ cpc' = [cpc EXCEPT ![r] = IF @ = "save" THEN "receive" ELSE "closed"]
  /\ UNCHANGED <<loading, rpc, feed, files, wpc, wfile, results, entries>>

\* SaveThumbnails is one INSERT: one row that is refused refuses them all.
\* Mutant: the table has no unique index on fileId.
Acceptable_Twice(B) == ForeignKeys => B \subseteq entries

Acceptable(B) ==
  /\ B \cap rows = {}
  /\ ForeignKeys => B \subseteq entries

SaveThumbnails(r) ==
  /\ Acceptable(batch[r])
  /\ rows' = rows \cup batch[r]
  /\ NextBatch(r)
  /\ UNCHANGED faults

\* Mutant: it is tried again until there is no error.
SaveFails_Retries(r) ==
  /\ cpc[r] \in {"save", "final"}
  /\ ~Acceptable(batch[r]) \/ faults < MaxFaults
  /\ UNCHANGED vars

SaveFails(r) ==
  /\ \/ ~Acceptable(batch[r]) /\ UNCHANGED faults
     \/ Fault
  /\ NextBatch(r)
  /\ UNCHANGED rows

-----------------------------------------------------------------------------
\* The thumbnail service restarts: its requests and its flag are gone.
Crash ==
  /\ Fault
  /\ loading' = FALSE
  /\ rpc' = [r \in Requests |-> IF rpc[r] \in {"posted", "running"} THEN "crashed" ELSE rpc[r]]
  /\ files' = [r \in Requests |-> "none"]
  /\ wpc' = [r \in Requests |-> [w \in Workers |-> "none"]]
  /\ wfile' = [r \in Requests |-> [w \in Workers |-> NoFile]]
  /\ results' = [r \in Requests |-> "none"]
  /\ cpc' = [r \in Requests |-> "none"]
  /\ batch' = [r \in Requests |-> {}]
  /\ UNCHANGED <<feed, tables>>

\* ThumbnailCacheRepo.deleteThumbnailCaches: the file leaves the album, or goes.
DeleteThumbnail(f) ==
  /\ f \in rows
  /\ rows' = rows \ {f}
  /\ UNCHANGED <<loading, rpc, pool, entries, faults>>

\* FileDao.deleteEntries; the row's thumbnail goes by ON DELETE CASCADE.
DeleteEntry(f) ==
  /\ f \in entries
  /\ entries' = entries \ {f}
  /\ rows' = rows \ {f}
  /\ UNCHANGED <<loading, rpc, pool, faults>>

-----------------------------------------------------------------------------
\* All requests are over: nothing need happen any more.
Quiet == \A r \in Requests : rpc[r] \in Ended

Idle == Quiet /\ UNCHANGED vars

WorkerNext(r, w) ==
  \/ Feed(r, w) \/ Generate(r, w) \/ Skip(r, w) \/ GenerateFails(r, w)
  \/ WorkerDone(r, w) \/ Collect(r, w)

PoolNext(r) ==
  \/ CloseFiles(r) \/ CloseResults(r) \/ EndOfResults(r)
  \/ SaveThumbnails(r) \/ SaveFails(r)

RequestNext(r) ==
  \/ GenerateThumbnail(r) \/ Post(r) \/ Process(r) \/ ProcessDropped(r) \/ Return(r)

Next ==
  \/ \E r \in Requests : RequestNext(r) \/ PoolNext(r) \/ \E w \in Workers : WorkerNext(r, w)
  \/ Crash
  \/ \E f \in Removable : DeleteThumbnail(f) \/ DeleteEntry(f)
  \/ Idle

Spec == Init /\ [][Next]_vars

\* Go runs every goroutine that can run; the decoders return (ffmpeg and vips are assumed to).
FairSpec ==
  /\ Spec
  /\ \A r \in Requests :
       /\ WF_vars(Process(r) \/ ProcessDropped(r))
       /\ WF_vars(Return(r))
       /\ WF_vars(PoolNext(r))
       /\ \A w \in Workers : WF_vars(WorkerNext(r, w))

-----------------------------------------------------------------------------
(* The files the job still holds: in the feeder, in a worker, in the batch. *)
Running == {r \in Requests : rpc[r] = "running"}

InWorkers(r) == {f \in Files : \E w \in Workers : wfile[r][w] = f}

Left(r) == feed[r] \cup InWorkers(r) \cup batch[r]

Job == INSTANCE ThumbJob WITH
  busy <- loading,
  left <- UNION {Left(r) : r \in Running}

(***************************************************************************)
(* Every step of the pool is a step of the job: jobs of the album do not   *)
(* overlap, no file is saved twice by one job, none is forgotten when it   *)
(* ends, and a file is given up only for a reason: it has no decoder, an   *)
(* error, or one of its batch already has a thumbnail or was deleted.      *)
(***************************************************************************)
ImplementsJob == Job!Spec

(***************************************************************************)
(* When Process is over nothing of it is left running: the feeder, the     *)
(* workers and the collector have all returned.  A goroutine blocked on a  *)
(* channel nobody serves would stay for ever.                              *)
(***************************************************************************)
PoolGone == \A r \in Requests : rpc[r] \in Ended =>
  /\ files[r] # "open" /\ results[r] # "open"
  /\ cpc[r] \in {"none", "closed"}
  /\ \A w \in Workers : wpc[r][w] \in {"none", "exit"}

(***************************************************************************)
(* Every accepted request comes to an end, and with it the flag of the     *)
(* album: feeder, workers and collector do not wait for each other in a    *)
(* circle, whatever fails on the way.                                      *)
(***************************************************************************)
RequestsEnd == \A r \in Requests : rpc[r] = "posted" ~> rpc[r] \in Ended

-----------------------------------------------------------------------------
(***************************************************************************)
(* The invariant behind the first two: a request that is not being         *)
(* processed has no goroutines and holds nothing, and those of the one     *)
(* that is end in the order feeder, workers, collector, each when there is *)
(* nothing more to come.                                                   *)
(***************************************************************************)
NotStarted(r) ==
  /\ files[r] = "none" /\ results[r] = "none" /\ cpc[r] = "none"
  /\ batch[r] = {}
  /\ \A w \in Workers : wpc[r][w] = "none" /\ wfile[r][w] = NoFile

Turns(r) ==
  /\ rpc[r] \notin {"running", "ended"} => NotStarted(r)
  /\ rpc[r] = "running" => loading /\ files[r] # "none" /\ cpc[r] # "none"
  /\ rpc[r] = "ended" => NotStarted(r) \/ cpc[r] = "closed"
  /\ \A s \in Requests : rpc[r] = "running" /\ rpc[s] = "running" => r = s

EndInOrder(r) ==
  /\ files[r] = "closed" => feed[r] = {}
  /\ \A w \in Workers : wpc[r][w] = "exit" => files[r] = "closed"
  /\ results[r] = "closed" => \A w \in Workers : wpc[r][w] = "exit"
  /\ cpc[r] \in {"final", "closed"} => results[r] = "closed"

\* No file is in two hands.
OneHand(r) ==
  /\ \A w \in Workers :
       /\ wpc[r][w] \in {"generate", "send"} <=> wfile[r][w] # NoFile
       /\ wfile[r][w] \notin feed[r] \cup batch[r]
       /\ \A v \in Workers : wfile[r][w] = wfile[r][v] => w = v \/ wfile[r][w] = NoFile
  /\ feed[r] \cap batch[r] = {}

Batches(r) ==
  /\ IsFiniteSet(batch[r]) /\ Cardinality(batch[r]) <= BatchSize
  /\ cpc[r] = "receive" => Cardinality(batch[r]) < BatchSize
  /\ cpc[r] \in {"save", "final"} => batch[r] # {}
  /\ cpc[r] = "closed" => batch[r] = {}

PoolInv ==
  /\ TypeOK
  /\ loading => Running # {}
  /\ \A r \in Requests : Turns(r) /\ EndInOrder(r) /\ OneHand(r) /\ Batches(r)
=============================================================================
