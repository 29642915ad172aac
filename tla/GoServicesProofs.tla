-------------------------- MODULE GoServicesProofs --------------------------
(***************************************************************************)
(* Theorems about the two services in Go, for any number of requests,      *)
(* files, workers, keys and faults and any size of a batch.                *)
(*                                                                         *)
(* Of the archives (ZipDownload), what a key may be remembered for and what*)
(* may be found in the directory are two arguments that share only the     *)
(* types: KeysOK and NothingLeftBehind, the latter with NotYetCreated.     *)
(* Of the pool of goroutines (ThumbBatch), PoolInv is inductive, and with  *)
(* it every step is one of ThumbJob or a stutter.                          *)
(***************************************************************************)
EXTENDS ZipDownload, ThumbBatch, FiniteSetTheorems, TLAPS

-----------------------------------------------------------------------------
(* Downloads of albums as archives.                                         *)

\* A request that has not come to CreateZipFile has no archive.
NotYetCreated == \A r \in Downloads : pc[r] \in {"check", "store", "create"} => archive[r] = "none"

ZipInv == ZipTypeOK /\ KeysOK /\ NothingLeftBehind /\ NotYetCreated

-----------------------------------------------------------------------------
(* Types.                                                                   *)

\* Every step of a request keeps the types.
LEMMA RequestKeepsTypes ==
  ASSUME ZipTypeOK, NEW r \in Downloads,
         DownloadFiles(r) \/ Continue(r) \/ FetchRejects(r) \/ Close(r)
  PROVE  ZipTypeOK'
<1> USE DEF ZipTypeOK, InService, InServer, Goto, Ends, EndZip, Remembered, Cleanup
<1>1. CASE DownloadFiles(r)
  BY <1>1 DEF DownloadFiles, history
<1>2. CASE IsZipping(r)
  BY <1>2 DEF IsZipping, history
<1>3. CASE Store(r)
  BY <1>3 DEF Store, Stored
<1>4. CASE CreateZipFile(r)
  BY <1>4 DEF CreateZipFile
<1>5. CASE AddFileToZip(r)
  BY <1>5 DEF AddFileToZip, history
<1>6. CASE AddFileFails(r)
  BY <1>6 DEF AddFileFails
<1>7. CASE ZipDone(r)
  BY <1>7 DEF ZipDone, Closed
<1>8. CASE FileExists(r)
  BY <1>8 DEF FileExists, history
<1>9. CASE CheckConnection(r)
  BY <1>9 DEF CheckConnection, Aborted, history
<1>10. CASE GetFileSize(r)
  BY <1>10 DEF GetFileSize, history
<1>11. CASE Finish(r)
  BY <1>11 DEF Finish, history
<1>12. CASE Close(r)
  BY <1>12 DEF Close, history
<1>13. CASE FetchRejects(r)
  BY <1>13 DEF FetchRejects, service, history
<1> QED
  BY <1>1, <1>2, <1>3, <1>4, <1>5, <1>6, <1>7, <1>8, <1>9, <1>10, <1>11, <1>12, <1>13 DEF Continue

\* So do crashes and the cleaner.
LEMMA TypesKept ==
  ASSUME ZipTypeOK, [ZipNext]_zipVars
  PROVE  ZipTypeOK'
<1> USE DEF ZipTypeOK, InService, InServer
<1>1. CASE ServiceCrash
  BY <1>1 DEF ServiceCrash
<1>2. CASE ServerCrash
  BY <1>2 DEF ServerCrash, service
<1>3. CASE Sync
  BY <1>3 DEF Sync, Swept, service, history
<1>4. CASE UNCHANGED zipVars
  BY <1>4 DEF zipVars, service, history
<1> QED
  BY <1>1, <1>2, <1>3, <1>4, RequestKeepsTypes DEF ZipNext

-----------------------------------------------------------------------------
(* Keys.                                                                    *)

\* A step that neither begins nor ends a zip disturbs no key.
LEMMA QuietKeys ==
  ASSUME ZipTypeOK, KeysOK, UNCHANGED <<activeZipping, raced>>,
         \A q \in Downloads : /\ pc'[q] \in {"create", "add"} <=> pc[q] \in {"create", "add"}
                              /\ pc[q] \in {"create", "add"} => key'[q] = key[q]
  PROVE  KeysOK'
<1>1. \A k \in Keys : Zipping(k)' = Zipping(k)
  BY DEF Zipping
<1> QED
  BY <1>1 DEF ZipTypeOK, KeysOK, NoKeyStuck, ExclusiveButForRaces

\* The end of a zip frees its key.  If it was not the only one for its key, that
\* was known to be a race, and stays so.
LEMMA EndFreesKey ==
  ASSUME ZipTypeOK, KeysOK, NEW r \in Downloads, NEW failed \in BOOLEAN,
         pc[r] \in {"create", "add"}, EndZip(r, failed), UNCHANGED key,
         pc'[r] \notin {"create", "add"}, \A q \in Downloads \ {r} : pc'[q] = pc[q]
  PROVE  KeysOK'
<1>1. Zipping(key[r])' = Zipping(key[r]) \ {r}
  BY DEF Zipping
<1>2. \A k \in Keys \ {key[r]} : Zipping(k)' = Zipping(k)
  BY DEF Zipping
<1>3. r \in Zipping(key[r]) /\ key[r] \in Keys
  BY DEF Zipping, ZipTypeOK
<1>4. NoKeyStuck'
  BY <1>2 DEF KeysOK, NoKeyStuck, EndZip, Remembered, ZipTypeOK
<1>5. ASSUME NEW k \in Keys, k \notin raced'
      PROVE  /\ k \notin activeZipping' => Zipping(k)' = {}
             /\ \A p, q \in Zipping(k)' : p = q
  <2>1. CASE k # key[r]
    BY <1>2, <1>5, <2>1 DEF KeysOK, ExclusiveButForRaces, EndZip, Remembered
  <2>2. CASE k = key[r]
    <3>1. Zipping(k) = {r}
      BY <1>3, <1>5, <2>2 DEF KeysOK, ExclusiveButForRaces, EndZip
    <3> QED
      BY <1>1, <2>2, <3>1
  <2> QED
    BY <2>1, <2>2
<1> QED
  BY <1>4, <1>5 DEF KeysOK, ExclusiveButForRaces

\* A zip that begins is remembered; a second one for its key is a race.
LEMMA StoreRemembers ==
  ASSUME ZipTypeOK, KeysOK, NEW r \in Downloads, Store(r)
  PROVE  KeysOK'
<1> USE DEF ZipTypeOK, Store, Stored, Goto
<1>1. Zipping(key[r])' = Zipping(key[r]) \cup {r} /\ key[r] \in Keys
  BY DEF Zipping
<1>2. \A k \in Keys \ {key[r]} : Zipping(k)' = Zipping(k)
  BY DEF Zipping
<1>3. NoKeyStuck'
  BY <1>1, <1>2 DEF KeysOK, NoKeyStuck
<1>4. ExclusiveButForRaces'
  BY <1>1, <1>2 DEF KeysOK, ExclusiveButForRaces
<1> QED
  BY <1>3, <1>4 DEF KeysOK

LEMMA KeysKept ==
  ASSUME ZipTypeOK, KeysOK, [ZipNext]_zipVars
  PROVE  KeysOK'
<1> USE DEF ZipTypeOK, Goto, Ends
<1>1. ASSUME NEW r \in Downloads,
             DownloadFiles(r) \/ IsZipping(r) \/ AddFileToZip(r) \/ FileExists(r) \/ CheckConnection(r)
               \/ GetFileSize(r) \/ Finish(r) \/ Close(r) \/ FetchRejects(r)
      PROVE  KeysOK'
  BY <1>1, QuietKeys
     DEF DownloadFiles, IsZipping, AddFileToZip, FileExists, CheckConnection, GetFileSize, Finish, Close,
         FetchRejects, service, history
<1>2. ASSUME NEW r \in Downloads, Store(r)
      PROVE  KeysOK'
  BY <1>2, StoreRemembers
<1>3. ASSUME NEW r \in Downloads, CreateZipFile(r)
      PROVE  KeysOK'
  <2>1. CASE EndZip(r, TRUE) /\ Ends(r)
    BY <1>3, <2>1, EndFreesKey DEF CreateZipFile
  <2>2. CASE Goto(r, "add") /\ UNCHANGED <<activeZipping, raced>>
    BY <1>3, <2>2, QuietKeys DEF CreateZipFile
  <2> QED
    BY <1>3, <2>1, <2>2 DEF CreateZipFile
<1>4. ASSUME NEW r \in Downloads, AddFileFails(r)
      PROVE  KeysOK'
  BY <1>4, EndFreesKey DEF AddFileFails
<1>5. ASSUME NEW r \in Downloads, ZipDone(r)
      PROVE  KeysOK'
  BY <1>5, EndFreesKey DEF ZipDone
<1>6. CASE ServiceCrash
  <2>1. \A k \in Keys : Zipping(k)' = {}
    BY <1>6 DEF ServiceCrash, Zipping, InService
  <2> QED
    BY <1>6, <2>1 DEF ServiceCrash, KeysOK, NoKeyStuck, ExclusiveButForRaces
<1>7. CASE ServerCrash
  BY <1>7, QuietKeys DEF ServerCrash, InServer, InService, service
<1>8. CASE Sync \/ UNCHANGED zipVars
  BY <1>8, QuietKeys DEF Sync, zipVars, service, history
<1> QED
  BY <1>1, <1>2, <1>3, <1>4, <1>5, <1>6, <1>7, <1>8 DEF ZipNext, Continue

-----------------------------------------------------------------------------
(* Archives.                                                                *)

\* An archive is created for a request that is under way, and the request removes
\* it or is counted as one that left it behind.
LEMMA ArchivesKept ==
  ASSUME ZipTypeOK, NothingLeftBehind, NotYetCreated, [ZipNext]_zipVars
  PROVE  NothingLeftBehind' /\ NotYetCreated'
<1> USE DEF ZipTypeOK, NothingLeftBehind, NotYetCreated, InService, InServer, Goto, Ends, Cleanup
<1>1. ASSUME NEW r \in Downloads, DownloadFiles(r) \/ IsZipping(r) \/ Store(r) \/ CreateZipFile(r)
      PROVE  NothingLeftBehind' /\ NotYetCreated'
  BY <1>1 DEF DownloadFiles, IsZipping, Store, CreateZipFile, history
<1>2. ASSUME NEW r \in Downloads, AddFileToZip(r) \/ AddFileFails(r) \/ ZipDone(r)
      PROVE  NothingLeftBehind' /\ NotYetCreated'
  <2>1. CASE AddFileToZip(r)
    BY <2>1 DEF AddFileToZip, history
  <2>2. CASE AddFileFails(r)
    BY <2>2 DEF AddFileFails
  <2>3. CASE ZipDone(r)
    BY <2>3 DEF ZipDone, Closed
  <2> QED
    BY <1>2, <2>1, <2>2, <2>3
<1>3. ASSUME NEW r \in Downloads, FileExists(r) \/ CheckConnection(r) \/ GetFileSize(r) \/ Finish(r)
      PROVE  NothingLeftBehind' /\ NotYetCreated'
  BY <1>3 DEF FileExists, CheckConnection, GetFileSize, Finish, Aborted, history
<1>4. ASSUME NEW r \in Downloads, Close(r) \/ FetchRejects(r)
      PROVE  NothingLeftBehind' /\ NotYetCreated'
  BY <1>4 DEF Close, FetchRejects, service, history
<1>5. CASE ServiceCrash
  BY <1>5 DEF ServiceCrash
<1>6. CASE ServerCrash
  BY <1>6 DEF ServerCrash, service
<1>7. CASE Sync
  BY <1>7 DEF Sync, Swept, service, history
<1>8. CASE UNCHANGED zipVars
  BY <1>8 DEF zipVars, service, history
<1> QED
  BY <1>1, <1>2, <1>3, <1>4, <1>5, <1>6, <1>7, <1>8 DEF ZipNext, Continue

-----------------------------------------------------------------------------
(* Theorems.                                                                *)

\* The conjunction of the types, the keys and the archives is inductive.
THEOREM ZipInvariant == ZipSpec => []ZipInv
<1>1. ZipInit => ZipInv
  BY DEF ZipInit, ZipInv, ZipTypeOK, KeysOK, NoKeyStuck, ExclusiveButForRaces, NothingLeftBehind, NotYetCreated,
         Zipping, InService, InServer
<1>2. ZipInv /\ [ZipNext]_zipVars => ZipInv'
  BY TypesKept, KeysKept, ArchivesKept DEF ZipInv
<1> QED
  BY <1>1, <1>2, PTL DEF ZipSpec

\* Every variable keeps its type: a request is in the service, in the server or over.
THEOREM TypeCorrect == ZipSpec => []ZipTypeOK
BY ZipInvariant, PTL DEF ZipInv

\* The service remembers a key only while it zips for it (the deferred Delete), and two
\* zips for one client and album at a time, or one the service has forgotten, come only
\* from the LoadOrStore whose result is ignored.
THEOREM KeysAreRight == ZipSpec => []KeysOK
BY ZipInvariant, PTL DEF ZipInv

\* A request that is over has removed its archive, unless a file was missing from
\* it, a process died, or the server's call to the service failed.
THEOREM ArchivesAreRemoved == ZipSpec => []NothingLeftBehind
BY ZipInvariant, PTL DEF ZipInv

-----------------------------------------------------------------------------
(* The pool of goroutines.                                                  *)

USE DEF pool, tables

LEMMA FaultCounted ==
  ASSUME TypeOK, Fault
  PROVE  faults' \in 0..MaxFaults
  BY ThumbAssumption DEF TypeOK, Fault

LEMMA TypeStep ==
  ASSUME PoolInv, [Next]_vars
  PROVE  TypeOK'
  <1> USE DEF TypeOK, RequestPC, Ended, Channel, WorkerPC, CollectorPC
  <1>0. TypeOK
    BY DEF PoolInv
  <1>1. ASSUME NEW r \in Requests, RequestNext(r)
        PROVE  TypeOK'
    <2>1. CASE GenerateThumbnail(r)
      <3>1. Missing(r) \subseteq Files
        BY <1>0, ThumbAssumption DEF Missing
      <3>2. QED
        BY <1>0, <2>1, <3>1 DEF GenerateThumbnail
    <2>2. CASE Post(r)
      BY <1>0, <2>2 DEF Post
    <2>3. CASE Process(r)
      BY <1>0, <2>3 DEF Process
    <2>4. CASE ProcessDropped(r)
      BY <1>0, <2>4 DEF ProcessDropped
    <2>5. CASE Return(r)
      BY <1>0, <2>5 DEF Return
    <2>6. QED
      BY <1>1, <2>1, <2>2, <2>3, <2>4, <2>5 DEF RequestNext
  <1>2. ASSUME NEW r \in Requests, PoolNext(r)
        PROVE  TypeOK'
    <2>1. CASE CloseFiles(r)
      BY <1>0, <2>1 DEF CloseFiles
    <2>2. CASE CloseResults(r)
      BY <1>0, <2>2 DEF CloseResults
    <2>3. CASE EndOfResults(r)
      BY <1>0, <2>3 DEF EndOfResults
    <2>4. CASE SaveThumbnails(r)
      BY <1>0, <2>4 DEF SaveThumbnails, NextBatch
    <2>5. CASE SaveFails(r)
      BY <1>0, <2>5, FaultCounted DEF SaveFails, NextBatch
    <2>6. QED
      BY <1>2, <2>1, <2>2, <2>3, <2>4, <2>5 DEF PoolNext
  <1>3. ASSUME NEW r \in Requests, NEW w \in Workers, WorkerNext(r, w)
        PROVE  TypeOK'
    <2>1. CASE Feed(r, w)
      BY <1>0, <2>1 DEF Feed
    <2>2. CASE Generate(r, w)
      BY <1>0, <2>2 DEF Generate
    <2>3. CASE WorkerDone(r, w)
      BY <1>0, <2>3 DEF WorkerDone
    <2>4. CASE Skip(r, w)
      BY <1>0, <2>4 DEF Skip, NextFile
    <2>5. CASE GenerateFails(r, w)
      BY <1>0, <2>5, FaultCounted DEF GenerateFails, NextFile
    <2>6. CASE Collect(r, w)
      <3>1. wfile[r][w] \in Files
        BY <1>0, <2>6 DEF PoolInv, OneHand, Collect
      <3>2. batch' \in [Requests -> SUBSET Files]
        BY <1>0, <2>6, <3>1 DEF Collect
      <3>3. cpc' \in [Requests -> CollectorPC]
        BY <1>0, <2>6 DEF Collect
      <3>4. QED
        BY <1>0, <2>6, <3>2, <3>3 DEF Collect
    <2>7. QED
      BY <1>3, <2>1, <2>2, <2>3, <2>4, <2>5, <2>6 DEF WorkerNext
  <1>4. CASE Crash
    BY <1>0, <1>4, FaultCounted DEF Crash
  <1>5. ASSUME NEW f \in Removable, DeleteThumbnail(f) \/ DeleteEntry(f)
        PROVE  TypeOK'
    BY <1>0, <1>5 DEF DeleteThumbnail, DeleteEntry
  <1>6. CASE UNCHANGED vars
    BY <1>0, <1>6 DEF vars
  <1>7. QED
    BY <1>1, <1>2, <1>3, <1>4, <1>5, <1>6 DEF Next, Idle

-----------------------------------------------------------------------------
(* PoolInv is kept.  What a step of request r does to the others is nothing. *)

\* A request whose goroutines do not move keeps EndInOrder, OneHand and Batches.
LEMMA Unmoved ==
  ASSUME NEW r \in Requests, EndInOrder(r), OneHand(r), Batches(r),
         feed'[r] = feed[r], files'[r] = files[r], wpc'[r] = wpc[r], wfile'[r] = wfile[r],
         results'[r] = results[r], cpc'[r] = cpc[r], batch'[r] = batch[r]
  PROVE  EndInOrder(r)' /\ OneHand(r)' /\ Batches(r)'
  BY DEF EndInOrder, OneHand, Batches

\* A step of the goroutines of a running request leaves the turns as they are.
LEMMA TurnsKept ==
  ASSUME PoolInv, NEW r \in Requests, rpc[r] = "running", UNCHANGED <<loading, rpc>>,
         files'[r] # "none", cpc'[r] # "none",
         \A s \in Requests \ {r} :
            /\ feed'[s] = feed[s] /\ files'[s] = files[s] /\ wpc'[s] = wpc[s]
            /\ wfile'[s] = wfile[s] /\ results'[s] = results[s] /\ cpc'[s] = cpc[s]
            /\ batch'[s] = batch[s],
         TypeOK', EndInOrder(r)', OneHand(r)', Batches(r)'
  PROVE  PoolInv'
  <1>1. (loading => Running # {})'
    BY DEF PoolInv, Running
  <1>2. ASSUME NEW s \in Requests PROVE Turns(s)'
    BY DEF PoolInv, Turns, NotStarted
  <1>3. ASSUME NEW s \in Requests PROVE (EndInOrder(s) /\ OneHand(s) /\ Batches(s))'
    BY Unmoved DEF PoolInv
  <1>4. QED
    BY <1>1, <1>2, <1>3 DEF PoolInv

\* Goroutines exist only while their request is processed.
LEMMA Alive ==
  ASSUME PoolInv, NEW r \in Requests,
         \/ files[r] = "open" \/ results[r] = "open"
         \/ cpc[r] \in {"receive", "save", "final"}
         \/ \E w \in Workers : wpc[r][w] \in {"receive", "generate", "send"}
  PROVE  rpc[r] = "running"
  <1>1. Turns(r) /\ EndInOrder(r)
    BY DEF PoolInv
  <1>2. CASE rpc[r] \notin {"running", "ended"}
    BY <1>1, <1>2 DEF Turns, NotStarted
  <1>3. CASE rpc[r] = "ended" /\ NotStarted(r)
    BY <1>3 DEF NotStarted
  <1>4. CASE rpc[r] = "ended" /\ cpc[r] = "closed"
    <2>1. results[r] = "closed" /\ \A w \in Workers : wpc[r][w] = "exit"
      BY <1>1, <1>4 DEF EndInOrder
    <2>2. files[r] = "closed"
      BY <1>1, <2>1, ThumbAssumption DEF EndInOrder
    <2>3. QED
      BY <1>4, <2>1, <2>2
  <1>5. QED
    BY <1>1, <1>2, <1>3, <1>4 DEF Turns

LEMMA WorkerKeeps ==
  ASSUME PoolInv, NEW r \in Requests, NEW w \in Workers, WorkerNext(r, w), TypeOK'
  PROVE  PoolInv'
  <1> USE DEF TypeOK
  <1>0. TypeOK /\ Turns(r) /\ EndInOrder(r) /\ OneHand(r) /\ Batches(r)
    BY DEF PoolInv
  <1>1. CASE Feed(r, w)
    <2>1. rpc[r] = "running"
      BY <1>1, Alive DEF Feed
    <2>2. PICK f \in feed[r] :
            /\ feed' = [feed EXCEPT ![r] = @ \ {f}]
            /\ wfile' = [wfile EXCEPT ![r][w] = f]
            /\ wpc' = [wpc EXCEPT ![r][w] = "generate"]
      BY <1>1 DEF Feed
    <2>3. f \in Files /\ f # NoFile
      BY <1>0, <2>2, ThumbAssumption
    <2>4. EndInOrder(r)'
      BY <1>0, <1>1, <2>2 DEF EndInOrder, Feed
    <2>5. OneHand(r)'
      BY <1>0, <1>1, <2>2, <2>3 DEF OneHand, Feed
    <2>6. Batches(r)'
      BY <1>0, <1>1 DEF Batches, Feed
    <2>7. QED
      BY <1>0, <1>1, <2>1, <2>2, <2>4, <2>5, <2>6, TurnsKept DEF Feed, Turns
  <1>2. CASE Generate(r, w) \/ WorkerDone(r, w)
    <2>1. rpc[r] = "running"
      BY <1>2, Alive DEF Generate, WorkerDone
    <2>2. EndInOrder(r)'
      BY <1>0, <1>2 DEF EndInOrder, Generate, WorkerDone
    <2>3. OneHand(r)'
      BY <1>0, <1>2 DEF OneHand, Generate, WorkerDone
    <2>4. Batches(r)'
      BY <1>0, <1>2 DEF Batches, Generate, WorkerDone
    <2>5. QED
      BY <1>0, <1>2, <2>1, <2>2, <2>3, <2>4, TurnsKept DEF Generate, WorkerDone, Turns
  <1>3. CASE Skip(r, w) \/ GenerateFails(r, w)
    <2>1. rpc[r] = "running"
      BY <1>3, Alive DEF Skip, GenerateFails
    <2>2. wpc[r][w] = "generate" /\ NextFile(r, w) /\ batch' = batch
      BY <1>3 DEF Skip, GenerateFails
    <2>3. EndInOrder(r)'
      BY <1>0, <2>2 DEF EndInOrder, NextFile
    <2>4. OneHand(r)'
      BY <1>0, <2>2, ThumbAssumption DEF OneHand, NextFile
    <2>5. Batches(r)'
      BY <1>0, <2>2 DEF Batches, NextFile
    <2>6. QED
      BY <1>0, <2>1, <2>2, <2>3, <2>4, <2>5, TurnsKept DEF NextFile, Turns
  <1>4. CASE Collect(r, w)
    <2>1. rpc[r] = "running"
      BY <1>4, Alive DEF Collect
    <2>2. wfile[r][w] \in Files /\ wfile[r][w] \notin feed[r] \cup batch[r]
      BY <1>0, <1>4 DEF OneHand, Collect
    <2>3. batch'[r] = batch[r] \cup {wfile[r][w]}
      BY <1>0, <1>4 DEF Collect
    <2>4. IsFiniteSet(batch'[r]) /\ Cardinality(batch'[r]) = Cardinality(batch[r]) + 1
      <3> DEFINE B == batch[r]  x == wfile[r][w]
      <3>1. IsFiniteSet(B) /\ x \notin B
        BY <1>0, <2>2 DEF Batches
      <3>2. IsFiniteSet(B \cup {x}) /\ Cardinality(B \cup {x}) = Cardinality(B) + 1
        <4> HIDE DEF B, x
        <4> QED
          BY <3>1, FS_AddElement
      <3>3. QED
        BY <2>3, <3>2
    <2>5. Cardinality(batch[r]) \in Nat
      BY <1>0, FS_CardinalityType DEF Batches
    <2>6. cpc'[r] = IF Cardinality(batch'[r]) >= BatchSize THEN "save" ELSE "receive"
      BY <1>0, <1>4 DEF Collect
    <2>7. EndInOrder(r)'
      BY <1>0, <1>4, <2>6 DEF EndInOrder, Collect
    <2>8. OneHand(r)'
      <3>1. /\ wpc'[r][w] = "receive" /\ wfile'[r][w] = NoFile
            /\ \A v \in Workers \ {w} : wpc'[r][v] = wpc[r][v] /\ wfile'[r][v] = wfile[r][v]
            /\ feed'[r] = feed[r]
        BY <1>0, <1>4 DEF Collect
      <3>2. NoFile \notin feed[r] /\ NoFile \notin batch'[r]
        BY <1>0, <2>2, <2>3, ThumbAssumption
      <3>3. \A v \in Workers \ {w} : wfile[r][v] # wfile[r][w]
        BY <1>0, <2>2, ThumbAssumption DEF OneHand
      <3>4. feed'[r] \cap batch'[r] = {}
        BY <1>0, <2>2, <2>3, <3>1 DEF OneHand
      <3>5. ASSUME NEW v \in Workers
            PROVE  /\ wpc'[r][v] \in {"generate", "send"} <=> wfile'[r][v] # NoFile
                   /\ wfile'[r][v] \notin feed'[r] \cup batch'[r]
        <4>1. CASE v = w
          BY <3>1, <3>2, <4>1
        <4>2. CASE v # w
          <5>1. wfile[r][v] \notin feed[r] \cup batch[r] /\ wfile[r][v] # wfile[r][w]
            BY <1>0, <3>3, <4>2 DEF OneHand
          <5>2. wpc[r][v] \in {"generate", "send"} <=> wfile[r][v] # NoFile
            BY <1>0 DEF OneHand
          <5>3. QED
            BY <2>3, <3>1, <4>2, <5>1, <5>2
        <4>3. QED
          BY <4>1, <4>2
      <3>6. ASSUME NEW v \in Workers, NEW u \in Workers, wfile'[r][v] = wfile'[r][u]
            PROVE  v = u \/ wfile'[r][v] = NoFile
        <4>1. CASE v = w \/ u = w
          BY <3>1, <3>6, <4>1
        <4>2. CASE v # w /\ u # w
          <5>1. wfile'[r][v] = wfile[r][v] /\ wfile[r][v] = wfile[r][u]
            BY <3>1, <3>6, <4>2
          <5>2. QED
            BY <1>0, <5>1 DEF OneHand
        <4>3. QED
          BY <4>1, <4>2
      <3>7. QED
        BY <3>4, <3>5, <3>6 DEF OneHand
    <2>9. Batches(r)'
      <3>1. Cardinality(batch[r]) < BatchSize
        BY <1>0, <1>4 DEF Batches, Collect
      <3>2. Cardinality(batch'[r]) <= BatchSize
        BY <2>4, <2>5, <3>1, ThumbAssumption
      <3>3. cpc'[r] = "receive" => Cardinality(batch'[r]) < BatchSize
        BY <2>4, <2>5, <2>6, ThumbAssumption
      <3>4. QED
        BY <2>3, <2>4, <2>6, <3>2, <3>3 DEF Batches
    <2>10. QED
      BY <1>0, <1>4, <2>1, <2>6, <2>7, <2>8, <2>9, TurnsKept DEF Collect, Turns
  <1>5. QED
    BY <1>1, <1>2, <1>3, <1>4 DEF WorkerNext

LEMMA PoolKeeps ==
  ASSUME PoolInv, NEW r \in Requests, PoolNext(r), TypeOK'
  PROVE  PoolInv'
  <1> USE DEF TypeOK
  <1>0. TypeOK /\ Turns(r) /\ EndInOrder(r) /\ OneHand(r) /\ Batches(r)
    BY DEF PoolInv
  <1>1. CASE CloseFiles(r)
    <2>1. rpc[r] = "running"
      BY <1>1, Alive DEF CloseFiles
    <2>2. EndInOrder(r)' /\ OneHand(r)' /\ Batches(r)'
      BY <1>0, <1>1 DEF EndInOrder, OneHand, Batches, CloseFiles
    <2>3. QED
      BY <1>0, <1>1, <2>1, <2>2, TurnsKept DEF CloseFiles, Turns
  <1>2. CASE CloseResults(r)
    <2>1. rpc[r] = "running"
      BY <1>2, Alive DEF CloseResults
    <2>2. EndInOrder(r)' /\ OneHand(r)' /\ Batches(r)'
      BY <1>0, <1>2 DEF EndInOrder, OneHand, Batches, CloseResults
    <2>3. QED
      BY <1>0, <1>2, <2>1, <2>2, TurnsKept DEF CloseResults, Turns
  <1>3. CASE EndOfResults(r)
    <2>1. rpc[r] = "running"
      BY <1>3, Alive DEF EndOfResults
    <2>2. EndInOrder(r)' /\ OneHand(r)'
      BY <1>0, <1>3 DEF EndInOrder, OneHand, EndOfResults
    <2>3. Batches(r)'
      BY <1>0, <1>3 DEF Batches, EndOfResults
    <2>4. QED
      BY <1>0, <1>3, <2>1, <2>2, <2>3, TurnsKept DEF EndOfResults, Turns
  <1>4. CASE SaveThumbnails(r) \/ SaveFails(r)
    <2>1. NextBatch(r)
      BY <1>4 DEF SaveThumbnails, SaveFails
    <2>2. rpc[r] = "running"
      BY <2>1, Alive DEF NextBatch
    <2>3. EndInOrder(r)'
      BY <1>0, <2>1 DEF EndInOrder, NextBatch
    <2>4. OneHand(r)'
      BY <1>0, <2>1 DEF OneHand, NextBatch
    <2>5. Batches(r)'
      BY <1>0, <2>1, FS_EmptySet, ThumbAssumption DEF Batches, NextBatch
    <2>6. QED
      BY <1>0, <2>1, <2>2, <2>3, <2>4, <2>5, TurnsKept DEF NextBatch, Turns
  <1>5. QED
    BY <1>1, <1>2, <1>3, <1>4 DEF PoolNext

\* A request that has not started, or whose goroutines are not there, meets the rest trivially.
LEMMA NotStartedIsFine ==
  ASSUME NEW r \in Requests, NotStarted(r), NoFile \notin feed[r]
  PROVE  EndInOrder(r) /\ OneHand(r) /\ Batches(r)
  <1>1. batch[r] = {} /\ Cardinality(batch[r]) = 0 /\ IsFiniteSet(batch[r])
    BY FS_EmptySet DEF NotStarted
  <1>2. QED
    BY <1>1, ThumbAssumption DEF NotStarted, EndInOrder, OneHand, Batches

LEMMA InitInv == Init => PoolInv
  <1> SUFFICES ASSUME Init PROVE PoolInv
    OBVIOUS
  <1>1. TypeOK
    <2>1. rpc \in [Requests -> RequestPC]
      BY DEF Init, RequestPC
    <2>2. wpc \in [Requests -> [Workers -> WorkerPC]]
      BY DEF Init, WorkerPC
    <2>3. wfile \in [Requests -> [Workers -> Files \cup {NoFile}]]
      BY DEF Init
    <2>4. faults \in 0..MaxFaults
      BY ThumbAssumption DEF Init
    <2>5. QED
      BY <2>1, <2>2, <2>3, <2>4 DEF Init, TypeOK, Channel, CollectorPC
  <1>2. ASSUME NEW r \in Requests PROVE Turns(r) /\ NotStarted(r) /\ NoFile \notin feed[r]
    BY DEF Init, Turns, NotStarted
  <1>3. QED
    BY <1>1, <1>2, NotStartedIsFine DEF PoolInv, Init

LEMMA RequestKeeps ==
  ASSUME PoolInv, NEW r \in Requests, RequestNext(r), TypeOK'
  PROVE  PoolInv'
  <1> USE DEF TypeOK
  <1>0. TypeOK /\ \A s \in Requests : Turns(s) /\ EndInOrder(s) /\ OneHand(s) /\ Batches(s)
    BY DEF PoolInv
  <1>1. CASE GenerateThumbnail(r)
    <2>1. rpc[r] = "idle" /\ rpc'[r] \in {"nothing", "asked"}
      BY <1>0, <1>1 DEF GenerateThumbnail
    <2>2. /\ \A s \in Requests \ {r} : rpc'[s] = rpc[s] /\ feed'[s] = feed[s]
          /\ UNCHANGED <<loading, files, wpc, wfile, results, cpc, batch>>
      BY <1>0, <1>1 DEF GenerateThumbnail
    <2>3. ASSUME NEW s \in Requests PROVE Turns(s)'
      BY <1>0, <2>1, <2>2 DEF Turns, NotStarted
    <2>4. NotStarted(r)'
      BY <1>0, <2>1, <2>2 DEF Turns, NotStarted
    <2>5. (EndInOrder(r) /\ OneHand(r) /\ Batches(r))'
      <3>1. NoFile \notin feed'[r]
        BY ThumbAssumption
      <3>2. batch'[r] = {} /\ Cardinality(batch'[r]) = 0 /\ IsFiniteSet(batch'[r])
        BY <2>4, FS_EmptySet DEF NotStarted
      <3>3. QED
        BY <2>4, <3>1, <3>2, ThumbAssumption DEF NotStarted, EndInOrder, OneHand, Batches
    <2>6. ASSUME NEW s \in Requests PROVE (EndInOrder(s) /\ OneHand(s) /\ Batches(s))'
      BY <1>0, <2>2, <2>5, Unmoved
    <2>7. (loading => Running # {})'
      BY <2>1, <2>2 DEF PoolInv, Running
    <2>8. QED
      BY <2>3, <2>6, <2>7 DEF PoolInv
  <1>2. CASE Post(r) \/ ProcessDropped(r)
    <2>1. /\ rpc[r] \in {"asked", "posted"} /\ rpc'[r] \in {"refused", "posted", "dropped"}
          /\ \A s \in Requests \ {r} : rpc'[s] = rpc[s]
          /\ UNCHANGED <<loading, feed, files, wpc, wfile, results, cpc, batch>>
      BY <1>0, <1>2 DEF Post, ProcessDropped
    <2>2. ASSUME NEW s \in Requests PROVE Turns(s)'
      BY <1>0, <2>1 DEF Turns, NotStarted
    <2>3. ASSUME NEW s \in Requests PROVE (EndInOrder(s) /\ OneHand(s) /\ Batches(s))'
      BY <1>0, <2>1, Unmoved
    <2>4. (loading => Running # {})'
      BY <2>1 DEF PoolInv, Running
    <2>5. QED
      BY <2>2, <2>3, <2>4 DEF PoolInv
  <1>3. CASE Process(r)
    <2>1. /\ rpc[r] = "posted" /\ ~loading /\ loading' /\ rpc'[r] = "running"
          /\ \A s \in Requests \ {r} :
               /\ rpc'[s] = rpc[s] /\ files'[s] = files[s] /\ wpc'[s] = wpc[s]
               /\ results'[s] = results[s] /\ cpc'[s] = cpc[s]
          /\ files'[r] = "open" /\ results'[r] = "open" /\ cpc'[r] = "receive"
          /\ \A w \in Workers : wpc'[r][w] = "receive"
          /\ UNCHANGED <<feed, wfile, batch>>
      BY <1>0, <1>3 DEF Process
    <2>2. \A s \in Requests : rpc[s] # "running"
      BY <1>0, <2>1 DEF Turns
    <2>3. NotStarted(r)
      BY <1>0, <2>1 DEF Turns
    <2>4. ASSUME NEW s \in Requests PROVE Turns(s)'
      BY <1>0, <2>1, <2>2 DEF Turns, NotStarted
    <2>5. (EndInOrder(r) /\ OneHand(r) /\ Batches(r))'
      <3>1. batch'[r] = {} /\ Cardinality(batch'[r]) = 0 /\ IsFiniteSet(batch'[r])
        BY <2>1, <2>3, FS_EmptySet DEF NotStarted
      <3>2. \A w \in Workers : wfile'[r][w] = NoFile
        BY <2>1, <2>3 DEF NotStarted
      <3>3. NoFile \notin feed'[r]
        BY ThumbAssumption
      <3>4. QED
        BY <2>1, <3>1, <3>2, <3>3, ThumbAssumption DEF EndInOrder, OneHand, Batches
    <2>6. ASSUME NEW s \in Requests PROVE (EndInOrder(s) /\ OneHand(s) /\ Batches(s))'
      BY <1>0, <2>1, <2>5, Unmoved
    <2>7. QED
      BY <2>1, <2>4, <2>6 DEF PoolInv, Running
  <1>4. CASE Return(r)
    <2>1. /\ rpc[r] = "running" /\ cpc[r] = "closed" /\ loading' = FALSE /\ rpc'[r] = "ended"
          /\ \A s \in Requests \ {r} : rpc'[s] = rpc[s]
          /\ UNCHANGED <<feed, files, wpc, wfile, results, cpc, batch>>
      BY <1>0, <1>4 DEF Return
    <2>2. ASSUME NEW s \in Requests PROVE Turns(s)'
      BY <1>0, <2>1 DEF Turns, NotStarted
    <2>3. ASSUME NEW s \in Requests PROVE (EndInOrder(s) /\ OneHand(s) /\ Batches(s))'
      BY <1>0, <2>1, Unmoved
    <2>4. QED
      BY <2>1, <2>2, <2>3 DEF PoolInv
  <1>5. QED
    BY <1>1, <1>2, <1>3, <1>4 DEF RequestNext

LEMMA CrashKeeps ==
  ASSUME PoolInv, Crash, TypeOK'
  PROVE  PoolInv'
  <1>1. ASSUME NEW r \in Requests PROVE NotStarted(r)' /\ rpc'[r] # "running"
    BY DEF Crash, NotStarted
  <1>2. ASSUME NEW r \in Requests PROVE Turns(r)'
    BY <1>1 DEF Turns
  <1>3. ASSUME NEW r \in Requests PROVE (EndInOrder(r) /\ OneHand(r) /\ Batches(r))'
    <2>1. NoFile \notin feed'[r]
      BY ThumbAssumption DEF TypeOK
    <2>2. batch'[r] = {} /\ Cardinality(batch'[r]) = 0 /\ IsFiniteSet(batch'[r])
      BY <1>1, FS_EmptySet DEF NotStarted
    <2>3. QED
      BY <1>1, <2>1, <2>2, ThumbAssumption DEF NotStarted, EndInOrder, OneHand, Batches
  <1>4. QED
    BY <1>2, <1>3 DEF PoolInv, Crash

LEMMA UnrelatedKeeps ==
  ASSUME PoolInv, UNCHANGED <<loading, rpc, pool>>, TypeOK'
  PROVE  PoolInv'
  <1>1. ASSUME NEW r \in Requests PROVE Turns(r)'
    BY DEF PoolInv, Turns, NotStarted
  <1>2. ASSUME NEW r \in Requests PROVE (EndInOrder(r) /\ OneHand(r) /\ Batches(r))'
    BY Unmoved DEF PoolInv
  <1>3. QED
    BY <1>1, <1>2 DEF PoolInv, Running

LEMMA InvStep ==
  ASSUME PoolInv, [Next]_vars
  PROVE  PoolInv'
  <1>1. TypeOK'
    BY TypeStep
  <1>2. CASE Crash
    BY <1>1, <1>2, CrashKeeps
  <1>3. ASSUME NEW f \in Removable, DeleteThumbnail(f) \/ DeleteEntry(f)
        PROVE  PoolInv'
    BY <1>1, <1>3, UnrelatedKeeps DEF DeleteThumbnail, DeleteEntry
  <1>4. CASE UNCHANGED vars
    BY <1>1, <1>4, UnrelatedKeeps DEF vars
  <1>5. QED
    BY <1>1, <1>2, <1>3, <1>4, RequestKeeps, PoolKeeps, WorkerKeeps DEF Next, Idle

(***************************************************************************)
(* The flag of the album, the goroutines and what they hold fit together   *)
(* in every state: at most one request is processed (batch_processor.go:44)*)
(* and its goroutines end in order.                                        *)
(***************************************************************************)
THEOREM PoolInvariant == Spec => []PoolInv
  BY InitInv, InvStep, PTL DEF Spec

(***************************************************************************)
(* When Process is over (batch_processor.go:80-82) none of its goroutines  *)
(* is left.                                                                *)
(***************************************************************************)
THEOREM GoroutinesEnd == Spec => []PoolGone
  <1>1. PoolInv => PoolGone
    <2> SUFFICES ASSUME PoolInv, NEW r \in Requests, rpc[r] \in Ended
                 PROVE  /\ files[r] # "open" /\ results[r] # "open"
                        /\ cpc[r] \in {"none", "closed"}
                        /\ \A w \in Workers : wpc[r][w] \in {"none", "exit"}
      BY DEF PoolGone
    <2>1. rpc[r] # "running"
      BY DEF Ended
    <2>2. QED
      BY <2>1, Alive DEF PoolInv, TypeOK, CollectorPC, WorkerPC
  <1>2. QED
    BY <1>1, PoolInvariant, PTL

-----------------------------------------------------------------------------
(* Refinement.  `Hand` is what the running request holds; when r runs, it is Left(r). *)
Hand == UNION {Left(s) : s \in Running}

LEMMA HandOfRunning ==
  ASSUME PoolInv, NEW r \in Requests, rpc[r] = "running"
  PROVE  Hand = Left(r) /\ Running = {r} /\ loading
  BY DEF PoolInv, Turns, Hand, Running

\* What one worker has in hand is in no other place.
LEMMA HandInPieces ==
  ASSUME TypeOK, NEW r \in Requests, OneHand(r), NEW w \in Workers, wfile[r][w] # NoFile,
         wfile'[r] = [wfile[r] EXCEPT ![w] = NoFile]
  PROVE  /\ wfile[r][w] \in Left(r)
         /\ feed[r] \cup InWorkers(r)' \cup batch[r] = Left(r) \ {wfile[r][w]}
  <1>1. wfile[r][w] \in Files /\ wfile[r][w] \notin feed[r] /\ wfile[r][w] \notin batch[r]
    BY DEF TypeOK, OneHand
  <1>2. \A v \in Workers \ {w} : wfile'[r][v] = wfile[r][v] /\ wfile[r][v] # wfile[r][w]
    BY DEF TypeOK, OneHand
  <1>3. wfile'[r][w] = NoFile
    BY DEF TypeOK
  <1>4. InWorkers(r)' = InWorkers(r) \ {wfile[r][w]}
    BY <1>1, <1>2, <1>3, ThumbAssumption DEF InWorkers
  <1>5. QED
    BY <1>1, <1>4 DEF Left, InWorkers

\* A step of its goroutines does not end the request: what it holds then is what is left of it.
LEMMA HandNext ==
  ASSUME PoolInv, NEW r \in Requests, rpc[r] = "running", rpc' = rpc
  PROVE  Hand' = feed'[r] \cup InWorkers(r)' \cup batch'[r]
  <1>1. Running = {r} /\ Running' = Running
    BY HandOfRunning DEF Running
  <1>2. Hand' = Left(r)'
    BY <1>1 DEF Hand
  <1>3. QED
    BY <1>2 DEF Left

LEMMA WorkerRefines ==
  ASSUME PoolInv, NEW r \in Requests, NEW w \in Workers, WorkerNext(r, w), TypeOK'
  PROVE  \/ UNCHANGED <<loading, Hand, rows, entries, faults>>
         \/ \E S \in SUBSET Hand : /\ S # {} /\ Cardinality(S) <= BatchSize
                                   /\ Hand' = Hand \ S
                                   /\ \/ /\ \/ S \subseteq Unsupported
                                            \/ ~ S \subseteq entries
                                         /\ UNCHANGED faults
                                      \/ Fault
                                   /\ UNCHANGED <<loading, rows, entries>>
  <1>0. TypeOK /\ OneHand(r)
    BY DEF PoolInv
  <1>r. rpc[r] = "running" /\ UNCHANGED <<loading, rpc, rows, entries>>
    BY Alive DEF WorkerNext, Feed, Generate, Skip, GenerateFails, NextFile, WorkerDone, Collect
  <1>h. Hand = Left(r) /\ Hand' = feed'[r] \cup InWorkers(r)' \cup batch'[r]
    BY <1>r, HandOfRunning, HandNext
  <1>1. CASE Feed(r, w)
    <2>1. PICK f \in feed[r] :
            /\ feed' = [feed EXCEPT ![r] = @ \ {f}]
            /\ wfile' = [wfile EXCEPT ![r][w] = f]
      BY <1>1 DEF Feed
    <2>2. f \in Files /\ wfile[r][w] = NoFile
      BY <1>0, <1>1, <2>1 DEF TypeOK, OneHand, Feed
    <2>3. feed'[r] = feed[r] \ {f} /\ wfile'[r] = [wfile[r] EXCEPT ![w] = f]
      BY <1>0, <2>1 DEF TypeOK
    <2>4. InWorkers(r)' = InWorkers(r) \cup {f}
      <3>1. \A v \in Workers \ {w} : wfile'[r][v] = wfile[r][v]
        BY <1>0, <2>3 DEF TypeOK
      <3>2. wfile'[r][w] = f
        BY <1>0, <2>3 DEF TypeOK
      <3>3. QED
        BY <2>2, <3>1, <3>2, ThumbAssumption DEF InWorkers
    <2>5. QED
      BY <1>1, <1>r, <1>h, <2>1, <2>3, <2>4 DEF Feed, Left
  <1>2. CASE Generate(r, w) \/ WorkerDone(r, w)
    BY <1>2, <1>r, <1>h DEF Generate, WorkerDone, Left, InWorkers
  <1>3. CASE Skip(r, w) \/ GenerateFails(r, w)
    <2> DEFINE f == wfile[r][w]
    <2>1. wpc[r][w] = "generate" /\ NextFile(r, w) /\ batch' = batch
      BY <1>3 DEF Skip, GenerateFails
    <2>2. f # NoFile
      BY <1>0, <2>1 DEF OneHand
    <2>3. /\ feed'[r] = feed[r] /\ batch'[r] = batch[r]
          /\ wfile'[r] = [wfile[r] EXCEPT ![w] = NoFile]
      BY <1>0, <2>1 DEF NextFile, TypeOK
    <2>4. f \in Left(r) /\ feed'[r] \cup InWorkers(r)' \cup batch'[r] = Left(r) \ {f}
      BY <1>0, <2>2, <2>3, HandInPieces
    <2>5. Cardinality({f}) <= BatchSize
      <3>1. Cardinality({f}) = 1
        BY FS_Singleton
      <3>2. QED
        BY <3>1, ThumbAssumption
    <2>6. \/ /\ {f} \subseteq Unsupported \/ ~ {f} \subseteq entries
             /\ UNCHANGED faults
          \/ Fault
      BY <1>3 DEF Skip, GenerateFails
    <2>7. QED
      BY <1>r, <1>h, <2>4, <2>5, <2>6
  <1>4. CASE Collect(r, w)
    <2> DEFINE f == wfile[r][w]
    <2>1. f # NoFile
      BY <1>0, <1>4 DEF OneHand, Collect
    <2>2. /\ feed'[r] = feed[r] /\ batch'[r] = batch[r] \cup {f}
          /\ wfile'[r] = [wfile[r] EXCEPT ![w] = NoFile]
      BY <1>0, <1>4 DEF Collect, TypeOK
    <2>3. f \in Left(r) /\ feed[r] \cup InWorkers(r)' \cup batch[r] = Left(r) \ {f}
      BY <1>0, <2>1, <2>2, HandInPieces
    <2>4. Hand' = Hand
      BY <1>h, <2>2, <2>3
    <2>5. QED
      BY <1>4, <1>r, <2>4 DEF Collect
  <1>5. QED
    BY <1>1, <1>2, <1>3, <1>4 DEF WorkerNext

LEMMA PoolRefines ==
  ASSUME PoolInv, NEW r \in Requests, PoolNext(r)
  PROVE  \/ UNCHANGED <<loading, Hand, rows, entries, faults>>
         \/ /\ batch[r] \in SUBSET Hand /\ batch[r] # {}
            /\ Cardinality(batch[r]) <= BatchSize
            /\ Hand' = Hand \ batch[r]
            /\ UNCHANGED <<loading, entries>>
            /\ SaveThumbnails(r) \/ SaveFails(r)
  <1>0. TypeOK /\ OneHand(r) /\ Batches(r)
    BY DEF PoolInv
  <1>1. CASE CloseFiles(r) \/ CloseResults(r) \/ EndOfResults(r)
    <2>1. rpc[r] = "running" /\ rpc' = rpc
      BY <1>1, Alive DEF CloseFiles, CloseResults, EndOfResults
    <2>2. Hand = Left(r) /\ Hand' = feed'[r] \cup InWorkers(r)' \cup batch'[r]
      BY <2>1, HandOfRunning, HandNext
    <2>3. QED
      BY <1>1, <2>2 DEF CloseFiles, CloseResults, EndOfResults, Left, InWorkers
  <1>2. CASE SaveThumbnails(r) \/ SaveFails(r)
    <2>1. NextBatch(r)
      BY <1>2 DEF SaveThumbnails, SaveFails
    <2>2. rpc[r] = "running" /\ rpc' = rpc
      BY <2>1, Alive DEF NextBatch
    <2>3. Hand = Left(r) /\ Hand' = feed'[r] \cup InWorkers(r)' \cup batch'[r]
      BY <2>2, HandOfRunning, HandNext
    <2>4. feed'[r] = feed[r] /\ InWorkers(r)' = InWorkers(r) /\ batch'[r] = {}
      BY <1>0, <2>1 DEF NextBatch, InWorkers, TypeOK
    <2>5. batch[r] \cap (feed[r] \cup InWorkers(r)) = {}
      BY <1>0 DEF OneHand, InWorkers
    <2>6. batch[r] # {} /\ Cardinality(batch[r]) <= BatchSize
      BY <1>0, <2>1 DEF Batches, NextBatch
    <2>7. QED
      BY <1>2, <2>1, <2>3, <2>4, <2>5, <2>6 DEF Left, NextBatch
  <1>3. QED
    BY <1>1, <1>2 DEF PoolNext

LEMMA RequestRefines ==
  ASSUME PoolInv, PoolInv', NEW r \in Requests, RequestNext(r)
  PROVE  /\ UNCHANGED <<rows, entries, faults>>
         /\ \/ UNCHANGED <<loading, Hand>>
            \/ ~loading /\ loading' /\ Hand' \in SUBSET Files
            \/ loading /\ ~loading' /\ Hand = {} /\ Hand' = {}
  <1>0. TypeOK /\ \A s \in Requests : Turns(s) /\ EndInOrder(s) /\ OneHand(s) /\ Batches(s)
    BY DEF PoolInv
  <1>1. CASE GenerateThumbnail(r) \/ Post(r) \/ ProcessDropped(r)
    <2>1. Running' = Running /\ r \notin Running
      BY <1>0, <1>1 DEF GenerateThumbnail, Post, ProcessDropped, Running, TypeOK
    <2>2. \A s \in Requests \ {r} : Left(s)' = Left(s)
      BY <1>0, <1>1 DEF GenerateThumbnail, Post, ProcessDropped, Left, InWorkers, TypeOK
    <2>3. Hand' = Hand
      BY <2>1, <2>2 DEF Hand, Running
    <2>4. QED
      BY <1>1, <2>3 DEF GenerateThumbnail, Post, ProcessDropped
  <1>2. CASE Process(r)
    <2>1. Hand' \subseteq Files
      BY DEF PoolInv, TypeOK, Hand, Running, Left, InWorkers
    <2>2. QED
      BY <1>2, <2>1 DEF Process
  <1>3. CASE Return(r)
    <2>1. rpc[r] = "running" /\ cpc[r] = "closed" /\ ~loading'
      BY <1>3 DEF Return
    <2>2. results[r] = "closed" /\ \A w \in Workers : wpc[r][w] = "exit"
      BY <1>0, <2>1 DEF EndInOrder
    <2>3. feed[r] = {} /\ batch[r] = {}
      BY <1>0, <2>1, <2>2, ThumbAssumption DEF EndInOrder, Batches
    <2>4. \A w \in Workers : wfile[r][w] = NoFile
      BY <1>0, <2>2 DEF OneHand
    <2>5. Left(r) = {}
      BY <2>3, <2>4, ThumbAssumption DEF Left, InWorkers
    <2>6. Hand = {} /\ loading /\ Running = {r}
      BY <2>1, <2>5, HandOfRunning
    <2>7. Running' = {}
      BY <1>0, <1>3, <2>6 DEF Return, Running, TypeOK
    <2>8. Hand' = {}
      BY <2>7 DEF Hand
    <2>9. QED
      BY <1>3, <2>1, <2>6, <2>8 DEF Return
  <1>4. QED
    BY <1>1, <1>2, <1>3 DEF RequestNext

LEMMA SameCardinality == \A S : Job!Cardinality(S) = Cardinality(S)
  BY DEF Job!Cardinality, Cardinality

LEMMA JobStep ==
  ASSUME PoolInv, PoolInv', [Next]_vars
  PROVE  [Job!Next]_(Job!vars)
  <1> USE DEF Job!vars, Job!Next
  <1>h. Hand = UNION {Left(r) : r \in Running} /\ Hand' = UNION {Left(r) : r \in Running}'
    BY DEF Hand
  <1>1. ASSUME NEW r \in Requests, NEW w \in Workers, WorkerNext(r, w)
        PROVE  [Job!Next]_(Job!vars)
    <2>1. CASE UNCHANGED <<loading, Hand, rows, entries, faults>>
      BY <1>h, <2>1
    <2>2. ASSUME NEW S \in SUBSET Hand, S # {}, Cardinality(S) <= BatchSize, Hand' = Hand \ S,
                 \/ (S \subseteq Unsupported \/ ~ S \subseteq entries) /\ UNCHANGED faults
                 \/ Fault,
                 UNCHANGED <<loading, rows, entries>>
          PROVE  Job!GiveUp(S)
      BY <1>h, <2>2, SameCardinality DEF Job!GiveUp, Job!Fault, Fault
    <2>3. TypeOK'
      BY DEF PoolInv
    <2>4. QED
      BY <1>1, <1>h, <2>1, <2>2, <2>3, WorkerRefines
  <1>2. ASSUME NEW r \in Requests, PoolNext(r)
        PROVE  [Job!Next]_(Job!vars)
    <2>1. CASE UNCHANGED <<loading, Hand, rows, entries, faults>>
      BY <1>h, <2>1
    <2>2. CASE /\ batch[r] \in SUBSET Hand /\ batch[r] # {}
               /\ Cardinality(batch[r]) <= BatchSize
               /\ Hand' = Hand \ batch[r]
               /\ UNCHANGED <<loading, entries>>
               /\ SaveThumbnails(r) \/ SaveFails(r)
      <3>1. CASE SaveThumbnails(r)
        <4>1. Job!Save(batch[r])
          BY <1>h, <2>2, <3>1, SameCardinality DEF Job!Save, SaveThumbnails, Acceptable
        <4>2. QED
          BY <1>h, <2>2, <4>1
      <3>2. CASE SaveFails(r)
        <4>1. Job!GiveUp(batch[r])
          BY <1>h, <2>2, <3>2, SameCardinality
             DEF Job!GiveUp, Job!Fault, Fault, SaveFails, Acceptable
        <4>2. QED
          BY <1>h, <2>2, <4>1
      <3>3. QED
        BY <2>2, <3>1, <3>2
    <2>3. QED
      BY <1>2, <2>1, <2>2, PoolRefines
  <1>3. ASSUME NEW r \in Requests, RequestNext(r)
        PROVE  [Job!Next]_(Job!vars)
    <2>1. CASE UNCHANGED <<loading, Hand, rows, entries, faults>>
      BY <1>h, <2>1
    <2>2. CASE ~loading /\ loading' /\ Hand' \in SUBSET Files /\ UNCHANGED <<rows, entries, faults>>
      BY <1>h, <2>2 DEF Job!Begin
    <2>3. CASE loading /\ ~loading' /\ Hand = {} /\ Hand' = {} /\ UNCHANGED <<rows, entries, faults>>
      BY <1>h, <2>3 DEF Job!End
    <2>4. QED
      BY <1>3, <2>1, <2>2, <2>3, RequestRefines
  <1>4. CASE Crash
    <2>1. Running' = {}
      BY <1>4 DEF Crash, Running
    <2>2. Hand' = {}
      BY <2>1 DEF Hand
    <2>3. Job!Crash
      BY <1>h, <1>4, <2>2 DEF Job!Crash, Job!Fault, Fault, Crash
    <2>4. QED
      BY <2>3
  <1>5. ASSUME NEW f \in Removable, DeleteThumbnail(f) \/ DeleteEntry(f)
        PROVE  [Job!Next]_(Job!vars)
    <2>1. Hand' = Hand
      BY <1>5 DEF DeleteThumbnail, DeleteEntry, Hand, Running, Left, InWorkers
    <2>2. Job!Remove(f)
      BY <1>h, <1>5, <2>1 DEF DeleteThumbnail, DeleteEntry, Job!Remove
    <2>3. QED
      BY <2>2, ThumbAssumption
  <1>6. CASE UNCHANGED vars
    <2>1. Hand' = Hand
      BY <1>6 DEF vars, Hand, Running, Left, InWorkers
    <2>2. QED
      BY <1>h, <1>6, <2>1 DEF vars
  <1>7. QED
    BY <1>1, <1>2, <1>3, <1>4, <1>5, <1>6 DEF Next, Idle

(***************************************************************************)
(* The pool of goroutines implements the job: of one album one at a time,  *)
(* every file saved once or given up for a reason, none forgotten.         *)
(***************************************************************************)
THEOREM PoolImplementsJob == Spec => ImplementsJob
  <1>1. Init => Job!Init
    <2> SUFFICES ASSUME Init PROVE Job!Init
      OBVIOUS
    <2>1. Running = {}
      BY DEF Init, Running
    <2>2. QED
      BY <2>1 DEF Init, Job!Init
  <1>2. PoolInv /\ PoolInv' /\ [Next]_vars => [Job!Next]_(Job!vars)
    BY JobStep
  <1>3. QED
    BY <1>1, <1>2, PoolInvariant, PTL DEF Spec, ImplementsJob, Job!Spec
=============================================================================
