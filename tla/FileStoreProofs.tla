-------------------------- MODULE FileStoreProofs --------------------------
(***************************************************************************)
(* Theorems about FileStore, for any number of uploads, clients, nodes,    *)
(* buckets and faults.                                                     *)
(***************************************************************************)
EXTENDS FileStore, TLAPS

USE DEF store, upload, job, request, cleaner, history

\* A call of processDelete starts a job on the tokens it is given, or leaves all jobs alone.
LEMMA StartDeleteShape ==
  ASSUME NEW o \in Owners, NEW T, StartDelete(o, T)
  PROVE  \/ UNCHANGED job
         \/ \E E \in CachedEntries(T) :
              /\ jpc' = [jpc EXCEPT ![o] = "unlink"]
              /\ jtok' = [jtok EXCEPT ![o] = T]
              /\ jfile' = [jfile EXCEPT ![o] = E]
  BY DEF StartDelete

LEMMA StartDeleteType ==
  ASSUME TypeOK, NEW o \in Owners, NEW T \in SUBSET Uploads, StartDelete(o, T)
  PROVE  /\ jpc' \in [Owners -> JobPC]
         /\ jtok' \in [Owners -> SUBSET Uploads]
         /\ jfile' \in [Owners -> SUBSET Uploads]
  <1>1. CASE UNCHANGED job
    BY <1>1 DEF TypeOK
  <1>2. ASSUME NEW E \in CachedEntries(T),
               /\ jpc' = [jpc EXCEPT ![o] = "unlink"]
               /\ jtok' = [jtok EXCEPT ![o] = T]
               /\ jfile' = [jfile EXCEPT ![o] = E]
        PROVE  /\ jpc' \in [Owners -> JobPC]
               /\ jtok' \in [Owners -> SUBSET Uploads]
               /\ jfile' \in [Owners -> SUBSET Uploads]
    <2>1. E \in SUBSET Uploads
      BY DEF CachedEntries
    <2>2. "unlink" \in JobPC
      BY DEF JobPC
    <2>3. /\ jpc \in [Owners -> JobPC]
          /\ jtok \in [Owners -> SUBSET Uploads]
          /\ jfile \in [Owners -> SUBSET Uploads]
      BY DEF TypeOK
    <2>4. QED
      BY <1>2, <2>1, <2>2, <2>3
  <1>3. QED
    BY <1>1, <1>2, StartDeleteShape

LEMMA EndJobType ==
  ASSUME TypeOK, NEW o \in Owners, EndJob(o)
  PROVE  /\ jpc' \in [Owners -> JobPC]
         /\ jtok' \in [Owners -> SUBSET Uploads]
         /\ jfile' \in [Owners -> SUBSET Uploads]
  BY DEF EndJob, TypeOK, JobPC

LEMMA FaultCounted ==
  ASSUME TypeOK, faults < MaxFaults, faults' = faults + 1
  PROVE  faults' \in 0..MaxFaults
  BY KindsAssumption DEF TypeOK

LEMMA InitType == Init => TypeOK
  BY KindsAssumption DEF Init, TypeOK, UploadPC, RequestPC, NodePC, JobPC, Saved

LEMMA UploadType ==
  ASSUME TypeOK, NEW u \in Uploads, UploadNext(u)
  PROVE  TypeOK'
  <1> USE DEF TypeOK, UploadStep, UploadPC, Saved
  <1>1. CASE Receive(u)
    BY <1>1 DEF Receive
  <1>2. CASE HashFails(u)
    BY <1>2 DEF HashFails
  <1>3. CASE HandleExistingFileModel(u)
    <2>0. UploadStep(u, "received", "fresh") \/ UploadStep(u, "received", "exists")
      BY <1>3 DEF HandleExistingFileModel
    <2>1. /\ upc[u] = "received" /\ upc'[u] \in {"fresh", "exists"}
          /\ upc' \in [Uploads -> UploadPC] /\ \A v \in Uploads \ {u} : upc'[v] = upc[v]
          /\ UNCHANGED id
      BY <1>3, <2>0 DEF HandleExistingFileModel
    <2>2. \A v \in Uploads : v \in Saved' <=> upc'[v] = "stored"
      BY <2>1
    <2>3. found' \in [Uploads -> Uploads]
      BY <1>3 DEF HandleExistingFileModel, SameKey
    <2>4. QED
      BY <1>3, <2>1, <2>2, <2>3 DEF HandleExistingFileModel
  <1>4. CASE ReturnExisting(u)
    BY <1>4 DEF ReturnExisting
  <1>5. CASE PurgeExpired(u)
    <2>1. /\ upc[u] = "exists" /\ upc'[u] = "purging"
          /\ upc' \in [Uploads -> UploadPC] /\ \A v \in Uploads \ {u} : upc'[v] = upc[v]
          /\ UNCHANGED id
      BY <1>5 DEF PurgeExpired
    <2>2. \A v \in Uploads : v \in Saved' <=> upc'[v] = "stored"
      BY <2>1
    <2>3. /\ jpc' \in [Owners -> JobPC]
          /\ jtok' \in [Owners -> SUBSET Uploads] /\ jfile' \in [Owners -> SUBSET Uploads]
      BY <1>5, StartDeleteType DEF PurgeExpired, Owners
    <2>4. QED
      BY <1>5, <2>1, <2>2, <2>3 DEF PurgeExpired
  <1>6. CASE Purged(u)
    BY <1>6 DEF Purged
  <1>7. CASE FilterPasses(u)
    BY <1>7 DEF FilterPasses
  <1>8. CASE FilterRejects(u)
    BY <1>8 DEF FilterRejects
  <1>9. CASE GetFileSize(u)
    BY <1>9 DEF GetFileSize
  <1>10. CASE BucketExists(u)
    BY <1>10 DEF BucketExists
  <1>11. CASE EncryptRead(u)
    BY <1>11 DEF EncryptRead
  <1>12. CASE EncryptWrite(u)
    BY <1>12 DEF EncryptWrite
  <1>13. CASE SaveEntry(u)
    BY <1>13 DEF SaveEntry, ReadyToSave, NextKey
  <1>14. CASE SaveEntryRefused(u)
    BY <1>14 DEF SaveEntryRefused, ReadyToSave
  <1>15. CASE UploadCrash(u)
    BY <1>15, EndJobType, FaultCounted DEF UploadCrash, Owners, Finished
  <1>16. CASE Expire(u)
    BY <1>16 DEF Expire
  <1>17. QED
    BY <1>1, <1>2, <1>3, <1>4, <1>5, <1>6, <1>7, <1>8, <1>9, <1>10, <1>11, <1>12, <1>13,
       <1>14, <1>15, <1>16 DEF UploadNext

LEMMA RequestType ==
  ASSUME TypeOK, NEW r \in Requests, RequestNext(r)
  PROVE  TypeOK'
  <1> USE DEF TypeOK, RequestStep, RequestPC, Saved, InBucket, BucketFiles
  <1>1. ASSUME NEW u \in Uploads, DeleteEntry(r, u) PROVE TypeOK'
    BY <1>1, StartDeleteType DEF DeleteEntry, Owners
  <1>2. ASSUME NEW u \in Uploads, GetFileInfo(r, u) PROVE TypeOK'
    BY <1>2, StartDeleteType DEF GetFileInfo, Owners
  <1>3. ASSUME NEW u \in Uploads, GetEntry(r, u) PROVE TypeOK'
    BY <1>3 DEF GetEntry
  <1>4. CASE GetEntryGone(r)
    BY <1>4, StartDeleteType DEF GetEntryGone, Owners
  <1>5. CASE GetEntryServe(r)
    BY <1>5 DEF GetEntryServe
  <1>6. CASE PostProcess(r)
    BY <1>6, StartDeleteType DEF PostProcess, Owners
  <1>7. CASE ServeAborted(r)
    BY <1>7 DEF ServeAborted
  <1>8. ASSUME NEW b \in Buckets, DeleteBucket(r, b) PROVE TypeOK'
    BY <1>8 DEF DeleteBucket
  <1>9. ASSUME NEW b \in Buckets, DeleteBucketTx(r, b) PROVE TypeOK'
    BY <1>9 DEF DeleteBucketTx
  <1>10. CASE DeleteBucketFiles(r)
    BY <1>10 DEF DeleteBucketFiles
  <1>11. CASE RequestCrash(r)
    BY <1>11, EndJobType, FaultCounted DEF RequestCrash, Owners
  <1>12. QED
    BY <1>1, <1>2, <1>3, <1>4, <1>5, <1>6, <1>7, <1>8, <1>9, <1>10, <1>11 DEF RequestNext

LEMMA NodeType ==
  ASSUME TypeOK, NEW n \in Nodes, NodeNext(n)
  PROVE  TypeOK'
  <1> USE DEF TypeOK, NodeStep, NodePC, Saved
  <1>1. CASE ProcessFiles(n)
    BY <1>1, StartDeleteType DEF ProcessFiles, Owners
  <1>2. CASE SyncRows(n)
    BY <1>2 DEF SyncRows
  <1>3. CASE SyncFiles(n)
    BY <1>3, StartDeleteType DEF SyncFiles, Owners, Unknown, Orphaned
  <1>4. CASE SyncDone(n)
    BY <1>4 DEF SyncDone
  <1>5. ASSUME NEW f \in Uploads, SyncMove(n, f) PROVE TypeOK'
    BY <1>5, KindsAssumption DEF SyncMove
  <1>6. CASE RemoveDuplicates(n)
    BY <1>6 DEF RemoveDuplicates, DuplicateGroups
  <1>7. ASSUME NEW k \in Keys, FindDuplicates(n, k) PROVE TypeOK'
    BY <1>7 DEF FindDuplicates, Duplicates, SameKey
  <1>8. CASE DropDuplicates(n)
    BY <1>8 DEF DropDuplicates
  <1>9. CASE DuplicatesDone(n)
    BY <1>9 DEF DuplicatesDone
  <1>10. CASE NodeCrash(n)
    BY <1>10, EndJobType, FaultCounted DEF NodeCrash, Owners
  <1>11. QED
    BY <1>1, <1>2, <1>3, <1>4, <1>5, <1>6, <1>7, <1>8, <1>9, <1>10 DEF NodeNext

LEMMA JobType ==
  ASSUME TypeOK, NEW o \in Owners, JobNext(o)
  PROVE  TypeOK'
  <1> USE DEF TypeOK, JobPC, Saved
  <1>1. CASE DeleteFilesFromDisk(o)
    BY <1>1 DEF DeleteFilesFromDisk
  <1>2. CASE DeleteFilesFails(o)
    BY <1>2, FaultCounted DEF DeleteFilesFails
  <1>3. CASE DeleteEntries(o)
    BY <1>3, EndJobType DEF DeleteEntries
  <1>4. CASE DeleteEntriesFails(o)
    BY <1>4, EndJobType, FaultCounted DEF DeleteEntriesFails
  <1>5. QED
    BY <1>1, <1>2, <1>3, <1>4 DEF JobNext

LEMMA StutterType ==
  ASSUME TypeOK, UNCHANGED vars
  PROVE  TypeOK'
  BY DEF TypeOK, vars, Saved

LEMMA NextType ==
  ASSUME TypeOK, [Next]_vars
  PROVE  TypeOK'
  BY UploadType, RequestType, NodeType, JobType, StutterType DEF Next

\* Every variable keeps its type, every row has a primary key of its own, and only an
\* upload that was answered has one.
THEOREM TypeCorrect == Spec => []TypeOK
  <1>1. Init => TypeOK
    BY InitType
  <1>2. TypeOK /\ [Next]_vars => TypeOK'
    BY NextType
  <1>3. QED
    BY <1>1, <1>2, PTL DEF Spec

\* A call of processDelete on entries that may go keeps the jobs in order, and touches
\* no other owner's job.
LEMMA StartDeleteExcused ==
  ASSUME TypeOK, JobsExcused, NEW o \in Owners, NEW T, StartDelete(o, T),
         T \subseteq Saved \cap Excused', Saved' = Saved, Excused \subseteq Excused'
  PROVE  /\ JobsExcused'
         /\ \A p \in Owners \ {o} : jtok'[p] = jtok[p]
         /\ jtok'[o] = jtok[o] \/ jtok'[o] = T
  <1>1. CASE UNCHANGED job
    BY <1>1 DEF JobsExcused
  <1>2. ASSUME NEW E \in CachedEntries(T),
               jpc' = [jpc EXCEPT ![o] = "unlink"],
               jtok' = [jtok EXCEPT ![o] = T],
               jfile' = [jfile EXCEPT ![o] = E]
        PROVE  /\ JobsExcused'
               /\ \A p \in Owners \ {o} : jtok'[p] = jtok[p]
               /\ jtok'[o] = T
    BY <1>2 DEF TypeOK, JobsExcused, CachedEntries
  <1>3. QED
    BY <1>1, <1>2, StartDeleteShape


\* What sync holds stays true while it stands still and its own job, if any, does too.
LEMMA SyncUndisturbed ==
  ASSUME SyncAccounts, SyncPurgesDeadRows, UNCHANGED <<npc, snap, doomed, unborn>>,
         \A n \in Nodes : jtok'[n] = jtok[n],
         Saved' = Saved, Excused \subseteq Excused', disk' \subseteq disk
  PROVE  SyncAccounts' /\ SyncPurgesDeadRows'
  BY DEF SyncAccounts, SyncPurgesDeadRows

LEMMA UploadInv ==
  ASSUME StoreInv, TypeOK', NEW u \in Uploads, UploadNext(u)
  PROVE  StoreInv'
  <1> USE DEF StoreInv, TypeOK, Accounted, FoundKnown, JobsExcused, TargetsKnown, SyncAccounts,
      UnsavedHeld, SyncPurgesDeadRows, Saved, Excused, Owners
  <1>1. CASE Receive(u)
    BY <1>1 DEF Receive, UploadStep
  <1>2. CASE HashFails(u)
    BY <1>2 DEF HashFails, UploadStep
  <1>3. CASE HandleExistingFileModel(u)
    BY <1>3 DEF HandleExistingFileModel, UploadStep, SameKey
  <1>4. CASE ReturnExisting(u)
    BY <1>4 DEF ReturnExisting, UploadStep
  <1>5. CASE PurgeExpired(u)
    <2>1. Saved' = Saved /\ Excused \subseteq Excused' /\ {found[u]} \subseteq Saved \cap Excused'
      BY <1>5 DEF PurgeExpired, UploadStep
    <2>2. JobsExcused' /\ \A p \in Owners \ {u} : jtok'[p] = jtok[p]
      BY <1>5, <2>1, StartDeleteExcused DEF PurgeExpired
    <2>3. Accounted' /\ FoundKnown' /\ UnsavedHeld'
      BY <1>5, <2>1 DEF PurgeExpired, UploadStep
    <2>4. TargetsKnown'
      BY <1>5, <2>1 DEF PurgeExpired, UploadStep
    <2>5. SyncAccounts' /\ SyncPurgesDeadRows'
      <3>1. \A n \in Nodes : jtok'[n] = jtok[n]
        BY <2>2, ActorsAssumption
      <3>2. UNCHANGED <<npc, snap, doomed, unborn>> /\ disk' \subseteq disk
        BY <1>5 DEF PurgeExpired
      <3>3. QED
        BY <2>1, <3>1, <3>2, SyncUndisturbed
    <2>6. QED
      BY <2>2, <2>3, <2>4, <2>5 DEF StoreInv
  <1>6. CASE Purged(u)
    BY <1>6 DEF Purged, UploadStep
  <1>7. CASE FilterPasses(u)
    BY <1>7 DEF FilterPasses, UploadStep
  <1>8. CASE FilterRejects(u)
    BY <1>8 DEF FilterRejects, UploadStep
  <1>9. CASE GetFileSize(u)
    BY <1>9 DEF GetFileSize, UploadStep, StatSucceeds
  <1>10. CASE BucketExists(u)
    BY <1>10 DEF BucketExists, UploadStep
  <1>11. CASE EncryptRead(u)
    BY <1>11 DEF EncryptRead, UploadStep
  <1>12. CASE EncryptWrite(u)
    BY <1>12 DEF EncryptWrite, UploadStep
  <1>13. CASE SaveEntry(u)
    BY <1>13 DEF SaveEntry, ReadyToSave, NextKey
  <1>14. CASE SaveEntryRefused(u)
    BY <1>14 DEF SaveEntryRefused, ReadyToSave
  <1>15. CASE UploadCrash(u)
    BY <1>15 DEF UploadCrash, EndJob, Finished
  <1>16. CASE Expire(u)
    BY <1>16 DEF Expire
  <1>17. QED
    BY <1>1, <1>2, <1>3, <1>4, <1>5, <1>6, <1>7, <1>8, <1>9, <1>10, <1>11, <1>12, <1>13, <1>14, <1>15, <1>16 DEF UploadNext


LEMMA RequestInv ==
  ASSUME StoreInv, TypeOK', NEW r \in Requests, RequestNext(r)
  PROVE  StoreInv'
  <1> USE DEF StoreInv, TypeOK, Accounted, FoundKnown, JobsExcused, TargetsKnown, SyncAccounts,
      UnsavedHeld, SyncPurgesDeadRows, Saved, Excused, Owners
  <1>1. ASSUME NEW u \in Uploads, DeleteEntry(r, u) PROVE StoreInv'
    <2>1. Saved' = Saved /\ Excused \subseteq Excused' /\ {u} \subseteq Saved \cap Excused'
      BY <1>1 DEF DeleteEntry
    <2>2. JobsExcused' /\ \A p \in Owners \ {r} : jtok'[p] = jtok[p]
      BY <1>1, <2>1, StartDeleteExcused DEF DeleteEntry
    <2>3. Accounted' /\ FoundKnown' /\ UnsavedHeld'
      BY <1>1, <2>1 DEF DeleteEntry
    <2>4. TargetsKnown'
      BY <1>1, <2>1 DEF DeleteEntry
    <2>5. SyncAccounts' /\ SyncPurgesDeadRows'
      <3>1. \A n \in Nodes : jtok'[n] = jtok[n]
        BY <2>2, ActorsAssumption
      <3>2. UNCHANGED <<npc, snap, doomed, unborn>> /\ disk' \subseteq disk
        BY <1>1 DEF DeleteEntry
      <3>3. QED
        BY <2>1, <3>1, <3>2, SyncUndisturbed
    <2>6. QED
      BY <2>2, <2>3, <2>4, <2>5 DEF StoreInv
  <1>2. ASSUME NEW u \in Uploads, GetFileInfo(r, u) PROVE StoreInv'
    <2>1. Saved' = Saved /\ Excused \subseteq Excused' /\ {u} \subseteq Saved \cap Excused'
      BY <1>2 DEF GetFileInfo
    <2>2. JobsExcused' /\ \A p \in Owners \ {r} : jtok'[p] = jtok[p]
      BY <1>2, <2>1, StartDeleteExcused DEF GetFileInfo
    <2>3. Accounted' /\ FoundKnown' /\ UnsavedHeld'
      BY <1>2, <2>1 DEF GetFileInfo
    <2>4. TargetsKnown'
      BY <1>2, <2>1 DEF GetFileInfo
    <2>5. SyncAccounts' /\ SyncPurgesDeadRows'
      <3>1. \A n \in Nodes : jtok'[n] = jtok[n]
        BY <2>2, ActorsAssumption
      <3>2. UNCHANGED <<npc, snap, doomed, unborn>> /\ disk' \subseteq disk
        BY <1>2 DEF GetFileInfo
      <3>3. QED
        BY <2>1, <3>1, <3>2, SyncUndisturbed
    <2>6. QED
      BY <2>2, <2>3, <2>4, <2>5 DEF StoreInv
  <1>3. ASSUME NEW u \in Uploads, GetEntry(r, u) PROVE StoreInv'
    BY <1>3 DEF GetEntry, RequestStep
  <1>4. CASE GetEntryGone(r)
    <2>1. Saved' = Saved /\ Excused \subseteq Excused' /\ tgt[r] \subseteq Saved \cap Excused'
      BY <1>4 DEF GetEntryGone, RequestStep
    <2>2. JobsExcused' /\ \A p \in Owners \ {r} : jtok'[p] = jtok[p]
      BY <1>4, <2>1, StartDeleteExcused DEF GetEntryGone
    <2>3. Accounted' /\ FoundKnown' /\ UnsavedHeld'
      BY <1>4, <2>1 DEF GetEntryGone, RequestStep
    <2>4. TargetsKnown'
      BY <1>4, <2>1 DEF GetEntryGone, RequestStep
    <2>5. SyncAccounts' /\ SyncPurgesDeadRows'
      <3>1. \A n \in Nodes : jtok'[n] = jtok[n]
        BY <2>2, ActorsAssumption
      <3>2. UNCHANGED <<npc, snap, doomed, unborn>> /\ disk' \subseteq disk
        BY <1>4 DEF GetEntryGone
      <3>3. QED
        BY <2>1, <3>1, <3>2, SyncUndisturbed
    <2>6. QED
      BY <2>2, <2>3, <2>4, <2>5 DEF StoreInv
  <1>5. CASE GetEntryServe(r)
    BY <1>5 DEF GetEntryServe, RequestStep
  <1>6. CASE PostProcess(r)
    <2>1. Saved' = Saved /\ Excused \subseteq Excused' /\ (tgt[r] \cap OneTime) \subseteq Saved \cap Excused'
      BY <1>6 DEF PostProcess, RequestStep
    <2>2. JobsExcused' /\ \A p \in Owners \ {r} : jtok'[p] = jtok[p]
      <3>1. CASE tgt[r] \cap OneTime = {}
        BY <1>6, <2>1, <3>1 DEF PostProcess
      <3>2. CASE tgt[r] \cap OneTime # {}
        BY <1>6, <2>1, <3>2, StartDeleteExcused DEF PostProcess
      <3>3. QED
        BY <3>1, <3>2
    <2>3. Accounted' /\ FoundKnown' /\ UnsavedHeld'
      BY <1>6, <2>1 DEF PostProcess, RequestStep
    <2>4. TargetsKnown'
      BY <1>6, <2>1 DEF PostProcess, RequestStep
    <2>5. SyncAccounts' /\ SyncPurgesDeadRows'
      <3>1. \A n \in Nodes : jtok'[n] = jtok[n]
        BY <2>2, ActorsAssumption
      <3>2. UNCHANGED <<npc, snap, doomed, unborn>> /\ disk' \subseteq disk
        BY <1>6 DEF PostProcess
      <3>3. QED
        BY <2>1, <3>1, <3>2, SyncUndisturbed
    <2>6. QED
      BY <2>2, <2>3, <2>4, <2>5 DEF StoreInv
  <1>7. CASE ServeAborted(r)
    BY <1>7 DEF ServeAborted, RequestStep
  <1>8. ASSUME NEW b \in Buckets, DeleteBucket(r, b) PROVE StoreInv'
    BY <1>8 DEF DeleteBucket, RequestStep, BucketFiles, InBucket
  <1>9. ASSUME NEW b \in Buckets, DeleteBucketTx(r, b) PROVE StoreInv'
    BY <1>9 DEF DeleteBucketTx, RequestStep, InBucket
  <1>10. CASE DeleteBucketFiles(r)
    BY <1>10 DEF DeleteBucketFiles, RequestStep
  <1>11. CASE RequestCrash(r)
    BY <1>11 DEF RequestCrash, EndJob
  <1>12. QED
    BY <1>1, <1>2, <1>3, <1>4, <1>5, <1>6, <1>7, <1>8, <1>9, <1>10, <1>11 DEF RequestNext


LEMMA NodeInv ==
  ASSUME StoreInv, TypeOK', NEW n \in Nodes, NodeNext(n)
  PROVE  StoreInv'
  <1> USE DEF StoreInv, TypeOK, Accounted, FoundKnown, JobsExcused, TargetsKnown, SyncAccounts,
      UnsavedHeld, SyncPurgesDeadRows, Saved, Excused, Owners
  <1>1. CASE ProcessFiles(n)
    <2>1. Saved' = Saved /\ Excused \subseteq Excused' /\ (rows \cap expired) \subseteq Saved \cap Excused'
      BY <1>1 DEF ProcessFiles, NodeStep
    <2>2. JobsExcused' /\ \A p \in Owners \ {n} : jtok'[p] = jtok[p]
      BY <1>1, <2>1, StartDeleteExcused DEF ProcessFiles
    <2>3. Accounted' /\ FoundKnown' /\ UnsavedHeld'
      BY <1>1, <2>1 DEF ProcessFiles, NodeStep
    <2>4. TargetsKnown'
      BY <1>1, <2>1 DEF ProcessFiles, NodeStep
    <2>5. SyncAccounts' /\ SyncPurgesDeadRows'
      BY <1>1, <2>1, <2>2, ActorsAssumption DEF ProcessFiles, NodeStep
    <2>6. QED
      BY <2>2, <2>3, <2>4, <2>5 DEF StoreInv
  <1>2. CASE SyncRows(n)
    <2>1. Saved' = Saved /\ Excused' = Excused /\ UNCHANGED <<disk, rows, upc, found, caught, jtok>>
      BY <1>2 DEF SyncRows
    <2>2. Accounted' /\ FoundKnown' /\ JobsExcused' /\ TargetsKnown' /\ UnsavedHeld'
      BY <1>2, <2>1 DEF SyncRows
    <2>3. jtok[n] = {} /\ Uploads \subseteq rows \cup (Uploads \ Saved) \cup (Excused \cap Saved)
      BY <1>2 DEF SyncRows
    <2>4. SyncAccounts' /\ SyncPurgesDeadRows'
      <3>1. /\ npc' = [npc EXCEPT ![n] = "list"] /\ snap' = [snap EXCEPT ![n] = rows]
            /\ unborn' = [unborn EXCEPT ![n] = Uploads \ Saved] /\ doomed' = doomed
        BY <1>2 DEF SyncRows, NodeStep
      <3>2. doomed[n] = {}
        BY <1>2 DEF SyncRows, NodeStep
      <3>3. SyncPurgesDeadRows'
        BY <2>1, <3>1
      <3>4. SyncAccounts'
        BY <2>1, <2>3, <3>1, <3>2
      <3>5. QED
        BY <3>3, <3>4
    <2>5. QED
      BY <2>2, <2>4
  <1>3. CASE SyncFiles(n)
    <2>1. Saved' = Saved /\ Excused \subseteq Excused' /\ Orphaned(n) \subseteq Saved \cap Excused'
      BY <1>3 DEF SyncFiles, NodeStep, Unknown, Orphaned
    <2>2. JobsExcused' /\ \A p \in Owners \ {n} : jtok'[p] = jtok[p]
      BY <1>3, <2>1, StartDeleteExcused DEF SyncFiles
    <2>3. Accounted' /\ FoundKnown' /\ UnsavedHeld'
      BY <1>3, <2>1 DEF SyncFiles, NodeStep, Unknown, Orphaned
    <2>4. TargetsKnown'
      BY <1>3, <2>1 DEF SyncFiles, NodeStep, Unknown, Orphaned
    <2>5. SyncAccounts' /\ SyncPurgesDeadRows'
      <3>1. UNCHANGED <<disk, unborn>> /\ npc[n] = "list" /\ npc' = [npc EXCEPT ![n] = "sweep"]
        BY <1>3 DEF SyncFiles, NodeStep
      <3>2. snap' = [snap EXCEPT ![n] = {}] /\ doomed' = [doomed EXCEPT ![n] = disk \ snap[n]]
        BY <1>3 DEF SyncFiles, Unknown
      <3>3. jtok'[n] = {} \/ jtok'[n] = snap[n] \ disk
        <4>1. jtok'[n] = jtok[n] \/ jtok'[n] = Orphaned(n)
          BY <1>3, <2>1, StartDeleteExcused DEF SyncFiles
        <4>2. QED
          BY <3>1, <4>1 DEF Orphaned
      <3>4. SyncAccounts'
        BY <2>1, <2>2, <3>1, <3>2
      <3>5. SyncPurgesDeadRows'
        BY <2>2, <3>1, <3>3
      <3>6. QED
        BY <3>4, <3>5
    <2>6. QED
      BY <2>2, <2>3, <2>4, <2>5 DEF StoreInv
  <1>4. CASE SyncDone(n)
    BY <1>4 DEF SyncDone, NodeStep
  <1>5. ASSUME NEW f \in Uploads, SyncMove(n, f) PROVE StoreInv'
    BY <1>5 DEF SyncMove
  <1>6. CASE RemoveDuplicates(n)
    BY <1>6 DEF RemoveDuplicates
  <1>7. ASSUME NEW k \in Keys, FindDuplicates(n, k) PROVE StoreInv'
    BY <1>7 DEF FindDuplicates, NodeStep
  <1>8. CASE DropDuplicates(n)
    BY <1>8 DEF DropDuplicates, NodeStep
  <1>9. CASE DuplicatesDone(n)
    BY <1>9 DEF DuplicatesDone, NodeStep
  <1>10. CASE NodeCrash(n)
    BY <1>10 DEF NodeCrash, EndJob
  <1>11. QED
    BY <1>1, <1>2, <1>3, <1>4, <1>5, <1>6, <1>7, <1>8, <1>9, <1>10 DEF NodeNext


LEMMA JobInv ==
  ASSUME StoreInv, TypeOK', NEW o \in Owners, JobNext(o)
  PROVE  StoreInv'
  <1> USE DEF StoreInv, TypeOK, Accounted, FoundKnown, JobsExcused, TargetsKnown, SyncAccounts,
      UnsavedHeld, SyncPurgesDeadRows, Saved, Excused, Owners
  <1>1. CASE DeleteFilesFromDisk(o)
    BY <1>1 DEF DeleteFilesFromDisk
  <1>2. CASE DeleteFilesFails(o)
    BY <1>2 DEF DeleteFilesFails
  <1>3. CASE DeleteEntries(o)
    BY <1>3 DEF DeleteEntries, EndJob
  <1>4. CASE DeleteEntriesFails(o)
    BY <1>4 DEF DeleteEntriesFails, EndJob
  <1>5. QED
    BY <1>1, <1>2, <1>3, <1>4 DEF JobNext


LEMMA InitInv == Init => StoreInv
  BY InitType DEF Init, StoreInv, Accounted, FoundKnown, JobsExcused, TargetsKnown, SyncAccounts,
     UnsavedHeld, SyncPurgesDeadRows, Saved, Owners

LEMMA StutterInv ==
  ASSUME StoreInv, UNCHANGED vars
  PROVE  StoreInv'
  BY DEF vars, StoreInv, TypeOK, Accounted, FoundKnown, JobsExcused, TargetsKnown, SyncAccounts,
     UnsavedHeld, SyncPurgesDeadRows, Saved, Excused

\* Every row ever inserted is intact or excused, whatever the actors hold in their hands
\* (processUpload, processDelete, FileCleaner).
THEOREM StoreInvariant == Spec => []StoreInv
  <1>1. StoreInv /\ [Next]_vars => StoreInv'
    <2> SUFFICES ASSUME StoreInv, [Next]_vars PROVE StoreInv'
      OBVIOUS
    <2>1. TypeOK'
      BY NextType DEF StoreInv
    <2>2. QED
      BY <2>1, UploadInv, RequestInv, NodeInv, JobInv, StutterInv DEF Next
  <1>2. QED
    BY <1>1, InitInv, PTL DEF Spec

\* Nothing but a request to delete, expiry, duplicate removal and the race of sync with an
\* unfinished upload takes an entry away that an upload was answered with.
THEOREM NothingElseIsLost == Spec => []NoOtherLoss
  <1>1. StoreInv => NoOtherLoss
    BY DEF StoreInv, TypeOK, Accounted, FoundKnown, NoOtherLoss, Answer, Saved
  <1>2. QED
    BY <1>1, StoreInvariant, PTL

\* sync deletes no row whose file exists.
THEOREM PurgedRowsAreDead == Spec => []SyncPurgesDeadRows
  <1>1. StoreInv => SyncPurgesDeadRows
    BY DEF StoreInv
  <1>2. QED
    BY <1>1, StoreInvariant, PTL

\* An action that keeps the keys, the victims and what was superseded keeps the order.
LEMMA OrderUndisturbed ==
  ASSUME HasFirst, VictimsLater, UNCHANGED <<id, victims, superseded>>
  PROVE  HasFirst' /\ VictimsLater'
  BY DEF HasFirst, VictimsLater, Later, Saved

\* A new row gets a primary key above all the others: it becomes the first of its key only
\* if it is alone.
LEMMA SaveKeepsOrder ==
  ASSUME DuplicatesInv, TypeOK', NEW u \in Uploads, SaveEntry(u)
  PROVE  HasFirst' /\ VictimsLater'
  <1> USE DEF DuplicatesInv, TypeOK, Saved
  <1>1. /\ u \notin Saved /\ nextId \in Nat \ {0}
        /\ Saved' = Saved \cup {u} /\ id'[u] = nextId
        /\ \A v \in Saved : id'[v] = id[v] /\ id[v] < id'[u]
        /\ \A v \in Saved' : id'[v] \in Nat
    BY DEF SaveEntry, ReadyToSave
  <1>2. HasFirst'
    <2> SUFFICES ASSUME NEW a \in Saved'
                 PROVE  \E v \in Saved' : /\ KeyOf[v] = KeyOf[a]
                                         /\ \A w \in Saved' : KeyOf[w] = KeyOf[a] => id'[v] <= id'[w]
      BY DEF HasFirst
    <2>1. CASE \E b \in Saved : KeyOf[b] = KeyOf[a]
      <3>1. PICK b \in Saved : KeyOf[b] = KeyOf[a]
        BY <2>1
      <3>2. PICK v \in Saved : /\ KeyOf[v] = KeyOf[b]
                              /\ \A w \in Saved : KeyOf[w] = KeyOf[b] => id[v] <= id[w]
        BY <3>1 DEF HasFirst
      <3>3. \A w \in Saved' : KeyOf[w] = KeyOf[a] => id'[v] <= id'[w]
        BY <1>1, <3>1, <3>2
      <3>4. QED
        BY <1>1, <3>1, <3>2, <3>3
    <2>2. CASE ~ \E b \in Saved : KeyOf[b] = KeyOf[a]
      <3>1. a = u /\ a \in Saved'
        BY <1>1, <2>2
      <3>2. \A w \in Saved' : KeyOf[w] = KeyOf[a] => w = a
        BY <1>1, <2>2, <3>1
      <3>3. \A w \in Saved' : KeyOf[w] = KeyOf[a] => id'[a] <= id'[w]
        BY <1>1, <3>2
      <3>4. QED
        BY <3>1, <3>3
    <2>3. QED
      BY <2>1, <2>2
  <1>3. VictimsLater'
    <2>1. \A v \in Saved : Later(v) => Later(v)'
      BY <1>1 DEF Later
    <2>2. UNCHANGED <<victims, superseded>>
      BY DEF SaveEntry
    <2>3. QED
      BY <2>1, <2>2 DEF VictimsLater, Later
  <1>4. QED
    BY <1>2, <1>3

LEMMA NodeKeepsOrder ==
  ASSUME DuplicatesInv, NEW n \in Nodes, NodeNext(n)
  PROVE  HasFirst' /\ VictimsLater'
  <1> USE DEF DuplicatesInv
  <1>1. CASE UNCHANGED <<id, victims, superseded>>
    BY <1>1, OrderUndisturbed
  <1>2. ASSUME NEW k \in Keys, FindDuplicates(n, k) PROVE HasFirst' /\ VictimsLater'
    <2>1. UNCHANGED <<id, superseded>> /\ victims' = [victims EXCEPT ![n] = Duplicates(k)]
      BY <1>2 DEF FindDuplicates
    <2>2. \A u \in Duplicates(k) : Later(u)
      BY DEF Duplicates, SameKey, Later, TypeOK
    <2>3. QED
      BY <2>1, <2>2 DEF HasFirst, VictimsLater, Later, Saved, TypeOK
  <1>3. CASE DropDuplicates(n)
    BY <1>3 DEF DropDuplicates, HasFirst, VictimsLater, Later, Saved, TypeOK
  <1>4. CASE NodeCrash(n)
    BY <1>4 DEF NodeCrash, HasFirst, VictimsLater, Later, Saved, TypeOK
  <1>5. QED
    BY <1>1, <1>2, <1>3, <1>4 DEF NodeNext, ProcessFiles, SyncRows, SyncFiles, SyncDone, SyncMove,
       RemoveDuplicates, DuplicatesDone

LEMMA OrderInductive ==
  ASSUME DuplicatesInv, [Next]_vars
  PROVE  DuplicatesInv'
  <1> USE DEF DuplicatesInv
  <1>1. TypeOK'
    BY NextType
  <1>2. ASSUME NEW u \in Uploads, UploadNext(u) PROVE HasFirst' /\ VictimsLater'
    <2>1. CASE SaveEntry(u)
      BY <1>1, <2>1, SaveKeepsOrder
    <2>2. CASE ~ SaveEntry(u)
      <3>1. UNCHANGED <<id, victims, superseded>>
        BY <1>2, <2>2 DEF UploadNext, Receive, HashFails, HandleExistingFileModel, ReturnExisting,
           PurgeExpired, Purged, FilterPasses, FilterRejects, GetFileSize, BucketExists,
           EncryptRead, EncryptWrite, SaveEntryRefused, UploadCrash, Expire
      <3>2. QED
        BY <3>1, OrderUndisturbed
    <2>3. QED
      BY <2>1, <2>2
  <1>3. ASSUME NEW r \in Requests, RequestNext(r) PROVE HasFirst' /\ VictimsLater'
    <2>1. UNCHANGED <<id, victims, superseded>>
      BY <1>3 DEF RequestNext, DeleteEntry, GetFileInfo, GetEntry, GetEntryGone, GetEntryServe,
         PostProcess, ServeAborted, DeleteBucket, DeleteBucketTx, DeleteBucketFiles, RequestCrash
    <2>2. QED
      BY <2>1, OrderUndisturbed
  <1>4. ASSUME NEW o \in Owners, JobNext(o) PROVE HasFirst' /\ VictimsLater'
    <2>1. UNCHANGED <<id, victims, superseded>>
      BY <1>4 DEF JobNext, DeleteFilesFromDisk, DeleteFilesFails, DeleteEntries, DeleteEntriesFails
    <2>2. QED
      BY <2>1, OrderUndisturbed
  <1>5. CASE UNCHANGED vars
    <2>1. UNCHANGED <<id, victims, superseded>>
      BY <1>5 DEF vars
    <2>2. QED
      BY <1>1, <2>1, OrderUndisturbed
  <1>6. QED
    BY <1>1, <1>2, <1>3, <1>4, <1>5, NodeKeepsOrder DEF Next

\* However many processes remove duplicates while copies of a content are uploaded and
\* deleted, a content of which nothing else took a copy keeps one: the first row of a key is
\* nobody's duplicate.
THEOREM ContentIsKept == Spec => []ContentSurvives
  <1>1. Init => DuplicatesInv
    BY InitType DEF Init, DuplicatesInv, HasFirst, VictimsLater, Saved
  <1>2. Spec => []DuplicatesInv
    BY <1>1, OrderInductive, PTL DEF Spec
  <1>3. StoreInv /\ DuplicatesInv => ContentSurvives
    <2> SUFFICES ASSUME StoreInv, DuplicatesInv, NEW k \in Keys,
                        NEW u \in Uploads, KeyOf[u] = k, upc[u] = "stored",
                        {v \in Uploads : KeyOf[v] = k} \cap (asked \cup expired \cup caught) = {}
                 PROVE  \E v \in Uploads : KeyOf[v] = k /\ v \in rows \cap disk
      BY DEF ContentSurvives
    <2>1. u \in Saved
      BY DEF StoreInv, TypeOK
    <2>2. PICK v \in Saved : KeyOf[v] = k /\ \A w \in Saved : KeyOf[w] = k => id[v] <= id[w]
      BY <2>1 DEF DuplicatesInv, HasFirst
    <2>3. ~ Later(v)
      BY <2>2 DEF Later, Saved, StoreInv, TypeOK
    <2>4. v \notin superseded
      BY <2>3 DEF DuplicatesInv, VictimsLater
    <2>5. v \in rows \cap disk
      BY <2>2, <2>4 DEF StoreInv, Accounted, Excused, Saved
    <2>6. QED
      BY <2>2, <2>5 DEF Saved
  <1>4. QED
    BY <1>2, <1>3, StoreInvariant, PTL
=============================================================================
