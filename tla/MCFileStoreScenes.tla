------------------------- MODULE MCFileStoreScenes -------------------------
(***************************************************************************)
(* What FileStore reclaims depends on SOFT_DELETE_LOCATION and takes many  *)
(* steps, so that it is looked at in scenes, each with some of the actors: *)
(* both uploads and the cleaner, with the variable set and without it, and *)
(* one upload and the cleaner with a client who deletes the bucket.        *)
(***************************************************************************)
EXTENDS MCFileStore

VARIABLE scene

Unset == INSTANCE FileStore WITH SoftDeleteSet <- FALSE

everything == <<scene, vars>>

SceneInit == Init /\ scene \in {"duplicates", "unset", "bucket"}

Of(o) == CASE o \in Uploads  -> scene # "bucket" \/ o = u1
           [] o \in Requests -> scene = "bucket"
           [] OTHER          -> TRUE

Step(A) == A /\ UNCHANGED scene

\* Only sync looks at SOFT_DELETE_LOCATION.
Move(n) == \E f \in Uploads : IF scene = "unset" THEN Unset!SyncMove(n, f) ELSE SyncMove(n, f)

SceneNext ==
  \/ \E u \in Uploads : Of(u) /\ Step(UploadNext(u))
  \/ \E r \in Requests : Of(r) /\ Step(RequestNext(r))
  \/ \E n \in Nodes : Step(IF scene = "unset" THEN Unset!NodeNext(n) ELSE NodeNext(n))
  \/ \E o \in Owners : Step(JobNext(o))

\* The fairness of FileStore.
SceneFairness ==
  /\ \A o \in Owners :
       WF_everything(Step(DeleteFilesFromDisk(o))) /\ WF_everything(Step(DeleteEntries(o)))
  /\ \A n \in Nodes :
       /\ SF_everything(Step(ProcessFiles(n))) /\ SF_everything(Step(RemoveDuplicates(n)))
       /\ WF_everything(Step(SyncRows(n))) /\ WF_everything(Step(SyncFiles(n)))
       /\ WF_everything(Step(SyncDone(n))) /\ WF_everything(Step(Move(n)))
       /\ WF_everything(Step(\E k \in Keys : FindDuplicates(n, k)))
       /\ WF_everything(Step(DropDuplicates(n))) /\ WF_everything(Step(DuplicatesDone(n)))

SceneSpec == SceneInit /\ [][SceneNext]_everything /\ SceneFairness

\* What should not be there does not stay: an orphan, if SOFT_DELETE_LOCATION is set, and a dead
\* row in any case (FileCleaner.sync).
ReclaimedAsConfigured ==
  /\ scene # "unset" => AllReclaimed
  /\ scene = "unset" => Unset!AllReclaimed
=============================================================================
