---------------------------- MODULE MCGoServices ----------------------------
(***************************************************************************)
(* The two services in Go on small instances, side by side: the pool of    *)
(* goroutines that makes the thumbnails of an album, and the downloads of  *)
(* albums as archives. They are processes of their own and share neither   *)
(* rows nor files: one moves, the other rests.                             *)
(***************************************************************************)
EXTENDS ThumbBatch, ZipDownload, TLC

CONSTANTS
  Moving,  \* the parts of which one moves
  r1,
  r2,
  f1,
  f2,
  f3,
  f4

VARIABLE part   \* the one that moves

\* The second request is about a file of the first and one that was added since.
MCAdded == [r \in Requests |-> (IF r = r1 THEN {f1, f2, f3} ELSE {f3, f4}) \cap Files]

everything == <<part, vars, zipVars>>

-----------------------------------------------------------------------------
OneInit ==
  /\ part \in Moving
  /\ Init /\ ZipInit

RestPool == UNCHANGED <<part, zipVars>>
RestZip == UNCHANGED <<part, vars>>

OneNext ==
  \/ part = "pool" /\ Next /\ RestPool
  \/ part = "zip" /\ ZipNext /\ RestZip

OneSpec == OneInit /\ [][OneNext]_everything

\* A step of a part, for the fairness of that part.
PoolStep(A) == part = "pool" /\ A /\ RestPool
ZipStep(A)  == part = "zip" /\ A /\ RestZip

\* The fairness of ThumbBatch and of ZipDownload, of the one that moves.
FairOneSpec ==
  /\ OneSpec
  /\ \A r \in Requests :
       /\ WF_everything(PoolStep(Process(r) \/ ProcessDropped(r)))
       /\ WF_everything(PoolStep(Return(r)))
       /\ WF_everything(PoolStep(PoolNext(r)))
       /\ \A w \in Workers : WF_everything(PoolStep(WorkerNext(r, w)))
  /\ \A d \in Downloads : WF_everything(ZipStep(Continue(d)))
  /\ WF_everything(ZipStep(Sync))

\* Every request for thumbnails comes to its end, and every archive is swept away (executeJob,
\* syncZips).
EverythingEnds == RequestsEnd /\ ArchivesSwept
=============================================================================
