---------------------------- MODULE MCFileStore ----------------------------
(***************************************************************************)
(* FileStore on small instances.  Each run chooses which of the uploads    *)
(* are bucketed, one-time and encrypted.                                   *)
(***************************************************************************)
EXTENDS FileStore, TLC

CONSTANTS u1, u2, k1, b1

\* All the uploads have one content and come from one ip or one bucket.
MCSameKey == [u \in Uploads |-> k1]
MCBucketOf == [u \in Bucketed |-> b1]
=============================================================================
