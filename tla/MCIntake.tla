------------------------------ MODULE MCIntake ------------------------------
(***************************************************************************)
(* Intake on small instances: what may be uploaded in them.                *)
(***************************************************************************)
EXTENDS Intake, TLC

Upload(how, bad, malicious) == [how |-> how, bad |-> bad, malicious |-> malicious]

\* One that only the reputation service refuses, one that two filters refuse (or one of them,
\* if the other comes when the file is gone), and files from URLs whose name is refused or not.
MCKinds == {Upload("form", {}, TRUE), Upload("form", {"name", "mime"}, FALSE),
            Upload("url", {"name", "av"}, FALSE), Upload("url", {"mime"}, FALSE)}

MCAlike == Permutations(Uploads)
=============================================================================
