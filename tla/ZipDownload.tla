---------------------------- MODULE ZipDownload ----------------------------
(***************************************************************************)
(* Download of an album: the main server asks the zip service for an       *)
(* archive of the files, which the service writes into the directory of    *)
(* the uploads, streams it to the client, and removes it.                  *)
(*                                                                         *)
(* The service remembers by album and client what it is zipping and        *)
(* refuses a second request meanwhile.  The cleaner knows no archives and  *)
(* moves away whatever it finds, if it has been told where to.             *)
(***************************************************************************)
EXTENDS Naturals

CONSTANTS
  Downloads,    \* slots for requests; each serves any number of them
  Keys,         \* client and album
  Parts,        \* bound: files in an archive
  SoftDeleteSet,\* whether SOFT_DELETE_LOCATION is set
  MaxZipFaults  \* bound: processes that die, calls and writes that fail

VARIABLES
  activeZipping,  \* the keys the service remembers
  archive,        \* the archive of each request, as found in the directory
  pc, key,
  left,           \* the files that are still to be added
  away,           \* who no longer waits for the request: nobody, its client, or the server
  zipFaults,
  raced,          \* history: keys that LoadOrStore found to be there, until their last zip ends
  leftBehind      \* history: requests that left their archive to the cleaner

service == <<activeZipping, left>>
history == <<raced, leftBehind>>
zipVars == <<service, archive, pc, key, away, zipFaults, history>>

InService == {"check", "store", "create", "add"}
InServer  == {"found", "opened", "size", "send"}

ZipTypeOK ==
  /\ activeZipping \subseteq Keys /\ raced \subseteq Keys
  /\ archive \in [Downloads -> {"none", "partial", "whole"}]
  /\ pc \in [Downloads -> {"idle"} \cup InService \cup InServer]
  /\ key \in [Downloads -> Keys]
  /\ left \in [Downloads -> Nat]
  /\ away \in [Downloads -> {"nobody", "client", "server"}]
  /\ zipFaults \in Nat /\ leftBehind \subseteq Downloads

ZipInit ==
  /\ activeZipping = {} /\ raced = {} /\ leftBehind = {} /\ zipFaults = 0
  /\ archive = [r \in Downloads |-> "none"] /\ pc = [r \in Downloads |-> "idle"]
  /\ key \in [Downloads -> Keys]
  /\ left = [r \in Downloads |-> 0] /\ away = [r \in Downloads |-> "nobody"]

Zipping(k) == {r \in Downloads : pc[r] \in {"create", "add"} /\ key[r] = k}

Goto(r, l) == pc' = [pc EXCEPT ![r] = l] /\ UNCHANGED <<left, away>>

Ends(r) ==
  /\ pc' = [pc EXCEPT ![r] = "idle"]
  /\ left' = [left EXCEPT ![r] = 0] /\ away' = [away EXCEPT ![r] = "nobody"]

-----------------------------------------------------------------------------
(* The service.                                                             *)

\* Files with a password are left out, so that there may be none.  A slot whose archive was
\* left behind waits for the cleaner.
DownloadFiles(r) ==
  /\ pc[r] = "idle" /\ archive[r] = "none"
  /\ pc' = [pc EXCEPT ![r] = "check"]
  /\ \E k \in Keys : key' = [key EXCEPT ![r] = k]
  /\ \E n \in 0..Parts : left' = [left EXCEPT ![r] = n]
  /\ leftBehind' = leftBehind \ {r}
  /\ UNCHANGED <<activeZipping, archive, away, zipFaults, raced>>

IsZipping(r) ==
  /\ pc[r] = "check"
  /\ IF key[r] \in activeZipping THEN Ends(r) ELSE Goto(r, "store")     \* 409
  /\ UNCHANGED <<activeZipping, archive, key, zipFaults, history>>

Stored_Not(r) == activeZipping
Stored(r) == activeZipping \cup {key[r]}

\* LoadOrStore, whose result nobody looks at.
Store(r) ==
  /\ pc[r] = "store"
  /\ activeZipping' = Stored(r)
  /\ raced' = raced \cup (activeZipping \cap {key[r]})
  /\ Goto(r, "create")
  /\ UNCHANGED <<archive, key, zipFaults, leftBehind>>

Remembered_Always(r, failed) == IF failed THEN activeZipping ELSE activeZipping \ {key[r]}
\* The deferred Delete.
Remembered(r, failed) == activeZipping \ {key[r]}

EndZip(r, failed) ==
  /\ activeZipping' = Remembered(r, failed)
  /\ raced' = IF Zipping(key[r]) = {r} THEN raced \ {key[r]} ELSE raced

CreateZipFile(r) ==
  /\ pc[r] = "create"
  /\ \/ /\ archive' = [archive EXCEPT ![r] = "partial"]
        /\ Goto(r, "add")
        /\ UNCHANGED <<activeZipping, raced>>
     \/ /\ EndZip(r, TRUE)
        /\ Ends(r)
        /\ UNCHANGED archive
  /\ UNCHANGED <<key, zipFaults, leftBehind>>

AddFileToZip(r) ==
  /\ pc[r] = "add" /\ left[r] > 0
  /\ left' = [left EXCEPT ![r] = @ - 1]
  /\ UNCHANGED <<activeZipping, archive, pc, key, away, zipFaults, history>>

AddFileFails_Retries(r) ==
  /\ pc[r] = "add" /\ left[r] > 0
  /\ archive' = [archive EXCEPT ![r] = "none"]
  /\ Goto(r, "create")
  /\ UNCHANGED <<activeZipping, key, zipFaults, history>>

\* A file is gone, or cannot be read: the archive is left as it is.
AddFileFails(r) ==
  /\ pc[r] = "add" /\ left[r] > 0
  /\ EndZip(r, TRUE)
  /\ leftBehind' = leftBehind \cup {r}
  /\ Ends(r)
  /\ UNCHANGED <<archive, key, zipFaults>>

\* The deferred Close of the archive, if it is still in the directory.
Closed(r) == IF archive[r] = "partial" THEN "whole" ELSE archive[r]

\* The service answers, if the server still listens, even if the end of the archive could
\* not be written: nobody looks at what Close returns.
ZipDone(r) ==
  /\ pc[r] = "add" /\ left[r] = 0
  /\ EndZip(r, FALSE)
  /\ \/ archive' = [archive EXCEPT ![r] = Closed(r)] /\ UNCHANGED zipFaults
     \/ UNCHANGED archive /\ zipFaults < MaxZipFaults /\ zipFaults' = zipFaults + 1
  /\ IF away[r] = "server"
     THEN Ends(r) /\ leftBehind' = leftBehind \cup {r}
     ELSE Goto(r, "found") /\ UNCHANGED leftBehind
  /\ UNCHANGED key

-----------------------------------------------------------------------------
(* The server.                                                              *)

Cleanup(r) == archive' = [archive EXCEPT ![r] = "none"]

FileExists(r) ==
  /\ pc[r] = "found"
  /\ IF archive[r] # "none" THEN Goto(r, "opened") ELSE Ends(r)
  /\ UNCHANGED <<activeZipping, archive, key, zipFaults, history>>

Aborted_Forgotten(r) == UNCHANGED archive
Aborted(r) == Cleanup(r)

\* Did the client leave while the service was working?
CheckConnection(r) ==
  /\ pc[r] = "opened"
  /\ IF away[r] = "client"
     THEN Aborted(r) /\ Ends(r)
     ELSE Goto(r, "size") /\ UNCHANGED archive
  /\ UNCHANGED <<activeZipping, key, zipFaults, history>>

GetFileSize(r) ==
  /\ pc[r] = "size"
  /\ IF archive[r] # "none" THEN Goto(r, "send") ELSE Ends(r)
  /\ UNCHANGED <<activeZipping, archive, key, zipFaults, history>>

\* The stream was opened before: the archive may be moved by now.
Finish(r) ==
  /\ pc[r] = "send"
  /\ Cleanup(r) /\ Ends(r)
  /\ UNCHANGED <<activeZipping, key, zipFaults, history>>

\* The call to the service fails while both processes live: its connection is reset, or fetch
\* will not wait longer.  The server answers 500, and the service works on.
FetchRejects(r) ==
  /\ pc[r] \in InService /\ away[r] # "server" /\ zipFaults < MaxZipFaults
  /\ away' = [away EXCEPT ![r] = "server"]
  /\ zipFaults' = zipFaults + 1
  /\ UNCHANGED <<service, archive, pc, key, history>>

\* The client leaves.  Before the service has answered this is only noted; later the
\* listener removes the archive.
Close(r) ==
  /\ pc[r] # "idle" /\ away[r] = "nobody"
  /\ IF pc[r] \in {"size", "send"}
     THEN Cleanup(r) /\ Ends(r)
     ELSE away' = [away EXCEPT ![r] = "client"] /\ UNCHANGED <<archive, pc, left>>
  /\ UNCHANGED <<activeZipping, key, zipFaults, history>>

-----------------------------------------------------------------------------
(* Faults, and the cleaner.                                                 *)

\* The service forgets what it was zipping, and the server gets no answer.
ServiceCrash ==
  LET hit == {r \in Downloads : pc[r] \in InService}
  IN  /\ zipFaults < MaxZipFaults /\ hit # {}
      /\ zipFaults' = zipFaults + 1
      /\ activeZipping' = {} /\ raced' = {}
      /\ pc' = [r \in Downloads |-> IF r \in hit THEN "idle" ELSE pc[r]]
      /\ left' = [r \in Downloads |-> IF r \in hit THEN 0 ELSE left[r]]
      /\ away' = [r \in Downloads |-> IF r \in hit THEN "nobody" ELSE away[r]]
      /\ leftBehind' = leftBehind \cup hit
      /\ UNCHANGED <<archive, key>>

\* What the service works at it finishes for nobody.
ServerCrash ==
  LET serving == {r \in Downloads : pc[r] \in InServer}
      waiting == {r \in Downloads : pc[r] \in InService}
  IN  /\ zipFaults < MaxZipFaults /\ serving \cup waiting # {}
      /\ zipFaults' = zipFaults + 1
      /\ pc' = [r \in Downloads |-> IF r \in serving THEN "idle" ELSE pc[r]]
      /\ away' = [r \in Downloads |-> IF r \in waiting THEN "server"
                                      ELSE IF r \in serving THEN "nobody" ELSE away[r]]
      /\ leftBehind' = leftBehind \cup serving
      /\ UNCHANGED <<service, archive, key, raced>>

\* Every name in the directory that no row has: archives too, those in use included.  Without
\* a SOFT_DELETE_LOCATION nothing is removed: softDelete gives deleteFile an absolute path,
\* which that looks for below filesDir.
Swept == IF SoftDeleteSet THEN {r \in Downloads : archive[r] # "none"} ELSE {}

Sync ==
  /\ Swept # {}
  /\ archive' = [r \in Downloads |-> IF r \in Swept THEN "none" ELSE archive[r]]
  /\ UNCHANGED <<service, pc, key, away, zipFaults, history>>

-----------------------------------------------------------------------------
Continue(r) ==
  \/ IsZipping(r) \/ Store(r) \/ CreateZipFile(r) \/ AddFileToZip(r) \/ AddFileFails(r)
  \/ ZipDone(r) \/ FileExists(r) \/ CheckConnection(r) \/ GetFileSize(r) \/ Finish(r)

ZipNext ==
  \/ \E r \in Downloads : DownloadFiles(r) \/ Continue(r) \/ FetchRejects(r) \/ Close(r)
  \/ ServiceCrash \/ ServerCrash \/ Sync

\* What was begun goes on, and the cleaner runs every hour.
Fairness == (\A r \in Downloads : WF_zipVars(Continue(r))) /\ WF_zipVars(Sync)

ZipSpec == ZipInit /\ [][ZipNext]_zipVars /\ Fairness

-----------------------------------------------------------------------------
\* A key is refused only while the service zips for it: no way out of ZipFiles, and no
\* second request for the key, leaves it behind for good.
NoKeyStuck == \A k \in activeZipping : Zipping(k) # {}

\* Two archives at once for one client and album, or one that the service has forgotten,
\* come only after two requests both passed IsZipping, and LoadOrStore told.
ExclusiveButForRaces ==
  \A k \in Keys :
    \/ k \in raced
    \/ /\ k \notin activeZipping => Zipping(k) = {}
       /\ \A q, r \in Zipping(k) : q = r

\* A request is refused only while the service zips for its client, and two archives are
\* made at once for one client only after such a race.
KeysOK == NoKeyStuck /\ ExclusiveButForRaces

\* However a client leaves, its archive is removed when its request is over, unless a file
\* was missing from it, a process died, or the server's call to the service failed: then
\* nobody but the cleaner removes what the service makes.
NothingLeftBehind == \A r \in Downloads : pc[r] = "idle" /\ archive[r] # "none" => r \in leftBehind

\* A client that is refused will not be refused for ever.
KeyFreed == \A k \in Keys : k \in activeZipping ~> k \notin activeZipping

\* What was left behind does not fill the disk, if SOFT_DELETE_LOCATION is set; without it
\* nothing ever removes what was left.
ArchivesSwept ==
  SoftDeleteSet => \A r \in Downloads : archive[r] # "none" ~> archive[r] = "none"
=============================================================================
