------------------------------- MODULE Intake -------------------------------
(***************************************************************************)
(* The way in: what one IP uploads until it has a row or a refusal.        *)
(*                                                                         *)
(* A form upload is written while it comes in; one from a URL is fetched   *)
(* by the server.  Three filters then look at it at once, and each removes *)
(* the file it refuses.  Too many refused names block the IP and remove    *)
(* what it has uploaded.  Accepted files of a suspicious type wait in the  *)
(* memory of the process for a lookup of their reputation.                 *)
(*                                                                         *)
(* One process, and contents that differ: what FileStore says of the       *)
(* cleaner and of duplicates is not repeated here.                         *)
(***************************************************************************)
EXTENDS Naturals, Sequences, FiniteSets

CONSTANTS
  Uploads,
  Kinds,      \* what may be uploaded: [how, bad, malicious]
  Threshold,  \* abuseThreshold: this many refused names in a row are tolerated
  BatchSize,  \* files per run of the reputation service
  MaxBlocks,  \* bound: blocks by an administrator
  MaxFaults   \* bound: crashes of the process, and failures of the disk or database in processDelete

Filters == {"name", "av", "mime"}

ASSUME AdminAssumption == "admin" \notin Uploads
ASSUME KindsAssumption ==
  Kinds \subseteq [how : {"form", "url"}, bad : SUBSET Filters, malicious : BOOLEAN]
ASSUME NumbersAssumption ==
  Threshold \in Nat \ {0} /\ BatchSize \in Nat \ {0} /\ MaxBlocks \in Nat /\ MaxFaults \in Nat

VARIABLES
  kind, pc, told,
  file, row,      \* the directory and the table
  opening,        \* uploads whose write stream is not open yet
  verdict,        \* of each filter on each upload
  threw,          \* uploads whose filter of names threw
  blocked, tracker,
  stage, doomed,  \* of each block under way, and the entries it has read and will remove
  queue, looking, \* the reputation service: waiting files, batches being looked up
  blocks, faults,
  excused, spared \* history: files left for a reason, rows that a block may leave

table      == <<file, row>>
blocking   == <<blocked, stage, doomed, blocks, spared>>
reputation == <<queue, looking>>
vars == <<kind, pc, told, table, opening, verdict, threw, tracker, blocking, reputation,
          faults, excused>>

Blockers == Uploads \cup {"admin"}
Verdicts == {"none", "running", "blocking", "exists", "rm", "pass", "fail", "error"}

TypeOK ==
  /\ kind \in [Uploads -> Kinds]
  /\ pc \in [Uploads -> {"new", "limit", "fetch", "stream", "flush", "filter", "save", "done"}]
  /\ told \in [Uploads -> {"nothing", "created", "refused", "error"}]
  /\ file \in [Uploads -> {"none", "partial", "whole"}]
  /\ row \in [Uploads -> BOOLEAN]
  /\ verdict \in [Uploads -> [Filters -> Verdicts]]
  /\ opening \subseteq Uploads /\ threw \subseteq Uploads
  /\ excused \subseteq Uploads /\ spared \subseteq Uploads /\ blocked \in BOOLEAN
  /\ stage \in [Blockers -> {"idle", "insert", "insertOnly", "read", "remove"}]
  /\ doomed \in [Blockers -> SUBSET Uploads]
  /\ tracker \in 0..Threshold /\ blocks \in 0..MaxBlocks /\ faults \in 0..MaxFaults
  /\ queue \in Seq(Uploads) /\ looking \subseteq SUBSET Uploads

Init ==
  /\ kind \in [Uploads -> Kinds]
  /\ pc = [u \in Uploads |-> "new"] /\ told = [u \in Uploads |-> "nothing"]
  /\ file = [u \in Uploads |-> "none"] /\ row = [u \in Uploads |-> FALSE]
  /\ verdict = [u \in Uploads |-> [f \in Filters |-> "none"]]
  /\ opening = {} /\ threw = {} /\ excused = {} /\ spared = {}
  /\ stage = [b \in Blockers |-> "idle"] /\ doomed = [b \in Blockers |-> {}]
  /\ blocked = FALSE /\ blocks = 0 /\ faults = 0
  /\ tracker \in 0..Threshold      \* earlier uploads may have been refused
  /\ queue = <<>> /\ looking = {}

Form(u) == kind[u].how = "form"
Queued == {queue[i] : i \in DOMAIN queue}
InFlight == {u \in Uploads : pc[u] \notin {"new", "done"}}

Goto(u, l) == pc' = [pc EXCEPT ![u] = l] /\ UNCHANGED told
Answer(u, a) == pc' = [pc EXCEPT ![u] = "done"] /\ told' = [told EXCEPT ![u] = a]
Write(u, s) == file' = [file EXCEPT ![u] = s] /\ UNCHANGED row
Excuse(u) == excused' = excused \cup {u}

Elsewhere == <<kind, tracker, threw, blocking, reputation, faults>>

-----------------------------------------------------------------------------
(* A file comes in.                                                         *)

CheckIp_Not == FALSE
CheckIp == blocked

\* The filter of IPs.  What it lets pass it does not look at again.
Use(u) ==
  /\ pc[u] = "new"
  /\ IF CheckIp THEN Answer(u, "refused")
     ELSE Goto(u, IF Form(u) THEN "limit" ELSE "fetch")
  /\ UNCHANGED <<table, opening, verdict, excused, Elsewhere>>

\* _handleFile awaits the size limit, and then listens.  An error of the stream in
\* between is heard by nobody here.
HandleFile(u) ==
  /\ pc[u] = "limit"
  /\ \/ /\ Answer(u, "refused")                            \* by its Content-Length
        /\ UNCHANGED <<opening, excused>>
     \/ /\ Goto(u, "stream")
        /\ opening' = opening \cup {u}
        /\ UNCHANGED excused
     \/ /\ Answer(u, "refused")                            \* the client has left
        /\ opening' = opening \cup {u}
        /\ Excuse(u)
  /\ UNCHANGED <<table, verdict, Elsewhere>>

\* The write stream creates the file, also if it was destroyed meanwhile.
Opened(u) ==
  /\ u \in opening
  /\ opening' = opening \ {u}
  /\ Write(u, "partial")
  /\ UNCHANGED <<pc, told, verdict, excused, Elsewhere>>

\* More data than the limit: pipe has waited for the file to be open.
StreamTooBig(u) ==
  /\ pc[u] = "stream" /\ u \notin opening
  /\ Write(u, "none")
  /\ Answer(u, "refused")
  /\ UNCHANGED <<opening, verdict, excused, Elsewhere>>

\* The file may be removed before it is created.
StreamError(u) ==
  /\ pc[u] = "stream"
  /\ Write(u, "none")
  /\ Answer(u, "refused")
  /\ IF u \in opening THEN Excuse(u) ELSE UNCHANGED excused
  /\ UNCHANGED <<opening, verdict, Elsewhere>>

StreamEnd(u) ==
  /\ pc[u] = "stream"
  /\ Goto(u, "flush")
  /\ UNCHANGED <<table, opening, verdict, excused, Elsewhere>>

StartFilters(u) ==
  /\ Goto(u, "filter")
  /\ verdict' = [verdict EXCEPT ![u] = [f \in Filters |-> "running"]]

CanCallBack_AtOnce(u) == TRUE
CanCallBack(u) == u \notin opening

\* The callback of outStream.end.
Flushed(u) ==
  /\ pc[u] = "flush" /\ CanCallBack(u)
  /\ Write(u, IF u \in opening THEN "partial" ELSE "whole")
  /\ StartFilters(u)
  /\ UNCHANGED <<opening, excused, Elsewhere>>

\* FileUrlService.getFile.  An error of the request, or while its body is read, leaves no
\* file; one of the disk does.  The last two are no Exception.
Fetch(u) ==
  /\ pc[u] = "fetch"
  /\ \/ Write(u, "whole") /\ StartFilters(u) /\ UNCHANGED excused
     \/ Answer(u, "refused") /\ UNCHANGED <<table, verdict, excused>>
     \/ /\ \E left \in {"none", "partial"} : Write(u, left)
        /\ Answer(u, "error") /\ Excuse(u) /\ UNCHANGED verdict
  /\ UNCHANGED <<opening, Elsewhere>>

-----------------------------------------------------------------------------
(* The filters.                                                             *)

Judge(u, f, v) == verdict' = [verdict EXCEPT ![u][f] = v]

\* Type and viruses of a form upload are looked for in the file, if it is still there; of a
\* file from a URL they are looked for at the URL, where there is none.  Of what is not there
\* no type is found, and one of the two scanners refuses it.
Findings(u, f) ==
  LET bad == f \in kind[u].bad
  IN  CASE f = "name" -> {bad}
        [] f = "mime" -> {Form(u) /\ bad /\ file[u] # "none"}
        [] f = "av"   -> IF ~Form(u) \/ file[u] = "none" THEN BOOLEAN ELSE {bad}

TooMany_OffByOne == tracker > Threshold
TooMany == tracker = Threshold

\* doFilterInternal.  The eleventh refused name in a row starts a block.
DoFilter(u, f) ==
  /\ verdict[u][f] = "running"
  /\ \E refused \in Findings(u, f) :
       IF ~refused THEN Judge(u, f, "pass") /\ UNCHANGED <<tracker, stage>>
       ELSE IF f # "name" THEN Judge(u, f, "exists") /\ UNCHANGED <<tracker, stage>>
       ELSE IF ~TooMany THEN Judge(u, f, "exists") /\ tracker' = tracker + 1 /\ UNCHANGED stage
       ELSE /\ Judge(u, f, "blocking")
            /\ tracker' = 0
            /\ stage' = [stage EXCEPT ![u] = "insert"]
  /\ UNCHANGED <<kind, pc, told, table, opening, threw, blocked, doomed, blocks, spared,
                 reputation, faults, excused>>

\* Ten seconds without another one.
TrackerExpires ==
  /\ tracker > 0
  /\ tracker' = 0
  /\ UNCHANGED <<kind, pc, told, table, opening, verdict, threw, blocking, reputation, faults, excused>>

Threw(u, f) == f = "name" /\ u \in threw

FileExists(u, f) ==
  /\ verdict[u][f] = "exists"
  /\ Judge(u, f, IF Form(u) /\ file[u] # "none" THEN "rm"
                 ELSE IF Threw(u, f) THEN "error" ELSE "fail")
  /\ UNCHANGED <<kind, pc, told, table, opening, threw, tracker, blocking, reputation, faults, excused>>

\* rm without force: of two filters that both saw the file, the second fails.
DeleteFile(u, f) ==
  /\ verdict[u][f] = "rm"
  /\ Judge(u, f, IF file[u] = "none" \/ Threw(u, f) THEN "error" ELSE "fail")
  /\ Write(u, "none")
  /\ UNCHANGED <<kind, pc, told, opening, threw, tracker, blocking, reputation, faults, excused>>

-----------------------------------------------------------------------------
(* A block, by the filter of names for some upload or by an administrator.  *)

BlockEnds(b) ==
  /\ stage' = [stage EXCEPT ![b] = "idle"]
  /\ doomed' = [doomed EXCEPT ![b] = {}]
  /\ IF b \in Uploads THEN Judge(b, "name", "exists") ELSE UNCHANGED verdict

\* Unless removeRelatedData is asked for, the entries of the IP stay.
AdminBlock ==
  /\ stage["admin"] = "idle" /\ blocks < MaxBlocks
  /\ \E s \in {"insert", "insertOnly"} : stage' = [stage EXCEPT !["admin"] = s]
  /\ blocks' = blocks + 1
  /\ UNCHANGED <<kind, pc, told, table, opening, verdict, threw, tracker, blocked, doomed, spared,
                 reputation, faults, excused>>

Entries == {u \in Uploads : row[u]}

\* The unique index refuses a second block of the IP.
InsertBlock(b) ==
  /\ \/ /\ stage[b] \in {"insert", "insertOnly"} /\ blocked
        /\ BlockEnds(b)
        /\ threw' = threw \cup ({b} \cap Uploads)
        /\ UNCHANGED <<blocked, spared>>
     \/ /\ stage[b] = "insert" /\ ~blocked
        /\ stage' = [stage EXCEPT ![b] = "read"]
        /\ blocked' = TRUE
        /\ spared' = InFlight
        /\ UNCHANGED <<threw, doomed, verdict>>
     \/ /\ stage[b] = "insertOnly" /\ ~blocked
        /\ BlockEnds(b)
        /\ blocked' = TRUE
        /\ spared' = InFlight \cup Entries
        /\ UNCHANGED threw
  /\ UNCHANGED <<kind, pc, told, table, opening, tracker, blocks, reputation, faults, excused>>

ReadEntries(b) ==
  /\ stage[b] = "read"
  /\ stage' = [stage EXCEPT ![b] = "remove"]
  /\ doomed' = [doomed EXCEPT ![b] = Entries]
  /\ UNCHANGED <<kind, pc, told, table, opening, verdict, threw, tracker, blocked, blocks, spared,
                 reputation, faults, excused>>

\* Of the files in S those that are kept stay, and those of the rows that have one go.
Unlink(S, kept) ==
  file' = [u \in Uploads |-> IF u \in S \ kept /\ row[u] THEN "none" ELSE file[u]]

\* processDelete, whose own steps FileStore has.  It swallows what rm throws: that file stays
\* and its row goes.  It swallows what the database throws, too: then the rows stay.
ProcessDelete(S, trusted) ==
  \/ /\ Unlink(S, {})
     /\ row' = [u \in Uploads |-> row[u] /\ u \notin S]
     /\ excused' = excused \cup trusted
     /\ UNCHANGED <<faults, spared>>
  \/ /\ faults < MaxFaults /\ faults' = faults + 1
     /\ \E kept \in SUBSET (S \cap Entries) :
          Unlink(S, kept) /\ excused' = excused \cup trusted \cup kept
     /\ row' = [u \in Uploads |-> row[u] /\ u \notin S]
     /\ UNCHANGED spared
  \/ /\ faults < MaxFaults /\ faults' = faults + 1
     /\ Unlink(S, {})
     /\ excused' = excused \cup trusted \cup S
     /\ spared' = spared \cup S
     /\ UNCHANGED row

RemoveEntries(b) ==
  /\ stage[b] = "remove"
  /\ ProcessDelete(doomed[b], {})
  /\ BlockEnds(b)
  /\ UNCHANGED <<kind, pc, told, opening, threw, tracker, blocked, blocks, reputation>>

BlockIp(b) == InsertBlock(b) \/ ReadEntries(b) \/ RemoveEntries(b)

RemoveBlockedIps ==
  /\ blocked
  /\ blocked' = FALSE
  /\ UNCHANGED <<kind, pc, told, table, opening, verdict, threw, tracker, stage, doomed, blocks, spared,
                 reputation, faults, excused>>

-----------------------------------------------------------------------------
(* The answer.                                                              *)

Refusals(u) == {f \in Filters : verdict[u][f] = "fail"}

AllPassed_First(u) == \E f \in Filters : verdict[u][f] = "pass"
AllPassed(u) == Refusals(u) = {}

RemoveRefused_Not(u) == UNCHANGED table
\* What ProcessUploadErrorProcessorEngine does for an Exception.
RemoveRefused(u) == Write(u, "none")

Thrown_Refusals(u) == \E f \in Filters : verdict[u][f] \in {"fail", "error"}
Thrown(u) == \E f \in Filters : verdict[u][f] = "error"

\* Promise.all: the first filter that throws answers at once, with an error that is no
\* Exception; otherwise all are awaited.
FilterFile(u) ==
  /\ pc[u] = "filter"
  /\ \/ /\ Thrown(u)
        /\ Answer(u, "error")
        /\ UNCHANGED table
     \/ /\ \A f \in Filters : verdict[u][f] \in {"pass", "fail"}
        /\ IF AllPassed(u)
           THEN Goto(u, "save") /\ UNCHANGED table
           ELSE RemoveRefused(u) /\ Answer(u, "refused")
  /\ UNCHANGED <<opening, verdict, excused, Elsewhere>>

\* Its expiry, or its bucket, is refused; or it gets its row, and is put in the queue.
SaveEntry(u) ==
  /\ pc[u] = "save"
  /\ \/ /\ RemoveRefused(u)
        /\ Answer(u, "refused")
        /\ UNCHANGED queue
     \/ /\ row' = [row EXCEPT ![u] = TRUE]
        /\ queue' = IF kind[u].malicious THEN Append(queue, u) ELSE queue
        /\ Answer(u, "created")
        /\ UNCHANGED file
  /\ UNCHANGED <<kind, opening, verdict, threw, tracker, blocking, looking, faults, excused>>

-----------------------------------------------------------------------------
(* Reputation, and a crash.                                                 *)

Batch == {queue[i] : i \in {j \in DOMAIN queue : j <= BatchSize}}
Rest_All == <<>>
Rest == SubSeq(queue, BatchSize + 1, Len(queue))

ProcessFiles ==
  /\ queue # <<>>
  /\ looking' = looking \cup {Batch}
  /\ queue' = Rest
  /\ UNCHANGED <<kind, pc, told, table, opening, verdict, threw, tracker, blocking, faults, excused>>

\* A lookup that fails counts as a good reputation.
LookedUp(B) ==
  /\ B \in looking
  /\ looking' = looking \ {B}
  /\ \E failed \in SUBSET B :
       ProcessDelete({u \in B \ failed : kind[u].malicious}, failed)
  /\ UNCHANGED <<kind, pc, told, opening, verdict, threw, tracker, blocked, stage, doomed,
                 blocks, queue>>

\* An error of a write stream has no listener and ends the process, too.
Crash ==
  /\ faults < MaxFaults
  /\ faults' = faults + 1
  /\ pc' = [u \in Uploads |-> IF u \in InFlight THEN "done" ELSE pc[u]]
  /\ verdict' = [u \in Uploads |-> [f \in Filters |-> "none"]]
  /\ opening' = {} /\ tracker' = 0 /\ queue' = <<>> /\ looking' = {}
  /\ stage' = [b \in Blockers |-> "idle"] /\ doomed' = [b \in Blockers |-> {}]
  /\ excused' = excused \cup InFlight \cup Queued \cup UNION looking
  /\ spared' = spared \cup Entries
  /\ UNCHANGED <<kind, told, table, threw, blocked, blocks>>

-----------------------------------------------------------------------------
Receive(u) == StreamTooBig(u) \/ StreamError(u) \/ StreamEnd(u)

Filter(u) == \E f \in Filters : DoFilter(u, f) \/ FileExists(u, f) \/ DeleteFile(u, f)

Proceed(u) == HandleFile(u) \/ Opened(u) \/ Receive(u) \/ Flushed(u) \/ Fetch(u) \/ Filter(u)
              \/ FilterFile(u) \/ SaveEntry(u)

LookUp == \E B \in SUBSET Uploads : LookedUp(B)

Next ==
  \/ \E u \in Uploads : Use(u) \/ Proceed(u)
  \/ \E b \in Blockers : BlockIp(b)
  \/ TrackerExpires \/ AdminBlock \/ RemoveBlockedIps
  \/ ProcessFiles \/ LookUp \/ Crash

Spec == Init /\ [][Next]_vars

-----------------------------------------------------------------------------
\* An upload gets a row only for all of its file: the flush, the filters and the removals
\* of other filters and blocks never leave a row that serves less.  Nothing at all it serves
\* after a removal whose rows the database kept.
AcceptedIsWhole ==
  \A u \in Uploads : row[u] => file[u] = "whole" \/ (file[u] = "none" /\ u \in excused)

\* When an upload is over and has no row its file is gone, unless its stream was opened after
\* it had failed, the disk or the process failed, or it came from a URL and a filter threw:
\* the filters do not know where such a file is.
RefusedLeavesNothing ==
  \A u \in Uploads :
    pc[u] = "done" /\ file[u] # "none" /\ ~row[u] /\ u \notin opening =>
      u \in excused \/ (told[u] = "error" /\ ~Form(u))

\* However the filters get in each other's way, a form upload with anything bad about it
\* gets no row, and one from a URL gets none if its name is bad.
OnlyUrlsUnfiltered ==
  \A u \in Uploads : row[u] /\ kind[u].bad # {} => ~Form(u) /\ "name" \notin kind[u].bad

\* The error of the server instead of the reason of a refusal comes only from a clash: two
\* filters that remove one file, a second block, or a fetch or a process that failed.
ErrorsAreClashes ==
  \A u \in Uploads : told[u] = "error" =>
    u \in threw \cup excused \/ Cardinality({f \in Filters : verdict[u][f] # "pass"}) > 1

\* Once a block is through, a blocked IP has nothing here but what was on its way when it
\* was blocked, what the administrator did not ask to remove, and what a crash or a failure
\* of the database kept from being removed.
BlockedStaysOut ==
  blocked /\ (\A b \in Blockers : stage[b] = "idle") => Entries \subseteq spared

\* Every malicious file with a row is waiting for its lookup or being looked up, unless a
\* lookup or its removal failed, or a crash lost the queue: the runs of the service drop none.
NoneForgotten ==
  \A u \in Uploads : row[u] /\ kind[u].malicious =>
    u \in Queued \cup (UNION looking) \cup excused

\* Of every upload that is refused, and of every variable its type: no file stays, no bad one
\* gets in, and the reason is told, but for what is named in the four.
RefusalsAreWhole == TypeOK /\ RefusedLeavesNothing /\ OnlyUrlsUnfiltered /\ ErrorsAreClashes
=============================================================================
