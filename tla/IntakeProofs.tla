---------------------------- MODULE IntakeProofs ----------------------------
(***************************************************************************)
(* The safety properties of Intake, for any uploads of any kinds, any      *)
(* threshold, and any number of blocks and crashes.                        *)
(*                                                                         *)
(* What is claimed of one upload depends on that upload alone (UploadInv), *)
(* so that a step has to be looked at for the one that it moves.  Blocks   *)
(* (BlockInv) and the queue (NoneForgotten) are arguments of their own.    *)
(***************************************************************************)
EXTENDS Intake, FiniteSetTheorems, TLAPS

\* A filter that is at work, and one that has spoken against the upload.
Pending == {"running", "blocking", "exists", "rm"}
Against == {"fail", "error"}

\* Where an upload is, what it has there.
PlaceInv(u) ==
  /\ pc[u] \in {"new", "limit", "fetch"} => file[u] = "none"
  /\ pc[u] \in {"new", "limit", "fetch", "stream", "flush"} =>
       ~row[u] /\ \A f \in Filters : verdict[u][f] = "none"
  /\ pc[u] = "filter" => ~row[u] /\ \A f \in Filters : verdict[u][f] # "none"
  /\ pc[u] = "save" => ~row[u] /\ file[u] = "whole" /\ \A f \in Filters : verdict[u][f] = "pass"
  /\ pc[u] # "done" => told[u] = "nothing"
  /\ row[u] => /\ pc[u] = "done" /\ (file[u] = "whole" \/ (file[u] = "none" /\ u \in excused))
               /\ \A f \in Filters : verdict[u][f] \in {"pass", "none"}
  /\ u \in opening => /\ pc[u] \in {"stream", "flush"} \/ (pc[u] = "done" /\ u \in excused)
                      /\ ~row[u] /\ \A f \in Filters : verdict[u][f] = "none"

\* While filters are at work the file is whole, or one of them has removed it.
FilterInv(u) ==
  /\ pc[u] = "filter" \/ (\E f \in Filters : verdict[u][f] \in Pending) =>
       file[u] = "whole" \/ \E f \in Filters : verdict[u][f] \in Against
  /\ Form(u) /\ (\E f \in Filters : verdict[u][f] \in Against) => file[u] = "none"
  /\ \A f \in Filters : verdict[u][f] = "rm" => Form(u)

\* What has passed is not bad, or its file is gone.
PassInv(u) ==
  /\ \A f \in Filters : verdict[u][f] = "pass" /\ f \in kind[u].bad =>
       f # "name" /\ (Form(u) => file[u] = "none")
  /\ pc[u] = "save" \/ row[u] => kind[u].bad = {} \/ (~Form(u) /\ "name" \notin kind[u].bad)

\* Of a file that is left, and of an error, the reason.
LeftInv(u) ==
  pc[u] = "done" /\ file[u] # "none" /\ ~row[u] /\ u \notin opening =>
    u \in excused \/ (told[u] = "error" /\ ~Form(u))

ClashInv(u) ==
  /\ \A f \in Filters : pc[u] = "filter" /\ verdict[u][f] = "error" =>
       u \in threw \/ \E g \in Filters \ {f} : verdict[u][g] \in Against
  /\ told[u] = "error" =>
       \/ u \in threw \cup excused
       \/ \E f, g \in Filters : f # g /\ {verdict[u][f], verdict[u][g]} \subseteq Against \cup {"none"}

UploadInv(u) == PlaceInv(u) /\ FilterInv(u) /\ PassInv(u) /\ LeftInv(u) /\ ClashInv(u)

\* An upload blocks its IP while its filter of names says so.
StagesInv == \A u \in Uploads : stage[u] # "idle" => verdict[u]["name"] = "blocking"

\* Of a blocked IP, each entry is spared or will be removed, and what is on its way is spared.
Removes(b, u) == stage[b] = "read" \/ (stage[b] = "remove" /\ u \in doomed[b])

BlockInv ==
  blocked => /\ InFlight \subseteq spared
             /\ \A u \in Entries : u \in spared \/ \E b \in Blockers : Removes(b, u)

IntakeInv ==
  /\ TypeOK /\ (\A u \in Uploads : UploadInv(u))
  /\ StagesInv /\ BlockInv /\ NoneForgotten

-----------------------------------------------------------------------------
(* One upload.                                                              *)

\* All that UploadInv reads of an upload.
Same(u) ==
  /\ pc'[u] = pc[u] /\ told'[u] = told[u] /\ file'[u] = file[u] /\ row'[u] = row[u]
  /\ verdict'[u] = verdict[u] /\ (u \in opening' <=> u \in opening)

Grows == UNCHANGED kind /\ threw \subseteq threw' /\ excused \subseteq excused'

LEMMA Untouched ==
  ASSUME NEW u \in Uploads, UploadInv(u), Same(u), Grows
  PROVE  UploadInv(u)'
<1> USE DEF Same, Grows
<1>1. PlaceInv(u)'
  BY DEF UploadInv, PlaceInv
<1>2. FilterInv(u)'
  BY DEF UploadInv, FilterInv, Form
<1>3. PassInv(u)'
  BY DEF UploadInv, PassInv, Form
<1>4. LeftInv(u)'
  BY DEF UploadInv, LeftInv, Form
<1>5. ClashInv(u)'
  BY DEF UploadInv, ClashInv
<1>6. QED
  BY <1>1, <1>2, <1>3, <1>4, <1>5 DEF UploadInv

\* A step of one upload, when it comes out well.
LEMMA OneUpload ==
  ASSUME NEW u \in Uploads, \A v \in Uploads : UploadInv(v), Grows,
         \A v \in Uploads \ {u} : Same(v), UploadInv(u)'
  PROVE  \A v \in Uploads : UploadInv(v)'
<1> TAKE v \in Uploads
<1>1. CASE v = u
  BY <1>1
<1>2. CASE v # u
  BY <1>2, Untouched
<1> QED
  BY <1>1, <1>2

LEMMA ThreeFilters == {"name", "av", "mime"} = Filters
  BY DEF Filters

\* Steps of an upload, each for itself.
LEMMA ComesIn ==
  ASSUME TypeOK, NEW u \in Uploads, UploadInv(u),
         Use(u) \/ HandleFile(u) \/ Opened(u) \/ Receive(u) \/ Flushed(u) \/ Fetch(u)
  PROVE  UploadInv(u)'
<1> USE DEF Goto, Answer, Write, Excuse, Elsewhere, UploadInv, TypeOK, PlaceInv, FilterInv,
            PassInv, LeftInv, ClashInv, Form, Pending, Against, table, blocking, reputation
<1>1. CASE Use(u)
  BY <1>1 DEF Use
<1>2. CASE HandleFile(u)
  BY <1>2 DEF HandleFile
<1>3. CASE Opened(u)
  BY <1>3 DEF Opened
<1>4. CASE StreamTooBig(u)
  BY <1>4 DEF StreamTooBig
<1>5. CASE StreamError(u)
  BY <1>5 DEF StreamError
<1>6. CASE StreamEnd(u)
  BY <1>6 DEF StreamEnd
<1>7. CASE Flushed(u)
  BY <1>7 DEF Flushed, CanCallBack, StartFilters
<1>8. CASE Fetch(u)
  BY <1>8 DEF Fetch, StartFilters
<1>9. QED
  BY <1>1, <1>2, <1>3, <1>4, <1>5, <1>6, <1>7, <1>8 DEF Receive

\* One filter says something else, and of an error it has a reason.
LEMMA ClashKept ==
  ASSUME TypeOK, NEW u \in Uploads, ClashInv(u), NEW f \in Filters, verdict[u][f] \in Pending,
         NEW v, Judge(u, f, v), UNCHANGED <<pc, told>>, Grows,
         v = "error" => u \in threw \/ \E g \in Filters \ {f} : verdict[u][g] \in Against
  PROVE  ClashInv(u)'
<1> USE DEF Judge, TypeOK, Grows, Pending
<1>1. verdict'[u][f] = v /\ \A g \in Filters \ {f} : verdict'[u][g] = verdict[u][g]
  OBVIOUS
<1>2. ASSUME NEW g \in Filters, pc'[u] = "filter", verdict'[u][g] = "error"
      PROVE  u \in threw' \/ \E h \in Filters \ {g} : verdict'[u][h] \in Against
  <2>1. u \in threw \/ \E h \in Filters \ {g} : verdict[u][h] \in Against
    BY <1>1, <1>2 DEF ClashInv
  <2>2. CASE u \in threw
    BY <2>2
  <2>3. CASE \E h \in Filters \ {g} : verdict[u][h] \in Against
    <3>1. PICK h \in Filters \ {g} : verdict[u][h] \in Against
      BY <2>3
    <3>2. h # f
      BY <3>1 DEF Against
    <3>3. QED
      BY <1>1, <3>1, <3>2
  <2>4. QED
    BY <2>1, <2>2, <2>3
<1>3. ASSUME told'[u] = "error", u \notin threw' \cup excused'
      PROVE  \E g, h \in Filters :
               g # h /\ {verdict'[u][g], verdict'[u][h]} \subseteq Against \cup {"none"}
  <2>1. PICK g \in Filters, h \in Filters :
          g # h /\ {verdict[u][g], verdict[u][h]} \subseteq Against \cup {"none"}
    BY <1>3 DEF ClashInv
  <2>2. g # f /\ h # f
    BY <2>1 DEF Against
  <2>3. QED
    BY <1>1, <2>1, <2>2
<1>4. QED
  BY <1>2, <1>3 DEF ClashInv

\* What a filter that is at work says next.
LEMMA Judged ==
  ASSUME TypeOK, NEW u \in Uploads, UploadInv(u), NEW f \in Filters,
         DoFilter(u, f) \/ FileExists(u, f) \/ DeleteFile(u, f)
  PROVE  UploadInv(u)'
<1> USE DEF Judge, Write, Threw, UploadInv, TypeOK, Form, Pending, Against, table, blocking,
            reputation, Verdicts
<1>1. CASE DoFilter(u, f)
  <2> USE <1>1 DEF DoFilter
  <2>1. PICK refused \in Findings(u, f) :
          \/ verdict' = [verdict EXCEPT ![u][f] = "pass"] /\ ~refused
          \/ verdict' = [verdict EXCEPT ![u][f] = "exists"]
          \/ verdict' = [verdict EXCEPT ![u][f] = "blocking"]
    OBVIOUS
  <2>2. PlaceInv(u)'
    BY <2>1 DEF PlaceInv
  <2>3. FilterInv(u)'
    BY <2>1 DEF FilterInv, PlaceInv
  <2>4. PassInv(u)'
    <3>1. ASSUME f \in kind[u].bad, ~refused
          PROVE  f # "name" /\ (Form(u) => file[u] = "none")
      <4>1. CASE f = "name"
        BY <3>1, <4>1 DEF Findings
      <4>2. CASE f = "mime"
        BY <3>1, <4>2 DEF Findings
      <4>3. CASE f = "av"
        BY <3>1, <4>3 DEF Findings
      <4>4. QED
        BY <4>1, <4>2, <4>3 DEF Filters
    <3>2. \A g \in Filters \ {f} : verdict'[u][g] = verdict[u][g]
      BY <2>1
    <3>3. verdict'[u][f] = "pass" => ~refused
      BY <2>1
    <3>4. QED
      BY <3>1, <3>2, <3>3 DEF PassInv
  <2>5. LeftInv(u)'
    BY <2>1 DEF LeftInv
  <2>6. ClashInv(u)'
    BY <2>1, ClashKept DEF Grows
  <2>7. QED
    BY <2>2, <2>3, <2>4, <2>5, <2>6
<1>2. CASE FileExists(u, f)
  <2> USE <1>2 DEF FileExists
  <2>1. PlaceInv(u)' /\ PassInv(u)' /\ LeftInv(u)'
    BY DEF PlaceInv, PassInv, LeftInv
  <2>2. FilterInv(u)'
    BY DEF FilterInv, PlaceInv
  <2>3. ClashInv(u)'
    BY ClashKept DEF Grows
  <2>4. QED
    BY <2>1, <2>2, <2>3
<1>3. CASE DeleteFile(u, f)
  <2> USE <1>3 DEF DeleteFile
  <2>1. PlaceInv(u)' /\ PassInv(u)' /\ LeftInv(u)'
    BY DEF PlaceInv, PassInv, LeftInv
  <2>2. FilterInv(u)'
    BY DEF FilterInv, PlaceInv
  <2>3. ClashInv(u)'
    BY DEF ClashInv, FilterInv
  <2>4. QED
    BY <2>1, <2>2, <2>3
<1>4. QED
  BY <1>1, <1>2, <1>3

\* The answer.
LEMMA Answered ==
  ASSUME TypeOK, NEW u \in Uploads, UploadInv(u), FilterFile(u) \/ SaveEntry(u)
  PROVE  UploadInv(u)'
<1> USE DEF Goto, Answer, Write, RemoveRefused, UploadInv, TypeOK, PlaceInv, Form, Pending, Against,
            Verdicts, Elsewhere, table, blocking, reputation
<1>1. CASE FilterFile(u) /\ Thrown(u) /\ Answer(u, "error") /\ UNCHANGED table
  <2> USE <1>1 DEF FilterFile, Thrown
  <2>1. PlaceInv(u)' /\ FilterInv(u)' /\ PassInv(u)'
    BY DEF FilterInv, PassInv
  <2>2. LeftInv(u)'
    BY DEF LeftInv, FilterInv
  <2>3. ClashInv(u)'
    <3>1. PICK f \in Filters : verdict[u][f] = "error"
      OBVIOUS
    <3>2. u \in threw \/ \E g \in Filters \ {f} : verdict[u][g] \in Against
      BY <3>1 DEF ClashInv
    <3>3. CASE u \in threw
      BY <3>3 DEF ClashInv
    <3>4. CASE \E g \in Filters \ {f} : verdict[u][g] \in Against
      BY <3>1, <3>4 DEF ClashInv
    <3>5. QED
      BY <3>2, <3>3, <3>4
  <2>4. QED
    BY <2>1, <2>2, <2>3
<1>2. CASE FilterFile(u) /\ Goto(u, "save") /\ UNCHANGED table /\ AllPassed(u)
           /\ \A f \in Filters : verdict[u][f] \in {"pass", "fail"}
  <2>1. \A f \in Filters : verdict[u][f] = "pass"
    BY <1>2 DEF AllPassed, Refusals
  <2>2. file[u] = "whole"
    BY <1>2, <2>1 DEF FilterFile, FilterInv
  <2>3. kind[u].bad \subseteq Filters
    BY KindsAssumption
  <2>4. PassInv(u)'
    BY <1>2, <2>1, <2>2, <2>3, ThreeFilters DEF FilterFile, PassInv
  <2>5. PlaceInv(u)' /\ FilterInv(u)' /\ LeftInv(u)' /\ ClashInv(u)'
    BY <1>2, <2>1, <2>2 DEF FilterFile, FilterInv, LeftInv, ClashInv
  <2>6. QED
    BY <2>4, <2>5
<1>3. CASE FilterFile(u) /\ RemoveRefused(u) /\ Answer(u, "refused")
           /\ \A f \in Filters : verdict[u][f] \in {"pass", "fail"}
  BY <1>3 DEF FilterFile, FilterInv, PassInv, LeftInv, ClashInv
<1>4. CASE SaveEntry(u)
  BY <1>4 DEF SaveEntry, FilterInv, PassInv, LeftInv, ClashInv
<1>5. QED
  BY <1>1, <1>2, <1>3, <1>4 DEF FilterFile

\* A block that ends lets its filter of names go on.
LEMMA BlockEnded ==
  ASSUME TypeOK, NEW u \in Uploads, UploadInv(u), verdict[u]["name"] = "blocking",
         Judge(u, "name", "exists"), UNCHANGED <<pc, told, opening>>, file'[u] = file[u],
         row'[u] = row[u], Grows
  PROVE  UploadInv(u)'
<1> USE DEF Judge, Grows, UploadInv, TypeOK, Form, Pending, Against, Filters, Verdicts
<1>1. PlaceInv(u)' /\ PassInv(u)' /\ LeftInv(u)'
  BY DEF PlaceInv, PassInv, LeftInv
<1>2. FilterInv(u)'
  BY DEF FilterInv, PlaceInv
<1>3. ClashInv(u)'
  BY DEF ClashInv
<1>4. QED
  BY <1>1, <1>2, <1>3

\* Entries are deleted with their files, or what fails of it is excused.
LEMMA Deleted ==
  ASSUME TypeOK, NEW S \in SUBSET Uploads, NEW T, ProcessDelete(S, T), NEW u \in Uploads,
         UploadInv(u), UNCHANGED <<kind, pc, told, opening, threw>>, verdict'[u] = verdict[u]
  PROVE  UploadInv(u)'
<1> USE DEF ProcessDelete, Unlink, Entries, UploadInv, TypeOK, Form, Pending, Against
<1>1. CASE row[u] /\ u \in S
  <2>1. excused \subseteq excused'
    OBVIOUS
  <2>2. \/ ~row'[u] /\ (file'[u] = "none" \/ u \in excused')
        \/ row'[u] /\ file'[u] = "none" /\ u \in excused'
    BY <1>1
  <2>3. PlaceInv(u)'
    BY <1>1, <2>1, <2>2 DEF PlaceInv
  <2>4. FilterInv(u)'
    BY <1>1 DEF PlaceInv, FilterInv
  <2>5. PassInv(u)'
    BY <1>1, <2>2 DEF PlaceInv, PassInv
  <2>6. LeftInv(u)'
    BY <1>1, <2>2 DEF PlaceInv, LeftInv
  <2>7. ClashInv(u)'
    BY <1>1 DEF PlaceInv, ClashInv
  <2>8. QED
    BY <2>3, <2>4, <2>5, <2>6, <2>7
<1>2. CASE ~(row[u] /\ u \in S)
  BY <1>2, Untouched DEF Same, Grows
<1>3. QED
  BY <1>1, <1>2

\* A crash ends what was on its way.
LEMMA Crashed ==
  ASSUME TypeOK, NEW u \in Uploads, UploadInv(u), Crash
  PROVE  UploadInv(u)'
<1> USE DEF Crash, UploadInv, TypeOK, InFlight, Form, Pending, Against, Filters, table
<1>1. PlaceInv(u)' /\ FilterInv(u)' /\ PassInv(u)'
  BY DEF PlaceInv, FilterInv, PassInv
<1>2. LeftInv(u)'
  BY DEF LeftInv, PlaceInv
<1>3. ClashInv(u)'
  BY DEF ClashInv, PlaceInv
<1>4. QED
  BY <1>1, <1>2, <1>3

-----------------------------------------------------------------------------
(* All uploads.                                                             *)

LEMMA UploadsKept ==
  ASSUME TypeOK, StagesInv, \A u \in Uploads : UploadInv(u), [Next]_vars
  PROVE  \A u \in Uploads : UploadInv(u)'
<1> USE DEF table, blocking, reputation, Elsewhere
<1>1. ASSUME NEW u \in Uploads,
             Use(u) \/ HandleFile(u) \/ Opened(u) \/ Receive(u) \/ Flushed(u) \/ Fetch(u)
      PROVE  \A v \in Uploads : UploadInv(v)'
  <2>1. Grows
    BY <1>1 DEF Grows, Use, HandleFile, Opened, Receive, StreamTooBig, StreamError, StreamEnd,
                Flushed, Fetch, Excuse
  <2>2. \A v \in Uploads \ {u} : Same(v)
    BY <1>1 DEF Same, TypeOK, Goto, Answer, Write, Use, HandleFile, Opened, Receive, StreamTooBig,
                StreamError, StreamEnd, Flushed, Fetch, StartFilters
  <2>3. QED
    BY <1>1, <2>1, <2>2, ComesIn, OneUpload
<1>2. ASSUME NEW u \in Uploads, NEW f \in Filters, DoFilter(u, f) \/ FileExists(u, f) \/ DeleteFile(u, f)
      PROVE  \A v \in Uploads : UploadInv(v)'
  <2>1. Grows
    BY <1>2 DEF Grows, DoFilter, FileExists, DeleteFile
  <2>2. \A v \in Uploads \ {u} : Same(v)
    BY <1>2 DEF Same, TypeOK, Judge, Write, DoFilter, FileExists, DeleteFile
  <2>3. QED
    BY <1>2, <2>1, <2>2, Judged, OneUpload
<1>3. ASSUME NEW u \in Uploads, FilterFile(u) \/ SaveEntry(u)
      PROVE  \A v \in Uploads : UploadInv(v)'
  <2>1. Grows
    BY <1>3 DEF Grows, FilterFile, SaveEntry
  <2>2. \A v \in Uploads \ {u} : Same(v)
    BY <1>3 DEF Same, TypeOK, Goto, Answer, Write, RemoveRefused, FilterFile, SaveEntry
  <2>3. QED
    BY <1>3, <2>1, <2>2, Answered, OneUpload
<1>4. ASSUME NEW b \in Blockers, InsertBlock(b) \/ ReadEntries(b)
      PROVE  \A v \in Uploads : UploadInv(v)'
  <2>1. Grows /\ UNCHANGED <<pc, told, file, row, opening>>
    BY <1>4 DEF Grows, InsertBlock, ReadEntries
  <2>2. \A v \in Uploads : verdict'[v] = verdict[v] \/ (v = b /\ Judge(v, "name", "exists") /\ stage[v] # "idle")
    BY <1>4 DEF InsertBlock, ReadEntries, BlockEnds, TypeOK, Judge
  <2>3. QED
    BY <2>1, <2>2, Untouched, BlockEnded DEF StagesInv, Same
<1>5. ASSUME NEW b \in Blockers, RemoveEntries(b)
      PROVE  \A v \in Uploads : UploadInv(v)'
  <2>1. UNCHANGED <<kind, pc, told, opening, threw>> /\ doomed[b] \subseteq Uploads
    BY <1>5 DEF RemoveEntries, TypeOK
  <2>2. ProcessDelete(doomed[b], {}) /\ Grows
    BY <1>5 DEF RemoveEntries, ProcessDelete, Grows
  <2>3. ASSUME NEW v \in Uploads, verdict'[v] = verdict[v]
        PROVE  UploadInv(v)'
    BY <2>1, <2>2, <2>3, Deleted
  <2>4. ASSUME NEW v \in Uploads, verdict'[v] # verdict[v]
        PROVE  UploadInv(v)'
    <3>1. verdict[v]["name"] = "blocking" /\ Judge(v, "name", "exists")
      BY <1>5, <2>4 DEF RemoveEntries, BlockEnds, TypeOK, Judge, StagesInv
    <3>2. ~row[v]
      BY <3>1 DEF UploadInv, PlaceInv, Filters
    <3>3. file'[v] = file[v] /\ row'[v] = row[v]
      BY <2>2, <3>2 DEF ProcessDelete, Unlink, TypeOK
    <3>4. QED
      BY <2>1, <2>2, <3>1, <3>3, BlockEnded
  <2>5. QED
    BY <2>3, <2>4
<1>6. CASE TrackerExpires \/ AdminBlock \/ RemoveBlockedIps \/ ProcessFiles \/ UNCHANGED vars
  BY <1>6, Untouched DEF Same, Grows, TrackerExpires, AdminBlock, RemoveBlockedIps, ProcessFiles, vars
<1>7. ASSUME NEW B \in SUBSET Uploads, LookedUp(B)
      PROVE  \A v \in Uploads : UploadInv(v)'
  <2>1. PICK failed \in SUBSET B : ProcessDelete({u \in B \ failed : kind[u].malicious}, failed)
    BY <1>7 DEF LookedUp
  <2>2. UNCHANGED <<kind, pc, told, opening, threw, verdict>>
    BY <1>7 DEF LookedUp
  <2>3. {u \in B \ failed : kind[u].malicious} \in SUBSET Uploads
    OBVIOUS
  <2>4. QED
    BY <2>1, <2>2, <2>3, Deleted
<1>8. CASE Crash
  BY <1>8, Crashed
<1>9. QED
  BY <1>1, <1>2, <1>3, <1>4, <1>5, <1>6, <1>7, <1>8
  DEF Next, Proceed, Filter, BlockIp, LookUp

-----------------------------------------------------------------------------
(* Types, blocks, and the queue.                                            *)

UploadTypes ==
  /\ kind \in [Uploads -> Kinds]
  /\ pc \in [Uploads -> {"new", "limit", "fetch", "stream", "flush", "filter", "save", "done"}]
  /\ told \in [Uploads -> {"nothing", "created", "refused", "error"}]
  /\ file \in [Uploads -> {"none", "partial", "whole"}]
  /\ row \in [Uploads -> BOOLEAN]
  /\ opening \subseteq Uploads /\ threw \subseteq Uploads

VerdictTypes == verdict \in [Uploads -> [Filters -> Verdicts]]

BlockTypes ==
  /\ blocked \in BOOLEAN /\ spared \subseteq Uploads
  /\ stage \in [Blockers -> {"idle", "insert", "insertOnly", "read", "remove"}]
  /\ doomed \in [Blockers -> SUBSET Uploads]

NumberTypes == tracker \in 0..Threshold /\ blocks \in 0..MaxBlocks /\ faults \in 0..MaxFaults

QueueTypes ==
  queue \in Seq(Uploads) /\ looking \subseteq SUBSET Uploads /\ excused \subseteq Uploads

AllTypes == UploadTypes /\ VerdictTypes /\ BlockTypes /\ NumberTypes /\ QueueTypes

LEMMA TypesAre == (TypeOK <=> AllTypes) /\ (TypeOK' <=> AllTypes')
BY DEF TypeOK, AllTypes, UploadTypes, VerdictTypes, BlockTypes, NumberTypes, QueueTypes

LEMMA TypesKept ==
  ASSUME TypeOK, [Next]_vars
  PROVE  TypeOK'
<1> USE DEF table, blocking, reputation, Elsewhere
<1> USE DEF AllTypes
<1>0. UploadTypes /\ VerdictTypes /\ BlockTypes /\ NumberTypes /\ QueueTypes
  BY TypesAre
<1>1. ASSUME NEW u \in Uploads,
             Use(u) \/ HandleFile(u) \/ Opened(u) \/ Receive(u) \/ Flushed(u) \/ Fetch(u)
             \/ FilterFile(u)
      PROVE  TypeOK'
  <2> USE DEF Use, HandleFile, Opened, Receive, StreamTooBig, StreamError, StreamEnd, Flushed, Fetch,
              StartFilters, FilterFile
  <2>1. UploadTypes'
    BY <1>0, <1>1 DEF UploadTypes, Goto, Answer, Write, RemoveRefused
  <2>2. VerdictTypes'
    BY <1>0, <1>1 DEF VerdictTypes, Verdicts
  <2>3. BlockTypes' /\ NumberTypes'
    BY <1>0, <1>1 DEF BlockTypes, NumberTypes
  <2>4. QueueTypes'
    BY <1>0, <1>1 DEF QueueTypes, Excuse
  <2>5. QED
    BY <2>1, <2>2, <2>3, <2>4, TypesAre
<1>2. ASSUME NEW u \in Uploads, NEW f \in Filters, DoFilter(u, f) \/ FileExists(u, f) \/ DeleteFile(u, f)
      PROVE  TypeOK'
  <2> USE DEF DoFilter, FileExists, DeleteFile
  <2>1. UploadTypes'
    BY <1>0, <1>2 DEF UploadTypes, Write
  <2>2. \E v \in Verdicts : Judge(u, f, v)
    BY <1>2 DEF Verdicts
  <2>3. VerdictTypes'
    BY <1>0, <2>2 DEF VerdictTypes, Judge
  <2>4. BlockTypes'
    BY <1>0, <1>2 DEF BlockTypes, Blockers
  <2>5. NumberTypes'
    BY <1>0, <1>2, NumbersAssumption DEF NumberTypes, TooMany
  <2>6. QueueTypes'
    BY <1>0, <1>2 DEF QueueTypes
  <2>7. QED
    BY <2>1, <2>3, <2>4, <2>5, <2>6, TypesAre
<1>3. ASSUME NEW u \in Uploads, SaveEntry(u)
      PROVE  TypeOK'
  <2> USE DEF SaveEntry
  <2>1. UploadTypes'
    BY <1>0, <1>3 DEF UploadTypes, Answer, Write, RemoveRefused
  <2>2. VerdictTypes' /\ BlockTypes' /\ NumberTypes'
    BY <1>0, <1>3 DEF VerdictTypes, BlockTypes, NumberTypes
  <2>3. Append(queue, u) \in Seq(Uploads)
    BY <1>0 DEF QueueTypes
  <2>4. queue' \in {queue, Append(queue, u)}
    BY <1>3
  <2>5. QueueTypes'
    BY <1>0, <1>3, <2>3, <2>4 DEF QueueTypes
  <2>6. QED
    BY <2>1, <2>2, <2>5, TypesAre
<1>4. ASSUME NEW b \in Blockers, BlockIp(b)
      PROVE  TypeOK'
  <2> USE DEF BlockIp, InsertBlock, ReadEntries, RemoveEntries, BlockEnds, ProcessDelete, Unlink
  <2>1. UploadTypes'
    BY <1>0, <1>4 DEF UploadTypes
  <2>2. VerdictTypes'
    BY <1>0, <1>4 DEF VerdictTypes, Judge, Verdicts, Filters
  <2>3. BlockTypes'
    BY <1>0, <1>4 DEF BlockTypes, Entries, InFlight
  <2>4. NumberTypes' /\ QueueTypes'
    BY <1>0, <1>4, NumbersAssumption DEF NumberTypes, QueueTypes, BlockTypes, Entries
  <2>5. QED
    BY <2>1, <2>2, <2>3, <2>4, TypesAre
<1>5. CASE TrackerExpires \/ RemoveBlockedIps \/ AdminBlock \/ UNCHANGED vars
  <2> USE DEF TrackerExpires, RemoveBlockedIps, AdminBlock, vars
  <2>1. UploadTypes' /\ VerdictTypes' /\ QueueTypes'
    BY <1>0, <1>5 DEF UploadTypes, VerdictTypes, QueueTypes
  <2>2. BlockTypes'
    BY <1>0, <1>5 DEF BlockTypes
  <2>3. NumberTypes'
    BY <1>0, <1>5, NumbersAssumption DEF NumberTypes
  <2>4. QED
    BY <2>1, <2>2, <2>3, TypesAre
<1>6. CASE ProcessFiles
  <2> USE DEF ProcessFiles
  <2>1. UploadTypes' /\ VerdictTypes' /\ BlockTypes' /\ NumberTypes'
    BY <1>0, <1>6 DEF UploadTypes, VerdictTypes, BlockTypes, NumberTypes
  <2>2. queue' \in Seq(Uploads)
    BY <1>0, <1>6, NumbersAssumption DEF Rest, QueueTypes
  <2>3. Batch \subseteq Uploads
    BY <1>0 DEF Batch, QueueTypes
  <2>4. QueueTypes'
    BY <1>0, <1>6, <2>2, <2>3 DEF QueueTypes
  <2>5. QED
    BY <2>1, <2>4, TypesAre
<1>7. ASSUME NEW B \in SUBSET Uploads, LookedUp(B)
      PROVE  TypeOK'
  <2> USE DEF LookedUp, ProcessDelete, Unlink
  <2>1. UploadTypes'
    BY <1>0, <1>7 DEF UploadTypes
  <2>2. VerdictTypes' /\ BlockTypes' /\ NumberTypes'
    BY <1>0, <1>7, NumbersAssumption DEF VerdictTypes, BlockTypes, NumberTypes
  <2>3. QueueTypes'
    BY <1>0, <1>7 DEF QueueTypes, Entries
  <2>4. QED
    BY <2>1, <2>2, <2>3, TypesAre
<1>8. CASE Crash
  <2> USE DEF Crash
  <2>1. UploadTypes'
    BY <1>0, <1>8 DEF UploadTypes
  <2>2. VerdictTypes'
    BY <1>0, <1>8 DEF VerdictTypes, Verdicts
  <2>3. BlockTypes'
    BY <1>0, <1>8 DEF BlockTypes, Entries
  <2>4. NumberTypes'
    BY <1>0, <1>8, NumbersAssumption DEF NumberTypes
  <2>5. Queued \subseteq Uploads
    BY <1>0 DEF Queued, QueueTypes
  <2>6. QueueTypes'
    BY <1>0, <1>8, <2>5 DEF QueueTypes, InFlight
  <2>7. QED
    BY <2>1, <2>2, <2>3, <2>4, <2>6, TypesAre
<1>9. QED
  BY <1>1, <1>2, <1>3, <1>4, <1>5, <1>6, <1>7, <1>8
  DEF Next, Proceed, Filter, LookUp

\* A block belongs to one filter of names, or to the administrator.
LEMMA StagesKept ==
  ASSUME TypeOK, \A u \in Uploads : UploadInv(u), StagesInv, [Next]_vars
  PROVE  StagesInv'
<1> USE DEF TypeOK, StagesInv, table, blocking, reputation, Elsewhere, Judge, Filters, Blockers
<1>1. ASSUME NEW u \in Uploads,
             Use(u) \/ HandleFile(u) \/ Opened(u) \/ Receive(u) \/ Flushed(u) \/ Fetch(u)
             \/ FilterFile(u) \/ SaveEntry(u)
      PROVE  StagesInv'
  <2>1. stage' = stage
    BY <1>1 DEF Use, HandleFile, Opened, Receive, StreamTooBig, StreamError, StreamEnd, Flushed, Fetch,
                FilterFile, SaveEntry
  <2>2. verdict' = verdict \/ (pc[u] \in {"flush", "fetch"} /\ StartFilters(u))
    BY <1>1 DEF Use, HandleFile, Opened, Receive, StreamTooBig, StreamError, StreamEnd, Flushed, Fetch,
                FilterFile, SaveEntry
  <2>3. pc[u] \in {"flush", "fetch"} => verdict[u]["name"] = "none"
    BY DEF UploadInv, PlaceInv
  <2>4. QED
    BY <2>1, <2>2, <2>3 DEF StartFilters
<1>2. ASSUME NEW u \in Uploads, NEW f \in Filters, DoFilter(u, f) \/ FileExists(u, f) \/ DeleteFile(u, f)
      PROVE  StagesInv'
  <2>1. CASE DoFilter(u, f)
    <3>1. verdict[u][f] = "running" /\ (\A v \in Uploads \ {u} : verdict'[v] = verdict[v] /\ stage'[v] = stage[v])
      BY <2>1 DEF DoFilter
    <3>2. \A g \in Filters \ {f} : verdict'[u][g] = verdict[u][g]
      BY <2>1 DEF DoFilter
    <3>3. stage'[u] = stage[u] \/ (f = "name" /\ verdict'[u][f] = "blocking")
      BY <2>1 DEF DoFilter
    <3>4. QED
      BY <3>1, <3>2, <3>3
  <2>2. CASE FileExists(u, f) \/ DeleteFile(u, f)
    <3>1. verdict[u][f] \in {"exists", "rm"} /\ (\A v \in Uploads \ {u} : verdict'[v] = verdict[v])
      BY <2>2 DEF FileExists, DeleteFile
    <3>2. \A g \in Filters \ {f} : verdict'[u][g] = verdict[u][g]
      BY <2>2 DEF FileExists, DeleteFile
    <3>3. stage' = stage
      BY <2>2 DEF FileExists, DeleteFile
    <3>4. QED
      BY <3>1, <3>2, <3>3
  <2>3. QED
    BY <1>2, <2>1, <2>2
<1>3. ASSUME NEW b \in Blockers, BlockIp(b)
      PROVE  StagesInv'
  BY <1>3 DEF BlockIp, InsertBlock, ReadEntries, RemoveEntries, BlockEnds
<1>4. CASE AdminBlock
  BY <1>4, AdminAssumption DEF AdminBlock
<1>5. CASE TrackerExpires \/ RemoveBlockedIps \/ ProcessFiles \/ LookUp \/ UNCHANGED vars
  BY <1>5 DEF TrackerExpires, RemoveBlockedIps, ProcessFiles, LookUp, LookedUp, vars
<1>6. CASE Crash
  BY <1>6 DEF Crash
<1>7. QED
  BY <1>1, <1>2, <1>3, <1>4, <1>5, <1>6 DEF Next, Proceed, Filter

\* Nothing gets in behind a block.
LEMMA BlocksKept ==
  ASSUME TypeOK, \A u \in Uploads : UploadInv(u), StagesInv, BlockInv, [Next]_vars
  PROVE  BlockInv'
<1> USE DEF TypeOK, BlockInv, InFlight, Entries, Removes, table, blocking, reputation, Elsewhere
<1>1. ASSUME NEW u \in Uploads,
             Use(u) \/ HandleFile(u) \/ Opened(u) \/ Receive(u) \/ Flushed(u) \/ Fetch(u)
             \/ FilterFile(u)
      PROVE  BlockInv'
  <2>1. UNCHANGED <<row, blocking>>
    BY <1>1 DEF Use, HandleFile, Opened, Receive, StreamTooBig, StreamError, StreamEnd, Flushed, Fetch,
                FilterFile, Write, RemoveRefused
  <2>2. \A v \in Uploads \ {u} : pc'[v] = pc[v]
    BY <1>1 DEF Use, HandleFile, Opened, Receive, StreamTooBig, StreamError, StreamEnd, Flushed, Fetch,
                FilterFile, StartFilters, Goto, Answer
  <2>3. CASE Use(u)
    BY <2>1, <2>2, <2>3 DEF Use, CheckIp, Answer
  <2>4. CASE ~Use(u)
    <3>1. pc'[u] = pc[u] \/ pc[u] \notin {"new", "done"}
      BY <1>1, <2>4 DEF HandleFile, Opened, Receive, StreamTooBig, StreamError, StreamEnd, Flushed, Fetch,
                        FilterFile
    <3>2. QED
      BY <2>1, <2>2, <3>1
  <2>5. QED
    BY <2>3, <2>4
<1>2. ASSUME NEW u \in Uploads, SaveEntry(u)
      PROVE  BlockInv'
  <2>1. UNCHANGED blocking /\ pc[u] \notin {"new", "done"}
    BY <1>2 DEF SaveEntry
  <2>2. \A v \in Uploads \ {u} : pc'[v] = pc[v] /\ row'[v] = row[v]
    BY <1>2 DEF SaveEntry, Answer, Write, RemoveRefused
  <2>3. QED
    BY <2>1, <2>2
<1>3. ASSUME NEW u \in Uploads, NEW f \in Filters, DoFilter(u, f) \/ FileExists(u, f) \/ DeleteFile(u, f)
      PROVE  BlockInv'
  <2>1. UNCHANGED <<pc, row, blocked, doomed, spared>>
    BY <1>3 DEF DoFilter, FileExists, DeleteFile, Write
  <2>2. \A b \in Blockers : stage'[b] = stage[b] \/ (b = u /\ verdict[u]["name"] = "running")
    BY <1>3 DEF DoFilter, FileExists, DeleteFile, Blockers
  <2>3. \A b \in Blockers, v \in Uploads : Removes(b, v) => Removes(b, v)'
    BY <2>1, <2>2 DEF StagesInv
  <2>4. QED
    BY <2>1, <2>3
<1>4. ASSUME NEW b \in Blockers, InsertBlock(b)
      PROVE  BlockInv'
  <2>1. CASE blocked
    BY <1>4, <2>1 DEF InsertBlock, BlockEnds
  <2>2. CASE ~blocked
    BY <1>4, <2>2 DEF InsertBlock
  <2>3. QED
    BY <2>1, <2>2
<1>5. ASSUME NEW b \in Blockers, ReadEntries(b)
      PROVE  BlockInv'
  BY <1>5 DEF ReadEntries
<1>6. ASSUME NEW b \in Blockers, RemoveEntries(b)
      PROVE  BlockInv'
  <2>1. /\ UNCHANGED <<pc, blocked>> /\ spared \subseteq spared'
        /\ \A u \in Uploads : row'[u] => row[u] /\ (u \notin doomed[b] \/ u \in spared')
        /\ \A d \in Blockers \ {b} : stage'[d] = stage[d] /\ doomed'[d] = doomed[d]
    BY <1>6 DEF RemoveEntries, BlockEnds, ProcessDelete
  <2>2. stage[b] = "remove"
    BY <1>6 DEF RemoveEntries
  <2>3. \A u \in Entries' : u \in Entries /\ (u \notin doomed[b] \/ u \in spared')
    BY <2>1
  <2>4. ASSUME NEW u \in Entries', u \notin spared', NEW d \in Blockers, Removes(d, u)
        PROVE  Removes(d, u)'
    BY <2>1, <2>2, <2>3, <2>4
  <2> QED
    BY <2>1, <2>3, <2>4
<1>7. CASE AdminBlock
  BY <1>7 DEF AdminBlock, Blockers
<1>8. CASE TrackerExpires \/ RemoveBlockedIps \/ ProcessFiles \/ UNCHANGED vars
  BY <1>8 DEF TrackerExpires, RemoveBlockedIps, ProcessFiles, vars
<1>9. ASSUME NEW B \in SUBSET Uploads, LookedUp(B)
      PROVE  BlockInv'
  BY <1>9 DEF LookedUp, ProcessDelete
<1>10. CASE Crash
  BY <1>10 DEF Crash
<1>11. QED
  BY <1>1, <1>2, <1>3, <1>4, <1>5, <1>6, <1>7, <1>8, <1>9, <1>10
  DEF Next, Proceed, Filter, BlockIp, LookUp

\* A file that is put in the queue is in it, with those that were.
LEMMA QueueOfAppend ==
  ASSUME queue \in Seq(Uploads), NEW u \in Uploads, queue' = Append(queue, u)
  PROVE  Queued \cup {u} \subseteq Queued'
<1>1. ASSUME NEW i \in DOMAIN queue
      PROVE  i \in DOMAIN queue' /\ queue'[i] = queue[i]
  OBVIOUS
<1>2. Len(queue) + 1 \in DOMAIN queue' /\ queue'[Len(queue) + 1] = u
  OBVIOUS
<1>3. QED
  BY <1>1, <1>2 DEF Queued

\* What is queued is in the next batch or stays in the queue.
LEMMA QueueInParts ==
  ASSUME queue \in Seq(Uploads), queue' = Rest
  PROVE  Queued \subseteq Batch \cup Queued'
<1>1. ASSUME NEW i \in DOMAIN queue, i > BatchSize
      PROVE  i - BatchSize \in DOMAIN queue' /\ queue'[i - BatchSize] = queue[i]
  BY <1>1, NumbersAssumption DEF Rest
<1>2. ASSUME NEW i \in DOMAIN queue, i <= BatchSize
      PROVE  queue[i] \in Batch
  BY <1>2 DEF Batch
<1>3. ASSUME NEW i \in DOMAIN queue, i > BatchSize
      PROVE  queue[i] \in Queued'
  BY <1>1, <1>3 DEF Queued
<1>4. \A i \in DOMAIN queue : i > BatchSize \/ i <= BatchSize
  BY NumbersAssumption
<1>5. QED
  BY <1>2, <1>3, <1>4 DEF Queued

\* No run of the reputation service drops a file.
LEMMA QueueKept ==
  ASSUME TypeOK, NoneForgotten, [Next]_vars
  PROVE  NoneForgotten'
<1> USE DEF NoneForgotten, table, blocking, reputation, Elsewhere
<1> DEFINE Held == Queued \cup (UNION looking) \cup excused
<1>1. queue \in Seq(Uploads) /\ row \in [Uploads -> BOOLEAN]
  BY DEF TypeOK
<1>2. SUFFICES ASSUME NEW v \in Uploads, row'[v], kind'[v].malicious
               PROVE  v \in Held'
  OBVIOUS
<1>3. kind' = kind
  BY DEF Next, Proceed, Use, HandleFile, Opened, Receive, StreamTooBig, StreamError, StreamEnd, Flushed,
         Fetch, Filter, DoFilter, FileExists, DeleteFile, FilterFile, SaveEntry, BlockIp, InsertBlock,
         ReadEntries, RemoveEntries, TrackerExpires, AdminBlock, RemoveBlockedIps, ProcessFiles, LookUp,
         LookedUp, Crash, vars
<1>4. ASSUME NEW u \in Uploads,
             Use(u) \/ HandleFile(u) \/ Opened(u) \/ Receive(u) \/ Flushed(u) \/ Fetch(u)
             \/ Filter(u) \/ FilterFile(u)
      PROVE  v \in Held'
  <2>1. UNCHANGED <<row, queue, looking>> /\ excused \subseteq excused'
    BY <1>4 DEF Use, HandleFile, Opened, Receive, StreamTooBig, StreamError, StreamEnd, Flushed, Fetch,
                Filter, DoFilter, FileExists, DeleteFile, FilterFile, Write, RemoveRefused, Excuse
  <2>2. QED
    BY <1>2, <1>3, <2>1 DEF Queued
<1>5. ASSUME NEW u \in Uploads, SaveEntry(u)
      PROVE  v \in Held'
  <2>1. UNCHANGED <<looking, excused>>
    BY <1>5 DEF SaveEntry
  <2>2. CASE row' = row
    <3>1. Queued \subseteq Queued'
      BY <1>1, <1>5, QueueOfAppend DEF SaveEntry, Queued
    <3>2. QED
      BY <1>2, <1>3, <2>1, <2>2, <3>1
  <2>3. CASE row' = [row EXCEPT ![u] = TRUE]
            /\ queue' = IF kind[u].malicious THEN Append(queue, u) ELSE queue
    <3>1. Queued \subseteq Queued' /\ (kind[u].malicious => u \in Queued')
      BY <1>1, <2>3, QueueOfAppend DEF Queued
    <3>2. v # u => row[v]
      BY <1>1, <1>2, <2>3
    <3>3. QED
      BY <1>2, <1>3, <2>1, <3>1, <3>2
  <2>4. QED
    BY <1>5, <2>2, <2>3 DEF SaveEntry, Write, RemoveRefused
<1>6. ASSUME NEW b \in Blockers, BlockIp(b)
      PROVE  v \in Held'
  <2>1. UNCHANGED <<queue, looking>> /\ excused \subseteq excused'
    BY <1>6 DEF BlockIp, InsertBlock, ReadEntries, RemoveEntries, ProcessDelete
  <2>2. row[v]
    BY <1>1, <1>2, <1>6 DEF BlockIp, InsertBlock, ReadEntries, RemoveEntries, ProcessDelete
  <2>3. QED
    BY <1>2, <1>3, <2>1, <2>2 DEF Queued
<1>7. CASE TrackerExpires \/ AdminBlock \/ RemoveBlockedIps \/ UNCHANGED vars
  BY <1>2, <1>3, <1>7 DEF TrackerExpires, AdminBlock, RemoveBlockedIps, vars, Queued
<1>8. CASE ProcessFiles
  <2>1. queue' = Rest /\ looking' = looking \cup {Batch} /\ UNCHANGED <<row, excused>>
    BY <1>8 DEF ProcessFiles
  <2>2. Queued \subseteq Batch \cup Queued'
    BY <1>1, <2>1, QueueInParts
  <2>3. UNION looking \subseteq UNION looking' /\ Batch \subseteq UNION looking'
    BY <2>1
  <2>4. QED
    BY <1>2, <1>3, <2>1, <2>2, <2>3
<1>9. ASSUME NEW B \in SUBSET Uploads, LookedUp(B)
      PROVE  v \in Held'
  <2>1. PICK failed \in SUBSET B : ProcessDelete({u \in B \ failed : kind[u].malicious}, failed)
    BY <1>9 DEF LookedUp
  <2>2. looking' = looking \ {B} /\ queue' = queue
    BY <1>9 DEF LookedUp
  <2>3. row[v] /\ excused \subseteq excused' /\ (v \in B => v \in excused')
    BY <1>1, <1>2, <1>3, <2>1 DEF ProcessDelete
  <2>4. v \in Queued \/ v \in excused \/ \E C \in looking : v \in C
    BY <1>2, <1>3, <2>3
  <2>5. CASE v \in Queued \/ v \in excused \/ v \in B
    BY <2>2, <2>3, <2>5 DEF Queued
  <2>6. CASE \E C \in looking \ {B} : v \in C
    BY <2>2, <2>6
  <2>7. QED
    BY <2>4, <2>5, <2>6
<1>10. CASE Crash
  <2>1. row' = row
    BY <1>10 DEF Crash
  <2>2. v \in excused \cup Queued \cup UNION looking
    BY <1>2, <1>3, <2>1
  <2>3. v \in excused'
    BY <1>10, <2>2, Zenon DEF Crash
  <2>4. QED
    BY <2>3
<1>11. QED
  BY <1>4, <1>5, <1>6, <1>7, <1>8, <1>9, <1>10 DEF Next, Proceed, LookUp

-----------------------------------------------------------------------------
(* Theorems.                                                                *)

LEMMA InitInv == Init => IntakeInv
<1> SUFFICES ASSUME Init PROVE IntakeInv
  OBVIOUS
<1> USE DEF Init
<1>1. UploadTypes /\ VerdictTypes /\ BlockTypes
  BY DEF UploadTypes, VerdictTypes, BlockTypes, Verdicts
<1>2. NumberTypes /\ QueueTypes
  BY NumbersAssumption DEF NumberTypes, QueueTypes
<1>3. \A u \in Uploads : UploadInv(u)
  BY DEF UploadInv, PlaceInv, FilterInv, PassInv, LeftInv, ClashInv, Pending, Against
<1>4. StagesInv /\ BlockInv /\ NoneForgotten
  BY DEF StagesInv, BlockInv, NoneForgotten, Blockers
<1>5. QED
  BY <1>1, <1>2, <1>3, <1>4, TypesAre DEF AllTypes, IntakeInv

\* The inductive invariant holds in every reachable state: what is at hand of each upload, which
\* rows a block leaves, and where malicious files wait.
THEOREM IntakeInvariant == Spec => []IntakeInv
<1>1. IntakeInv /\ [Next]_vars => IntakeInv'
  BY UploadsKept, TypesKept, StagesKept, BlocksKept, QueueKept DEF IntakeInv
<1>2. QED
  BY InitInv, <1>1, PTL DEF Spec

\* An upload has a row only for all of its file, however filters, blocks and streams interleave,
\* unless the database kept the row of a file that was removed (SaveEntry, DeleteFile, Flushed).
THEOREM AcceptedHasItsFile == Spec => []AcceptedIsWhole
<1>1. IntakeInv => AcceptedIsWhole
  BY DEF IntakeInv, UploadInv, PlaceInv, AcceptedIsWhole
<1>2. QED
  BY IntakeInvariant, <1>1, PTL

\* Two different verdicts that are none to pass are two filters that clash.
LEMMA TwoAreMany ==
  ASSUME NEW u \in Uploads, NEW f \in Filters, NEW g \in Filters, f # g,
         {verdict[u][f], verdict[u][g]} \subseteq Against \cup {"none"}
  PROVE  Cardinality({h \in Filters : verdict[u][h] # "pass"}) > 1
<1> DEFINE S == {h \in Filters : verdict[u][h] # "pass"}
<1>1. IsFiniteSet(S)
  <2>1. IsFiniteSet({"name"} \cup {"av"} \cup {"mime"})
    BY FS_Singleton, FS_Union
  <2>2. S \subseteq {"name"} \cup {"av"} \cup {"mime"}
    BY DEF Filters
  <2>3. QED
    BY <2>1, <2>2, FS_Subset
<1>2. {f, g} \subseteq S /\ IsFiniteSet({f, g}) /\ Cardinality({f, g}) = 2
  <2>1. IsFiniteSet({f}) /\ Cardinality({f}) = 1
    BY FS_Singleton
  <2>2. {f, g} = {f} \cup {g} /\ g \notin {f}
    OBVIOUS
  <2>3. /\ IsFiniteSet({f} \cup {g})
        /\ Cardinality({f} \cup {g}) = IF g \in {f} THEN Cardinality({f}) ELSE Cardinality({f}) + 1
    BY <2>1, FS_AddElement
  <2>4. IsFiniteSet({f, g}) /\ Cardinality({f, g}) = 2
    BY <2>1, <2>2, <2>3
  <2>5. QED
    BY <2>4 DEF Against
<1>3. QED
  BY <1>1, <1>2, FS_Subset, FS_CardinalityType

\* A refusal leaves no file, lets nothing bad in, and is told for what it is, but for the named
\* reasons; and every variable keeps its type (FilterFile, SaveEntry, ProcessUploadError).
THEOREM RefusalsLeaveNothing == Spec => []RefusalsAreWhole
<1>1. IntakeInv => RefusedLeavesNothing
  BY DEF IntakeInv, UploadInv, LeftInv, RefusedLeavesNothing
<1>2. IntakeInv => OnlyUrlsUnfiltered
  BY DEF IntakeInv, UploadInv, PassInv, OnlyUrlsUnfiltered
<1>3. IntakeInv => ErrorsAreClashes
  BY TwoAreMany DEF IntakeInv, UploadInv, ClashInv, ErrorsAreClashes
<1>4. IntakeInv => RefusalsAreWhole
  BY <1>1, <1>2, <1>3 DEF RefusalsAreWhole, IntakeInv
<1>5. QED
  BY IntakeInvariant, <1>4, PTL

\* Once a block is through, its IP has nothing here but what was on its way, what it was not asked
\* to remove, and what a crash or the database kept (blockIp, useFilter).
THEOREM BlockedIsOut == Spec => []BlockedStaysOut
<1>1. IntakeInv => BlockedStaysOut
  BY DEF IntakeInv, BlockInv, Removes, BlockedStaysOut
<1>2. QED
  BY IntakeInvariant, <1>1, PTL

\* No malicious file with a row is forgotten by the runs of the reputation service.
THEOREM AllAreLookedUp == Spec => []NoneForgotten
<1>1. IntakeInv => NoneForgotten
  BY DEF IntakeInv
<1>2. QED
  BY IntakeInvariant, <1>1, PTL
=============================================================================
