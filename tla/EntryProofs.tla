---------------------------- MODULE EntryProofs ----------------------------
(***************************************************************************)
(* Theorems about Entry, for any passwords, processes and requests.  Until *)
(* something excuses it a copy in a cache is the row (Coherent), and until *)
(* something parts them the file is encrypted as its row says (Together):  *)
(* both say of whom the state waits for, and what is to be true then.      *)
(***************************************************************************)
EXTENDS Entry, TLAPS

\* What a request has rewritten and what it wants, by where it is.
RequestsInv ==
  \A r \in Requests :
    /\ key[r] \in ids
    /\ out[r] # NoFile => pc[r] \in {"writeFile", "save"} /\ goal[r] # Keep
    /\ pc[r] \in {"readFile", "writeFile"} => goal[r] # Keep
    /\ pc[r] = "writeFile" => out[r] # NoFile
    /\ pc[r] = "fill" /\ op[r] # "modify" => goal[r] = Keep
    /\ pc[r] = "save" /\ out[r] = NoFile => goal[r] = Keep \/ (goal[r] = Open /\ model[r] = {Open})

\* Only the ids that are read under are in Redis.
CacheInv == "entry" \in ids /\ \A k \in CacheKeys : cache[k] # {} => k \in ids

Writers == {r \in Requests : pc[r] \in {"clear", "remove"}}

\* Until something excuses an old model: one request at a time; a copy that can be cleared is known
\* to a process that clears it; it is the row, unless who changed the row is to clear it; and who
\* has read has read the row.
Coherent ==
  /\ \A q, r \in Active : q = r
  /\ \A k \in Tracked : cache[k] # {} => \E p \in Procs : k \in known[p]
  /\ Writers = {} => \A k \in Tracked : cache[k] \subseteq {row}
  /\ \A r \in Requests :
       /\ pc[r] \in {"fill", "readFile", "writeFile", "save"} => model[r] = row
       /\ pc[r] = "forget" => \A k \in Tracked : cache[k] = {}

\* Requests that have rewritten the file and will save its password.
Pending == {r \in Requests : pc[r] = "save" /\ out[r] # NoFile}

\* What the row will be when they have.
Coming == IF Pending = {} THEN row ELSE {goal[r] : r \in Pending}

\* Until something parts row and file: one rewrites at a time; unless its model is old by now, the
\* file holds what the row will say; and what is to be written was made of it.
Together ==
  /\ \A q, r \in Pending : q = r
  /\ (\A r \in Pending : ~Stale(r)) =>
       /\ \A w \in Coming : bytes \in {w, NoFile}
       /\ \A r \in Requests : pc[r] = "writeFile" /\ model[r] = Coming => out[r] = goal[r]

EntryInv ==
  /\ TypeOK /\ RequestsInv /\ CacheInv
  /\ ~excused => Coherent
  /\ ~parted => Together

Shape == TypeOK /\ RequestsInv /\ CacheInv

-----------------------------------------------------------------------------
(* What the operators do.                                                   *)

Keys    == Passwords \cup {Open}
Wishes  == Keys \cup {Keep}
Written == Keys \cup {Garbage, NoFile}

\* A file that holds what its entry says, rewritten, holds what was asked for; and there is a file
\* afterwards if there was one.
LEMMA RewrittenFollows ==
  ASSUME NEW b \in Written, NEW old \in Keys, NEW new \in Keys
  PROVE  /\ Rewritten(b, old, new) \in Written
         /\ b # NoFile => Rewritten(b, old, new) # NoFile
         /\ b = old => Rewritten(b, old, new) = new
BY PasswordsAssumption DEF Rewritten, Encrypted, Decrypted, Keys, Written, Open, NoFile, Garbage, Keep

\* A request that begins reads under an id that is in use, and only a PATCH wants something.
LEMMA BeginsWithRead ==
  ASSUME CacheInv, NEW r \in Requests, Begin(r)
  PROVE  \E o \in Ops, k \in ids, g \in Wishes :
           Read(r, o, k, g) /\ (o = "modify" \/ g = Keep)
<1>1. CASE ModifyEntry(r)
  BY <1>1 DEF ModifyEntry, CacheInv, Ops, Wishes, Keys
<1>2. CASE GetFileInfo(r) \/ WriteBack(r) \/ ProcessDelete(r)
  BY <1>2 DEF GetFileInfo, WriteBack, ProcessDelete, Ops, Wishes
<1> QED
  BY <1>1, <1>2 DEF Begin

\* Where a request goes on that has read.
GoesOn(r, l, o, k, g, found) ==
  /\ Hold(r, l, o, k, g, found)
  /\ found # {}
  /\ l \in {"unlink", "save", "readFile"}
  /\ l = "readFile" => g # Keep
  /\ l = "save" => g = Keep \/ (g = Open /\ found = {Open})

\* Who has found the entry, or not, ends or goes on to something that it may do with it.
LEMMA ResumeEndsOrGoesOn ==
  ASSUME NEW r \in Requests, NEW o \in Ops, NEW k \in CacheKeys, NEW g \in Wishes,
         NEW found \in Found, Resume(r, o, k, g, found), o = "modify" \/ g = Keep
  PROVE  End(r) \/ \E l \in PC : GoesOn(r, l, o, k, g, found)
<1> USE PasswordsAssumption
<1>1. AfterRead(o, g, found) = "idle" => End(r)
  BY DEF Resume
<1>2. AfterRead(o, g, found) # "idle" => Hold(r, AfterRead(o, g, found), o, k, g, found)
  BY DEF Resume
<1>3. AfterRead(o, g, found) # "idle" =>
        /\ found # {}
        /\ AfterRead(o, g, found) \in {"unlink", "save", "readFile"}
        /\ AfterRead(o, g, found) = "readFile" => g # Keep
        /\ AfterRead(o, g, found) = "save" => g = Keep \/ (g = Open /\ found = {Open})
  BY DEF AfterRead, NeedsRewrite, Ops, Wishes, Keys, Open, Keep
<1> QED
  BY <1>1, <1>2, <1>3 DEF GoesOn, PC

-----------------------------------------------------------------------------
(* The shape of the state.                                                  *)

\* The part of it that is about requests.
SlotsInv ==
  /\ pc \in [Requests -> PC] /\ op \in [Requests -> Ops] /\ at \in [Requests -> Procs]
  /\ key \in [Requests -> CacheKeys] /\ goal \in [Requests -> Wishes]
  /\ model \in [Requests -> Found] /\ out \in [Requests -> Written]
  /\ \A r \in Requests : pc[r] \in {"readFile", "writeFile", "save"} => model[r] # {}
  /\ RequestsInv

\* A request that ends, or clears the cache next, holds nothing.
LEMMA ReleaseShapes ==
  ASSUME Shape, NEW r \in Requests, NEW l \in {"idle", "clear", "forget"}, Release(r, l),
         UNCHANGED <<ids, at>>
  PROVE  SlotsInv'
<1> USE DEF Shape, TypeOK, CacheInv, Release, Goto, Wishes, Keys, Written, Found, PC, Ops, CacheKeys,
            SlotsInv
<1>1. RequestsInv'
  BY DEF RequestsInv
<1> QED
  BY <1>1

\* Who reads, and who goes on after it, keeps the shape.
LEMMA HoldShapes ==
  ASSUME Shape, NEW r \in Requests, pc[r] \in {"idle", "fill"},
         NEW l \in PC, NEW o \in Ops, NEW k \in ids, NEW g \in Wishes, NEW found \in Found,
         o = "modify" \/ g = Keep, UNCHANGED <<ids, at>>,
         (l = "fill" /\ Hold(r, l, o, k, g, found)) \/ GoesOn(r, l, o, k, g, found)
  PROVE  SlotsInv'
<1> USE DEF Shape, TypeOK, CacheInv, GoesOn, Hold, Goto, Wishes, Keys, Written, SlotsInv
<1>1. k \in CacheKeys
  OBVIOUS
<1>2. RequestsInv'
  BY DEF RequestsInv
<1> QED
  BY <1>1, <1>2

\* Whoever resumes has remembered the token, and has ended or gone on.
LEMMA ResumeShapes ==
  ASSUME Shape, NEW r \in Requests, pc[r] \in {"idle", "fill"},
         NEW o \in Ops, NEW k \in ids, NEW g \in Wishes, NEW found \in Found,
         o = "modify" \/ g = Keep, UNCHANGED <<ids, at>>, Resume(r, o, k, g, found)
  PROVE  SlotsInv' /\ known' \in [Procs -> SUBSET Tracked]
<1>1. k \in CacheKeys
  BY DEF Shape, TypeOK
<1>2. known' \in [Procs -> SUBSET Tracked]
  BY <1>1 DEF Resume, AddToken, Shape, TypeOK, Tracked, CacheKeys
<1>3. CASE End(r)
  BY <1>2, <1>3, ReleaseShapes DEF End
<1>4. CASE \E l \in PC : GoesOn(r, l, o, k, g, found)
  BY <1>2, <1>4, HoldShapes
<1> QED
  BY <1>1, <1>3, <1>4, ResumeEndsOrGoesOn

\* The rest of it is about the entry and its copies.
LEMMA ShapeOfParts ==
  ASSUME SlotsInv', CacheInv', row' \in Found, bytes' \in Written, ids' \subseteq CacheKeys,
         cache' \in [CacheKeys -> {{}} \cup {{f} : f \in Found}], known' \in [Procs -> SUBSET Tracked],
         parted' \in BOOLEAN, excused' \in BOOLEAN
  PROVE  Shape'
BY DEF Shape, SlotsInv, TypeOK, Wishes, Keys, Written

\* A request begins.
LEMMA BeginKeepsShape ==
  ASSUME Shape, NEW r \in Requests, Begin(r)
  PROVE  Shape'
<1>1. PICK o \in Ops, k \in ids, g \in Wishes : Read(r, o, k, g) /\ (o = "modify" \/ g = Keep)
  BY BeginsWithRead DEF Shape
<1>2. pc[r] = "idle" /\ UNCHANGED <<row, bytes, ids, cache, at, parted>>
  BY <1>1 DEF Read, stored
<1>3. CASE Hit(r, o, k, g)
  <2>1. PICK found \in cache[k] : Resume(r, o, k, g, found)
    BY <1>3 DEF Hit
  <2>2. found \in Found
    BY DEF Shape, TypeOK
  <2>3. SlotsInv' /\ known' \in [Procs -> SUBSET Tracked]
    BY <1>1, <1>2, <2>1, <2>2, ResumeShapes
  <2>4. excused' \in BOOLEAN
    BY <1>3 DEF Hit
  <2> QED
    BY <1>2, <2>3, <2>4, ShapeOfParts DEF Shape, TypeOK, CacheInv, Written, Keys
<1>4. CASE Miss(r, o, k, g)
  <2>1. Hold(r, "fill", o, k, g, row) /\ known' = known /\ excused' \in BOOLEAN
    BY <1>4 DEF Miss
  <2>2. SlotsInv'
    BY <1>1, <1>2, <2>1, HoldShapes DEF PC, Shape, TypeOK
  <2> QED
    BY <1>2, <2>1, <2>2, ShapeOfParts DEF Shape, TypeOK, CacheInv, Written, Keys
<1> QED
  BY <1>1, <1>3, <1>4 DEF Read

\* What it read goes into the cache, and it goes on.
LEMMA FillKeepsShape ==
  ASSUME Shape, NEW r \in Requests, Fill(r)
  PROVE  Shape'
<1>1. /\ pc[r] = "fill" /\ UNCHANGED <<row, bytes, ids, at, parted, excused>>
      /\ cache' = [cache EXCEPT ![key[r]] = {model[r]}]
      /\ Resume(r, op[r], key[r], goal[r], model[r])
  BY DEF Fill, stored, history
<1>2. /\ op[r] \in Ops /\ key[r] \in ids /\ key[r] \in CacheKeys /\ goal[r] \in Wishes /\ model[r] \in Found
      /\ op[r] = "modify" \/ goal[r] = Keep
  BY <1>1 DEF Shape, TypeOK, RequestsInv, Wishes, Keys
<1>3. SlotsInv' /\ known' \in [Procs -> SUBSET Tracked]
  BY <1>1, <1>2, ResumeShapes
<1>4. cache' \in [CacheKeys -> {{}} \cup {{f} : f \in Found}] /\ CacheInv'
  BY <1>1, <1>2 DEF Shape, TypeOK, CacheInv
<1> QED
  BY <1>1, <1>3, <1>4, ShapeOfParts DEF Shape, TypeOK, Written, Keys

\* A request that works on the file, or writes the model back.
LEMMA WorkKeepsShape ==
  ASSUME Shape, NEW r \in Requests,
         \/ PasswordIncorrect(r) \/ ReadFile(r) \/ WriteFile(r) \/ WriteFails(r)
         \/ ExpiryRefused(r) \/ Save(r)
  PROVE  Shape'
<1> USE DEF Shape
<1>1. UNCHANGED <<ids, cache, known, at, excused>>
  BY DEF PasswordIncorrect, ReadFile, WriteFile, WriteFails, ExpiryRefused, Save, caching, history
<1>2. CASE End(r) /\ UNCHANGED row /\ bytes' \in {bytes, Garbage} /\ parted' \in BOOLEAN
  BY <1>1, <1>2, ReleaseShapes, ShapeOfParts DEF End, TypeOK, CacheInv, Written, Keys
<1>3. CASE ReadFile(r) /\ bytes # NoFile
  <2>1. PICK w \in model[r] : out' = [out EXCEPT ![r] = Rewritten(bytes, w, goal[r])]
    BY <1>3 DEF ReadFile
  <2>2. w \in Keys /\ goal[r] \in Keys
    BY <1>3 DEF ReadFile, TypeOK, Found, RequestsInv, Keys
  <2> bytes \in Written
    BY DEF TypeOK, Written, Keys
  <2>3. Rewritten(bytes, w, goal[r]) \in Written /\ Rewritten(bytes, w, goal[r]) # NoFile
    BY <1>3, <2>2, RewrittenFollows
  <2>4. SlotsInv'
    BY <1>1, <1>3, <2>1, <2>3 DEF ReadFile, SlotsInv, TypeOK, RequestsInv, Goto, PC, Wishes, Keys, Written
  <2> QED
    BY <1>1, <1>3, <2>4, ShapeOfParts DEF ReadFile, stored, history, TypeOK, CacheInv, Written, Keys
<1>4. CASE WriteFile(r)
  <2>1. SlotsInv'
    BY <1>1, <1>4 DEF WriteFile, SlotsInv, TypeOK, RequestsInv, Goto, PC, Wishes, Keys, Written
  <2> QED
    BY <1>1, <1>4, <2>1, ShapeOfParts DEF WriteFile, TypeOK, CacheInv, Written, Keys
<1>5. CASE Save(r)
  <2>1. SlotsInv'
    BY <1>1, <1>5, ReleaseShapes DEF Save
  <2>2. row' \in Found /\ parted' \in BOOLEAN /\ bytes' = bytes
    BY <1>5 DEF Save, TypeOK, Found
  <2> QED
    BY <1>1, <2>1, <2>2, ShapeOfParts DEF TypeOK, CacheInv, Written, Keys
<1> QED
  BY <1>2, <1>3, <1>4, <1>5 DEF PasswordIncorrect, ReadFile, WriteFails, ExpiryRefused, TypeOK, stored, history

\* A request that clears the cache, or deletes.
LEMMA ClearingKeepsShape ==
  ASSUME Shape, NEW r \in Requests,
         \/ ClearCache(r) \/ ForgetTokens(r) \/ DeleteFilesFromDisk(r) \/ DeleteEntries(r) \/ ClearDeleted(r)
         \/ StoreFails(r)
  PROVE  Shape'
<1> USE DEF Shape
<1>1. CASE ClearCache(r)
  <2>1. SlotsInv'
    BY <1>1 DEF ClearCache, SlotsInv, TypeOK, RequestsInv, Goto, PC, Wishes, Keys, Written
  <2>2. /\ cache' \in [CacheKeys -> {{}} \cup {{f} : f \in Found}] /\ CacheInv'
        /\ UNCHANGED <<row, bytes, ids, known, parted>> /\ excused' \in BOOLEAN
    BY <1>1 DEF ClearCache, stored, TypeOK, CacheInv
  <2> QED
    BY <2>1, <2>2, ShapeOfParts DEF TypeOK, Written, Keys
<1>2. CASE ForgetTokens(r)
  <2>1. SlotsInv'
    BY <1>2, ReleaseShapes DEF ForgetTokens, End
  <2> QED
    BY <1>2, <2>1, ShapeOfParts DEF ForgetTokens, stored, history, TypeOK, CacheInv, Written, Keys
<1>3. CASE DeleteFilesFromDisk(r) \/ DeleteEntries(r)
  <2>1. SlotsInv'
    <3>1. UNCHANGED <<ids, at, op, key, goal, out>> /\ pc[r] \in {"unlink", "drop"} /\ out[r] = NoFile
      BY <1>3 DEF DeleteFilesFromDisk, DeleteEntries, caching, RequestsInv
    <3>2. pc' = [pc EXCEPT ![r] = IF pc[r] = "unlink" THEN "drop" ELSE "remove"]
      BY <1>3 DEF DeleteFilesFromDisk, DeleteEntries, Goto
    <3>3. model' \in [Requests -> Found] /\ \A q \in Requests \ {r} : model'[q] = model[q]
      BY <1>3 DEF DeleteFilesFromDisk, DeleteEntries, TypeOK, Found
    <3> QED
      BY <3>1, <3>2, <3>3 DEF SlotsInv, TypeOK, RequestsInv, PC, Wishes, Keys, Written
  <2> QED
    BY <1>3, <2>1, ShapeOfParts
       DEF DeleteFilesFromDisk, DeleteEntries, caching, history, TypeOK, Found, CacheInv, Written, Keys
<1>4. CASE ClearDeleted(r)
  <2>1. SlotsInv'
    BY <1>4, ReleaseShapes DEF ClearDeleted
  <2>2. /\ cache' \in [CacheKeys -> {{}} \cup {{f} : f \in Found}] /\ CacheInv'
        /\ UNCHANGED <<row, bytes, ids, known, parted>> /\ excused' \in BOOLEAN
    BY <1>4 DEF ClearDeleted, stored, TypeOK, CacheInv
  <2> QED
    BY <2>1, <2>2, ShapeOfParts DEF TypeOK, Written, Keys
<1>5. CASE StoreFails(r)
  <2>1. SlotsInv'
    BY <1>5, ReleaseShapes DEF StoreFails, caching, End
  <2>2. parted' \in BOOLEAN /\ excused' \in BOOLEAN /\ UNCHANGED <<row, bytes, ids, cache, known>>
    BY <1>5 DEF StoreFails, stored, caching, TypeOK
  <2> QED
    BY <2>1, <2>2, ShapeOfParts DEF TypeOK, CacheInv, Written, Keys
<1> QED
  BY <1>1, <1>2, <1>3, <1>4, <1>5

\* A process ends, and with it what it remembers and what it was doing.
LEMMA CrashKeepsShape ==
  ASSUME Shape, NEW p \in Procs, Crash(p)
  PROVE  Shape'
<1> USE DEF Shape, Crash
<1>1. SlotsInv'
  BY DEF SlotsInv, TypeOK, RequestsInv, CacheInv, PC, Ops, CacheKeys, Found, Wishes, Keys, Written
<1>2. /\ bytes' \in Written /\ known' \in [Procs -> SUBSET Tracked]
      /\ parted' \in BOOLEAN /\ excused' \in BOOLEAN /\ UNCHANGED <<row, ids, cache>>
  BY DEF TypeOK, Written, Keys
<1> QED
  BY <1>1, <1>2, ShapeOfParts DEF TypeOK, CacheInv

\* Every step keeps the shape.
LEMMA ShapeKept ==
  ASSUME Shape, [Next]_vars
  PROVE  Shape'
<1>1. CASE \E k \in CacheKeys : Expire(k)
  BY <1>1, ShapeOfParts
     DEF Expire, stored, request, history, Shape, SlotsInv, TypeOK, RequestsInv, CacheInv, Wishes, Keys, Written
<1>2. CASE \E p \in Procs, k \in Tracked : TimerFires(p, k)
  BY <1>2 DEF TimerFires, stored, request, Shape, TypeOK, RequestsInv, CacheInv
<1>3. CASE UNCHANGED vars
  BY <1>3 DEF vars, stored, caching, request, history, Shape, TypeOK, RequestsInv, CacheInv
<1> QED
  BY <1>1, <1>2, <1>3, BeginKeepsShape, FillKeepsShape, WorkKeepsShape, ClearingKeepsShape, CrashKeepsShape
     DEF Next, Continue

-----------------------------------------------------------------------------
(* Old models.                                                              *)

\* If only one request is under way, what it is about decides.
LEMMA OneIsCoherent ==
  ASSUME NEW r \in Requests, \A q \in Requests \ {r} : pc'[q] = "idle",
         \A k \in Tracked : cache'[k] # {} => \E p \in Procs : k \in known'[p],
         pc'[r] \notin {"clear", "remove"} => \A k \in Tracked : cache'[k] \subseteq {row'},
         pc'[r] \in {"fill", "readFile", "writeFile", "save"} => model'[r] = row',
         pc'[r] = "forget" => \A k \in Tracked : cache'[k] = {}
  PROVE  Coherent'
BY DEF Coherent, Active, Writers

\* Nobody else is at it while copies agree with the row.
LEMMA OthersRest ==
  ASSUME Coherent, NEW r \in Requests, pc[r] # "idle"
  PROVE  \A q \in Requests \ {r} : pc[q] = "idle"
BY DEF Coherent, Active

\* Whoever goes on works with what it found.
LEMMA ResumedCoherent ==
  ASSUME Shape, NEW r \in Requests, pc[r] \in {"idle", "fill"}, \A q \in Requests \ {r} : pc[q] = "idle",
         NEW o \in Ops, NEW k \in ids, NEW g \in Wishes, o = "modify" \/ g = Keep,
         Resume(r, o, k, g, row), UNCHANGED <<row, ids, at>>,
         cache' \in [CacheKeys -> {{}} \cup {{f} : f \in Found}],
         \A c \in Tracked : cache'[c] \subseteq {row},
         \A c \in Tracked : cache'[c] # {} => c = k \/ \E p \in Procs : c \in known[p]
  PROVE  Coherent'
<1>1. k \in CacheKeys /\ row \in Found /\ at[r] \in Procs
  BY DEF Shape, TypeOK
<1>2. \A c \in Tracked : cache'[c] # {} => \E p \in Procs : c \in known'[p]
  <2>1. known' = [known EXCEPT ![at[r]] = @ \cup {IF k = "album" THEN k ELSE "entry"}]
    BY DEF Resume, AddToken
  <2>2. k \in Tracked => k \in known'[at[r]]
    BY <1>1, <2>1 DEF Shape, TypeOK, Tracked
  <2>3. \A p \in Procs : known[p] \subseteq known'[p]
    BY <1>1, <2>1 DEF Shape, TypeOK
  <2> QED
    BY <1>1, <2>2, <2>3
<1>3. /\ \A q \in Requests \ {r} : pc'[q] = "idle"
      /\ pc'[r] \in {"idle", "unlink", "save", "readFile"}
      /\ pc'[r] \in {"save", "readFile"} => model'[r] = row
  <2>1. CASE End(r)
    BY <2>1 DEF End, Release, Goto, Shape, TypeOK
  <2>2. CASE \E l \in PC : GoesOn(r, l, o, k, g, row)
    BY <2>2 DEF GoesOn, Hold, Goto, Shape, TypeOK
  <2> QED
    BY <1>1, <2>1, <2>2, ResumeEndsOrGoesOn
<1> QED
  BY <1>2, <1>3, OneIsCoherent

\* Who begins alone reads the row, from the table or from a copy that is it.
LEMMA BeginKeepsCoherent ==
  ASSUME Shape, Coherent, NEW r \in Requests, Begin(r), ~excused'
  PROVE  Coherent'
<1>1. PICK o \in Ops, k \in ids, g \in Wishes : Read(r, o, k, g) /\ (o = "modify" \/ g = Keep)
  BY BeginsWithRead DEF Shape
<1>2. pc[r] = "idle" /\ UNCHANGED <<row, ids, cache, at>>
  BY <1>1 DEF Read, stored
<1>3. \A q \in Requests : pc[q] = "idle"
  BY <1>1 DEF Read, Hit, Miss, Active
<1>4. \A c \in Tracked : cache[c] \subseteq {row}
  BY <1>3 DEF Coherent, Writers
<1>5. CASE Hit(r, o, k, g)
  <2>1. PICK found \in cache[k] : Resume(r, o, k, g, found)
    BY <1>5 DEF Hit
  <2>2. k \in Tracked
    BY <1>5 DEF Hit, Shape, TypeOK, CacheKeys, Tracked
  <2>3. found = row
    BY <1>4, <2>2
  <2> QED
    BY <1>1, <1>2, <1>3, <1>4, <2>1, <2>3, ResumedCoherent DEF Coherent, Shape, TypeOK
<1>6. CASE Miss(r, o, k, g)
  <2>1. Hold(r, "fill", o, k, g, row) /\ known' = known
    BY <1>6 DEF Miss
  <2>2. pc'[r] = "fill" /\ model'[r] = row /\ \A q \in Requests \ {r} : pc'[q] = "idle"
    BY <1>3, <2>1 DEF Hold, Goto, Shape, TypeOK
  <2> QED
    BY <1>2, <1>4, <2>1, <2>2, OneIsCoherent DEF Coherent
<1> QED
  BY <1>1, <1>5, <1>6 DEF Read

\* What goes into the cache is the row.
LEMMA FillKeepsCoherent ==
  ASSUME Shape, Coherent, NEW r \in Requests, Fill(r)
  PROVE  Coherent'
<1>1. /\ pc[r] = "fill" /\ UNCHANGED <<row, ids, at>>
      /\ cache' = [cache EXCEPT ![key[r]] = {model[r]}]
      /\ Resume(r, op[r], key[r], goal[r], model[r])
  BY DEF Fill, stored
<1>2. /\ op[r] \in Ops /\ key[r] \in ids /\ key[r] \in CacheKeys /\ goal[r] \in Wishes
      /\ op[r] = "modify" \/ goal[r] = Keep
  BY <1>1 DEF Shape, TypeOK, RequestsInv, Wishes, Keys
<1>3. model[r] = row /\ row \in Found
  BY <1>1 DEF Coherent, Shape, TypeOK
<1>4. \A q \in Requests \ {r} : pc[q] = "idle"
  BY <1>1, OthersRest
<1>5. \A c \in Tracked : cache[c] \subseteq {row}
  BY <1>1, <1>4 DEF Coherent, Writers
<1>6. cache' \in [CacheKeys -> {{}} \cup {{f} : f \in Found}] /\ \A c \in Tracked : cache'[c] \subseteq {row}
  BY <1>1, <1>2, <1>3, <1>5 DEF Shape, TypeOK, Tracked, CacheKeys
<1>7. \A c \in Tracked : cache'[c] # {} => c = key[r] \/ \E p \in Procs : c \in known[p]
  BY <1>1, <1>2 DEF Coherent, Shape, TypeOK, Tracked, CacheKeys
<1> QED
  BY <1>1, <1>2, <1>3, <1>4, <1>6, <1>7, ResumedCoherent

\* The row changes only when its writer is to clear the cache next.
LEMMA WorkKeepsCoherent ==
  ASSUME Shape, Coherent, NEW r \in Requests,
         \/ PasswordIncorrect(r) \/ ReadFile(r) \/ WriteFile(r) \/ WriteFails(r)
         \/ ExpiryRefused(r) \/ Save(r)
  PROVE  Coherent'
<1>1. UNCHANGED <<cache, known>>
  BY DEF PasswordIncorrect, ReadFile, WriteFile, WriteFails, ExpiryRefused, Save, caching
<1>2. pc[r] \in {"readFile", "writeFile", "save"}
  BY DEF PasswordIncorrect, ReadFile, WriteFile, WriteFails, ExpiryRefused, Save
<1>3. \A q \in Requests \ {r} : pc[q] = "idle"
  BY <1>2, OthersRest
<1>4. \A k \in Tracked : cache[k] \subseteq {row}
  BY <1>2, <1>3 DEF Coherent, Writers
<1>5. \A q \in Requests \ {r} : pc'[q] = "idle"
  BY <1>3 DEF PasswordIncorrect, ReadFile, WriteFile, WriteFails, ExpiryRefused, Save, End, Release, Goto, Shape, TypeOK
<1>6. pc'[r] = "clear" \/ /\ row' = row /\ pc'[r] \in {"idle", "writeFile", "save"}
                          /\ pc'[r] \in {"writeFile", "save"} => model'[r] = row
  BY <1>2 DEF Coherent, PasswordIncorrect, ReadFile, WriteFile, WriteFails, ExpiryRefused, Save, End, Release,
              Goto, stored, Shape, TypeOK
<1> QED
  BY <1>1, <1>4, <1>5, <1>6, OneIsCoherent DEF Coherent

\* Who clears knows all copies there are: a process that has one remembers its key.
LEMMA ClearingKeepsCoherent ==
  ASSUME Shape, Coherent, NEW r \in Requests, ~excused',
         \/ ClearCache(r) \/ ForgetTokens(r) \/ DeleteFilesFromDisk(r) \/ DeleteEntries(r) \/ ClearDeleted(r)
         \/ StoreFails(r)
  PROVE  Coherent'
<1>1. pc[r] \in {"fill", "save", "clear", "forget", "unlink", "drop", "remove"}
  BY DEF ClearCache, ForgetTokens, DeleteFilesFromDisk, DeleteEntries, ClearDeleted, StoreFails
<1>2. \A q \in Requests \ {r} : pc[q] = "idle" /\ pc'[q] = "idle"
  BY <1>1, OthersRest
     DEF ClearCache, ForgetTokens, DeleteFilesFromDisk, DeleteEntries, ClearDeleted, StoreFails, End, Release,
         Goto, Shape, TypeOK
<1>3. CASE ClearCache(r)
  <2>1. \A k \in Tracked : cache'[k] = {}
    BY <1>3 DEF ClearCache, Coherent, Shape, TypeOK, Tracked, CacheKeys
  <2>2. pc'[r] = "forget"
    BY <1>3 DEF ClearCache, Goto, Shape, TypeOK
  <2> QED
    BY <1>2, <2>1, <2>2, OneIsCoherent
<1>4. CASE ForgetTokens(r)
  <2>1. \A k \in Tracked : cache'[k] = {}
    BY <1>4 DEF ForgetTokens, Coherent
  <2>2. pc'[r] = "idle"
    BY <1>4 DEF ForgetTokens, End, Release, Goto, Shape, TypeOK
  <2> QED
    BY <1>2, <2>1, <2>2, OneIsCoherent
<1>5. CASE DeleteFilesFromDisk(r)
  <2>1. \A k \in Tracked : cache[k] \subseteq {row}
    BY <1>2, <1>5 DEF DeleteFilesFromDisk, Coherent, Writers
  <2>2. pc'[r] = "drop" /\ UNCHANGED <<row, cache, known>>
    BY <1>5 DEF DeleteFilesFromDisk, caching, Goto, Shape, TypeOK
  <2> QED
    BY <1>2, <2>1, <2>2, OneIsCoherent DEF Coherent
<1>6. CASE DeleteEntries(r)
  <2>1. pc'[r] = "remove" /\ UNCHANGED <<cache, known>>
    BY <1>6 DEF DeleteEntries, caching, Goto, Shape, TypeOK
  <2> QED
    BY <1>2, <2>1, OneIsCoherent DEF Coherent
<1>7. CASE ClearDeleted(r)
  <2>1. \A k \in Tracked : cache'[k] = {}
    BY <1>7 DEF ClearDeleted, Shape, TypeOK, Tracked, CacheKeys
  <2>2. pc'[r] = "forget"
    BY <1>7 DEF ClearDeleted, Release, Goto, Shape, TypeOK
  <2> QED
    BY <1>2, <2>1, <2>2, OneIsCoherent
<1>8. CASE StoreFails(r)
  <2>1. pc'[r] = "idle" /\ UNCHANGED <<row, cache, known>>
    BY <1>8 DEF StoreFails, stored, caching, End, Release, Goto, Shape, TypeOK
  <2>2. \A k \in Tracked : cache[k] \subseteq {row}
    <3>1. CASE pc[r] \in {"clear", "remove"}
      BY <1>8, <3>1 DEF StoreFails, Tracked, CacheKeys
    <3>2. CASE pc[r] \notin {"clear", "remove"}
      BY <1>2, <3>2 DEF Coherent, Writers
    <3> QED
      BY <3>1, <3>2
  <2> QED
    BY <1>2, <2>1, <2>2, OneIsCoherent DEF Coherent
<1> QED
  BY <1>3, <1>4, <1>5, <1>6, <1>7, <1>8

\* What was never excused is not, and the copies that go do no harm.
LEMMA CoherentKept ==
  ASSUME Shape, ~excused => Coherent, [Next]_vars
  PROVE  ~excused' => Coherent'
<1> SUFFICES ASSUME ~excused' PROVE Coherent'
  OBVIOUS
<1>1. ~excused
  BY DEF Next, Begin, GetFileInfo, ModifyEntry, WriteBack, ProcessDelete, Read, Hit, Miss, Continue, Fill,
         PasswordIncorrect, ReadFile, WriteFile, WriteFails, ExpiryRefused, Save, ClearCache, ForgetTokens,
         DeleteFilesFromDisk, DeleteEntries, ClearDeleted, StoreFails, Expire, TimerFires, Crash, vars, history
<1>2. Coherent
  BY <1>1
<1>3. CASE \E k \in CacheKeys : Expire(k)
  BY <1>2, <1>3
     DEF Expire, stored, request, Coherent, Active, Writers, Shape, TypeOK, Tracked, CacheKeys
<1>4. CASE \E p \in Procs, k \in Tracked : TimerFires(p, k)
  <2>1. PICK p \in Procs, k \in Tracked : TimerFires(p, k)
    BY <1>4
  <2>2. /\ UNCHANGED <<stored, ids, cache, at, request>> /\ cache[k] = {}
        /\ \A q \in Procs : known'[q] = IF q = p THEN known[p] \ {k} ELSE known[q]
    BY <2>1 DEF TimerFires, Shape, TypeOK
  <2>3. \A j \in Tracked : cache'[j] # {} => \E q \in Procs : j \in known'[q]
    BY <1>2, <2>2 DEF Coherent
  <2> QED
    BY <1>2, <2>2, <2>3 DEF stored, request, Coherent, Active, Writers
<1>5. CASE \E p \in Procs : Crash(p)
  <2>1. \A k \in Tracked : cache'[k] = {}
    BY <1>5 DEF Crash, Shape, TypeOK, CacheInv, Tracked, CacheKeys
  <2>2. /\ row' = row
        /\ \A r \in Requests : pc'[r] = "idle" \/ (pc'[r] = pc[r] /\ model'[r] = model[r])
    BY <1>5 DEF Crash, Shape, TypeOK
  <2> QED
    BY <1>2, <2>1, <2>2 DEF Coherent, Active, Writers
<1>6. CASE UNCHANGED vars
  BY <1>2, <1>6 DEF vars, stored, caching, request, Coherent, Active, Writers
<1> QED
  BY <1>2, <1>3, <1>4, <1>5, <1>6, BeginKeepsCoherent, FillKeepsCoherent, WorkKeepsCoherent, ClearingKeepsCoherent
     DEF Next, Continue

-----------------------------------------------------------------------------
(* The row and the file.                                                    *)

\* Nothing that counts changes: who has rewritten the file, what the row is, and the file but for
\* being deleted; and a request that is to write what it made is one that was before.
LEMMA SameTogether ==
  ASSUME Shape, Together, row' = row, bytes' \in {bytes, NoFile},
         \A q \in Requests :
           /\ q \in Pending' <=> q \in Pending
           /\ q \in Pending => goal'[q] = goal[q] /\ model'[q] = model[q]
           /\ pc'[q] = "writeFile" =>
                pc[q] = "writeFile" /\ goal'[q] = goal[q] /\ model'[q] = model[q] /\ out'[q] = out[q]
  PROVE  Together'
<1>1. Pending' = Pending
  BY DEF Pending
<1>2. Coming' = Coming
  BY <1>1 DEF Coming, Pending
<1>3. (\A q \in Pending' : ~Stale(q)') <=> (\A q \in Pending : ~Stale(q))
  BY <1>1 DEF Stale, Pending
<1> QED
  BY <1>1, <1>2, <1>3 DEF Together

\* A request that begins has nothing to write yet.
LEMMA Resumed ==
  ASSUME Shape, NEW r \in Requests, out[r] = NoFile, NEW o \in Ops, NEW k \in CacheKeys, NEW g \in Wishes,
         NEW found \in Found, Resume(r, o, k, g, found), o = "modify" \/ g = Keep
  PROVE  /\ out'[r] = NoFile /\ pc'[r] # "writeFile"
         /\ \A q \in Requests \ {r} : /\ pc'[q] = pc[q] /\ out'[q] = out[q]
                                      /\ goal'[q] = goal[q] /\ model'[q] = model[q]
<1>1. CASE End(r)
  BY <1>1 DEF End, Release, Goto, Shape, TypeOK
<1>2. CASE \E l \in PC : GoesOn(r, l, o, k, g, found)
  BY <1>2 DEF GoesOn, Hold, Goto, Shape, TypeOK
<1> QED
  BY <1>1, <1>2, ResumeEndsOrGoesOn

\* Reading parts nothing.
LEMMA ReadKeepsTogether ==
  ASSUME Shape, Together, NEW r \in Requests, Begin(r) \/ Fill(r)
  PROVE  Together'
<1>1. pc[r] \in {"idle", "fill"} /\ UNCHANGED <<row, bytes>>
  BY DEF Begin, GetFileInfo, ModifyEntry, WriteBack, ProcessDelete, Read, Fill, stored
<1>2. out[r] = NoFile
  BY <1>1 DEF Shape, RequestsInv
<1>3. /\ out'[r] = NoFile /\ pc'[r] # "writeFile"
      /\ \A q \in Requests \ {r} : /\ pc'[q] = pc[q] /\ out'[q] = out[q]
                                   /\ goal'[q] = goal[q] /\ model'[q] = model[q]
  <2>1. CASE Begin(r)
    <3>1. PICK o \in Ops, k \in ids, g \in Wishes : Read(r, o, k, g) /\ (o = "modify" \/ g = Keep)
      BY <2>1, BeginsWithRead DEF Shape
    <3>2. CASE Miss(r, o, k, g)
      BY <1>2, <3>2 DEF Miss, Hold, Goto, Shape, TypeOK
    <3>3. CASE Hit(r, o, k, g)
      <4>1. PICK found \in cache[k] : Resume(r, o, k, g, found)
        BY <3>3 DEF Hit
      <4>2. k \in CacheKeys /\ found \in Found
        BY DEF Shape, TypeOK
      <4> QED
        BY <1>2, <3>1, <4>1, <4>2, Resumed
    <3> QED
      BY <3>1, <3>2, <3>3 DEF Read
  <2>2. CASE Fill(r)
    <3>1. /\ op[r] \in Ops /\ key[r] \in CacheKeys /\ goal[r] \in Wishes /\ model[r] \in Found
          /\ op[r] = "modify" \/ goal[r] = Keep
      BY <2>2 DEF Fill, Shape, TypeOK, RequestsInv, Wishes, Keys
    <3> QED
      BY <1>2, <2>2, <3>1, Resumed DEF Fill
  <2> QED
    BY <2>1, <2>2
<1> QED
  BY <1>1, <1>2, <1>3, SameTogether DEF Pending

\* What is read of a file that follows its row is rewritten to what was asked for.
LEMMA ReadFileKeepsTogether ==
  ASSUME Shape, Together, NEW r \in Requests, ReadFile(r), bytes # NoFile
  PROVE  Together'
<1>1. pc[r] = "readFile" /\ UNCHANGED <<row, bytes, goal, model>> /\ pc' = [pc EXCEPT ![r] = "writeFile"]
  BY DEF ReadFile, stored, Goto
<1>2. PICK w \in model[r] : out' = [out EXCEPT ![r] = Rewritten(bytes, w, goal[r])]
  BY DEF ReadFile
<1>3. w \in Keys /\ goal[r] \in Keys /\ bytes \in Written /\ model[r] = {w}
  BY <1>1, <1>2 DEF Shape, TypeOK, RequestsInv, Found, Keys, Written
<1>4. out'[r] = Rewritten(bytes, w, goal[r]) /\ \A q \in Requests \ {r} : out'[q] = out[q] /\ pc'[q] = pc[q]
  BY <1>1, <1>2 DEF Shape, TypeOK
<1> pc'[r] = "writeFile"
  BY <1>1 DEF Shape, TypeOK
<1>8. Pending' = Pending
  BY <1>1, <1>4 DEF Pending
<1>5. Pending' = Pending /\ Coming' = Coming
  BY <1>1, <1>8 DEF Coming
<1>6. (\A q \in Pending' : ~Stale(q)') <=> (\A q \in Pending : ~Stale(q))
  BY <1>1, <1>5 DEF Stale
<1>7. bytes = w => out'[r] = goal[r]
  BY <1>3, <1>4, RewrittenFollows
<1> QED
  BY <1>1, <1>3, <1>4, <1>5, <1>6, <1>7 DEF Together

\* Who writes the file without parting it from its row is the only one to do so.
LEMMA WriteKeepsTogether ==
  ASSUME Shape, Together, NEW r \in Requests, WriteFile(r), ~parted'
  PROVE  Together'
<1>1. /\ pc[r] = "writeFile" /\ UNCHANGED <<row, goal, model, out>> /\ bytes' = out[r]
      /\ pc' = [pc EXCEPT ![r] = "save"]
  BY DEF WriteFile, Goto
<1>2. \A q \in Requests \ {r} : out[q] = NoFile
  BY DEF WriteFile
<1>3. Pending = {}
  BY <1>1, <1>2 DEF Pending
<1>4. Pending' = {r}
  BY <1>1, <1>2 DEF Pending, Shape, TypeOK, RequestsInv
<1>5. Coming = row /\ Coming' = {goal[r]}
  BY <1>1, <1>3, <1>4 DEF Coming
<1>6. \A q \in Requests : pc'[q] # "writeFile"
  BY <1>1, <1>2 DEF Shape, TypeOK, RequestsInv
<1> QED
  BY <1>1, <1>3, <1>4, <1>5, <1>6 DEF Together, Stale

\* Who saves a model that is the row makes the row what the file has become.
LEMMA SaveKeepsTogether ==
  ASSUME Shape, Together, NEW r \in Requests, Save(r), ~parted'
  PROVE  Together'
<1>1. /\ pc[r] = "save" /\ row = model[r] /\ bytes' = bytes
      /\ row' = IF goal[r] = Keep THEN model[r] ELSE {goal[r]}
  BY DEF Save, Stale
<1>2. /\ pc'[r] = "clear" /\ out'[r] = NoFile
      /\ \A q \in Requests \ {r} : /\ pc'[q] = pc[q] /\ out'[q] = out[q]
                                   /\ goal'[q] = goal[q] /\ model'[q] = model[q]
  BY DEF Save, Release, Goto, Shape, TypeOK
<1>3. CASE out[r] = NoFile
  <2>1. row' = row
    BY <1>1, <1>3 DEF Shape, RequestsInv
  <2> QED
    BY <1>1, <1>2, <1>3, <2>1, SameTogether DEF Pending
<1>4. CASE out[r] # NoFile
  <2>1. Pending = {r} /\ goal[r] # Keep
    BY <1>1, <1>4 DEF Together, Pending, Shape, RequestsInv
  <2>2. Pending' = {}
    BY <1>2, <2>1 DEF Pending
  <2>3. Coming = {goal[r]} /\ Coming' = {goal[r]}
    BY <1>1, <2>1, <2>2 DEF Coming
  <2>4. \A q \in Pending : ~Stale(q)
    BY <1>1, <2>1 DEF Stale
  <2> QED
    BY <1>1, <1>2, <2>2, <2>3, <2>4 DEF Together
<1> QED
  BY <1>3, <1>4

\* The row goes after the file.
LEMMA DeleteKeepsTogether ==
  ASSUME Shape, Together, NEW r \in Requests, DeleteEntries(r)
  PROVE  Together'
<1>1. /\ pc[r] = "drop" /\ row' = {} /\ UNCHANGED <<bytes, goal, model, out>>
      /\ pc' = [pc EXCEPT ![r] = "remove"]
  BY DEF DeleteEntries, Goto
<1>2. Pending' = Pending
  BY <1>1 DEF Pending, Shape, TypeOK
<1>3. \A q \in Pending : Stale(q)'
  BY <1>1 DEF Pending, Stale, Shape, TypeOK
<1>4. CASE Pending = {}
  <2>1. Coming' = {}
    BY <1>1, <1>2, <1>4 DEF Coming
  <2> QED
    BY <1>1, <1>2, <1>4, <2>1 DEF Together, Shape, TypeOK
<1>5. CASE Pending # {}
  BY <1>2, <1>3, <1>5 DEF Together
<1> QED
  BY <1>4, <1>5

\* Every step keeps row and file together until something parts them.
LEMMA TogetherKept ==
  ASSUME Shape, ~parted => Together, [Next]_vars
  PROVE  ~parted' => Together'
<1> SUFFICES ASSUME ~parted' PROVE Together'
  OBVIOUS
<1>1. ~parted
  BY DEF Next, Begin, GetFileInfo, ModifyEntry, WriteBack, ProcessDelete, Read, Continue, Fill,
         PasswordIncorrect, ReadFile, WriteFile, WriteFails, ExpiryRefused, Save, ClearCache, ForgetTokens,
         DeleteFilesFromDisk, DeleteEntries, ClearDeleted, StoreFails, Expire, TimerFires, Crash, vars, history
<1>2. Together
  BY <1>1
<1>3. ASSUME NEW r \in Requests, PasswordIncorrect(r) \/ (ReadFile(r) /\ bytes = NoFile) \/ ExpiryRefused(r)
                                   \/ WriteFails(r) \/ ForgetTokens(r) \/ ClearDeleted(r) \/ StoreFails(r)
      PROVE  Together'
  <2>1. UNCHANGED <<row, bytes>> /\ pc'[r] \in {"idle", "forget"} /\ r \notin Pending
    BY <1>3 DEF PasswordIncorrect, ReadFile, WriteFails, ExpiryRefused, ForgetTokens, ClearDeleted, StoreFails,
                End, Release, Goto, stored, Pending, Shape, TypeOK, RequestsInv
  <2>2. \A q \in Requests \ {r} : pc'[q] = pc[q] /\ out'[q] = out[q] /\ goal'[q] = goal[q] /\ model'[q] = model[q]
    BY <1>3 DEF PasswordIncorrect, ReadFile, WriteFails, ExpiryRefused, ForgetTokens, ClearDeleted, StoreFails,
                End, Release, Goto, Shape, TypeOK
  <2> QED
    BY <1>2, <2>1, <2>2, SameTogether DEF Pending
<1>4. ASSUME NEW r \in Requests, ClearCache(r) \/ DeleteFilesFromDisk(r)
      PROVE  Together'
  <2>1. /\ row' = row /\ bytes' \in {bytes, NoFile} /\ UNCHANGED <<goal, out>>
        /\ pc[r] \in {"clear", "unlink"} /\ pc'[r] \in {"forget", "drop"}
    BY <1>4 DEF ClearCache, DeleteFilesFromDisk, stored, Goto, Shape, TypeOK
  <2>2. \A q \in Requests \ {r} : pc'[q] = pc[q] /\ model'[q] = model[q]
    BY <1>4 DEF ClearCache, DeleteFilesFromDisk, Goto, Shape, TypeOK
  <2> QED
    BY <1>2, <2>1, <2>2, SameTogether DEF Pending
<1>5. CASE \E p \in Procs : Crash(p)
  <2>1. \A q \in Requests : out[q] # NoFile =>
          pc'[q] = pc[q] /\ out'[q] = out[q] /\ goal'[q] = goal[q] /\ model'[q] = model[q]
    <3>1. PICK p \in Procs : Crash(p)
      BY <1>5
    <3>2. \A q \in Active : at[q] = p => out[q] = NoFile
      BY <3>1 DEF Crash
    <3>3. \A q \in Requests : ~(q \in Active /\ at[q] = p) =>
            pc'[q] = pc[q] /\ out'[q] = out[q] /\ goal'[q] = goal[q] /\ model'[q] = model[q]
      BY <3>1 DEF Crash
    <3> QED
      BY <3>2, <3>3
  <2>2. \A q \in Requests : out[q] = NoFile => out'[q] = NoFile /\ pc'[q] # "writeFile"
    BY <1>5 DEF Crash, Shape, TypeOK, RequestsInv
  <2>3. row' = row /\ bytes' = bytes
    <3>1. PICK p \in Procs : Crash(p)
      BY <1>5
    <3>2. \A q \in Requests : q \in Active /\ at[q] = p => out[q] = NoFile
      BY <3>1 DEF Crash
    <3>3. \A q \in Requests : out[q] = NoFile => pc[q] # "writeFile"
      BY DEF Shape, RequestsInv
    <3> QED
      BY <3>1, <3>2, <3>3 DEF Crash, Active
  <2> QED
    BY <1>2, <2>1, <2>2, <2>3, SameTogether DEF Pending, Shape, RequestsInv
<1>6. CASE \/ \E k \in CacheKeys : Expire(k)
           \/ \E p \in Procs, k \in Tracked : TimerFires(p, k)
           \/ UNCHANGED vars
  BY <1>2, <1>6, SameTogether DEF Expire, TimerFires, vars, stored, request, Pending
<1> QED
  BY <1>2, <1>3, <1>4, <1>5, <1>6, ReadKeepsTogether, ReadFileKeepsTogether, WriteKeepsTogether,
     SaveKeepsTogether, DeleteKeepsTogether DEF Next, Continue

-----------------------------------------------------------------------------
(* Theorems.                                                                *)

\* Nothing is cached and nobody is at anything yet.
LEMMA InitiallySo == Init => EntryInv
<1> SUFFICES ASSUME Init PROVE EntryInv
  OBVIOUS
<1>1. TypeOK
  BY DEF Init, TypeOK, Found, CacheKeys, PC, Ops
<1>2. RequestsInv /\ CacheInv
  BY DEF Init, RequestsInv, CacheInv
<1>3. Coherent
  BY DEF Init, Coherent, Active, Writers, Tracked, CacheKeys
<1>4. Together
  BY DEF Init, Together, Pending, Coming
<1> QED
  BY <1>1, <1>2, <1>3, <1>4 DEF EntryInv

\* EntryInv holds initially, and every step of every request keeps it.
THEOREM EntryInvariant == Spec => []EntryInv
<1>1. EntryInv /\ [Next]_vars => EntryInv'
  BY ShapeKept, CoherentKept, TogetherKept DEF EntryInv, Shape
<1> QED
  BY <1>1, InitiallySo, PTL DEF Spec

\* Every variable keeps its type, and whoever writes a model back has read one.
THEOREM TypeCorrect == Spec => []TypeOK
BY EntryInvariant, PTL DEF EntryInv

\* StaleSavesExplained: a model is saved over a row that it was not read from only for the reasons
\* that the actions of Entry note (TimedSet, clearCache).
THEOREM OldModelsAreExplained == Spec => []StaleSavesExplained
<1>1. EntryInv => StaleSavesExplained
  BY DEF EntryInv, Coherent, StaleSavesExplained, Stale
<1> QED
  BY <1>1, EntryInvariant, PTL

\* ContentFollowsRow: between requests the file is encrypted as its row says, but for the five
\* things that part them (modifyEntry, saveEntry).
THEOREM ContentIsOfRow == Spec => []ContentFollowsRow
<1>1. EntryInv => ContentFollowsRow
  <2> SUFFICES ASSUME EntryInv, Settled, ~parted PROVE \A w \in row : bytes \in {w, NoFile}
    BY DEF ContentFollowsRow
  <2>1. Pending = {} /\ Together
    BY DEF Settled, Pending, EntryInv
  <2> QED
    BY <2>1 DEF Together, Coming
<1> QED
  BY <1>1, EntryInvariant, PTL
=============================================================================
