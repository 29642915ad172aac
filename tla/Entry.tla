------------------------------- MODULE Entry -------------------------------
(***************************************************************************)
(* One entry of WaifuVault after its upload: its row, its file, and the    *)
(* copies of the row that the query cache holds.  PATCH, the album         *)
(* operations and DELETE all read the entry through the cache, work on     *)
(* what they read, and write it back: TypeORM's save makes the row what    *)
(* the model is, and inserts it if it is gone.                             *)
(*                                                                         *)
(* The cache is in Redis, one for all processes, under an id made of the   *)
(* tokens asked for.  Which ids are to be invalidated each process         *)
(* remembers for itself, in a set whose members time out (TimedSet).       *)
(*                                                                         *)
(* Of the columns the password stands for all, since all are written back  *)
(* alike; with SALT set a file is encrypted exactly when its row has one.  *)
(***************************************************************************)
EXTENDS Naturals, FiniteSets

CONSTANTS
  Requests,   \* slots for requests; each serves any number of them
  Procs,      \* the clustered processes
  Passwords   \* what clients choose

Open    == "open"      \* no password; of a file: not encrypted
NoFile  == "no file"
Garbage == "garbage"   \* encrypted twice, decrypted with another key, or written in part
Keep    == "keep"      \* of a PATCH: the password is not mentioned

ASSUME PasswordsAssumption ==
  Passwords # {} /\ Passwords \cap {Open, NoFile, Garbage, Keep} = {}

\* What a query finds: one entry, known by its password, or none.
Found == {{}} \cup {{w} : w \in Passwords \cup {Open}}

\* The ids of the cache: getEntries([t]), getEntries([t, u, ...]), getEntriesByBucket(album).
CacheKeys == {"entry", "list", "album"}
\* TimedSet holds tokens, so the id of a list is never among those that are cleared.
Tracked == {"entry", "album"}

VARIABLES
  row,      \* the row in the database, as a query finds it
  bytes,    \* what the file holds
  ids,      \* the ids clients make the program read under (bound: two of the three)
  cache,    \* the cached result under each id: at most one
  known,    \* cachedToken of each process
  pc,       \* where each request is
  at,       \* the process that serves the slot
  op,       \* what the request does
  key,      \* the id it reads under
  goal,     \* the password a PATCH asks for
  model,    \* what it read
  out,      \* what it is about to write into the file
  parted,   \* history: something happened that lets row and file come apart
  excused   \* history: something happened that lets a request save an old model

stored   == <<row, bytes>>
caching  == <<ids, cache, known>>
request  == <<pc, op, key, goal, model, out>>
history  == <<parted, excused>>
vars     == <<stored, caching, at, request, history>>

PC == {"idle", "fill", "readFile", "writeFile", "save", "clear", "forget",
       "unlink", "drop", "remove"}
Ops == {"info", "modify", "writeBack", "delete"}

TypeOK ==
  /\ row \in Found
  /\ bytes \in Passwords \cup {Open, Garbage, NoFile}
  /\ ids \subseteq CacheKeys
  /\ cache \in [CacheKeys -> {{}} \cup {{f} : f \in Found}]
  /\ known \in [Procs -> SUBSET Tracked]
  /\ pc \in [Requests -> PC] /\ op \in [Requests -> Ops] /\ at \in [Requests -> Procs]
  /\ key \in [Requests -> CacheKeys]
  /\ goal \in [Requests -> Passwords \cup {Open, Keep}]
  /\ model \in [Requests -> Found]
  /\ out \in [Requests -> Passwords \cup {Open, Garbage, NoFile}]
  /\ parted \in BOOLEAN /\ excused \in BOOLEAN
  \* whoever writes a model back has read one
  /\ \A r \in Requests : pc[r] \in {"readFile", "writeFile", "save"} => model[r] # {}

Init ==
  /\ row = {Open} /\ bytes = Open
  /\ ids \in {{"entry", "list"}, {"entry", "album"}}
  /\ cache = [k \in CacheKeys |-> {}]
  /\ known = [p \in Procs |-> {}]
  /\ pc = [r \in Requests |-> "idle"] /\ op = [r \in Requests |-> "info"]
  /\ at \in [Requests -> Procs]
  /\ key = [r \in Requests |-> "entry"] /\ goal = [r \in Requests |-> Keep]
  /\ model = [r \in Requests |-> {}] /\ out = [r \in Requests |-> NoFile]
  /\ parted = FALSE /\ excused = FALSE

Active == {r \in Requests : pc[r] # "idle"}

Goto(r, l) == pc' = [pc EXCEPT ![r] = l]

\* The request holds nothing any more; it still clears the cache, or it has ended.
Release(r, l) ==
  /\ Goto(r, l)
  /\ op' = [op EXCEPT ![r] = "info"] /\ key' = [key EXCEPT ![r] = "entry"]
  /\ goal' = [goal EXCEPT ![r] = Keep] /\ model' = [model EXCEPT ![r] = {}]
  /\ out' = [out EXCEPT ![r] = NoFile]

End(r) == Release(r, "idle")

-----------------------------------------------------------------------------
(* Every request begins with a find under a cache id: Redis, else the       *)
(* database and then Redis.                                                 *)

NeedsRewrite(g, found) == g \in Passwords \/ (g = Open /\ found # {Open})

AfterRead_Unchecked(o, g, found) ==
  CASE o = "info"      -> "idle"
    [] o = "delete"    -> "unlink"
    [] o = "writeBack" -> "save"
    [] o = "modify"    -> IF NeedsRewrite(g, found) THEN "readFile" ELSE "save"

\* Where operation o goes on with what it found.
AfterRead(o, g, found) ==
  IF o = "info" \/ found = {} THEN "idle"     \* unknown token, some files were not found
  ELSE CASE o = "delete"    -> "unlink"
         [] o = "writeBack" -> "save"
         [] o = "modify"    -> IF NeedsRewrite(g, found) THEN "readFile" ELSE "save"

Hold(r, l, o, k, g, found) ==
  /\ Goto(r, l)
  /\ op' = [op EXCEPT ![r] = o] /\ key' = [key EXCEPT ![r] = k]
  /\ goal' = [goal EXCEPT ![r] = g] /\ model' = [model EXCEPT ![r] = found]
  /\ UNCHANGED out

AddToken_Not(r, k) == UNCHANGED known

\* cachedToken.add of every token asked for.
AddToken(r, k) == known' = [known EXCEPT ![at[r]] = @ \cup {IF k = "album" THEN k ELSE "entry"}]

Resume(r, o, k, g, found) ==
  /\ AddToken(r, k)
  /\ IF AfterRead(o, g, found) = "idle"
     THEN End(r)
     ELSE Hold(r, AfterRead(o, g, found), o, k, g, found)

Hit(r, o, k, g) ==
  /\ \E found \in cache[k] : Resume(r, o, k, g, found)
  /\ excused' = (excused \/ Active # {} \/ k = "list")   \* requests overlap; lists are not cleared

Miss(r, o, k, g) ==
  /\ cache[k] = {}
  /\ Hold(r, "fill", o, k, g, row)
  /\ excused' = (excused \/ Active # {})
  /\ UNCHANGED known

Read(r, o, k, g) ==
  /\ pc[r] = "idle"
  /\ Hit(r, o, k, g) \/ Miss(r, o, k, g)
  /\ UNCHANGED <<stored, ids, cache, at, parted>>

Fill(r) ==
  /\ pc[r] = "fill"
  /\ cache' = [cache EXCEPT ![key[r]] = {model[r]}]
  /\ Resume(r, op[r], key[r], goal[r], model[r])
  /\ UNCHANGED <<stored, ids, at, history>>

\* GET /rest/:token and the count of a download (entry); a thumbnail of an album (album).
GetFileInfo(r) == \E k \in Tracked \cap ids : Read(r, "info", k, Keep)

ModifyEntry(r) == \E g \in Passwords \cup {Open, Keep} : Read(r, "modify", "entry", g)

\* assignFilesToAlbum reads one entry or a list, swapFileOrder the files of the
\* album; both save whole entries.
WriteBack(r) == \E k \in ids : Read(r, "writeBack", k, Keep)

\* Its second read of the entries changes nothing that lasts: its id is cleared next.
ProcessDelete(r) == \E k \in {"entry", "list"} \cap ids : Read(r, "delete", k, Keep)

-----------------------------------------------------------------------------
(* modifyEntry after its read: rewrite the file, then work out the expiry,  *)
(* then save.                                                               *)

Encrypted(b, p) == IF b = Open THEN p ELSE IF b = NoFile THEN NoFile ELSE Garbage
Decrypted(b, p) == IF b = p THEN Open ELSE IF b = NoFile THEN NoFile ELSE Garbage

Rewritten_NotDecrypted(b, old, new) == IF new = Open THEN b ELSE Encrypted(b, new)

\* encrypt, changePassword and decrypt: what becomes of the bytes of an entry
\* that was read with password `old`.
Rewritten(b, old, new) ==
  LET plain == IF old = Open THEN b ELSE Decrypted(b, old)
  IN  IF new = Open THEN plain ELSE Encrypted(plain, new)

\* A previous password that is missing or wrong.
PasswordIncorrect(r) ==
  /\ pc[r] = "readFile"
  /\ model[r] # {Open}
  /\ End(r)
  /\ UNCHANGED <<stored, caching, at, history>>

ReadFile(r) ==
  /\ pc[r] = "readFile"
  /\ IF bytes = NoFile
     THEN End(r)
     ELSE /\ \E w \in model[r] : out' = [out EXCEPT ![r] = Rewritten(bytes, w, goal[r])]
          /\ Goto(r, "writeFile")
          /\ UNCHANGED <<op, key, goal, model>>
  /\ UNCHANGED <<stored, caching, at, history>>

\* fs.writeFile creates the file if it was deleted in the meantime.
WriteFile(r) ==
  /\ pc[r] = "writeFile"
  /\ bytes' = out[r]
  /\ Goto(r, "save")
  /\ parted' = (parted \/ \E q \in Requests \ {r} : out[q] # NoFile)
  /\ UNCHANGED <<row, caching, at, op, key, goal, model, out, excused>>

\* The disk is full, say: the file is empty by then, or holds a part, unless it could not
\* be opened.
WriteFails(r) ==
  /\ pc[r] = "writeFile"
  /\ bytes' \in {bytes, Garbage}
  /\ End(r)
  /\ parted' = (parted \/ bytes' # bytes)
  /\ UNCHANGED <<row, caching, at, excused>>

\* customExpiry cannot be parsed or is beyond the maximum, or the file cannot be
\* measured: the request fails with the file as it is by now.
ExpiryRefused(r) ==
  /\ pc[r] = "save" /\ op[r] = "modify"
  /\ End(r)
  /\ parted' = (parted \/ out[r] # NoFile)
  /\ UNCHANGED <<stored, caching, at, excused>>

-----------------------------------------------------------------------------
(* Writing back.                                                            *)

\* Its caller finds another password in the row than the one it read, or no row.
Stale(r) == row # model[r]

\* saveEntry and saveEntries.
Save(r) ==
  /\ pc[r] = "save"
  /\ row' = IF goal[r] = Keep THEN model[r] ELSE {goal[r]}
  /\ Release(r, "clear")
  /\ parted' = (parted \/ Stale(r))
  /\ UNCHANGED <<bytes, caching, at, excused>>

\* clearCache(null): the ids of the tokens this process remembers.
ClearCache(r) ==
  /\ pc[r] = "clear"
  /\ cache' = [k \in CacheKeys |-> IF k \in known[at[r]] THEN {} ELSE cache[k]]
  /\ Goto(r, "forget")
  /\ excused' = (excused \/ \E p \in Procs : \E k \in known[p] \ known[at[r]] :
                              cache[k] # {})      \* a copy that another process knows
  /\ UNCHANGED <<stored, ids, known, at, op, key, goal, model, out, parted>>

\* cachedToken.clear(), after the answer from Redis; and the end of the request.
ForgetTokens(r) ==
  /\ pc[r] = "forget"
  /\ known' = [known EXCEPT ![at[r]] = {}]
  /\ End(r)
  /\ UNCHANGED <<stored, ids, cache, at, history>>

-----------------------------------------------------------------------------
(* processDelete.                                                           *)

\* What rm throws is swallowed: the file may stay.
DeleteFilesFromDisk(r) ==
  /\ pc[r] = "unlink"
  /\ bytes' \in {bytes, NoFile}
  /\ Goto(r, "drop") /\ model' = [model EXCEPT ![r] = {}]
  /\ UNCHANGED <<row, caching, at, op, key, goal, out, history>>

DeleteEntries(r) ==
  /\ pc[r] = "drop"
  /\ row' = {}
  /\ Goto(r, "remove")
  /\ UNCHANGED <<bytes, caching, at, op, key, goal, model, out, history>>

\* clearCache(tokens) removes one id, that of the whole list, and forgets every token.
ClearDeleted(r) ==
  /\ pc[r] = "remove"
  /\ cache' = [cache EXCEPT ![key[r]] = {}]
  /\ Release(r, "forget")
  /\ excused' = (excused \/ \E k \in CacheKeys \ {key[r]} : cache[k] # {})
  /\ UNCHANGED <<stored, ids, known, at, parted>>

-----------------------------------------------------------------------------
(* Time and faults.                                                         *)

\* Redis or the database fails, and the request ends where it is: a file that it has
\* rewritten stays as it is, and so do the copies that it was to clear, and the set.
StoreFails(r) ==
  /\ pc[r] \in {"fill", "save", "clear", "forget", "drop", "remove"}
  /\ End(r)
  /\ parted' = (parted \/ out[r] # NoFile)
  /\ excused' = (excused \/ (pc[r] \in {"clear", "remove"} /\ \E k \in CacheKeys : cache[k] # {}))
  /\ UNCHANGED <<stored, caching, at>>

\* 60 s after it was filled a cached result is gone.
Expire(k) ==
  /\ cache[k] # {}
  /\ cache' = [cache EXCEPT ![k] = {}]
  /\ UNCHANGED <<stored, ids, known, at, request, history>>

\* A token's timer outlasts the result that was there when it was added; but add and
\* clear leave the timer of an earlier add running, which evicts the token too early.
TimerFires(p, k) ==
  /\ k \in known[p]
  /\ known' = [known EXCEPT ![p] = @ \ {k}]
  /\ excused' = (excused \/ cache[k] # {})
  /\ UNCHANGED <<stored, ids, cache, at, request, parted>>

\* A process dies, and with it its requests and its set; Redis keeps the copies.
\* fs.writeFile empties the file before it writes.
Crash(p) ==
  LET hit == {r \in Active : at[r] = p}
      Dead(f, d) == [r \in Requests |-> IF r \in hit THEN d ELSE f[r]]
      writing == {r \in hit : pc[r] = "writeFile"}
  IN  /\ hit # {}
      /\ pc' = Dead(pc, "idle") /\ op' = Dead(op, "info") /\ key' = Dead(key, "entry")
      /\ goal' = Dead(goal, Keep) /\ model' = Dead(model, {}) /\ out' = Dead(out, NoFile)
      /\ bytes' \in {bytes} \cup (IF writing = {} THEN {} ELSE {Garbage})
      /\ known' = [known EXCEPT ![p] = {}]
      /\ parted' = (parted \/ \E r \in hit : out[r] # NoFile)
      /\ excused' = (excused \/ \E k \in ids : cache[k] # {})
      /\ UNCHANGED <<row, ids, cache, at>>

-----------------------------------------------------------------------------
Begin(r) == GetFileInfo(r) \/ ModifyEntry(r) \/ WriteBack(r) \/ ProcessDelete(r)

Continue(r) ==
  \/ Fill(r) \/ PasswordIncorrect(r) \/ ReadFile(r) \/ WriteFile(r) \/ WriteFails(r)
  \/ ExpiryRefused(r) \/ Save(r) \/ ClearCache(r) \/ ForgetTokens(r)
  \/ DeleteFilesFromDisk(r) \/ DeleteEntries(r) \/ ClearDeleted(r) \/ StoreFails(r)

Next ==
  \/ \E r \in Requests : Begin(r) \/ Continue(r)
  \/ \E k \in CacheKeys : Expire(k)
  \/ \E p \in Procs, k \in Tracked : TimerFires(p, k)
  \/ \E p \in Procs : Crash(p)

Spec == Init /\ [][Next]_vars

-----------------------------------------------------------------------------
\* While somebody is between the file and the row they may differ.
Settled == \A r \in Requests : pc[r] \notin {"save", "drop"}

\* The file holds what its row says: encrypted with the password of the row, or as it
\* was uploaded.  Only five things part them: a model saved over a row that has
\* changed since it was read, a PATCH that is refused or fails after it rewrote the file, two
\* of them that rewrite it at a time, a write that fails in the middle, and a crash.
ContentFollowsRow ==
  Settled => \A w \in row : bytes \in {w, NoFile} \/ parted

\* A stale model is saved only if requests overlapped, the model came from the id of a
\* list, a process updated the row while another remembered its copy, a timer left
\* running forgot a token, a deletion forgot the other tokens, Redis failed whoever was to
\* clear it, or a process died.
StaleSavesExplained == \A r \in Requests : pc[r] = "save" /\ Stale(r) => excused

\* A PATCH that is refused leaves a file that can be read as its entry says: violated.
RefusalLeavesFileReadable ==
  [][(\E r \in Requests : ExpiryRefused(r)) => \A w \in row' : bytes' \in {w, NoFile}]_vars
=============================================================================
