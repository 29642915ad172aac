------------------------------- MODULE Album -------------------------------
(***************************************************************************)
(* One album: its row, the rows of the files that are or may be in it,     *)
(* their files on disk, and the list of its files that the query cache     *)
(* keeps.  Files are in the order of addedToAlbumOrder.                    *)
(*                                                                         *)
(* Every request reads first and writes after one or more awaits.  What it *)
(* writes are whole models: TypeORM's save makes the rows what the models  *)
(* are, and inserts those that are gone; saving an album makes the set of  *)
(* its files what the model holds.                                         *)
(*                                                                         *)
(* One process; how several of them forget what they cached, and entries   *)
(* that are cached by themselves, is in Entry.                             *)
(***************************************************************************)
EXTENDS Integers, FiniteSets, Sequences

CONSTANTS
  Files,      \* ids of files of the bucket
  Limit,      \* ALBUM_FILE_LIMIT
  Requests,   \* slots for requests; each serves any number of them
  MaxSent,    \* bound: requests in all; one that begins beside another counts twice
  MaxOrder,   \* bound: orders handed out
  MaxShares   \* bound: public tokens made

ASSUME AlbumAssumption ==
  /\ Files \subseteq Nat \ {0} /\ IsFiniteSet(Files) /\ IsFiniteSet(Requests)
  /\ Limit \in Nat /\ MaxSent \in Nat /\ MaxShares \in Nat
  /\ MaxOrder \in Nat /\ Cardinality(Files) <= MaxOrder     \* all of them have places

Gone == -1      \* no row
Out  == 0       \* a row of the bucket, not in the album
Private == 0    \* no public token

VARIABLES
  exists,   \* the album has a row
  pub,      \* its public token
  tokens,   \* public tokens made so far
  row,      \* of each file: Gone, Out, or its place in the order
  disk,     \* the files that are on disk
  copy,     \* the cached list of the album: at most one
  known,    \* cachedToken has the album
  premium,  \* the bucket is not of the normal type
  req,      \* the requests
  sent,     \* the requests so far, as MaxSent counts them
  told,     \* history: what clients know of the public token
  torn,     \* history: files whose row and file were parted by a race
  cause     \* history: the races that happened

database == <<exists, pub, tokens, row, premium>>
caching  == <<copy, known>>
history  == <<told, torn, cause>>
vars     == <<database, disk, caching, req, sent, history>>

PC == {"idle", "order", "saveFiles", "clear", "reread", "saveAlbum", "list", "fill",
       "position", "tx", "commit", "unlink", "drop", "share", "revoke"}
Ops == {"none", "assign", "remove", "swap", "view", "deleteAll", "deleteKeep", "delete",
        "share", "revoke"}
Causes == {"excused", "overAdd", "revived", "raced"}

Lists == [Files -> Out..MaxOrder]     \* a list that was read: Out for what is not in it

Idle == [pc |-> "idle", op |-> "none", of |-> {}, to |-> 1, pass |-> 1, saves |-> {},
         seen |-> [f \in Files |-> Out], pub |-> Private]

TypeOK ==
  /\ exists \in BOOLEAN /\ premium \in BOOLEAN /\ known \in BOOLEAN
  /\ pub \in 0..tokens /\ told \in 0..tokens /\ tokens \in 0..MaxShares
  /\ row \in [Files -> Gone..MaxOrder]
  /\ disk \subseteq Files /\ torn \subseteq Files
  /\ copy \in {{}} \cup {{m} : m \in Lists}
  /\ req \in [Requests -> [pc : PC, op : Ops, of : SUBSET Files, to : Nat \ {0},
                           pass : 1..2, saves : SUBSET Files, seen : Lists, pub : 0..MaxShares]]
  /\ cause \subseteq Causes /\ sent \in 0..MaxSent
  \* without an album there is nothing in it
  /\ ~exists => pub = Private /\ \A f \in Files : row[f] <= Out

Init ==
  /\ exists = TRUE /\ premium \in BOOLEAN /\ pub = Private /\ tokens = 0
  /\ row = [f \in Files |-> Out] /\ disk = Files
  /\ copy = {} /\ known = FALSE
  /\ req = [r \in Requests |-> Idle]
  /\ sent = 0 /\ told = Private /\ torn = {} /\ cause = {}

In(m) == {f \in Files : m[f] > Out}

\* What a query for the files of the album finds.
Listed == [f \in Files |-> IF row[f] > Out THEN row[f] ELSE Out]

\* The orders in which a list may be shown: files with the same place in either.
Arrangements(m) ==
  {s \in [1..Cardinality(In(m)) -> In(m)] :
     \A i, j \in DOMAIN s : i < j => s[i] # s[j] /\ m[s[i]] <= m[s[j]]}

Active == {r \in Requests : req[r].pc # "idle"}
Goto(r, l) == req' = [req EXCEPT ![r].pc = l]
End(r) == req' = [req EXCEPT ![r] = Idle]
Blame(C) == cause' = cause \cup C

\* A request of some client begins; what it needs of the album was read just now.
Begin(r, o, l, S) ==
  /\ req[r].pc = "idle" /\ exists
  /\ req' = [req EXCEPT ![r] = [Idle EXCEPT !.pc = l, !.op = o, !.of = S,
                                   !.seen = IF o = "deleteAll" THEN Listed ELSE @]]
  /\ UNCHANGED <<database, disk, caching, told, torn>>

Overlap == IF Active = {} THEN {} ELSE {"excused"}

\* Requests that write, or write back, the public token.
Publishing == {"share", "revoke", "remove", "deleteAll", "deleteKeep"}
Race == IF \E q \in Active : req[q].op \in Publishing THEN {"raced"} ELSE {}

-----------------------------------------------------------------------------
(* Saving files.                                                            *)

\* saveEntries of `saves` with the places of `seen`.  It fails when the
\* album is gone: albumToken is a foreign key.
SaveFiles(r) ==
  /\ req[r].pc = "saveFiles"
  /\ IF exists
     THEN /\ row' = [f \in Files |-> IF f \in req[r].saves THEN req[r].seen[f] ELSE row[f]]
          /\ Goto(r, "clear")
          /\ torn' = torn \cup {f \in req[r].saves : row[f] = Gone}
          /\ Blame(IF \E f \in req[r].saves : row[f] = Gone \/ (row[f] = Out /\ req[r].op = "swap")
                   THEN {"revived"} ELSE {})
     ELSE /\ End(r)
          /\ UNCHANGED <<row, torn, cause>>
  /\ UNCHANGED <<exists, pub, tokens, premium, disk, caching, told>>

\* clearCache(null) of the cached tokens: the list goes if this process remembers it.
ClearCache(r) ==
  /\ req[r].pc = "clear"
  /\ copy' = IF known THEN {} ELSE copy
  /\ known' = FALSE
  /\ IF req[r].op = "swap" /\ req[r].pass = 1
     THEN req' = [req EXCEPT ![r].pc = "list", ![r].pass = 2]
     ELSE End(r)
  /\ UNCHANGED <<database, disk, history>>

-----------------------------------------------------------------------------
(* assignFilesToAlbum                                                       *)

MaxPlace == CHOOSE m \in 0..MaxOrder : (m = 0 \/ \E f \in Files : row[f] = m) /\ \A f \in Files : row[f] <= m

WithinLimit_Others(S) == Cardinality(S) <= Limit
WithinLimit(S) == Cardinality(In(row) \cup S) <= Limit

\* A file that is gone is not found; one in the album already counts once.
AssignFiles(r) ==
  \E S \in (SUBSET Files) \ {{}} :
    /\ \A f \in S : row[f] # Gone
    /\ premium \/ WithinLimit(S)
    /\ MaxPlace + Cardinality(S) <= MaxOrder
    /\ Begin(r, "assign", "order", S)
    /\ Blame(Overlap \cup IF \E q \in Active : req[q].op = "assign" THEN {"overAdd"} ELSE {})

GetNextAlbumValue == MaxPlace + 1

\* Sorted by id, the files get the places after the last.
AddFiles(r) ==
  LET S == req[r].of
      base == GetNextAlbumValue
  IN  /\ req[r].pc = "order"
      /\ base + Cardinality(S) - 1 <= MaxOrder
      /\ req' = [req EXCEPT ![r].pc = "saveFiles", ![r].saves = S,
                   ![r].seen = [f \in Files |-> IF f \in S THEN base + Cardinality({g \in S : g < f})
                                                ELSE Out]]
      /\ UNCHANGED <<database, disk, caching, history>>

-----------------------------------------------------------------------------
(* disassociateFilesFromAlbum                                               *)

RemoveFiles(r) ==
  \E S \in (SUBSET In(row)) \ {{}} :
    Begin(r, "remove", "reread", S) /\ Blame(Overlap \cup Race)

\* removeFilesFromAlbum reads the album once more.
RereadAlbum(r) ==
  /\ req[r].pc = "reread"
  /\ IF exists
     THEN req' = [req EXCEPT ![r].pc = "saveAlbum", ![r].seen = Listed, ![r].pub = pub]
     ELSE End(r)
  /\ UNCHANGED <<database, disk, caching, history>>

Kept(r) == In(req[r].seen) \ req[r].of

SavedToken_Missing(r) == Private
SavedToken(r) == req[r].pub

\* The album and the files it was read with are written; files that came into it since
\* are put out.  The cached list is not cleared.
SaveAlbum(r) ==
  LET read == In(req[r].seen)
  IN  /\ req[r].pc = "saveAlbum"
      /\ exists' = TRUE /\ pub' = SavedToken(r)
      /\ row' = [f \in Files |-> IF f \in Kept(r) THEN req[r].seen[f]
                                 ELSE IF f \in read \/ row[f] # Gone THEN Out ELSE Gone]
      /\ torn' = torn \cup {f \in read : row[f] = Gone}
      /\ Blame(IF \E f \in Kept(r) : row[f] <= Out THEN {"revived"} ELSE {})
      /\ End(r)
      /\ UNCHANGED <<tokens, premium, disk, caching, told>>

-----------------------------------------------------------------------------
(* getEntriesByBucket, of swapFileOrder and of the thumbnails of a shared album. *)

\* The list from the cache, or from the table and then into the cache.
GetEntriesByBucket(r) ==
  /\ req[r].pc = "list"
  /\ \/ /\ \E m \in copy : req' = [req EXCEPT ![r].pc = "position", ![r].seen = m]
        /\ known' = TRUE
        /\ Blame(IF Listed \in copy \/ req[r].op = "view" THEN {} ELSE {"excused"})
     \/ /\ copy = {}
        /\ req' = [req EXCEPT ![r].pc = "fill", ![r].seen = Listed]
        /\ UNCHANGED <<known, cause>>
  /\ UNCHANGED <<database, disk, copy, told, torn>>

FillCache(r) ==
  /\ req[r].pc = "fill"
  /\ copy' = {req[r].seen} /\ known' = TRUE
  /\ Goto(r, "position")
  /\ UNCHANGED <<database, disk, history>>

ViewAlbum(r) == pub # Private /\ Begin(r, "view", "list", {}) /\ UNCHANGED cause

ViewDone(r) ==
  /\ req[r].pc = "position" /\ req[r].op = "view"
  /\ End(r)
  /\ UNCHANGED <<database, disk, caching, history>>

-----------------------------------------------------------------------------
(* swapFileOrder                                                            *)

SwapFileOrder(r) ==
  \E f \in Files, j \in 1..Cardinality(Files) :
    /\ req[r].pc = "idle" /\ exists
    /\ req' = [req EXCEPT ![r] = [Idle EXCEPT !.pc = "list", !.op = "swap", !.of = {f}, !.to = j]]
    /\ Blame(Overlap)
    /\ UNCHANGED <<database, disk, caching, told, torn>>

Numbered(m) == {m[f] : f \in In(m)} = 1..Cardinality(In(m))

\* Unless the places are 1, 2, ... they are made so, saved, and read again.
Renumber(r) ==
  /\ req[r].pc = "position" /\ req[r].op = "swap" /\ req[r].pass = 1
  /\ ~Numbered(req[r].seen)
  /\ \E s \in Arrangements(req[r].seen) :
       req' = [req EXCEPT ![r].pc = "saveFiles", ![r].saves = In(req[r].seen),
                 ![r].seen = [f \in Files |-> IF f \in In(req[r].seen)
                                              THEN CHOOSE i \in DOMAIN s : s[i] = f ELSE Out]]
  /\ UNCHANGED <<database, disk, caching, history>>

Swapped_Twice(m, f, g) == [m EXCEPT ![f] = m[g]]
Swapped(m, f, g) == [m EXCEPT ![f] = m[g], ![g] = m[f]]

\* The client names the file and its place; a wrong place ends the request.
MoveFile(r) ==
  /\ req[r].pc = "position" /\ req[r].op = "swap"
  /\ req[r].pass = 2 \/ Numbered(req[r].seen)
  /\ LET m == req[r].seen
     IN  IF req[r].of \subseteq In(m) /\ req[r].to <= Cardinality(In(m))
         THEN \E s \in Arrangements(m), f \in req[r].of :
                LET g == s[req[r].to]
                IN  req' = [req EXCEPT ![r].pc = "saveFiles", ![r].pass = 2, ![r].saves = {f, g},
                                       ![r].seen = Swapped(m, f, g)]
         ELSE End(r)
  /\ UNCHANGED <<database, disk, caching, history>>

-----------------------------------------------------------------------------
(* deleteAlbum                                                              *)

DeleteAlbum(r) ==
  \E o \in {"deleteAll", "deleteKeep"} :
    Begin(r, o, "tx", {}) /\ Blame(Overlap \cup Race)

\* Somebody deleted the album first: who keeps the files is told so.
NothingToDelete(r) ==
  /\ req[r].pc \in {"tx", "commit"} /\ req[r].op = "deleteKeep" /\ ~exists
  /\ End(r)
  /\ UNCHANGED <<database, disk, caching, history>>

AlbumGoes == exists' = FALSE /\ pub' = Private /\ told' = Private /\ known' = (known /\ ~exists)

\* deleteFiles: with the album go, by cascade, the rows of the files that are in it now.  It
\* answers true also when the album was gone before, and the files are unlinked all the same.
DeleteAlbumTx(r) ==
  LET read == In(req[r].seen)
  IN  /\ req[r].pc = "tx" /\ req[r].op = "deleteAll"
      /\ AlbumGoes
      /\ row' = [f \in Files |-> IF row[f] > Out THEN Gone ELSE row[f]]
      /\ Goto(r, "unlink")
      /\ torn' = torn \cup (In(row) \ read) \cup {f \in read : row[f] = Out}
      /\ UNCHANGED <<tokens, premium, disk, copy, cause>>

\* The files it read before the transaction.
Unlinked(r) == IF req[r].op = "deleteAll" THEN In(req[r].seen) ELSE req[r].of

DeleteFilesFromDisk(r) ==
  /\ req[r].pc = "unlink"
  /\ disk' = disk \ Unlinked(r)
  /\ IF req[r].op = "delete" THEN Goto(r, "drop") ELSE End(r)
  /\ UNCHANGED <<database, caching, history>>

Detached_Nothing(r) == {}
Detached(r) == In(req[r].seen)

\* Otherwise the files in it are put out first ...
DetachFiles(r) ==
  /\ req[r].pc = "tx" /\ req[r].op = "deleteKeep" /\ exists
  /\ req' = [req EXCEPT ![r].pc = "commit", ![r].seen = Listed]
  /\ UNCHANGED <<database, disk, caching, history>>

\* ... and what came into it since goes with it.
DetachCommit(r) ==
  /\ req[r].pc = "commit" /\ exists
  /\ AlbumGoes
  /\ row' = [f \in Files |-> IF row[f] <= Out THEN row[f]
                             ELSE IF f \in Detached(r) THEN Out ELSE Gone]
  /\ torn' = torn \cup (In(row) \ In(req[r].seen))
  /\ End(r)
  /\ UNCHANGED <<tokens, premium, disk, copy, cause>>

-----------------------------------------------------------------------------
(* processDelete of one of the files.                                       *)

ProcessDelete(r) ==
  /\ req[r].pc = "idle"
  /\ \E f \in Files :
       /\ row[f] # Gone
       /\ req' = [req EXCEPT ![r] = [Idle EXCEPT !.pc = "unlink", !.op = "delete", !.of = {f}]]
  /\ Blame(Overlap)
  /\ UNCHANGED <<database, disk, caching, told, torn>>

\* Whatever is cached the process forgets; the list of the album stays in the cache.
DeleteEntries(r) ==
  /\ req[r].pc = "drop"
  /\ row' = [f \in Files |-> IF f \in req[r].of THEN Gone ELSE row[f]]
  /\ known' = FALSE
  /\ End(r)
  /\ UNCHANGED <<exists, pub, tokens, premium, disk, copy, history>>

-----------------------------------------------------------------------------
(* Sharing.                                                                 *)

\* An album that is shared is so under the URL it has.
ShareAlbum(r) ==
  /\ pub = Private
  /\ tokens + Cardinality({q \in Active : req[q].op = "share"}) < MaxShares
  /\ Begin(r, "share", "share", {}) /\ Blame(Overlap \cup Race)

SetShared(r) ==
  /\ req[r].pc = "share"
  /\ tokens' = tokens + 1
  /\ pub' = IF exists THEN tokens' ELSE pub
  /\ told' = tokens'
  /\ End(r)
  /\ UNCHANGED <<exists, row, premium, disk, caching, torn, cause>>

RevokeShare(r) == Begin(r, "revoke", "revoke", {}) /\ Blame(Overlap \cup Race)

SetRevoked(r) ==
  /\ req[r].pc = "revoke"
  /\ pub' = Private /\ told' = Private
  /\ End(r)
  /\ UNCHANGED <<exists, tokens, row, premium, disk, caching, torn, cause>>

-----------------------------------------------------------------------------
(* Time: a cached result lives 60 s, and a token's timer may evict it first. *)

Expire == copy # {} /\ copy' = {} /\ UNCHANGED <<database, disk, known, req, history>>

TimerFires == known /\ known' = FALSE /\ UNCHANGED <<database, disk, copy, req, history>>

-----------------------------------------------------------------------------
Request(r) ==
  \/ AssignFiles(r) \/ RemoveFiles(r) \/ SwapFileOrder(r) \/ DeleteAlbum(r)
  \/ ShareAlbum(r) \/ RevokeShare(r) \/ ViewAlbum(r) \/ ProcessDelete(r)

Continue(r) ==
  \/ SaveFiles(r) \/ ClearCache(r) \/ AddFiles(r) \/ RereadAlbum(r) \/ SaveAlbum(r)
  \/ GetEntriesByBucket(r) \/ FillCache(r) \/ ViewDone(r) \/ Renumber(r) \/ MoveFile(r)
  \/ NothingToDelete(r) \/ DeleteAlbumTx(r) \/ DetachFiles(r) \/ DetachCommit(r)
  \/ DeleteFilesFromDisk(r) \/ DeleteEntries(r) \/ SetShared(r) \/ SetRevoked(r)

Next ==
  \/ /\ sent' = sent + 1 + Cardinality(Active) /\ sent' <= MaxSent
     /\ \E r \in Requests : Request(r)
  \/ /\ UNCHANGED sent
     /\ (\E r \in Requests : Continue(r)) \/ Expire \/ TimerFires

Spec == Init /\ [][Next]_vars

-----------------------------------------------------------------------------
\* The list that places make; files with one place have no order, and are no list.
Shown(m) == IF Cardinality(Arrangements(m)) = 1 THEN CHOOSE s \in Arrangements(m) : TRUE ELSE <<Out>>

\* As long as one request ends before the next begins, and no swap works on a cached list
\* that the removal or deletion of a file left behind, the list of the album changes only
\* as the requests say: it implements AlbumList.
Promise == INSTANCE AlbumList WITH
  list    <- Shown(row),
  excused <- "excused" \in cause
ImplementsList == Promise!Spec

\* An album has more than its limit of files only after two requests that were checked
\* against it overlapped, or an old model brought a file back into it.  A server that
\* finds such an album does not start ($afterInit).
LimitKept == premium \/ Cardinality(In(row)) <= Limit \/ cause \cap {"overAdd", "revived"} # {}

\* Everything that is in the bucket is on disk and the other way round, but for files that
\* a request is deleting, that an old model brought back, that came into or went out of an
\* album while it was deleted, and that outlived an album which was deleted twice at once.
Deleting == UNION {Unlinked(r) : r \in {q \in Requests : req[q].pc \in {"unlink", "drop"}}}
RowsHaveFiles == \A f \in Files \ (torn \cup Deleting) : row[f] # Gone <=> f \in disk

\* A URL that was handed out works until it is revoked or the album deleted, and never again
\* after that, unless requests that write the public token overlap.
UrlsAsTold == pub = told \/ "raced" \in cause

\* A file that was removed stays out until it is added again: violated by a single client.
RemovedStaysOut ==
  [][\A f \in Files : row[f] = Out /\ row'[f] > Out =>
       \E r \in Requests : req[r].op = "assign" /\ f \in req[r].of]_vars
=============================================================================
