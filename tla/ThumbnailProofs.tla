-------------------------- MODULE ThumbnailProofs ---------------------------
(***************************************************************************)
(* The safety properties of the two caches of thumbnails, for any number   *)
(* of requests and faults, any contents and any limit.                     *)
(*                                                                         *)
(* Of the copies (ThumbCopies), each is inductive with the types.  Of the  *)
(* thumbnails made on demand (ThumbMaker), what is in the cache must be fit*)
(* for every source that has its key, and what a request carries fit for   *)
(* its own.                                                                *)
(***************************************************************************)
EXTENDS ThumbCopies, ThumbMaker, TLAPS

-----------------------------------------------------------------------------
(* The copies of the thumbnails of an album.                                *)

CopiesInv == CopiesTypeOK /\ CopiesGo /\ NoneMissed

SlotsAre == [op : Ops, valid : BOOLEAN, del : BOOLEAN,
          pc : {"idle", "redis", "db", "empty", "thumb", "generate", "has", "rows", "entry"}]

\* The request makes a thumbnail next, or removes the file.
Promises(s) == (s.pc = "generate" /\ s.op # "get") \/ (s.op \in Deletions /\ s.pc = "entry")

\* A slot of another value, and nothing else.
LEMMA SlotTypes ==
  ASSUME CopiesTypeOK, NEW r \in Slots, NEW s \in SlotsAre, doing' = [doing EXCEPT ![r] = s]
  PROVE  /\ doing' \in [Slots -> SlotsAre]
         /\ doing'[r] = s
         /\ \A q \in Slots \ {r} : doing'[q] = doing[q]
BY DEF CopiesTypeOK, SlotsAre

LEMMA SlotOnly ==
  ASSUME CopiesInv, NEW r \in Slots, NEW s \in SlotsAre, doing' = [doing EXCEPT ![r] = s],
         s.del = doing[r].del, Promises(doing[r]) => Promises(s),
         UNCHANGED <<file, row, copy, goService, faults, history>>
  PROVE  CopiesInv'
<1>1. CopiesTypeOK'
  BY SlotTypes DEF CopiesInv, CopiesTypeOK, SlotsAre, file, goService, history
<1>2. CopiesGo'
  BY SlotTypes DEF CopiesInv, CopiesGo, history
<1>3. Awaited => Awaited'
  <2>1. ASSUME NEW q \in Slots, Promises(doing[q])
        PROVE  Promises(doing'[q])
    BY <2>1, SlotTypes DEF CopiesInv
  <2> QED
    BY <2>1 DEF Awaited, Promises, goService
<1> QED
  BY <1>1, <1>2, <1>3 DEF CopiesInv, NoneMissed, file, history

\* What End, Goto and Begin make of a slot.
LEMMA SlotMoves ==
  ASSUME CopiesTypeOK, NEW r \in Slots
  PROVE  /\ doing[r] \in SlotsAre
         /\ [Resting EXCEPT !.del = doing[r].del] \in SlotsAre
         /\ [Resting EXCEPT !.del = doing[r].del].del = doing[r].del
         /\ ~Promises([Resting EXCEPT !.del = doing[r].del])
         /\ [Resting EXCEPT !.del = doing[r].del].pc = "idle"
BY DEF CopiesTypeOK, SlotsAre, Resting, Ops, Promises, Deletions

LEMMA BeginOnly ==
  ASSUME CopiesInv, NEW r \in Slots, NEW op \in Ops,
         NEW pc \in {"redis", "generate", "has", "rows"}, Starts(r, op, pc)
  PROVE  \E s \in SlotsAre :
           /\ doing' = [doing EXCEPT ![r] = s]
           /\ s.op = op /\ s.pc = pc /\ s.del = doing[r].del
           /\ ~Promises(doing[r])
<1> DEFINE s == [Resting EXCEPT !.op = op, !.pc = pc, !.valid = op \in Deletions /\ fileRow = "plain"]
<1>1. s \in SlotsAre /\ s.op = op /\ s.pc = pc /\ s.del = FALSE
  BY DEF SlotsAre, Resting, Ops
<1>2. ~doing[r].del /\ doing[r].pc = "idle" /\ doing' = [doing EXCEPT ![r] = s]
  BY DEF Starts, Free
<1>3. doing[r].del = FALSE
  BY <1>2 DEF CopiesInv, CopiesTypeOK
<1> QED
  BY <1>1, <1>2, <1>3 DEF Promises

LEMMA FaultCounts == faults \in Nat /\ Fault => faults' \in Nat
BY DEF Fault

-----------------------------------------------------------------------------
LEMMA CopiesServeKeep ==
  ASSUME CopiesInv, NEW r \in Slots, GiveThumb(r)
  PROVE  CopiesInv'
<1> USE DEF CopiesInv
<1>1. CASE Get(r)
  <2>1. \E s \in SlotsAre : doing' = [doing EXCEPT ![r] = s] /\ s.del = doing[r].del /\ ~Promises(doing[r])
    BY <1>1, BeginOnly DEF Get, Ops
  <2> QED
    BY <1>1, <2>1, SlotOnly DEF Get
<1>2. ASSUME NEW s \in SlotsAre, doing' = [doing EXCEPT ![r] = s], s.del = doing[r].del, doing[r].op = "get",
             UNCHANGED <<file, row, copy, goService, faults, history>>
      PROVE  CopiesInv'
  BY <1>2, SlotOnly DEF Promises, Deletions
<1>3. ASSUME NEW pc \in {"db", "empty", "thumb", "generate"}
      PROVE  [doing[r] EXCEPT !.pc = pc] \in SlotsAre /\ [doing[r] EXCEPT !.pc = pc].del = doing[r].del
  BY <1>3, SlotMoves DEF SlotsAre
<1>4. CASE GetBuffer(r)
  <2>1. CASE copy = "thumb"
    BY <1>2, <1>4, <2>1, SlotMoves DEF GetBuffer, End
  <2>2. CASE copy # "thumb"
    <3>1. doing' = [doing EXCEPT ![r] = [doing[r] EXCEPT !.pc = "db"]]
      BY <1>4, <2>2 DEF GetBuffer, To
    <3> QED
      BY <1>2, <1>3, <1>4, <3>1 DEF GetBuffer
  <2> QED
    BY <2>1, <2>2
<1>5. CASE GetThumbnailCache(r)
  <2>1. CASE row = "none"
    BY <1>2, <1>5, <2>1, SlotMoves DEF GetThumbnailCache, End
  <2>2. CASE row # "none"
    <3>1. doing' = [doing EXCEPT ![r] = [doing[r] EXCEPT !.pc = row]] /\ row \in {"empty", "thumb"}
      BY <1>5, <2>2 DEF GetThumbnailCache, To, CopiesTypeOK, ThumbData
    <3> QED
      BY <1>2, <1>3, <1>5, <3>1 DEF GetThumbnailCache
  <2> QED
    BY <2>1, <2>2
<1>6. CASE CacheRedis(r)
  <2>1. \E s \in SlotsAre : doing' = [doing EXCEPT ![r] = s] /\ s.del = doing[r].del
    <3>1. CASE doing[r].pc = "thumb"
      BY <1>6, <3>1, SlotMoves DEF CacheRedis, End
    <3>2. CASE doing[r].pc # "thumb"
      <4>1. doing' = [doing EXCEPT ![r] = [doing[r] EXCEPT !.pc = "generate"]]
        BY <1>6, <3>2 DEF CacheRedis, To
      <4> QED
        BY <1>3, <4>1
    <3> QED
      BY <3>1, <3>2
  <2>2. ~Promises(doing[r])
    BY <1>6 DEF CacheRedis, Promises, Deletions
  <2>3. PICK s \in SlotsAre : doing' = [doing EXCEPT ![r] = s] /\ s.del = doing[r].del
    BY <2>1
  <2>4. CopiesTypeOK'
    BY <1>6, <2>3, SlotTypes DEF CacheRedis, CopiesTypeOK, SlotsAre, ThumbData, file, goService
  <2>5. CopiesGo'
    BY <1>6, <2>3, SlotTypes DEF CacheRedis, CopiesGo
  <2>6. NoneMissed'
    <3>1. Awaited => Awaited'
      BY <1>6, <2>2, <2>3, SlotTypes DEF CacheRedis, Awaited, Promises, goService
    <3> QED
      BY <1>6, <3>1 DEF CacheRedis, NoneMissed, file
  <2> QED
    BY <2>4, <2>5, <2>6
<1> QED
  BY <1>1, <1>4, <1>5, <1>6 DEF GiveThumb

LEMMA AlbumKeeps ==
  ASSUME CopiesInv, NEW r \in Slots, Assign(r) \/ Share(r) \/ Generate(r)
  PROVE  CopiesInv'
<1> USE DEF CopiesInv
<1>1. CASE Assign(r)
  <2>1. PICK s \in SlotsAre : /\ doing' = [doing EXCEPT ![r] = s]
                           /\ s.op = "assign" /\ s.pc = "generate" /\ s.del = doing[r].del
    BY <1>1, BeginOnly DEF Assign, Ops
  <2>2. CopiesTypeOK'
    BY <1>1, <2>1, SlotTypes DEF Assign, CopiesTypeOK, SlotsAre, goService, history
  <2>3. CopiesGo'
    BY <1>1, <2>1, SlotTypes DEF Assign, CopiesGo, history
  <2>4. Promises(doing'[r])
    BY <2>1, SlotTypes DEF Promises
  <2> QED
    BY <2>2, <2>3, <2>4 DEF NoneMissed, Awaited, Promises
<1>2. CASE Share(r)
  <2>1. \E s \in SlotsAre : doing' = [doing EXCEPT ![r] = s] /\ s.del = doing[r].del /\ ~Promises(doing[r])
    BY <1>2, BeginOnly DEF Share, Ops
  <2> QED
    BY <1>2, <2>1, SlotOnly DEF Share
<1>3. CASE Generate(r)
  <2>1. PICK s \in SlotsAre : doing' = [doing EXCEPT ![r] = s] /\ s.del = doing[r].del
    BY <1>3, SlotMoves DEF Generate, End
  <2>2. CopiesTypeOK'
    <3>1. doing' \in [Slots -> SlotsAre]
      BY <2>1, SlotTypes
    <3>2. faults' \in Nat
      BY <1>3, FaultCounts DEF Generate, GenerateThumbnails, CopiesTypeOK
    <3>3. making' \in BOOLEAN
      BY <1>3, Zenon DEF Generate, GenerateThumbnails, CopiesTypeOK
    <3>4. missed' \subseteq missed \cup {"dropped", "failed"}
      BY <1>3 DEF Generate, GenerateThumbnails
    <3>5. UNCHANGED <<fileRow, inAlbum, row, copy, storing, stale>>
      BY <1>3 DEF Generate, GenerateThumbnails, file
    <3> QED
      BY <3>1, <3>2, <3>3, <3>4, <3>5 DEF CopiesTypeOK, SlotsAre
  <2>3. CopiesGo'
    BY <1>3, <2>1, SlotTypes DEF Generate, GenerateThumbnails, CopiesGo
  <2>4. NoneMissed'
    BY <1>3 DEF Generate, GenerateThumbnails, Sent, NoneMissed, Awaited, file
  <2> QED
    BY <2>2, <2>3, <2>4
<1> QED
  BY <1>1, <1>2, <1>3

LEMMA CopiesRemoveKeep ==
  ASSUME CopiesInv, NEW r \in Slots, Remove(r)
  PROVE  CopiesInv'
<1> USE DEF CopiesInv
<1>1. ASSUME NEW op \in Deletions, Delete(r, op)
      PROVE  CopiesInv'
  <2>1. op \in Ops /\ Starts(r, op, "has")
    BY <1>1 DEF Delete, Ops
  <2>2. \E s \in SlotsAre : doing' = [doing EXCEPT ![r] = s] /\ s.del = doing[r].del /\ ~Promises(doing[r])
    BY <2>1, BeginOnly
  <2> QED
    BY <1>1, <2>2, SlotOnly DEF Delete
<1>2. CASE Disassociate(r)
  <2>1. PICK s \in SlotsAre : doing' = [doing EXCEPT ![r] = s] /\ s.del = doing[r].del
    BY <1>2, BeginOnly DEF Disassociate, Ops
  <2>2. CopiesTypeOK'
    <3>1. doing' \in [Slots -> SlotsAre]
      BY <2>1, SlotTypes
    <3>2. inAlbum' = FALSE /\ missed' = {} /\ UNCHANGED <<fileRow, row, copy, making, storing, faults, stale>>
      BY <1>2 DEF Disassociate, goService
    <3> QED
      BY <3>1, <3>2 DEF CopiesTypeOK, SlotsAre
  <2>3. CopiesGo'
    BY <1>2, <2>1, SlotTypes DEF Disassociate, CopiesGo
  <2> QED
    BY <1>2, <2>2, <2>3 DEF Disassociate, NoneMissed
<1>3. CASE HasThumbnails(r)
  <2>1. ASSUME NEW pc \in {"rows", "entry"}
        PROVE  [doing[r] EXCEPT !.pc = pc] \in SlotsAre /\ [doing[r] EXCEPT !.pc = pc].del = doing[r].del
    BY <2>1, SlotMoves DEF SlotsAre
  <2>2. PICK pc \in {"rows", "entry"} : doing' = [doing EXCEPT ![r] = [doing[r] EXCEPT !.pc = pc]]
    BY <1>3 DEF HasThumbnails, To
  <2>3. ~Promises(doing[r])
    BY <1>3 DEF HasThumbnails, Promises
  <2> QED
    BY <1>3, <2>1, <2>2, <2>3, SlotOnly DEF HasThumbnails
<1>4. CASE DeleteThumbnailCaches(r)
  <2>1. /\ AfterRows(r) \in SlotsAre /\ AfterRows(r).del
        /\ doing[r].op # "disassociate" => AfterRows(r).pc = "entry" /\ AfterRows(r).op = doing[r].op
    BY SlotMoves DEF AfterRows, SlotsAre, Resting, Ops
  <2>2. /\ doing' \in [Slots -> SlotsAre]
        /\ doing'[r] = AfterRows(r)
        /\ \A q \in Slots \ {r} : doing'[q] = doing[q]
    BY <1>4, <2>1, SlotTypes DEF DeleteThumbnailCaches
  <2>3. CopiesTypeOK'
    BY <1>4, <2>2 DEF DeleteThumbnailCaches, Mine, CopiesTypeOK, SlotsAre, ThumbData, file, goService
  <2>4. CopiesGo'
    BY <2>1, <2>2 DEF CopiesGo
  <2>5. NoneMissed'
    <3>1. CASE doing[r].op = "disassociate"
      <4>1. inAlbum' = inAlbum /\ (inAlbum => "deleted" \in missed')
        BY <1>4, <3>1 DEF DeleteThumbnailCaches, file
      <4> QED
        BY <4>1 DEF NoneMissed
    <3>2. CASE doing[r].op \in Deletions
      <4>1. Promises(doing'[r])
        BY <2>1, <2>2, <3>2 DEF Promises, Deletions
      <4> QED
        BY <4>1 DEF NoneMissed, Awaited, Promises
    <3> QED
      BY <1>4, <3>1, <3>2 DEF DeleteThumbnailCaches
  <2> QED
    BY <2>3, <2>4, <2>5
<1>5. CASE RedisDel(r)
  <2> DEFINE s == [doing[r] EXCEPT !.del = FALSE]
  <2>1. s \in SlotsAre /\ s.pc = doing[r].pc /\ s.op = doing[r].op
    BY SlotMoves DEF SlotsAre
  <2>2. /\ doing' \in [Slots -> SlotsAre]
        /\ doing'[r] = s
        /\ \A q \in Slots \ {r} : doing'[q] = doing[q]
    BY <1>5, <2>1, SlotTypes DEF RedisDel
  <2>3. CopiesTypeOK'
    <3>1. faults' \in Nat
      BY <1>5, FaultCounts DEF RedisDel, CopiesTypeOK
    <3>2. copy' \in {copy, "none"} /\ stale' \subseteq stale \cup {"lost"}
      BY <1>5 DEF RedisDel
    <3>3. UNCHANGED <<fileRow, inAlbum, row, making, storing, missed>>
      BY <1>5 DEF RedisDel, file, goService
    <3> QED
      BY <2>2, <3>1, <3>2, <3>3 DEF CopiesTypeOK, SlotsAre, ThumbData
  <2>4. CopiesGo'
    BY <1>5 DEF RedisDel, CopiesGo
  <2>5. ASSUME NEW q \in Slots, Promises(doing[q])
        PROVE  Promises(doing'[q])
    BY <2>1, <2>2, <2>5 DEF Promises
  <2>6. Awaited => Awaited'
    BY <1>5, <2>5 DEF RedisDel, Awaited, Promises, goService
  <2> QED
    BY <1>5, <2>3, <2>4, <2>6 DEF RedisDel, NoneMissed, file
<1>6. CASE DeleteFile(r) \/ DeleteFails(r)
  <2>1. PICK s \in SlotsAre : doing' = [doing EXCEPT ![r] = s] /\ s.del = doing[r].del
    BY <1>6, SlotMoves DEF DeleteFile, DeleteFails, End
  <2>2. CopiesTypeOK'
    <3>1. doing' \in [Slots -> SlotsAre]
      BY <2>1, SlotTypes
    <3>2. CASE DeleteFile(r)
      BY <3>1, <3>2 DEF DeleteFile, CopiesTypeOK, SlotsAre, ThumbData, goService
    <3>3. CASE DeleteFails(r)
      BY <3>1, <3>3, FaultCounts DEF DeleteFails, CopiesTypeOK, SlotsAre, file, goService
    <3> QED
      BY <1>6, <3>2, <3>3
  <2>3. CopiesGo'
    BY <1>6, <2>1, SlotTypes DEF DeleteFile, DeleteFails, CopiesGo, file
  <2>4. NoneMissed'
    BY <1>6 DEF DeleteFile, DeleteFails, NoneMissed
  <2> QED
    BY <2>2, <2>3, <2>4
<1> QED
  BY <1>1, <1>2, <1>3, <1>4, <1>5, <1>6 DEF Remove

LEMMA ServiceKeeps ==
  ASSUME CopiesInv, Service \/ ChangePassword
  PROVE  CopiesInv'
<1> USE DEF CopiesInv
<1>1. ASSUME NEW t \in {"empty", "thumb"}, SaveThumbnails(t)
      PROVE  CopiesInv'
  BY <1>1 DEF SaveThumbnails, CopiesTypeOK, CopiesGo, NoneMissed, Awaited, ThumbData, file
<1>2. ASSUME NEW t \in {"empty", "thumb"}, StoreRedis(t)
      PROVE  CopiesInv'
  <2>1. CopiesTypeOK'
    <3>1. faults' \in Nat
      BY <1>2, FaultCounts DEF StoreRedis, CopiesTypeOK
    <3>2. copy' \in {copy, t} /\ stale' \subseteq stale \cup {"stored late"} /\ storing' \subseteq storing
      BY <1>2 DEF StoreRedis
    <3>3. UNCHANGED <<fileRow, inAlbum, row, doing, making, missed>>
      BY <1>2 DEF StoreRedis, file
    <3> QED
      BY <1>2, <3>1, <3>2, <3>3 DEF CopiesTypeOK, ThumbData
  <2>2. CopiesGo'
    BY <1>2 DEF StoreRedis, CopiesGo
  <2> QED
    BY <1>2, <2>1, <2>2 DEF StoreRedis, NoneMissed, Awaited, file
<1>3. CASE GenerateFails
  <2>1. CopiesTypeOK'
    BY <1>3, FaultCounts DEF GenerateFails, CopiesTypeOK, file
  <2>2. missed' # {}
    BY <1>3 DEF GenerateFails
  <2> QED
    BY <1>3, <2>1, <2>2 DEF GenerateFails, CopiesGo, NoneMissed
<1>4. CASE ChangePassword
  <2>1. CopiesTypeOK'
    BY <1>4 DEF ChangePassword, CopiesTypeOK, goService
  <2>2. fileRow' = "plain" /\ inAlbum /\ row = "none" => "protected" \in missed'
    BY <1>4 DEF ChangePassword, CopiesTypeOK
  <2> QED
    BY <1>4, <2>1, <2>2 DEF ChangePassword, CopiesGo, NoneMissed
<1> QED
  BY <1>1, <1>2, <1>3, <1>4 DEF Service

-----------------------------------------------------------------------------
(* Theorems.                                                                *)

\* The types and the two properties are inductive.
THEOREM CopiesInvariant == CopiesSpec => []CopiesInv
<1>1. CopiesInit => CopiesInv
  <2> SUFFICES ASSUME CopiesInit
               PROVE  CopiesInv
    OBVIOUS
  <2>1. Resting \in SlotsAre
    BY DEF Resting, SlotsAre, Ops
  <2>2. faults \in Nat
    BY DEF CopiesInit
  <2>3. CopiesTypeOK
    BY <2>1, <2>2 DEF CopiesInit, CopiesTypeOK, ThumbData, SlotsAre
  <2> QED
    BY <2>3 DEF CopiesInit, CopiesInv, CopiesGo, NoneMissed
<1>2. CopiesInv /\ [CopiesNext]_copiesVars => CopiesInv'
  <2> SUFFICES ASSUME CopiesInv, [CopiesNext]_copiesVars
               PROVE  CopiesInv'
    OBVIOUS
  <2>1. CASE UNCHANGED copiesVars
    BY <2>1 DEF CopiesInv, CopiesTypeOK, CopiesGo, NoneMissed, Awaited, copiesVars, file, goService, history
  <2>2. CASE CopiesNext
    BY <2>2, CopiesServeKeep, AlbumKeeps, CopiesRemoveKeep, ServiceKeeps DEF CopiesNext
  <2> QED
    BY <2>1, <2>2
<1> QED
  BY <1>1, <1>2, PTL DEF CopiesSpec

\* Every variable keeps its type: what is copied to Redis is a thumbnail that was read or
\* made (cacheRedis, storeRedis).
THEOREM CopiesTypeCorrect == CopiesSpec => []CopiesTypeOK
BY CopiesInvariant, PTL DEF CopiesInv

\* A copy without a row has one of the named causes (deleteThumbnailCaches and the writers
\* it does not wait for).
THEOREM CopiesGoWithRows == CopiesSpec => []CopiesGo
BY CopiesInvariant, PTL DEF CopiesInv

\* A file of the album without a thumbnail gets one, or one of the named causes kept it
\* from getting one (generateThumbnail's reads, the flag of the album).
THEOREM NoFileMissed == CopiesSpec => []NoneMissed
BY CopiesInvariant, PTL DEF CopiesInv

-----------------------------------------------------------------------------
(* Thumbnails made on demand.                                               *)

RequestsAre ==
  [pc : {"idle", "cache", "find", "head", "fetch", "copy", "make", "store", "ok", "bad", "error"},
   src : Sources \cup {None}, animate : BOOLEAN, got : Contents \cup {None},
   out : Thumbs \cup {None}, gone : BOOLEAN]

\* What a thumbnail must be to be served to who asks for it of a source.
Good(kind, animate, thumb) ==
  /\ thumb \in Thumbs /\ thumb.whole
  /\ ~thumb.odd => (thumb.moves <=> animate /\ Animated(kind, thumb.of))

From(src, c) == IF src.kind = "file" THEN Alike(src.id, c) ELSE c \in had[src]

Fit(src, animate, thumb) == Good(src.kind, animate, thumb) /\ From(src, thumb.of)

HadInv ==
  /\ \A t \in Tokens : entry[t] # None => entry[t] \in had[Source("token", t)]
  /\ \A u \in Urls : at[u] \in had[Source("url", u)]
  /\ \A c \in Contents : had[Source("file", c)] = {c}

CacheInv ==
  \A src \in Sources, animate \in BOOLEAN :
    cache[CacheKey(src, animate)] # None => Fit(src, animate, cache[CacheKey(src, animate)])

SlotInv(s) ==
  /\ s.pc = "find" => s.src.kind # "url"
  /\ s.pc \in {"head", "fetch"} => s.src.kind = "url"
  /\ s.pc \in {"copy", "make", "store"} => From(s.src, s.got) 
  /\ s.pc = "make" => s.src.kind # "url" \/ BytesRead(s.got) = Size[s.got]
  /\ s.pc \in {"store", "ok"} => Fit(s.src, s.animate, s.out)

\* What TypeOK says of one request.
SlotType(s) ==
  /\ s \in RequestsAre
  /\ s.pc # "idle" => s.src \in Sources
  /\ s.pc \in {"copy", "make", "store"} => s.got \in Contents
  /\ s.pc \in {"store", "ok"} => s.out \in Thumbs

MakerInv == TypeOK /\ HadInv /\ CacheInv /\ (\A r \in Requests : SlotInv(req[r])) /\ TempsGo

-----------------------------------------------------------------------------
LEMMA SourceKinds ==
  /\ \A src \in Sources :
       /\ src.kind \in {"token", "url", "file"}
       /\ src = Source(src.kind, src.id)
       /\ src.kind = "token" => src.id \in Tokens
       /\ src.kind = "url" => src.id \in Urls
       /\ src.kind = "file" => src.id \in Contents
       /\ src # None
  /\ \A t \in Tokens : Source("token", t) \in Sources
  /\ \A u \in Urls : Source("url", u) \in Sources
  /\ \A c \in Contents : Source("file", c) \in Sources
BY DEF Sources, Source, None

LEMMA ThumbsAreSome == \A thumb \in Thumbs : thumb # None
BY DEF Thumbs, None

\* One key, one thumbnail that is fit: of one kind, asked for in one way, and of files alike.
LEMMA KeysAgree ==
  ASSUME NEW src \in Sources, NEW animate \in BOOLEAN, NEW src2 \in Sources, NEW animate2 \in BOOLEAN,
         CacheKey(src, animate) = CacheKey(src2, animate2), NEW thumb, Fit(src, animate, thumb)
  PROVE  Fit(src2, animate2, thumb)
<1>1. src.kind = src2.kind /\ animate = animate2
  BY DEF CacheKey
<1>2. CASE src.kind = "file"
  <2>1. HashOf(src.id) = HashOf(src2.id)
    BY <1>1, <1>2 DEF CacheKey
  <2> QED
    BY <1>1, <1>2, <2>1 DEF Fit, From, Alike, HashOf
<1>3. CASE src.kind # "file"
  <2>1. src.id = src2.id
    BY <1>1, <1>3 DEF CacheKey
  <2>2. src = src2
    BY <1>1, <2>1, SourceKinds
  <2> QED
    BY <1>1, <2>2
<1> QED
  BY <1>2, <1>3

\* A request that moves on, and leaves everything else but temporary files.
LEMMA SlotKeeps ==
  ASSUME MakerInv, NEW r \in Requests, NEW s, SlotType(s), SlotInv(s),
         req' = [req EXCEPT ![r] = s], UNCHANGED <<sources, cache, litter, crashes>>,
         temp' \subseteq temp \cup {r}, r \in temp' => s.pc \in {"copy", "make"}
  PROVE  MakerInv'
<1> USE DEF MakerInv
<1>1. req'[r] = s /\ \A q \in Requests \ {r} : req'[q] = req[q]
  BY DEF TypeOK
<1>2. TypeOK'
  BY <1>1 DEF TypeOK, SlotType, RequestsAre, sources
<1>3. HadInv' /\ CacheInv'
  BY DEF HadInv, CacheInv, Fit, From, sources
<1>4. \A q \in Requests : SlotInv(req[q])'
  BY <1>1 DEF SlotInv, Fit, From, sources
<1>5. TempsGo'
  BY <1>1 DEF TempsGo, TypeOK
<1> QED
  BY <1>2, <1>3, <1>4, <1>5

\* RequestsAre as they are.
LEMMA RequestTypes ==
  ASSUME MakerInv, NEW r \in Requests
  PROVE  SlotType(req[r]) /\ SlotInv(req[r])
BY DEF MakerInv, TypeOK, SlotType, RequestsAre

\* A request that is over, refused or failed carries nothing that matters.
LEMMA EndKeeps ==
  ASSUME MakerInv, NEW r \in Requests, NEW pc \in {"bad", "error", "find", "head", "fetch"},
         req[r].pc # "idle", pc = "find" => req[r].src.kind # "url",
         pc \in {"head", "fetch"} => req[r].src.kind = "url",
         Goto(r, pc), UNCHANGED <<sources, cache, litter, crashes>>, temp' \subseteq temp, r \notin temp'
  PROVE  MakerInv'
<1> DEFINE s == [req[r] EXCEPT !.pc = pc]
<1>1. SlotType(s) /\ SlotInv(s)
  BY RequestTypes DEF SlotType, SlotInv, RequestsAre
<1>2. req' = [req EXCEPT ![r] = s]
  BY DEF Goto
<1> HIDE DEF s
<1> QED
  BY <1>1, <1>2, SlotKeeps

-----------------------------------------------------------------------------
LEMMA BeginKeeps ==
  ASSUME MakerInv, NEW r \in Requests, NEW src \in Sources, NEW animate \in BOOLEAN, Begin(r, src, animate)
  PROVE  MakerInv'
<1> DEFINE pc == IF src.kind = "file" /\ ~Supported("file", src.id) THEN "error" ELSE "cache"
           gone == src.kind = "token" /\ entry[src.id] = None
           s == [Idle EXCEPT !.src = src, !.animate = animate, !.pc = pc, !.gone = gone]
<1>1. Idle \in RequestsAre
  BY DEF Idle, RequestsAre
<1>2. gone \in BOOLEAN /\ pc \in {"error", "cache"}
  OBVIOUS
<1>3. SlotType(s) /\ SlotInv(s)
  <2> HIDE DEF pc, gone
  <2> QED
    BY <1>1, <1>2 DEF SlotType, SlotInv, RequestsAre
<1>4. req' = [req EXCEPT ![r] = s]
  BY DEF Begin
<1>5. r \notin temp
  BY DEF Begin, Over, MakerInv, TempsGo
<1> HIDE DEF s
<1> QED
  BY <1>3, <1>4, <1>5, SlotKeeps DEF Begin, service

LEMMA LookupKeeps ==
  ASSUME MakerInv, NEW r \in Requests, Lookup(r)
  PROVE  MakerInv'
<1>1. r \notin temp /\ temp' = temp
  BY DEF Lookup, MakerInv, TempsGo, service
<1>2. CASE cache[MyKey(r)] # None /\ Answer(r, cache[MyKey(r)])
  <2> DEFINE thumb == cache[MyKey(r)]
             s == [req[r] EXCEPT !.pc = "ok", !.out = thumb]
  <2>1. req[r].src \in Sources /\ req[r].animate \in BOOLEAN /\ req[r] \in RequestsAre
    BY RequestTypes DEF SlotType, Lookup, RequestsAre
  <2>2. Fit(req[r].src, req[r].animate, thumb)
    BY <1>2, <2>1 DEF MakerInv, CacheInv, MyKey
  <2>3. thumb \in Thumbs
    BY <2>2 DEF Fit, Good
  <2>4. SlotType(s) /\ SlotInv(s)
    BY <2>1, <2>2, <2>3 DEF SlotType, SlotInv, RequestsAre
  <2>5. req' = [req EXCEPT ![r] = s]
    BY <1>2 DEF Answer
  <2> HIDE DEF s
  <2> QED
    BY <1>1, <2>4, <2>5, SlotKeeps DEF Lookup, service
<1>3. CASE Goto(r, IF req[r].src.kind = "url" THEN "head" ELSE "find")
  BY <1>1, <1>3, EndKeeps DEF Lookup, service
<1> QED
  BY <1>2, <1>3 DEF Lookup

\* A request that has got its content.
LEMMA TakeKeeps ==
  ASSUME MakerInv, NEW r \in Requests, req[r].pc # "idle", NEW c \in Contents, From(req[r].src, c),
         NEW pc \in {"copy", "make"}, pc = "make" => req[r].src.kind # "url",
         Take(r, c, pc), UNCHANGED <<sources, cache, litter, crashes>>, temp' \subseteq temp \cup {r}
  PROVE  MakerInv'
<1> DEFINE s == [req[r] EXCEPT !.pc = pc, !.got = c]
<1>1. req[r] \in RequestsAre /\ req[r].src \in Sources
  BY RequestTypes DEF SlotType
<1>2. SlotType(s) /\ SlotInv(s)
  BY <1>1 DEF SlotType, SlotInv, RequestsAre
<1>3. s.pc = pc
  BY <1>1 DEF RequestsAre
<1>4. req' = [req EXCEPT ![r] = s]
  BY DEF Take
<1> HIDE DEF s
<1> QED
  BY <1>2, <1>3, <1>4, SlotKeeps

LEMMA FindKeeps ==
  ASSUME MakerInv, NEW r \in Requests, Find(r)
  PROVE  MakerInv'
<1>1. req[r].src \in Sources /\ r \notin temp /\ req[r].pc # "idle"
  BY RequestTypes DEF SlotType, Find, MakerInv, TempsGo
<1>2. CASE req[r].src.kind = "file"
  <2>1. req[r].src.id \in Contents /\ From(req[r].src, req[r].src.id)
    BY <1>1, <1>2, SourceKinds DEF From, Alike
  <2> QED
    BY <1>1, <1>2, <2>1, TakeKeeps DEF Find
<1>3. CASE req[r].src.kind # "file"
  <2> DEFINE c == IF req[r].src.kind = "token" THEN entry[req[r].src.id] ELSE req[r].src.id
  <2>1. CASE Found(c) /\ req[r].src.kind = "token"
    <3>1. c \in Contents /\ From(req[r].src, c)
      BY <1>1, <1>3, <2>1, SourceKinds DEF From, Found, MakerInv, TypeOK, HadInv
    <3> QED
      BY <1>1, <1>3, <2>1, <3>1, TakeKeeps DEF Find
  <2>2. CASE ~Found(c)
    BY <1>1, <1>3, <2>2, EndKeeps DEF Find, Refuse
  <2>3. req[r].src.kind # "url"
    BY RequestTypes DEF SlotInv, Find
  <2> QED
    BY <1>1, <1>3, <2>1, <2>2, <2>3, SourceKinds
<1> QED
  BY <1>2, <1>3

LEMMA FetchKeeps ==
  ASSUME MakerInv, NEW r \in Requests, Fetch(r)
  PROVE  MakerInv'
<1> DEFINE c == at[req[r].src.id]
<1>1. req[r].src \in Sources /\ r \notin temp /\ req[r].pc # "idle" /\ req[r].src.kind = "url"
  BY RequestTypes DEF SlotType, SlotInv, Fetch, MakerInv, TempsGo
<1>2. c \in Contents /\ From(req[r].src, c)
  BY <1>1, SourceKinds DEF From, MakerInv, TypeOK, HadInv
<1>3. CASE Supported("url", c) /\ Take(r, c, "copy") /\ temp' = temp \cup {r}
  BY <1>1, <1>2, <1>3, TakeKeeps DEF Fetch
<1>4. CASE Refuse(r) /\ UNCHANGED temp
  BY <1>1, <1>4, EndKeeps DEF Fetch, Refuse
<1> QED
  BY <1>3, <1>4 DEF Fetch

LEMMA CopiedKeeps ==
  ASSUME MakerInv, NEW r \in Requests, Copied(r)
  PROVE  MakerInv'
<1>1. CASE req[r].src.kind = "url" /\ TooLarge(req[r].got)
  BY <1>1, EndKeeps DEF Copied, Refuse, Removed
<1>2. CASE ~(req[r].src.kind = "url" /\ TooLarge(req[r].got))
  <2> DEFINE s == [req[r] EXCEPT !.pc = "make"]
  <2>1. req[r].got \in Contents /\ req[r] \in RequestsAre /\ req[r].src \in Sources /\ From(req[r].src, req[r].got)
    BY RequestTypes DEF Copied, SlotType, SlotInv
  <2>2. req[r].src.kind # "url" \/ BytesRead(req[r].got) = Size[req[r].got]
    BY <1>2, <2>1, ContentsAssumption DEF TooLarge, BytesRead
  <2>3. SlotType(s) /\ SlotInv(s)
    BY <2>1, <2>2 DEF SlotType, SlotInv, RequestsAre
  <2>4. req' = [req EXCEPT ![r] = s] /\ s.pc = "make"
    BY <1>2, <2>1 DEF Copied, Goto, RequestsAre
  <2> HIDE DEF s
  <2> QED
    BY <1>2, <2>3, <2>4, SlotKeeps DEF Copied
<1> QED
  BY <1>1, <1>2

LEMMA MakeKeeps ==
  ASSUME MakerInv, NEW r \in Requests, Make(r)
  PROVE  MakerInv'
<1>1. PICK thumb \in Makes(r) : req' = [req EXCEPT ![r].pc = "store", ![r].out = thumb]
  BY DEF Make
<1> DEFINE s == [req[r] EXCEPT !.pc = "store", !.out = thumb]
<1>2. req[r].got \in Contents /\ req[r] \in RequestsAre /\ req[r].src \in Sources /\ From(req[r].src, req[r].got)
  BY RequestTypes DEF Make, SlotType, SlotInv
<1>3. req[r].src.kind # "url" \/ BytesRead(req[r].got) = Size[req[r].got]
  BY RequestTypes DEF Make, SlotInv
<1>4. thumb \in Thumbs /\ Good(req[r].src.kind, req[r].animate, thumb) /\ thumb.of = req[r].got
  <2>1. req[r].animate \in BOOLEAN /\ Animated(req[r].src.kind, req[r].got) \in BOOLEAN
    BY <1>2 DEF RequestsAre, Animated
  <2> DEFINE whole == req[r].src.kind # "url" \/ BytesRead(req[r].got) = Size[req[r].got]
             moving == Animated(req[r].src.kind, req[r].got)
             thumbOf(moves, odd) == [kind |-> "thumb", of |-> req[r].got, moves |-> moves, odd |-> odd, whole |-> whole]
  <2>2. whole = TRUE
    BY <1>3
  <2>3. thumb = thumbOf(moving /\ req[r].animate, FALSE) \/ \E moves \in BOOLEAN : thumb = thumbOf(moves, TRUE)
    BY DEF Makes
  <2>4. PICK moves \in BOOLEAN, odd \in BOOLEAN :
          thumb = thumbOf(moves, odd) /\ (~odd => moves = (moving /\ req[r].animate))
    BY <2>1, <2>3
  <2> HIDE DEF whole, moving
  <2>5. thumb \in Thumbs /\ thumb.of = req[r].got /\ thumb.whole = TRUE /\ thumb.odd = odd /\ thumb.moves = moves
    BY <1>2, <2>2, <2>4 DEF Thumbs
  <2> QED
    BY <2>4, <2>5 DEF Good, moving
<1>5. SlotType(s) /\ SlotInv(s)
  BY <1>2, <1>4 DEF SlotType, SlotInv, RequestsAre, Fit
<1>6. req' = [req EXCEPT ![r] = s]
  BY <1>1
<1>7. r \notin temp' /\ temp' \subseteq temp
  BY DEF Make, Removed
<1> HIDE DEF s
<1> QED
  BY <1>5, <1>6, <1>7, SlotKeeps DEF Make

LEMMA StoreKeeps ==
  ASSUME MakerInv, NEW r \in Requests, Store(r)
  PROVE  MakerInv'
<1> DEFINE s == [req[r] EXCEPT !.pc = "ok"]
<1>1. req[r] \in RequestsAre /\ req[r].src \in Sources /\ req[r].out \in Thumbs /\ req[r].animate \in BOOLEAN
      /\ Fit(req[r].src, req[r].animate, req[r].out)
  BY RequestTypes DEF Store, SlotType, SlotInv, RequestsAre
<1>2. SlotType(s) /\ SlotInv(s)
  BY <1>1 DEF SlotType, SlotInv, RequestsAre
<1>3. req' = [req EXCEPT ![r] = s]
  BY DEF Store, Goto
<1>4. r \notin temp
  BY DEF Store, MakerInv, TempsGo
<1>5. CASE UNCHANGED cache
  <2> HIDE DEF s
  <2> QED
    BY <1>2, <1>3, <1>4, <1>5, SlotKeeps DEF Store, service
<1>6. CASE cache' = [cache EXCEPT ![MyKey(r)] = req[r].out]
  <2> USE DEF MakerInv
  <2>1. MyKey(r) \in Keys /\ cache \in [Keys -> Thumbs \cup {None}]
    BY <1>1 DEF MyKey, Keys, TypeOK
  <2>2. req'[r] = s /\ \A q \in Requests \ {r} : req'[q] = req[q]
    BY <1>3 DEF TypeOK
  <2>3. TypeOK'
    <3>1. cache' \in [Keys -> Thumbs \cup {None}]
      BY <1>1, <1>6, <2>1
    <3> HIDE DEF s
    <3> QED
      BY <1>2, <1>3, <2>2, <3>1 DEF TypeOK, SlotType, RequestsAre, Store, sources, service
  <2>4. CacheInv'
    <3>1. SUFFICES ASSUME NEW src \in Sources, NEW animate \in BOOLEAN, cache'[CacheKey(src, animate)] # None
                   PROVE  Fit(src, animate, cache'[CacheKey(src, animate)])
      BY DEF CacheInv, Fit, From, Store, sources
    <3>2. CacheKey(src, animate) \in Keys
      BY DEF Keys
    <3>3. CASE CacheKey(src, animate) = MyKey(r)
      BY <1>1, <1>6, <2>1, <3>3, KeysAgree DEF MyKey
    <3>4. CASE CacheKey(src, animate) # MyKey(r)
      BY <1>6, <2>1, <3>1, <3>2, <3>4 DEF CacheInv
    <3> QED
      BY <3>3, <3>4
  <2>5. HadInv' /\ \A q \in Requests : SlotInv(req[q])'
    <3> HIDE DEF s
    <3> QED
      BY <1>2, <2>2 DEF HadInv, SlotInv, Fit, From, Store, sources
  <2>6. TempsGo'
    BY <1>4, <2>2 DEF TempsGo, TypeOK, Store, service
  <2> QED
    BY <2>3, <2>4, <2>5, <2>6
<1> QED
  BY <1>5, <1>6 DEF Store

LEMMA ServeKeeps ==
  ASSUME MakerInv, NEW r \in Requests, Serve(r)
  PROVE  MakerInv'
<1>1. CASE \E src \in Sources, animate \in BOOLEAN : Begin(r, src, animate)
  BY <1>1, BeginKeeps
<1>2. CASE FindFails(r)
  BY <1>2, EndKeeps DEF FindFails, Fail, Refuse, service, MakerInv, TempsGo
<1>3. CASE AskHead(r)
  <2>1. r \notin temp /\ req[r].src.kind = "url" /\ UNCHANGED <<sources, cache, litter, crashes, temp>>
    BY <1>3, RequestTypes DEF AskHead, SlotInv, service, MakerInv, TempsGo
  <2>2. Goto(r, "fetch") \/ Goto(r, "bad")
    BY <1>3 DEF AskHead, Refuse
  <2> QED
    BY <1>3, <2>1, <2>2, EndKeeps DEF AskHead
<1>4. CASE MakeFails(r)
  BY <1>4, EndKeeps DEF MakeFails, Fail, Removed
<1>5. CASE InvalidURL(r)
  BY <1>5, EndKeeps DEF InvalidURL, Refuse, service, MakerInv, TempsGo
<1> QED
  BY <1>1, <1>2, <1>3, <1>4, <1>5, LookupKeeps, FindKeeps, FetchKeeps, CopiedKeeps, MakeKeeps, StoreKeeps DEF Serve

-----------------------------------------------------------------------------
LEMMA ElsewhereKeeps ==
  ASSUME MakerInv, Elsewhere
  PROVE  MakerInv'
<1> USE DEF MakerInv
<1>1. ASSUME NEW k \in Keys, Expire(k)
      PROVE  MakerInv'
  <2>1. \A key \in Keys : cache'[key] = cache[key] \/ cache'[key] = None
    BY <1>1 DEF Expire, TypeOK
  <2>2. TypeOK'
    BY <1>1 DEF Expire, TypeOK, sources, service
  <2>3. CacheInv'
    BY <1>1, <2>1 DEF Expire, CacheInv, Keys, Fit, From, sources
  <2> QED
    BY <1>1, <2>2, <2>3 DEF Expire, HadInv, SlotInv, TempsGo, Fit, From, sources, service
<1>2. ASSUME NEW t \in Tokens, DeleteEntry(t)
      PROVE  MakerInv'
  BY <1>2 DEF DeleteEntry, TypeOK, HadInv, CacheInv, SlotInv, TempsGo, Fit, From, service
<1>3. ASSUME NEW u \in Urls, NEW c \in Contents, UrlChanges(u, c)
      PROVE  MakerInv'
  <2>1. \A src \in Sources : had[src] \subseteq had'[src] /\ (src # Source("url", u) => had'[src] = had[src])
    BY <1>3 DEF UrlChanges, TypeOK
  <2>2. TypeOK'
    BY <1>3 DEF UrlChanges, TypeOK, service
  <2>3. HadInv'
    <3>1. c \in had'[Source("url", u)]
      BY <1>3, SourceKinds DEF UrlChanges, TypeOK
    <3>2. \A v \in Urls : at'[v] = at[v] \/ (v = u /\ at'[v] = c)
      BY <1>3 DEF UrlChanges, TypeOK
    <3>3. \A f \in Contents : Source("file", f) # Source("url", u)
      BY DEF Source
    <3> QED
      BY <1>3, <2>1, <3>1, <3>2, <3>3, SourceKinds DEF UrlChanges, HadInv
  <2>4. \A src \in Sources, f \in Contents : From(src, f) => From(src, f)'
    BY <2>1 DEF From
  <2>5. CacheInv'
    BY <1>3, <2>4 DEF UrlChanges, CacheInv, Fit, Good, Thumbs
  <2>6. \A r \in Requests : SlotInv(req[r])'
    BY <1>3, <2>4, RequestTypes DEF UrlChanges, SlotInv, SlotType, Fit, Good, Thumbs, service
  <2> QED
    BY <1>3, <2>2, <2>3, <2>5, <2>6 DEF UrlChanges, TempsGo, service
<1> QED
  BY <1>1, <1>2, <1>3 DEF Elsewhere

LEMMA CrashKeeps ==
  ASSUME MakerInv, Crash
  PROVE  MakerInv'
<1> USE DEF MakerInv
<1>1. Idle \in RequestsAre /\ Idle.pc = "idle"
  BY DEF Idle, RequestsAre
<1>2. \A r \in Requests : req'[r] = Idle
  BY DEF Crash
<1>3. TypeOK'
  BY <1>1, <1>2, ContentsAssumption DEF Crash, TypeOK, RequestsAre, sources
<1>4. \A r \in Requests : SlotInv(req[r])'
  BY <1>1, <1>2 DEF SlotInv
<1> QED
  BY <1>3, <1>4 DEF Crash, HadInv, CacheInv, TempsGo, Fit, From, sources

-----------------------------------------------------------------------------
\* The service, from any contents of files and URLs, keeps MakerInv.
THEOREM MakerInvariant == Spec => []MakerInv
<1>1. Init => MakerInv
  <2> SUFFICES ASSUME Init
               PROVE  MakerInv
    OBVIOUS
  <2>1. Idle \in RequestsAre /\ Idle.pc = "idle"
    BY DEF Idle, RequestsAre
  <2>2. had \in [Sources -> SUBSET Contents] /\ HadInv
    BY SourceKinds DEF Init, HadInv, Source
  <2>3. TypeOK
    BY <2>1, <2>2, ContentsAssumption DEF Init, TypeOK, RequestsAre
  <2>4. CacheInv
    BY DEF Init, CacheInv, Keys
  <2> QED
    BY <2>1, <2>2, <2>3, <2>4 DEF Init, MakerInv, SlotInv, TempsGo
<1>2. MakerInv /\ [Next]_vars => MakerInv'
  <2> SUFFICES ASSUME MakerInv, [Next]_vars
               PROVE  MakerInv'
    OBVIOUS
  <2>1. CASE UNCHANGED vars
    BY <2>1 DEF vars, sources, service, MakerInv, TypeOK, HadInv, CacheInv, SlotInv, TempsGo, Fit, From
  <2> QED
    BY <2>1, ServeKeeps, ElsewhereKeeps, CrashKeeps DEF Next
<1> QED
  BY <1>1, <1>2, PTL DEF Spec

\* Every variable keeps its type, and who is served is served a thumbnail.
THEOREM TypeCorrect == Spec => []TypeOK
BY MakerInvariant, PTL DEF MakerInv

\* Nobody is served a thumbnail that moves unasked, or one that stands still: whatever is
\* found under a key was made for the same wish.
THEOREM MovesOnlyAsAsked == Spec => []MovesAsAsked
<1>1. MakerInv => MovesAsAsked
  BY DEF MakerInv, MovesAsAsked, Answered, SlotInv, Fit, Good
<1> QED
  BY <1>1, MakerInvariant, PTL

\* Nobody is served a thumbnail of another source: keys are told apart by it.
THEOREM NobodyElsesThumbnail == Spec => []OwnThumbnail
<1>1. MakerInv => OwnThumbnail
  <2> SUFFICES ASSUME MakerInv, NEW r \in Requests, Answered(r)
               PROVE  \E c \in had[req[r].src] :
                        IF req[r].src.kind = "file" THEN Alike(c, req[r].out.of) ELSE c = req[r].out.of
    BY DEF OwnThumbnail
  <2>1. req[r].src \in Sources /\ From(req[r].src, req[r].out.of)
    BY RequestTypes DEF Answered, SlotType, SlotInv, Fit
  <2>2. CASE req[r].src.kind = "file"
    BY <2>1, <2>2, SourceKinds DEF From, MakerInv, HadInv
  <2>3. CASE req[r].src.kind # "file"
    BY <2>1, <2>3 DEF From
  <2> QED
    BY <2>2, <2>3
<1> QED
  BY <1>1, MakerInvariant, PTL

\* Nothing that was cut off at the limit becomes a thumbnail, whatever the limit.
THEOREM OnlyWholeFiles == Spec => []WholeOnly
<1>1. MakerInv => WholeOnly
  BY DEF MakerInv, WholeOnly, Answered, SlotInv, Fit, Good
<1> QED
  BY <1>1, MakerInvariant, PTL

\* Temporary files go with their requests.
THEOREM TempsGoWithRequests == Spec => []TempsGo
BY MakerInvariant, PTL DEF MakerInv
=============================================================================
