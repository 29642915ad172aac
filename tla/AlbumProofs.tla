---------------------------- MODULE AlbumProofs ----------------------------
(***************************************************************************)
(* Theorems about Album, for any files, limit, requests and bounds.  The   *)
(* inductive invariant has a part for each property: what a request holds  *)
(* while it waits, and who else may be waiting, is what the property needs *)
(* of it when it goes on.                                                  *)
(***************************************************************************)
EXTENDS Album, FiniteSetTheorems, SequenceTheorems, WellFoundedInduction, TLAPS

Slots == [pc : PC, op : Ops, of : SUBSET Files, to : Nat \ {0}, pass : 1..2, saves : SUBSET Files,
          seen : Lists, pub : 0..MaxShares]

\* What a request is about, by where it is; and what it holds there.
Staged(x) ==
  /\ x.op = "none" <=> x.pc = "idle"
  /\ x.pc = "order" => x.op = "assign"
  /\ x.pc \in {"saveFiles", "clear"} => x.op \in {"assign", "swap"}
  /\ x.pc \in {"reread", "saveAlbum"} => x.op = "remove"
  /\ x.pc \in {"list", "fill", "position"} => x.op \in {"swap", "view"}
  /\ x.pc = "tx" => x.op \in {"deleteAll", "deleteKeep"}
  /\ x.pc = "commit" => x.op = "deleteKeep"
  /\ x.pc = "unlink" => x.op \in {"deleteAll", "delete"}
  /\ x.pc = "drop" => x.op = "delete"
  /\ x.pc \in {"share", "revoke"} => x.op = x.pc
  /\ x.op = "assign" /\ x.pc = "saveFiles" => x.saves = x.of

SlotsInv ==
  /\ req \in [Requests -> Slots]
  /\ \A r \in Requests : Staged(req[r]) /\ req[r].pub <= tokens

\* A token is left for everyone who shares.
Sharing == {r \in Requests : req[r].op = "share"}
SharesInv == tokens + Cardinality(Sharing) <= MaxShares

Shape == TypeOK /\ SlotsInv /\ SharesInv

-----------------------------------------------------------------------------
(* What the operators do.                                                   *)

\* The files of a list are no more than there are.
LEMMA InAList ==
  ASSUME NEW m \in [Files -> Gone..MaxOrder]
  PROVE  /\ In(m) \subseteq Files /\ IsFiniteSet(In(m))
         /\ Cardinality(In(m)) \in 0..Cardinality(Files)
<1>1. In(m) \in SUBSET Files
  BY DEF In
<1> QED
  BY <1>1, FS_Subset, FS_CardinalityType, AlbumAssumption

\* The last place is there: it is the least bound of the places.
LEMMA MaxPlaceIsPlace ==
  ASSUME row \in [Files -> Gone..MaxOrder]
  PROVE  MaxPlace \in 0..MaxOrder /\ \A f \in Files : row[f] <= MaxPlace
<1> USE AlbumAssumption DEF Gone
<1> DEFINE Bounds == {m \in Nat : \A f \in Files : row[f] <= m}
<1>1. Bounds \subseteq Nat /\ MaxOrder \in Bounds
  OBVIOUS
<1>2. PICK m \in Bounds : \A k \in Bounds : ~(<<k, m>> \in OpToRel(<, Nat))
  BY <1>1, WFMin, NatLessThanWellFounded
<1>3. \A k \in Bounds : ~(k < m)
  BY <1>1, <1>2 DEF OpToRel
<1>4. m \in 0..MaxOrder
  BY <1>1, <1>3
<1>5. m = 0 \/ \E f \in Files : row[f] = m
  <2>1. SUFFICES ASSUME m # 0 PROVE \E f \in Files : row[f] = m
    OBVIOUS
  <2>2. m - 1 \in Nat /\ m - 1 \notin Bounds
    BY <2>1, <1>3, <1>4
  <2>3. PICK f \in Files : ~(row[f] <= m - 1)
    BY <2>2
  <2> QED
    BY <2>3, <1>4
<1> HIDE DEF Bounds
<1>6. \A f \in Files : row[f] <= m
  BY DEF Bounds
<1> QED
  BY <1>4, <1>5, <1>6 DEF MaxPlace

\* Sorted by id, every file of a set has fewer than all before it.
LEMMA RankFits ==
  ASSUME NEW S \in SUBSET Files, NEW f \in S
  PROVE  Cardinality({g \in S : g < f}) \in 0..(Cardinality(S) - 1)
<1> DEFINE T == {g \in S : g < f}
<1>1. IsFiniteSet(S)
  BY FS_Subset, AlbumAssumption
<1>2. IsFiniteSet(S \ {f}) /\ Cardinality(S \ {f}) = Cardinality(S) - 1
  BY <1>1, FS_RemoveElement
<1>3. T \in SUBSET (S \ {f})
  BY AlbumAssumption
<1>4. IsFiniteSet(T) /\ Cardinality(T) <= Cardinality(S \ {f})
  BY <1>2, <1>3, FS_Subset
<1> QED
  BY <1>1, <1>2, <1>4, FS_CardinalityType

\* An arrangement of a list has every file of it once.
LEMMA PlacesOnce ==
  ASSUME NEW m \in [Files -> Gone..MaxOrder], NEW s \in Arrangements(m)
  PROVE  /\ s \in [1..Cardinality(In(m)) -> In(m)]
         /\ \A f \in In(m) : \E i \in DOMAIN s : s[i] = f
         /\ \A i, j \in 1..Cardinality(In(m)) : s[i] = s[j] => i = j
<1> DEFINE n == Cardinality(In(m))
<1>1. IsFiniteSet(In(m)) /\ n \in Nat
  BY InAList, AlbumAssumption DEF Out, Gone
<1>2. s \in [1..n -> In(m)] /\ \A i, j \in 1..n : i < j => s[i] # s[j]
  BY DEF Arrangements
<1>3. \A i, j \in 1..n : s[i] = s[j] => i = j
  BY <1>1, <1>2
<1>4. s \in Injection(1..n, In(m))
  BY <1>2, <1>3 DEF Injection, IsInjective
<1>5. Cardinality(1..n) = n
  BY <1>1, FS_Interval
<1>6. s \in Surjection(1..n, In(m))
  BY <1>1, <1>4, <1>5, FS_Injection
<1> QED
  BY <1>2, <1>3, <1>6 DEF Surjection

\* So has one of a list that was read.
LEMMA ArrangedOnce ==
  ASSUME NEW m \in Lists, NEW s \in Arrangements(m)
  PROVE  /\ s \in [1..Cardinality(In(m)) -> In(m)]
         /\ \A f \in In(m) : \E i \in DOMAIN s : s[i] = f
<1>1. m \in [Files -> Gone..MaxOrder]
  BY AlbumAssumption DEF Lists, Out, Gone
<1> QED
  BY <1>1, PlacesOnce

\* There are finitely many requests.
LEMMA ActiveFinite == Cardinality(Active) \in Nat
<1>1. Active \in SUBSET Requests
  BY DEF Active
<1> QED
  BY <1>1, FS_Subset, FS_CardinalityType, AlbumAssumption

-----------------------------------------------------------------------------
(* The shape of the state.                                                  *)

DataOK ==
  /\ exists \in BOOLEAN /\ premium \in BOOLEAN /\ known \in BOOLEAN
  /\ pub \in 0..tokens /\ told \in 0..tokens /\ tokens \in 0..MaxShares
  /\ row \in [Files -> Gone..MaxOrder]
  /\ disk \subseteq Files /\ torn \subseteq Files
  /\ copy \in {{}} \cup {{m} : m \in Lists}
  /\ cause \subseteq Causes
  /\ ~exists => pub = Private /\ \A f \in Files : row[f] <= Out

\* The shape by what changes it: the data, the count, the slots, the tokens that are left.
LEMMA ShapeParts == Shape <=> DataOK /\ sent \in 0..MaxSent /\ SlotsInv /\ SharesInv
BY DEF Shape, DataOK, TypeOK, SlotsInv, Slots

\* A list that is read is a list.
LEMMA ListedIsList ==
  ASSUME DataOK
  PROVE  Listed \in Lists
BY AlbumAssumption DEF DataOK, Listed, Lists, Out, Gone

\* A slot that is free.
LEMMA IdleIsSlot == Idle \in Slots /\ Staged(Idle)
BY AlbumAssumption DEF Idle, Slots, Staged, PC, Ops, Lists, Out, Private

\* One slot changes.
LEMMA SlotChanges ==
  ASSUME SlotsInv, NEW r \in Requests, NEW x \in Slots, req' = [req EXCEPT ![r] = x],
         Staged(x), x.pub <= tokens', tokens \in Nat, tokens' \in Nat, tokens <= tokens'
  PROVE  SlotsInv'
<1>1. req' \in [Requests -> Slots] /\ \A q \in Requests : req'[q] = IF q = r THEN x ELSE req[q]
  BY DEF SlotsInv
<1>2. \A q \in Requests : Staged(req'[q])
  BY <1>1 DEF SlotsInv
<1>3. \A q \in Requests : req'[q].pub <= tokens'
  BY <1>1, AlbumAssumption DEF SlotsInv, Slots
<1> QED
  BY <1>1, <1>2, <1>3 DEF SlotsInv, Staged

\* Nobody who did not shares.
LEMMA NoneShares ==
  ASSUME SharesInv, tokens \in Nat, UNCHANGED tokens,
         \A q \in Requests : req'[q].op = "share" => req[q].op = "share"
  PROVE  SharesInv'
<1>1. Sharing \in SUBSET Requests /\ Sharing' \in SUBSET Sharing
  BY DEF Sharing
<1>2. IsFiniteSet(Sharing)
  BY <1>1, FS_Subset, AlbumAssumption
<1>3. Cardinality(Sharing') <= Cardinality(Sharing)
  BY <1>1, <1>2, FS_Subset
<1>4. Cardinality(Sharing) \in Nat /\ Cardinality(Sharing') \in Nat
  BY <1>1, <1>2, FS_Subset, FS_CardinalityType
<1> QED
  BY <1>3, <1>4, AlbumAssumption DEF SharesInv

\* A request ends.
LEMMA EndsShapes ==
  ASSUME SlotsInv, NEW r \in Requests, End(r), tokens \in Nat, tokens' \in Nat, tokens <= tokens'
  PROVE  /\ SlotsInv'
         /\ \A q \in Requests : req'[q].op = "share" => req[q].op = "share"
<1>1. req' = [req EXCEPT ![r] = Idle] /\ Idle.pub <= tokens'
  BY DEF End, Idle, Private
<1>2. SlotsInv'
  BY <1>1, SlotChanges, IdleIsSlot
<1> QED
  BY <1>1, <1>2 DEF SlotsInv, Idle

\* A request begins.
LEMMA BeginsShapes ==
  ASSUME DataOK, SlotsInv, NEW r \in Requests, NEW o \in Ops, NEW l \in PC, NEW S \in SUBSET Files,
         Begin(r, o, l, S),
         l \in {"order", "reread", "list", "tx", "share", "revoke"},
         Staged([Idle EXCEPT !.pc = l, !.op = o])
  PROVE  /\ SlotsInv'
         /\ o # "share" => \A q \in Requests : req'[q].op = "share" => req[q].op = "share"
<1> DEFINE x == [Idle EXCEPT !.pc = l, !.op = o, !.of = S,
                             !.seen = IF o = "deleteAll" THEN Listed ELSE @]
<1>0. x \in Slots /\ x.pub = 0 /\ x.op = o
  BY IdleIsSlot, ListedIsList DEF Slots, Idle, Private
<1>1. Staged(x)
  BY DEF Staged, Idle
<1>2. req' = [req EXCEPT ![r] = x] /\ tokens' = tokens /\ tokens \in Nat
  BY AlbumAssumption DEF Begin, DataOK, database
<1>4. x.pub <= tokens' /\ tokens <= tokens'
  BY <1>0, <1>2
<1> HIDE DEF x
<1>3. SlotsInv'
  BY <1>0, <1>1, <1>2, <1>4, SlotChanges
<1> QED
  BY <1>0, <1>2, <1>3 DEF SlotsInv

\* A request that begins keeps the shape.
LEMMA RequestShapes ==
  ASSUME DataOK, SlotsInv, SharesInv, NEW r \in Requests, Request(r)
  PROVE  DataOK' /\ SlotsInv' /\ SharesInv'
<1>0. tokens \in Nat /\ \A S : S \subseteq Causes => cause \cup S \subseteq Causes
  BY AlbumAssumption DEF DataOK
<1>1. CASE AssignFiles(r)
  <2>1. PICK S \in SUBSET Files : Begin(r, "assign", "order", S)
    BY <1>1 DEF AssignFiles
  <2>2. DataOK'
    BY <1>1, <1>0 DEF AssignFiles, Begin, DataOK, database, caching, Blame, Overlap, Causes
  <2>3. SlotsInv' /\ \A q \in Requests : req'[q].op = "share" => req[q].op = "share"
    BY <2>1, BeginsShapes DEF Staged, Idle, Ops, PC
  <2> QED
    BY <1>0, <2>1, <2>2, <2>3, NoneShares DEF Begin, database
<1>2. CASE RemoveFiles(r)
  <2>1. PICK S \in SUBSET Files : Begin(r, "remove", "reread", S)
    BY <1>2 DEF RemoveFiles, In
  <2>2. DataOK'
    BY <1>2, <1>0 DEF RemoveFiles, Begin, DataOK, database, caching, Blame, Overlap, Race, Causes
  <2>3. SlotsInv' /\ \A q \in Requests : req'[q].op = "share" => req[q].op = "share"
    BY <2>1, BeginsShapes DEF Staged, Idle, Ops, PC
  <2> QED
    BY <1>0, <2>1, <2>2, <2>3, NoneShares DEF Begin, database
<1>3. CASE SwapFileOrder(r)
  <2>1. PICK f \in Files, j \in 1..Cardinality(Files) :
          req' = [req EXCEPT ![r] = [Idle EXCEPT !.pc = "list", !.op = "swap", !.of = {f}, !.to = j]]
    BY <1>3 DEF SwapFileOrder
  <2> DEFINE x == [Idle EXCEPT !.pc = "list", !.op = "swap", !.of = {f}, !.to = j]
  <2>2. x \in Slots /\ Staged(x) /\ x.pub = 0 /\ x.op = "swap"
    <3>1. j \in Nat \ {0}
      BY FS_CardinalityType, AlbumAssumption
    <3> QED
      BY <3>1, IdleIsSlot DEF Slots, Staged, Idle, Private, PC, Ops
  <2>3. UNCHANGED <<database, disk, caching, told, torn>>
    BY <1>3 DEF SwapFileOrder
  <2>4. DataOK'
    BY <1>3, <1>0 DEF SwapFileOrder, DataOK, database, caching, Blame, Overlap, Causes
  <2> HIDE DEF x
  <2>5. req' = [req EXCEPT ![r] = x] /\ tokens' = tokens /\ x.pub <= tokens' /\ tokens <= tokens'
    BY <1>0, <2>1, <2>2, <2>3 DEF x, database
  <2>6. SlotsInv'
    BY <1>0, <2>2, <2>5, SlotChanges
  <2>7. \A q \in Requests : req'[q].op = "share" => req[q].op = "share"
    BY <2>2, <2>5 DEF SlotsInv
  <2> QED
    BY <1>0, <2>3, <2>4, <2>6, <2>7, NoneShares DEF database
<1>4. CASE DeleteAlbum(r)
  <2>1. PICK o \in {"deleteAll", "deleteKeep"} : Begin(r, o, "tx", {})
    BY <1>4 DEF DeleteAlbum
  <2>2. DataOK'
    BY <1>4, <1>0 DEF DeleteAlbum, Begin, DataOK, database, caching, Blame, Overlap, Race, Causes
  <2>3. SlotsInv' /\ \A q \in Requests : req'[q].op = "share" => req[q].op = "share"
    BY <2>1, BeginsShapes DEF Staged, Idle, Ops, PC
  <2> QED
    BY <1>0, <2>1, <2>2, <2>3, NoneShares DEF Begin, database
<1>5. CASE ShareAlbum(r)
  <2>1. /\ Begin(r, "share", "share", {})
        /\ tokens + Cardinality({q \in Active : req[q].op = "share"}) < MaxShares
    BY <1>5 DEF ShareAlbum
  <2>2. DataOK'
    BY <1>5, <1>0 DEF ShareAlbum, Begin, DataOK, database, caching, Blame, Overlap, Race, Causes
  <2>3. SlotsInv'
    BY <2>1, BeginsShapes DEF Staged, Idle, Ops, PC
  <2>4. {q \in Active : req[q].op = "share"} = Sharing
    BY DEF Active, Sharing, SlotsInv, Staged
  <2>5. Sharing' = Sharing \cup {r} /\ UNCHANGED tokens
    BY <2>1 DEF Begin, Sharing, SlotsInv, Idle, Slots, database
  <2>6. IsFiniteSet(Sharing) /\ Cardinality(Sharing) \in Nat
    <3>1. Sharing \in SUBSET Requests
      BY DEF Sharing
    <3> QED
      BY <3>1, FS_Subset, FS_CardinalityType, AlbumAssumption
  <2>7. Cardinality(Sharing') <= Cardinality(Sharing) + 1 /\ Cardinality(Sharing') \in Nat
    <3>1. Cardinality(Sharing \cup {r}) = IF r \in Sharing THEN Cardinality(Sharing)
                                          ELSE Cardinality(Sharing) + 1
      BY <2>6, FS_AddElement
    <3> QED
      BY <2>5, <2>6, <3>1
  <2>8. SharesInv'
    <3>1. tokens + Cardinality(Sharing) < MaxShares
      BY <2>1, <2>4
    <3> QED
      BY <1>0, <2>5, <2>6, <2>7, <3>1, AlbumAssumption DEF SharesInv
  <2> QED
    BY <2>2, <2>3, <2>8
<1>6. CASE RevokeShare(r)
  <2>1. Begin(r, "revoke", "revoke", {})
    BY <1>6 DEF RevokeShare
  <2>2. DataOK'
    BY <1>6, <1>0 DEF RevokeShare, Begin, DataOK, database, caching, Blame, Overlap, Race, Causes
  <2>3. SlotsInv' /\ \A q \in Requests : req'[q].op = "share" => req[q].op = "share"
    BY <2>1, BeginsShapes DEF Staged, Idle, Ops, PC
  <2> QED
    BY <1>0, <2>1, <2>2, <2>3, NoneShares DEF Begin, database
<1>7. CASE ViewAlbum(r)
  <2>1. Begin(r, "view", "list", {}) /\ UNCHANGED cause
    BY <1>7 DEF ViewAlbum
  <2>2. DataOK'
    BY <2>1 DEF Begin, DataOK, database, caching
  <2>3. SlotsInv' /\ \A q \in Requests : req'[q].op = "share" => req[q].op = "share"
    BY <2>1, BeginsShapes DEF Staged, Idle, Ops, PC
  <2> QED
    BY <1>0, <2>1, <2>2, <2>3, NoneShares DEF Begin, database
<1>8. CASE ProcessDelete(r)
  <2>1. PICK f \in Files :
          req' = [req EXCEPT ![r] = [Idle EXCEPT !.pc = "unlink", !.op = "delete", !.of = {f}]]
    BY <1>8 DEF ProcessDelete
  <2> DEFINE x == [Idle EXCEPT !.pc = "unlink", !.op = "delete", !.of = {f}]
  <2>2. x \in Slots /\ Staged(x) /\ x.pub = 0 /\ x.op = "delete"
    BY IdleIsSlot DEF Slots, Staged, Idle, Private, PC, Ops
  <2>3. UNCHANGED <<database, disk, caching, told, torn>>
    BY <1>8 DEF ProcessDelete
  <2>4. DataOK'
    BY <1>8, <1>0 DEF ProcessDelete, DataOK, database, caching, Blame, Overlap, Causes
  <2> HIDE DEF x
  <2>5. req' = [req EXCEPT ![r] = x] /\ tokens' = tokens /\ x.pub <= tokens' /\ tokens <= tokens'
    BY <1>0, <2>1, <2>2, <2>3 DEF x, database
  <2>6. SlotsInv'
    BY <1>0, <2>2, <2>5, SlotChanges
  <2>7. \A q \in Requests : req'[q].op = "share" => req[q].op = "share"
    BY <2>2, <2>5 DEF SlotsInv
  <2> QED
    BY <1>0, <2>3, <2>4, <2>6, <2>7, NoneShares DEF database
<1> QED
  BY <1>1, <1>2, <1>3, <1>4, <1>5, <1>6, <1>7, <1>8 DEF Request

\* A slot is taken further, about the same.
LEMMA GoesOnShapes ==
  ASSUME SlotsInv, NEW r \in Requests, NEW x \in Slots, req' = [req EXCEPT ![r] = x],
         Staged(x), x.op = req[r].op, x.pub <= tokens, tokens \in Nat, UNCHANGED tokens
  PROVE  /\ SlotsInv'
         /\ \A q \in Requests : req'[q].op = "share" => req[q].op = "share"
<1>1. tokens <= tokens' /\ x.pub <= tokens'
  OBVIOUS
<1>2. SlotsInv'
  BY <1>1, SlotChanges
<1> QED
  BY <1>2 DEF SlotsInv

\* So does one that only goes on.
LEMMA GotoShapes ==
  ASSUME SlotsInv, NEW r \in Requests, NEW l \in PC, Goto(r, l), Staged([req[r] EXCEPT !.pc = l]),
         tokens \in Nat, UNCHANGED tokens
  PROVE  /\ SlotsInv'
         /\ \A q \in Requests : req'[q].op = "share" => req[q].op = "share"
<1> DEFINE x == [req[r] EXCEPT !.pc = l]
<1>1. x \in Slots /\ x.op = req[r].op /\ x.pub = req[r].pub /\ Staged(x)
  BY DEF SlotsInv, Slots
<1>2. req' = [req EXCEPT ![r] = x]
  BY DEF Goto
<1>3. req[r].pub <= tokens
  BY DEF SlotsInv
<1> HIDE DEF x
<1> QED
  BY <1>1, <1>2, <1>3, GoesOnShapes

\* Saving makes the rows what the list says they are.
LEMMA SaveFilesShapes ==
  ASSUME DataOK, SlotsInv, SharesInv, NEW r \in Requests, SaveFiles(r)
  PROVE  DataOK' /\ SlotsInv' /\ SharesInv'
<1>1. tokens \in Nat /\ tokens' = tokens /\ tokens <= tokens'
  BY AlbumAssumption DEF DataOK, SaveFiles
<1>2. DataOK'
  <2>1. CASE exists
    <3>1. req[r].seen \in Lists /\ req[r].saves \in SUBSET Files
      BY DEF SlotsInv, Slots
    <3>2. row' \in [Files -> Gone..MaxOrder]
      BY <2>1, <3>1, AlbumAssumption DEF SaveFiles, DataOK, Lists, Out, Gone
    <3>3. torn' \subseteq Files /\ cause' \subseteq Causes
      BY <2>1, <3>1 DEF SaveFiles, DataOK, Blame, Causes
    <3> QED
      BY <2>1, <3>2, <3>3 DEF SaveFiles, DataOK, caching
  <2>2. CASE ~exists
    BY <2>2 DEF SaveFiles, DataOK, caching
  <2> QED
    BY <2>1, <2>2
<1>3. SlotsInv' /\ \A q \in Requests : req'[q].op = "share" => req[q].op = "share"
  <2>1. CASE exists
    <3>1. Goto(r, "clear") /\ Staged(req[r]) /\ req[r].pc = "saveFiles"
      BY <2>1 DEF SaveFiles, SlotsInv
    <3>2. Staged([req[r] EXCEPT !.pc = "clear"])
      BY <3>1 DEF Staged, SlotsInv, Slots
    <3> QED
      BY <1>1, <3>1, <3>2, GotoShapes DEF PC
  <2>2. CASE ~exists
    BY <1>1, <2>2, EndsShapes DEF SaveFiles
  <2> QED
    BY <2>1, <2>2
<1> QED
  BY <1>1, <1>2, <1>3, NoneShares

\* Saving the album writes back a token that was made before.
LEMMA SaveAlbumShapes ==
  ASSUME DataOK, SlotsInv, SharesInv, NEW r \in Requests, SaveAlbum(r)
  PROVE  DataOK' /\ SlotsInv' /\ SharesInv'
<1>1. tokens \in Nat /\ tokens' = tokens /\ tokens <= tokens'
  BY AlbumAssumption DEF DataOK, SaveAlbum
<1>2. req[r].seen \in Lists /\ req[r].pub \in 0..tokens
  BY <1>1, AlbumAssumption DEF SlotsInv, Slots
<1>3. row' \in [Files -> Gone..MaxOrder]
  BY <1>2, AlbumAssumption DEF SaveAlbum, DataOK, Lists, Out, Gone
<1>4. torn' \subseteq Files /\ cause' \subseteq Causes
  BY DEF SaveAlbum, DataOK, Blame, Causes, In
<1>5. DataOK'
  BY <1>1, <1>2, <1>3, <1>4 DEF SaveAlbum, SavedToken, DataOK, caching
<1> QED
  BY <1>1, <1>5, EndsShapes, NoneShares DEF SaveAlbum

\* The places after the last are places.
LEMMA AddFilesShapes ==
  ASSUME DataOK, SlotsInv, NEW r \in Requests, AddFiles(r)
  PROVE  /\ SlotsInv'
         /\ \A q \in Requests : req'[q].op = "share" => req[q].op = "share"
<1> DEFINE S == req[r].of
           base == GetNextAlbumValue
           x == [req[r] EXCEPT !.pc = "saveFiles", !.saves = S,
                   !.seen = [f \in Files |-> IF f \in S THEN base + Cardinality({g \in S : g < f})
                                             ELSE Out]]
<1>1. S \in SUBSET Files /\ req[r].pc = "order" /\ req[r] \in Slots /\ Staged(req[r])
  BY DEF AddFiles, SlotsInv, Slots
<1>2. base \in Nat \ {0} /\ base + Cardinality(S) - 1 <= MaxOrder
  BY MaxPlaceIsPlace, AlbumAssumption DEF GetNextAlbumValue, AddFiles, DataOK
<1>3. Cardinality(S) \in Nat
  BY <1>1, FS_Subset, FS_CardinalityType, AlbumAssumption
<1>4. \A f \in S : base + Cardinality({g \in S : g < f}) \in Out..MaxOrder
  <2>1. TAKE f \in S
  <2>2. Cardinality({g \in S : g < f}) \in 0..(Cardinality(S) - 1)
    BY <1>1, RankFits
  <2> QED
    BY <1>2, <1>3, <2>2, AlbumAssumption DEF Out
<1>5. x.seen \in Lists
  BY <1>1, <1>4, AlbumAssumption DEF Lists, Slots, Out
<1>6. x \in Slots /\ x.op = req[r].op /\ x.pub = req[r].pub
  BY <1>1, <1>5 DEF Slots, PC
<1>7. Staged(x)
  BY <1>1 DEF Staged, Slots
<1>8. req' = [req EXCEPT ![r] = x] /\ UNCHANGED tokens
  BY DEF AddFiles, database
<1>9. x.pub <= tokens /\ tokens \in Nat
  BY <1>6, AlbumAssumption DEF SlotsInv, DataOK
<1> HIDE DEF x
<1> QED
  BY <1>6, <1>7, <1>8, <1>9, GoesOnShapes

\* There are as many numbers as files, and each file has one.
LEMMA RenumberShapes ==
  ASSUME DataOK, SlotsInv, NEW r \in Requests, Renumber(r)
  PROVE  /\ SlotsInv'
         /\ \A q \in Requests : req'[q].op = "share" => req[q].op = "share"
<1> DEFINE m == req[r].seen
<1>1. m \in Lists /\ req[r].pc = "position" /\ req[r].op = "swap" /\ req[r] \in Slots /\ Staged(req[r])
  BY DEF Renumber, SlotsInv, Slots
<1>2. PICK s \in Arrangements(m) :
        req' = [req EXCEPT ![r].pc = "saveFiles", ![r].saves = In(m),
                  ![r].seen = [f \in Files |-> IF f \in In(m) THEN CHOOSE i \in DOMAIN s : s[i] = f
                                               ELSE Out]]
  BY DEF Renumber
<1> DEFINE places == [f \in Files |-> IF f \in In(m) THEN CHOOSE i \in DOMAIN s : s[i] = f ELSE Out]
           x == [req[r] EXCEPT !.pc = "saveFiles", !.saves = In(m), !.seen = places]
<1>3. DOMAIN s \subseteq Out..MaxOrder /\ In(m) \in SUBSET Files
  <2>1. m \in [Files -> Gone..MaxOrder]
    BY <1>1, AlbumAssumption DEF Lists, Out, Gone
  <2>2. Cardinality(In(m)) \in 0..Cardinality(Files) /\ In(m) \in SUBSET Files
    BY <2>1, InAList
  <2>3. DOMAIN s = 1..Cardinality(In(m))
    BY <1>1, ArrangedOnce
  <2>4. Cardinality(Files) \in Nat
    BY FS_CardinalityType, AlbumAssumption
  <2> QED
    BY <2>2, <2>3, <2>4, AlbumAssumption DEF Out
<1>4. \A f \in In(m) : (CHOOSE i \in DOMAIN s : s[i] = f) \in DOMAIN s
  BY <1>1, ArrangedOnce
<1>5. places \in Lists
  BY <1>3, <1>4, AlbumAssumption DEF Lists, Out
<1> HIDE DEF places, m
<1>6. x \in Slots /\ x.op = req[r].op /\ x.pub = req[r].pub /\ x.pc = "saveFiles"
  BY <1>1, <1>3, <1>5 DEF Slots, PC
<1>7. Staged(x)
  BY <1>1, <1>6 DEF Staged, Slots
<1>8. req' = [req EXCEPT ![r] = x] /\ UNCHANGED tokens
  BY <1>2 DEF Renumber, database, places
<1>9. x.pub <= tokens /\ tokens \in Nat
  BY <1>6, AlbumAssumption DEF SlotsInv, DataOK
<1> HIDE DEF x
<1> QED
  BY <1>6, <1>7, <1>8, <1>9, GoesOnShapes

\* The file and the one at its new place are files.
LEMMA MoveFileShapes ==
  ASSUME DataOK, SlotsInv, NEW r \in Requests, MoveFile(r)
  PROVE  /\ SlotsInv'
         /\ \A q \in Requests : req'[q].op = "share" => req[q].op = "share"
<1> DEFINE m == req[r].seen
<1>1. m \in Lists /\ req[r].pc = "position" /\ req[r].op = "swap" /\ req[r] \in Slots /\ Staged(req[r])
  BY DEF MoveFile, SlotsInv, Slots
<1>2. tokens \in Nat /\ tokens' = tokens /\ tokens <= tokens' /\ req[r].pub <= tokens
  <2>1. tokens \in Nat /\ req[r].pub <= tokens
    BY AlbumAssumption DEF DataOK, SlotsInv
  <2>2. tokens' = tokens
    BY DEF MoveFile, database
  <2> QED
    BY <2>1, <2>2
<1>3. CASE End(r)
  BY <1>2, <1>3, EndsShapes
<1>4. CASE /\ req[r].of \subseteq In(m) /\ req[r].to <= Cardinality(In(m))
           /\ \E s \in Arrangements(m), f \in req[r].of :
                LET g == s[req[r].to]
                IN  req' = [req EXCEPT ![r].pc = "saveFiles", ![r].pass = 2, ![r].saves = {f, g},
                                       ![r].seen = Swapped(m, f, g)]
  <2>1. PICK s \in Arrangements(m), f \in req[r].of :
          req' = [req EXCEPT ![r].pc = "saveFiles", ![r].pass = 2, ![r].saves = {f, s[req[r].to]},
                             ![r].seen = Swapped(m, f, s[req[r].to])]
    BY <1>4
  <2> DEFINE g == s[req[r].to]
             x == [req[r] EXCEPT !.pc = "saveFiles", !.pass = 2, !.saves = {f, g},
                                 !.seen = Swapped(m, f, g)]
  <2>2. f \in Files /\ g \in Files
    <3>1. In(m) \subseteq Files /\ Cardinality(In(m)) \in Nat
      BY <1>1, InAList, FS_CardinalityType, AlbumAssumption DEF Lists, Out, Gone
    <3>2. req[r].to \in 1..Cardinality(In(m))
      BY <1>1, <1>4, <3>1 DEF Slots
    <3>3. s \in [1..Cardinality(In(m)) -> In(m)]
      BY <1>1, ArrangedOnce
    <3> QED
      BY <1>4, <3>1, <3>2, <3>3
  <2>3. Swapped(m, f, g) \in Lists
    BY <1>1, <2>2 DEF Swapped, Lists
  <2> HIDE DEF g, m
  <2>4. x \in Slots /\ x.op = req[r].op /\ x.pub = req[r].pub /\ x.pc = "saveFiles"
    <3>1. "saveFiles" \in PC /\ 2 \in 1..2 /\ {f, g} \in SUBSET Files
      BY <2>2 DEF PC
    <3> QED
      BY <1>1, <2>3, <3>1 DEF Slots
  <2>5. Staged(x)
    BY <1>1, <2>4 DEF Staged, Slots
  <2>6. req' = [req EXCEPT ![r] = x] /\ x.pub <= tokens
    BY <1>2, <2>1, <2>4 DEF g, m
  <2> HIDE DEF x
  <2> QED
    BY <1>2, <2>4, <2>5, <2>6, GoesOnShapes
<1> QED
  BY <1>3, <1>4 DEF MoveFile

\* The list is read: from the cache, or from the table.
LEMMA GetEntriesShapes ==
  ASSUME DataOK, SlotsInv, NEW r \in Requests, GetEntriesByBucket(r)
  PROVE  /\ SlotsInv'
         /\ \A q \in Requests : req'[q].op = "share" => req[q].op = "share"
<1>1. req[r] \in Slots /\ req[r].pc = "list" /\ Staged(req[r]) /\ UNCHANGED tokens
  BY DEF GetEntriesByBucket, SlotsInv, database
<1>2. tokens \in Nat /\ req[r].pub <= tokens
  BY AlbumAssumption DEF DataOK, SlotsInv
<1>3. PICK l \in {"position", "fill"}, m \in Lists : req' = [req EXCEPT ![r].pc = l, ![r].seen = m]
  BY ListedIsList DEF GetEntriesByBucket, DataOK
<1> DEFINE x == [req[r] EXCEPT !.pc = l, !.seen = m]
<1>4. x \in Slots /\ x.op = req[r].op /\ x.pub = req[r].pub
  BY <1>1 DEF Slots, PC
<1>5. Staged(x)
  BY <1>1 DEF Staged, Slots
<1>6. req' = [req EXCEPT ![r] = x]
  BY <1>3
<1> HIDE DEF x
<1> QED
  BY <1>1, <1>2, <1>4, <1>5, <1>6, GoesOnShapes

\* The album is read once more, its token with it.
LEMMA RereadShapes ==
  ASSUME DataOK, SlotsInv, NEW r \in Requests, RereadAlbum(r)
  PROVE  /\ SlotsInv'
         /\ \A q \in Requests : req'[q].op = "share" => req[q].op = "share"
<1>1. req[r] \in Slots /\ req[r].pc = "reread" /\ Staged(req[r]) /\ UNCHANGED tokens
  BY DEF RereadAlbum, SlotsInv, database
<1>2. tokens \in Nat /\ tokens <= tokens' /\ tokens' \in Nat /\ pub \in 0..MaxShares /\ pub <= tokens
  BY <1>1, AlbumAssumption DEF DataOK
<1>3. CASE End(r)
  BY <1>2, <1>3, EndsShapes
<1>4. CASE req' = [req EXCEPT ![r].pc = "saveAlbum", ![r].seen = Listed, ![r].pub = pub]
  <2> DEFINE x == [req[r] EXCEPT !.pc = "saveAlbum", !.seen = Listed, !.pub = pub]
  <2>1. x \in Slots /\ x.op = req[r].op /\ x.pub = pub
    BY <1>1, <1>2, ListedIsList DEF Slots, PC
  <2>2. Staged(x)
    BY <1>1 DEF Staged, Slots
  <2>3. req' = [req EXCEPT ![r] = x] /\ x.pub <= tokens
    BY <1>2, <1>4, <2>1
  <2> HIDE DEF x
  <2> QED
    BY <1>1, <1>2, <2>1, <2>2, <2>3, GoesOnShapes
<1> QED
  BY <1>3, <1>4 DEF RereadAlbum

\* The files that are to be put out are read.
LEMMA DetachFilesShapes ==
  ASSUME DataOK, SlotsInv, NEW r \in Requests, DetachFiles(r)
  PROVE  /\ SlotsInv'
         /\ \A q \in Requests : req'[q].op = "share" => req[q].op = "share"
<1>1. req[r] \in Slots /\ req[r].op = "deleteKeep" /\ Staged(req[r]) /\ UNCHANGED tokens
  BY DEF DetachFiles, SlotsInv, database
<1>2. tokens \in Nat /\ req[r].pub <= tokens
  BY AlbumAssumption DEF DataOK, SlotsInv
<1> DEFINE x == [req[r] EXCEPT !.pc = "commit", !.seen = Listed]
<1>3. x \in Slots /\ x.op = req[r].op /\ x.pub = req[r].pub
  BY <1>1, ListedIsList DEF Slots, PC
<1>4. Staged(x)
  BY <1>1 DEF Staged, Slots
<1>5. req' = [req EXCEPT ![r] = x]
  BY DEF DetachFiles
<1> HIDE DEF x
<1> QED
  BY <1>1, <1>2, <1>3, <1>4, <1>5, GoesOnShapes

\* After the cache is cleared a swap reads the list again.
LEMMA ClearCacheShapes ==
  ASSUME DataOK, SlotsInv, NEW r \in Requests, ClearCache(r)
  PROVE  /\ SlotsInv'
         /\ \A q \in Requests : req'[q].op = "share" => req[q].op = "share"
<1>1. req[r] \in Slots /\ req[r].pc = "clear" /\ Staged(req[r]) /\ UNCHANGED tokens
  BY DEF ClearCache, SlotsInv, database
<1>2. tokens \in Nat /\ tokens <= tokens' /\ tokens' \in Nat /\ req[r].pub <= tokens
  BY <1>1, AlbumAssumption DEF DataOK, SlotsInv
<1>3. CASE End(r)
  BY <1>2, <1>3, EndsShapes
<1>4. CASE req[r].op = "swap" /\ req' = [req EXCEPT ![r].pc = "list", ![r].pass = 2]
  <2> DEFINE x == [req[r] EXCEPT !.pc = "list", !.pass = 2]
  <2>1. "list" \in PC /\ 2 \in 1..2
    BY DEF PC
  <2>2. x \in Slots /\ x.op = req[r].op /\ x.pub = req[r].pub
    BY <1>1, <2>1 DEF Slots
  <2>3. Staged(x)
    BY <1>1, <1>4 DEF Staged, Slots
  <2>4. req' = [req EXCEPT ![r] = x]
    BY <1>4
  <2> HIDE DEF x
  <2> QED
    BY <1>1, <1>2, <2>2, <2>3, <2>4, GoesOnShapes
<1> QED
  BY <1>3, <1>4 DEF ClearCache

\* The token that is left is taken.
LEMMA SetSharedShapes ==
  ASSUME DataOK, SlotsInv, SharesInv, NEW r \in Requests, SetShared(r)
  PROVE  DataOK' /\ SlotsInv' /\ SharesInv'
<1>1. tokens \in Nat /\ tokens' = tokens + 1 /\ End(r) /\ req[r].pc = "share"
  BY AlbumAssumption DEF DataOK, SetShared
<1>2. SlotsInv'
  <2>1. tokens' \in Nat /\ tokens <= tokens'
    BY <1>1
  <2> QED
    BY <1>1, <2>1, EndsShapes
<1>3. r \in Sharing /\ Sharing' = Sharing \ {r}
  BY <1>1, IdleIsSlot DEF Sharing, SlotsInv, Staged, End, Idle
<1>4. Sharing \in SUBSET Requests
  BY DEF Sharing
<1>5. IsFiniteSet(Sharing) /\ Cardinality(Sharing) \in Nat
  BY <1>4, FS_Subset, FS_CardinalityType, AlbumAssumption
<1>6. Cardinality(Sharing \ {r}) = Cardinality(Sharing) - 1 /\ IsFiniteSet(Sharing \ {r})
  BY <1>3, <1>5, FS_RemoveElement
<1>7. Cardinality(Sharing \ {r}) \in Nat
  BY <1>6, FS_CardinalityType
<1>8. SharesInv'
  BY <1>1, <1>3, <1>5, <1>6, AlbumAssumption DEF SharesInv
<1>9. tokens' \in 0..MaxShares
  BY <1>1, <1>5, <1>6, <1>7, AlbumAssumption DEF SharesInv
<1>10. DataOK'
  BY <1>1, <1>9, AlbumAssumption DEF SetShared, DataOK, caching
<1> QED
  BY <1>2, <1>8, <1>10

\* A request that goes on keeps the shape.
LEMMA ContinueShapes ==
  ASSUME DataOK, SlotsInv, SharesInv, NEW r \in Requests, Continue(r)
  PROVE  DataOK' /\ SlotsInv' /\ SharesInv'
<1>0. tokens \in Nat /\ tokens <= tokens
  BY AlbumAssumption DEF DataOK
<1>st. req[r] \in Slots /\ Staged(req[r])
  BY DEF SlotsInv
<1>1. CASE SaveFiles(r)
  BY <1>1, SaveFilesShapes
<1>2. CASE SaveAlbum(r)
  BY <1>2, SaveAlbumShapes
<1>3. CASE SetShared(r)
  BY <1>3, SetSharedShapes
<1>4. CASE AddFiles(r) \/ Renumber(r) \/ MoveFile(r) \/ RereadAlbum(r) \/ DetachFiles(r)
  <2>1. UNCHANGED <<database, disk, caching, history>>
    BY <1>4 DEF AddFiles, Renumber, MoveFile, RereadAlbum, DetachFiles
  <2>2. DataOK'
    BY <2>1 DEF DataOK, database, caching, history
  <2>3. SlotsInv' /\ \A q \in Requests : req'[q].op = "share" => req[q].op = "share"
    BY <1>4, AddFilesShapes, RenumberShapes, MoveFileShapes, RereadShapes, DetachFilesShapes
  <2> QED
    BY <1>0, <2>1, <2>2, <2>3, NoneShares DEF database
<1>5. CASE ClearCache(r)
  <2>1. DataOK' /\ UNCHANGED tokens
    BY <1>5 DEF ClearCache, DataOK, database, history
  <2> QED
    BY <1>0, <1>5, <2>1, ClearCacheShapes, NoneShares
<1>6. CASE GetEntriesByBucket(r)
  <2>1. DataOK' /\ UNCHANGED tokens
    BY <1>6 DEF GetEntriesByBucket, DataOK, database, Blame, Causes
  <2> QED
    BY <1>0, <1>6, <2>1, GetEntriesShapes, NoneShares
<1>7. CASE FillCache(r)
  <2>1. DataOK' /\ UNCHANGED tokens
    BY <1>7, <1>st DEF FillCache, DataOK, database, history, Slots
  <2>2. Staged([req[r] EXCEPT !.pc = "position"])
    BY <1>7, <1>st DEF FillCache, Staged, Slots
  <2> QED
    BY <1>0, <1>7, <2>1, <2>2, GotoShapes, NoneShares DEF FillCache, PC
<1>8. CASE ViewDone(r) \/ NothingToDelete(r)
  <2>1. End(r) /\ UNCHANGED <<database, disk, caching, history>>
    BY <1>8 DEF ViewDone, NothingToDelete
  <2>2. DataOK' /\ UNCHANGED tokens
    BY <2>1 DEF DataOK, database, caching, history
  <2> QED
    BY <1>0, <2>1, <2>2, EndsShapes, NoneShares
<1>9. CASE DeleteAlbumTx(r)
  <2>1. torn' \subseteq Files
    BY <1>9 DEF DeleteAlbumTx, DataOK, In
  <2>2. row' \in [Files -> Gone..MaxOrder] /\ \A f \in Files : row'[f] <= Out
    BY <1>9, AlbumAssumption DEF DeleteAlbumTx, DataOK, Out, Gone
  <2>3. AlbumGoes /\ UNCHANGED <<tokens, premium, disk, copy, cause>> /\ 0 \in 0..tokens
    BY <1>0, <1>9 DEF DeleteAlbumTx
  <2>4. DataOK' /\ UNCHANGED tokens
    BY <2>1, <2>2, <2>3 DEF AlbumGoes, DataOK, Private
  <2>5. Goto(r, "unlink") /\ Staged([req[r] EXCEPT !.pc = "unlink"])
    BY <1>9, <1>st DEF DeleteAlbumTx, Staged, Slots
  <2> QED
    BY <1>0, <2>4, <2>5, GotoShapes, NoneShares DEF PC
<1>10. CASE DetachCommit(r)
  <2>1. torn' \subseteq Files
    BY <1>10 DEF DetachCommit, DataOK, In
  <2>2. row' \in [Files -> Gone..MaxOrder] /\ \A f \in Files : row'[f] <= Out
    BY <1>10, AlbumAssumption DEF DetachCommit, DataOK, Out, Gone
  <2>3. AlbumGoes /\ UNCHANGED <<tokens, premium, disk, copy, cause>> /\ 0 \in 0..tokens
    BY <1>0, <1>10 DEF DetachCommit
  <2>4. DataOK' /\ UNCHANGED tokens
    BY <2>1, <2>2, <2>3 DEF AlbumGoes, DataOK, Private
  <2> QED
    BY <1>0, <1>10, <2>4, EndsShapes, NoneShares DEF DetachCommit
<1>11. CASE DeleteFilesFromDisk(r)
  <2>1. DataOK' /\ UNCHANGED tokens
    BY <1>11 DEF DeleteFilesFromDisk, DataOK, database, caching, history
  <2>2. CASE End(r)
    BY <1>0, <2>1, <2>2, EndsShapes, NoneShares
  <2>3. CASE req[r].op = "delete" /\ Goto(r, "drop")
    <3>1. Staged([req[r] EXCEPT !.pc = "drop"])
      BY <2>3, <1>st DEF Staged, Slots
    <3> QED
      BY <1>0, <2>1, <2>3, <3>1, GotoShapes, NoneShares DEF PC
  <2> QED
    BY <1>11, <2>2, <2>3 DEF DeleteFilesFromDisk
<1>12. CASE DeleteEntries(r)
  <2>1. row' \in [Files -> Gone..MaxOrder] /\ \A f \in Files : row[f] <= Out => row'[f] <= Out
    BY <1>12, AlbumAssumption DEF DeleteEntries, DataOK, Out, Gone
  <2>2. DataOK' /\ UNCHANGED tokens
    BY <1>12, <2>1 DEF DeleteEntries, DataOK, history
  <2> QED
    BY <1>0, <1>12, <2>2, EndsShapes, NoneShares DEF DeleteEntries
<1>13. CASE SetRevoked(r)
  <2>1. DataOK' /\ UNCHANGED tokens
    BY <1>0, <1>13 DEF SetRevoked, DataOK, caching, Private
  <2> QED
    BY <1>0, <1>13, <2>1, EndsShapes, NoneShares DEF SetRevoked
<1> QED
  BY <1>1, <1>2, <1>3, <1>4, <1>5, <1>6, <1>7, <1>8, <1>9, <1>10, <1>11, <1>12, <1>13 DEF Continue

\* Every step keeps the shape.
LEMMA ShapeKept ==
  ASSUME Shape, [Next]_vars
  PROVE  Shape'
<1>0. DataOK /\ sent \in 0..MaxSent /\ SlotsInv /\ SharesInv
  BY ShapeParts
<1>1. ASSUME NEW r \in Requests, Request(r),
             sent' = sent + 1 + Cardinality(Active), sent' <= MaxSent
      PROVE  Shape'
  <2>1. DataOK' /\ SlotsInv' /\ SharesInv'
    BY <1>0, <1>1, RequestShapes
  <2>2. sent' \in 0..MaxSent
    BY <1>0, <1>1, ActiveFinite, AlbumAssumption
  <2> QED
    BY <2>1, <2>2, ShapeParts DEF Shape, DataOK, TypeOK, SlotsInv, Slots
<1>2. ASSUME NEW r \in Requests, Continue(r), UNCHANGED sent
      PROVE  Shape'
  <2>1. DataOK' /\ SlotsInv' /\ SharesInv'
    BY <1>0, <1>2, ContinueShapes
  <2> QED
    BY <1>0, <1>2, <2>1 DEF Shape, DataOK, TypeOK, SlotsInv, Slots
<1>3. CASE UNCHANGED sent /\ (Expire \/ TimerFires)
  <2>1. DataOK' /\ UNCHANGED <<req, tokens>>
    BY <1>0, <1>3 DEF Expire, TimerFires, DataOK, database, history
  <2>2. SlotsInv' /\ SharesInv'
    BY <1>0, <2>1 DEF SlotsInv, SharesInv, Sharing, Staged
  <2> QED
    BY <1>0, <1>3, <2>1, <2>2 DEF Shape, DataOK, TypeOK, SlotsInv, Slots
<1>4. CASE UNCHANGED vars
  <2>1. DataOK' /\ SlotsInv' /\ SharesInv' /\ UNCHANGED sent
    BY <1>0, <1>4 DEF vars, database, caching, history, DataOK, SlotsInv, SharesInv, Sharing, Staged
  <2> QED
    BY <1>0, <2>1 DEF Shape, DataOK, TypeOK, SlotsInv, Slots
<1> QED
  BY <1>1, <1>2, <1>3, <1>4 DEF Next

\* Nothing is in the album, shared or under way yet.
LEMMA ShapeInit == Init => Shape
<1> SUFFICES ASSUME Init PROVE Shape
  OBVIOUS
<1>1. DataOK
  <2>1. row \in [Files -> Gone..MaxOrder] /\ 0 \in 0..MaxShares /\ 0 \in 0..0
    BY AlbumAssumption DEF Init, Gone, Out
  <2> QED
    BY <2>1 DEF Init, DataOK, Private
<1>2. SlotsInv
  <2>1. \A r \in Requests : req[r] = Idle
    BY DEF Init
  <2>2. Idle.pub = 0 /\ tokens = 0
    BY DEF Init, Idle, Private
  <2> QED
    BY <2>1, <2>2, IdleIsSlot DEF Init, SlotsInv
<1>3. SharesInv
  <2>1. Sharing = {}
    BY DEF Init, Sharing, Idle
  <2> QED
    BY <2>1, FS_EmptySet, AlbumAssumption DEF SharesInv, Init
<1>4. sent \in 0..MaxSent
  BY AlbumAssumption DEF Init
<1> QED
  BY <1>1, <1>2, <1>3, <1>4, ShapeParts

-----------------------------------------------------------------------------
\* A swap ends, or goes on with the same file.
LEMMA MoveFileMoves ==
  ASSUME SlotsInv, NEW r \in Requests, MoveFile(r)
  PROVE  /\ req[r].op = "swap"
         /\ \A q \in Requests : q # r => req'[q] = req[q]
         /\ \/ req'[r] = Idle
            \/ req'[r].pc = "saveFiles" /\ req'[r].op = req[r].op /\ req'[r].of = req[r].of
<1>1. req[r].op = "swap" /\ req[r] \in Slots /\ req \in [Requests -> Slots]
  BY DEF MoveFile, SlotsInv
<1>2. CASE End(r)
  BY <1>1, <1>2 DEF End
<1>3. CASE ~End(r)
  <2>1. PICK S, m : req' = [req EXCEPT ![r].pc = "saveFiles", ![r].pass = 2, ![r].saves = S,
                                       ![r].seen = m]
    BY <1>3 DEF MoveFile
  <2> QED
    BY <1>1, <2>1 DEF Slots
<1> QED
  BY <1>2, <1>3

-----------------------------------------------------------------------------
(* The public token.                                                        *)

\* While no writers of the token overlap there is one at a time, and nobody else changes it: who
\* read it to write it back has read what it is.
UrlsInv ==
  "raced" \notin cause =>
    /\ pub = told
    /\ \A q, r \in Requests : req[q].op \in Publishing /\ req[r].op \in Publishing => q = r
    /\ \A r \in Requests : /\ req[r].pc = "saveAlbum" => req[r].pub = pub
                           /\ req[r].op = "share" => exists

\* A writer of the token begins.
LEMMA PublisherBegins ==
  ASSUME SlotsInv, UrlsInv, NEW r \in Requests, NEW o \in Publishing, NEW l \in PC \ {"saveAlbum"},
         NEW S, Begin(r, o, l, S), Blame(Overlap \cup Race)
  PROVE  UrlsInv'
<1> SUFFICES ASSUME "raced" \notin cause' PROVE UrlsInv'
  BY DEF UrlsInv
<1>1. "raced" \notin cause /\ Race = {}
  BY DEF Blame, Race
<1>2. \A q \in Requests : req[q].op \notin Publishing
  BY <1>1 DEF Race, Active, Publishing, SlotsInv, Staged
<1>3. /\ exists /\ UNCHANGED <<exists, pub, told>>
      /\ req'[r].op = o /\ req'[r].pc = l
      /\ \A q \in Requests : q # r => req'[q] = req[q]
  BY DEF Begin, database, SlotsInv, Idle
<1> QED
  BY <1>1, <1>2, <1>3 DEF UrlsInv

\* It writes the token, and the client is told; and that was the only one.
LEMMA PublisherEnds ==
  ASSUME SlotsInv, UrlsInv, NEW r \in Requests, req[r].op \in Publishing, cause \subseteq cause',
         "raced" \notin cause => pub' = told',
         req'[r].op \in {"none", req[r].op}, req'[r].op # "share", req'[r].pc # "saveAlbum",
         \A q \in Requests : q # r => req'[q] = req[q]
  PROVE  UrlsInv'
BY DEF UrlsInv, SlotsInv, Staged, Publishing

\* No request that begins changes the token.
LEMMA UrlsRequest ==
  ASSUME SlotsInv, UrlsInv, NEW r \in Requests, Request(r)
  PROVE  UrlsInv'
<1>1. CASE AssignFiles(r) \/ SwapFileOrder(r) \/ ViewAlbum(r) \/ ProcessDelete(r)
  <2>1. UNCHANGED <<exists, pub, told>> /\ cause \subseteq cause'
    BY <1>1 DEF AssignFiles, SwapFileOrder, ViewAlbum, ProcessDelete, Begin, Blame, database
  <2>2. \A q \in Requests : q # r => req'[q] = req[q]
    BY <1>1 DEF AssignFiles, SwapFileOrder, ViewAlbum, ProcessDelete, Begin, SlotsInv
  <2>3. req'[r].op \in {"assign", "swap", "view", "delete"} /\ req'[r].pc # "saveAlbum"
    <3>1. CASE AssignFiles(r)
      BY <3>1 DEF AssignFiles, Begin, Idle, SlotsInv
    <3>2. CASE SwapFileOrder(r)
      BY <3>2 DEF SwapFileOrder, Idle, SlotsInv
    <3>3. CASE ViewAlbum(r)
      BY <3>3 DEF ViewAlbum, Begin, Idle, SlotsInv
    <3>4. CASE ProcessDelete(r)
      BY <3>4 DEF ProcessDelete, Idle, SlotsInv
    <3> QED
      BY <1>1, <3>1, <3>2, <3>3, <3>4
  <2> QED
    BY <2>1, <2>2, <2>3 DEF UrlsInv, Publishing
<1>2. CASE RemoveFiles(r)
  <2>1. PICK S : Begin(r, "remove", "reread", S) /\ Blame(Overlap \cup Race)
    BY <1>2 DEF RemoveFiles
  <2> QED
    BY <2>1, PublisherBegins DEF Publishing, PC
<1>3. CASE DeleteAlbum(r)
  <2>1. PICK o \in {"deleteAll", "deleteKeep"} : Begin(r, o, "tx", {}) /\ Blame(Overlap \cup Race)
    BY <1>3 DEF DeleteAlbum
  <2>2. o \in Publishing
    BY DEF Publishing
  <2> QED
    BY <2>1, <2>2, PublisherBegins DEF PC
<1>4. CASE ShareAlbum(r)
  <2>1. Begin(r, "share", "share", {}) /\ Blame(Overlap \cup Race)
    BY <1>4 DEF ShareAlbum
  <2> QED
    BY <2>1, PublisherBegins DEF Publishing, PC
<1>5. CASE RevokeShare(r)
  <2>1. Begin(r, "revoke", "revoke", {}) /\ Blame(Overlap \cup Race)
    BY <1>5 DEF RevokeShare
  <2> QED
    BY <2>1, PublisherBegins DEF Publishing, PC
<1> QED
  BY <1>1, <1>2, <1>3, <1>4, <1>5 DEF Request

\* Who changes the token is the only one who may.
LEMMA UrlsContinue ==
  ASSUME SlotsInv, UrlsInv, NEW r \in Requests, Continue(r)
  PROVE  UrlsInv'
<1>st. Staged(req[r]) /\ req \in [Requests -> Slots]
  BY DEF SlotsInv
<1>1. CASE SaveAlbum(r)
  <2>1. /\ req[r].op = "remove" /\ exists' = TRUE /\ pub' = req[r].pub /\ told' = told
        /\ cause \subseteq cause' /\ req' = [req EXCEPT ![r] = Idle]
    BY <1>1, <1>st DEF SaveAlbum, SavedToken, Blame, End, Staged
  <2>2. "raced" \notin cause => pub' = told'
    BY <1>1, <2>1 DEF SaveAlbum, UrlsInv
  <2> QED
    BY <1>st, <2>1, <2>2, PublisherEnds DEF Idle, Publishing
<1>2. CASE SetShared(r)
  <2>1. /\ req[r].op = "share" /\ told' = tokens' /\ pub' = (IF exists THEN tokens' ELSE pub)
        /\ cause' = cause /\ req' = [req EXCEPT ![r] = Idle]
    BY <1>2, <1>st DEF SetShared, End, Staged
  <2>2. "raced" \notin cause => pub' = told'
    BY <2>1 DEF UrlsInv
  <2> QED
    BY <1>st, <2>1, <2>2, PublisherEnds DEF Idle, Publishing
<1>3. CASE SetRevoked(r)
  BY <1>3, <1>st, PublisherEnds DEF SetRevoked, End, Idle, Staged, Publishing
<1>4. CASE DeleteAlbumTx(r)
  BY <1>4, <1>st, PublisherEnds DEF DeleteAlbumTx, AlbumGoes, Goto, Publishing, Slots
<1>5. CASE DetachCommit(r)
  BY <1>5, <1>st, PublisherEnds DEF DetachCommit, AlbumGoes, End, Idle, Staged, Publishing
<1>6. CASE RereadAlbum(r)
  <2>1. UNCHANGED <<exists, pub, told, cause>>
    BY <1>6 DEF RereadAlbum, database, history
  <2>2. \A q \in Requests : /\ req'[q].op \in {req[q].op, "none"}
                            /\ req'[q].pc = "saveAlbum" => req'[q] = req[q] \/ req'[q].pub = pub
    BY <1>6, <1>st DEF RereadAlbum, End, Idle, Slots
  <2> QED
    BY <2>1, <2>2 DEF UrlsInv, Publishing
<1>7. CASE \/ SaveFiles(r) \/ ClearCache(r) \/ AddFiles(r)
           \/ GetEntriesByBucket(r) \/ FillCache(r) \/ ViewDone(r) \/ Renumber(r) \/ MoveFile(r)
           \/ NothingToDelete(r) \/ DetachFiles(r)
           \/ DeleteFilesFromDisk(r) \/ DeleteEntries(r)
  <2>1. UNCHANGED <<exists, pub, told>> /\ cause \subseteq cause'
    BY <1>7 DEF SaveFiles, ClearCache, AddFiles, GetEntriesByBucket, FillCache, ViewDone, Renumber,
       MoveFile, NothingToDelete, DetachFiles, DeleteFilesFromDisk, DeleteEntries, Blame,
       database, history
  <2>2. \A q \in Requests : /\ req'[q].op \in {req[q].op, "none"}
                            /\ req'[q].pc = "saveAlbum" => req'[q] = req[q]
    <3>1. CASE SaveFiles(r) \/ ClearCache(r) \/ AddFiles(r) \/ ViewDone(r) \/ NothingToDelete(r)
      BY <1>st, <3>1 DEF SaveFiles, ClearCache, AddFiles, ViewDone, NothingToDelete,
         End, Goto, Idle, Slots
    <3>2. CASE GetEntriesByBucket(r) \/ FillCache(r)
      BY <1>st, <3>2 DEF GetEntriesByBucket, FillCache, Goto, Slots
    <3>3. CASE Renumber(r)
      BY <1>st, <3>3 DEF Renumber, Slots
    <3>4. CASE MoveFile(r)
      BY <3>4, MoveFileMoves DEF Idle
    <3>5. CASE DetachFiles(r) \/ DeleteFilesFromDisk(r) \/ DeleteEntries(r)
      BY <1>st, <3>5 DEF DetachFiles, DeleteFilesFromDisk, DeleteEntries, End, Goto, Idle, Slots
    <3> QED
      BY <1>7, <3>1, <3>2, <3>3, <3>4, <3>5
  <2> QED
    BY <2>1, <2>2 DEF UrlsInv, Publishing
<1> QED
  BY <1>1, <1>2, <1>3, <1>4, <1>5, <1>6, <1>7 DEF Continue

\* Every step keeps the token what clients were told.
LEMMA UrlsKept ==
  ASSUME Shape, UrlsInv, [Next]_vars
  PROVE  UrlsInv'
<1>0. SlotsInv
  BY ShapeParts
<1>1. CASE \E r \in Requests : Request(r) \/ Continue(r)
  BY <1>0, <1>1, UrlsRequest, UrlsContinue
<1>2. CASE Expire \/ TimerFires \/ UNCHANGED vars
  BY <1>2 DEF Expire, TimerFires, vars, database, history, UrlsInv
<1> QED
  BY <1>1, <1>2 DEF Next

-----------------------------------------------------------------------------
(* The limit.                                                               *)

\* Requests that were checked against the limit, and whose files are not in the album yet.
Adding == {r \in Requests : req[r].op = "assign" /\ req[r].pc \in {"order", "saveFiles"}}

\* As long as none that were checked overlap, and nothing comes back, there is one at a time, and
\* its files fit in beside those that are there.
LimitInv ==
  ~premium /\ cause \cap {"overAdd", "revived"} = {} =>
    /\ \A q, r \in Requests : req[q].op = "assign" /\ req[r].op = "assign" => q = r
    /\ Cardinality(In(row)) <= Limit
    /\ \A r \in Adding : Cardinality(In(row) \cup req[r].of) <= Limit

\* Fewer files fit.
LEMMA SmallerFits ==
  ASSUME NEW S \in SUBSET Files, NEW T \in SUBSET S, Cardinality(S) <= Limit
  PROVE  Cardinality(T) <= Limit
<1>1. IsFiniteSet(S)
  BY FS_Subset, AlbumAssumption
<1>2. Cardinality(T) <= Cardinality(S) /\ Cardinality(S) \in Nat /\ Cardinality(T) \in Nat
  BY <1>1, FS_Subset, FS_CardinalityType
<1> QED
  BY <1>2, AlbumAssumption

\* Who puts nothing into the album keeps that.
LEMMA NothingComesIn ==
  ASSUME SlotsInv, LimitInv, row \in [Files -> Gone..MaxOrder], UNCHANGED premium,
         cause \subseteq cause',
         "revived" \notin cause' => In(row') \subseteq In(row),
         \A r \in Requests : req'[r].op = "assign" => /\ req[r].op = "assign" /\ req'[r].of = req[r].of
                                                      /\ r \in Adding' => r \in Adding
  PROVE  LimitInv'
<1> SUFFICES ASSUME ~premium, cause' \cap {"overAdd", "revived"} = {}
             PROVE  LimitInv'
  BY DEF LimitInv
<1>1. /\ \A q, r \in Requests : req[q].op = "assign" /\ req[r].op = "assign" => q = r
      /\ Cardinality(In(row)) <= Limit
      /\ \A r \in Adding : Cardinality(In(row) \cup req[r].of) <= Limit
      /\ In(row') \subseteq In(row)
  BY DEF LimitInv
<1>2. In(row) \in SUBSET Files
  BY DEF In
<1>3. Cardinality(In(row')) <= Limit
  BY <1>1, <1>2, SmallerFits
<1>4. \A r \in Adding' : Cardinality(In(row') \cup req'[r].of) <= Limit
  <2>1. TAKE r \in Adding'
  <2>2. r \in Adding /\ req'[r].of = req[r].of /\ req[r].of \in SUBSET Files
    BY DEF Adding, SlotsInv, Slots
  <2> QED
    <3>1. In(row) \cup req[r].of \in SUBSET Files /\ Cardinality(In(row) \cup req[r].of) <= Limit
      BY <1>1, <1>2, <2>2
    <3>2. In(row') \cup req'[r].of \in SUBSET (In(row) \cup req[r].of)
      BY <1>1, <2>2
    <3> QED
      BY <3>1, <3>2, SmallerFits
<1> QED
  BY <1>1, <1>3, <1>4 DEF LimitInv

\* An assignment is checked against what is there, and no other is on its way.
LEMMA AssignFits ==
  ASSUME SlotsInv, LimitInv, NEW r \in Requests, AssignFiles(r)
  PROVE  LimitInv'
<1> SUFFICES ASSUME ~premium', cause' \cap {"overAdd", "revived"} = {}
             PROVE  LimitInv'
  BY DEF LimitInv
<1>1. PICK S \in SUBSET Files : /\ WithinLimit(S) /\ Begin(r, "assign", "order", S)
                                /\ \A q \in Active : req[q].op # "assign"
                                /\ cause \subseteq cause' /\ UNCHANGED <<row, premium>>
  <2>1. UNCHANGED <<row, premium>> /\ cause \subseteq cause'
    BY DEF AssignFiles, Blame, Begin, database
  <2>2. \A q \in Active : req[q].op # "assign"
    BY DEF AssignFiles, Blame
  <2> QED
    BY <2>1, <2>2 DEF AssignFiles
<1>2. \A q \in Requests : req[q].op # "assign"
  BY <1>1 DEF Active, SlotsInv, Staged
<1>3. \A q \in Requests : req'[q] = IF q = r THEN req'[r] ELSE req[q]
  BY <1>1 DEF Begin, SlotsInv
<1>4. req'[r].of = S
  BY <1>1 DEF Begin, SlotsInv, Idle
<1>5. Cardinality(In(row)) <= Limit
  BY <1>1 DEF LimitInv
<1>6. \A q \in Adding' : q = r
  BY <1>2, <1>3 DEF Adding
<1>7. \A q \in Adding' : Cardinality(In(row)' \cup req'[q].of) <= Limit
  BY <1>1, <1>4, <1>6 DEF WithinLimit, In
<1>8. In(row') = In(row)
  BY <1>1
<1> QED
  BY <1>2, <1>3, <1>5, <1>7, <1>8 DEF LimitInv

\* The files of an assignment come in, and those of a swap were there.
LEMMA SavedFit ==
  ASSUME SlotsInv, LimitInv, row \in [Files -> Gone..MaxOrder], NEW r \in Requests, SaveFiles(r)
  PROVE  LimitInv'
<1>st. req[r] \in Slots /\ Staged(req[r]) /\ req[r].pc = "saveFiles" /\ req \in [Requests -> Slots]
  BY DEF SlotsInv, SaveFiles
<1>1. CASE ~exists
  BY <1>1, <1>st, NothingComesIn DEF SaveFiles, End, Idle, Adding
<1>2. CASE exists
  <2>1. /\ UNCHANGED premium /\ cause \subseteq cause' /\ Goto(r, "clear")
        /\ row' = [f \in Files |-> IF f \in req[r].saves THEN req[r].seen[f] ELSE row[f]]
        /\ "revived" \notin cause' =>
             ~\E f \in req[r].saves : row[f] = Gone \/ (row[f] = Out /\ req[r].op = "swap")
    BY <1>2 DEF SaveFiles, Blame
  <2>2. /\ \A q \in Requests : q # r => req'[q] = req[q]
        /\ req'[r].op = req[r].op /\ req'[r].of = req[r].of /\ req'[r].pc = "clear"
    BY <1>st, <2>1 DEF Goto, Slots
  <2>3. CASE req[r].op = "swap"
    <3>1. "revived" \notin cause' => In(row') \subseteq In(row)
      <4>1. SUFFICES ASSUME "revived" \notin cause', NEW f \in In(row') PROVE f \in In(row)
        OBVIOUS
      <4>2. f \in Files /\ row[f] \in Gone..MaxOrder /\ (f \in req[r].saves => row[f] > Out)
        BY <2>1, <2>3, <4>1, AlbumAssumption DEF In, Gone, Out
      <4> QED
        BY <2>1, <4>1, <4>2 DEF In
    <3> QED
      BY <2>1, <2>2, <2>3, <3>1, NothingComesIn DEF Adding
  <2>4. CASE req[r].op = "assign"
    <3>1. SUFFICES ASSUME ~premium, cause' \cap {"overAdd", "revived"} = {}
                   PROVE  LimitInv'
      BY <2>1 DEF LimitInv
    <3>2. /\ \A q \in Requests : req[q].op = "assign" => q = r
          /\ Cardinality(In(row) \cup req[r].of) <= Limit
      BY <1>st, <2>1, <2>4, <3>1 DEF LimitInv, Adding
    <3>3. In(row') \subseteq In(row) \cup req[r].of
      BY <1>st, <2>1, <2>4 DEF In, Staged
    <3>4. In(row) \cup req[r].of \in SUBSET Files
      BY <1>st DEF In, Slots
    <3>5. Cardinality(In(row')) <= Limit
      BY <3>2, <3>3, <3>4, SmallerFits
    <3>6. \A q \in Requests : req'[q].op = "assign" => q = r
      BY <2>2, <3>2
    <3>7. Adding' = {}
      BY <2>2, <3>2 DEF Adding
    <3> QED
      BY <3>5, <3>6, <3>7 DEF LimitInv
  <2> QED
    BY <1>st, <2>3, <2>4 DEF Staged
<1> QED
  BY <1>1, <1>2

\* Only assignments, and old models, bring files in.
LEMMA LimitContinue ==
  ASSUME DataOK, SlotsInv, LimitInv, NEW r \in Requests, Continue(r)
  PROVE  LimitInv'
<1>st. req[r] \in Slots /\ Staged(req[r]) /\ req \in [Requests -> Slots]
       /\ row \in [Files -> Gone..MaxOrder]
  BY DEF SlotsInv, DataOK
<1>1. CASE SaveFiles(r)
  BY <1>1, <1>st, SavedFit
<1>2. CASE AddFiles(r)
  <2>1. /\ UNCHANGED <<row, premium, cause>>
        /\ \A q \in Requests : /\ req'[q].op = req[q].op /\ req'[q].of = req[q].of
                               /\ q \in Adding' => q \in Adding
    BY <1>2, <1>st DEF AddFiles, database, history, Adding, Slots, Staged
  <2> QED
    BY <1>st, <2>1, NothingComesIn
<1>3. CASE \/ SaveAlbum(r) \/ DeleteAlbumTx(r) \/ DetachCommit(r) \/ DeleteEntries(r)
  <2>1. UNCHANGED premium /\ cause \subseteq cause'
    BY <1>3 DEF SaveAlbum, DeleteAlbumTx, DetachCommit, DeleteEntries, Blame, history
  <2>2. "revived" \notin cause' => In(row') \subseteq In(row)
    <3>1. SUFFICES ASSUME "revived" \notin cause', NEW f \in In(row') PROVE f \in In(row)
      OBVIOUS
    <3>2. f \in Files /\ row'[f] > Out /\ row[f] \in Gone..MaxOrder
      BY <1>st, <3>1 DEF In
    <3>3. CASE SaveAlbum(r)
      <4>1. \A g \in Kept(r) : ~(row[g] <= Out)
        BY <3>1, <3>3 DEF SaveAlbum, Blame
      <4>2. f \in Kept(r)
        BY <3>2, <3>3 DEF SaveAlbum, Out, Gone
      <4> QED
        BY <3>2, <4>1, <4>2, AlbumAssumption DEF In, Out, Gone
    <3>4. CASE DeleteAlbumTx(r) \/ DetachCommit(r) \/ DeleteEntries(r)
      BY <3>2, <3>4, AlbumAssumption DEF DeleteAlbumTx, DetachCommit, DeleteEntries, In, Out, Gone
    <3> QED
      BY <1>3, <3>3, <3>4
  <2>3. \A q \in Requests : req'[q].op = "assign" => req'[q] = req[q]
    BY <1>3, <1>st DEF SaveAlbum, DeleteAlbumTx, DetachCommit, DeleteEntries, End, Goto, Idle, Slots
  <2> QED
    BY <1>st, <2>1, <2>2, <2>3, NothingComesIn DEF Adding
<1>4. CASE \/ ClearCache(r) \/ RereadAlbum(r) \/ GetEntriesByBucket(r) \/ FillCache(r) \/ ViewDone(r)
           \/ Renumber(r) \/ MoveFile(r) \/ NothingToDelete(r) \/ DetachFiles(r)
           \/ DeleteFilesFromDisk(r) \/ SetShared(r) \/ SetRevoked(r)
  <2>1. UNCHANGED <<row, premium>> /\ cause \subseteq cause'
    BY <1>4 DEF ClearCache, RereadAlbum, GetEntriesByBucket, FillCache, ViewDone, Renumber, MoveFile,
       NothingToDelete, DetachFiles, DeleteFilesFromDisk, SetShared, SetRevoked, Blame,
       database, history
  <2>2. \A q \in Requests : req'[q].op = "assign" => req'[q] = req[q]
    <3>1. CASE \/ ClearCache(r) \/ RereadAlbum(r) \/ ViewDone(r) \/ NothingToDelete(r)
      BY <1>st, <3>1 DEF ClearCache, RereadAlbum, ViewDone, NothingToDelete, End, Idle, Slots, Staged
    <3>2. CASE GetEntriesByBucket(r) \/ FillCache(r)
      BY <1>st, <3>2 DEF GetEntriesByBucket, FillCache, Goto, Slots, Staged
    <3>3. CASE Renumber(r)
      BY <1>st, <3>3 DEF Renumber, Slots
    <3>4. CASE MoveFile(r)
      BY <3>4, MoveFileMoves DEF Idle
    <3>5. CASE DetachFiles(r) \/ DeleteFilesFromDisk(r) \/ SetShared(r) \/ SetRevoked(r)
      BY <1>st, <3>5 DEF DetachFiles, DeleteFilesFromDisk, SetShared, SetRevoked, End, Goto, Idle,
         Slots
    <3> QED
      BY <1>4, <3>1, <3>2, <3>3, <3>4, <3>5
  <2> QED
    BY <1>st, <2>1, <2>2, NothingComesIn DEF Adding
<1> QED
  BY <1>1, <1>2, <1>3, <1>4 DEF Continue

\* A request that begins brings nothing in yet.
LEMMA LimitRequest ==
  ASSUME DataOK, SlotsInv, LimitInv, NEW r \in Requests, Request(r)
  PROVE  LimitInv'
<1>st. row \in [Files -> Gone..MaxOrder]
  BY DEF DataOK
<1>1. CASE AssignFiles(r)
  BY <1>1, AssignFits
<1>2. CASE \/ RemoveFiles(r) \/ SwapFileOrder(r) \/ DeleteAlbum(r) \/ ShareAlbum(r) \/ RevokeShare(r)
           \/ ViewAlbum(r) \/ ProcessDelete(r)
  <2>1. UNCHANGED <<row, premium>> /\ cause \subseteq cause'
    BY <1>2 DEF RemoveFiles, SwapFileOrder, DeleteAlbum, ShareAlbum, RevokeShare, ViewAlbum,
       ProcessDelete, Begin, Blame, database
  <2>2. \A q \in Requests : req'[q].op = "assign" => req'[q] = req[q]
    <3>1. CASE RemoveFiles(r) \/ DeleteAlbum(r)
      <4>1. PICK o, l, S : o \in {"remove", "deleteAll", "deleteKeep"} /\ Begin(r, o, l, S)
        BY <3>1 DEF RemoveFiles, DeleteAlbum
      <4> QED
        BY <4>1 DEF Begin, Idle, SlotsInv
    <3>2. CASE ShareAlbum(r) \/ RevokeShare(r) \/ ViewAlbum(r)
      <4>1. PICK o, l, S : o \in {"share", "revoke", "view"} /\ Begin(r, o, l, S)
        BY <3>2 DEF ShareAlbum, RevokeShare, ViewAlbum
      <4> QED
        BY <4>1 DEF Begin, Idle, SlotsInv
    <3>3. CASE SwapFileOrder(r)
      BY <3>3 DEF SwapFileOrder, Idle, SlotsInv
    <3>4. CASE ProcessDelete(r)
      BY <3>4 DEF ProcessDelete, Idle, SlotsInv
    <3> QED
      BY <1>2, <3>1, <3>2, <3>3, <3>4
  <2> QED
    BY <1>st, <2>1, <2>2, NothingComesIn DEF Adding
<1> QED
  BY <1>1, <1>2 DEF Request

\* Every step keeps the limit until a race or an old model breaks it.
LEMMA LimitInvKept ==
  ASSUME Shape, LimitInv, [Next]_vars
  PROVE  LimitInv'
<1>0. SlotsInv /\ DataOK
  BY ShapeParts
<1>1. CASE \E r \in Requests : Request(r) \/ Continue(r)
  BY <1>0, <1>1, LimitRequest, LimitContinue
<1>2. CASE Expire \/ TimerFires \/ UNCHANGED vars
  <2>1. UNCHANGED <<row, premium, cause, req>>
    BY <1>2 DEF Expire, TimerFires, vars, database, history
  <2> QED
    BY <2>1 DEF LimitInv, Adding, In
<1> QED
  BY <1>1, <1>2 DEF Next

-----------------------------------------------------------------------------
(* Rows and files.                                                          *)

\* Who deletes files has deleted their rows, or their files, when it comes to the other.
DeletesInv ==
  \A r \in Requests :
    /\ req[r].op = "deleteAll" /\ req[r].pc = "unlink" =>
         \A f \in In(req[r].seen) \ torn : row[f] = Gone
    /\ req[r].pc = "drop" => req[r].of \cap disk = {}

FilesInv == RowsHaveFiles /\ DeletesInv

\* The files that a request is deleting.
Deletes(x) == IF x.pc \notin {"unlink", "drop"} THEN {}
              ELSE IF x.op = "deleteAll" THEN In(x.seen) ELSE x.of

\* A file is being deleted when some request deletes it ...
LEMMA DeletingMembers == \A f : f \in Deleting <=> \E r \in Requests : f \in Deletes(req[r])
BY DEF Deleting, Deletes, Unlinked

\* ... also after a step.
LEMMA DeletingMembersNext == \A f : f \in Deleting' <=> \E r \in Requests : f \in Deletes(req'[r])
BY DEF Deleting, Deletes, Unlinked, In

\* Who leaves rows and files alone, and deletes at least what it deleted, keeps that.
LEMMA NothingDeleted ==
  ASSUME FilesInv, UNCHANGED <<row, disk, torn>>,
         \A r \in Requests :
           \/ req'[r] = req[r]
           \/ /\ Deletes(req[r]) = {} /\ req'[r].pc # "drop"
              /\ req'[r].pc = "unlink" => req'[r].op # "deleteAll"
  PROVE  FilesInv'
<1>1. DeletesInv'
  BY DEF FilesInv, DeletesInv, In
<1>2. Deleting \subseteq Deleting'
  <2>1. SUFFICES ASSUME NEW f \in Deleting PROVE f \in Deleting'
    OBVIOUS
  <2>2. PICK r \in Requests : f \in Deletes(req[r])
    BY DeletingMembers
  <2>3. req'[r] = req[r]
    BY <2>2
  <2> QED
    BY <2>2, <2>3, DeletingMembersNext
<1>3. RowsHaveFiles'
  BY <1>2 DEF FilesInv, RowsHaveFiles
<1> QED
  BY <1>1, <1>3 DEF FilesInv

\* Who changes rows, and says which were parted, keeps that: all others may be deleting.
LEMMA RowsChange ==
  ASSUME FilesInv, UNCHANGED disk, torn \subseteq torn', NEW r \in Requests,
         \A q \in Requests : q # r => req'[q] = req[q],
         Deletes(req[r]) \subseteq Deletes(req'[r]) \cup torn', req'[r].pc # "drop",
         req'[r].op = "deleteAll" /\ req'[r].pc = "unlink" =>
           \A f \in In(req'[r].seen) \ torn' : row'[f] = Gone,
         \A f \in Files \ torn' :
           /\ row[f] = Gone => row'[f] = Gone
           /\ row'[f] = Gone => row[f] = Gone \/ f \in Deletes(req'[r])
  PROVE  FilesInv'
<1>1. DeletesInv'
  <2>1. SUFFICES ASSUME NEW q \in Requests
                 PROVE  /\ req'[q].op = "deleteAll" /\ req'[q].pc = "unlink" =>
                             \A f \in In(req'[q].seen) \ torn' : row'[f] = Gone
                        /\ req'[q].pc = "drop" => req'[q].of \cap disk' = {}
    BY DEF DeletesInv, In
  <2>2. CASE q = r
    BY <2>2
  <2>3. CASE q # r
    <3>1. In(req[q].seen) \subseteq Files
      BY DEF In
    <3> QED
      BY <2>3, <3>1 DEF FilesInv, DeletesInv
  <2> QED
    BY <2>2, <2>3
<1>2. RowsHaveFiles'
  <2>1. SUFFICES ASSUME NEW f \in Files, f \notin torn', f \notin Deleting'
                 PROVE  row'[f] # Gone <=> f \in disk'
    BY DEF RowsHaveFiles
  <2>2. \A q \in Requests : f \notin Deletes(req'[q])
    BY <2>1, DeletingMembersNext
  <2>3. f \notin Deletes(req[r]) /\ \A q \in Requests : q # r => f \notin Deletes(req[q])
    BY <2>1, <2>2
  <2>4. f \notin Deleting /\ f \notin torn
    BY <2>1, <2>3, DeletingMembers
  <2>5. row[f] # Gone <=> f \in disk
    BY <2>4 DEF FilesInv, RowsHaveFiles
  <2> QED
    BY <2>1, <2>2, <2>5
<1> QED
  BY <1>1, <1>2 DEF FilesInv

\* A request that begins touches no row and no file.
LEMMA FilesRequest ==
  ASSUME SlotsInv, FilesInv, NEW r \in Requests, Request(r)
  PROVE  FilesInv'
<1>1. /\ UNCHANGED <<row, disk, torn>> /\ req[r].pc = "idle"
      /\ \A q \in Requests : q # r => req'[q] = req[q]
  BY DEF Request, AssignFiles, RemoveFiles, SwapFileOrder, DeleteAlbum, ShareAlbum, RevokeShare,
     ViewAlbum, ProcessDelete, Begin, database, SlotsInv
<1>2. req'[r].pc # "drop" /\ (req'[r].pc = "unlink" => req'[r].op # "deleteAll")
  <2>1. \A o, l, S : Begin(r, o, l, S) => req'[r].pc = l
    BY DEF Begin, SlotsInv, Idle
  <2>2. CASE AssignFiles(r)
    <3>1. \E S : Begin(r, "assign", "order", S)
      BY <2>2 DEF AssignFiles
    <3> QED
      BY <2>1, <3>1
  <2>3. CASE RemoveFiles(r)
    <3>1. \E S : Begin(r, "remove", "reread", S)
      BY <2>3 DEF RemoveFiles
    <3> QED
      BY <2>1, <3>1
  <2>4. CASE DeleteAlbum(r)
    <3>1. \E o : Begin(r, o, "tx", {})
      BY <2>4 DEF DeleteAlbum
    <3> QED
      BY <2>1, <3>1
  <2>5. CASE ShareAlbum(r) \/ RevokeShare(r) \/ ViewAlbum(r)
    <3>1. \E o \in Ops, l \in {"share", "revoke", "list"} : Begin(r, o, l, {})
      BY <2>5 DEF Ops, ShareAlbum, RevokeShare, ViewAlbum
    <3> QED
      BY <2>1, <3>1
  <2>6. CASE SwapFileOrder(r)
    BY <2>6 DEF SwapFileOrder, Idle, SlotsInv
  <2>7. CASE ProcessDelete(r)
    BY <2>7 DEF ProcessDelete, Idle, SlotsInv
  <2> QED
    BY <2>2, <2>3, <2>4, <2>5, <2>6, <2>7 DEF Request
<1> QED
  BY <1>1, <1>2, NothingDeleted DEF Deletes

\* Who deletes rows is deleting the files, or parts them and says so, and the other way round.
LEMMA FilesContinue ==
  ASSUME DataOK, SlotsInv, FilesInv, NEW r \in Requests, Continue(r)
  PROVE  FilesInv'
<1>st. /\ req[r] \in Slots /\ Staged(req[r]) /\ req \in [Requests -> Slots]
       /\ row \in [Files -> Gone..MaxOrder] /\ req[r].seen \in Lists
  BY DEF SlotsInv, DataOK, Slots
<1>li. \A f \in Files : req[r].seen[f] # Gone
  <2>1. \A f \in Files : req[r].seen[f] \in Out..MaxOrder
    BY <1>st DEF Lists
  <2>2. \A n \in Out..MaxOrder : n # Gone
    BY AlbumAssumption DEF Out, Gone
  <2> QED
    BY <2>1, <2>2
<1>1. CASE SaveFiles(r)
  <2>0. Deletes(req[r]) = {}
    BY <1>1 DEF SaveFiles, Deletes
  <2>1. CASE ~exists
    BY <1>1, <1>st, <2>0, <2>1, NothingDeleted DEF SaveFiles, End, Idle
  <2>2. CASE exists
    <3>1. UNCHANGED disk /\ torn \subseteq torn' /\ req'[r].pc = "clear"
          /\ \A q \in Requests : q # r => req'[q] = req[q]
      BY <1>1, <1>st, <2>2 DEF SaveFiles, Goto, Slots
    <3>2. \A f \in Files \ torn' : row'[f] = Gone <=> row[f] = Gone
      BY <1>1, <1>li, <2>2 DEF SaveFiles
    <3> QED
      BY <2>0, <3>1, <3>2, RowsChange
  <2> QED
    BY <2>1, <2>2
<1>2. CASE SaveAlbum(r)
  <2>1. /\ UNCHANGED disk /\ torn \subseteq torn' /\ Deletes(req[r]) = {} /\ req'[r].pc = "idle"
        /\ \A q \in Requests : q # r => req'[q] = req[q]
    BY <1>2, <1>st DEF SaveAlbum, End, Idle, Deletes
  <2>2. \A f \in Files \ torn' : row'[f] = Gone <=> row[f] = Gone
    <3>1. SUFFICES ASSUME NEW f \in Files, f \notin torn'
                   PROVE  row'[f] = Gone <=> row[f] = Gone
      OBVIOUS
    <3>2. f \in In(req[r].seen) => row[f] # Gone
      BY <1>2, <3>1 DEF SaveAlbum
    <3>3. f \in Kept(r) => f \in In(req[r].seen)
      BY DEF Kept
    <3>4. row'[f] = IF f \in Kept(r) THEN req[r].seen[f]
                    ELSE IF f \in In(req[r].seen) \/ row[f] # Gone THEN Out ELSE Gone
      BY <1>2 DEF SaveAlbum
    <3> QED
      BY <1>li, <3>2, <3>3, <3>4 DEF Out, Gone
  <2> QED
    BY <2>1, <2>2, RowsChange
<1>3. CASE DeleteAlbumTx(r)
  <2>1. /\ UNCHANGED disk /\ torn \subseteq torn' /\ Deletes(req[r]) = {}
        /\ req'[r].pc = "unlink" /\ req'[r].op = "deleteAll" /\ req'[r].seen = req[r].seen
        /\ \A q \in Requests : q # r => req'[q] = req[q]
    BY <1>3, <1>st DEF DeleteAlbumTx, Goto, Deletes, Slots
  <2>2. Deletes(req'[r]) = In(req[r].seen)
    BY <2>1 DEF Deletes, In
  <2>3. \A f \in Files : row'[f] = IF row[f] > Out THEN Gone ELSE row[f]
    BY <1>3 DEF DeleteAlbumTx
  <2>4. \A f \in Files \ torn' : /\ f \in In(row) => f \in In(req[r].seen)
                                 /\ f \in In(req[r].seen) => row[f] # Out
    BY <1>3 DEF DeleteAlbumTx
  <2>5. \A f \in Files : row[f] > Out \/ row[f] = Out \/ row[f] = Gone
    BY <1>st, AlbumAssumption DEF Out, Gone
  <2>6. \A f \in In(req'[r].seen) \ torn' : row'[f] = Gone
    BY <2>1, <2>3, <2>4, <2>5 DEF In
  <2>7. \A f \in Files \ torn' : /\ row[f] = Gone => row'[f] = Gone
                                 /\ row'[f] = Gone => row[f] = Gone \/ f \in Deletes(req'[r])
    BY <2>2, <2>3, <2>4, <2>5 DEF In, Out, Gone
  <2> QED
    BY <2>1, <2>6, <2>7, RowsChange
<1>4. CASE DetachCommit(r)
  <2>1. /\ UNCHANGED disk /\ torn \subseteq torn' /\ Deletes(req[r]) = {} /\ req'[r].pc = "idle"
        /\ \A q \in Requests : q # r => req'[q] = req[q]
    BY <1>4, <1>st DEF DetachCommit, End, Idle, Deletes
  <2>2. \A f \in Files \ torn' : row'[f] = Gone <=> row[f] = Gone
    <3>1. \A f \in Files \ torn' : f \in In(row) => f \in In(req[r].seen)
      BY <1>4 DEF DetachCommit
    <3>2. \A f \in Files : row'[f] = IF row[f] <= Out THEN row[f]
                                     ELSE IF f \in In(req[r].seen) THEN Out ELSE Gone
      BY <1>4 DEF DetachCommit, Detached
    <3>3. \A f \in Files : row[f] <= Out \/ f \in In(row)
      BY <1>st, AlbumAssumption DEF In, Out, Gone
    <3> QED
      BY <3>1, <3>2, <3>3 DEF In, Out, Gone
  <2> QED
    BY <2>1, <2>2, RowsChange
<1>5. CASE DeleteFilesFromDisk(r)
  <2>1. /\ UNCHANGED <<row, torn>> /\ disk' = disk \ Deletes(req[r]) /\ disk' \subseteq disk
        /\ \A q \in Requests : q # r => req'[q] = req[q]
    BY <1>5, <1>st DEF DeleteFilesFromDisk, Deletes, Unlinked, End, Goto, database, history
  <2>2. \/ req'[r] = Idle /\ req[r].op = "deleteAll" /\ req[r].pc = "unlink"
        \/ req'[r].pc = "drop" /\ req'[r].op = "delete" /\ req[r].op = "delete"
           /\ req'[r].of = req[r].of /\ req[r].pc = "unlink"
    BY <1>5, <1>st DEF DeleteFilesFromDisk, End, Goto, Staged, Slots
  <2>3. DeletesInv'
    <3>1. SUFFICES ASSUME NEW q \in Requests
                   PROVE  /\ req'[q].op = "deleteAll" /\ req'[q].pc = "unlink" =>
                               \A f \in In(req'[q].seen) \ torn' : row'[f] = Gone
                          /\ req'[q].pc = "drop" => req'[q].of \cap disk' = {}
      BY DEF DeletesInv, In
    <3>2. CASE q # r
      BY <2>1, <3>2 DEF FilesInv, DeletesInv
    <3>3. CASE q = r
      BY <2>1, <2>2, <3>3 DEF Deletes, Idle
    <3> QED
      BY <3>2, <3>3
  <2>4. RowsHaveFiles'
    <3>1. SUFFICES ASSUME NEW f \in Files, f \notin torn', f \notin Deleting'
                   PROVE  row'[f] # Gone <=> f \in disk'
      BY DEF RowsHaveFiles
    <3>2. \A q \in Requests : f \notin Deletes(req'[q])
      BY <3>1, DeletingMembersNext
    <3>3. CASE f \in Deletes(req[r])
      <4>1. req[r].op = "deleteAll" /\ f \in In(req[r].seen) /\ req[r].pc = "unlink"
        BY <2>2, <3>2, <3>3 DEF Deletes
      <4>2. row[f] = Gone
        BY <2>1, <3>1, <4>1 DEF FilesInv, DeletesInv
      <4> QED
        BY <2>1, <3>3, <4>2
    <3>4. CASE f \notin Deletes(req[r])
      <4>1. f \notin Deleting
        BY <2>1, <3>2, <3>4, DeletingMembers
      <4> QED
        BY <2>1, <3>1, <3>4, <4>1 DEF FilesInv, RowsHaveFiles
    <3> QED
      BY <3>3, <3>4
  <2> QED
    BY <2>3, <2>4 DEF FilesInv
<1>6. CASE DeleteEntries(r)
  <2>1. /\ UNCHANGED <<disk, torn>> /\ req'[r] = Idle /\ Deletes(req[r]) = req[r].of
        /\ req[r].of \cap disk = {}
        /\ \A q \in Requests : q # r => req'[q] = req[q]
        /\ \A f \in Files : row'[f] = IF f \in req[r].of THEN Gone ELSE row[f]
    BY <1>6, <1>st DEF DeleteEntries, End, Deletes, Staged, history, FilesInv, DeletesInv
  <2>2. DeletesInv'
    <3>1. SUFFICES ASSUME NEW q \in Requests
                   PROVE  /\ req'[q].op = "deleteAll" /\ req'[q].pc = "unlink" =>
                               \A f \in In(req'[q].seen) \ torn' : row'[f] = Gone
                          /\ req'[q].pc = "drop" => req'[q].of \cap disk' = {}
      BY DEF DeletesInv, In
    <3>2. CASE q # r
      <4>1. In(req[q].seen) \subseteq Files
        BY DEF In
      <4> QED
        BY <2>1, <3>2, <4>1 DEF FilesInv, DeletesInv
    <3>3. CASE q = r
      BY <2>1, <3>3 DEF Idle
    <3> QED
      BY <3>2, <3>3
  <2>3. RowsHaveFiles'
    <3>1. SUFFICES ASSUME NEW f \in Files, f \notin torn', f \notin Deleting'
                   PROVE  row'[f] # Gone <=> f \in disk'
      BY DEF RowsHaveFiles
    <3>2. CASE f \in req[r].of
      BY <2>1, <3>2
    <3>3. CASE f \notin req[r].of
      <4>1. f \notin Deleting
        BY <2>1, <3>1, <3>3, DeletingMembers, DeletingMembersNext
      <4> QED
        BY <2>1, <3>1, <3>3, <4>1 DEF FilesInv, RowsHaveFiles
    <3> QED
      BY <3>2, <3>3
  <2> QED
    BY <2>2, <2>3 DEF FilesInv
<1>7. CASE \/ ClearCache(r) \/ AddFiles(r) \/ RereadAlbum(r) \/ GetEntriesByBucket(r) \/ FillCache(r)
           \/ ViewDone(r) \/ Renumber(r) \/ MoveFile(r) \/ NothingToDelete(r) \/ DetachFiles(r)
           \/ SetShared(r) \/ SetRevoked(r)
  <2>1. UNCHANGED <<row, disk, torn>> /\ Deletes(req[r]) = {}
    BY <1>7, <1>st DEF ClearCache, AddFiles, RereadAlbum, GetEntriesByBucket, FillCache, ViewDone,
       Renumber, MoveFile, NothingToDelete, DetachFiles, SetShared, SetRevoked,
       database, history, Deletes
  <2>2. (\A q \in Requests : q # r => req'[q] = req[q]) /\ req'[r].pc \notin {"unlink", "drop"}
    <3>1. CASE MoveFile(r)
      BY <3>1, MoveFileMoves DEF Idle
    <3>2. CASE ClearCache(r) \/ RereadAlbum(r) \/ ViewDone(r) \/ NothingToDelete(r)
      BY <1>st, <3>2 DEF ClearCache, RereadAlbum, ViewDone, NothingToDelete, End, Idle, Slots
    <3>3. CASE GetEntriesByBucket(r) \/ FillCache(r)
      BY <1>st, <3>3 DEF GetEntriesByBucket, FillCache, Goto, Slots
    <3>4. CASE AddFiles(r) \/ Renumber(r) \/ DetachFiles(r)
      BY <1>st, <3>4 DEF AddFiles, Renumber, DetachFiles, Slots
    <3>5. CASE SetShared(r) \/ SetRevoked(r)
      BY <1>st, <3>5 DEF SetShared, SetRevoked, End, Idle
    <3> QED
      BY <1>7, <3>1, <3>2, <3>3, <3>4, <3>5
  <2> QED
    BY <2>1, <2>2, NothingDeleted
<1> QED
  BY <1>1, <1>2, <1>3, <1>4, <1>5, <1>6, <1>7 DEF Continue

\* Every step keeps rows and files together but for what races parted.
LEMMA FilesInvKept ==
  ASSUME Shape, FilesInv, [Next]_vars
  PROVE  FilesInv'
<1>0. SlotsInv /\ DataOK
  BY ShapeParts
<1>1. CASE \E r \in Requests : Request(r) \/ Continue(r)
  BY <1>0, <1>1, FilesRequest, FilesContinue
<1>2. CASE Expire \/ TimerFires \/ UNCHANGED vars
  <2>1. UNCHANGED <<row, disk, torn, req>>
    BY <1>2 DEF Expire, TimerFires, vars, database, history
  <2> QED
    BY <2>1, NothingDeleted
<1> QED
  BY <1>1, <1>2 DEF Next

-----------------------------------------------------------------------------
(* The theorems.                                                            *)

\* The inductive invariant.
AlbumInv == Shape /\ UrlsInv /\ LimitInv /\ FilesInv

\* AlbumInv holds initially, and every step of every request keeps it.
THEOREM AlbumInvariant == Spec => []AlbumInv
<1>1. Init => AlbumInv
  <2>1. SUFFICES ASSUME Init PROVE UrlsInv /\ LimitInv /\ FilesInv
    BY ShapeInit DEF AlbumInv
  <2>2. \A r \in Requests : req[r] = Idle
    BY <2>1 DEF Init
  <2>3. UrlsInv
    BY <2>1, <2>2 DEF Init, UrlsInv, Idle, Publishing
  <2>4. LimitInv
    <3>1. In(row) = {} /\ Adding = {}
      BY <2>1, <2>2 DEF Init, In, Adding, Idle, Out
    <3>2. Cardinality({}) <= Limit
      BY FS_EmptySet, AlbumAssumption
    <3> QED
      BY <2>1, <2>2, <3>1, <3>2 DEF LimitInv, Idle
  <2>5. FilesInv
    BY <2>1, <2>2 DEF Init, FilesInv, RowsHaveFiles, DeletesInv, Idle, Out, Gone
  <2> QED
    BY <2>3, <2>4, <2>5
<1>2. AlbumInv /\ [Next]_vars => AlbumInv'
  BY ShapeKept, UrlsKept, LimitInvKept, FilesInvKept DEF AlbumInv
<1> QED
  BY <1>1, <1>2, PTL DEF Spec

\* TypeOK: places never pass what the rows can hold, public tokens none that was made, a request
\* that found an order among the files of a list has a place for each, and nothing is in an album
\* that has no row.
THEOREM TypeCorrect == Spec => []TypeOK
<1>1. AlbumInv => TypeOK
  BY DEF AlbumInv, Shape
<1> QED
  BY <1>1, AlbumInvariant, PTL

\* LimitKept: however many requests assign files at a time, an album passes its limit only when two of them
\* were checked before either was saved, or an old model brought a file back.
THEOREM LimitIsKept == Spec => []LimitKept
<1>1. AlbumInv => LimitKept
  BY DEF AlbumInv, LimitInv, LimitKept
<1> QED
  BY <1>1, AlbumInvariant, PTL

\* RowsHaveFiles: deleting files, albums and albums with their files parts no row from its file, but where a
\* race named in `torn` does.
THEOREM FilesOfRows == Spec => []RowsHaveFiles
<1>1. AlbumInv => RowsHaveFiles
  BY DEF AlbumInv, FilesInv
<1> QED
  BY <1>1, AlbumInvariant, PTL

\* UrlsAsTold: the public token is the one the client was told of last, unless writers of it overlapped.
THEOREM UrlsAreAsTold == Spec => []UrlsAsTold
<1>1. AlbumInv => UrlsAsTold
  BY DEF AlbumInv, UrlsInv, UrlsAsTold
<1> QED
  BY <1>1, AlbumInvariant, PTL

-----------------------------------------------------------------------------
(* The list that places make.                                               *)

Distinct(m) == \A f, g \in In(m) : m[f] = m[g] => f = g
Alike(m, k) == In(m) = In(k) /\ \A f, g \in In(m) : m[f] < m[g] <=> k[f] < k[g]

Rank(m, f) == Cardinality({g \in In(m) : m[g] <= m[f]})

\* The rank of a file is a number up to that of the files, and follows the places.
LEMMA RanksAre ==
  ASSUME NEW m \in [Files -> Gone..MaxOrder]
  PROVE  /\ \A f \in In(m) : Rank(m, f) \in 1..Cardinality(In(m))
         /\ \A f, g \in In(m) : m[f] < m[g] => Rank(m, f) < Rank(m, g)
<1> DEFINE B(f) == {g \in In(m) : m[g] <= m[f]}
<1>1. IsFiniteSet(In(m)) /\ In(m) \subseteq Files /\ Cardinality(In(m)) \in Nat
  BY InAList, FS_CardinalityType
<1>2. \A f \in Files : m[f] \in Int
  BY AlbumAssumption DEF Gone
<1>3. ASSUME NEW f \in In(m)
      PROVE  IsFiniteSet(B(f)) /\ Rank(m, f) \in 1..Cardinality(In(m)) /\ f \in B(f)
  <2>1. B(f) \in SUBSET In(m) /\ f \in B(f)
    BY <1>1, <1>2
  <2>2. IsFiniteSet(B(f)) /\ Cardinality(B(f)) <= Cardinality(In(m))
    BY <1>1, <2>1, FS_Subset
  <2>3. Cardinality(B(f)) \in Nat /\ Cardinality(B(f)) # 0
    BY <2>1, <2>2, FS_CardinalityType, FS_EmptySet
  <2> QED
    BY <1>1, <2>1, <2>2, <2>3 DEF Rank
<1>4. ASSUME NEW f \in In(m), NEW g \in In(m), m[f] < m[g]
      PROVE  Rank(m, f) < Rank(m, g)
  <2>1. B(f) \in SUBSET B(g) /\ g \in B(g) /\ g \notin B(f)
    BY <1>1, <1>2, <1>4
  <2>2. Cardinality(B(f)) <= Cardinality(B(g)) /\ Cardinality(B(f)) # Cardinality(B(g))
    BY <1>3, <2>1, FS_Subset
  <2> QED
    BY <1>1, <1>3, <2>2 DEF Rank
<1> QED
  BY <1>3, <1>4

\* In an arrangement of different places every file has the rank for its index.
LEMMA IndexIsRank ==
  ASSUME NEW m \in [Files -> Gone..MaxOrder], Distinct(m), NEW s \in Arrangements(m),
         NEW i \in 1..Cardinality(In(m))
  PROVE  Rank(m, s[i]) = i
<1> DEFINE n == Cardinality(In(m))
           B == {g \in In(m) : m[g] <= m[s[i]]}
           h == [j \in 1..i |-> s[j]]
<1>1. n \in Nat /\ In(m) \subseteq Files /\ \A f \in Files : m[f] \in Int
  BY InAList, FS_CardinalityType, AlbumAssumption DEF Gone
<1>2. s \in [1..n -> In(m)] /\ \A f \in In(m) : \E j \in 1..n : s[j] = f
  <2>1. s \in [1..n -> In(m)] /\ \A f \in In(m) : \E j \in DOMAIN s : s[j] = f
    BY PlacesOnce
  <2> QED
    BY <2>1
<1>3. \A j, k \in 1..n : j < k => m[s[j]] < m[s[k]]
  <2>1. \A j, k \in 1..n : j < k => s[j] # s[k] /\ m[s[j]] <= m[s[k]]
    BY <1>2 DEF Arrangements
  <2> QED
    BY <1>1, <1>2, <2>1 DEF Distinct
<1>4. \A j \in 1..n : s[j] \in B <=> j <= i
  BY <1>1, <1>2, <1>3
<1>5. h \in [1..i -> B] /\ \A f \in B : \E j \in 1..i : h[j] = f
  BY <1>1, <1>2, <1>4
<1>6. \A j, k \in 1..i : h[j] = h[k] => j = k
  BY <1>1, PlacesOnce
<1>7. h \in Bijection(1..i, B)
  BY <1>5, <1>6 DEF Bijection, Injection, IsInjective, Surjection
<1>8. IsFiniteSet(1..i) /\ Cardinality(1..i) = i
  BY <1>1, FS_Interval
<1>9. Cardinality(B) = i
  BY <1>7, <1>8, FS_Bijection DEF ExistsBijection
<1> QED
  BY <1>9 DEF Rank

\* So there is one arrangement: by rank.
LEMMA ShownIsArrangement ==
  ASSUME NEW m \in [Files -> Gone..MaxOrder], Distinct(m)
  PROVE  /\ Shown(m) \in Arrangements(m)
         /\ \A s \in Arrangements(m) : s = Shown(m)
<1> DEFINE n == Cardinality(In(m))
           rank == [f \in In(m) |-> Rank(m, f)]
           s0 == [i \in 1..n |-> CHOOSE f \in In(m) : Rank(m, f) = i]
<1>1. n \in Nat /\ IsFiniteSet(In(m)) /\ In(m) \subseteq Files /\ \A f \in Files : m[f] \in Int
  BY InAList, FS_CardinalityType, AlbumAssumption DEF Gone
<1>2. \A f, g \in In(m) : Rank(m, f) = Rank(m, g) => f = g
  <2>1. \A f, g \in In(m) : f # g => m[f] < m[g] \/ m[g] < m[f]
    BY <1>1 DEF Distinct
  <2>2. \A f, g \in In(m) : m[f] < m[g] => Rank(m, f) # Rank(m, g)
    BY <1>1, RanksAre
  <2> QED
    BY <2>1, <2>2
<1>3. rank \in Injection(In(m), 1..n)
  BY <1>2, RanksAre DEF Injection, IsInjective
<1>4. IsFiniteSet(1..n) /\ Cardinality(1..n) = n
  BY <1>1, FS_Interval
<1>5. rank \in Surjection(In(m), 1..n)
  BY <1>3, <1>4, FS_Injection
<1>6. \A i \in 1..n : \E f \in In(m) : Rank(m, f) = i
  BY <1>5 DEF Surjection
<1>7. \A i \in 1..n : s0[i] \in In(m) /\ Rank(m, s0[i]) = i
  BY <1>6
<1> HIDE DEF s0
<1>8. s0 \in Arrangements(m)
  <2>1. s0 \in [1..n -> In(m)] /\ DOMAIN s0 = 1..n
    BY <1>7 DEF s0
  <2>2. ASSUME NEW i \in 1..n, NEW j \in 1..n, i < j
        PROVE  s0[i] # s0[j] /\ m[s0[i]] <= m[s0[j]]
    <3>1. s0[i] # s0[j]
      BY <1>7, <2>2
    <3>2. ~(m[s0[j]] < m[s0[i]])
      BY <1>1, <1>7, <2>2, RanksAre
    <3> QED
      BY <1>1, <1>7, <3>1, <3>2
  <2> QED
    BY <2>1, <2>2 DEF Arrangements
<1>9. \A s \in Arrangements(m) : s = s0
  <2>1. TAKE s \in Arrangements(m)
  <2>2. s \in [1..n -> In(m)] /\ s0 \in [1..n -> In(m)]
    BY <1>8 DEF Arrangements
  <2>3. \A i \in 1..n : Rank(m, s[i]) = Rank(m, s0[i])
    BY <1>7, IndexIsRank
  <2>4. \A i \in 1..n : s[i] = s0[i]
    BY <1>2, <2>2, <2>3
  <2>5. s = [i \in 1..n |-> s[i]] /\ s0 = [i \in 1..n |-> s0[i]]
    BY <2>2
  <2> QED
    BY <2>4, <2>5
<1>10. Arrangements(m) = {s0}
  BY <1>8, <1>9
<1>11. Cardinality(Arrangements(m)) = 1
  BY <1>10, FS_Singleton
<1> QED
  BY <1>8, <1>9, <1>11 DEF Shown

\* The cardinality that AlbumList knows is that which is known here.
LEMMA SameCardinality == \A S : Promise!Cardinality(S) = Cardinality(S)
BY DEF Promise!Cardinality, Cardinality

\* What the list of different places has in it, and in which order.
LEMMA ShownIs ==
  ASSUME NEW m \in [Files -> Gone..MaxOrder], Distinct(m)
  PROVE  /\ Shown(m) \in [1..Cardinality(In(m)) -> In(m)]
         /\ Promise!Members(Shown(m)) = In(m) /\ Len(Shown(m)) = Cardinality(In(m))
         /\ \A f, g : Promise!Before(Shown(m), f, g) <=> f \in In(m) /\ g \in In(m) /\ m[f] < m[g]
<1> DEFINE n == Cardinality(In(m))
           s == Shown(m)
<1>1. n \in Nat /\ In(m) \subseteq Files /\ \A f \in Files : m[f] \in Int
  BY InAList, FS_CardinalityType, AlbumAssumption DEF Gone
<1>2. s \in Arrangements(m)
  BY ShownIsArrangement
<1> HIDE DEF s
<1>3. s \in [1..n -> In(m)] /\ DOMAIN s = 1..n /\ \A f \in In(m) : \E i \in 1..n : s[i] = f
  <2>1. s \in [1..n -> In(m)] /\ \A f \in In(m) : \E i \in DOMAIN s : s[i] = f
    BY <1>2, PlacesOnce
  <2> QED
    BY <2>1
<1>4. \A i, j \in 1..n : i < j => m[s[i]] < m[s[j]]
  <2>1. \A i, j \in 1..n : i < j => s[i] # s[j] /\ m[s[i]] <= m[s[j]]
    BY <1>2, <1>3 DEF Arrangements
  <2> QED
    BY <1>1, <1>3, <2>1 DEF Distinct
<1>5. Promise!Members(s) = In(m)
  BY <1>3 DEF Promise!Members
<1>6. Len(s) = n
  <2>1. s \in Seq(In(m))
    BY <1>1, <1>3, SeqDef
  <2>2. Len(s) \in Nat /\ DOMAIN s = 1..Len(s)
    BY <2>1, LenProperties
  <2>3. Cardinality(1..Len(s)) = Len(s) /\ Cardinality(1..n) = n
    <3>1. Cardinality(1..Len(s)) = IF 1 > Len(s) THEN 0 ELSE Len(s) - 1 + 1
      BY <2>2, FS_Interval
    <3>2. Cardinality(1..n) = IF 1 > n THEN 0 ELSE n - 1 + 1
      BY <1>1, FS_Interval
    <3> QED
      BY <1>1, <2>2, <3>1, <3>2
  <2> QED
    BY <1>3, <2>2, <2>3
<1>7. \A f, g : Promise!Before(s, f, g) => f \in In(m) /\ g \in In(m) /\ m[f] < m[g]
  BY <1>3, <1>4 DEF Promise!Before
<1>8. ASSUME NEW f \in In(m), NEW g \in In(m), m[f] < m[g]
      PROVE  Promise!Before(s, f, g)
  <2>1. PICK i \in 1..n, j \in 1..n : s[i] = f /\ s[j] = g
    BY <1>3
  <2>2. i < j
    BY <1>1, <1>4, <1>8, <2>1
  <2> QED
    BY <1>3, <2>1, <2>2 DEF Promise!Before
<1> QED
  BY <1>3, <1>5, <1>6, <1>7, <1>8 DEF s

\* Places in the same order make the same list.
LEMMA AlikeShown ==
  ASSUME NEW m \in [Files -> Gone..MaxOrder], NEW k \in [Files -> Gone..MaxOrder],
         Distinct(m), Alike(m, k)
  PROVE  Distinct(k) /\ Shown(k) = Shown(m)
<1>1. In(k) = In(m) /\ In(m) \subseteq Files
  BY InAList DEF Alike
<1>2. \A f \in Files : m[f] \in Int /\ k[f] \in Int
  BY AlbumAssumption DEF Gone
<1>3. \A f, g \in In(m) : m[f] <= m[g] <=> k[f] <= k[g]
  BY <1>1, <1>2 DEF Alike
<1>4. Distinct(k)
  BY <1>1, <1>2, <1>3 DEF Distinct
<1>5. Arrangements(k) = Arrangements(m)
  <2>1. \A s \in [1..Cardinality(In(m)) -> In(m)] : \A i, j \in DOMAIN s :
          m[s[i]] <= m[s[j]] <=> k[s[i]] <= k[s[j]]
    BY <1>3
  <2> QED
    BY <1>1, <2>1 DEF Arrangements
<1> QED
  BY <1>4, <1>5, ShownIsArrangement

-----------------------------------------------------------------------------
(* Steps of the list that is promised.                                      *)

Rows == [Files -> Gone..MaxOrder]

\* Files that get places after all others come to the end.
LEMMA Associates ==
  ASSUME row \in Rows, row' \in Rows, Distinct(row), Distinct(row'), NEW S \in SUBSET Files,
         In(row)' = In(row) \cup S,
         \A f, g \in In(row) \ S : row[f] < row[g] <=> row'[f] < row'[g],
         \A f \in In(row) \ S, g \in S : row'[f] < row'[g],
         \A f, g \in S : f < g => row'[f] < row'[g]
  PROVE  Promise!Associate(S)
<1>1. /\ Promise!Members(Shown(row)) = In(row)
      /\ \A f, g : Promise!Before(Shown(row), f, g) <=> f \in In(row) /\ g \in In(row) /\ row[f] < row[g]
  BY ShownIs DEF Rows
<1>2. /\ Promise!Members(Shown(row')) = In(row') /\ Len(Shown(row')) = Cardinality(In(row'))
      /\ \A f, g : Promise!Before(Shown(row'), f, g)
                     <=> f \in In(row') /\ g \in In(row') /\ row'[f] < row'[g]
  BY ShownIs DEF Rows
<1>3. Shown(row)' = Shown(row') /\ In(row)' = In(row')
  BY DEF Shown, Arrangements, In
<1> DEFINE s == Shown(row)
           t == Shown(row')
<1> HIDE DEF s, t
<1>4. /\ Promise!Members(t) = Promise!Members(s) \cup S
      /\ Len(t) = Cardinality(Promise!Members(t))
  BY <1>1, <1>2, <1>3 DEF s, t
<1>5. Promise!SameOrder(s, t, Promise!Members(s) \ S)
  BY <1>1, <1>2, <1>3 DEF Promise!SameOrder, s, t
<1>6. /\ \A f \in Promise!Members(s) \ S, g \in S : Promise!Before(t, f, g)
      /\ \A f, g \in S : f < g => Promise!Before(t, f, g)
  BY <1>1, <1>2, <1>3 DEF s, t
<1> QED
  BY <1>3, <1>4, <1>5, <1>6, SameCardinality DEF Promise!Associate, s, t

\* Files that lose their places leave it.
LEMMA Disassociates ==
  ASSUME row \in Rows, row' \in Rows, Distinct(row), Distinct(row'), NEW S \in SUBSET Files,
         In(row)' = In(row) \ S, \A f \in In(row)' : row'[f] = row[f]
  PROVE  Promise!Disassociate(S)
<1>1. /\ Promise!Members(Shown(row)) = In(row)
      /\ \A f, g : Promise!Before(Shown(row), f, g) <=> f \in In(row) /\ g \in In(row) /\ row[f] < row[g]
  BY ShownIs DEF Rows
<1>2. /\ Promise!Members(Shown(row')) = In(row') /\ Len(Shown(row')) = Cardinality(In(row'))
      /\ \A f, g : Promise!Before(Shown(row'), f, g)
                     <=> f \in In(row') /\ g \in In(row') /\ row'[f] < row'[g]
  BY ShownIs DEF Rows
<1>3. Shown(row)' = Shown(row') /\ In(row)' = In(row')
  BY DEF Shown, Arrangements, In
<1> DEFINE s == Shown(row)
           t == Shown(row')
<1> HIDE DEF s, t
<1>4. /\ Promise!Members(t) = Promise!Members(s) \ S
      /\ Len(t) = Cardinality(Promise!Members(t))
  BY <1>1, <1>2, <1>3 DEF s, t
<1>5. Promise!SameOrder(s, t, Promise!Members(t))
  BY <1>1, <1>2, <1>3 DEF Promise!SameOrder, s, t
<1> QED
  BY <1>3, <1>4, <1>5, SameCardinality DEF Promise!Disassociate, s, t

\* Where nothing has a place, nothing is shown.
LEMMA NothingShown ==
  ASSUME NEW m \in Rows, In(m) = {}
  PROVE  Distinct(m) /\ Shown(m) = <<>>
<1>1. Distinct(m)
  BY DEF Distinct
<1>2. Shown(m) \in Seq({}) /\ Len(Shown(m)) = 0
  <2>1. Shown(m) \in [1..0 -> {}] /\ Len(Shown(m)) = 0
    BY <1>1, ShownIs, FS_EmptySet DEF Rows
  <2> QED
    BY <2>1, SeqDef
<1> QED
  BY <1>1, <1>2, EmptySeq

\* Without files the list is empty.
LEMMA Empties ==
  ASSUME row' \in Rows, In(row)' = {}
  PROVE  Distinct(row') /\ Promise!Empty
<1>1. In(row') = {} /\ Shown(row)' = Shown(row')
  BY DEF Shown, Arrangements, In
<1> QED
  BY <1>1, NothingShown DEF Promise!Empty

\* Two files that change places do so in it.
LEMMA Swaps ==
  ASSUME row \in Rows, row' \in Rows, Distinct(row), NEW f \in In(row), NEW g \in In(row),
         row' = Swapped(row, f, g)
  PROVE  Distinct(row') /\ \E i, j \in DOMAIN Shown(row) : Promise!Swap(i, j)
<1> DEFINE n == Cardinality(In(row))
           s == Shown(row)
<1>1. n \in Nat /\ In(row) \subseteq Files /\ \A e \in Files : row[e] \in Int
  BY InAList, FS_CardinalityType, AlbumAssumption DEF Gone, Rows
<1>2. \A e \in Files : row'[e] = IF e = g THEN row[f] ELSE IF e = f THEN row[g] ELSE row[e]
  BY <1>1 DEF Swapped, Rows
<1>3. In(row') = In(row) /\ Shown(row)' = Shown(row')
  <2>1. In(row') = In(row)
    BY <1>1, <1>2 DEF In
  <2> QED
    BY <2>1 DEF Shown, Arrangements, In
<1>4. Distinct(row')
  BY <1>1, <1>2, <1>3 DEF Distinct
<1>5. /\ s \in [1..n -> In(row)] /\ \A e \in In(row) : \E i \in 1..n : s[i] = e
      /\ \A i, j \in 1..n : s[i] = s[j] => i = j
      /\ \A i, j \in 1..n : i < j => row[s[i]] <= row[s[j]]
  <2>1. s \in Arrangements(row)
    BY ShownIsArrangement DEF Rows
  <2> HIDE DEF s
  <2>2. /\ s \in [1..n -> In(row)] /\ \A e \in In(row) : \E i \in DOMAIN s : s[i] = e
        /\ \A i, j \in 1..n : s[i] = s[j] => i = j
    BY <2>1, PlacesOnce DEF Rows
  <2>3. \A i, j \in 1..n : i < j => row[s[i]] <= row[s[j]]
    BY <2>1, <2>2 DEF Arrangements
  <2> QED
    BY <2>2, <2>3
<1> HIDE DEF s
<1>6. PICK i \in 1..n, j \in 1..n : s[i] = f /\ s[j] = g
  BY <1>5
<1> DEFINE t == [s EXCEPT ![i] = s[j], ![j] = s[i]]
<1>7. t \in [1..n -> In(row)] /\ DOMAIN t = 1..n
      /\ \A k \in 1..n : t[k] = IF k = j THEN s[i] ELSE IF k = i THEN s[j] ELSE s[k]
  BY <1>5, <1>6
<1> HIDE DEF t
<1>8. \A k \in 1..n : row'[t[k]] = row[s[k]]
  BY <1>1, <1>2, <1>5, <1>6, <1>7
<1>9. \A k, l \in 1..n : k < l => t[k] # t[l]
  BY <1>1, <1>5, <1>6, <1>7
<1>10. t \in Arrangements(row')
  BY <1>3, <1>5, <1>7, <1>8, <1>9 DEF Arrangements
<1>11. t = Shown(row')
  BY <1>4, <1>10, ShownIsArrangement DEF Rows
<1> QED
  BY <1>3, <1>4, <1>5, <1>11 DEF Promise!Swap, s, t

-----------------------------------------------------------------------------
(* What the requests know of the list.                                      *)

\* Requests that may change the list.
Changing == Ops \ {"none", "view"}

\* What is read of the places m.
Reading(m) == [f \in Files |-> IF m[f] > Out THEN m[f] ELSE Out]

\* What a request has read, and what it will save, is of the places m.
Ready(m, x) ==
  /\ x.pc \in {"order", "reread", "saveAlbum"} \/ x.op = "delete" => x.of # {}
  /\ x.pc = "order" \/ (x.pc = "saveFiles" /\ x.op = "assign") => \A f \in x.of : m[f] # Gone
  /\ x.pc = "saveFiles" /\ x.op = "assign" =>
       \A f \in x.of : /\ \A g \in Files : m[g] < x.seen[f]
                       /\ \A g \in x.of : f < g => x.seen[f] < x.seen[g]
  /\ x.pc \in {"fill", "position"} /\ x.op = "swap" => x.seen = Reading(m)
  /\ x.pc \in {"saveAlbum", "commit"} => x.seen = Reading(m)
  /\ x.pc = "saveFiles" /\ x.op = "swap" =>
       \/ x.saves = In(m) /\ Alike(m, x.seen)
       \/ \E f, g \in In(m) : x.saves = {f, g} /\ x.seen = Swapped(Reading(m), f, g)

\* Until something excuses it, different files have different places, one request at a time may
\* change them, and what it has read they are.
ListInv ==
  "excused" \notin cause =>
    /\ Distinct(row)
    /\ \A q, r \in Requests : req[q].op \in Changing /\ req[r].op \in Changing => q = r
    /\ \A r \in Requests : Ready(row, req[r])

PromiseStep == [Promise!Next]_<<Shown(row), "excused" \in cause>>

\* Who does not change anything is ready.
LEMMA BystandersReady ==
  ASSUME NEW m, NEW x, Staged(x), x.op \notin Changing, x.op \in Ops
  PROVE  Ready(m, x)
BY DEF Staged, Ready, Changing, Ops

\* What was read has the files of the places, where they are.
LEMMA ReadingIs ==
  ASSUME NEW m \in Rows
  PROVE  /\ Reading(m) \in Rows /\ In(Reading(m)) = In(m)
         /\ \A f \in In(m) : Reading(m)[f] = m[f]
BY AlbumAssumption DEF Reading, Rows, In, Out, Gone

\* One request goes on or ends.
LEMMA OneMoves ==
  ASSUME SlotsInv', ListInv, "excused" \notin cause, NEW r \in Requests,
         \A q \in Requests : q # r => req'[q] = req[q],
         req'[r].op \in {req[r].op, "none"},
         row' = row \/ req[r].op \in Changing, Distinct(row'), Ready(row', req'[r])
  PROVE  ListInv'
<1>1. \A q \in Requests : req'[q].op \in Changing => req[q].op \in Changing
  BY DEF Changing
<1>2. ASSUME NEW q \in Requests, q # r
      PROVE  Ready(row', req'[q])
  <2>1. CASE req'[q].op \notin Changing
    <3>1. Staged(req[q])' /\ req'[q].op \in Ops
      BY DEF SlotsInv, Slots
    <3>2. Staged(req'[q])
      BY <3>1 DEF Staged
    <3> QED
      BY <2>1, <3>1, <3>2, BystandersReady
  <2>2. CASE req'[q].op \in Changing
    <3>1. req[q].op \in Changing /\ req'[q] = req[q]
      BY <1>1, <1>2, <2>2
    <3>2. row' = row
      BY <1>2, <3>1 DEF ListInv
    <3> QED
      BY <3>1, <3>2 DEF ListInv
  <2> QED
    BY <2>1, <2>2
<1>3. \A q, p \in Requests : req'[q].op \in Changing /\ req'[p].op \in Changing => q = p
  BY <1>1 DEF ListInv
<1>4. \A q \in Requests : Ready(row', req'[q])
  BY <1>2
<1>5. Distinct(row)' <=> Distinct(row')
  BY DEF Distinct, In
<1>6. ASSUME NEW q \in Requests PROVE Ready(row, req[q])' <=> Ready(row', req'[q])
  BY DEF Ready, Reading, In, Alike, Swapped
<1> QED
  BY <1>3, <1>4, <1>5, <1>6 DEF ListInv, Changing

\* A slot that is free is ready.
LEMMA IdleReady ==
  ASSUME NEW m PROVE Ready(m, Idle)
BY DEF Ready, Idle

\* Rows that stay make no step.
LEMMA RowsStay ==
  ASSUME row' = row, "excused" \in cause' <=> "excused" \in cause
  PROVE  PromiseStep
<1>1. Shown(row)' = Shown(row') /\ ("excused" \in cause)' = ("excused" \in cause)
  BY DEF Shown, Arrangements, In
<1> QED
  BY <1>1 DEF PromiseStep

\* Excuses are for ever, and allow every step.
LEMMA ExcusedSteps ==
  ASSUME "excused" \in cause'
  PROVE  ListInv' /\ PromiseStep
<1>1. ("excused" \in cause)'
  OBVIOUS
<1> QED
  BY <1>1 DEF ListInv, PromiseStep, Promise!Next

\* A request ends and leaves the rows.
LEMMA EndsList ==
  ASSUME SlotsInv, SlotsInv', ListInv, NEW r \in Requests, End(r), row' = row, cause' = cause
  PROVE  ListInv' /\ PromiseStep
<1>1. CASE "excused" \in cause
  BY <1>1, ExcusedSteps
<1>2. CASE "excused" \notin cause
  <2>1. req'[r] = Idle /\ \A q \in Requests : q # r => req'[q] = req[q]
    BY DEF End, SlotsInv
  <2>2. Distinct(row') /\ Ready(row', req'[r])
    BY <1>2, <2>1, IdleReady DEF ListInv
  <2>3. req'[r].op = "none"
    BY <2>1 DEF Idle
  <2> QED
    BY <1>2, <2>1, <2>2, <2>3, OneMoves, RowsStay
<1> QED
  BY <1>1, <1>2

\* A request goes on and leaves the rows.
LEMMA GoesOnList ==
  ASSUME SlotsInv, SlotsInv', ListInv, NEW r \in Requests, NEW x, req' = [req EXCEPT ![r] = x],
         x.op = req[r].op, row' = row, cause' = cause,
         "excused" \notin cause => Ready(row, x)
  PROVE  ListInv' /\ PromiseStep
<1>1. CASE "excused" \in cause
  BY <1>1, ExcusedSteps
<1>2. CASE "excused" \notin cause
  <2>1. req'[r] = x /\ \A q \in Requests : q # r => req'[q] = req[q]
    BY DEF SlotsInv
  <2>2. Distinct(row') /\ Ready(row', req'[r])
    BY <1>2, <2>1 DEF ListInv
  <2> QED
    BY <1>2, <2>1, <2>2, OneMoves, RowsStay
<1> QED
  BY <1>1, <1>2

\* A request changes the rows as the promise says.
LEMMA ChangesList ==
  ASSUME SlotsInv, SlotsInv', ListInv, NEW r \in Requests, req[r].op \in Changing,
         \A q \in Requests : q # r => req'[q] = req[q],
         req'[r].op \in {req[r].op, "none"}, cause \subseteq cause',
         "excused" \notin cause' =>
           /\ Distinct(row') /\ Ready(row', req'[r])
           /\ UNCHANGED Shown(row) \/ Promise!Empty \/ (\E i, j \in DOMAIN Shown(row) : Promise!Swap(i, j))
              \/ \E S \in (SUBSET Files) \ {{}} : Promise!Associate(S) \/ Promise!Disassociate(S)
  PROVE  ListInv' /\ PromiseStep
<1>1. CASE "excused" \in cause'
  BY <1>1, ExcusedSteps
<1>2. CASE "excused" \notin cause'
  <2>1. "excused" \notin cause /\ ("excused" \in cause)' = ("excused" \in cause)
    BY <1>2
  <2>2. ListInv'
    BY <1>2, <2>1, OneMoves
  <2>3. Promise!Next \/ UNCHANGED Shown(row)
    BY <1>2, <2>1 DEF Promise!Next
  <2> QED
    BY <2>1, <2>2, <2>3 DEF PromiseStep
<1> QED
  BY <1>1, <1>2

\* The files that were assigned have places after all others.
LEMMA AssignedList ==
  ASSUME DataOK, DataOK', SlotsInv, SlotsInv', ListInv, NEW r \in Requests,
         SaveFiles(r), exists, req[r].op = "assign"
  PROVE  ListInv' /\ PromiseStep
<1> DEFINE S == req[r].of
           p == req[r].seen
<1>1. /\ req[r] \in Slots /\ req[r].pc = "saveFiles" /\ req[r].saves = S /\ S \in SUBSET Files
      /\ p \in Lists /\ row \in Rows /\ row' \in Rows
  BY DEF SaveFiles, SlotsInv, Slots, Staged, DataOK, Rows
<1>2. /\ req' = [req EXCEPT ![r].pc = "clear"]
      /\ \A f \in Files : row'[f] = IF f \in S THEN p[f] ELSE row[f]
      /\ cause \subseteq cause'
  BY <1>1 DEF SaveFiles, Goto, Blame
<1>3. /\ req'[r].pc = "clear" /\ req'[r].op = "assign" 
      /\ \A q \in Requests : q # r => req'[q] = req[q]
  BY <1>1, <1>2 DEF SlotsInv, Slots
<1>4. Ready(row', req'[r])
  BY <1>3 DEF Ready
<1>5. ASSUME "excused" \notin cause'
      PROVE  Distinct(row') /\ (UNCHANGED Shown(row) \/ \E T \in (SUBSET Files) \ {{}} : Promise!Associate(T))
  <2>1. /\ Distinct(row) /\ \A f \in S : row[f] # Gone
        /\ \A f \in S : \A g \in Files : row[g] < p[f]
        /\ \A f, g \in S : f < g => p[f] < p[g]
    BY <1>1, <1>2, <1>5 DEF ListInv, Ready
  <2>2. /\ \A f \in Files : row[f] \in Int /\ row[f] >= -1 /\ row'[f] \in Int
        /\ \A f \in Files : p[f] \in Int
        /\ \A f \in Files : f \in Nat
    BY <1>1, AlbumAssumption DEF Rows, Gone, Lists, Out
  <2>3. In(row') = In(row) \cup S /\ In(row)' = In(row')
    BY <1>1, <1>2, <2>1, <2>2 DEF In, Out, Gone
  <2>4. \A f \in In(row) \ S : row'[f] = row[f]
    BY <1>2 DEF In
  <2>5. \A f \in In(row) \ S, g \in S : row'[f] < row'[g]
    BY <1>1, <1>2, <2>1, <2>4 DEF In
  <2>6. \A f, g \in S : f < g => row'[f] < row'[g]
    BY <1>1, <1>2, <2>1
  <2>7. Distinct(row')
    <3>1. SUFFICES ASSUME NEW f \in In(row'), NEW g \in In(row'), f # g PROVE row'[f] # row'[g]
      BY DEF Distinct
    <3>2. f \in Files /\ g \in Files /\ (f < g \/ g < f)
      BY <2>2, <3>1 DEF In
    <3>3. CASE f \in S /\ g \in S
      BY <2>2, <2>6, <3>2, <3>3
    <3>4. CASE f \notin S /\ g \notin S
      BY <2>1, <2>3, <2>4, <3>1, <3>4 DEF Distinct
    <3> QED
      BY <2>2, <2>3, <2>5, <3>1, <3>2, <3>3, <3>4
  <2>8. Promise!Associate(S)
    BY <1>1, <2>1, <2>3, <2>4, <2>5, <2>6, <2>7, Associates
  <2>9. S # {} \/ row' = row
    BY <1>1, <1>2 DEF Rows
  <2>10. row' = row => UNCHANGED Shown(row)
    BY DEF Shown, Arrangements, In
  <2> HIDE DEF S
  <2>11. CASE S # {}
    <3>1. S \in (SUBSET Files) \ {{}}
      BY <1>1, <2>11
    <3> QED
      BY <2>7, <2>8, <3>1
  <2>12. CASE S = {}
    BY <2>7, <2>9, <2>10, <2>12
  <2> QED
    BY <2>11, <2>12
<1> QED
  BY <1>2, <1>3, <1>4, <1>5, ChangesList DEF Changing, Ops

\* The files that were renumbered keep their order, the two that were swapped change places.
LEMMA SwappedList ==
  ASSUME DataOK, DataOK', SlotsInv, SlotsInv', ListInv, NEW r \in Requests,
         SaveFiles(r), exists, req[r].op = "swap"
  PROVE  ListInv' /\ PromiseStep
<1> DEFINE S == req[r].saves
           p == req[r].seen
<1>1. /\ req[r] \in Slots /\ req[r].pc = "saveFiles" /\ S \in SUBSET Files
      /\ p \in Lists /\ row \in Rows /\ row' \in Rows
  BY DEF SaveFiles, SlotsInv, Slots, DataOK, Rows
<1>2. /\ req' = [req EXCEPT ![r].pc = "clear"]
      /\ row' = [f \in Files |-> IF f \in S THEN p[f] ELSE row[f]]
      /\ cause \subseteq cause'
  BY <1>1 DEF SaveFiles, Goto, Blame
<1>3. /\ req'[r].pc = "clear" /\ req'[r].op = "swap" 
      /\ \A q \in Requests : q # r => req'[q] = req[q]
  BY <1>1, <1>2 DEF SlotsInv, Slots
<1>4. Ready(row', req'[r])
  BY <1>3 DEF Ready
<1>5. ASSUME "excused" \notin cause'
      PROVE  /\ Distinct(row')
             /\ UNCHANGED Shown(row) \/ \E i, j \in DOMAIN Shown(row) : Promise!Swap(i, j)
  <2>1. Distinct(row) /\ Ready(row, req[r])
    BY <1>2, <1>5 DEF ListInv
  <2>2. CASE S = In(row) /\ Alike(row, p)
    <3>1. In(row) = In(p) /\ \A f \in In(row) : row'[f] = p[f]
      BY <1>1, <1>2, <2>2 DEF Alike
    <3>2. \A f \in Files \ In(row) : row'[f] = row[f]
      BY <1>2, <2>2
    <3>3. In(row') = In(row)
      BY <3>1, <3>2 DEF In
    <3>4. Alike(row, row')
      BY <2>2, <3>1, <3>3 DEF Alike
    <3>5. Distinct(row') /\ Shown(row') = Shown(row)
      BY <1>1, <2>1, <3>4, AlikeShown DEF Rows
    <3>6. Shown(row)' = Shown(row')
      BY DEF Shown, Arrangements, In
    <3> QED
      BY <3>5, <3>6
  <2>3. CASE \E f, g \in In(row) : S = {f, g} /\ p = Swapped(Reading(row), f, g)
    <3>1. PICK f \in In(row), g \in In(row) : S = {f, g} /\ p = Swapped(Reading(row), f, g)
      BY <2>3
    <3>2. f \in Files /\ g \in Files /\ Reading(row) \in Rows
          /\ Reading(row)[f] = row[f] /\ Reading(row)[g] = row[g]
      BY <1>1, ReadingIs DEF In
    <3>3. p[f] = row[g] /\ p[g] = row[f]
      BY <3>1, <3>2 DEF Swapped, Rows
    <3>4. row' = Swapped(row, f, g)
      BY <1>1, <1>2, <3>1, <3>2, <3>3 DEF Swapped, Rows
    <3> QED
      BY <1>1, <2>1, <3>4, Swaps
  <2> QED
    BY <1>1, <2>1, <2>2, <2>3 DEF Ready
<1> QED
  BY <1>2, <1>3, <1>4, <1>5, ChangesList DEF Changing, Ops

\* Files are saved, or the album is gone.
LEMMA SaveFilesList ==
  ASSUME DataOK, DataOK', SlotsInv, SlotsInv', ListInv, NEW r \in Requests, SaveFiles(r)
  PROVE  ListInv' /\ PromiseStep
<1>1. CASE exists
  <2>1. req[r].op \in {"assign", "swap"}
    BY DEF SaveFiles, SlotsInv, Staged
  <2> QED
    BY <1>1, <2>1, AssignedList, SwappedList
<1>2. CASE ~exists
  BY <1>2, EndsList DEF SaveFiles
<1> QED
  BY <1>1, <1>2

\* The files that are assigned get places after all others, by their ids.
LEMMA AddFilesList ==
  ASSUME DataOK, SlotsInv, SlotsInv', ListInv, NEW r \in Requests, AddFiles(r)
  PROVE  ListInv' /\ PromiseStep
<1> DEFINE S == req[r].of
           R(f) == Cardinality({g \in S : g < f})
           p == [f \in Files |-> IF f \in S THEN GetNextAlbumValue + R(f) ELSE Out]
           x == [req[r] EXCEPT !.pc = "saveFiles", !.saves = S, !.seen = p]
<1>1. /\ req' = [req EXCEPT ![r] = x] /\ req[r].pc = "order" /\ row' = row /\ cause' = cause
      /\ req[r] \in Slots /\ S \in SUBSET Files /\ req[r].op = "assign"
  BY DEF AddFiles, database, history, SlotsInv, Slots, Staged
<1>2. MaxPlace \in 0..MaxOrder /\ \A f \in Files : row[f] <= MaxPlace
  BY MaxPlaceIsPlace DEF DataOK
<1>3. ASSUME NEW f \in S, NEW g \in S, f < g
      PROVE  R(f) < R(g)
  <2>1. f \in Nat /\ g \in Nat /\ \A h \in S : h \in Nat
    BY <1>1, AlbumAssumption
  <2>2. {h \in S : h < f} \in SUBSET {h \in S : h < g} /\ f \in {h \in S : h < g}
        /\ f \notin {h \in S : h < f}
    BY <1>3, <2>1
  <2>3. IsFiniteSet({h \in S : h < g}) /\ IsFiniteSet({h \in S : h < f})
    BY <1>1, FS_Subset, AlbumAssumption
  <2> QED
    BY <2>2, <2>3, FS_Subset, FS_CardinalityType
<1>4. \A f \in S : R(f) \in Nat
  BY <1>1, RankFits, FS_Subset, FS_CardinalityType, AlbumAssumption
<1> HIDE DEF R
<1>5. \A f \in S : (\A g \in Files : row[g] < p[f]) /\ \A g \in S : f < g => p[f] < p[g]
  BY <1>1, <1>2, <1>3, <1>4, AlbumAssumption DEF GetNextAlbumValue, DataOK, Gone
<1> HIDE DEF p, S
<1>6. x.op = req[r].op /\ x.pc = "saveFiles" /\ x.op = "assign" /\ x.of = S /\ x.seen = p
  BY <1>1 DEF Slots, S
<1>7. "excused" \notin cause => \A f \in S : row[f] # Gone
  BY <1>1 DEF ListInv, Ready, S
<1>8. "excused" \notin cause => Ready(row, x)
  BY <1>5, <1>6, <1>7 DEF Ready
<1> QED
  BY <1>1, <1>6, <1>8, GoesOnList

\* What is cached goes.
LEMMA ClearCacheList ==
  ASSUME SlotsInv, SlotsInv', ListInv, NEW r \in Requests, ClearCache(r)
  PROVE  ListInv' /\ PromiseStep
<1> DEFINE x == [req[r] EXCEPT !.pc = "list", !.pass = 2]
<1>1. req[r] \in Slots /\ req[r].pc = "clear" /\ row' = row /\ cause' = cause
  BY DEF ClearCache, SlotsInv, database, history
<1>2. CASE req' = [req EXCEPT ![r] = x] /\ req[r].op = "swap"
  <2>1. x.op = "swap" /\ x.pc = "list"
    BY <1>1, <1>2 DEF Slots
  <2>2. Ready(row, x)
    BY <2>1 DEF Ready
  <2> QED
    BY <1>1, <1>2, <2>1, <2>2, GoesOnList
<1>3. CASE End(r)
  BY <1>1, <1>3, EndsList
<1> QED
  BY <1>2, <1>3 DEF ClearCache

\* The album is read once more.
LEMMA RereadAlbumList ==
  ASSUME SlotsInv, SlotsInv', ListInv, NEW r \in Requests, RereadAlbum(r)
  PROVE  ListInv' /\ PromiseStep
<1> DEFINE x == [req[r] EXCEPT !.pc = "saveAlbum", !.seen = Listed, !.pub = pub]
<1>1. /\ req[r] \in Slots /\ req[r].pc = "reread" /\ req[r].op = "remove"
      /\ row' = row /\ cause' = cause
  BY DEF RereadAlbum, SlotsInv, Staged, database, history
<1>2. CASE req' = [req EXCEPT ![r] = x]
  <2>1. x.op = "remove" /\ x.pc = "saveAlbum" /\ x.of = req[r].of /\ x.seen = Reading(row)
    BY <1>1 DEF Slots, Listed, Reading
  <2>2. "excused" \notin cause => Ready(row, x)
    BY <1>1, <2>1 DEF ListInv, Ready
  <2> QED
    BY <1>1, <1>2, <2>1, <2>2, GoesOnList
<1>3. CASE End(r)
  BY <1>1, <1>3, EndsList
<1> QED
  BY <1>2, <1>3 DEF RereadAlbum

\* The list is read from the table.
LEMMA DetachFilesList ==
  ASSUME SlotsInv, SlotsInv', ListInv, NEW r \in Requests, DetachFiles(r)
  PROVE  ListInv' /\ PromiseStep
<1> DEFINE x == [req[r] EXCEPT !.pc = "commit", !.seen = Listed]
<1>1. /\ req[r] \in Slots /\ req[r].op = "deleteKeep"
      /\ row' = row /\ cause' = cause /\ req' = [req EXCEPT ![r] = x]
  BY DEF DetachFiles, SlotsInv, database, history
<1>2. x.op = "deleteKeep" /\ x.pc = "commit" /\ x.seen = Reading(row)
  BY <1>1 DEF Slots, Listed, Reading
<1>3. Ready(row, x)
  BY <1>2 DEF Ready
<1> QED
  BY <1>1, <1>2, <1>3, GoesOnList

\* The list is found in the cache or read from the table.
LEMMA GetEntriesByBucketList ==
  ASSUME DataOK, SlotsInv, SlotsInv', ListInv, NEW r \in Requests, GetEntriesByBucket(r)
  PROVE  ListInv' /\ PromiseStep
<1>1. /\ req[r] \in Slots /\ req[r].pc = "list" /\ row' = row
      /\ req[r].op \in {"swap", "view"}
  BY DEF GetEntriesByBucket, SlotsInv, Staged, database
<1>2. ASSUME NEW m \in copy, req' = [req EXCEPT ![r].pc = "position", ![r].seen = m],
             Blame(IF Listed \in copy \/ req[r].op = "view" THEN {} ELSE {"excused"})
      PROVE  ListInv' /\ PromiseStep
  <2> DEFINE x == [req[r] EXCEPT !.pc = "position", !.seen = m]
  <2>1. CASE Listed \in copy \/ req[r].op = "view"
    <3>1. cause' = cause
      BY <1>2, <2>1 DEF Blame
    <3>2. x.op = req[r].op /\ x.pc = "position" /\ x.seen = m
      BY <1>1 DEF Slots
    <3>3. req[r].op = "swap" => m = Reading(row)
      BY <1>2, <2>1 DEF DataOK, Listed, Reading
    <3>4. Ready(row, x)
      BY <1>1, <3>2, <3>3 DEF Ready
    <3>5. req' = [req EXCEPT ![r] = x]
      BY <1>2
    <3> QED
      BY <1>1, <3>1, <3>2, <3>4, <3>5, GoesOnList
  <2>2. CASE ~(Listed \in copy \/ req[r].op = "view")
    BY <1>2, <2>2, ExcusedSteps DEF Blame
  <2> QED
    BY <2>1, <2>2
<1>3. CASE req' = [req EXCEPT ![r].pc = "fill", ![r].seen = Listed] /\ UNCHANGED cause
  <2> DEFINE x == [req[r] EXCEPT !.pc = "fill", !.seen = Listed]
  <2>1. x.op = req[r].op /\ x.pc = "fill" /\ x.seen = Reading(row)
    BY <1>1 DEF Slots, Listed, Reading
  <2>2. Ready(row, x)
    BY <1>1, <2>1 DEF Ready
  <2>3. req' = [req EXCEPT ![r] = x]
    BY <1>3
  <2> QED
    BY <1>1, <1>3, <2>1, <2>2, <2>3, GoesOnList
<1> QED
  BY <1>2, <1>3 DEF GetEntriesByBucket

\* What was read goes into the cache.
LEMMA FillCacheList ==
  ASSUME SlotsInv, SlotsInv', ListInv, NEW r \in Requests, FillCache(r)
  PROVE  ListInv' /\ PromiseStep
<1> DEFINE x == [req[r] EXCEPT !.pc = "position"]
<1>1. /\ req[r] \in Slots /\ req[r].pc = "fill" /\ req' = [req EXCEPT ![r] = x]
      /\ row' = row /\ cause' = cause /\ req[r].op \in {"swap", "view"}
  BY DEF FillCache, Goto, SlotsInv, Staged, database, history
<1>2. x.op = req[r].op /\ x.pc = "position" /\ x.seen = req[r].seen
  BY <1>1 DEF Slots
<1>3. "excused" \notin cause => Ready(row, x)
  BY <1>1, <1>2 DEF ListInv, Ready
<1> QED
  BY <1>1, <1>2, <1>3, GoesOnList

\* The files that were to be removed leave the list.
LEMMA SaveAlbumList ==
  ASSUME DataOK, DataOK', SlotsInv, SlotsInv', ListInv, NEW r \in Requests, SaveAlbum(r)
  PROVE  ListInv' /\ PromiseStep
<1> DEFINE S == req[r].of
           p == req[r].seen
<1>1. /\ req[r] \in Slots /\ req[r].pc = "saveAlbum" /\ req[r].op = "remove" /\ S \in SUBSET Files
      /\ row \in Rows /\ row' \in Rows /\ req' = [req EXCEPT ![r] = Idle] /\ cause \subseteq cause'
  BY DEF SaveAlbum, End, Blame, SlotsInv, Slots, Staged, DataOK, Rows
<1>2. /\ req'[r] = Idle /\ req'[r].op = "none"
      /\ \A q \in Requests : q # r => req'[q] = req[q]
  BY <1>1 DEF SlotsInv, Idle
<1>3. Ready(row', req'[r])
  BY <1>2, IdleReady
<1>4. ASSUME "excused" \notin cause'
      PROVE  Distinct(row') /\ \E T \in (SUBSET Files) \ {{}} : Promise!Disassociate(T)
  <2>1. Distinct(row) /\ S # {} /\ p = Reading(row)
    BY <1>1, <1>4 DEF ListInv, Ready
  <2>2. In(p) = In(row) /\ \A f \in In(row) : p[f] = row[f]
    BY <1>1, <2>1, ReadingIs
  <2>3. Kept(r) = In(row) \ S
    BY <2>2 DEF Kept
  <2>4. row' = [f \in Files |-> IF f \in In(row) \ S THEN p[f]
                                ELSE IF f \in In(row) \/ row[f] # Gone THEN Out ELSE Gone]
    BY <2>2, <2>3 DEF SaveAlbum
  <2>5. In(row') = In(row) \ S /\ \A f \in In(row) \ S : row'[f] = row[f]
    BY <1>1, <2>2, <2>4 DEF In, Out, Gone
  <2>6. Distinct(row')
    BY <2>1, <2>5 DEF Distinct
  <2>7. In(row)' = In(row')
    BY DEF In
  <2>8. Promise!Disassociate(S)
    BY <1>1, <2>1, <2>5, <2>6, <2>7, Disassociates
  <2> HIDE DEF S
  <2> QED
    BY <1>1, <2>1, <2>6, <2>8
<1> QED
  BY <1>1, <1>2, <1>3, <1>4, ChangesList DEF Changing, Ops

\* A file that is deleted leaves it.
LEMMA DeleteEntriesList ==
  ASSUME DataOK, DataOK', SlotsInv, SlotsInv', ListInv, NEW r \in Requests, DeleteEntries(r)
  PROVE  ListInv' /\ PromiseStep
<1> DEFINE S == req[r].of
<1>1. /\ req[r] \in Slots /\ req[r].pc = "drop" /\ req[r].op = "delete" /\ S \in SUBSET Files
      /\ row \in Rows /\ row' \in Rows /\ req' = [req EXCEPT ![r] = Idle] /\ cause' = cause
      /\ row' = [f \in Files |-> IF f \in S THEN Gone ELSE row[f]]
  BY DEF DeleteEntries, End, history, SlotsInv, Slots, Staged, DataOK, Rows
<1>2. /\ req'[r] = Idle /\ req'[r].op = "none"
      /\ \A q \in Requests : q # r => req'[q] = req[q]
  BY <1>1 DEF SlotsInv, Idle
<1>3. Ready(row', req'[r])
  BY <1>2, IdleReady
<1>4. ASSUME "excused" \notin cause'
      PROVE  Distinct(row') /\ \E T \in (SUBSET Files) \ {{}} : Promise!Disassociate(T)
  <2>1. Distinct(row) /\ S # {}
    BY <1>1, <1>4 DEF ListInv, Ready
  <2>2. In(row') = In(row) \ S /\ \A f \in In(row) \ S : row'[f] = row[f]
    BY <1>1 DEF In, Out, Gone
  <2>3. Distinct(row')
    BY <2>1, <2>2 DEF Distinct
  <2>4. In(row)' = In(row')
    BY DEF In
  <2>5. Promise!Disassociate(S)
    BY <1>1, <2>1, <2>2, <2>3, <2>4, Disassociates
  <2> HIDE DEF S
  <2> QED
    BY <1>1, <2>1, <2>3, <2>5
<1> QED
  BY <1>1, <1>2, <1>3, <1>4, ChangesList DEF Changing, Ops

\* With the album its list is empty.
LEMMA AlbumGoesList ==
  ASSUME DataOK, DataOK', SlotsInv, SlotsInv', ListInv, NEW r \in Requests,
         DeleteAlbumTx(r) \/ DetachCommit(r)
  PROVE  ListInv' /\ PromiseStep
<1>1. /\ req[r] \in Slots /\ req[r].op \in {"deleteAll", "deleteKeep"} /\ row' \in Rows
      /\ cause' = cause
      /\ \A f \in Files : row'[f] <= Out
  BY DEF DeleteAlbumTx, DetachCommit, SlotsInv, Slots, Staged, DataOK, Rows, AlbumGoes
<1>2. In(row)' = {}
  <2>1. \A f \in Files : row'[f] \in Int /\ row'[f] <= 0
    BY <1>1, AlbumAssumption DEF Rows, Out, Gone
  <2> QED
    BY <2>1 DEF In, Out
<1>3. Distinct(row') /\ Promise!Empty
  BY <1>1, <1>2, Empties
<1>4. /\ Ready(row', req'[r]) /\ req'[r].op \in {req[r].op, "none"}
      /\ \A q \in Requests : q # r => req'[q] = req[q]
  <2>1. CASE DeleteAlbumTx(r)
    <3>1. req'[r].pc = "unlink" /\ req'[r].op = "deleteAll" /\ req[r].op = "deleteAll"
          /\ \A q \in Requests : q # r => req'[q] = req[q]
      BY <1>1, <2>1 DEF DeleteAlbumTx, Goto, SlotsInv, Slots
    <3>2. Ready(row', req'[r])
      BY <3>1 DEF Ready
    <3> QED
      BY <3>1, <3>2
  <2>2. CASE DetachCommit(r)
    <3>1. req'[r] = Idle /\ \A q \in Requests : q # r => req'[q] = req[q]
      BY <2>2 DEF DetachCommit, End, SlotsInv
    <3> QED
      BY <3>1, IdleReady DEF Idle
  <2> QED
    BY <2>1, <2>2
<1> QED
  BY <1>1, <1>3, <1>4, ChangesList DEF Changing, Ops

\* The file of an entry is deleted before its row.
LEMMA DeleteFilesFromDiskList ==
  ASSUME SlotsInv, SlotsInv', ListInv, NEW r \in Requests, DeleteFilesFromDisk(r)
  PROVE  ListInv' /\ PromiseStep
<1> DEFINE x == [req[r] EXCEPT !.pc = "drop"]
<1>1. req[r] \in Slots /\ row' = row /\ cause' = cause
  BY DEF DeleteFilesFromDisk, SlotsInv, database, history
<1>2. CASE req[r].op = "delete" /\ Goto(r, "drop")
  <2>1. x.op = "delete" /\ x.pc = "drop" /\ x.of = req[r].of /\ req' = [req EXCEPT ![r] = x]
    BY <1>1, <1>2 DEF Slots, Goto
  <2>2. "excused" \notin cause => Ready(row, x)
    BY <1>2, <2>1 DEF ListInv, Ready
  <2> QED
    BY <1>1, <1>2, <2>1, <2>2, GoesOnList
<1>3. CASE End(r)
  BY <1>1, <1>3, EndsList
<1> QED
  BY <1>2, <1>3 DEF DeleteFilesFromDisk

\* The indices of an arrangement are places in the same order.
LEMMA Renumbers ==
  ASSUME NEW m \in Rows, Distinct(m), NEW k \in Rows, Alike(m, k), NEW s \in Arrangements(k), NEW p,
         \A f \in In(k) : p[f] = CHOOSE i \in DOMAIN s : s[i] = f,
         \A f \in Files : f \notin In(k) => p[f] = Out
  PROVE  In(p) = In(m) /\ Alike(m, p)
<1> DEFINE n == Cardinality(In(k))
<1>1. Rows = [Files -> Gone..MaxOrder] /\ In(m) = In(k) /\ In(k) \subseteq Files /\ n \in Nat
  BY InAList, FS_CardinalityType DEF Rows, Alike
<1>2. /\ s \in [1..n -> In(k)]
      /\ \A f \in In(k) : \E i \in 1..n : s[i] = f
      /\ \A i, j \in 1..n : s[i] = s[j] => i = j
  <2>1. /\ s \in [1..n -> In(k)]
        /\ \A f \in In(k) : \E i \in DOMAIN s : s[i] = f
        /\ \A i, j \in 1..n : s[i] = s[j] => i = j
    BY <1>1, PlacesOnce
  <2> QED
    BY <2>1
<1>3. \A i, j \in 1..n : i < j => k[s[i]] <= k[s[j]]
  BY <1>2 DEF Arrangements
<1>4. \A f \in In(k) : p[f] \in 1..n /\ s[p[f]] = f
  <2>1. SUFFICES ASSUME NEW f \in In(k) PROVE p[f] \in 1..n /\ s[p[f]] = f
    OBVIOUS
  <2>2. p[f] = CHOOSE i \in DOMAIN s : s[i] = f
    OBVIOUS
  <2>3. DOMAIN s = 1..n /\ \E i \in DOMAIN s : s[i] = f
    BY <1>2
  <2>4. p[f] \in DOMAIN s /\ s[p[f]] = f
    BY ONLY <2>2, <2>3, Zenon
  <2> QED
    BY <2>3, <2>4
<1>5. In(p) = In(k)
  <2>1. \A f \in In(k) : p[f] > Out
    <3>1. \A f \in In(k) : p[f] \in 1..n
      BY <1>4
    <3> HIDE DEF n
    <3> QED
      BY <1>1, <3>1 DEF Out
  <2>2. \A f \in Files : f \notin In(k) => ~(p[f] > Out)
    BY DEF Out
  <2> QED
    BY <1>1, <2>1, <2>2 DEF In
<1>6. \A f \in In(k) : k[f] \in Int
  <2>1. k \in [Files -> Gone..MaxOrder]
    BY DEF Rows
  <2>2. \A f \in Files : k[f] \in Int
    BY <2>1, AlbumAssumption DEF Gone
  <2> QED
    BY <1>1, <2>2
<1>7. ASSUME NEW f \in In(k), NEW g \in In(k)
      PROVE  k[f] < k[g] <=> p[f] < p[g]
  <2>1. p[f] \in 1..n /\ p[g] \in 1..n /\ s[p[f]] = f /\ s[p[g]] = g /\ k[f] \in Int /\ k[g] \in Int
    BY <1>4, <1>6
  <2>2. k[f] = k[g] => f = g
    <3>1. Distinct(k)
      BY <1>1, AlikeShown
    <3> QED
      BY <3>1 DEF Distinct
  <2>3. p[f] < p[g] => k[f] <= k[g] /\ f # g
    <3>1. p[f] < p[g] => k[s[p[f]]] <= k[s[p[g]]]
      BY <1>3, <2>1
    <3>2. p[f] < p[g] => p[f] # p[g]
      BY <1>1, <2>1
    <3> QED
      BY <2>1, <3>1, <3>2
  <2>4. p[g] < p[f] => k[g] <= k[f]
    BY <1>1, <1>3, <2>1
  <2> HIDE DEF n
  <2>5. p[f] \in Int /\ p[g] \in Int /\ (p[f] = p[g] => f = g)
    BY <1>1, <2>1 DEF n
  <2> QED
    BY <2>1, <2>2, <2>3, <2>4, <2>5
<1> QED
  BY <1>1, <1>5, <1>7 DEF Alike

\* The places are made 1, 2, ...
LEMMA RenumberList ==
  ASSUME DataOK, SlotsInv, SlotsInv', ListInv, NEW r \in Requests, Renumber(r)
  PROVE  ListInv' /\ PromiseStep
<1> DEFINE k == req[r].seen
<1>1. PICK s \in Arrangements(k) :
        req' = [req EXCEPT ![r].pc = "saveFiles", ![r].saves = In(k),
                  ![r].seen = [f \in Files |-> IF f \in In(k) THEN CHOOSE i \in DOMAIN s : s[i] = f
                                               ELSE Out]]
  BY DEF Renumber
<1> DEFINE p == [f \in Files |-> IF f \in In(k) THEN CHOOSE i \in DOMAIN s : s[i] = f ELSE Out]
           x == [req[r] EXCEPT !.pc = "saveFiles", !.saves = In(k), !.seen = p]
<1>2. /\ req[r] \in Slots /\ req[r].pc = "position" /\ req[r].op = "swap"
      /\ row' = row /\ cause' = cause /\ row \in Rows /\ req' = [req EXCEPT ![r] = x]
  BY <1>1 DEF Renumber, SlotsInv, database, history, DataOK, Rows
<1>3. x.op = "swap" /\ x.pc = "saveFiles" /\ x.saves = In(k) /\ x.seen = p
  BY <1>2 DEF Slots
<1>4. ASSUME "excused" \notin cause
      PROVE  In(k) = In(row) /\ Alike(row, p)
  <2>1. Distinct(row) /\ k = Reading(row)
    BY <1>2, <1>4 DEF ListInv, Ready
  <2>2. k \in Rows /\ In(k) = In(row) /\ \A f \in In(row) : k[f] = row[f]
    BY <1>2, <2>1, ReadingIs
  <2>3. Alike(row, k)
    BY <2>2 DEF Alike
  <2>4. /\ \A f \in In(k) : p[f] = CHOOSE i \in DOMAIN s : s[i] = f
        /\ \A f \in Files : f \notin In(k) => p[f] = Out
    BY DEF In
  <2> HIDE DEF k, p
  <2> QED
    BY <1>2, <2>1, <2>2, <2>3, <2>4, Renumbers
<1> HIDE DEF p, k
<1>5. "excused" \notin cause => Ready(row, x)
  BY <1>3, <1>4 DEF Ready
<1> QED
  BY <1>2, <1>3, <1>5, GoesOnList

\* A file and the one in its new place change places.
LEMMA MoveFileList ==
  ASSUME DataOK, SlotsInv, SlotsInv', ListInv, NEW r \in Requests, MoveFile(r)
  PROVE  ListInv' /\ PromiseStep
<1> DEFINE m == req[r].seen
<1>1. /\ req[r] \in Slots /\ req[r].pc = "position" /\ req[r].op = "swap" /\ m \in Lists
      /\ row' = row /\ cause' = cause /\ row \in Rows /\ req[r].to \in Nat \ {0}
  BY DEF MoveFile, SlotsInv, Slots, database, history, DataOK, Rows
<1>2. CASE End(r)
  BY <1>1, <1>2, EndsList
<1>3. ASSUME req[r].of \subseteq In(m), req[r].to <= Cardinality(In(m)),
             NEW s \in Arrangements(m), NEW f \in req[r].of,
             req' = [req EXCEPT ![r].pc = "saveFiles", ![r].pass = 2, ![r].saves = {f, s[req[r].to]},
                                ![r].seen = Swapped(m, f, s[req[r].to])]
      PROVE  ListInv' /\ PromiseStep
  <2> DEFINE g == s[req[r].to]
             x == [req[r] EXCEPT !.pc = "saveFiles", !.pass = 2, !.saves = {f, g},
                                 !.seen = Swapped(m, f, g)]
  <2>1. f \in In(m) /\ g \in In(m)
    <3>1. s \in [1..Cardinality(In(m)) -> In(m)] /\ Cardinality(In(m)) \in Nat
      BY <1>1, ArrangedOnce, InAList, FS_CardinalityType, AlbumAssumption DEF Lists, Out, Gone
    <3> QED
      BY <1>1, <1>3, <3>1
  <2>2. x.op = "swap" /\ x.pc = "saveFiles" /\ x.saves = {f, g} /\ x.seen = Swapped(m, f, g)
        /\ req' = [req EXCEPT ![r] = x]
    BY <1>1, <1>3 DEF Slots
  <2>3. "excused" \notin cause => m = Reading(row) /\ In(m) = In(row)
    BY <1>1, ReadingIs DEF ListInv, Ready
  <2> HIDE DEF m, g
  <2>4. "excused" \notin cause => Ready(row, x)
    BY <2>1, <2>2, <2>3 DEF Ready
  <2> QED
    BY <1>1, <2>2, <2>4, GoesOnList
<1> QED
  BY <1>2, <1>3 DEF MoveFile

\* A request begins: alone, or it is excused, or it changes nothing.
LEMMA BeginsList ==
  ASSUME SlotsInv, SlotsInv', ListInv, NEW r \in Requests, NEW x, req[r].pc = "idle",
         req' = [req EXCEPT ![r] = x], row' = row, cause \subseteq cause', cause' \ cause \subseteq Causes,
         x.op \in Changing => Overlap \subseteq cause',
         "excused" \notin cause' => Ready(row, x)
  PROVE  ListInv' /\ PromiseStep
<1>1. CASE "excused" \in cause'
  BY <1>1, ExcusedSteps
<1>2. CASE "excused" \notin cause'
  <2>1. "excused" \notin cause /\ req'[r] = x /\ \A q \in Requests : q # r => req'[q] = req[q]
    BY <1>2 DEF SlotsInv
  <2>2. ASSUME NEW q \in Requests, q # r, x.op \in Changing
        PROVE  req[q].op \notin Changing
    <3>1. Active = {}
      BY <1>2, <2>2 DEF Overlap
    <3> QED
      BY <3>1 DEF Active, SlotsInv, Staged, Changing
  <2>3. \A q, p \in Requests : req'[q].op \in Changing /\ req'[p].op \in Changing => q = p
    BY <2>1, <2>2 DEF ListInv
  <2>4. \A q \in Requests : Ready(row', req'[q])
    BY <1>2, <2>1 DEF ListInv
  <2>5. Distinct(row)' <=> Distinct(row')
    BY DEF Distinct, In
  <2>6. ASSUME NEW q \in Requests PROVE Ready(row, req[q])' <=> Ready(row', req'[q])
    BY DEF Ready, Reading, In, Alike, Swapped
  <2>7. ListInv'
    BY <2>1, <2>3, <2>4, <2>5, <2>6 DEF ListInv, Changing
  <2> QED
    BY <1>2, <2>1, <2>7, RowsStay
<1> QED
  BY <1>1, <1>2

\* Whatever a client asks for.
LEMMA RequestList ==
  ASSUME DataOK, SlotsInv, SlotsInv', ListInv, DataOK', NEW r \in Requests, Request(r)
  PROVE  ListInv' /\ PromiseStep
<1>1. ASSUME NEW o, NEW l, NEW S, Begin(r, o, l, S),
             l \in {"order", "reread", "tx", "share", "revoke", "list"}, o # "delete",
             l \in {"order", "reread"} => S # {},
             l = "order" => \A f \in S : row[f] # Gone,
             cause \subseteq cause', o = "view" \/ Overlap \subseteq cause'
      PROVE  ListInv' /\ PromiseStep
  <2> DEFINE x == [Idle EXCEPT !.pc = l, !.op = o, !.of = S,
                               !.seen = IF o = "deleteAll" THEN Listed ELSE @]
  <2>1. x.pc = l /\ x.op = o /\ x.of = S
    BY DEF Idle
  <2>2. req[r].pc = "idle" /\ req' = [req EXCEPT ![r] = x] /\ row' = row
    BY <1>1 DEF Begin, database
  <2> HIDE DEF x
  <2>3. Ready(row, x)
    BY <1>1, <2>1 DEF Ready
  <2>4. x.op \in Changing => Overlap \subseteq cause'
    BY <1>1, <2>1 DEF Changing
  <2> QED
    BY <1>1, <2>2, <2>3, <2>4, BeginsList DEF DataOK
<1>2. CASE AssignFiles(r)
  <2>1. PICK S \in (SUBSET Files) \ {{}} :
          Begin(r, "assign", "order", S) /\ \A f \in S : row[f] # Gone
    BY <1>2 DEF AssignFiles
  <2>2. cause \subseteq cause' /\ Overlap \subseteq cause'
    BY <1>2 DEF AssignFiles, Blame
  <2> QED
    BY <1>1, <2>1, <2>2
<1>3. CASE RemoveFiles(r)
  <2>1. PICK S \in (SUBSET In(row)) \ {{}} : Begin(r, "remove", "reread", S)
    BY <1>3 DEF RemoveFiles
  <2>2. cause \subseteq cause' /\ Overlap \subseteq cause'
    BY <1>3 DEF RemoveFiles, Blame
  <2> QED
    BY <1>1, <2>1, <2>2
<1>4. CASE DeleteAlbum(r)
  <2>1. PICK o \in {"deleteAll", "deleteKeep"} : Begin(r, o, "tx", {})
    BY <1>4 DEF DeleteAlbum
  <2>2. cause \subseteq cause' /\ Overlap \subseteq cause'
    BY <1>4 DEF DeleteAlbum, Blame
  <2> QED
    BY <1>1, <2>1, <2>2
<1>5. CASE ShareAlbum(r)
  <2>1. Begin(r, "share", "share", {}) /\ cause \subseteq cause' /\ Overlap \subseteq cause'
    BY <1>5 DEF ShareAlbum, Blame
  <2> QED
    BY <1>1, <2>1
<1>6. CASE RevokeShare(r)
  <2>1. Begin(r, "revoke", "revoke", {}) /\ cause \subseteq cause' /\ Overlap \subseteq cause'
    BY <1>6 DEF RevokeShare, Blame
  <2> QED
    BY <1>1, <2>1
<1>7. CASE ViewAlbum(r)
  <2>1. Begin(r, "view", "list", {}) /\ cause \subseteq cause'
    BY <1>7 DEF ViewAlbum
  <2> QED
    BY <1>1, <2>1
<1>8. CASE SwapFileOrder(r)
  <2>1. PICK f \in Files, j \in 1..Cardinality(Files) :
          req' = [req EXCEPT ![r] = [Idle EXCEPT !.pc = "list", !.op = "swap", !.of = {f}, !.to = j]]
    BY <1>8 DEF SwapFileOrder
  <2> DEFINE x == [Idle EXCEPT !.pc = "list", !.op = "swap", !.of = {f}, !.to = j]
  <2>2. x.pc = "list" /\ x.op = "swap"
    BY DEF Idle
  <2>3. req[r].pc = "idle" /\ row' = row /\ cause \subseteq cause' /\ Overlap \subseteq cause'
    BY <1>8 DEF SwapFileOrder, database, Blame
  <2>4. Ready(row, x)
    BY <2>2 DEF Ready
  <2> HIDE DEF x
  <2> QED
    BY <2>1, <2>3, <2>4, BeginsList DEF DataOK, x
<1>9. CASE ProcessDelete(r)
  <2>1. PICK f \in Files :
          req' = [req EXCEPT ![r] = [Idle EXCEPT !.pc = "unlink", !.op = "delete", !.of = {f}]]
    BY <1>9 DEF ProcessDelete
  <2> DEFINE x == [Idle EXCEPT !.pc = "unlink", !.op = "delete", !.of = {f}]
  <2>2. x.pc = "unlink" /\ x.op = "delete" /\ x.of = {f}
    BY DEF Idle
  <2>3. req[r].pc = "idle" /\ row' = row /\ cause \subseteq cause' /\ Overlap \subseteq cause'
    BY <1>9 DEF ProcessDelete, database, Blame
  <2>4. Ready(row, x)
    BY <2>2 DEF Ready
  <2> HIDE DEF x
  <2> QED
    BY <2>1, <2>3, <2>4, BeginsList DEF DataOK, x
<1> QED
  BY <1>2, <1>3, <1>4, <1>5, <1>6, <1>7, <1>8, <1>9 DEF Request

\* Every step keeps what the list needs, and is one of the list.
LEMMA ListKept ==
  ASSUME Shape, Shape', ListInv, [Next]_vars
  PROVE  ListInv' /\ PromiseStep
<1>0. DataOK /\ DataOK' /\ SlotsInv /\ SlotsInv'
  BY DEF Shape, DataOK, TypeOK, SlotsInv, Slots
<1>1. ASSUME NEW r \in Requests, Request(r)
      PROVE  ListInv' /\ PromiseStep
  BY <1>0, <1>1, RequestList
<1>2. ASSUME NEW r \in Requests, Continue(r)
      PROVE  ListInv' /\ PromiseStep
  <2>1. CASE SaveFiles(r)
    BY <1>0, <2>1, SaveFilesList
  <2>2. CASE ClearCache(r)
    BY <1>0, <2>2, ClearCacheList
  <2>3. CASE AddFiles(r)
    BY <1>0, <2>3, AddFilesList
  <2>4. CASE RereadAlbum(r)
    BY <1>0, <2>4, RereadAlbumList
  <2>5. CASE SaveAlbum(r)
    BY <1>0, <2>5, SaveAlbumList
  <2>6. CASE GetEntriesByBucket(r)
    BY <1>0, <2>6, GetEntriesByBucketList
  <2>7. CASE FillCache(r)
    BY <1>0, <2>7, FillCacheList
  <2>8. CASE Renumber(r)
    BY <1>0, <2>8, RenumberList
  <2>9. CASE MoveFile(r)
    BY <1>0, <2>9, MoveFileList
  <2>10. CASE DeleteAlbumTx(r) \/ DetachCommit(r)
    BY <1>0, <2>10, AlbumGoesList
  <2>11. CASE DetachFiles(r)
    BY <1>0, <2>11, DetachFilesList
  <2>12. CASE DeleteFilesFromDisk(r)
    BY <1>0, <2>12, DeleteFilesFromDiskList
  <2>13. CASE DeleteEntries(r)
    BY <1>0, <2>13, DeleteEntriesList
  <2>14. CASE ViewDone(r) \/ NothingToDelete(r)
    BY <1>0, <2>14, EndsList DEF ViewDone, NothingToDelete, database, history
  <2>15. CASE SetShared(r) \/ SetRevoked(r)
    BY <1>0, <2>15, EndsList DEF SetShared, SetRevoked
  <2> QED
    BY <1>2, <2>1, <2>2, <2>3, <2>4, <2>5, <2>6, <2>7, <2>8, <2>9, <2>10, <2>11, <2>12, <2>13, <2>14,
       <2>15 DEF Continue
<1>3. CASE UNCHANGED <<row, req, cause>>
  <2>1. ListInv'
    <3>1. Distinct(row)' <=> Distinct(row)
      BY <1>3 DEF Distinct, In
    <3>2. ASSUME NEW q \in Requests PROVE Ready(row, req[q])' <=> Ready(row, req[q])
      BY <1>3 DEF Ready, Reading, In, Alike, Swapped
    <3> QED
      BY <1>3, <3>1, <3>2 DEF ListInv
  <2> QED
    BY <1>3, <2>1, RowsStay
<1> QED
  BY <1>1, <1>2, <1>3 DEF Next, Expire, TimerFires, vars, database, history

\* ImplementsList: as long as nothing excuses it, what an album shows changes only as the requests
\* of its owner say.
THEOREM AlbumImplementsList == Spec => ImplementsList
<1>1. Init => ListInv /\ Promise!Init
  <2>1. SUFFICES ASSUME Init PROVE ListInv /\ Promise!Init
    OBVIOUS
  <2>2. In(row) = {} /\ row \in Rows /\ "excused" \notin cause
    BY <2>1, AlbumAssumption DEF Init, In, Rows, Out, Gone
  <2>3. \A r \in Requests : Ready(row, req[r]) /\ req[r].op = "none"
    BY <2>1, IdleReady DEF Init, Idle
  <2> QED
    BY <2>2, <2>3, NothingShown DEF ListInv, Changing, Promise!Init
<1>2. Shape /\ Shape' /\ ListInv /\ [Next]_vars => ListInv' /\ PromiseStep
  BY ListKept
<1>3. AlbumInv => Shape
  BY DEF AlbumInv
<1> QED
  BY <1>1, <1>2, <1>3, AlbumInvariant, PTL DEF Spec, ImplementsList, Promise!Spec, PromiseStep
=============================================================================
