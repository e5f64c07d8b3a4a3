---------------------------- MODULE ClientProofs ----------------------------
(***************************************************************************)
(* What the clients of an index get, for every size of the segments, the   *)
(* batches and the merge budget.                                           *)
(*                                                                         *)
(* An add finds room for a batch, so it does not throw, while the vectors  *)
(* received fit in size_t.                                                 *)
(*                                                                         *)
(* For a client that never adds an id it can still find, Index implements  *)
(* DocStore.  On top of IInv the proof needs that erase marks the right    *)
(* vector: in every segment a search looks at, ids_ names the position of  *)
(* each live vector (erase_batch marks only what ids_ names), and no two   *)
(* visible vectors share an id.                                            *)
(*                                                                         *)
(* The client of the update callback ends up with the segment ids of the   *)
(* levels, for every interleaving of adds, erases and late invocations.    *)
(***************************************************************************)
EXTENDS IndexProofs

(* Threshold minus a size() that may have wrapped below zero, on size_t.   *)
LEMMA ModRoom ==
  ASSUME NEW m \in Nat \ {0}, NEW t \in Nat, NEW x \in Int, x < t, t - x < m, t < m
  PROVE  (t - (x % m)) % m = t - x
<1>1. \A y \in Int : 0 <= y /\ y < m => y % m = y
  OBVIOUS
<1>2. \A y \in Int : 0 - m <= y /\ y < 0 => y % m = y + m
  OBVIOUS
<1>3. CASE 0 <= x
  BY <1>1, <1>3
<1>4. CASE x < 0
  <2>1. x % m = x + m
    BY <1>2, <1>4
  <2>2. (t - (x + m)) % m = t - x
    BY <1>2, <1>4
  <2>. QED  BY <2>1, <2>2
<1>. QED  BY <1>3, <1>4

(* ids_.size() - erased_.size(), without the wrap of size_t.               *)
NetSize(s) == Cardinality(Keys(s)) - Cardinality(s.erased_)

(* The open segment has room, by its net size, and the vectors received    *)
(* and still to be received are at most MaxAdds.                           *)
OpenHasRoom == NetSize(heap[last_]) < Threshold
WithinBound == added <= MaxAdds /\ (pc = "add" => added + Len(todo) <= MaxAdds)

BatchInv == IInv /\ OpenHasRoom /\ WithinBound

(* The ids of a segment can be counted.                                    *)
LEMMA KeysType ==
  ASSUME NEW s \in Segments
  PROVE  IsFiniteSet(Keys(s)) /\ Cardinality(Keys(s)) \in Nat
BY DocAssumption, FS_Subset, FS_CardinalityType DEF Keys

(* Only positions in use are erased, so a net size is not below the number *)
(* of vectors received so far.                                             *)
LEMMA NetSizeType ==
  ASSUME IInv, NEW p \in Objects
  PROVE  /\ NetSize(heap[p]) \in Int /\ 0 - added <= NetSize(heap[p])
         /\ Cardinality(heap[p].erased_) \in Nat /\ IsFiniteSet(heap[p].erased_)
<1>1. /\ heap[p] \in Segments /\ IsFiniteSet(heap[p].erased_) /\ added \in Nat
      /\ Consistent(heap[p]) /\ \A n \in Numbers(heap[p]) : 0 < n /\ n <= added
  BY HeapType DEF IInv, TypeOK, Bookkeeping
<1>2. heap[p].erased_ \subseteq 1..added
  BY <1>1 DEF Consistent, Segments
<1>3. Cardinality(heap[p].erased_) \in Nat /\ Cardinality(heap[p].erased_) <= added
  <2>1. IsFiniteSet(1..added) /\ Cardinality(1..added) = added
    BY <1>1, FS_Interval
  <2>. QED  BY <1>1, <1>2, <2>1, FS_Subset, FS_CardinalityType
<1>. QED  BY <1>1, <1>3, KeysType DEF NetSize

(* A batch adds at most its length to the keys of ids_.                    *)
LEMMA AddBatchNetSize ==
  ASSUME NEW s \in Segments, NEW base \in Nat, NEW ds \in Seq(Doc), IsFiniteSet(s.erased_)
  PROVE  NetSize(add_batch(s, base, ds)) <= NetSize(s) + Len(ds)
<1> DEFINE t == add_batch(s, base, ds)
           R == {ds[k] : k \in 1..Len(ds)}
<1>1. t.erased_ = s.erased_ /\ Len(ds) \in Nat /\ DOMAIN ds = 1..Len(ds)
  BY DEF add_batch, Segments
<1>2. \A d \in Doc : t.ids_[d] = IF \E k \in DOMAIN ds : ds[k] = d
                                 THEN base + LastIn(ds, d) ELSE s.ids_[d]
  BY DEF add_batch, Segments
<1>3. Keys(t) \subseteq Keys(s) \cup R
  BY <1>1, <1>2 DEF Keys
<1>4. IsFiniteSet(R) /\ Cardinality(R) \in Nat /\ Cardinality(R) <= Len(ds)
  <2> DEFINE f == [k \in 1..Len(ds) |-> ds[k]]
  <2>0. \A n \in Nat : IsFiniteSet(1..n) /\ Cardinality(1..n) = n
    BY FS_Interval
  <2>1. f \in Surjection(1..Len(ds), R)
    <3>1. f \in [1..Len(ds) -> R] /\ \A y \in R : \E k \in 1..Len(ds) : f[k] = y
      OBVIOUS
    <3>. QED  BY <3>1 DEF Surjection
  <2>2. IsFiniteSet(1..Len(ds)) /\ Cardinality(1..Len(ds)) = Len(ds)
    BY <1>1, <2>0
  <2>. QED  BY <2>1, <2>2, FS_Surjection, FS_CardinalityType
<1> HIDE DEF R, t
<1>5. /\ IsFiniteSet(Keys(s) \cup R)
      /\ Cardinality(Keys(s) \cup R) <= Cardinality(Keys(s)) + Cardinality(R)
  <2>1. IsFiniteSet(Keys(s)) /\ Cardinality(Keys(s)) \in Nat
    BY KeysType
  <2>2. IsFiniteSet(Keys(s) \cap R) /\ Cardinality(Keys(s) \cap R) \in Nat
    BY <2>1, FS_Intersection, FS_CardinalityType
  <2>3. /\ IsFiniteSet(Keys(s) \cup R)
        /\ Cardinality(Keys(s) \cup R)
             = Cardinality(Keys(s)) + Cardinality(R) - Cardinality(Keys(s) \cap R)
    BY <1>4, <2>1, FS_Union
  <2>. QED  BY <1>4, <2>1, <2>2, <2>3
<1>6. /\ Cardinality(Keys(t)) \in Nat /\ Cardinality(Keys(s)) \in Nat
      /\ Cardinality(Keys(t)) <= Cardinality(Keys(s)) + Len(ds)
  <2>1. Cardinality(Keys(t)) <= Cardinality(Keys(s) \cup R) /\ IsFiniteSet(Keys(t))
    BY <1>3, <1>5, FS_Subset
  <2>2. Cardinality(Keys(t)) \in Nat /\ Cardinality(Keys(s)) \in Nat
    BY <2>1, KeysType, FS_CardinalityType
  <2>3. Cardinality(Keys(s) \cup R) \in Nat
    BY <1>5, FS_CardinalityType
  <2>. QED  BY <1>1, <1>4, <1>5, <2>1, <2>2, <2>3
<1>7. Cardinality(s.erased_) \in Nat
  BY FS_CardinalityType
<1>. QED  BY <1>1, <1>6, <1>7 DEF NetSize, t

(* The room add computes on size_t is the room there is.                   *)
LEMMA RoomIsExact ==
  ASSUME BatchInv, MaxAdds + Threshold < SizeMod
  PROVE  /\ (Threshold - size(heap[last_])) % SizeMod = Threshold - NetSize(heap[last_])
         /\ batch <= Threshold - NetSize(heap[last_])
         /\ todo # <<>> => batch # 0
<1>1. PICK x \in Int : x = NetSize(heap[last_]) /\ 0 - added <= x /\ x < Threshold
  BY NetSizeType DEF BatchInv, OpenHasRoom, IInv, TypeOK
<1>2. /\ added \in Nat /\ added <= MaxAdds /\ todo \in Seq(Doc) /\ Len(todo) \in Nat
      /\ MaxAdds \in Nat /\ Threshold \in Nat /\ SizeMod \in Nat \ {0}
  BY IndexAssumption, SizeModAssumption DEF BatchInv, WithinBound, IInv, TypeOK
<1>3. (Threshold - (x % SizeMod)) % SizeMod = Threshold - x
  BY <1>1, <1>2, ModRoom
<1>4. (Threshold - size(heap[last_])) % SizeMod = Threshold - x
  BY <1>1, <1>3 DEF size, NetSize
<1>5. batch = IF Len(todo) < Threshold - x THEN Len(todo) ELSE Threshold - x
  BY <1>4 DEF batch
<1>6. todo # <<>> => Len(todo) # 0
  BY <1>2
<1>. QED  BY <1>1, <1>2, <1>4, <1>5, <1>6

(* Sealing leaves room, and the room of an open segment is never overrun.  *)
LEMMA BatchStep ==
  ASSUME BatchInv, [Next]_vars, MaxAdds + Threshold < SizeMod
  PROVE  OpenHasRoom' /\ WithinBound'
<1>1. /\ IInv /\ TypeOK /\ added \in Nat /\ todo \in Seq(Doc) /\ last_ \in Objects
      /\ heap[last_] \in Segments /\ Threshold \in Nat \ {0} /\ MaxAdds \in Nat
      /\ SizeMod \in Nat \ {0} /\ Len(todo) \in Nat
      /\ OpenHasRoom /\ WithinBound
  BY HeapType, IndexAssumption, SizeModAssumption DEF BatchInv, IInv, TypeOK
<1>2. ASSUME heap'[last_'] = heap[last_] PROVE OpenHasRoom'
  BY <1>1, <1>2 DEF OpenHasRoom
<1>3. ASSUME NEW ds \in Calls, Add(ds) PROVE OpenHasRoom' /\ WithinBound'
  BY <1>1, <1>2, <1>3 DEF Add, store, WithinBound
<1>4. ASSUME NEW ds \in SUBSET Doc, Erase(ds) PROVE OpenHasRoom' /\ WithinBound'
  <2>1. /\ last_' = last_ /\ heap'[last_] = erase_batch(heap[last_], ds)
        /\ UNCHANGED <<added, todo, pc>>
    BY <1>1, <1>4 DEF Erase, Searched, locals
  <2> DEFINE t == erase_batch(heap[last_], ds)
  <2>2. /\ Keys(t) = Keys(heap[last_]) /\ heap[last_].erased_ \subseteq t.erased_
    BY <1>1 DEF erase_batch, Keys, Segments
  <2>3. t \in Segments /\ IsFiniteSet(t.erased_)
    BY <1>1, EraseBatchProps DEF IInv, TypeOK, Bookkeeping
  <2> HIDE DEF t
  <2>4. /\ Cardinality(heap[last_].erased_) <= Cardinality(t.erased_)
        /\ Cardinality(t.erased_) \in Nat /\ Cardinality(heap[last_].erased_) \in Nat
        /\ Cardinality(Keys(t)) \in Nat
    BY <1>1, <2>2, <2>3, FS_Subset, FS_CardinalityType, KeysType
  <2>5. NetSize(t) <= NetSize(heap[last_]) /\ NetSize(t) \in Int /\ NetSize(heap[last_]) \in Int
    BY <2>2, <2>4 DEF NetSize
  <2>6. NetSize(t) < Threshold
    BY <1>1, <2>5, IndexAssumption DEF OpenHasRoom
  <2>7. OpenHasRoom'
    BY <2>1, <2>6 DEF OpenHasRoom, t
  <2>. QED  BY <1>1, <2>1, <2>7 DEF WithinBound
<1>5. CASE AddBatch
  <2> DEFINE now == SubSeq(todo, 1, batch)
             seg == add_batch(heap[last_], added, now)
  <2>1. /\ pc = "add" /\ pc' = pc /\ added' = added + batch /\ todo # <<>>
        /\ todo' = SubSeq(todo, batch + 1, Len(todo))
        /\ \/ size(seg) # Threshold /\ KeepOpen(seg)
           \/ size(seg) = Threshold /\ Seal(seg)
    BY <1>5 DEF AddBatch
  <2>2. batch \in Nat /\ batch <= Len(todo) /\ now \in Seq(Doc) /\ Len(now) = batch
    BY <1>1, BatchType
  <2>3. WithinBound'
    <3>1. PICK n \in Nat : n = Len(todo)
      BY <1>1
    <3>2. PICK m \in Nat : m = batch
      BY <2>2
    <3>3. m <= n /\ added + n <= MaxAdds /\ added' = added + m
      BY <1>1, <2>1, <2>2, <3>1, <3>2 DEF WithinBound
    <3>4. Len(todo') = n - m
      BY <1>1, <2>1, <2>2, <3>1, <3>2
    <3>. QED  BY <1>1, <3>3, <3>4 DEF WithinBound
  <2>4. seg \in Segments /\ IsFiniteSet(seg.erased_)
    BY <1>1, <1>5, OpenSegment
  <2>5. NetSize(seg) \in Int /\ NetSize(heap[last_]) \in Int
    BY <1>1, <2>4, NetSizeType, KeysType, FS_CardinalityType DEF NetSize
  <2>6. NetSize(seg) <= Threshold
    <3>1. NetSize(seg) <= NetSize(heap[last_]) + batch
      BY <1>1, <2>2, AddBatchNetSize DEF TypeOK
    <3>2. batch <= Threshold - NetSize(heap[last_])
      BY RoomIsExact
    <3>. QED  BY <1>1, <2>2, <2>5, <3>1, <3>2
  <2> HIDE DEF seg
  <2>7. CASE size(seg) # Threshold /\ KeepOpen(seg)
    <3>1. heap'[last_'] = seg
      BY <1>1, <2>7 DEF KeepOpen, Objects
    <3>2. NetSize(seg) # Threshold
      BY <1>1, <2>7 DEF size, NetSize
    <3>. QED  BY <1>1, <2>3, <2>5, <2>6, <3>1, <3>2 DEF OpenHasRoom
  <2>8. CASE Seal(seg)
    <3>1. /\ heap' = Append([heap EXCEPT ![last_] = seg], NewSegment(rand + 1))
          /\ last_' = Len(heap) + 1
      BY <2>8 DEF Seal
    <3>2. heap'[last_'] = NewSegment(rand + 1)
      BY <1>1, <3>1, HeapType DEF Objects
    <3>3. Keys(NewSegment(rand + 1)) = {} /\ NewSegment(rand + 1).erased_ = {}
      BY DEF Keys, NewSegment
    <3>4. NetSize(heap'[last_']) = 0
      BY <3>2, <3>3, FS_EmptySet DEF NetSize
    <3>. QED  BY <1>1, <2>3, <3>4 DEF OpenHasRoom
  <2>. QED  BY <2>1, <2>7, <2>8
<1>6. CASE MergePair
  <2>1. levels[i][j] # last_
    BY <1>1, <1>6, PairFacts DEF IInv, LevelsDisjoint
  <2>2. heap'[last_'] = heap[last_] /\ UNCHANGED <<added, pc>> /\ pc = "merge"
    BY <1>1, <1>6, <2>1, PairHeap DEF MergePair, InLoop
  <2>. QED  BY <1>1, <1>2, <2>2 DEF WithinBound
<1>7. CASE AddDone \/ MergeSkip \/ MergeLevelEnd \/ MergeEnd \/ RunCallback
  <2>1. UNCHANGED <<heap, last_, added>> /\ pc' # "add"
    BY <1>1, <1>7 DEF AddDone, MergeSkip, MergeLevelEnd, MergeEnd, RunCallback, InLoop, store
  <2>. QED  BY <1>1, <1>2, <2>1 DEF WithinBound
<1>8. CASE UNCHANGED vars
  BY <1>1, <1>2, <1>8 DEF vars, store, locals, WithinBound
<1>. QED
  BY <1>3, <1>4, <1>5, <1>6, <1>7, <1>8 DEF Next, AddStep

(* While the vectors received and the threshold together stay below the    *)
(* range of size_t, add never computes a batch of 0 and throws, even when  *)
(* more is erased from the open segment than its map of ids has keys.      *)
THEOREM BatchesNotEmpty ==
  ASSUME MaxAdds + Threshold < SizeMod
  PROVE  Spec => []NoEmptyBatch
<1>1. Init => BatchInv
  <2> SUFFICES ASSUME Init PROVE BatchInv
    OBVIOUS
  <2>1. Keys(heap[last_]) = {} /\ heap[last_].erased_ = {}
    BY DEF Init, Keys, NewSegment
  <2>2. NetSize(heap[last_]) = 0
    BY <2>1, FS_EmptySet DEF NetSize
  <2>3. OpenHasRoom
    BY <2>2, IndexAssumption DEF OpenHasRoom
  <2>4. WithinBound
    BY IndexAssumption DEF Init, WithinBound
  <2>. QED  BY <2>3, <2>4, InitIInv DEF BatchInv
<1>2. BatchInv /\ [Next]_vars => BatchInv'
  BY BatchStep, NextIInv DEF BatchInv
<1>3. BatchInv => NoEmptyBatch
  BY RoomIsExact DEF NoEmptyBatch
<1>. QED  BY <1>1, <1>2, <1>3, PTL DEF Spec
-----------------------------------------------------------------------------
LatestIsLive(s) == \A v \in Live(s) : s.ids_[v[1]] = v[2]

OnePerId(vs) == \A v, w \in vs : v[1] = w[1] => v = w

(* What the caller of add promised, for the ids that are left to add.      *)
Pending == pc = "add" => Fresh(todo)

SInv == /\ \A p \in Objects : Searched(p) => LatestIsLive(heap[p])
        /\ OnePerId(Visible)
        /\ Visible \subseteq docs
        /\ Pending
-----------------------------------------------------------------------------
(* A live vector of a segment is a pair of an id and a positive number.    *)
LEMMA LiveType ==
  ASSUME NEW s \in Segments, \A n \in Numbers(s) : 0 < n, NEW v \in Live(s)
  PROVE  /\ v \in Doc \X Nat /\ v[1] \in Doc /\ v[2] \in Nat /\ v[2] # 0
         /\ v = <<v[1], v[2]>> /\ v[2] \in Numbers(s)
<1>1. v \in s.inv_ids_ /\ s.inv_ids_ \subseteq Doc \X Nat
  BY DEF Live, Segments
<1>2. v[2] \in Numbers(s)
  BY <1>1 DEF Numbers
<1>. QED  BY <1>1, <1>2

(* A batch of ids the segment has no live vector of, each id once.         *)
LEMMA AddBatchLatest ==
  ASSUME NEW s \in Segments, NEW base \in Nat, NEW ds \in Seq(Doc),
         Consistent(s), \A n \in Numbers(s) : 0 < n /\ n <= base,
         LatestIsLive(s),
         \A k, l \in DOMAIN ds : ds[k] = ds[l] => k = l,
         \A k \in DOMAIN ds : \A v \in Live(s) : v[1] # ds[k]
  PROVE  LatestIsLive(add_batch(s, base, ds))
<1> DEFINE t == add_batch(s, base, ds)
<1>1. Live(t) = Live(s) \cup Batch(base, ds)
  BY AddBatchProps
<1>2. \A d \in Doc : t.ids_[d] = IF \E k \in DOMAIN ds : ds[k] = d
                                 THEN base + LastIn(ds, d) ELSE s.ids_[d]
  BY DEF add_batch, Segments
<1> HIDE DEF t
<1>3. ASSUME NEW v \in Live(s) PROVE t.ids_[v[1]] = v[2]
  BY <1>2, LiveType DEF LatestIsLive
<1>4. ASSUME NEW v \in Batch(base, ds) PROVE t.ids_[v[1]] = v[2]
  <2>1. PICK k \in DOMAIN ds : v = <<ds[k], base + k>>
    BY DEF Batch
  <2>2. ds[k] \in Doc /\ v[1] = ds[k] /\ v[2] = base + k
    BY <2>1
  <2>3. LastIn(ds, ds[k]) = k
    BY LastInType
  <2>. QED  BY <1>2, <2>2, <2>3
<1>. QED  BY <1>1, <1>3, <1>4 DEF LatestIsLive, t

(* erase_batch removes every live vector of the ids it is given.           *)
LEMMA EraseBatchLatest ==
  ASSUME NEW s \in Segments, NEW ds \in SUBSET Doc, Consistent(s),
         \A n \in Numbers(s) : 0 < n, LatestIsLive(s)
  PROVE  /\ Live(erase_batch(s, ds)) = {v \in Live(s) : v[1] \notin ds}
         /\ LatestIsLive(erase_batch(s, ds))
<1> DEFINE t == erase_batch(s, ds)
           E == {s.ids_[d] : d \in ds \cap Keys(s)}
<1>1. t.ids_ = s.ids_ /\ t.inv_ids_ = s.inv_ids_ /\ t.erased_ = s.erased_ \cup E
  BY DEF erase_batch, Segments
<1> HIDE DEF t
<1>2. ASSUME NEW v \in Live(s), v[1] \in ds PROVE v[2] \in E
  <2>1. s.ids_[v[1]] = v[2] /\ v[1] \in Keys(s)
    BY LiveType DEF LatestIsLive, Keys
  <2>. QED  BY <1>2, <2>1
<1>3. ASSUME NEW v \in Live(s), v[1] \notin ds PROVE v[2] \notin E
  <2> SUFFICES ASSUME NEW d \in ds \cap Keys(s), s.ids_[d] = v[2] PROVE FALSE
    OBVIOUS
  <2>1. <<d, s.ids_[d]>> \in s.inv_ids_ /\ v \in s.inv_ids_
    BY DEF Consistent, Live
  <2>2. <<d, s.ids_[d]>> = v
    BY <2>1 DEF Consistent
  <2>. QED  BY <1>3, <2>2
<1> HIDE DEF E
<1>4. Live(t) = {v \in Live(s) : v[1] \notin ds}
  BY <1>1, <1>2, <1>3 DEF Live
<1>. QED  BY <1>1, <1>4 DEF LatestIsLive, t

(* What a merge copies becomes what ids_ names, and it names nothing else  *)
(* live: two live vectors of one id are one vector.                        *)
LEMMA MergeLatest ==
  ASSUME NEW a \in Segments, NEW b \in Segments, Consistent(a), Consistent(b),
         Numbers(a) \cap Numbers(b) = {},
         \A n \in Numbers(a) \cup Numbers(b) : 0 < n,
         LatestIsLive(a), OnePerId(Live(a) \cup Live(b)),
         NEW m \in merge_from_other(a, b)
  PROVE  LatestIsLive(m)
<1> DEFINE ds == {v[1] : v \in Live(b)}
<1>1. PICK f \in [ds -> {v[2] : v \in Live(b)}] :
        /\ \A d \in ds : <<d, f[d]>> \in Live(b)
        /\ m = [a EXCEPT !.ids_ = [d \in Doc |-> IF d \in ds THEN f[d] ELSE @[d]],
                         !.inv_ids_ = @ \cup Live(b)]
  BY DEF merge_from_other, Absorb
<1>2. \A d \in Doc : m.ids_[d] = IF d \in ds THEN f[d] ELSE a.ids_[d]
  BY <1>1 DEF Segments
<1>3. Live(m) = Live(a) \cup Live(b)
  BY MergeProps
<1> SUFFICES ASSUME NEW v \in Live(m) PROVE m.ids_[v[1]] = v[2]
  BY DEF LatestIsLive
<1>4. v[1] \in Doc
  BY <1>3, LiveType
<1>5. CASE v[1] \in ds
  <2>1. <<v[1], f[v[1]]>> \in Live(b)
    BY <1>1, <1>5
  <2>2. v = <<v[1], f[v[1]]>>
    BY <1>3, <2>1 DEF OnePerId
  <2>. QED  BY <1>2, <1>4, <1>5, <2>2
<1>6. CASE v[1] \notin ds
  BY <1>2, <1>3, <1>4, <1>6 DEF LatestIsLive
<1>. QED  BY <1>5, <1>6
-----------------------------------------------------------------------------
(* The facts of IInv the steps below use.                                  *)
LEMMA SegmentFacts ==
  ASSUME IInv, NEW p \in Objects
  PROVE  /\ heap[p] \in Segments /\ Consistent(heap[p]) /\ IsFiniteSet(heap[p].erased_)
         /\ \A n \in Numbers(heap[p]) : 0 < n /\ n <= added
<1>1. TypeOK /\ Bookkeeping
  BY DEF IInv
<1>. QED  BY <1>1, HeapType DEF TypeOK, Bookkeeping

(* The live vectors of a segment that is searched are visible.             *)
LEMMA SearchedIsVisible ==
  ASSUME NEW p \in Objects, Searched(p)
  PROVE  Live(heap[p]) \subseteq Visible
BY DEF Visible

(* A step that changes neither the segments nor what is in searches.       *)
LEMMA SameStore ==
  ASSUME SInv, UNCHANGED <<store, docs>>, Pending'
  PROVE  SInv' /\ Visible' = Visible
<1>1. /\ Objects' = Objects /\ UNCHANGED <<heap, last_, segments_, docs>>
  BY DEF store, Objects
<1>2. Visible' = Visible /\ \A p \in Objects : Searched(p)' <=> Searched(p)
  BY <1>1 DEF Visible, Searched
<1>3. \A p \in Objects : LatestIsLive(heap[p])' <=> LatestIsLive(heap[p])
  BY <1>1 DEF LatestIsLive, Live
<1>4. \A p \in Objects' : Searched(p)' => LatestIsLive(heap[p])'
  BY <1>1, <1>2, <1>3 DEF SInv
<1>5. OnePerId(Visible)' /\ (Visible \subseteq docs)'
  BY <1>1, <1>2 DEF SInv, OnePerId
<1>. QED  BY <1>2, <1>4, <1>5 DEF SInv

(* Add brings in ids the caller vouches for.                               *)
LEMMA AddSInv ==
  ASSUME ~Overwrite, SInv, NEW ds \in Calls, Add(ds)
  PROVE  SInv' /\ Visible' = Visible
<1>1. /\ Fresh(ds) /\ todo' = ds /\ UNCHANGED <<heap, last_, segments_, docs>>
      /\ UNCHANGED store
  BY DEF Add, store
<1>2. Visible' = Visible
  BY <1>1 DEF Visible, Objects, Searched
<1>3. Pending'
  BY <1>1, <1>2 DEF Pending, Fresh
<1>. QED  BY <1>1, <1>3, SameStore

(* Erase takes exactly the named ids out of searches and out of docs.      *)
LEMMA EraseSInv ==
  ASSUME IInv, SInv, NEW ds \in SUBSET Doc, Erase(ds)
  PROVE  SInv' /\ Visible' = {v \in Visible : v[1] \notin ds}
<1>1. /\ UNCHANGED <<last_, segments_, pc>> /\ pc = "idle"
      /\ docs' = {v \in docs : v[1] \notin ds} /\ Objects' = Objects
  BY DEF Erase, Objects
<1>2. \A p \in Objects : Searched(p)' <=> Searched(p)
  BY <1>1 DEF Searched
<1>3. \A p \in Objects : Searched(p) => heap'[p] = erase_batch(heap[p], ds)
  BY DEF Erase
<1>4. ASSUME NEW p \in Objects, Searched(p)
      PROVE  /\ Live(heap'[p]) = {v \in Live(heap[p]) : v[1] \notin ds}
             /\ LatestIsLive(heap'[p])
  BY <1>3, <1>4, SegmentFacts, EraseBatchLatest DEF SInv
<1>5. Visible' = {v \in Visible : v[1] \notin ds}
  BY <1>1, <1>2, <1>4 DEF Visible
<1>6. OnePerId(Visible)' /\ (Visible \subseteq docs)'
  BY <1>1, <1>5 DEF SInv, OnePerId
<1>7. Pending'
  BY <1>1 DEF Pending
<1>8. \A p \in Objects' : Searched(p)' => LatestIsLive(heap[p])'
  BY <1>1, <1>2, <1>4 DEF LatestIsLive, Live
<1>. QED  BY <1>5, <1>6, <1>7, <1>8 DEF SInv

(* The absorbing segment holds one vector per id, since both were visible. *)
LEMMA PairSInv ==
  ASSUME IInv, SInv, MergePair
  PROVE  SInv'
<1> DEFINE a == levels[i][j]
           b == levels[i][j + 1]
<1>1. /\ a \in Objects /\ b \in Objects /\ segments_[a] > 0 /\ segments_[b] > 0
      /\ Numbers(heap[a]) \cap Numbers(heap[b]) = {}
      /\ UNCHANGED <<last_, segments_, docs, pc>> /\ pc = "merge"
  BY PairFacts DEF IInv, Bookkeeping, MergePair, InLoop
<1>2. Objects' = Objects /\ \A p \in Objects : p # a => heap'[p] = heap[p]
  BY PairHeap
<1>3. PICK m \in merge_from_other(heap[a], heap[b]) :
        heap' = [heap EXCEPT ![a] = [m EXCEPT !.seg_id = rand + 1]]
  BY DEF MergePair, Renamed
<1>4. Visible' = Visible
  BY <1>1, MergeInvisibleStep DEF Next, AddStep
<1> HIDE DEF a, b
<1>5. Searched(a) /\ Searched(b) /\ \A p \in Objects : Searched(p)' <=> Searched(p)
  BY <1>1 DEF Searched
<1>6. LatestIsLive(heap'[a])
  <2>1. OnePerId(Live(heap[a]) \cup Live(heap[b]))
    BY <1>1, <1>5, SearchedIsVisible DEF SInv, OnePerId
  <2>2. /\ heap[a] \in Segments /\ Consistent(heap[a]) /\ LatestIsLive(heap[a])
        /\ heap[b] \in Segments /\ Consistent(heap[b])
        /\ \A n \in Numbers(heap[a]) \cup Numbers(heap[b]) : 0 < n
    BY <1>1, <1>5, SegmentFacts DEF SInv
  <2>3. LatestIsLive(m) /\ m \in Segments
    BY <1>1, <2>1, <2>2, MergeLatest, MergeProps
  <2>4. heap'[a] = [m EXCEPT !.seg_id = rand + 1]
    BY <1>1, <1>3 DEF Objects
  <2>5. heap'[a].ids_ = m.ids_ /\ Live(heap'[a]) = Live(m)
    BY <2>3, <2>4 DEF Segments, Live
  <2>. QED  BY <2>3, <2>5 DEF LatestIsLive
<1>7. \A p \in Objects' : Searched(p)' => LatestIsLive(heap[p])'
  <2>1. \A p \in Objects : Searched(p)' => LatestIsLive(heap'[p])
    BY <1>2, <1>5, <1>6 DEF SInv
  <2>. QED  BY <1>2, <2>1 DEF LatestIsLive, Live
<1>8. OnePerId(Visible)' /\ (Visible \subseteq docs)' /\ Pending'
  BY <1>1, <1>4 DEF SInv, OnePerId, Pending
<1>. QED  BY <1>7, <1>8 DEF SInv

(* The end of a level changes nothing a search ranges over.                *)
LEMMA LevelEndSInv ==
  ASSUME IInv, SInv, MergeLevelEnd
  PROVE  SInv'
<1>1. Objects' = Objects /\ UNCHANGED <<heap, docs, pc>> /\ pc = "merge"
  BY DEF MergeLevelEnd, Objects, InLoop
<1>2. Visible' = Visible
  BY <1>1, MergeInvisibleStep DEF Next, AddStep
<1>3. \A p \in Objects : Searched(p)' => LatestIsLive(heap[p])
  BY LevelEndSearched DEF SInv
<1>4. \A p \in Objects' : Searched(p)' => LatestIsLive(heap[p])'
  BY <1>1, <1>3 DEF LatestIsLive, Live
<1>5. OnePerId(Visible)' /\ (Visible \subseteq docs)' /\ Pending'
  BY <1>1, <1>2 DEF SInv, OnePerId, Pending
<1>. QED  BY <1>4, <1>5 DEF SInv
-----------------------------------------------------------------------------
(* One turn of the loop of add: the segment that takes the batch.          *)
LEMMA BatchFacts ==
  ASSUME IInv, SInv, AddBatch
  PROVE  LET now == SubSeq(todo, 1, batch)
         IN  /\ now \in Seq(Doc) /\ DOMAIN now = 1..batch
             /\ added \in Nat /\ batch \in Nat \ {0} /\ batch <= Len(todo)
             /\ \A k \in 1..batch : now[k] = todo[k]
             /\ LatestIsLive(add_batch(heap[last_], added, now))
             /\ Live(add_batch(heap[last_], added, now))
                  = Live(heap[last_]) \cup Batch(added, now)
<1> DEFINE now == SubSeq(todo, 1, batch)
<1>1. /\ TypeOK /\ last_ \in Objects /\ Searched(last_) /\ added \in Nat
      /\ todo \in Seq(Doc) /\ Fresh(todo) /\ batch # 0
  BY DEF IInv, TypeOK, Searched, AddBatch, SInv, Pending
<1>2. /\ now \in Seq(Doc) /\ Len(now) = batch /\ batch \in Nat /\ batch <= Len(todo)
  BY <1>1, BatchType
<1>3. DOMAIN now = 1..batch /\ \A k \in 1..batch : now[k] = todo[k]
  <2>1. Len(todo) \in Nat /\ batch \in Nat /\ batch <= Len(todo)
    BY <1>1, <1>2
  <2> DEFINE n == batch
  <2>2. n \in Nat /\ n <= Len(todo) /\ Len(todo) \in Nat
    BY <2>1
  <2> HIDE DEF n
  <2>3. \A k \in 1..n : SubSeq(todo, 1, n)[k] = todo[k]
    BY <1>1, <2>2
  <2>. QED  BY <1>2, <2>3 DEF n
<1> HIDE DEF now
<1>4. 1..batch \subseteq DOMAIN todo
  BY <1>1, <1>2
<1>5. /\ \A k, l \in DOMAIN now : now[k] = now[l] => k = l
      /\ \A k \in DOMAIN now : \A v \in Live(heap[last_]) : v[1] # now[k]
  BY <1>1, <1>3, <1>4, SearchedIsVisible DEF Fresh
<1>6. /\ heap[last_] \in Segments /\ Consistent(heap[last_]) /\ LatestIsLive(heap[last_])
      /\ \A n \in Numbers(heap[last_]) : 0 < n /\ n <= added
  BY <1>1, SegmentFacts DEF SInv
<1>7. LatestIsLive(add_batch(heap[last_], added, now))
  BY <1>1, <1>2, <1>5, <1>6, AddBatchLatest
<1>8. Live(add_batch(heap[last_], added, now)) = Live(heap[last_]) \cup Batch(added, now)
  BY <1>1, <1>2, <1>6, AddBatchProps
<1>. QED  BY <1>1, <1>2, <1>3, <1>7, <1>8 DEF now

(* Whether the segment is kept open or sealed, searches find the vectors   *)
(* of the batch and what they found before.                                *)
LEMMA AddBatchVisible ==
  ASSUME IInv, SInv, AddBatch
  PROVE  /\ Visible' = Visible \cup Batch(added, SubSeq(todo, 1, batch))
         /\ \A p \in Objects' : Searched(p)' => LatestIsLive(heap'[p])
<1> DEFINE now == SubSeq(todo, 1, batch)
           seg == add_batch(heap[last_], added, now)
<1>1. /\ last_ \in Objects /\ Searched(last_) /\ Objects = 1..Len(heap) /\ Len(heap) \in Nat
      /\ heap \in Seq(Segments) /\ segments_ \in [1..Len(heap) -> Nat]
      /\ \A p \in Objects : Searched(p) => LatestIsLive(heap[p])
  BY HeapType DEF IInv, TypeOK, Searched, SInv
<1>2. LatestIsLive(seg) /\ Live(seg) = Live(heap[last_]) \cup Batch(added, now)
  BY BatchFacts
<1>3. KeepOpen(seg) \/ Seal(seg)
  BY DEF AddBatch
<1> DEFINE B == Batch(added, now)
<1> HIDE DEF seg, now, B
<1>4. CASE KeepOpen(seg)
  <2>1. /\ Objects' = Objects /\ UNCHANGED <<last_, segments_>> /\ heap'[last_] = seg
        /\ \A p \in Objects : p # last_ => heap'[p] = heap[p]
    BY <1>1, <1>4 DEF KeepOpen, Objects
  <2>2. \A p \in Objects : Searched(p)' <=> Searched(p)
    BY <2>1 DEF Searched
  <2>3. \A p \in Objects' : Searched(p)' => LatestIsLive(heap'[p])
    BY <1>1, <1>2, <2>1, <2>2
  <2>4. Visible' = Visible \cup B
    BY <1>1, <1>2, <2>1, <2>2 DEF Visible, B
  <2>. QED  BY <2>3, <2>4 DEF B, now
<1>5. CASE Seal(seg)
  <2> DEFINE new == Len(heap) + 1
  <2>1. /\ Objects' = Objects \cup {new} /\ new \notin Objects /\ last_' = new
        /\ heap'[last_] = seg /\ heap'[new] = NewSegment(rand + 1)
        /\ \A p \in Objects : p # last_ => heap'[p] = heap[p]
    BY <1>1, <1>5 DEF Seal, Objects
  <2>2. \A p \in Objects : Searched(p)' <=> Searched(p)
    <3>1. \A p \in Objects : segments_'[p] = IF p = last_ THEN segments_[p] + 1 ELSE segments_[p]
      BY <1>1, <1>5 DEF Seal
    <3>. QED  BY <1>1, <2>1, <3>1 DEF Searched
  <2>3. Live(heap'[new]) = {} /\ LatestIsLive(heap'[new])
    BY <2>1 DEF NewSegment, Live, LatestIsLive
  <2> HIDE DEF new
  <2>4. \A p \in Objects' : Searched(p)' => LatestIsLive(heap'[p])
    BY <1>1, <1>2, <2>1, <2>2, <2>3
  <2>5. Visible' = Visible \cup B
    <3>1. Visible' \subseteq Visible \cup B
      BY <1>1, <1>2, <2>1, <2>2, <2>3 DEF Visible, B
    <3>2. Visible \cup B \subseteq Visible'
      BY <1>1, <1>2, <2>1, <2>2, <2>3 DEF Visible, B
    <3>. QED  BY <3>1, <3>2
  <2>. QED  BY <2>4, <2>5 DEF B, now
<1>. QED  BY <1>3, <1>4, <1>5

(* A batch of add keeps ids_ true and one visible vector for each id.      *)
LEMMA AddBatchSInv ==
  ASSUME IInv, SInv, AddBatch
  PROVE  SInv'
<1> DEFINE now == SubSeq(todo, 1, batch)
           n == batch
           B == Batch(added, now)
<1>1. /\ now \in Seq(Doc) /\ DOMAIN now = 1..n /\ added \in Nat
      /\ n \in Nat \ {0} /\ n <= Len(todo) /\ \A k \in 1..n : now[k] = todo[k]
  BY BatchFacts
<1>2. /\ Visible' = Visible \cup B /\ docs' = docs \cup B
      /\ \A p \in Objects' : Searched(p)' => LatestIsLive(heap'[p])
  BY AddBatchVisible DEF AddBatch
<1>3. /\ todo \in Seq(Doc) /\ todo' = SubSeq(todo, n + 1, Len(todo)) /\ Fresh(todo)
  BY DEF IInv, TypeOK, AddBatch, SInv, Pending
<1>4. /\ \A v \in B : \E k \in 1..n : v = <<todo[k], added + k>>
      /\ 1..n \subseteq DOMAIN todo
  BY <1>1, <1>3 DEF Batch
<1> HIDE DEF now, n, B
<1>5. OnePerId(Visible)'
  <2>1. ASSUME NEW v \in B, NEW w \in B, v[1] = w[1] PROVE v = w
    BY <1>3, <1>4, <2>1 DEF Fresh
  <2>2. ASSUME NEW v \in B, NEW w \in Visible PROVE v[1] # w[1]
    BY <1>3, <1>4 DEF Fresh
  <2>3. OnePerId(Visible \cup B)
    BY <2>1, <2>2 DEF OnePerId, SInv
  <2>. QED  BY <1>2, <2>3 DEF OnePerId
<1>6. (Visible \subseteq docs)'
  BY <1>2 DEF SInv
<1>7. Fresh(todo)'
  <2>1. /\ DOMAIN todo' = 1..(Len(todo) - n)
        /\ \A k \in DOMAIN todo' : n + k \in DOMAIN todo /\ todo'[k] = todo[n + k]
    BY <1>1, <1>3
  <2>2. \A k, l \in DOMAIN todo' : todo'[k] = todo'[l] => k = l
    BY <1>1, <1>3, <2>1 DEF Fresh
  <2>3. ASSUME NEW k \in DOMAIN todo', NEW v \in Visible PROVE v[1] # todo'[k]
    <3>1. \A m \in DOMAIN todo : v[1] # todo[m]
      BY <1>3 DEF Fresh
    <3>. QED  BY <2>1, <3>1
  <2>4. ASSUME NEW k \in DOMAIN todo', NEW v \in B PROVE v[1] # todo'[k]
    <3>1. PICK l \in 1..n : v = <<todo[l], added + l>>
      BY <1>4
    <3>2. l \in DOMAIN todo /\ l # n + k
      BY <1>1, <1>4, <2>1
    <3>. QED  BY <1>3, <2>1, <3>1, <3>2 DEF Fresh
  <2>. QED  BY <1>2, <2>2, <2>3, <2>4 DEF Fresh
<1>8. \A p \in Objects' : Searched(p)' => LatestIsLive(heap[p])'
  BY <1>2 DEF LatestIsLive, Live
<1>. QED  BY <1>5, <1>6, <1>7, <1>8 DEF SInv, Pending
-----------------------------------------------------------------------------
(* An empty index.                                                         *)
LEMMA InitSInv == Init => SInv
<1> SUFFICES ASSUME Init PROVE SInv
  OBVIOUS
<1>1. Objects = {1} /\ heap[1] = NewSegment(1) /\ pc = "idle"
  BY DEF Init, Objects
<1>2. Live(heap[1]) = {}
  BY <1>1 DEF NewSegment, Live
<1>3. Visible = {} /\ LatestIsLive(heap[1])
  BY <1>1, <1>2 DEF Visible, LatestIsLive
<1>. QED  BY <1>1, <1>3 DEF SInv, OnePerId, Pending

(* The other steps leave the segments and docs alone, and none of them     *)
(* leaves pc = "add" with other ids.                                       *)
LEMMA QuietSInv ==
  ASSUME SInv, AddDone \/ MergeSkip \/ MergeEnd \/ RunCallback \/ UNCHANGED vars
  PROVE  SInv' /\ Visible' = Visible /\ added' = added
<1>1. UNCHANGED <<store, docs, added>>
  BY DEF AddDone, MergeSkip, MergeEnd, RunCallback, vars
<1>2. pc' = "add" => UNCHANGED <<pc, todo>>
  BY DEF AddDone, MergeSkip, MergeEnd, RunCallback, InLoop, vars, locals
<1>3. Visible' = Visible
  BY <1>1 DEF store, Visible, Objects, Searched
<1>4. Pending'
  BY <1>2, <1>3 DEF SInv, Pending, Fresh
<1>. QED  BY <1>1, <1>4, SameStore

(* Every step keeps the invariant.                                         *)
LEMMA NextSInv ==
  ASSUME ~Overwrite, IInv, SInv, [Next]_vars
  PROVE  SInv'
<1>1. ASSUME NEW ds \in Calls, Add(ds) PROVE SInv'
  BY <1>1, AddSInv
<1>2. ASSUME NEW ds \in (SUBSET Doc) \ {{}}, Erase(ds) PROVE SInv'
  BY <1>2, EraseSInv
<1>3. CASE AddBatch
  BY <1>3, AddBatchSInv
<1>4. CASE MergePair
  BY <1>4, PairSInv
<1>5. CASE MergeLevelEnd
  BY <1>5, LevelEndSInv
<1>6. CASE AddDone \/ MergeSkip \/ MergeEnd \/ RunCallback \/ UNCHANGED vars
  BY <1>6, QuietSInv
<1>. QED  BY <1>1, <1>2, <1>3, <1>4, <1>5, <1>6 DEF Next, AddStep

(* Both invariants hold for a client that never adds an id it can still    *)
(* find, through every batch, erase and merge of the index.                *)
THEOREM StoreInvariance == ASSUME ~Overwrite PROVE Spec => [](IInv /\ SInv)
<1>1. Init => SInv
  BY InitSInv
<1>2. IInv /\ SInv /\ [Next]_vars => SInv'
  BY NextSInv
<1>. QED  BY Invariance, <1>1, <1>2, PTL DEF Spec

(* Whatever a search returns was added and not erased since: deleteBatch   *)
(* reaches every copy of a vector, in the segments of the levels and in    *)
(* those that a merge left behind in segments_.                            *)
THEOREM ErasedStaysErased == Spec => []EraseReachesAll
<1>1. ASSUME ~Overwrite PROVE Spec => []EraseReachesAll
  <2>1. IInv /\ SInv => EraseReachesAll
    BY DEF SInv, EraseReachesAll
  <2>. QED  BY <1>1, <2>1, StoreInvariance, PTL
<1>2. ASSUME Overwrite PROVE Spec => []EraseReachesAll
  <2>1. EraseReachesAll
    BY <1>2 DEF EraseReachesAll
  <2>. QED  BY <2>1, PTL
<1>. QED  BY <1>1, <1>2, IndexAssumption

(* A turn of the loop of add is an AddVectors step of the store.           *)
LEMMA AddBatchRefines ==
  ASSUME IInv, SInv, SInv', AddBatch
  PROVE  Store!AddVectors
<1> DEFINE now == SubSeq(todo, 1, batch)
           n == batch
           B == Batch(added, now)
<1>1. /\ now \in Seq(Doc) /\ DOMAIN now = 1..n /\ added \in Nat /\ n \in Nat \ {0}
  BY BatchFacts
<1>2. Visible' = Visible \cup B /\ added' = added + n /\ pc = "add" /\ pc' = "add"
  BY AddBatchVisible DEF AddBatch
<1> HIDE DEF now, n
<1>3. B = {<<now[k], added + k>> : k \in 1..n} /\ \A k \in 1..n : now[k] \in Doc
  <2>1. B = {<<now[k], added + k>> : k \in 1..n}
    BY <1>1 DEF Batch
  <2>. QED  BY <1>1, <2>1
<1>4. OnePerId(Visible \cup B)
  BY <1>2 DEF SInv, OnePerId
<1>5. \A v \in Visible : v[2] <= added
  <2> SUFFICES ASSUME NEW v \in Visible PROVE v[2] <= added
    OBVIOUS
  <2>1. PICK p \in Objects : v \in Live(heap[p])
    BY DEF Visible
  <2>2. heap[p] \in Segments /\ \A m \in Numbers(heap[p]) : 0 < m /\ m <= added
    BY SegmentFacts
  <2>. QED  BY <2>1, <2>2, LiveType
<1> HIDE DEF B
<1>6. \A v \in B : \E k \in 1..n : v = <<now[k], added + k>> /\ v[2] = added + k /\ v[1] = now[k]
  BY <1>3
<1>7. B \cap Visible = {}
  BY <1>1, <1>5, <1>6
<1>8. Visible' \ Visible = B
  BY <1>2, <1>7
<1>9. {v[2] : v \in B} = (added + 1)..added'
  <2>1. ASSUME NEW v \in B PROVE v[2] \in (added + 1)..added'
    BY <1>1, <1>2, <1>6
  <2>2. ASSUME NEW m \in (added + 1)..added' PROVE \E v \in B : v[2] = m
    <3>1. m - added \in 1..n /\ added + (m - added) = m
      BY <1>1, <1>2
    <3>2. <<now[m - added], added + (m - added)>> \in B
      BY <1>3, <3>1
    <3>. QED  BY <3>1, <3>2
  <2>. QED  BY <2>1, <2>2
<1>10. \A v \in B : v[1] \in Doc /\ \A w \in Visible' \ {v} : w[1] # v[1]
  BY <1>2, <1>3, <1>4, <1>6 DEF OnePerId
<1>11. added' > added
  BY <1>1, <1>2
<1>. QED  BY <1>2, <1>8, <1>9, <1>10, <1>11 DEF Store!AddVectors

(* The index is the plain set of documents of DocStore to a client that    *)
(* never overwrites: a call of add, with its seals and merges, takes       *)
(* nothing away, erase and nothing else removes ids, and a callback        *)
(* changes nothing.                                                        *)
THEOREM IndexIsDocStore == ASSUME ~Overwrite PROVE Spec => ImplementsDocStore
<1>1. Init => Store!Init
  <2> SUFFICES ASSUME Init PROVE Visible = {} /\ added = 0 /\ pc = "idle"
    BY DEF Store!Init
  <2>1. SInv /\ docs = {} /\ added = 0 /\ pc = "idle"
    BY InitSInv DEF Init
  <2>. QED  BY <2>1 DEF SInv
<1>2. ASSUME IInv, SInv, [Next]_vars PROVE [Store!Next]_<<Visible, added, pc # "idle">>
  <2>1. ASSUME NEW ds \in Calls, Add(ds) PROVE Store!Next
    <3>1. UNCHANGED <<Visible, added>> /\ pc = "idle" /\ pc' = "add"
      BY <1>2, <2>1, AddSInv DEF Add
    <3>. QED  BY <3>1 DEF Store!Next, Store!CallAdd
  <2>2. ASSUME NEW ds \in (SUBSET Doc) \ {{}}, Erase(ds) PROVE Store!Next
    <3>1. /\ Visible' = {v \in Visible : v[1] \notin ds} /\ added' = added
          /\ pc = "idle" /\ pc' = "idle"
      BY <1>2, <2>2, EraseSInv DEF Erase
    <3>. QED  BY <3>1 DEF Store!Next, Store!EraseIds
  <2>3. ASSUME AddBatch PROVE Store!Next
    BY <1>2, <2>3, AddBatchSInv, AddBatchRefines DEF Store!Next
  <2>4. ASSUME MergePair \/ MergeLevelEnd PROVE UNCHANGED <<Visible, added, pc>>
    <3>1. pc = "merge" /\ pc' = "merge" /\ added' = added
      BY <2>4 DEF MergePair, MergeLevelEnd, InLoop
    <3>. QED  BY <1>2, <3>1, MergeInvisibleStep
  <2>5. ASSUME AddDone \/ MergeSkip \/ MergeEnd \/ RunCallback \/ UNCHANGED vars
        PROVE  [Store!Next]_<<Visible, added, pc # "idle">>
    <3>1. UNCHANGED <<Visible, added>>
      BY <1>2, <2>5, QuietSInv
    <3>2. pc' = pc \/ (pc # "idle" /\ pc' # "idle") \/ (pc # "idle" /\ pc' = "idle")
      BY <2>5 DEF AddDone, MergeSkip, MergeEnd, InLoop, RunCallback, vars
    <3>. QED  BY <3>1, <3>2 DEF Store!Next, Store!AddReturn
  <2>. QED  BY <1>2, <2>1, <2>2, <2>3, <2>4, <2>5 DEF Next, AddStep
<1>. QED  BY <1>1, <1>2, StoreInvariance, PTL DEF Spec, ImplementsDocStore, Store!Spec
-----------------------------------------------------------------------------
(* Segments on their way to the client, and ids on their way out: posted,  *)
(* or still among the locals of add and merge.                             *)
Inserting(p) == p \in inserted \/ \E k \in DOMAIN posted : p \in posted[k].inserted
ErasedFrom(k, e) == e \in erased \/ \E l \in DOMAIN posted : k <= l /\ e \in posted[l].erased

(* A segment of the levels has reached the client or will, and no          *)
(* invocation takes its id away.                                           *)
LevelsArrive ==
  \A p \in LevelSegments :
    /\ heap[p].seg_id \in published \/ Inserting(p)
    /\ ~ErasedFrom(1, heap[p].seg_id)

(* Any other id the client has, or will read from a segment that has left  *)
(* the levels, is taken away later.                                        *)
OthersLeave ==
  /\ \A e \in published :
       (\A p \in LevelSegments : heap[p].seg_id # e) => ErasedFrom(1, e)
  /\ \A k \in DOMAIN posted : \A p \in posted[k].inserted :
       p \notin LevelSegments => ErasedFrom(k, heap[p].seg_id)
  /\ \A p \in inserted : p \notin LevelSegments => heap[p].seg_id \in erased

(* Only ids that rand() has returned are on their way out, the id of the   *)
(* open segment is not, and the locals are empty outside add and merge.    *)
ErasedAreOld ==
  /\ \A k \in DOMAIN posted : \A e \in posted[k].erased : e <= rand
  /\ ~ErasedFrom(1, heap[last_].seg_id)
  /\ pc = "merge" => (erased = {} <=> inserted = {})
  /\ pc = "idle" => inserted = {}

(* What add has sealed is in the levels, and what merge has merged is one  *)
(* level above the one it works on, out of its own reach.                  *)
InsertedInLevels ==
  /\ pc = "add" => inserted \subseteq LevelSegments
  /\ pc = "merge" => \A p \in inserted :
       i + 1 \in DOMAIN levels /\ \E k \in DOMAIN levels[i + 1] : levels[i + 1][k] = p

(* No invocation takes away an id that it announces.                       *)
NoneWithdrawn ==
  \A k \in DOMAIN posted : \A p \in posted[k].inserted :
    heap[p].seg_id \notin posted[k].erased

PInv == IInv /\ LevelsArrive /\ ErasedAreOld /\ InsertedInLevels /\ NoneWithdrawn

(* What a step does to the invocations.  The ids of an index that its      *)
(* owner has destroyed never leave, so OthersLeave is kept, not assumed.   *)
Arrivals == LevelsArrive' /\ (OthersLeave => OthersLeave') /\ ErasedAreOld'
-----------------------------------------------------------------------------
(* push_back keeps the slots there are.                                    *)
LEMMA PushAtKeeps ==
  ASSUME NEW S, NEW ls \in Seq(Seq(S)), NEW l \in Nat \ {0}, NEW p \in S,
         NEW m \in DOMAIN ls, NEW k \in DOMAIN ls[m]
  PROVE  LET r == PushAt(ls, l, p)
         IN  m \in DOMAIN r /\ k \in DOMAIN r[m] /\ r[m][k] = ls[m][k]
<1> DEFINE n == IF l > Len(ls) THEN l ELSE Len(ls)
           r == PushAt(ls, l, p)
<1>1. m \in 1..n /\ m <= Len(ls) /\ ls[m] \in Seq(S) /\ DOMAIN r = 1..n
  BY DEF PushAt
<1>2. r[m] = IF m = l THEN Append(ls[m], p) ELSE ls[m]
  BY <1>1 DEF PushAt, Level
<1>3. k \in DOMAIN r[m] /\ r[m][k] = ls[m][k]
  BY <1>1, <1>2
<1>. QED  BY <1>1, <1>3

(* The merge of a pair keeps the other slots.                              *)
LEMMA RemovePairKeeps ==
  ASSUME NEW S, NEW s \in Seq(S), NEW k \in Nat \ {0}, k < Len(s),
         NEW m \in DOMAIN s, m # k, m # k + 1
  PROVE  \E o \in DOMAIN RemovePair(s, k) : RemovePair(s, k)[o] = s[m]
<1> DEFINE o == IF m < k THEN m ELSE m - 2
<1>1. DOMAIN RemovePair(s, k) = 1..(Len(s) - 2) /\ o \in 1..(Len(s) - 2)
  BY DEF RemovePair
<1>2. RemovePair(s, k)[o] = s[m]
  BY <1>1 DEF RemovePair
<1>. QED  BY <1>1, <1>2
-----------------------------------------------------------------------------
(* Pointers in invocations are to segments, and ids are numbers.           *)
LEMMA PostedType ==
  ASSUME TypeOK
  PROVE  /\ \A k \in DOMAIN posted : posted[k].inserted \subseteq Objects
         /\ \A k \in DOMAIN posted : posted[k].erased \subseteq Nat
         /\ inserted \subseteq Objects /\ LevelSegments \subseteq Objects
         /\ last_ \in Objects /\ rand \in Nat /\ erased \subseteq Nat
         /\ Len(posted) \in Nat /\ DOMAIN posted = 1..Len(posted)
<1>1. \A k \in DOMAIN posted : posted[k] \in Invocations
  BY DEF TypeOK
<1>. QED  BY <1>1 DEF TypeOK, Invocations, LevelSegments

(* Steps that leave the levels, the ids and the callback as they are.      *)
LEMMA CallbackFrame ==
  ASSUME TypeOK, LevelsArrive, ErasedAreOld, LevelSegments' = LevelSegments,
         \A p \in Objects : heap'[p].seg_id = heap[p].seg_id,
         UNCHANGED <<last_, rand, posted, published, erased, inserted>>,
         pc' = "merge" => (erased = {} <=> inserted = {}), pc' = "idle" => inserted = {}
  PROVE  Arrivals
<1>1. LevelsArrive'
  BY PostedType DEF LevelsArrive, Inserting, ErasedFrom
<1>2. OthersLeave => OthersLeave'
  BY PostedType DEF OthersLeave, ErasedFrom
<1>3. ErasedAreOld'
  BY PostedType DEF ErasedAreOld, ErasedFrom
<1>. QED  BY <1>1, <1>2, <1>3 DEF Arrivals

(* Steps that post the locals, which are both filled, or both empty, or    *)
(* only inserted segments: what is on its way stays on its way.            *)
LEMMA PostStep ==
  ASSUME TypeOK, LevelsArrive, ErasedAreOld, UNCHANGED <<heap, levels, last_, rand, published>>,
         erased' = {}, inserted' = {},
         \/ inserted = {} /\ erased = {} /\ UNCHANGED posted
         \/ posted' = Append(posted, [erased |-> erased, inserted |-> inserted]),
         \A e \in erased : e <= rand
  PROVE  Arrivals
<1>1. LevelSegments' = LevelSegments
  BY DEF LevelSegments, Objects
<1>2. CASE inserted = {} /\ erased = {} /\ UNCHANGED posted
  BY <1>1, <1>2, CallbackFrame
<1>3. CASE posted' = Append(posted, [erased |-> erased, inserted |-> inserted])
  <2>0. PICK n \in Nat : n = Len(posted) + 1
    BY DEF TypeOK
  <2>1. /\ DOMAIN posted' = DOMAIN posted \cup {n} /\ \A k \in DOMAIN posted : posted'[k] = posted[k]
        /\ posted'[n] = [erased |-> erased, inserted |-> inserted]
        /\ n \in Nat /\ \A k \in DOMAIN posted : k \in Nat /\ k <= n
        /\ 1 <= n
    BY <1>3, <2>0 DEF TypeOK
  <2>2. /\ posted'[n].erased = erased /\ posted'[n].inserted = inserted
    BY <2>1
  <2>3. \A p : Inserting(p) => Inserting(p)'
    BY <2>1, <2>2 DEF Inserting
  <2>4. \A e, k : (k \in DOMAIN posted \/ k = 1) => (ErasedFrom(k, e)' <=> ErasedFrom(k, e))
    BY <2>1, <2>2 DEF ErasedFrom
  <2>5. ASSUME NEW e \in erased
        PROVE  ErasedFrom(n, e)'
    <3>1. n \in DOMAIN posted' /\ n <= n /\ e \in posted'[n].erased
      BY <2>1, <2>2
    <3>. QED  BY <3>1 DEF ErasedFrom
  <2>6. LevelsArrive'
    BY <1>1, <2>3, <2>4 DEF LevelsArrive
  <2>7. ASSUME OthersLeave PROVE OthersLeave'
    <3>1. \A e \in published : (\A p \in LevelSegments : heap[p].seg_id # e) => ErasedFrom(1, e)'
      BY <2>7, <2>4 DEF OthersLeave
    <3>2. ASSUME NEW k \in DOMAIN posted', NEW p \in posted'[k].inserted, p \notin LevelSegments
          PROVE  ErasedFrom(k, heap[p].seg_id)'
      <4>1. CASE k = n
        BY <2>7, <2>2, <2>5, <3>2, <4>1 DEF OthersLeave
      <4>2. CASE k \in DOMAIN posted
        BY <2>7, <2>1, <2>4, <3>2, <4>2 DEF OthersLeave
      <4>. QED  BY <2>1, <4>1, <4>2
    <3>. QED  BY <2>7, <1>1, <3>1, <3>2 DEF OthersLeave
  <2>8. ErasedAreOld'
    BY <2>1, <2>2, <2>4 DEF ErasedAreOld
  <2>. QED  BY <2>6, <2>7, <2>8 DEF Arrivals
<1>. QED  BY <1>2, <1>3

(* The client handles the oldest invocation.                               *)
LEMMA RunStep ==
  ASSUME PInv, RunCallback
  PROVE  Arrivals
<1>1. /\ TypeOK /\ posted # <<>> /\ posted' = Tail(posted) /\ erased = {} /\ inserted = {}
      /\ pc = "idle" /\ UNCHANGED <<heap, levels, last_, rand, erased, inserted, pc>>
      /\ published' = (published \cup {heap[p].seg_id : p \in Head(posted).inserted})
                        \ Head(posted).erased
  BY DEF PInv, IInv, Bookkeeping, InLoop, ErasedAreOld, RunCallback, store, locals
<1>2. LevelSegments' = LevelSegments /\ Objects' = Objects
  BY <1>1 DEF LevelSegments, Objects
<1>3. /\ DOMAIN posted = 1..Len(posted) /\ Len(posted) \in Nat \ {0} /\ Head(posted) = posted[1]
      /\ DOMAIN posted' = 1..(Len(posted) - 1)
      /\ \A k \in DOMAIN posted' : posted'[k] = posted[k + 1] /\ k + 1 \in DOMAIN posted
      /\ \A k \in DOMAIN posted : k # 1 => k - 1 \in DOMAIN posted' /\ posted'[k - 1] = posted[k]
  BY <1>1 DEF TypeOK
<1>4. \A e : ErasedFrom(1, e)' => ErasedFrom(1, e)
  BY <1>1, <1>3 DEF ErasedFrom
<1>5. ASSUME NEW k \in DOMAIN posted, NEW e, ErasedFrom(k, e), k > 1 \/ e \notin posted[1].erased
      PROVE  ErasedFrom(IF k > 1 THEN k - 1 ELSE 1, e)'
  <2>1. PICK l \in DOMAIN posted : k <= l /\ e \in posted[l].erased
    BY <1>1, <1>5 DEF ErasedFrom
  <2>2. l # 1 /\ l \in Nat /\ k \in Nat
    BY <1>3, <1>5, <2>1
  <2>3. l - 1 \in DOMAIN posted' /\ e \in posted'[l - 1].erased
    BY <1>3, <2>1, <2>2
  <2>4. (IF k > 1 THEN k - 1 ELSE 1) <= l - 1
    BY <1>3, <2>1, <2>2
  <2>. QED  BY <2>3, <2>4 DEF ErasedFrom
<1>6. LevelsArrive'
  <2> SUFFICES ASSUME NEW p \in LevelSegments
               PROVE  heap[p].seg_id \in published' \/ Inserting(p)'
    BY <1>1, <1>2, <1>4 DEF LevelsArrive, PInv
  <2>1. /\ heap[p].seg_id \in published \/ \E k \in DOMAIN posted : p \in posted[k].inserted
        /\ heap[p].seg_id \notin posted[1].erased
    BY <1>1, <1>3 DEF PInv, LevelsArrive, Inserting, ErasedFrom
  <2>2. CASE heap[p].seg_id \in published \/ p \in posted[1].inserted
    BY <1>1, <1>3, <2>1, <2>2
  <2>3. ASSUME NEW k \in DOMAIN posted, k # 1, p \in posted[k].inserted
        PROVE  Inserting(p)'
    BY <1>3, <2>3 DEF Inserting
  <2>. QED  BY <2>1, <2>2, <2>3
<1>7. ASSUME OthersLeave PROVE OthersLeave'
  <2>1. ASSUME NEW e \in published', \A p \in LevelSegments : heap[p].seg_id # e
        PROVE  ErasedFrom(1, e)'
    <3>1. e \notin posted[1].erased
      BY <1>1, <1>3, <2>1
    <3>2. ErasedFrom(1, e)
      <4>1. CASE e \in published
        BY <1>7, <2>1, <4>1 DEF PInv, OthersLeave
      <4>2. ASSUME NEW p \in posted[1].inserted, e = heap[p].seg_id
            PROVE  ErasedFrom(1, e)
        BY <1>7, <1>3, <2>1, <4>2 DEF PInv, OthersLeave
      <4>. QED  BY <1>1, <1>3, <2>1, <4>1, <4>2
    <3>. QED  BY <1>3, <1>5, <3>1, <3>2
  <2>2. ASSUME NEW k \in DOMAIN posted', NEW p \in posted'[k].inserted, p \notin LevelSegments
        PROVE  ErasedFrom(k, heap[p].seg_id)'
    <3>1. k + 1 \in DOMAIN posted /\ p \in posted[k + 1].inserted /\ k \in Nat /\ k >= 1
      BY <1>3, <2>2
    <3>2. ErasedFrom(k + 1, heap[p].seg_id)
      BY <1>7, <2>2, <3>1 DEF PInv, OthersLeave
    <3>3. ErasedFrom((k + 1) - 1, heap[p].seg_id)'
      BY <1>1, <1>5, <3>1, <3>2
    <3>. QED  BY <3>1, <3>3
  <2>. QED  BY <1>7, <1>1, <1>2, <2>1, <2>2 DEF OthersLeave
<1>8. ErasedAreOld'
  BY <1>1, <1>3, <1>4 DEF PInv, ErasedAreOld
<1>. QED  BY <1>6, <1>7, <1>8 DEF Arrivals

(* Sealing: the open segment enters the levels and is on its way.          *)
LEMMA SealLevels ==
  ASSUME IInv, AddBatch, Seal(add_batch(heap[last_], added, SubSeq(todo, 1, batch)))
  PROVE  /\ LevelSegments' = LevelSegments \cup {last_}
         /\ \A p \in Objects : heap'[p].seg_id = heap[p].seg_id
         /\ \A p \in Objects : p # last_ => heap'[p] = heap[p]
         /\ heap'[last_'].seg_id = rand + 1
<1> DEFINE seg == add_batch(heap[last_], added, SubSeq(todo, 1, batch))
           top == LevelFor(Threshold)
<1>1. /\ TypeOK /\ last_ \in Objects /\ rand \in Nat /\ heap \in Seq(Segments)
      /\ Len(heap) \in Nat /\ Objects = 1..Len(heap)
  BY HeapType DEF IInv, TypeOK
<1>2. seg \in Segments /\ seg.seg_id = heap[last_].seg_id
  BY OpenSegment
<1>3. NewSegment(rand + 1).seg_id = rand + 1
  BY DEF NewSegment
<1>4. /\ heap' = Append([heap EXCEPT ![last_] = seg], NewSegment(rand + 1))
      /\ last_' = Len(heap) + 1 /\ levels' = PushAt(levels, top, last_)
  BY DEF Seal
<1>5. levels \in Seq(Seq(Objects)) /\ top \in Nat \ {0}
  BY <1>1, LevelForType, IndexAssumption DEF TypeOK
<1> HIDE DEF seg, top
<1>6. /\ Objects' = 1..(Len(heap) + 1) /\ heap'[last_] = seg
      /\ heap'[last_'] = NewSegment(rand + 1)
      /\ \A p \in Objects : p # last_ => heap'[p] = heap[p]
  <2> DEFINE h == [heap EXCEPT ![last_] = seg]
  <2>1. /\ h \in Seq(Segments) /\ Len(h) = Len(heap) /\ h[last_] = seg
        /\ \A p \in Objects : p # last_ => h[p] = heap[p]
    BY <1>1, <1>2, ExceptSeq
  <2> HIDE DEF h
  <2>2. heap' = Append(h, NewSegment(rand + 1))
    BY <1>4 DEF h
  <2>. QED  BY <1>1, <1>4, <2>1, <2>2 DEF Objects
<1>7. ASSUME NEW p \in LevelSegments' PROVE p \in LevelSegments \cup {last_}
  <2> DEFINE slot == Len(Level(levels, top)) + 1
  <2>1. PICK m \in DOMAIN levels' : \E k \in DOMAIN levels'[m] : levels'[m][k] = p
    BY <1>7 DEF LevelSegments
  <2>2. PICK k \in DOMAIN levels'[m] : levels'[m][k] = p
    BY <2>1
  <2>3. levels'[top][slot] = last_ /\ OnlyNewSlot(levels', levels, top, slot)
    BY ONLY <1>1, <1>4, <1>5, PushAtProps
  <2>4. p = last_ \/ (m \in DOMAIN levels /\ k \in DOMAIN levels[m] /\ levels[m][k] = p)
    BY <2>2, <2>3 DEF OnlyNewSlot
  <2>5. m \in DOMAIN levels /\ k \in DOMAIN levels[m] => levels[m][k] \in Objects
    BY <1>5
  <2>. QED  BY <2>4, <2>5 DEF LevelSegments
<1>8. LevelSegments \subseteq LevelSegments'
  <2> SUFFICES ASSUME NEW p \in LevelSegments PROVE p \in LevelSegments'
    OBVIOUS
  <2>1. PICK m \in DOMAIN levels : \E k \in DOMAIN levels[m] : levels[m][k] = p
    BY DEF LevelSegments
  <2>2. PICK k \in DOMAIN levels[m] : levels[m][k] = p
    BY <2>1
  <2>3. m \in DOMAIN levels' /\ k \in DOMAIN levels'[m] /\ levels'[m][k] = p
    BY <1>1, <1>4, <1>5, <2>2, PushAtKeeps
  <2>4. p \in Objects'
    BY <1>1, <1>6 DEF LevelSegments
  <2>. QED  BY <2>3, <2>4 DEF LevelSegments
<1>9. last_ \in LevelSegments'
  <2>1. \E m \in DOMAIN levels' : \E k \in DOMAIN levels'[m] : levels'[m][k] = last_
    BY ONLY <1>1, <1>4, <1>5, PushAtProps
  <2>. QED  BY <1>1, <1>6, <2>1 DEF LevelSegments
<1>. QED  BY <1>1, <1>2, <1>3, <1>6, <1>7, <1>8, <1>9

(* Sealing the open segment: it goes to the levels and into the next call. *)
LEMMA SealStep ==
  ASSUME PInv, AddBatch, Seal(add_batch(heap[last_], added, SubSeq(todo, 1, batch)))
  PROVE  Arrivals
<1>1. /\ TypeOK /\ Bookkeeping /\ pc = "add" /\ erased = {} /\ rand \in Nat
      /\ UNCHANGED <<pc, erased, posted, published>>
      /\ rand' = rand + 1 /\ inserted' = inserted \cup {last_}
  BY DEF PInv, IInv, TypeOK, AddBatch, Seal, Bookkeeping, InLoop, client
<1>2. /\ LevelSegments' = LevelSegments \cup {last_}
      /\ \A p \in Objects : heap'[p].seg_id = heap[p].seg_id
      /\ heap'[last_'].seg_id = rand + 1
  BY SealLevels DEF PInv
<1>3. \A k, e : ErasedFrom(k, e)' <=> ErasedFrom(k, e)
  BY <1>1 DEF ErasedFrom
<1>4. LevelsArrive'
  <2>1. \A p : Inserting(p) \/ p = last_ => Inserting(p)'
    BY <1>1 DEF Inserting
  <2>. QED
    BY <1>1, <1>2, <1>3, <2>1, PostedType DEF PInv, LevelsArrive, ErasedAreOld
<1>5. OthersLeave => OthersLeave'
  BY <1>1, <1>2, <1>3, PostedType DEF PInv, OthersLeave
<1>6. ErasedAreOld'
  <2>1. ~ErasedFrom(1, rand + 1)
    BY <1>1, PostedType DEF PInv, ErasedAreOld, ErasedFrom
  <2>2. \A k \in DOMAIN posted : \A e \in posted[k].erased : e <= rand + 1
    BY <1>1, PostedType DEF PInv, ErasedAreOld
  <2>. QED  BY <1>1, <1>2, <1>3, <2>1, <2>2 DEF ErasedAreOld
<1>. QED  BY <1>4, <1>5, <1>6 DEF Arrivals

(* A merged pair: the second segment leaves the levels, and no other.      *)
LEMMA PairLevelSegments ==
  ASSUME IInv, MergePair
  PROVE  LevelSegments' = LevelSegments \ {levels[i][j + 1]}
<1> DEFINE a == levels[i][j]
           b == levels[i][j + 1]
           rem == RemovePair(levels[i], j)
           ls == [levels EXCEPT ![i] = rem]
<1>1. /\ levels \in Seq(Seq(Objects)) /\ i \in Nat \ {0} /\ j \in Nat \ {0} /\ i + 1 \in Nat \ {0}
      /\ Objects' = Objects /\ levels' = PushAt(ls, i + 1, a)
  <2>1. levels \in Seq(Seq(Objects)) /\ i \in Nat \ {0} /\ j \in Nat \ {0}
    BY DEF IInv, TypeOK
  <2>2. levels' = PushAt(ls, i + 1, a)
    BY DEF MergePair
  <2>3. Objects' = Objects
    BY PairHeap
  <2>. QED  BY <2>1, <2>2, <2>3
<1>2. /\ i \in DOMAIN levels /\ levels[i] \in Seq(Objects) /\ j < Len(levels[i])
      /\ j \in DOMAIN levels[i] /\ j + 1 \in DOMAIN levels[i] /\ a # b
      /\ a \in LevelSegments /\ a \in Objects
  BY <1>1, PairFacts
<1>3. rem \in Seq(Objects)
  BY <1>1, <1>2, RemovePairProps
<1>4. /\ ls \in Seq(Seq(Objects)) /\ DOMAIN ls = DOMAIN levels
      /\ ls[i] = rem /\ \A l \in DOMAIN levels : l # i => ls[l] = levels[l]
  BY <1>1, <1>2, <1>3, ExceptSeq
<1>5. ASSUME NEW p \in LevelSegments' PROVE p \in LevelSegments \ {b}
  <2>1. PICK l \in DOMAIN levels' : \E k \in DOMAIN levels'[l] : levels'[l][k] = p
    BY <1>5 DEF LevelSegments
  <2>2. PICK k \in DOMAIN levels'[l] : levels'[l][k] = p
    BY <2>1
  <2>3. \/ p = a
        \/ /\ l \in DOMAIN levels /\ OldSlot(l, k) \in DOMAIN levels[l]
           /\ p = levels[l][OldSlot(l, k)] /\ p # b
    BY <2>2, PairLevels
  <2>4. p \in Objects
    BY <1>1, <1>5 DEF LevelSegments
  <2>. QED  BY <1>2, <2>3, <2>4 DEF LevelSegments
<1> HIDE DEF a, b, rem, ls
<1>6. a \in LevelSegments'
  <2> DEFINE t == Len(Level(ls, i + 1)) + 1
  <2>1. i + 1 \in DOMAIN levels' /\ t \in DOMAIN levels'[i + 1] /\ levels'[i + 1][t] = a
    BY ONLY <1>1, <1>2, <1>4, PushAtProps
  <2> HIDE DEF t
  <2>. QED  BY <1>1, <1>2, <2>1 DEF LevelSegments
<1>7. ASSUME NEW p \in LevelSegments, p # a, p # b PROVE p \in LevelSegments'
  <2>1. PICK l \in DOMAIN levels : \E k \in DOMAIN levels[l] : levels[l][k] = p
    BY DEF LevelSegments
  <2>2. PICK k \in DOMAIN levels[l] : levels[l][k] = p
    BY <2>1
  <2>3. \E o \in DOMAIN ls[l] : ls[l][o] = p
    <3>1. CASE l # i
      BY <1>4, <2>2, <3>1
    <3>2. CASE l = i
      <4>1. k # j /\ k # j + 1
        BY <1>7, <2>2, <3>2 DEF a, b
      <4>2. \E o \in DOMAIN rem : rem[o] = levels[i][k]
        BY <1>1, <1>2, <2>2, <3>2, <4>1, RemovePairKeeps DEF rem
      <4>. QED  BY <1>4, <2>2, <3>2, <4>2
    <3>. QED  BY <3>1, <3>2
  <2>4. PICK o \in DOMAIN ls[l] : ls[l][o] = p
    BY <2>3
  <2>5. l \in DOMAIN levels' /\ o \in DOMAIN levels'[l] /\ levels'[l][o] = p
    BY <1>1, <1>2, <1>4, <2>4, PushAtKeeps, SMTT(30)
  <2>. QED  BY <1>1, <2>5 DEF LevelSegments
<1>. QED  BY <1>5, <1>6, <1>7 DEF b

(* The absorbing segment is on its way under its new id, its old one and   *)
(* that of the absorbed segment are on their way out.                      *)
LEMMA PairStep ==
  ASSUME PInv, MergePair
  PROVE  Arrivals
<1> DEFINE a == levels[i][j]
           b == levels[i][j + 1]
<1>1. /\ TypeOK /\ Bookkeeping /\ LevelsDisjoint /\ rand \in Nat
      /\ UNCHANGED <<last_, pc, posted, published>> /\ pc = "merge"
      /\ rand' = rand + 1 /\ inserted' = inserted \cup {a}
      /\ erased' = erased \cup {heap[a].seg_id, heap[b].seg_id}
  BY DEF PInv, IInv, TypeOK, MergePair, InLoop, client
<1>2. /\ LevelSegments' = LevelSegments \ {b} /\ a \in LevelSegments /\ b \in LevelSegments
      /\ a # b /\ heap'[a].seg_id = rand + 1
      /\ \A p \in Objects : p # a => heap'[p].seg_id = heap[p].seg_id
  BY PairLevelSegments, PairFacts, PairHeap DEF PInv
<1>3. PICK ia \in Nat : ia = heap[a].seg_id
  BY <1>1, <1>2, HeapType, PostedType
<1>4. PICK ib \in Nat : ib = heap[b].seg_id
  BY <1>1, <1>2, HeapType, PostedType
<1>5. PICK ra \in Objects : ra = a
  BY <1>1, <1>2, PostedType
<1>6. PICK rb \in Objects : rb = b
  BY <1>1, <1>2, PostedType
<1> HIDE DEF a, b
<1>7. /\ ra # rb /\ ra # last_ /\ rb # last_ /\ ia <= rand /\ ib <= rand
      /\ \A p \in Objects : heap[p].seg_id = ia => p = ra
      /\ \A p \in Objects : heap[p].seg_id = ib => p = rb
      /\ \A p \in Objects : heap[p].seg_id \in Nat
  BY <1>1, <1>2, <1>3, <1>4, <1>5, <1>6, HeapType DEF LevelsDisjoint, Bookkeeping
<1>8. \A k, e : ErasedFrom(k, e)' <=> ErasedFrom(k, e) \/ e \in {ia, ib}
  BY <1>1, <1>3, <1>4 DEF ErasedFrom
<1>9. \A p : Inserting(p)' <=> Inserting(p) \/ p = ra
  BY <1>1, <1>5 DEF Inserting
<1>10. ~ErasedFrom(1, rand + 1)
  BY <1>1, PostedType, SMTT(30) DEF PInv, ErasedAreOld, ErasedFrom, Bookkeeping
<1>11. LevelsArrive'
  <2> SUFFICES ASSUME NEW p \in LevelSegments \ {b}
               PROVE  /\ heap'[p].seg_id \in published \/ Inserting(p)'
                      /\ ~ErasedFrom(1, heap[p].seg_id)'
    BY <1>1, <1>2 DEF LevelsArrive
  <2>1. CASE p = a
    BY <1>1, <1>2, <1>3, <1>4, <1>5, <1>7, <1>9, <1>10, <2>1, SMTT(30) DEF ErasedFrom
  <2>2. CASE p # a
    <3>1. p \in Objects /\ heap'[p].seg_id = heap[p].seg_id
      BY <1>1, <1>2, <2>2, PostedType
    <3>2. heap[p].seg_id \notin {ia, ib}
      BY <1>5, <1>6, <1>7, <2>2, <3>1
    <3>. QED  BY <1>1, <1>3, <1>4, <1>9, <3>1, <3>2 DEF PInv, LevelsArrive, ErasedFrom
  <2>. QED  BY <2>1, <2>2
<1>12. ASSUME OthersLeave PROVE OthersLeave'
  <2>1. ASSUME NEW e \in published, \A p \in LevelSegments' : heap'[p].seg_id # e
        PROVE  ErasedFrom(1, e)'
    <3>1. CASE e \in {ia, ib}
      BY <1>8, <3>1
    <3>2. CASE e \notin {ia, ib}
      <4>1. \A p \in LevelSegments : heap[p].seg_id # e
        BY <1>1, <1>2, <1>3, <1>4, <2>1, <3>2, PostedType
      <4>. QED  BY <1>12, <1>8, <4>1 DEF PInv, OthersLeave
    <3>. QED  BY <3>1, <3>2
  <2>2. ASSUME NEW p \in Objects, p \notin LevelSegments'
        PROVE  /\ p \notin LevelSegments \/ p = b
               /\ heap'[p].seg_id = heap[p].seg_id
               /\ p = b => heap[p].seg_id = ib
    BY <1>2, <1>4, <2>2
  <2>3. ASSUME NEW k \in DOMAIN posted, NEW p \in posted[k].inserted, p \notin LevelSegments'
        PROVE  ErasedFrom(k, heap[p].seg_id)'
    BY <1>12, <1>1, <1>4, <2>2, <2>3, PostedType DEF PInv, OthersLeave, ErasedFrom
  <2>4. ASSUME NEW p \in inserted', p \notin LevelSegments'
        PROVE  heap'[p].seg_id \in erased'
    BY <1>12, <1>1, <1>2, <1>4, <2>2, <2>4, PostedType DEF PInv, OthersLeave
  <2>. QED  BY <1>12, <1>1, <2>1, <2>3, <2>4 DEF OthersLeave
<1>13. ErasedAreOld'
  <2>1. ~ErasedFrom(1, heap[last_].seg_id)'
    <3>1. heap'[last_].seg_id = heap[last_].seg_id /\ heap[last_].seg_id \notin {ia, ib}
      BY <1>1, <1>2, <1>5, <1>7, PostedType
    <3>. QED  BY <1>1, <1>3, <1>4, <3>1 DEF PInv, ErasedAreOld, ErasedFrom
  <2>2. \A k \in DOMAIN posted : \A e \in posted[k].erased : e <= rand + 1
    BY <1>1, PostedType, SMTT(30) DEF PInv, ErasedAreOld
  <2>. QED  BY <1>1, <2>1, <2>2 DEF ErasedAreOld
<1>. QED  BY <1>11, <1>12, <1>13 DEF Arrivals
-----------------------------------------------------------------------------
(* Every step keeps what is on its way to the client in order.             *)
LEMMA CallbackStep ==
  ASSUME PInv, [Operation]_vars
  PROVE  Arrivals
<1>1. TypeOK /\ Bookkeeping /\ LevelsArrive /\ ErasedAreOld /\ IInv
  BY DEF PInv, IInv
<1>2. ~InLoop => erased = {}
  BY <1>1 DEF Bookkeeping
<1>3. CASE UNCHANGED <<store, posted, published, erased, inserted, pc>>
  BY <1>1, <1>3, CallbackFrame DEF store, LevelSegments, Objects, ErasedAreOld
<1>4. ASSUME NEW ds \in Seq(Doc), Add(ds) PROVE Arrivals
  <2>1. UNCHANGED <<store, posted, published, erased, inserted>> /\ pc' = "add"
    BY <1>4 DEF Add, client
  <2>. QED  BY <1>1, <2>1, CallbackFrame DEF store, LevelSegments, Objects
<1>5. ASSUME NEW ds \in SUBSET Doc, Erase(ds)
      PROVE  Arrivals
  <2>1. /\ UNCHANGED <<last_, levels, rand, posted, published, erased, inserted, pc>>
        /\ heap' = [p \in Objects |-> IF Searched(p) THEN erase_batch(heap[p], ds) ELSE heap[p]]
    BY <1>5 DEF Erase, client, locals
  <2>2. Objects' = Objects
    BY <1>1, <2>1, HeapType DEF Objects
  <2>3. \A p \in Objects : heap'[p].seg_id = heap[p].seg_id
    BY <1>1, <2>1, HeapType DEF erase_batch, Segments
  <2>4. LevelSegments' = LevelSegments
    BY <2>1, <2>2 DEF LevelSegments
  <2>. QED  BY <1>1, <2>1, <2>3, <2>4, CallbackFrame DEF ErasedAreOld
<1>6. CASE AddBatch
  <2> DEFINE seg == add_batch(heap[last_], added, SubSeq(todo, 1, batch))
  <2>1. CASE Seal(seg)
    BY <1>6, <2>1, SealStep
  <2>2. CASE KeepOpen(seg)
    <3>1. seg.seg_id = heap[last_].seg_id
      BY <1>1, <1>6, OpenSegment
    <3> HIDE DEF seg
    <3>2. /\ UNCHANGED <<last_, levels, rand, posted, published, erased, inserted, pc>>
          /\ heap' = [heap EXCEPT ![last_] = seg]
      BY <1>6, <2>2 DEF AddBatch, KeepOpen, client
    <3>3. Objects' = Objects
      BY <1>1, <3>2, HeapType DEF Objects
    <3>4. \A p \in Objects : heap'[p].seg_id = heap[p].seg_id
      BY <1>1, <3>1, <3>2 DEF Objects
    <3>5. LevelSegments' = LevelSegments
      BY <3>2, <3>3 DEF LevelSegments
    <3>. QED  BY <1>1, <3>2, <3>4, <3>5, CallbackFrame DEF ErasedAreOld
  <2>. QED  BY <1>6, <2>1, <2>2 DEF AddBatch
<1>7. CASE AddDone
  <2>1. erased = {} /\ erased' = {} /\ inserted' = {}
    BY <1>2, <1>7 DEF AddDone, InLoop
  <2>. QED  BY <1>1, <1>7, <2>1, PostStep DEF AddDone, Callback, store
<1>8. CASE MergeSkip
  BY <1>3, <1>8 DEF MergeSkip, client
<1>9. CASE MergeLevelEnd
  <2>1. erased = {} <=> inserted = {}
    BY <1>1, <1>9 DEF MergeLevelEnd, InLoop, ErasedAreOld
  <2>2. \A e \in erased : e <= rand
    BY <1>1 DEF Bookkeeping
  <2>. QED  BY <1>1, <1>9, <2>1, <2>2, PostStep DEF MergeLevelEnd, Callback
<1>10. CASE MergeEnd
  <2>1. erased = {}
    BY <1>1, <1>2, <1>10 DEF MergeEnd, InLoop, TypeOK
  <2>2. UNCHANGED <<store, posted, published, erased, inserted>> /\ pc' = "idle" /\ inserted = {}
    BY <1>1, <1>10, <2>1 DEF MergeEnd, client, locals, ErasedAreOld
  <2>. QED  BY <1>1, <2>2, CallbackFrame DEF store, LevelSegments, Objects
<1>11. CASE UNCHANGED vars
  BY <1>3, <1>11 DEF vars, locals, client
<1>. QED
  BY <1>4, <1>5, <1>6, <1>7, <1>8, <1>9, <1>10, <1>11, PairStep, RunStep DEF Operation, AddStep

(* A merged pair moves up; what is there stays.                            *)
LEMMA PairAbove ==
  ASSUME IInv, MergePair
  PROVE  /\ i + 1 \in DOMAIN levels'
         /\ \E k \in DOMAIN levels'[i + 1] : levels'[i + 1][k] = levels[i][j]
         /\ i + 1 \in DOMAIN levels => \A k \in DOMAIN levels[i + 1] :
              k \in DOMAIN levels'[i + 1] /\ levels'[i + 1][k] = levels[i + 1][k]
<1> DEFINE a == levels[i][j]
           rem == RemovePair(levels[i], j)
           ls == [levels EXCEPT ![i] = rem]
<1>1. /\ levels \in Seq(Seq(Objects)) /\ i \in Nat \ {0} /\ j \in Nat \ {0} /\ i + 1 \in Nat \ {0}
      /\ i + 1 # i /\ levels' = PushAt(ls, i + 1, a)
  <2>1. levels \in Seq(Seq(Objects)) /\ i \in Nat \ {0} /\ j \in Nat \ {0}
    BY DEF IInv, TypeOK
  <2>2. levels' = PushAt(ls, i + 1, a)
    BY DEF MergePair
  <2>. QED  BY <2>1, <2>2
<1>2. /\ i \in DOMAIN levels /\ levels[i] \in Seq(Objects) /\ j < Len(levels[i])
      /\ a \in Objects
  BY <1>1, PairFacts
<1>3. rem \in Seq(Objects)
  BY <1>1, <1>2, RemovePairProps
<1>4. /\ ls \in Seq(Seq(Objects)) /\ DOMAIN ls = DOMAIN levels
      /\ \A l \in DOMAIN levels : l # i => ls[l] = levels[l]
  BY <1>1, <1>2, <1>3, ExceptSeq
<1> HIDE DEF a, rem, ls
<1>5. i + 1 \in DOMAIN levels' /\ \E k \in DOMAIN levels'[i + 1] : levels'[i + 1][k] = a
  <2> DEFINE t == Len(Level(ls, i + 1)) + 1
  <2>1. i + 1 \in DOMAIN levels' /\ t \in DOMAIN levels'[i + 1] /\ levels'[i + 1][t] = a
    BY ONLY <1>1, <1>2, <1>4, PushAtProps
  <2> HIDE DEF t
  <2>. QED  BY <2>1
<1>6. ASSUME i + 1 \in DOMAIN levels, NEW k \in DOMAIN levels[i + 1]
      PROVE  k \in DOMAIN levels'[i + 1] /\ levels'[i + 1][k] = levels[i + 1][k]
  <2>1. ls[i + 1] = levels[i + 1] /\ i + 1 \in DOMAIN ls
    BY <1>1, <1>4, <1>6
  <2>. QED  BY ONLY <1>1, <1>2, <1>4, <1>6, <2>1, PushAtKeeps
<1>. QED  BY <1>5, <1>6 DEF a

(* What a call will insert stays in the levels.                            *)
LEMMA InsertedStep ==
  ASSUME PInv, [Operation]_vars
  PROVE  InsertedInLevels'
<1>1. TypeOK /\ IInv /\ ErasedAreOld /\ InsertedInLevels
  BY DEF PInv, IInv
<1>2. CASE UNCHANGED <<heap, levels, inserted, pc, i>>
  BY <1>1, <1>2 DEF InsertedInLevels, LevelSegments, Objects
<1>3. CASE inserted' = {}
  BY <1>3 DEF InsertedInLevels
<1>4. CASE pc' = "idle"
  BY <1>4 DEF InsertedInLevels
<1>5. ASSUME NEW ds \in Seq(Doc), Add(ds) PROVE InsertedInLevels'
  BY <1>1, <1>3, <1>5 DEF Add, ErasedAreOld
<1>6. ASSUME NEW ds \in SUBSET Doc, Erase(ds) PROVE InsertedInLevels'
  BY <1>4, <1>6 DEF Erase
<1>7. CASE AddBatch
  <2> DEFINE seg == add_batch(heap[last_], added, SubSeq(todo, 1, batch))
  <2>1. pc = "add" /\ pc' = "add" /\ (Seal(seg) \/ KeepOpen(seg))
    BY <1>7 DEF AddBatch
  <2>2. CASE Seal(seg)
    <3>1. inserted' = inserted \cup {last_}
      BY <2>2 DEF Seal
    <3>2. LevelSegments' = LevelSegments \cup {last_}
      BY <1>1, <1>7, <2>2, SealLevels
    <3>. QED  BY <1>1, <2>1, <3>1, <3>2 DEF InsertedInLevels
  <2>3. CASE KeepOpen(seg)
    <3>1. /\ UNCHANGED <<levels, inserted>> /\ heap' = [heap EXCEPT ![last_] = seg]
      BY <2>3 DEF KeepOpen
    <3>2. Objects' = Objects
      BY <1>1, <3>1, HeapType DEF Objects
    <3>. QED  BY <1>1, <2>1, <3>1, <3>2 DEF InsertedInLevels, LevelSegments
  <2>. QED  BY <2>1, <2>2, <2>3
<1>8. CASE MergePair
  <2>1. /\ pc = "merge" /\ UNCHANGED <<pc, i>> /\ inserted' = inserted \cup {levels[i][j]}
    BY <1>8 DEF MergePair, InLoop
  <2>. QED  BY <1>1, <1>8, <2>1, PairAbove DEF InsertedInLevels
<1>9. CASE AddDone \/ MergeLevelEnd
  BY <1>3, <1>9 DEF AddDone, MergeLevelEnd
<1>10. CASE MergeSkip
  BY <1>2, <1>10 DEF MergeSkip, store
<1>11. CASE MergeEnd \/ RunCallback
  BY <1>4, <1>11 DEF MergeEnd, RunCallback
<1>12. CASE UNCHANGED vars
  BY <1>2, <1>12 DEF vars, store, locals
<1>. QED
  BY <1>5, <1>6, <1>7, <1>8, <1>9, <1>10, <1>11, <1>12 DEF Operation, AddStep

(* The inserted segments of a merge stay out of its reach, so it does not  *)
(* withdraw them; a segment renamed later gets an id that is in no         *)
(* invocation.                                                             *)
LEMMA WithdrawnStep ==
  ASSUME PInv, [Operation]_vars
  PROVE  NoneWithdrawn'
<1>1. TypeOK /\ IInv /\ Bookkeeping /\ ErasedAreOld /\ InsertedInLevels /\ NoneWithdrawn
  BY DEF PInv, IInv
<1>2. ASSUME UNCHANGED posted,
             \A p \in Objects : heap'[p].seg_id = heap[p].seg_id \/ heap'[p].seg_id = rand + 1
      PROVE  NoneWithdrawn'
  <2> SUFFICES ASSUME NEW k \in DOMAIN posted, NEW p \in posted[k].inserted
               PROVE  heap'[p].seg_id \notin posted[k].erased
    BY <1>2 DEF NoneWithdrawn
  <2>1. p \in Objects /\ rand \in Nat /\ posted[k].erased \subseteq Nat
    BY <1>1, PostedType
  <2>2. rand + 1 \notin posted[k].erased
    BY <1>1, <2>1 DEF ErasedAreOld
  <2>. QED  BY <1>1, <1>2, <2>1, <2>2 DEF NoneWithdrawn
<1>3. ASSUME UNCHANGED heap, inserted \subseteq LevelSegments,
             posted' = Append(posted, [erased |-> erased, inserted |-> inserted])
      PROVE  NoneWithdrawn'
  <2>1. PICK n \in Nat : n = Len(posted) + 1
    BY <1>1 DEF TypeOK
  <2>2. /\ DOMAIN posted' = DOMAIN posted \cup {n} /\ \A k \in DOMAIN posted : posted'[k] = posted[k]
        /\ posted'[n].erased = erased /\ posted'[n].inserted = inserted
    BY <1>1, <1>3, <2>1 DEF TypeOK
  <2>3. \A p \in inserted : heap[p].seg_id \notin erased
    BY <1>1, <1>3 DEF Bookkeeping
  <2>. QED  BY <1>1, <1>3, <2>2, <2>3 DEF NoneWithdrawn
<1>4. CASE UNCHANGED <<heap, posted>>
  BY <1>2, <1>4
<1>5. inserted \subseteq LevelSegments
  BY <1>1 DEF InsertedInLevels, ErasedAreOld, TypeOK, LevelSegments
<1>6. ASSUME NEW ds \in SUBSET Doc, Erase(ds) PROVE NoneWithdrawn'
  BY <1>1, <1>2, <1>6, HeapType DEF Erase, client, erase_batch, Segments
<1>7. CASE AddBatch
  <2> DEFINE seg == add_batch(heap[last_], added, SubSeq(todo, 1, batch))
  <2>1. UNCHANGED posted /\ (Seal(seg) \/ KeepOpen(seg))
    BY <1>7 DEF AddBatch, client
  <2>2. CASE Seal(seg)
    BY <1>1, <1>2, <1>7, <2>1, <2>2, SealLevels
  <2>3. CASE KeepOpen(seg)
    <3>1. seg.seg_id = heap[last_].seg_id
      BY <1>1, <1>7, OpenSegment
    <3>2. heap' = [heap EXCEPT ![last_] = seg]
      BY <2>3 DEF KeepOpen
    <3> HIDE DEF seg
    <3>. QED  BY <1>1, <1>2, <2>1, <3>1, <3>2 DEF Objects
  <2>. QED  BY <2>1, <2>2, <2>3
<1>8. CASE MergePair
  <2>1. UNCHANGED posted
    BY <1>8 DEF MergePair, client
  <2>2. \A p \in Objects : heap'[p].seg_id = heap[p].seg_id \/ heap'[p].seg_id = rand + 1
    BY <1>1, <1>8, PairHeap
  <2>. QED  BY <1>2, <2>1, <2>2
<1>9. CASE AddDone
  <2>1. erased = {}
    BY <1>1, <1>9 DEF AddDone, Bookkeeping, InLoop
  <2>. QED  BY <1>3, <1>4, <1>5, <1>9, <2>1 DEF AddDone, Callback, store
<1>10. CASE MergeLevelEnd
  BY <1>3, <1>4, <1>5, <1>10 DEF MergeLevelEnd, Callback
<1>11. CASE RunCallback
  <2>1. posted # <<>> /\ posted' = Tail(posted) /\ UNCHANGED heap
    BY <1>11 DEF RunCallback, store
  <2>2. \A k \in DOMAIN posted' : posted'[k] = posted[k + 1] /\ k + 1 \in DOMAIN posted
    BY <1>1, <2>1 DEF TypeOK
  <2>. QED  BY <1>1, <2>1, <2>2 DEF NoneWithdrawn
<1>12. ASSUME NEW ds \in Seq(Doc), Add(ds) PROVE NoneWithdrawn'
  BY <1>4, <1>12 DEF Add, store, client
<1>13. CASE MergeSkip \/ MergeEnd \/ UNCHANGED vars
  BY <1>4, <1>13 DEF MergeSkip, MergeEnd, vars, store, client
<1>. QED
  BY <1>6, <1>7, <1>8, <1>9, <1>10, <1>11, <1>12, <1>13 DEF Operation, AddStep

(* The invariant about invocations is kept by every operation.             *)
LEMMA OperationPInv ==
  ASSUME PInv, [Operation]_vars
  PROVE  PInv' /\ (OthersLeave => OthersLeave')
<1>1. IInv'
  BY OperationIInv DEF PInv
<1>2. Arrivals
  BY CallbackStep
<1>. QED  BY <1>1, <1>2, InsertedStep, WithdrawnStep DEF PInv, Arrivals

(* An empty index, and a client that has heard nothing.                    *)
LEMMA InitPInv == ASSUME Init PROVE PInv /\ OthersLeave
<1>1. IInv
  BY InitIInv
<1>2. /\ LevelSegments = {} /\ DOMAIN posted = {} /\ erased = {} /\ inserted = {}
      /\ published = {} /\ pc = "idle"
  BY DEF Init, LevelSegments
<1>3. LevelsArrive /\ OthersLeave /\ InsertedInLevels /\ NoneWithdrawn
  BY <1>2 DEF LevelsArrive, OthersLeave, InsertedInLevels, NoneWithdrawn
<1>4. ErasedAreOld
  BY <1>2 DEF Init, ErasedAreOld, ErasedFrom
<1>. QED  BY <1>1, <1>3, <1>4 DEF PInv

(* What the client has once nothing is on its way.                         *)
LEMMA CaughtUp ==
  ASSUME PInv, OthersLeave, pc = "idle", posted = <<>>
  PROVE  published = {heap[p].seg_id : p \in LevelSegments}
<1>1. erased = {} /\ inserted = {} /\ DOMAIN posted = {}
  BY SMTT(30) DEF PInv, IInv, Bookkeeping, InLoop, ErasedAreOld
<1>2. \A p, e : ~Inserting(p) /\ ~ErasedFrom(1, e)
  BY <1>1 DEF Inserting, ErasedFrom
<1>3. \A p \in LevelSegments : heap[p].seg_id \in published
  BY <1>2 DEF PInv, LevelsArrive
<1>4. \A e \in published : \E p \in LevelSegments : heap[p].seg_id = e
  BY <1>2 DEF OthersLeave
<1>. QED  BY <1>3, <1>4

(* However late the client handles an invocation, and whatever merges have *)
(* renamed or absorbed by then, it ends with the ids of the segments in    *)
(* the levels and no others.                                               *)
THEOREM ClientFollowsLevels == Spec => []PublishedMatches
<1>1. Init => PInv /\ OthersLeave
  BY InitPInv
<1>2. PInv /\ OthersLeave /\ [Next]_vars => PInv' /\ OthersLeave'
  BY OperationPInv, NextIsOperation
<1>3. PInv /\ OthersLeave => PublishedMatches
  BY CaughtUp DEF PublishedMatches
<1>. QED  BY <1>1, <1>2, <1>3, PTL DEF Spec

(* Segment ids stay distinct and no segment is dropped before another one  *)
(* holds what it held: the bookkeeping of merge.                           *)
THEOREM BookkeepingHolds == Spec => []Bookkeeping
<1>1. IInv => Bookkeeping
  BY DEF IInv
<1>. QED  BY Invariance, <1>1, PTL
=============================================================================
