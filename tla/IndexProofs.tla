----------------------------- MODULE IndexProofs -----------------------------
(***************************************************************************)
(* The index never loses a vector: Spec => []NoLoss, for every set of      *)
(* documents, threshold, merge budget and width of size_t.  First the      *)
(* facts about the operations of one segment that this rests on.           *)
(***************************************************************************)
EXTENDS Index, FiniteSetTheorems, SequenceTheorems, WellFoundedInduction, TLAPS

(* size() never leaves the range of size_t.                                *)
LEMMA SizeType ==
  ASSUME NEW s \in Segments, IsFiniteSet(s.erased_)
  PROVE  size(s) \in 0..(SizeMod - 1)
<1>1. IsFiniteSet(Keys(s))
  BY DocAssumption, FS_Subset DEF Keys
<1>2. Cardinality(Keys(s)) \in Nat /\ Cardinality(s.erased_) \in Nat
  BY <1>1, FS_CardinalityType
<1>. QED  BY <1>2, SizeModAssumption DEF size

(* The last position of an id in a batch that contains it exists.          *)
LEMMA LastInType ==
  ASSUME NEW ds \in Seq(Doc), NEW d, NEW k0 \in DOMAIN ds, ds[k0] = d
  PROVE  LastIn(ds, d) \in DOMAIN ds /\ ds[LastIn(ds, d)] = d
<1> DEFINE T == {n \in Nat : \E k \in DOMAIN ds : ds[k] = d /\ n = Len(ds) - k}
<1>1. Len(ds) \in Nat /\ DOMAIN ds = 1..Len(ds)
  OBVIOUS
<1>2. T \subseteq Nat /\ T # {}
  <2>1. Len(ds) - k0 \in T
    BY <1>1
  <2>. QED  BY <2>1
<1>3. PICK n \in T : \A m \in T : ~ (<<m, n>> \in OpToRel(<, Nat))
  <2> HIDE DEF T
  <2>. QED  BY <1>2, NatLessThanWellFounded, WFMin
<1>4. PICK k \in DOMAIN ds : ds[k] = d /\ n = Len(ds) - k
  OBVIOUS
<1>5. ASSUME NEW l \in DOMAIN ds, ds[l] = d
      PROVE  l <= k
  <2>1. Len(ds) - l \in T
    BY <1>1, <1>5
  <2>2. ~ (Len(ds) - l < n)
    BY <2>1, <1>3, <1>2 DEF OpToRel
  <2>. QED  BY <2>2, <1>1, <1>4
<1>. QED  BY <1>4, <1>5 DEF LastIn

(* add_batch keeps the class invariant, and what can be found grows by     *)
(* exactly the batch.                                                      *)
LEMMA AddBatchProps ==
  ASSUME NEW s \in Segments, NEW base \in Nat, NEW ds \in Seq(Doc),
         Consistent(s), \A n \in Numbers(s) : 0 < n /\ n <= base
  PROVE  LET t == add_batch(s, base, ds)
         IN  /\ t \in Segments
             /\ Consistent(t)
             /\ t.seg_id = s.seg_id /\ t.erased_ = s.erased_
             /\ Live(t) = Live(s) \cup Batch(base, ds)
             /\ Numbers(s) \subseteq Numbers(t)
             /\ \A n \in Numbers(t) : 0 < n /\ n <= base + Len(ds)
             /\ \A n \in Numbers(t) \ Numbers(s) : n > base
<1> DEFINE t == add_batch(s, base, ds)
           f == [d \in Doc |-> IF \E k \in DOMAIN ds : ds[k] = d
                               THEN base + LastIn(ds, d) ELSE s.ids_[d]]
<1>1. Len(ds) \in Nat /\ DOMAIN ds = 1..Len(ds) /\ \A k \in DOMAIN ds : ds[k] \in Doc
  OBVIOUS
<1>2. \A d \in Doc : (\E k \in DOMAIN ds : ds[k] = d) =>
                        LastIn(ds, d) \in DOMAIN ds /\ ds[LastIn(ds, d)] = d
  BY LastInType
<1>3. f \in [Doc -> Nat]
  BY <1>1, <1>2 DEF Segments
<1>4. Batch(base, ds) \subseteq Doc \X Nat
  BY <1>1 DEF Batch
<1>5. /\ t.ids_ = f /\ t.inv_ids_ = s.inv_ids_ \cup Batch(base, ds)
      /\ t.seg_id = s.seg_id /\ t.erased_ = s.erased_
  BY DEF add_batch, Segments
<1>6. t \in Segments
  BY <1>3, <1>4 DEF add_batch, Segments
<1>7. \A v \in Batch(base, ds) : v[2] > base /\ v[2] <= base + Len(ds) /\ v[2] \notin s.erased_
  <2>1. \A n \in s.erased_ : n <= base
    BY DEF Consistent
  <2>2. \A v \in Batch(base, ds) : v[2] > base /\ v[2] <= base + Len(ds)
    BY <1>1 DEF Batch
  <2>. QED  BY <2>1, <2>2, <1>4 DEF Segments
<1>8. Live(t) = Live(s) \cup Batch(base, ds)
  BY <1>5, <1>7 DEF Live
<1>9. Numbers(t) = Numbers(s) \cup {v[2] : v \in Batch(base, ds)}
  BY <1>5 DEF Numbers
<1>10. /\ \A n \in Numbers(t) : 0 < n /\ n <= base + Len(ds)
       /\ \A n \in Numbers(t) \ Numbers(s) : n > base
  <2>1. Numbers(s) \subseteq Nat
    BY DEF Numbers, Segments
  <2>2. \A n \in Numbers(t) \ Numbers(s) : n \in Nat /\ n > base /\ n <= base + Len(ds)
    BY <1>4, <1>7, <1>9
  <2>3. \A n \in Numbers(s) : 0 < n /\ n <= base + Len(ds)
    BY <2>1, <1>1
  <2> HIDE DEF t
  <2>. QED  BY <2>2, <2>3
<1>11. Consistent(t)
  <2>1. \A v, w \in t.inv_ids_ : v[2] = w[2] => v = w
    <3>1. \A v, w \in Batch(base, ds) : v[2] = w[2] => v = w
      BY <1>1 DEF Batch
    <3>2. \A v \in s.inv_ids_ : v[2] <= base
      BY DEF Numbers
    <3>3. \A v \in s.inv_ids_, w \in Batch(base, ds) : v[2] # w[2]
      BY <3>2, <1>4, <1>7 DEF Segments
    <3>. QED  BY <3>1, <3>3, <1>5 DEF Consistent
  <2>2. \A d \in Keys(t) : <<d, t.ids_[d]>> \in t.inv_ids_
    <3> SUFFICES ASSUME NEW d \in Keys(t)
                 PROVE  <<d, t.ids_[d]>> \in t.inv_ids_
      OBVIOUS
    <3>1. CASE \E k \in DOMAIN ds : ds[k] = d
      <4>1. t.ids_[d] = base + LastIn(ds, d)
        BY <3>1, <1>5 DEF Keys
      <4>. QED  BY <3>1, <4>1, <1>2, <1>5 DEF Batch, Keys
    <3>2. CASE ~ \E k \in DOMAIN ds : ds[k] = d
      BY <3>2, <1>5 DEF Keys, Consistent
    <3>. QED  BY <3>1, <3>2
  <2>3. t.erased_ \subseteq Numbers(t)
    BY <1>5, <1>9 DEF Consistent
  <2>. QED  BY <2>1, <2>2, <2>3 DEF Consistent
<1>. QED  BY <1>5, <1>6, <1>8, <1>9, <1>10, <1>11

(* erase_batch hides vectors of the named ids only.                        *)
LEMMA EraseBatchProps ==
  ASSUME NEW s \in Segments, NEW ds \in SUBSET Doc,
         Consistent(s), IsFiniteSet(s.erased_)
  PROVE  LET t == erase_batch(s, ds)
         IN  /\ t \in Segments
             /\ Consistent(t) /\ IsFiniteSet(t.erased_)
             /\ t.seg_id = s.seg_id /\ Numbers(t) = Numbers(s)
             /\ Live(t) \subseteq Live(s)
             /\ \A v \in Live(s) : v[1] \notin ds => v \in Live(t)
<1> DEFINE t == erase_batch(s, ds)
           K == ds \cap Keys(s)
           E == {s.ids_[d] : d \in K}
<1>1. /\ t.ids_ = s.ids_ /\ t.inv_ids_ = s.inv_ids_ /\ t.seg_id = s.seg_id
      /\ t.erased_ = s.erased_ \cup E
  BY DEF erase_batch, Segments
<1>2. \A n \in E : \E d \in ds : <<d, n>> \in s.inv_ids_
  BY DEF Consistent
<1>3. IsFiniteSet(E)
  <2> DEFINE g == [d \in K |-> s.ids_[d]]
  <2>1. g \in Surjection(K, E)
    BY DEF Surjection
  <2>2. IsFiniteSet(K)
    BY DocAssumption, FS_Subset DEF Keys
  <2>. QED  BY <2>1, <2>2, FS_Surjection
<1>4. IsFiniteSet(t.erased_)
  <2> HIDE DEF E, t
  <2>. QED  BY <1>1, <1>3, FS_Union
<1>5. E \subseteq Numbers(s)
  <2> SUFFICES ASSUME NEW n \in E
               PROVE  n \in Numbers(s)
    OBVIOUS
  <2>1. PICK d \in ds : <<d, n>> \in s.inv_ids_
    BY <1>2
  <2>. QED  BY <2>1 DEF Numbers
<1>6. t \in Segments
  BY DEF erase_batch, Segments, Keys
<1>7. Consistent(t) /\ Numbers(t) = Numbers(s)
  BY <1>1, <1>5 DEF Consistent, Numbers, Keys
<1>8. Live(t) \subseteq Live(s)
  BY <1>1 DEF Live
<1>9. ASSUME NEW v \in Live(s), v[1] \notin ds
      PROVE  v \in Live(t)
  <2>1. ASSUME v[2] \in E
        PROVE  FALSE
    <3>1. PICK d \in ds : <<d, v[2]>> \in s.inv_ids_
      BY <1>2, <2>1
    <3>2. v = <<d, v[2]>>
      BY <3>1 DEF Live, Consistent
    <3>. QED  BY <3>2, <1>9
  <2>. QED  BY <2>1, <1>1, <1>9 DEF Live
<1>. QED  BY <1>1, <1>4, <1>6, <1>7, <1>8, <1>9

(* merge_from_other makes exactly the live vectors of the other segment    *)
(* findable in this one, if the two share none.                            *)
LEMMA MergeProps ==
  ASSUME NEW a \in Segments, NEW b \in Segments, Consistent(a), Consistent(b),
         Numbers(a) \cap Numbers(b) = {}, NEW m \in merge_from_other(a, b)
  PROVE  /\ m \in Segments
         /\ Consistent(m)
         /\ m.seg_id = a.seg_id /\ m.erased_ = a.erased_
         /\ Live(m) = Live(a) \cup Live(b)
         /\ Numbers(m) \subseteq Numbers(a) \cup Numbers(b)
<1> DEFINE ds == {v[1] : v \in Live(b)}
<1>1. PICK f \in [ds -> {v[2] : v \in Live(b)}] :
        /\ \A d \in ds : <<d, f[d]>> \in Live(b)
        /\ m = [a EXCEPT !.ids_ = [d \in Doc |-> IF d \in ds THEN f[d] ELSE @[d]],
                         !.inv_ids_ = @ \cup Live(b)]
  BY DEF merge_from_other, Absorb
<1>2. Live(b) \subseteq Doc \X Nat
  BY DEF Live, Segments
<1>3. /\ m.ids_ = [d \in Doc |-> IF d \in ds THEN f[d] ELSE a.ids_[d]]
      /\ m.inv_ids_ = a.inv_ids_ \cup Live(b)
      /\ m.seg_id = a.seg_id /\ m.erased_ = a.erased_
  BY <1>1 DEF Segments
<1>4. \A d \in ds : <<d, f[d]>> \in Live(b)
  BY <1>1
<1>5. m \in Segments
  <2>1. [d \in Doc |-> IF d \in ds THEN f[d] ELSE a.ids_[d]] \in [Doc -> Nat]
    BY <1>2, <1>4 DEF Segments
  <2>. QED  BY <1>1, <1>2, <2>1 DEF Segments
<1>6. \A v \in Live(b) : v[2] \in Numbers(b) /\ v[2] \notin Numbers(a)
  BY DEF Live, Numbers
<1>7. Numbers(m) \subseteq Numbers(a) \cup Numbers(b)
  BY <1>3, <1>6 DEF Numbers
<1>8. Live(m) = Live(a) \cup Live(b)
  BY <1>3, <1>6 DEF Live, Consistent
<1>9. Consistent(m)
  <2>1. \A v, w \in m.inv_ids_ : v[2] = w[2] => v = w
    <3>1. \A v \in a.inv_ids_ : v[2] \in Numbers(a)
      BY DEF Numbers
    <3>2. \A v, w \in Live(b) : v[2] = w[2] => v = w
      BY DEF Live, Consistent
    <3>. QED  BY <3>1, <3>2, <1>3, <1>6 DEF Consistent
  <2>2. \A d \in Keys(m) : <<d, m.ids_[d]>> \in m.inv_ids_
    BY <1>3, <1>4 DEF Keys, Consistent
  <2>3. m.erased_ \subseteq Numbers(m)
    BY <1>3 DEF Consistent, Numbers
  <2>. QED  BY <2>1, <2>2, <2>3 DEF Consistent
<1>. QED  BY <1>3, <1>5, <1>7, <1>8, <1>9

(* A new id changes nothing else.                                          *)
LEMMA RenameProps ==
  ASSUME NEW m \in Segments, NEW id \in Nat
  PROVE  LET n == [m EXCEPT !.seg_id = id]
         IN  /\ n \in Segments /\ n.seg_id = id /\ n.erased_ = m.erased_
             /\ Live(n) = Live(m) /\ Numbers(n) = Numbers(m)
             /\ Consistent(m) => Consistent(n)
<1> DEFINE n == [m EXCEPT !.seg_id = id]
<1>1. n \in Segments /\ n.seg_id = id
  BY DEF Segments
<1>2. n.erased_ = m.erased_ /\ n.inv_ids_ = m.inv_ids_ /\ n.ids_ = m.ids_
  BY DEF Segments
<1> HIDE DEF n
<1>3. Live(n) = Live(m) /\ Numbers(n) = Numbers(m) /\ Keys(n) = Keys(m)
  BY <1>2 DEF Live, Numbers, Keys
<1>4. Consistent(m) => Consistent(n)
  BY <1>2, <1>3 DEF Consistent
<1>. QED  BY <1>1, <1>2, <1>3, <1>4 DEF n
-----------------------------------------------------------------------------
(* The level of a sealed segment is a slot.                                *)
LEMMA LevelForType == ASSUME NEW n \in Nat PROVE LevelFor(n) \in Nat \ {0}
<1>1. IsFiniteSet(0..n)
  BY FS_Interval
<1>2. Cardinality({e \in 0..n : 2^e < n}) \in Nat
  BY <1>1, FS_Subset, FS_CardinalityType
<1>. QED  BY <1>2 DEF LevelFor

(* r has the slots of ls and no others but, perhaps, slot t of level l.    *)
OnlyNewSlot(r, ls, l, t) ==
  \A m \in DOMAIN r : \A k \in DOMAIN r[m] :
    m # l \/ k # t => m \in DOMAIN ls /\ k \in DOMAIN ls[m] /\ r[m][k] = ls[m][k]

(* push_back adds one slot and moves none.                                 *)
LEMMA PushAtProps ==
  ASSUME NEW S, NEW ls \in Seq(Seq(S)), NEW l \in Nat \ {0}, NEW p \in S
  PROVE  LET r == PushAt(ls, l, p)
             t == Len(Level(ls, l)) + 1
         IN  /\ r \in Seq(Seq(S))
             /\ Len(r) >= Len(ls)
             /\ l \in DOMAIN r /\ t \in DOMAIN r[l] /\ r[l][t] = p
             /\ OnlyNewSlot(r, ls, l, t)
<1> DEFINE n == IF l > Len(ls) THEN l ELSE Len(ls)
           r == PushAt(ls, l, p)
           t == Len(Level(ls, l)) + 1
<1>1. n \in Nat /\ l \in 1..n /\ n >= Len(ls)
  OBVIOUS
<1>2. \A m \in 1..n : Level(ls, m) \in Seq(S)
  BY <1>1 DEF Level
<1>3. \A m \in 1..n : (IF m = l THEN Append(Level(ls, m), p) ELSE Level(ls, m)) \in Seq(S)
  BY <1>2
<1>4. r \in [1..n -> Seq(S)]
  BY <1>3 DEF PushAt
<1>5. r \in Seq(Seq(S)) /\ Len(r) = n /\ DOMAIN r = 1..n
  BY <1>1, <1>4
<1>6. /\ r[l] = Append(Level(ls, l), p)
      /\ \A m \in 1..n : m # l => r[m] = Level(ls, m)
  BY <1>1 DEF PushAt
<1>7. t \in DOMAIN r[l] /\ r[l][t] = p
  BY <1>1, <1>2, <1>6
<1>8. ASSUME NEW m \in DOMAIN r, NEW k \in DOMAIN r[m], m # l \/ k # t
      PROVE  m \in DOMAIN ls /\ k \in DOMAIN ls[m] /\ r[m][k] = ls[m][k]
  <2>1. k \in DOMAIN Level(ls, m) /\ r[m][k] = Level(ls, m)[k]
    <3>1. CASE m = l
      <4>1. Level(ls, l) \in Seq(S) /\ k \in 1..t
        BY <1>1, <1>2, <1>6, <3>1
      <4>. QED  BY <4>1, <3>1, <1>6, <1>8
    <3>2. CASE m # l
      BY <3>2, <1>5, <1>6
    <3>. QED  BY <3>1, <3>2
  <2>2. m \in DOMAIN ls
    BY <2>1, <1>5 DEF Level
  <2>. QED  BY <2>1, <2>2 DEF Level
<1> HIDE DEF n, r, t
<1>9. Len(r) >= Len(ls)
  BY <1>1, <1>5
<1>10. l \in DOMAIN r
  BY <1>1, <1>5
<1>11. OnlyNewSlot(r, ls, l, t)
  BY <1>8 DEF OnlyNewSlot
<1>. QED  BY <1>5, <1>7, <1>9, <1>10, <1>11 DEF r, t

(* Dropping slots k and k + 1 keeps the others, each once.                 *)
LEMMA RemovePairProps ==
  ASSUME NEW S, NEW s \in Seq(S), NEW k \in Nat \ {0}, k < Len(s)
  PROVE  LET r == RemovePair(s, k)
             old(m) == IF m < k THEN m ELSE m + 2
         IN  /\ r \in Seq(S)
             /\ \A m \in DOMAIN r : old(m) \in DOMAIN s /\ r[m] = s[old(m)]
<1> DEFINE n == Len(s) - 2
<1>1. Len(s) \in Nat /\ n \in Nat
  <2>1. Len(s) \in Nat
    OBVIOUS
  <2>. QED  BY <2>1
<1>2. \A m \in 1..n : (IF m < k THEN s[m] ELSE s[m + 2]) \in S
  BY <1>1
<1>3. RemovePair(s, k) \in [1..n -> S]
  BY <1>2 DEF RemovePair
<1>. QED  BY <1>1, <1>3 DEF RemovePair

(* Counting one more entry for q, and none for a new object.               *)
LEMMA BumpAppend ==
  ASSUME NEW n \in Nat, NEW g \in [1..n -> Nat], NEW q \in 1..n
  PROVE  LET r == Append([g EXCEPT ![q] = @ + 1], 0)
         IN  /\ r \in [1..(n + 1) -> Nat]
             /\ r[q] > 0
             /\ \A p \in 1..n : r[p] >= g[p]
<1> DEFINE h == [g EXCEPT ![q] = g[q] + 1]
<1>1. g[q] \in Nat
  OBVIOUS
<1>2. h \in [1..n -> Nat] /\ h[q] > 0 /\ \A p \in 1..n : h[p] >= g[p]
  BY <1>1
<1> HIDE DEF h
<1>3. h \in Seq(Nat) /\ Len(h) = n
  BY <1>2
<1>4. Append(h, 0) \in Seq(Nat) /\ Len(Append(h, 0)) = n + 1
  BY <1>3
<1>5. \A p \in 1..n : Append(h, 0)[p] = h[p]
  BY <1>3
<1> DEFINE r == Append(h, 0)
<1>6. r[q] > 0 /\ \A p \in 1..n : r[p] >= g[p]
  BY <1>2, <1>5
<1>7. r \in [1..(n + 1) -> Nat]
  <2>1. r \in Seq(Nat) /\ Len(r) = n + 1
    BY <1>4
  <2> HIDE DEF r
  <2>. QED  BY <2>1, LenProperties
<1>. QED  BY <1>6, <1>7 DEF h
-----------------------------------------------------------------------------
(* The inductive invariant.                                                *)
IInv == TypeOK /\ LevelsDisjoint /\ Bookkeeping /\ NoLoss

(* Every shared_ptr points to a segment.                                   *)
LEMMA HeapType ==
  ASSUME TypeOK
  PROVE  /\ Len(heap) \in Nat /\ Objects = 1..Len(heap)
         /\ \A p \in Objects : /\ heap[p] \in Segments
                               /\ heap[p].seg_id \in Nat
                               /\ size(heap[p]) \in Nat
                               /\ Numbers(heap[p]) \subseteq Nat
<1>1. Len(heap) \in Nat /\ Objects = 1..Len(heap) /\ \A p \in Objects : heap[p] \in Segments
  BY DEF TypeOK, Objects
<1>2. \A p \in Objects : size(heap[p]) \in Nat
  BY <1>1, SizeType, SizeModAssumption DEF TypeOK
<1>3. \A p \in Objects : heap[p].seg_id \in Nat /\ Numbers(heap[p]) \subseteq Nat
  BY <1>1 DEF Segments, Numbers
<1>. QED  BY <1>1, <1>2, <1>3

(* In every state of the invariant a batch takes a prefix of the ids.      *)
LEMMA BatchType ==
  ASSUME TypeOK
  PROVE  /\ batch \in Nat /\ batch <= Len(todo)
         /\ SubSeq(todo, 1, batch) \in Seq(Doc)
         /\ Len(SubSeq(todo, 1, batch)) = batch
         /\ SubSeq(todo, batch + 1, Len(todo)) \in Seq(Doc)
<1>1. size(heap[last_]) \in Nat
  BY SizeType, SizeModAssumption DEF TypeOK, Objects
<1>2. Len(todo) \in Nat /\ todo \in Seq(Doc)
  BY DEF TypeOK
<1>3. batch \in Nat /\ batch <= Len(todo)
  BY <1>1, <1>2, IndexAssumption, SizeModAssumption DEF batch
<1>. QED  BY <1>2, <1>3

(* A new Index (its constructor: one empty segment) satisfies IInv.        *)
THEOREM InitIInv == Init => IInv
<1> SUFFICES ASSUME Init PROVE IInv
  OBVIOUS
<1> USE DEF Init
<1>1. heap = <<NewSegment(1)>> /\ Len(heap) = 1 /\ Objects = {1} /\ heap[1] = NewSegment(1)
  BY DEF Objects
<1>2. NewSegment(1) \in Segments /\ IsFiniteSet({})
  BY FS_EmptySet DEF NewSegment, Segments
<1>3. TypeOK
  <2>1. heap \in Seq(Segments)
    BY <1>2
  <2>2. segments_ \in [Objects -> Nat]
    BY <1>1
  <2>3. \A p \in Objects : IsFiniteSet(heap[p].erased_)
    <3>1. heap[1].erased_ = {}
      BY <1>1 DEF NewSegment
    <3>. QED  BY <1>1, <1>2, <3>1
  <2>. QED  BY <1>1, <2>1, <2>2, <2>3 DEF TypeOK
<1>4. LevelSegments = {}
  BY DEF LevelSegments
<1>5. Consistent(heap[1]) /\ Numbers(heap[1]) = {} /\ heap[1].seg_id = 1
  BY <1>1 DEF NewSegment, Consistent, Numbers, Keys
<1>. QED
  BY <1>1, <1>3, <1>4, <1>5 DEF IInv, LevelsDisjoint, Bookkeeping, NoLoss
-----------------------------------------------------------------------------
(* A step that leaves the segments alone leaves alone what is found.       *)
LEMMA FrameStep ==
  ASSUME IInv, UNCHANGED <<store, added, docs, erased>>,  ~InLoop' => erased = {},
         UNCHANGED inserted \/ (erased = {} /\ inserted' = {})
  PROVE  LevelsDisjoint' /\ Bookkeeping' /\ NoLoss'
<1> USE DEF store, IInv
<1>1. LevelsDisjoint'
  BY DEF LevelsDisjoint, LevelSegments, Objects
<1>2. NoLoss'
  BY DEF NoLoss, Visible, Searched, Objects
<1>3. Bookkeeping'
  BY DEF Bookkeeping, LevelSegments, Objects
<1>. QED  BY <1>1, <1>2, <1>3

(* A call of add begins.                                                   *)
LEMMA AddIInv == ASSUME IInv, NEW ds \in Seq(Doc), Add(ds) PROVE IInv'
<1>1. LevelsDisjoint' /\ Bookkeeping' /\ NoLoss'
  BY FrameStep DEF Add, IInv, Bookkeeping, InLoop
<1>2. TypeOK'
  BY DEF Add, IInv, TypeOK, Objects, Invocations, store, client
<1>. QED  BY <1>1, <1>2 DEF IInv

(* A call of add ends.                                                     *)
LEMMA AddDoneIInv == ASSUME IInv, AddDone PROVE IInv'
<1>1. erased = {} /\ erased' = {}
  BY DEF AddDone, IInv, Bookkeeping, InLoop
<1>2. LevelsDisjoint' /\ Bookkeeping' /\ NoLoss'
  BY <1>1, FrameStep DEF AddDone
<1>3. posted' \in Seq(Invocations)
  <2>1. [erased |-> {}, inserted |-> inserted] \in Invocations /\ posted \in Seq(Invocations)
    BY DEF IInv, TypeOK, Invocations
  <2>. QED  BY <2>1 DEF AddDone, Callback
<1>4. TypeOK'
  BY <1>3, IndexAssumption DEF AddDone, IInv, TypeOK, Objects, Invocations, store
<1>. QED  BY <1>2, <1>4 DEF IInv

(* A pair too large for the budget is passed over.                         *)
LEMMA MergeSkipIInv == ASSUME IInv, MergeSkip PROVE IInv'
<1>0. InLoop' /\ UNCHANGED <<store, added, docs, erased, inserted>>
  BY DEF MergeSkip, InLoop, store
<1>1. LevelsDisjoint' /\ Bookkeeping' /\ NoLoss'
  BY <1>0, FrameStep
<1>2. TypeOK'
  <2>1. j' \in Nat \ {0}
    BY DEF MergeSkip, IInv, TypeOK
  <2>. QED  BY <2>1 DEF MergeSkip, IInv, TypeOK, Objects, Invocations, store, client
<1>. QED  BY <1>1, <1>2 DEF IInv

(* A posted call changes what the client has, not the index.               *)
LEMMA RunCallbackIInv == ASSUME IInv, RunCallback PROVE IInv'
<1>1. LevelsDisjoint' /\ Bookkeeping' /\ NoLoss'
  BY FrameStep DEF RunCallback, locals, IInv, Bookkeeping, InLoop
<1>2. posted' \in Seq(Invocations) /\ published' \in SUBSET Nat
  <2>1. posted \in Seq(Invocations) /\ posted # <<>> /\ published \in SUBSET Nat /\ TypeOK
    BY DEF RunCallback, IInv, TypeOK
  <2>2. Head(posted) \in Invocations /\ posted' \in Seq(Invocations)
    BY <2>1 DEF RunCallback
  <2>3. Head(posted).inserted \subseteq Objects
    BY <2>2 DEF Invocations
  <2>4. published' \in SUBSET Nat
    BY <2>1, <2>3, HeapType DEF RunCallback
  <2>. QED  BY <2>2, <2>4
<1>3. TypeOK'
  BY <1>2 DEF RunCallback, IInv, TypeOK, Objects, Invocations, store, locals
<1>. QED  BY <1>1, <1>3 DEF IInv

(* The merge ends.                                                         *)
LEMMA MergeEndIInv == ASSUME IInv, MergeEnd PROVE IInv'
<1>1. ~InLoop
  BY DEF MergeEnd, InLoop, IInv, TypeOK
<1>2. erased = {} /\ UNCHANGED <<store, added, docs, erased, inserted>>
  BY <1>1 DEF MergeEnd, IInv, Bookkeeping, locals
<1>3. LevelsDisjoint' /\ Bookkeeping' /\ NoLoss'
  BY <1>2, FrameStep
<1>4. TypeOK'
  BY DEF MergeEnd, IInv, TypeOK, Objects, Invocations, store, locals, client
<1>. QED  BY <1>3, <1>4 DEF IInv

(* An erase marks vectors and moves none.                                  *)
LEMMA EraseIInv == ASSUME IInv, NEW ds \in SUBSET Doc, Erase(ds) PROVE IInv'
<1>1. /\ TypeOK /\ LevelsDisjoint /\ Bookkeeping /\ NoLoss /\ pc = "idle"
      /\ UNCHANGED <<last_, segments_, levels, rand, added, pc, erased, inserted>>
  BY DEF IInv, Erase, locals
<1>2. Objects' = Objects /\ LevelSegments' = LevelSegments /\ erased = {}
  BY <1>1, HeapType DEF Erase, Objects, LevelSegments, Bookkeeping, InLoop
<1>3. \A p \in Objects : /\ heap'[p] = IF Searched(p) THEN erase_batch(heap[p], ds) ELSE heap[p]
                         /\ Searched(p)' <=> Searched(p)
  BY <1>1, <1>2 DEF Erase, Searched
<1>4. \A p \in Objects : /\ heap'[p] \in Segments /\ IsFiniteSet(heap'[p].erased_)
                         /\ heap'[p].seg_id = heap[p].seg_id
                         /\ Consistent(heap'[p]) /\ Numbers(heap'[p]) = Numbers(heap[p])
                         /\ \A v \in Live(heap[p]) : v[1] \notin ds => v \in Live(heap'[p])
  <2> SUFFICES ASSUME NEW p \in Objects
               PROVE  /\ heap'[p] \in Segments /\ IsFiniteSet(heap'[p].erased_)
                      /\ heap'[p].seg_id = heap[p].seg_id
                      /\ Consistent(heap'[p]) /\ Numbers(heap'[p]) = Numbers(heap[p])
                      /\ \A v \in Live(heap[p]) : v[1] \notin ds => v \in Live(heap'[p])
    OBVIOUS
  <2>1. heap[p] \in Segments /\ Consistent(heap[p]) /\ IsFiniteSet(heap[p].erased_)
    BY <1>1, HeapType DEF Bookkeeping, TypeOK
  <2>. QED  BY <1>3, <2>1, EraseBatchProps
<1>5. TypeOK'
  <2>1. heap' \in Seq(Segments)
    <3>1. heap' \in [1..Len(heap) -> Segments] /\ Len(heap) \in Nat
      BY <1>1, <1>4, HeapType DEF Erase
    <3>. QED  BY <3>1
  <2>2. docs' \in SUBSET (Doc \X Nat)
    BY <1>1 DEF Erase, TypeOK
  <2>3. Invocations' = Invocations
    BY <1>2 DEF Invocations
  <2>. QED  BY <1>1, <1>2, <1>4, <2>1, <2>2, <2>3 DEF TypeOK, Erase, locals, client
<1>6. LevelsDisjoint'
  <2>1. \A l \in DOMAIN levels : \A k \in DOMAIN levels[l] : levels[l][k] \in Objects
    BY <1>1 DEF TypeOK
  <2>2. last_ \in Objects /\ LevelSegments \subseteq Objects
    BY <1>1 DEF TypeOK, LevelSegments
  <2>3. ASSUME NEW l1 \in DOMAIN levels, NEW l2 \in DOMAIN levels,
               NEW k1 \in DOMAIN levels[l1], NEW k2 \in DOMAIN levels[l2], l1 # l2 \/ k1 # k2
        PROVE  /\ levels[l1][k1] # levels[l2][k2]
               /\ Numbers(heap'[levels[l1][k1]]) \cap Numbers(heap'[levels[l2][k2]]) = {}
    <3>1. /\ levels[l1][k1] # levels[l2][k2]
          /\ Numbers(heap[levels[l1][k1]]) \cap Numbers(heap[levels[l2][k2]]) = {}
      BY <1>1, <2>3 DEF LevelsDisjoint
    <3>. QED  BY <1>4, <2>1, <3>1
  <2>4. \A p \in LevelSegments : p # last_ /\ Numbers(heap'[p]) \cap Numbers(heap'[last_]) = {}
    BY <1>1, <1>4, <2>2 DEF LevelsDisjoint
  <2>. QED  BY <1>1, <1>2, <2>3, <2>4, SMTT(30) DEF LevelsDisjoint
<1>7. Bookkeeping'
  BY <1>1, <1>2, <1>4, SMTT(30) DEF Bookkeeping, InLoop, LevelSegments
<1>8. NoLoss'
  <2> SUFFICES ASSUME NEW v \in docs'
               PROVE  v \in Visible'
    BY DEF NoLoss
  <2>1. v \in docs /\ v[1] \notin ds
    BY DEF Erase
  <2>2. PICK p \in Objects : Searched(p) /\ v \in Live(heap[p])
    BY <1>1, <2>1 DEF NoLoss, Visible
  <2>. QED  BY <1>2, <1>3, <1>4, <2>1, <2>2 DEF Visible
<1>. QED  BY <1>5, <1>6, <1>7, <1>8 DEF IInv

(* The end of a level takes out and puts in what was noted.                *)
LEMMA MergeLevelEndIInv == ASSUME IInv, MergeLevelEnd PROVE IInv'
<1>1. /\ TypeOK /\ LevelsDisjoint /\ Bookkeeping /\ NoLoss
      /\ UNCHANGED <<heap, last_, levels, rand, added, docs>>
      /\ erased' = {} /\ inserted' = {}
  BY DEF IInv, MergeLevelEnd
<1>2. Objects' = Objects /\ LevelSegments' = LevelSegments /\ inserted \subseteq Objects
  BY <1>1 DEF Objects, LevelSegments, TypeOK
<1>3. \A p \in Objects : /\ segments_[p] \in Nat /\ Pushed(p) \in Nat /\ Pushed(p) >= segments_[p]
                         /\ p \in inserted => Pushed(p) = segments_[p] + 1
  BY <1>1 DEF TypeOK, Pushed
<1>4. /\ segments_' \in [Objects -> Nat]
      /\ \A p \in Objects : segments_'[p] = IF Found(p) THEN Pushed(p) - 1 ELSE Pushed(p)
  BY <1>3 DEF MergeLevelEnd, Found
<1>5. TypeOK'
  <2>1. [erased |-> erased, inserted |-> inserted] \in Invocations /\ posted \in Seq(Invocations)
    BY <1>1 DEF TypeOK, Invocations
  <2>2. posted' \in Seq(Invocations)
    BY <2>1 DEF MergeLevelEnd, Callback
  <2>3. i' \in Nat \ {0} /\ j' \in Nat \ {0}
    BY <1>1 DEF MergeLevelEnd, TypeOK
  <2>4. Invocations' = Invocations
    BY <1>2 DEF Invocations
  <2>. QED  BY <1>1, <1>2, <1>4, <2>2, <2>3, <2>4 DEF MergeLevelEnd, TypeOK
<1>6. LevelsDisjoint'
  BY <1>1, <1>2 DEF LevelsDisjoint
<1>7. Bookkeeping'
  <2>1. ASSUME NEW p \in LevelSegments
        PROVE  segments_'[p] > 0
    <3>1. p \in Objects /\ ~Found(p) /\ segments_[p] > 0
      BY <1>1 DEF LevelSegments, Found, Bookkeeping
    <3>. QED  BY <3>1, <1>3, <1>4
  <2>. QED  BY <1>1, <1>2, <2>1 DEF Bookkeeping
<1>8. NoLoss'
  <2> SUFFICES ASSUME NEW v \in docs
               PROVE  v \in Visible'
    BY <1>1 DEF NoLoss
  <2>1. PICK p \in Objects : Searched(p) /\ v \in Live(heap[p])
    BY <1>1 DEF NoLoss, Visible
  <2>2. CASE p = last_ \/ ~Found(p)
    <3>1. Searched(p)'
      BY <1>1, <1>3, <1>4, <2>1, <2>2 DEF Searched
    <3>. QED  BY <3>1, <1>1, <1>2, <2>1 DEF Visible
  <2>3. CASE Found(p)
    <3>1. PICK q \in inserted : Live(heap[p]) \subseteq Live(heap[q])
      BY <1>1, <2>3 DEF Bookkeeping, Found
    <3>2. q \in Objects /\ segments_[q] > 0
      BY <1>1, <1>2 DEF Bookkeeping
    <3>3. segments_'[q] > 0
      BY <3>2, <1>3, <1>4
    <3>. QED  BY <3>1, <3>2, <3>3, <1>1, <1>2, <2>1 DEF Visible, Searched
  <2>. QED  BY <2>2, <2>3
<1>. QED  BY <1>5, <1>6, <1>7, <1>8 DEF IInv

(* What a turn of the loop of add does to the open segment.                *)
LEMMA OpenSegment ==
  ASSUME IInv, AddBatch
  PROVE  LET now == SubSeq(todo, 1, batch)
             seg == add_batch(heap[last_], added, now)
         IN  /\ seg \in Segments /\ IsFiniteSet(seg.erased_) /\ Consistent(seg)
             /\ seg.seg_id = heap[last_].seg_id
             /\ Live(seg) = Live(heap[last_]) \cup Batch(added, now)
             /\ \A n \in Numbers(seg) : n \in Nat /\ 0 < n /\ n <= added'
             /\ \A n \in Numbers(seg) : n \in Numbers(heap[last_]) \/ n > added
             /\ added' \in Nat /\ added' >= added
             /\ docs' = docs \cup Batch(added, now) /\ docs' \in SUBSET (Doc \X Nat)
             /\ todo' \in Seq(Doc)
             /\ pc = "add" /\ erased = {} /\ UNCHANGED <<pc, erased, i, j, amount, client>>
<1> DEFINE now == SubSeq(todo, 1, batch)
           seg == add_batch(heap[last_], added, now)
<1>1. /\ TypeOK /\ Bookkeeping /\ added' = added + batch /\ docs' = docs \cup Batch(added, now)
      /\ todo' = SubSeq(todo, batch + 1, Len(todo))
      /\ pc = "add" /\ UNCHANGED <<pc, erased, i, j, amount, client>>
  BY DEF IInv, AddBatch
<1>2. erased = {}
  BY <1>1 DEF Bookkeeping, InLoop
<1>3. now \in Seq(Doc) /\ Len(now) = batch /\ batch \in Nat /\ todo' \in Seq(Doc)
  BY <1>1, BatchType
<1>4. /\ last_ \in Objects /\ added \in Nat /\ heap[last_] \in Segments
      /\ Consistent(heap[last_]) /\ IsFiniteSet(heap[last_].erased_)
      /\ \A n \in Numbers(heap[last_]) : 0 < n /\ n <= added
  BY <1>1, HeapType DEF TypeOK, Bookkeeping
<1> HIDE DEF now
<1>5. /\ seg \in Segments /\ Consistent(seg)
      /\ seg.seg_id = heap[last_].seg_id /\ seg.erased_ = heap[last_].erased_
      /\ Live(seg) = Live(heap[last_]) \cup Batch(added, now)
      /\ \A n \in Numbers(seg) : 0 < n /\ n <= added + Len(now)
      /\ \A n \in Numbers(seg) \ Numbers(heap[last_]) : n > added
  BY <1>3, <1>4, AddBatchProps, ZenonT(60)
<1>6. Numbers(seg) \subseteq Nat
  BY <1>5 DEF Numbers, Segments
<1>7. docs' \in SUBSET (Doc \X Nat)
  <2>1. DOMAIN now = 1..Len(now) /\ \A k \in DOMAIN now : now[k] \in Doc
    BY <1>3
  <2>2. Batch(added, now) \subseteq Doc \X Nat
    BY <1>3, <1>4, <2>1 DEF Batch
  <2>. QED  BY <1>1, <2>2 DEF TypeOK
<1> HIDE DEF seg
<1>8. added' \in Nat /\ added' >= added /\ added' = added + Len(now)
  BY <1>1, <1>3, <1>4
<1>. QED  BY <1>1, <1>2, <1>3, <1>4, <1>5, <1>6, <1>7, <1>8 DEF seg, now

(* A turn that leaves the open segment open.                               *)
LEMMA AddOpenIInv ==
  ASSUME IInv, AddBatch,
         KeepOpen(add_batch(heap[last_], added, SubSeq(todo, 1, batch)))
  PROVE  IInv'
<1> DEFINE seg == add_batch(heap[last_], added, SubSeq(todo, 1, batch))
<1>0. heap' = [heap EXCEPT ![last_] = seg] /\ UNCHANGED <<last_, segments_, levels, rand, inserted>>
  BY DEF KeepOpen
<1>1. /\ TypeOK /\ LevelsDisjoint /\ Bookkeeping /\ NoLoss
      /\ last_ \in Objects /\ rand \in Nat /\ added \in Nat
  BY DEF IInv, TypeOK
<1>2. /\ seg \in Segments /\ IsFiniteSet(seg.erased_) /\ Consistent(seg)
      /\ seg.seg_id = heap[last_].seg_id
      /\ Live(seg) = Live(heap[last_]) \cup Batch(added, SubSeq(todo, 1, batch))
      /\ \A n \in Numbers(seg) : n \in Nat /\ 0 < n /\ n <= added'
      /\ \A n \in Numbers(seg) : n \in Numbers(heap[last_]) \/ n > added
      /\ added' \in Nat /\ added' >= added
      /\ docs' = docs \cup Batch(added, SubSeq(todo, 1, batch))
      /\ docs' \in SUBSET (Doc \X Nat)
      /\ todo' \in Seq(Doc)
      /\ pc = "add" /\ erased = {} /\ UNCHANGED <<pc, erased, i, j, amount, client>>
  BY OpenSegment
<1> HIDE DEF seg
<1>3. /\ Objects' = Objects /\ LevelSegments' = LevelSegments /\ heap'[last_] = seg
      /\ \A p \in Objects : p # last_ => heap'[p] = heap[p]
  BY <1>0, <1>1 DEF Objects, LevelSegments
<1>4. heap' \in Seq(Segments)
  <2>1. heap' = [heap EXCEPT ![last_] = seg] /\ heap \in Seq(Segments) /\ last_ \in 1..Len(heap)
    BY <1>0, <1>1, HeapType DEF TypeOK
  <2>. QED  BY <1>2, <2>1, ExceptSeq
<1>5. TypeOK'
  <2>1. Invocations' = Invocations
    BY <1>3 DEF Invocations
  <2>2. \A p \in Objects : IsFiniteSet(heap'[p].erased_)
    BY <1>1, <1>2, <1>3 DEF TypeOK
  <2>. QED  BY <1>0, <1>1, <1>2, <1>3, <1>4, <2>1, <2>2 DEF TypeOK, client
<1>6. LevelsDisjoint'
  <2>1. \A l \in DOMAIN levels : \A k \in DOMAIN levels[l] : levels[l][k] \in LevelSegments
    BY <1>1 DEF TypeOK, LevelSegments
  <2>2. \A p \in LevelSegments : p \in Objects /\ p # last_ /\ heap'[p] = heap[p]
    BY <1>1, <1>3 DEF LevelsDisjoint, LevelSegments
  <2>3. \A p \in LevelSegments : Numbers(heap'[p]) \cap Numbers(heap'[last_]) = {}
    <3>1. \A p \in LevelSegments : /\ Numbers(heap[p]) \cap Numbers(heap[last_]) = {}
                                   /\ Numbers(heap[p]) \subseteq Nat
                                   /\ \A n \in Numbers(heap[p]) : n <= added
      BY <1>1, <2>2, HeapType DEF LevelsDisjoint, Bookkeeping
    <3>2. ASSUME NEW p \in LevelSegments, NEW n \in Numbers(heap[p]), n \in Numbers(seg)
          PROVE  FALSE
      <4>1. n \in Nat /\ n <= added /\ n \notin Numbers(heap[last_])
        BY <3>1
      <4>. QED  BY <4>1, <3>2, <1>1, <1>2
    <3>. QED  BY <1>0, <1>3, <2>2, <3>2
  <2>. QED  BY <1>0, <1>1, <1>3, <2>1, <2>2, <2>3 DEF LevelsDisjoint
<1>7. Bookkeeping'
  <2>1. \A p \in Objects : heap'[p].seg_id = heap[p].seg_id
    BY <1>2, <1>3
  <2>2. \A p \in Objects : /\ Consistent(heap'[p])
                           /\ \A n \in Numbers(heap'[p]) : 0 < n /\ n <= added'
    <3>1. \A p \in Objects : /\ Numbers(heap[p]) \subseteq Nat
                             /\ \A n \in Numbers(heap[p]) : 0 < n /\ n <= added
      BY <1>1, HeapType DEF Bookkeeping
    <3>2. \A p \in Objects : Consistent(heap'[p])
      BY <1>1, <1>2, <1>3 DEF Bookkeeping
    <3>3. ASSUME NEW p \in Objects, NEW n \in Numbers(heap'[p])
          PROVE  0 < n /\ n <= added'
      <4>1. CASE p = last_
        BY <4>1, <1>2, <1>3
      <4>2. CASE p # last_
        <5>1. n \in Numbers(heap[p])
          BY <4>2, <1>3
        <5>2. added \in Nat /\ added' \in Nat /\ added' >= added
          BY <1>1, <1>2
        <5>. QED  BY <5>1, <5>2, <3>1
      <4>. QED  BY <4>1, <4>2
    <3>. QED  BY <3>2, <3>3
  <2>3. LevelSegments' = LevelSegments /\ UNCHANGED <<segments_, rand, inserted>>
    BY <1>0, <1>3
  <2>4. erased = {} /\ erased' = {} /\ Objects' = Objects
    BY <1>2, <1>3
  <2>5. /\ \A p \in LevelSegments' : segments_'[p] > 0
        /\ \A p \in inserted' : segments_'[p] > 0
    BY <1>1, <2>3 DEF Bookkeeping
  <2>6. /\ \A p, q \in Objects : heap'[p].seg_id = heap'[q].seg_id => p = q
        /\ \A p \in Objects : heap'[p].seg_id <= rand'
    BY <1>1, <2>1, <2>3 DEF Bookkeeping
  <2>. QED  BY <2>2, <2>4, <2>5, <2>6 DEF Bookkeeping
<1>8. NoLoss'
  <2>1. \A p \in Objects : Live(heap[p]) \subseteq Live(heap'[p]) /\ (Searched(p)' <=> Searched(p))
    BY <1>0, <1>2, <1>3 DEF Searched
  <2>2. docs \subseteq Visible'
    BY <1>1, <1>3, <2>1 DEF NoLoss, Visible
  <2>3. Batch(added, SubSeq(todo, 1, batch)) \subseteq Visible'
    BY <1>0, <1>1, <1>2, <1>3 DEF Visible, Searched
  <2>. QED  BY <1>2, <2>2, <2>3 DEF NoLoss
<1>. QED  BY <1>5, <1>6, <1>7, <1>8 DEF IInv

(* A turn that fills the open segment: it is sealed and a new one opened.  *)
LEMMA AddSealIInv ==
  ASSUME IInv, AddBatch,
         Seal(add_batch(heap[last_], added, SubSeq(todo, 1, batch)))
  PROVE  IInv'
<1> DEFINE seg == add_batch(heap[last_], added, SubSeq(todo, 1, batch))
           new == Len(heap) + 1
           top == LevelFor(Threshold)
           slot == Len(Level(levels, top)) + 1
<1>1. /\ TypeOK /\ LevelsDisjoint /\ Bookkeeping /\ NoLoss
      /\ last_ \in Objects /\ rand \in Nat /\ added \in Nat
  BY DEF IInv, TypeOK
<1>2. /\ seg \in Segments /\ IsFiniteSet(seg.erased_) /\ Consistent(seg)
      /\ seg.seg_id = heap[last_].seg_id
      /\ Live(seg) = Live(heap[last_]) \cup Batch(added, SubSeq(todo, 1, batch))
      /\ \A n \in Numbers(seg) : n \in Nat /\ 0 < n /\ n <= added'
      /\ \A n \in Numbers(seg) : n \in Numbers(heap[last_]) \/ n > added
      /\ added' \in Nat /\ added' >= added
      /\ docs' = docs \cup Batch(added, SubSeq(todo, 1, batch))
      /\ docs' \in SUBSET (Doc \X Nat)
      /\ todo' \in Seq(Doc)
      /\ pc = "add" /\ erased = {} /\ UNCHANGED <<pc, erased, i, j, amount, client>>
  BY OpenSegment
<1>3. /\ NewSegment(rand + 1) \in Segments /\ NewSegment(rand + 1).seg_id = rand + 1
      /\ NewSegment(rand + 1).erased_ = {} /\ Numbers(NewSegment(rand + 1)) = {}
      /\ Consistent(NewSegment(rand + 1))
  <2>1. NewSegment(rand + 1) = [seg_id |-> rand + 1, ids_ |-> [d \in Doc |-> 0],
                                inv_ids_ |-> {}, erased_ |-> {}]
    BY DEF NewSegment
  <2>2. rand + 1 \in Nat /\ [d \in Doc |-> 0] \in [Doc -> Nat]
    BY <1>1
  <2>3. NewSegment(rand + 1) \in Segments
    BY <2>1, <2>2 DEF Segments
  <2>4. Numbers(NewSegment(rand + 1)) = {} /\ Keys(NewSegment(rand + 1)) = {}
    BY <2>1 DEF Numbers, Keys
  <2>5. Consistent(NewSegment(rand + 1))
    BY <2>1, <2>4 DEF Consistent
  <2>. QED  BY <2>1, <2>3, <2>4, <2>5
<1>4. /\ heap' = Append([heap EXCEPT ![last_] = seg], NewSegment(rand + 1))
      /\ rand' = rand + 1 /\ last_' = new /\ inserted' = inserted \cup {last_}
      /\ heap \in Seq(Segments) /\ Len(heap) \in Nat /\ Objects = 1..Len(heap)
  BY <1>1, HeapType DEF TypeOK, Seal
<1> HIDE DEF seg
<1>5. /\ heap' \in Seq(Segments) /\ Objects' = 1..new /\ heap'[last_] = seg
      /\ heap'[new] = NewSegment(rand + 1)
      /\ \A p \in Objects : p # last_ => heap'[p] = heap[p]
  <2> DEFINE h == [heap EXCEPT ![last_] = seg]
  <2>1. /\ h \in Seq(Segments) /\ Len(h) = Len(heap) /\ h[last_] = seg
        /\ \A p \in Objects : p # last_ => h[p] = heap[p]
    BY <1>1, <1>2, <1>4, ExceptSeq
  <2> HIDE DEF h
  <2>2. heap' = Append(h, NewSegment(rand + 1))
    BY <1>4 DEF h
  <2>. QED  BY <1>1, <1>3, <1>4, <2>1, <2>2 DEF Objects
<1>6. Objects' = Objects \cup {new} /\ new \notin Objects /\ last_' = new
  BY <1>4, <1>5
<1>7. /\ segments_' \in [Objects' -> Nat] /\ segments_'[last_] > 0
      /\ \A p \in Objects : segments_'[p] >= segments_[p]
  <2>1. segments_ \in [1..Len(heap) -> Nat] /\ last_ \in 1..Len(heap)
    BY <1>1, <1>4 DEF TypeOK
  <2>2. segments_' = Append([segments_ EXCEPT ![last_] = @ + 1], 0)
    BY DEF Seal
  <2>. QED  BY <1>4, <1>5, <2>1, <2>2, BumpAppend
<1>8. /\ levels' \in Seq(Seq(Objects))
      /\ \A m \in DOMAIN levels' : \A k \in DOMAIN levels'[m] :
           IF m = top /\ k = slot
           THEN levels'[m][k] = last_
           ELSE m \in DOMAIN levels /\ k \in DOMAIN levels[m] /\ levels'[m][k] = levels[m][k]
  <2>1. levels \in Seq(Seq(Objects)) /\ top \in Nat \ {0}
    BY <1>1, LevelForType, IndexAssumption DEF TypeOK
  <2> HIDE DEF top
  <2>2. levels' = PushAt(levels, top, last_)
    BY DEF top, Seal
  <2>3. last_ \in Objects
    BY <1>1 DEF TypeOK
  <2> HIDE DEF slot
  <2>4. /\ levels' \in Seq(Seq(Objects)) /\ levels'[top][slot] = last_
        /\ OnlyNewSlot(levels', levels, top, slot)
    BY ONLY <2>1, <2>2, <2>3, PushAtProps DEF slot
  <2>. QED  BY <2>4 DEF OnlyNewSlot
<1> HIDE DEF top, slot, new
<1>9. /\ \A l \in DOMAIN levels : \A k \in DOMAIN levels[l] : levels[l][k] \in LevelSegments
      /\ \A p \in LevelSegments : p \in Objects /\ p # last_ /\ heap'[p] = heap[p]
      /\ LevelSegments' \subseteq LevelSegments \cup {last_}
  <2>1. \A l \in DOMAIN levels : \A k \in DOMAIN levels[l] : levels[l][k] \in LevelSegments
    BY <1>1 DEF TypeOK, LevelSegments
  <2>2. \A p \in LevelSegments : p \in Objects /\ p # last_ /\ heap'[p] = heap[p]
    BY <1>1, <1>5 DEF LevelsDisjoint, LevelSegments
  <2>3. LevelSegments' \subseteq LevelSegments \cup {last_}
    BY <1>8, <2>1 DEF LevelSegments
  <2>. QED  BY <2>1, <2>2, <2>3
<1>10. TypeOK'
  <2>1. Seq(Seq(Objects)) \subseteq Seq(Seq(Objects'))
    BY <1>6, SeqMonotonic
  <2>2. posted' \in Seq(Invocations')
    <3>1. Invocations \subseteq Invocations'
      BY <1>6 DEF Invocations
    <3>2. posted \in Seq(Invocations) /\ posted' = posted
      BY <1>1, <1>2 DEF TypeOK, client
    <3>. QED  BY <3>1, <3>2, SeqMonotonic
  <2>3. \A p \in Objects' : IsFiniteSet(heap'[p].erased_)
    BY <1>1, <1>2, <1>3, <1>5, <1>6, FS_EmptySet DEF TypeOK
  <2>4. rand' \in Nat /\ inserted' \in SUBSET Objects'
    BY <1>1, <1>4, <1>6 DEF TypeOK
  <2>5. levels' \in Seq(Seq(Objects'))
    BY <1>8, <2>1
  <2>. QED  BY <1>1, <1>2, <1>5, <1>6, <1>7, <2>2, <2>3, <2>4, <2>5 DEF TypeOK, client
<1>11. LevelsDisjoint'
  <2>1. ASSUME NEW p \in LevelSegments
        PROVE  Numbers(heap[p]) \cap Numbers(seg) = {}
    <3>1. /\ Numbers(heap[p]) \cap Numbers(heap[last_]) = {} /\ Numbers(heap[p]) \subseteq Nat
          /\ \A n \in Numbers(heap[p]) : n <= added
      BY <1>1, <1>9, HeapType DEF LevelsDisjoint, Bookkeeping
    <3>2. ASSUME NEW n \in Numbers(heap[p]), n \in Numbers(seg)
          PROVE  FALSE
      <4>1. n \in Nat /\ n <= added /\ n \notin Numbers(heap[last_])
        BY <3>1
      <4>. QED  BY <4>1, <3>2, <1>1, <1>2
    <3>. QED  BY <3>2
  <2>2. ASSUME NEW l1 \in DOMAIN levels', NEW l2 \in DOMAIN levels',
               NEW k1 \in DOMAIN levels'[l1], NEW k2 \in DOMAIN levels'[l2], l1 # l2 \/ k1 # k2
        PROVE  /\ levels'[l1][k1] # levels'[l2][k2]
               /\ Numbers(heap'[levels'[l1][k1]]) \cap Numbers(heap'[levels'[l2][k2]]) = {}
    <3>1. CASE l1 = top /\ k1 = slot
      <4>1. levels'[l1][k1] = last_ /\ levels'[l2][k2] \in LevelSegments
        BY <3>1, <2>2, <1>8, <1>9
      <4>. QED  BY <4>1, <2>1, <1>5, <1>9
    <3>2. CASE l2 = top /\ k2 = slot
      <4>1. levels'[l2][k2] = last_ /\ levels'[l1][k1] \in LevelSegments
        BY <3>2, <2>2, <1>8, <1>9
      <4>. QED  BY <4>1, <2>1, <1>5, <1>9
    <3>3. CASE ~(l1 = top /\ k1 = slot) /\ ~(l2 = top /\ k2 = slot)
      <4>1. /\ l1 \in DOMAIN levels /\ k1 \in DOMAIN levels[l1] /\ levels'[l1][k1] = levels[l1][k1]
            /\ l2 \in DOMAIN levels /\ k2 \in DOMAIN levels[l2] /\ levels'[l2][k2] = levels[l2][k2]
        BY <3>3, <1>8
      <4>2. /\ levels[l1][k1] # levels[l2][k2]
            /\ Numbers(heap[levels[l1][k1]]) \cap Numbers(heap[levels[l2][k2]]) = {}
        BY <4>1, <2>2, <1>1 DEF LevelsDisjoint
      <4>. QED  BY <4>1, <4>2, <1>9
    <3>. QED  BY <3>1, <3>2, <3>3
  <2>3. Numbers(heap'[last_']) = {} /\ \A p \in LevelSegments' : p # last_'
    BY <1>1, <1>3, <1>5, <1>6, <1>9
  <2>. QED  BY <2>2, <2>3 DEF LevelsDisjoint
<1>12. Bookkeeping'
  <2>1. \A p \in Objects : heap'[p].seg_id = heap[p].seg_id
    BY <1>2, <1>5
  <2>2. \A p \in Objects : heap[p].seg_id \in Nat /\ heap[p].seg_id <= rand
    BY <1>1, HeapType DEF Bookkeeping
  <2>3. \A p, q \in Objects' : heap'[p].seg_id = heap'[q].seg_id => p = q
    <3>1. \A p \in Objects : heap'[p].seg_id # heap'[new].seg_id
      <4>1. heap'[new].seg_id = rand + 1
        BY <1>3, <1>5
      <4>. QED  BY <1>1, <2>1, <2>2, <4>1
    <3>2. \A p, q \in Objects : heap'[p].seg_id = heap'[q].seg_id => p = q
      BY <1>1, <2>1 DEF Bookkeeping
    <3>. QED  BY <1>6, <3>1, <3>2
  <2>4. \A p \in Objects' : heap'[p].seg_id <= rand'
    BY <1>1, <1>3, <1>4, <1>5, <1>6, <2>1, <2>2
  <2>5. \A p \in Objects' : Consistent(heap'[p])
    BY <1>1, <1>2, <1>3, <1>5, <1>6 DEF Bookkeeping
  <2>6. \A p \in Objects' : \A n \in Numbers(heap'[p]) : 0 < n /\ n <= added'
    <3>1. \A p \in Objects : /\ Numbers(heap[p]) \subseteq Nat
                             /\ \A n \in Numbers(heap[p]) : 0 < n /\ n <= added
      BY <1>1, HeapType DEF Bookkeeping
    <3>2. \A p \in Objects : \A n \in Numbers(heap[p]) : 0 < n /\ n <= added'
      BY <3>1, <1>1, <1>2
    <3>3. \A p \in Objects' : p = new \/ p = last_ \/ (p \in Objects /\ heap'[p] = heap[p])
      BY <1>5, <1>6
    <3>. QED  BY <3>2, <3>3, <1>2, <1>3, <1>5
  <2>7. (\A p \in LevelSegments' : segments_'[p] > 0) /\ \A p \in inserted' : segments_'[p] > 0
    <3>1. \A p \in LevelSegments \cup inserted : p \in Objects /\ segments_[p] \in Nat /\ segments_[p] > 0
      BY <1>1, <1>9 DEF Bookkeeping, TypeOK
    <3>2. \A p \in LevelSegments \cup inserted : segments_'[p] > 0
      BY <3>1, <1>6, <1>7
    <3>. QED  BY <3>2, <1>4, <1>7, <1>9
  <2>. QED  BY <1>2, <2>3, <2>4, <2>5, <2>6, <2>7 DEF Bookkeeping
<1>13. NoLoss'
  <2>1. \A p \in Objects : Live(heap[p]) \subseteq Live(heap'[p])
    BY <1>2, <1>5
  <2>2. \A p \in Objects : Searched(p) => Searched(p)'
    <3>1. \A p \in Objects : segments_[p] \in Nat /\ segments_'[p] \in Nat
      BY <1>1, <1>6, <1>7 DEF TypeOK
    <3>2. \A p \in Objects : p = last_ \/ segments_[p] > 0 => segments_'[p] > 0
      BY <3>1, <1>7
    <3>. QED  BY <3>2 DEF Searched
  <2>3. docs \subseteq Visible'
    BY <1>1, <1>6, <2>1, <2>2 DEF NoLoss, Visible
  <2>4. Batch(added, SubSeq(todo, 1, batch)) \subseteq Visible'
    BY <1>1, <1>2, <1>5, <1>6, <1>7 DEF Visible, Searched
  <2>. QED  BY <1>2, <2>3, <2>4 DEF NoLoss
<1>. QED  BY <1>10, <1>11, <1>12, <1>13 DEF IInv

(* The two segments a merge pairs.                                         *)
LEMMA PairFacts ==
  ASSUME IInv, MergePair
  PROVE  LET a == levels[i][j]
             b == levels[i][j + 1]
         IN  /\ i \in DOMAIN levels /\ j \in DOMAIN levels[i] /\ j + 1 \in DOMAIN levels[i]
             /\ j < Len(levels[i]) /\ a # b
             /\ a \in LevelSegments /\ b \in LevelSegments /\ LevelSegments \subseteq Objects
             /\ Numbers(heap[a]) \cap Numbers(heap[b]) = {}
<1>1. TypeOK /\ LevelsDisjoint /\ i <= Len(levels) /\ j < Len(levels[i])
  BY DEF IInv, MergePair, InLoop
<1>2. i \in DOMAIN levels /\ levels[i] \in Seq(Objects) /\ j \in Nat \ {0}
  BY <1>1 DEF TypeOK
<1>3. j \in DOMAIN levels[i] /\ j + 1 \in DOMAIN levels[i] /\ j # j + 1
  BY <1>1, <1>2
<1>4. levels[i][j] \in LevelSegments /\ levels[i][j + 1] \in LevelSegments
  BY <1>1, <1>2, <1>3 DEF LevelSegments
<1>5. /\ levels[i][j] # levels[i][j + 1]
      /\ Numbers(heap[levels[i][j]]) \cap Numbers(heap[levels[i][j + 1]]) = {}
  BY <1>1, <1>2, <1>3 DEF LevelsDisjoint
<1>. QED  BY <1>1, <1>2, <1>3, <1>4, <1>5 DEF LevelSegments

(* What MergePair does to the heap.                                        *)
LEMMA PairHeap ==
  ASSUME IInv, MergePair
  PROVE  LET a == levels[i][j]
             b == levels[i][j + 1]
         IN  /\ heap' \in Seq(Segments) /\ Objects' = Objects
             /\ heap'[a] \in Segments /\ heap'[a].seg_id = rand + 1
             /\ Consistent(heap'[a]) /\ heap'[a].erased_ = heap[a].erased_
             /\ Live(heap'[a]) = Live(heap[a]) \cup Live(heap[b])
             /\ Numbers(heap'[a]) \subseteq Numbers(heap[a]) \cup Numbers(heap[b])
             /\ \A p \in Objects : p # a => heap'[p] = heap[p]
<1> DEFINE a == levels[i][j]
           b == levels[i][j + 1]
<1>1. /\ a \in Objects /\ b \in Objects /\ Numbers(heap[a]) \cap Numbers(heap[b]) = {}
      /\ TypeOK /\ Bookkeeping
  BY PairFacts DEF IInv
<1>2. PICK m \in merge_from_other(heap[a], heap[b]) :
        heap' = [heap EXCEPT ![a] = [m EXCEPT !.seg_id = rand + 1]]
  BY DEF MergePair, Renamed
<1> HIDE DEF a, b
<1>3. /\ heap[a] \in Segments /\ heap[b] \in Segments /\ rand \in Nat /\ heap \in Seq(Segments)
      /\ Objects = 1..Len(heap) /\ Consistent(heap[a]) /\ Consistent(heap[b])
  BY <1>1, HeapType DEF TypeOK, Bookkeeping
<1>4. /\ m \in Segments /\ Consistent(m) /\ m.erased_ = heap[a].erased_
      /\ Live(m) = Live(heap[a]) \cup Live(heap[b])
      /\ Numbers(m) \subseteq Numbers(heap[a]) \cup Numbers(heap[b])
  BY <1>1, <1>3, MergeProps
<1> DEFINE n == [m EXCEPT !.seg_id = rand + 1]
<1>5. n \in Segments /\ n.seg_id = rand + 1 /\ n.erased_ = m.erased_
  BY <1>3, <1>4, RenameProps
<1>6. Live(n) = Live(m) /\ Numbers(n) = Numbers(m) /\ Consistent(n)
  BY <1>3, <1>4, RenameProps
<1>7. heap' = [heap EXCEPT ![a] = n]
  BY <1>2
<1> HIDE DEF n
<1>8. heap' \in Seq(Segments) /\ Len(heap') = Len(heap) /\ heap'[a] = n
  BY <1>1, <1>3, <1>5, <1>7, ExceptSeq
<1>9. Objects' = Objects /\ \A p \in Objects : p # a => heap'[p] = heap[p]
  BY <1>3, <1>7, <1>8 DEF Objects
<1>. QED  BY <1>4, <1>5, <1>6, <1>8, <1>9 DEF a, b

(* What MergePair does to the levels: one slot is new and holds a, the     *)
(* others were there before and hold neither a nor b.                      *)
OldSlot(l, k) == IF l = i /\ k >= j THEN k + 2 ELSE k

(* What merging a pair does to the levels.                                 *)
LEMMA PairLevels ==
  ASSUME IInv, MergePair
  PROVE  /\ levels' \in Seq(Seq(Objects)) /\ Len(levels') >= Len(levels)
         /\ \E t \in Nat : \A l \in DOMAIN levels' : \A k \in DOMAIN levels'[l] :
              \/ l = i + 1 /\ k = t /\ levels'[l][k] = levels[i][j]
              \/ /\ l # i + 1 \/ k # t
                 /\ l \in DOMAIN levels /\ OldSlot(l, k) \in DOMAIN levels[l]
                 /\ levels'[l][k] = levels[l][OldSlot(l, k)]
                 /\ levels'[l][k] # levels[i][j] /\ levels'[l][k] # levels[i][j + 1]
<1> DEFINE rem == RemovePair(levels[i], j)
           ls == [levels EXCEPT ![i] = rem]
           t == Len(Level(ls, i + 1)) + 1
<1>1. /\ levels \in Seq(Seq(Objects)) /\ i \in Nat \ {0} /\ j \in Nat \ {0} /\ i + 1 \in Nat \ {0}
      /\ LevelsDisjoint
  BY DEF IInv, TypeOK
<1>2. /\ i \in DOMAIN levels /\ levels[i] \in Seq(Objects) /\ j < Len(levels[i])
      /\ j \in DOMAIN levels[i] /\ j + 1 \in DOMAIN levels[i] /\ levels[i][j] \in Objects
  BY <1>1, PairFacts
<1>3. rem \in Seq(Objects) /\ \A m \in DOMAIN rem : LET o == IF m < j THEN m ELSE m + 2
                                                    IN  o \in DOMAIN levels[i] /\ rem[m] = levels[i][o]
  BY <1>1, <1>2, RemovePairProps
<1> HIDE DEF rem
<1>4. /\ ls \in Seq(Seq(Objects)) /\ Len(ls) = Len(levels) /\ DOMAIN ls = DOMAIN levels
      /\ ls[i] = rem /\ \A l \in DOMAIN levels : l # i => ls[l] = levels[l]
  BY <1>1, <1>2, <1>3, ExceptSeq
<1> HIDE DEF ls
<1>5. levels' = PushAt(ls, i + 1, levels[i][j])
  BY DEF MergePair, ls, rem
<1>6. /\ levels' \in Seq(Seq(Objects)) /\ Len(levels') >= Len(ls)
      /\ levels'[i + 1][t] = levels[i][j] /\ OnlyNewSlot(levels', ls, i + 1, t)
  BY <1>1, <1>2, <1>4, <1>5, PushAtProps
<1>7. t \in Nat
  BY <1>1, <1>4 DEF Level
<1> HIDE DEF t
<1>8. ASSUME NEW l \in DOMAIN levels', NEW k \in DOMAIN levels'[l], l # i + 1 \/ k # t
      PROVE  /\ l \in DOMAIN levels /\ OldSlot(l, k) \in DOMAIN levels[l]
             /\ levels'[l][k] = levels[l][OldSlot(l, k)]
             /\ levels'[l][k] # levels[i][j] /\ levels'[l][k] # levels[i][j + 1]
  <2>1. l \in DOMAIN ls /\ k \in DOMAIN ls[l] /\ levels'[l][k] = ls[l][k]
    BY <1>6, <1>8 DEF OnlyNewSlot
  <2>2. k \in Nat /\ l \in DOMAIN levels
    BY <1>4, <2>1
  <2>3. /\ OldSlot(l, k) \in DOMAIN levels[l] /\ levels'[l][k] = levels[l][OldSlot(l, k)]
        /\ l = i => OldSlot(l, k) # j /\ OldSlot(l, k) # j + 1
    <3>1. CASE l = i
      <4>1. k \in DOMAIN rem /\ levels'[l][k] = rem[k]
        BY <3>1, <1>4, <2>1
      <4>2. OldSlot(l, k) = IF k < j THEN k ELSE k + 2
        BY <3>1, <1>1, <2>2 DEF OldSlot
      <4>. QED  BY <4>1, <4>2, <3>1, <1>1, <1>3, <2>2
    <3>2. CASE l # i
      BY <3>2, <1>4, <2>1, <2>2 DEF OldSlot
    <3>. QED  BY <3>1, <3>2
  <2>4. levels[l][OldSlot(l, k)] # levels[i][j] /\ levels[l][OldSlot(l, k)] # levels[i][j + 1]
    BY <1>1, <1>2, <2>2, <2>3 DEF LevelsDisjoint
  <2>. QED  BY <2>2, <2>3, <2>4
<1>9. \A l \in DOMAIN levels' : \A k \in DOMAIN levels'[l] :
         \/ l = i + 1 /\ k = t /\ levels'[l][k] = levels[i][j]
         \/ /\ l # i + 1 \/ k # t
            /\ l \in DOMAIN levels /\ OldSlot(l, k) \in DOMAIN levels[l]
            /\ levels'[l][k] = levels[l][OldSlot(l, k)]
            /\ levels'[l][k] # levels[i][j] /\ levels'[l][k] # levels[i][j + 1]
  BY <1>6, <1>8
<1>. QED  BY <1>4, <1>6, <1>7, <1>9

(* Merging a pair keeps the invariant.                                     *)
LEMMA MergePairIInv == ASSUME IInv, MergePair PROVE IInv'
<1> DEFINE a == levels[i][j]
           b == levels[i][j + 1]
<1>1. /\ TypeOK /\ LevelsDisjoint /\ Bookkeeping /\ NoLoss /\ rand \in Nat
      /\ UNCHANGED <<last_, segments_, added, pc, todo, i, j, client, docs>>
      /\ rand' = rand + 1 /\ inserted' = inserted \cup {a}
      /\ erased' = erased \cup {heap[a].seg_id, heap[b].seg_id}
  BY DEF IInv, TypeOK, MergePair
<1>0. rand \in Nat /\ j \in Nat
  BY <1>1 DEF TypeOK
<1>2. /\ i \in DOMAIN levels /\ a # b /\ a \in LevelSegments /\ b \in LevelSegments
      /\ LevelSegments \subseteq Objects /\ Numbers(heap[a]) \cap Numbers(heap[b]) = {}
  BY PairFacts
<1>3. /\ heap' \in Seq(Segments) /\ Objects' = Objects
      /\ heap'[a].seg_id = rand + 1
      /\ Consistent(heap'[a]) /\ heap'[a].erased_ = heap[a].erased_
      /\ Live(heap'[a]) = Live(heap[a]) \cup Live(heap[b])
      /\ Numbers(heap'[a]) \subseteq Numbers(heap[a]) \cup Numbers(heap[b])
      /\ \A p \in Objects : p # a => heap'[p] = heap[p]
  BY PairHeap
<1>4. /\ levels' \in Seq(Seq(Objects)) /\ Len(levels') >= Len(levels)
  BY PairLevels
<1>5. PICK t \in Nat : \A l \in DOMAIN levels' : \A k \in DOMAIN levels'[l] :
        \/ l = i + 1 /\ k = t /\ levels'[l][k] = a
        \/ /\ l # i + 1 \/ k # t
           /\ l \in DOMAIN levels /\ OldSlot(l, k) \in DOMAIN levels[l]
           /\ levels'[l][k] = levels[l][OldSlot(l, k)]
           /\ levels'[l][k] # a /\ levels'[l][k] # b
  BY PairLevels
<1>6. TypeOK /\ amount' \in Nat
  <2>1. size(heap[a]) \in Nat /\ size(heap[b]) \in Nat /\ amount \in Nat
    BY <1>1, <1>2, HeapType DEF TypeOK
  <2>2. PairSize \in Nat
    BY <2>1, SizeModAssumption DEF PairSize
  <2>3. amount' = amount - PairSize /\ PairSize <= amount
    BY DEF MergePair
  <2>4. amount' \in Nat
    BY <2>1, <2>2, <2>3
  <2>. QED  BY <1>1, <2>4
<1> HIDE DEF a, b
<1>7. /\ \A l \in DOMAIN levels : \A k \in DOMAIN levels[l] : levels[l][k] \in LevelSegments
      /\ \A p \in LevelSegments' : p = a \/ (p \in LevelSegments /\ p # a /\ p # b)
  <2>1. \A l \in DOMAIN levels : \A k \in DOMAIN levels[l] : levels[l][k] \in LevelSegments
    BY <1>1, SMTT(30) DEF TypeOK, LevelSegments
  <2>2. ASSUME NEW p \in LevelSegments'
        PROVE  p = a \/ (p \in LevelSegments /\ p # a /\ p # b)
    <3>1. PICK l \in DOMAIN levels' : \E k \in DOMAIN levels'[l] : levels'[l][k] = p
      BY DEF LevelSegments
    <3>. QED  BY <3>1, <1>5, <2>1
  <2>. QED  BY <2>1, <2>2
<1>8. TypeOK'
  <2>1. heap[a].seg_id \in Nat /\ heap[b].seg_id \in Nat
    BY <1>1, <1>2, HeapType
  <2>2. erased' \in SUBSET Nat /\ inserted' \in SUBSET Objects /\ rand' \in Nat
    <3>1. erased \in SUBSET Nat /\ inserted \in SUBSET Objects
      BY <1>1 DEF TypeOK
    <3>2. erased' \in SUBSET Nat
      BY <1>1, <2>1, <3>1
    <3>3. inserted' \in SUBSET Objects
      BY <1>1, <1>2, <3>1
    <3>4. rand' \in Nat
      BY <1>1
    <3>. QED  BY <3>2, <3>3, <3>4
  <2>3. Invocations' = Invocations
    BY <1>3 DEF Invocations
  <2>4. \A p \in Objects : IsFiniteSet(heap'[p].erased_)
    BY <1>1, <1>2, <1>3 DEF TypeOK
  <2>. QED  BY <1>1, <1>3, <1>4, <1>6, <2>2, <2>3, <2>4 DEF TypeOK, client
<1>9. LevelsDisjoint'
  <2>1. ASSUME NEW p \in LevelSegments, p # a, p # b
        PROVE  heap'[p] = heap[p] /\ Numbers(heap'[p]) \cap Numbers(heap'[a]) = {}
    <3>1. \A q \in LevelSegments : q # p => Numbers(heap[p]) \cap Numbers(heap[q]) = {}
      BY <1>1, SMTT(30) DEF LevelsDisjoint, LevelSegments
    <3>. QED  BY <3>1, <2>1, <1>2, <1>3
  <2>2. ASSUME NEW l1 \in DOMAIN levels', NEW l2 \in DOMAIN levels',
               NEW k1 \in DOMAIN levels'[l1], NEW k2 \in DOMAIN levels'[l2], l1 # l2 \/ k1 # k2
        PROVE  /\ levels'[l1][k1] # levels'[l2][k2]
               /\ Numbers(heap'[levels'[l1][k1]]) \cap Numbers(heap'[levels'[l2][k2]]) = {}
    <3>1. CASE l1 = i + 1 /\ k1 = t
      <4>1. /\ levels'[l1][k1] = a /\ levels'[l2][k2] \in LevelSegments
            /\ levels'[l2][k2] # a /\ levels'[l2][k2] # b
        BY <3>1, <2>2, <1>5, <1>7
      <4>. QED  BY <4>1, <2>1
    <3>2. CASE l2 = i + 1 /\ k2 = t
      <4>1. /\ levels'[l2][k2] = a /\ levels'[l1][k1] \in LevelSegments
            /\ levels'[l1][k1] # a /\ levels'[l1][k1] # b
        BY <3>2, <2>2, <1>5, <1>7
      <4>. QED  BY <4>1, <2>1
    <3>3. CASE ~(l1 = i + 1 /\ k1 = t) /\ ~(l2 = i + 1 /\ k2 = t)
      <4> DEFINE o1 == OldSlot(l1, k1)
                 o2 == OldSlot(l2, k2)
      <4>1. /\ l1 \in DOMAIN levels /\ o1 \in DOMAIN levels[l1] /\ levels'[l1][k1] = levels[l1][o1]
            /\ levels'[l1][k1] # a /\ levels'[l1][k1] # b
            /\ l2 \in DOMAIN levels /\ o2 \in DOMAIN levels[l2] /\ levels'[l2][k2] = levels[l2][o2]
            /\ levels'[l2][k2] # a /\ levels'[l2][k2] # b
        BY <3>3, <1>5
      <4>2. l1 # l2 \/ o1 # o2
        <5>1. k1 \in Nat /\ k2 \in Nat /\ j \in Nat
          <6>1. levels'[l1] \in Seq(Objects) /\ levels'[l2] \in Seq(Objects) /\ j \in Nat
            BY <1>0, <1>4
          <6>. QED  BY <6>1
        <5>. QED  BY <5>1, <2>2 DEF OldSlot
      <4> HIDE DEF o1, o2
      <4>3. /\ levels[l1][o1] # levels[l2][o2]
            /\ Numbers(heap[levels[l1][o1]]) \cap Numbers(heap[levels[l2][o2]]) = {}
        BY <4>1, <4>2, <1>1 DEF LevelsDisjoint
      <4>. QED  BY <4>1, <4>3, <1>7, <2>1
    <3>. QED  BY <3>1, <3>2, <3>3
  <2>3. ASSUME NEW p \in LevelSegments'
        PROVE  p # last_ /\ Numbers(heap'[p]) \cap Numbers(heap'[last_]) = {}
    <3>1. \A q \in LevelSegments : q # last_ /\ Numbers(heap[q]) \cap Numbers(heap[last_]) = {}
      BY <1>1 DEF LevelsDisjoint
    <3>2. heap'[last_] = heap[last_] /\ last_ # a
      BY <3>1, <1>1, <1>2, <1>3 DEF TypeOK
    <3>. QED  BY <3>1, <3>2, <1>2, <1>3, <1>7
  <2>. QED  BY <1>1, <2>2, <2>3 DEF LevelsDisjoint
<1>10. Bookkeeping'
  <2>1. \A p \in Objects : heap[p].seg_id \in Nat /\ heap[p].seg_id <= rand
    BY <1>1, HeapType DEF Bookkeeping
  <2>2. \A p, q \in Objects : heap'[p].seg_id = heap'[q].seg_id => p = q
    <3>1. \A p, q \in Objects : heap[p].seg_id = heap[q].seg_id => p = q
      BY <1>1 DEF Bookkeeping
    <3>2. \A p \in Objects : heap[p].seg_id # rand + 1
      BY <1>0, <2>1
    <3>. QED  BY <3>1, <3>2, <1>3
  <2>3. \A p \in Objects : heap'[p].seg_id <= rand'
    <3>1. \A p \in Objects : heap'[p].seg_id = rand + 1 \/ heap'[p].seg_id = heap[p].seg_id
      BY <1>3
    <3>2. rand' = rand + 1
      BY <1>1
    <3>. QED  BY <3>1, <3>2, <1>0, <2>1
  <2>4. \A p \in Objects : Consistent(heap'[p]) /\ \A n \in Numbers(heap'[p]) : 0 < n /\ n <= added'
    BY <1>1, <1>2, <1>3 DEF Bookkeeping
  <2>5. \A e \in erased' : e \in Nat /\ e <= rand
    BY <1>1, <1>2, <2>1 DEF Bookkeeping, TypeOK
  <2>6. InLoop'
    BY <1>1, <1>4, SMTT(30) DEF MergePair, InLoop, TypeOK
  <2>7. \A p \in LevelSegments' \cup inserted' : segments_'[p] > 0
    BY <1>1, <1>2, <1>7 DEF Bookkeeping
  <2>8. ASSUME NEW p \in LevelSegments'
        PROVE  heap'[p].seg_id \notin erased'
    <3>1. CASE p = a
      <4>1. heap'[a].seg_id = rand + 1 /\ rand \in Nat
        BY <1>1, <1>2, <1>3
      <4>2. rand + 1 \notin erased'
        BY <4>1, <2>5
      <4>. QED  BY <3>1, <4>1, <4>2
    <3>2. CASE p \in LevelSegments /\ p # a /\ p # b
      BY <3>2, <1>1, <1>2, <1>3 DEF Bookkeeping
    <3>. QED  BY <3>1, <3>2, <1>7
  <2>9. ASSUME NEW p \in Objects, heap'[p].seg_id \in erased'
        PROVE  \E q \in inserted' : Live(heap'[p]) \subseteq Live(heap'[q])
    <3>0. rand + 1 \notin erased'
      BY <1>0, <2>5
    <3>1. p # a /\ heap'[p] = heap[p]
      BY <3>0, <2>9, <1>3
    <3>2. CASE p = b
      BY <3>1, <3>2, <1>1, <1>3
    <3>3. CASE p # b
      <4>1. heap[p].seg_id \in erased
        BY <3>1, <3>3, <2>9, <1>1, <1>2 DEF Bookkeeping
      <4>2. PICK q \in inserted : Live(heap[p]) \subseteq Live(heap[q])
        BY <4>1, <1>1 DEF Bookkeeping
      <4>3. Live(heap[q]) \subseteq Live(heap'[q])
        BY <1>1, <1>3 DEF TypeOK
      <4>. QED  BY <3>1, <4>2, <4>3, <1>1
    <3>. QED  BY <3>2, <3>3
  <2>10. \A e \in erased' : e <= rand'
    BY <2>5, <1>1
  <2>. QED  BY <1>3, <2>2, <2>3, <2>4, <2>6, <2>7, <2>8, <2>9, <2>10 DEF Bookkeeping
<1>11. NoLoss'
  <2>1. \A p \in Objects : Live(heap[p]) \subseteq Live(heap'[p]) /\ (Searched(p)' <=> Searched(p))
    BY <1>1, <1>3 DEF Searched
  <2>. QED  BY <1>1, <1>3, <2>1 DEF NoLoss, Visible
<1>. QED  BY <1>8, <1>9, <1>10, <1>11 DEF IInv
-----------------------------------------------------------------------------
(* The operations of the index, with arguments of any size: what the       *)
(* writer calls, and more than the bounded calls of Next.                  *)
Operation == \/ \E ds \in Seq(Doc) : Add(ds)
             \/ \E ds \in SUBSET Doc : Erase(ds)
             \/ AddStep
             \/ RunCallback

(* Every operation keeps the invariant.                                    *)
LEMMA OperationIInv == ASSUME IInv, [Operation]_vars PROVE IInv'
<1>1. ASSUME NEW ds \in Seq(Doc), Add(ds) PROVE IInv'
  BY <1>1, AddIInv
<1>2. ASSUME NEW ds \in SUBSET Doc, Erase(ds) PROVE IInv'
  BY <1>2, EraseIInv
<1>3. CASE AddBatch
  <2> DEFINE seg == add_batch(heap[last_], added, SubSeq(todo, 1, batch))
  <2>1. KeepOpen(seg) \/ Seal(seg)
    BY <1>3 DEF AddBatch
  <2>. QED  BY <1>3, <2>1, AddOpenIInv, AddSealIInv
<1>4. CASE AddDone
  BY <1>4, AddDoneIInv
<1>5. CASE MergePair
  BY <1>5, MergePairIInv
<1>6. CASE MergeSkip
  BY <1>6, MergeSkipIInv
<1>7. CASE MergeLevelEnd
  BY <1>7, MergeLevelEndIInv
<1>8. CASE MergeEnd
  BY <1>8, MergeEndIInv
<1>9. CASE RunCallback
  BY <1>9, RunCallbackIInv
<1>10. CASE UNCHANGED vars
  <2>1. UNCHANGED <<store, added, docs, erased, inserted, pc, i>>
    BY <1>10 DEF vars, locals
  <2>2. InLoop' <=> InLoop
    BY <2>1 DEF InLoop, store
  <2>3. LevelsDisjoint' /\ Bookkeeping' /\ NoLoss'
    BY <2>1, <2>2, FrameStep DEF IInv, Bookkeeping
  <2>4. TypeOK'
    BY <1>10 DEF IInv, TypeOK, Objects, Invocations, vars, store, locals, client
  <2>. QED  BY <2>3, <2>4 DEF IInv
<1>. QED
  BY <1>1, <1>2, <1>3, <1>4, <1>5, <1>6, <1>7, <1>8, <1>9, <1>10 DEF Operation, AddStep

(* The calls of the bounded model are calls of an index.                   *)
LEMMA NextIsOperation == ASSUME [Next]_vars PROVE [Operation]_vars
<1>1. Calls \subseteq Seq(Doc)
  BY IndexAssumption DEF Calls
<1>. QED  BY <1>1 DEF Next, Operation

(* Every step keeps the invariant.                                         *)
THEOREM NextIInv == IInv /\ [Next]_vars => IInv'
BY OperationIInv, NextIsOperation

(* The inductive invariant holds in every reachable state of the index.    *)
THEOREM Invariance == Spec => []IInv
<1>. QED  BY InitIInv, NextIInv, PTL DEF Spec

(* The index's fields keep their types: every pointer is to a segment,     *)
(* every level holds segments, no counter of entries goes below zero.      *)
THEOREM TypeCorrect == Spec => []TypeOK
<1>1. IInv => TypeOK
  BY DEF IInv
<1>. QED  BY Invariance, <1>1, PTL

(* No vector is lost: what was added and not erased since is found by a    *)
(* search, for every threshold, merge budget, batching and erase pattern.  *)
THEOREM NothingLost == Spec => []NoLoss
<1>1. IInv => NoLoss
  BY DEF IInv
<1>. QED  BY Invariance, <1>1, PTL

(* The levels never share a segment or a vector, so that a merge never     *)
(* copies a vector into a segment that already holds it.                   *)
THEOREM LevelsStayDisjoint == Spec => []LevelsDisjoint
<1>1. IInv => LevelsDisjoint
  BY DEF IInv
<1>. QED  BY Invariance, <1>1, PTL

(* Only segments in searches before a merge are in searches after it.      *)
LEMMA LevelEndSearched ==
  ASSUME IInv, MergeLevelEnd
  PROVE  \A p \in Objects : Searched(p)' => Searched(p)
<1>1. /\ TypeOK /\ Bookkeeping /\ UNCHANGED <<heap, last_>> /\ inserted \subseteq Objects
  BY DEF IInv, MergeLevelEnd, TypeOK
<1>2. \A p \in Objects : /\ segments_[p] \in Nat
                         /\ p \in inserted => segments_[p] > 0
                         /\ segments_'[p] = IF Found(p) THEN Pushed(p) - 1 ELSE Pushed(p)
  BY <1>1 DEF TypeOK, Bookkeeping, MergeLevelEnd
<1>. QED  BY <1>1, <1>2 DEF Searched, Found, Pushed

(* A segment leaves segments_ only when another one there holds all its    *)
(* live vectors, and none appears that was not visible.                    *)
LEMMA MergeInvisibleStep ==
  ASSUME IInv, [Next]_vars, pc = "merge"
  PROVE  Visible' = Visible
<1>1. ASSUME IInv, MergePair PROVE Visible' = Visible
  <2> DEFINE a == levels[i][j]
             b == levels[i][j + 1]
  <2>1. /\ a \in Objects /\ b \in Objects /\ segments_[a] > 0 /\ segments_[b] > 0
        /\ UNCHANGED <<last_, segments_>>
    BY <1>1, PairFacts DEF IInv, Bookkeeping, MergePair
  <2>2. /\ Objects' = Objects /\ Live(heap'[a]) = Live(heap[a]) \cup Live(heap[b])
        /\ \A p \in Objects : p # a => heap'[p] = heap[p]
    BY <1>1, PairHeap
  <2> HIDE DEF a, b
  <2>3. \A p \in Objects : Searched(p)' <=> Searched(p)
    BY <2>1 DEF Searched
  <2>4. Searched(a) /\ Searched(b)
    BY <2>1 DEF Searched
  <2>5. Visible' \subseteq Visible
    BY <2>1, <2>2, <2>3, <2>4 DEF Visible
  <2>6. Visible \subseteq Visible'
    BY <2>1, <2>2, <2>3, <2>4 DEF Visible
  <2>. QED  BY <2>5, <2>6
<1>2. ASSUME IInv, MergeLevelEnd PROVE Visible' = Visible
  <2>1. /\ TypeOK /\ Bookkeeping /\ UNCHANGED <<heap, last_>> /\ Objects' = Objects
        /\ inserted \subseteq Objects
    BY <1>2 DEF IInv, MergeLevelEnd, Objects, TypeOK
  <2>2. \A p \in Objects : /\ segments_[p] \in Nat
                           /\ p \in inserted => segments_[p] > 0
                           /\ segments_'[p] = IF Found(p) THEN Pushed(p) - 1 ELSE Pushed(p)
    BY <1>2, <2>1 DEF TypeOK, Bookkeeping, MergeLevelEnd
  <2>3. \A p \in Objects : Searched(p)' => Searched(p)
    BY <1>2, LevelEndSearched
  <2>4. ASSUME NEW p \in Objects, Searched(p)
        PROVE  \E q \in Objects : Searched(q)' /\ Live(heap[p]) \subseteq Live(heap[q])
    <3>1. CASE p = last_ \/ ~Found(p)
      BY <3>1, <2>1, <2>2, <2>4, SMTT(30) DEF Searched, Pushed
    <3>2. CASE Found(p)
      <4>1. PICK q \in inserted : Live(heap[p]) \subseteq Live(heap[q])
        BY <3>2, <2>1 DEF Bookkeeping, Found
      <4>2. q \in Objects /\ segments_'[q] > 0
        BY <2>1, <2>2, SMTT(30) DEF Pushed
      <4>. QED  BY <4>1, <4>2 DEF Searched
    <3>. QED  BY <3>1, <3>2
  <2>5. Visible' \subseteq Visible
    BY <2>1, <2>3 DEF Visible
  <2>6. Visible \subseteq Visible'
    BY <2>1, <2>4 DEF Visible
  <2>. QED  BY <2>5, <2>6
<1>3. CASE UNCHANGED store
  BY <1>3 DEF store, Visible, Objects, Searched
<1>4. CASE ~UNCHANGED store
  <2>1. MergePair \/ MergeLevelEnd
    BY <1>4 DEF Next, AddStep, Add, Erase, AddBatch, AddDone, MergeSkip, MergeEnd,
                RunCallback, vars
  <2>. QED  BY <2>1, <1>1, <1>2
<1>. QED  BY <1>3, <1>4

(* Every step of SegmentStorage::merge leaves the result of a search as it *)
(* is.                                                                     *)
THEOREM MergeIsInvisible == Spec => MergePreservesSearch
<1>1. IInv /\ [Next]_vars => [pc = "merge" => Visible' = Visible]_vars
  BY MergeInvisibleStep
<1>. QED  BY Invariance, <1>1, PTL DEF Spec, MergePreservesSearch
=============================================================================
