----------------------------- MODULE FaissProofs -----------------------------
(***************************************************************************)
(* Proofs about FaissIndex, for all documents and batches and every order  *)
(* of the maps: positions do what Segment says, and a file reads back as   *)
(* the segment that was written.                                           *)
(***************************************************************************)
EXTENDS FaissIndex, FoldTheorems

(* The records that segments are.                                          *)
FaissSegments ==
  [seg_type : {0, 1}, seg_id : Nat, index_ : Seq(Nat), next_id : Nat,
   ids_ : Maps(Doc, Nat), inv_ids_ : Maps(Nat, Doc), erased_ : SUBSET Nat]

(* An assignment to a map changes one entry and keeps its type.            *)
LEMMA PutFacts ==
  ASSUME NEW K, NEW W, NEW map \in Maps(K, W), NEW k \in K, NEW v \in W
  PROVE  /\ Put(map, k, v) \in Maps(K, W)
         /\ DOMAIN Put(map, k, v) = DOMAIN map \cup {k}
         /\ Put(map, k, v)[k] = v
         /\ \A x \in DOMAIN map : x # k => Put(map, k, v)[x] = map[x]
<1>1. DOMAIN map \in SUBSET K /\ \A x \in DOMAIN map : map[x] \in W
  BY MapFacts
<1>2. Put(map, k, v) \in [DOMAIN map \cup {k} -> W]
  BY <1>1 DEF Put
<1>3. DOMAIN map \cup {k} \in SUBSET K
  BY <1>1
<1>4. Put(map, k, v) \in Maps(K, W)
  BY <1>2, <1>3 DEF Maps
<1>. QED  BY <1>1, <1>4 DEF Put

(* One turn of the loop of add_batch keeps the type of a segment.          *)
LEMMA AddOneType ==
  ASSUME NEW s \in FaissSegments, NEW v \in Nat, NEW d \in Doc
  PROVE  add_one(s, v, d) \in FaissSegments
<1>1. /\ Append(s.index_, v) \in Seq(Nat) /\ s.next_id + 1 \in Nat
      /\ s.ids_ \in Maps(Doc, Nat) /\ s.inv_ids_ \in Maps(Nat, Doc) /\ s.next_id \in Nat
  BY DEF FaissSegments
<1>2. Put(s.ids_, d, s.next_id) \in Maps(Doc, Nat) /\ Put(s.inv_ids_, s.next_id, d) \in Maps(Nat, Doc)
  BY <1>1, PutFacts
<1>. QED  BY <1>1, <1>2 DEF FaissSegments, add_one

(* add_batch adds the entries of the batch one after the other.            *)
Batches(n) == [1..n -> Nat \X Doc]

(* add_batch is a chain of turns of its loop, one for each entry.          *)
LEMMA AddBatchSteps ==
  ASSUME NEW s \in FaissSegments, NEW n \in Nat, NEW batch \in Batches(n)
  PROVE  \E h : /\ h[0] = s /\ add_batch(s, batch) = h[n]
                /\ \A k \in 1..n : h[k] = add_one(h[k - 1], batch[k][1], batch[k][2])
<1> DEFINE Body(g, T) == IF T = {} THEN s
                         ELSE add_one(g[T \ {Max(T)}], batch[Max(T)][1], batch[Max(T)][2])
           f == [x \in 1..n |-> [t \in FaissSegments |-> add_one(t, batch[x][1], batch[x][2])]]
           G == CHOOSE g : g = [T \in SUBSET (1..n) |-> Body(g, T)]
<1>1. \A x \in 1..n : batch[x][1] \in Nat /\ batch[x][2] \in Doc
  BY DEF Batches
<1>2. \A x \in 1..n, t \in FaissSegments :
        f[x][t] = add_one(t, batch[x][1], batch[x][2]) /\ f[x][t] \in FaissSegments
  BY <1>1, AddOneType
<1> HIDE DEF f
<1>3. PICK g \in [SUBSET (1..n) -> FaissSegments] : FoldLeftEquation(g, n, s, f)
  BY <1>2, FoldLeftExists
<1>4. ASSUME NEW T \in SUBSET (1..n) PROVE g[T] = Body(g, T)
  <2>1. CASE T = {}
    BY <1>3, <2>1 DEF FoldLeftEquation
  <2>2. CASE T # {}
    <3>1. Max(T) \in 1..n /\ g[T \ {Max(T)}] \in FaissSegments
      BY <2>2, MaxFacts
    <3>. QED  BY <1>2, <1>3, <2>2, <3>1 DEF FoldLeftEquation
  <2>. QED  BY <2>1, <2>2
<1>5. g = [T \in SUBSET (1..n) |-> Body(g, T)]
  BY <1>4
<1>6. G = [T \in SUBSET (1..n) |-> Body(G, T)]
  BY <1>5
<1>7. add_batch(s, batch) = G[1..n]
  <2>1. DOMAIN batch = 1..n
    BY DEF Batches
  <2>. QED  BY <2>1 DEF add_batch, FoldLeft, MapThenFoldSet
<1> HIDE DEF G
<1> DEFINE h == [k \in 0..n |-> G[1..k]]
<1>8. h[0] = s /\ h[n] = G[1..n]
  BY <1>6, MaxFacts, SMTT(40)
<1>9. ASSUME NEW k \in 1..n PROVE h[k] = add_one(h[k - 1], batch[k][1], batch[k][2])
  <2>1. G[1..k] = Body(G, 1..k)
    BY <1>6, MaxFacts
  <2>2. Body(G, 1..k) = add_one(G[1..(k - 1)], batch[k][1], batch[k][2])
    BY MaxFacts
  <2>3. h[k] = G[1..k] /\ h[k - 1] = G[1..(k - 1)]
    OBVIOUS
  <2>. QED  BY <2>1, <2>2, <2>3
<1> HIDE DEF h
<1>. QED  BY <1>7, <1>8, <1>9

(* The shape of a segment: positions are 0, 1, ..., the two maps agree     *)
(* where ids_ has an entry, and only positions in use are erased.          *)
WellFormed(s) ==
  /\ s \in FaissSegments /\ Len(s.index_) = s.next_id
  /\ DOMAIN s.inv_ids_ = 0..(s.next_id - 1)
  /\ \A d \in DOMAIN s.ids_ : s.ids_[d] \in DOMAIN s.inv_ids_ /\ s.inv_ids_[s.ids_[d]] = d
  /\ s.erased_ \subseteq DOMAIN s.inv_ids_

(* k is the last place among the first m of the batch that has the id d.   *)
IsLast(batch, m, d, k) ==
  k \in 1..m /\ batch[k][2] = d /\ \A l \in 1..m : batch[l][2] = d => l <= k

(* r is s with the first m entries of the batch behind its own.            *)
Appended(s, batch, m, r) ==
  /\ r \in FaissSegments
  /\ r.seg_type = s.seg_type /\ r.seg_id = s.seg_id /\ r.erased_ = s.erased_
  /\ r.next_id = s.next_id + m /\ Len(r.index_) = s.next_id + m
  /\ \A p \in 1..s.next_id : r.index_[p] = s.index_[p]
  /\ \A k \in 1..m : r.index_[s.next_id + k] = batch[k][1]
  /\ DOMAIN r.inv_ids_ = 0..(s.next_id + m - 1)
  /\ \A p \in 0..(s.next_id - 1) : r.inv_ids_[p] = s.inv_ids_[p]
  /\ \A k \in 1..m : r.inv_ids_[s.next_id + k - 1] = batch[k][2]
  /\ DOMAIN r.ids_ = DOMAIN s.ids_ \cup {batch[k][2] : k \in 1..m}
  /\ \A d \in DOMAIN r.ids_ :
       IF \E k \in 1..m : batch[k][2] = d
       THEN \E k : IsLast(batch, m, d, k) /\ r.ids_[d] = s.next_id + k - 1
       ELSE r.ids_[d] = s.ids_[d]

(* One more entry.                                                         *)
LEMMA AppendedStep ==
  ASSUME NEW s, WellFormed(s), NEW n \in Nat, NEW batch \in Batches(n),
         NEW m \in 1..n, NEW t, Appended(s, batch, m - 1, t)
  PROVE  Appended(s, batch, m, add_one(t, batch[m][1], batch[m][2]))
<1> DEFINE N == s.next_id
           v == batch[m][1]
           d == batch[m][2]
           r == add_one(t, v, d)
           q == N + m - 1
<1>1. N \in Nat /\ v \in Nat /\ d \in Doc /\ m \in Nat /\ t \in FaissSegments
  BY DEF WellFormed, FaissSegments, Batches, Appended
<1>2. /\ t.index_ \in Seq(Nat) /\ t.ids_ \in Maps(Doc, Nat) /\ t.inv_ids_ \in Maps(Nat, Doc)
      /\ t.next_id = q /\ Len(t.index_) = q /\ q \in Nat /\ N + (m - 1) = q
  BY <1>1 DEF FaissSegments, Appended
<1>3. /\ r.seg_type = t.seg_type /\ r.seg_id = t.seg_id /\ r.erased_ = t.erased_
      /\ r.next_id = q + 1 /\ r.index_ = Append(t.index_, v)
      /\ r.ids_ = Put(t.ids_, d, q) /\ r.inv_ids_ = Put(t.inv_ids_, q, d)
  BY <1>1, <1>2 DEF add_one, FaissSegments
<1>4. r \in FaissSegments
  BY <1>1, AddOneType
<1>5. /\ DOMAIN r.ids_ = DOMAIN t.ids_ \cup {d} /\ r.ids_[d] = q
      /\ \A x \in DOMAIN t.ids_ : x # d => r.ids_[x] = t.ids_[x]
      /\ DOMAIN r.inv_ids_ = DOMAIN t.inv_ids_ \cup {q} /\ r.inv_ids_[q] = d
      /\ \A x \in DOMAIN t.inv_ids_ : x # q => r.inv_ids_[x] = t.inv_ids_[x]
  <2> HIDE DEF r, q, d
  <2>1. /\ DOMAIN Put(t.ids_, d, q) = DOMAIN t.ids_ \cup {d} /\ Put(t.ids_, d, q)[d] = q
        /\ \A x \in DOMAIN t.ids_ : x # d => Put(t.ids_, d, q)[x] = t.ids_[x]
    BY DEF Put
  <2>2. /\ DOMAIN Put(t.inv_ids_, q, d) = DOMAIN t.inv_ids_ \cup {q}
        /\ Put(t.inv_ids_, q, d)[q] = d
        /\ \A x \in DOMAIN t.inv_ids_ : x # q => Put(t.inv_ids_, q, d)[x] = t.inv_ids_[x]
    BY DEF Put
  <2>. QED  BY <1>3, <2>1, <2>2
<1>6. /\ Len(r.index_) = q + 1 /\ r.index_[q + 1] = v
      /\ \A p \in 1..q : r.index_[p] = t.index_[p]
  BY <1>1, <1>2, <1>3
<1> HIDE DEF r
<1>7. /\ DOMAIN t.inv_ids_ = 0..(q - 1)
      /\ \A p \in 1..N : t.index_[p] = s.index_[p]
      /\ \A k \in 1..(m - 1) : t.index_[N + k] = batch[k][1]
      /\ \A p \in 0..(N - 1) : t.inv_ids_[p] = s.inv_ids_[p]
      /\ \A k \in 1..(m - 1) : t.inv_ids_[N + k - 1] = batch[k][2]
  BY <1>1, <1>2 DEF Appended
<1>8. /\ r.next_id = N + m /\ Len(r.index_) = N + m
      /\ \A p \in 1..N : r.index_[p] = s.index_[p]
      /\ DOMAIN r.inv_ids_ = 0..(N + m - 1)
      /\ \A p \in 0..(N - 1) : r.inv_ids_[p] = s.inv_ids_[p]
  <2>1. r.next_id = N + m /\ Len(r.index_) = N + m
    BY <1>1, <1>2, <1>3, <1>6
  <2>2. \A p \in 1..N : r.index_[p] = s.index_[p]
    <3>1. 1..N \subseteq 1..q
      BY <1>1
    <3> HIDE DEF q
    <3>. QED  BY <1>6, <1>7, <3>1
  <2>3. 0..(N + m - 1) = 0..(q - 1) \cup {q} /\ \A p \in 0..(N - 1) : p \in 0..(q - 1) /\ p # q
    BY <1>1
  <2>4. DOMAIN r.inv_ids_ = 0..(N + m - 1)
    BY <1>5, <1>7, <2>3
  <2>5. \A p \in 0..(N - 1) : r.inv_ids_[p] = s.inv_ids_[p]
    BY <1>5, <1>7, <2>3
  <2>. QED  BY <2>1, <2>2, <2>4, <2>5
<1>9. ASSUME NEW k \in 1..m
      PROVE  r.index_[N + k] = batch[k][1] /\ r.inv_ids_[N + k - 1] = batch[k][2]
  <2>1. CASE k = m
    BY <1>1, <1>2, <1>5, <1>6, <2>1
  <2>2. CASE k # m
    <3>1. k \in 1..(m - 1) /\ N + k \in 1..q /\ N + k - 1 \in 0..(q - 1) /\ N + k - 1 # q
      BY <1>1, <2>2
    <3>. QED  BY <1>5, <1>6, <1>7, <3>1
  <2>. QED  BY <2>1, <2>2
<1>10. DOMAIN t.ids_ = DOMAIN s.ids_ \cup {batch[k][2] : k \in 1..(m - 1)}
  BY <1>1 DEF Appended
<1>11. DOMAIN r.ids_ = DOMAIN s.ids_ \cup {batch[k][2] : k \in 1..m}
  <2>1. {batch[k][2] : k \in 1..m} = {batch[k][2] : k \in 1..(m - 1)} \cup {d}
    BY <1>1
  <2>. QED  BY <1>5, <1>10, <2>1
<1>12. ASSUME NEW x \in DOMAIN r.ids_, \E k \in 1..m : batch[k][2] = x
       PROVE  \E k : IsLast(batch, m, x, k) /\ r.ids_[x] = N + k - 1
  <2>1. CASE x = d
    <3>1. IsLast(batch, m, x, m) /\ r.ids_[x] = N + m - 1
      BY <1>1, <1>5, <2>1 DEF IsLast
    <3>. QED  BY <3>1
  <2>2. CASE x # d
    <3>1. \E k \in 1..(m - 1) : batch[k][2] = x
      BY <1>1, <1>12, <2>2
    <3>2. x \in DOMAIN t.ids_
      BY <1>10, <3>1
    <3>3. PICK k : IsLast(batch, m - 1, x, k) /\ t.ids_[x] = N + k - 1
      BY <3>1, <3>2 DEF Appended
    <3>4. IsLast(batch, m, x, k)
      BY <1>1, <2>2, <3>3 DEF IsLast
    <3>. QED  BY <1>5, <2>2, <3>2, <3>3, <3>4
  <2>. QED  BY <2>1, <2>2
<1>13. ASSUME NEW x \in DOMAIN r.ids_, ~ \E k \in 1..m : batch[k][2] = x
       PROVE  r.ids_[x] = s.ids_[x]
  <2>1. x # d /\ ~ \E k \in 1..(m - 1) : batch[k][2] = x
    BY <1>1, <1>13
  <2>2. x \in DOMAIN t.ids_ /\ t.ids_[x] = s.ids_[x]
    BY <1>5, <2>1 DEF Appended
  <2>. QED  BY <1>5, <2>1, <2>2
<1>14. r.seg_type = s.seg_type /\ r.seg_id = s.seg_id /\ r.erased_ = s.erased_
  BY <1>3 DEF Appended
<1>15. Appended(s, batch, m, r)
  BY <1>4, <1>8, <1>9, <1>11, <1>12, <1>13, <1>14 DEF Appended
<1>. QED  BY <1>15 DEF r

(* All of them: what add_batch does to a segment.                          *)
LEMMA AddBatchAppends ==
  ASSUME NEW s, WellFormed(s), NEW n \in Nat, NEW batch \in Batches(n)
  PROVE  Appended(s, batch, n, add_batch(s, batch))
<1>1. s \in FaissSegments
  BY DEF WellFormed
<1>2. PICK h : /\ h[0] = s /\ add_batch(s, batch) = h[n]
               /\ \A k \in 1..n : h[k] = add_one(h[k - 1], batch[k][1], batch[k][2])
  BY <1>1, AddBatchSteps
<1> DEFINE P == {k \in 0..n : Appended(s, batch, k, h[k])}
<1>3. 0 \in P
  <2>1. s.next_id \in Nat
    BY <1>1 DEF FaissSegments
  <2>2. Appended(s, batch, 0, s)
    BY <2>1 DEF Appended, WellFormed
  <2>. QED  BY <1>2, <2>2
<1>4. ASSUME NEW k \in 1..n, k - 1 \in P PROVE k \in P
  BY <1>2, <1>4, AppendedStep
<1> HIDE DEF P
<1>5. n \in P
  BY <1>3, <1>4, Climb
<1>. QED  BY <1>2, <1>5 DEF P

(* add_batch keeps the shape.                                              *)
LEMMA AppendedWellFormed ==
  ASSUME NEW s, WellFormed(s), NEW n \in Nat, NEW batch \in Batches(n),
         NEW r, Appended(s, batch, n, r)
  PROVE  WellFormed(r)
<1> DEFINE N == s.next_id
<1>1. N \in Nat /\ N + n \in Nat
  BY DEF WellFormed, FaissSegments
<1>2. /\ r \in FaissSegments /\ r.next_id = N + n /\ Len(r.index_) = N + n
      /\ DOMAIN r.inv_ids_ = 0..(N + n - 1)
  BY DEF Appended
<1>3. r.erased_ \subseteq DOMAIN r.inv_ids_
  BY <1>1, <1>2 DEF Appended, WellFormed
<1>4. ASSUME NEW d \in DOMAIN r.ids_
      PROVE  r.ids_[d] \in DOMAIN r.inv_ids_ /\ r.inv_ids_[r.ids_[d]] = d
  <2>1. CASE \E k \in 1..n : batch[k][2] = d
    <3>1. PICK k : IsLast(batch, n, d, k) /\ r.ids_[d] = N + k - 1
      BY <2>1 DEF Appended
    <3>2. k \in 1..n /\ batch[k][2] = d
      BY <3>1 DEF IsLast
    <3>3. r.inv_ids_[N + k - 1] = d
      BY <3>2 DEF Appended
    <3>4. N + k - 1 \in 0..(N + n - 1)
      BY <1>1, <3>2
    <3>. QED  BY <1>2, <3>1, <3>3, <3>4
  <2>2. CASE ~ \E k \in 1..n : batch[k][2] = d
    <3>0. r.ids_[d] = s.ids_[d]
      BY <2>2 DEF Appended
    <3>1. d \in DOMAIN s.ids_ /\ r.ids_[d] = s.ids_[d]
      BY <2>2, <3>0 DEF Appended
    <3>2. s.ids_[d] \in 0..(N - 1) /\ s.inv_ids_[s.ids_[d]] = d
      BY <3>1 DEF WellFormed
    <3>3. r.inv_ids_[s.ids_[d]] = d
      BY <3>2 DEF Appended
    <3>4. s.ids_[d] \in 0..(N + n - 1)
      BY <1>1, <3>2
    <3>. QED  BY <1>2, <3>1, <3>3, <3>4
  <2>. QED  BY <2>1, <2>2
<1>5. r \in FaissSegments /\ Len(r.index_) = r.next_id /\ DOMAIN r.inv_ids_ = 0..(r.next_id - 1)
  BY <1>1, <1>2
<1>. QED  BY <1>3, <1>4, <1>5 DEF WellFormed

(* What it does to the numbered vectors: the last entry of an id counts in *)
(* ids_, and all of them are added to inv_ids_.                            *)
Extended(A, batch, n, R) ==
  /\ R.inv_ids_ = A.inv_ids_ \cup {<<batch[k][2], batch[k][1]>> : k \in 1..n}
  /\ R.erased_ = A.erased_
  /\ \A d \in Doc : IF \E k \in 1..n : batch[k][2] = d
                    THEN \E k : IsLast(batch, n, d, k) /\ R.ids_[d] = batch[k][1]
                    ELSE R.ids_[d] = A.ids_[d]

(* An appended batch, seen through Abstract, extends the abstract segment. *)
LEMMA AppendedAbstract ==
  ASSUME NEW s, WellFormed(s), NEW n \in Nat, NEW batch \in Batches(n),
         NEW r, Appended(s, batch, n, r)
  PROVE  Extended(Abstract(s), batch, n, Abstract(r))
<1> DEFINE N == s.next_id
<1>1. N \in Nat /\ DOMAIN s.inv_ids_ = 0..(N - 1) /\ s.erased_ \subseteq 0..(N - 1)
  BY DEF WellFormed, FaissSegments
<1>2. /\ DOMAIN r.inv_ids_ = 0..(N + n - 1) /\ r.erased_ = s.erased_
      /\ \A k \in 1..n : r.index_[N + k] = batch[k][1] /\ r.inv_ids_[N + k - 1] = batch[k][2]
  BY DEF Appended
<1>3. ASSUME NEW p \in 0..(N - 1)
      PROVE  /\ p \in DOMAIN r.inv_ids_ /\ r.inv_ids_[p] = s.inv_ids_[p]
             /\ r.index_[p + 1] = s.index_[p + 1]
  <2>1. p + 1 \in 1..N /\ p \in 0..(N + n - 1)
    BY <1>1
  <2>. QED  BY <1>2, <2>1 DEF Appended
<1>4. Abstract(r).inv_ids_ =
        Abstract(s).inv_ids_ \cup {<<batch[k][2], batch[k][1]>> : k \in 1..n}
  <2> DEFINE R == {<<r.inv_ids_[p], r.index_[p + 1]>> : p \in 0..(N + n - 1)}
             Q == {<<s.inv_ids_[p], s.index_[p + 1]>> : p \in 0..(N - 1)}
             B == {<<batch[k][2], batch[k][1]>> : k \in 1..n}
  <2>1. Abstract(r).inv_ids_ = R /\ Abstract(s).inv_ids_ = Q
    BY <1>1, <1>2 DEF Abstract
  <2>2. ASSUME NEW p \in 0..(N + n - 1)
        PROVE  <<r.inv_ids_[p], r.index_[p + 1]>> \in Q \cup B
    <3>1. CASE p \in 0..(N - 1)
      BY <1>3, <3>1
    <3>2. CASE p \notin 0..(N - 1)
      <4> DEFINE k == p + 1 - N
      <4>1. k \in 1..n /\ N + k - 1 = p /\ N + k = p + 1
        BY <1>1, <3>2
      <4>2. <<r.inv_ids_[p], r.index_[p + 1]>> = <<batch[k][2], batch[k][1]>>
        BY <1>2, <4>1
      <4>. QED  BY <4>1, <4>2
    <3>. QED  BY <3>1, <3>2
  <2>3. Q \subseteq R
    <3>1. 0..(N - 1) \subseteq 0..(N + n - 1)
      BY <1>1
    <3>. QED  BY <1>3, <3>1
  <2>4. ASSUME NEW k \in 1..n PROVE <<batch[k][2], batch[k][1]>> \in R
    <3>1. N + k - 1 \in 0..(N + n - 1) /\ (N + k - 1) + 1 = N + k
      BY <1>1
    <3>2. <<batch[k][2], batch[k][1]>> = <<r.inv_ids_[N + k - 1], r.index_[(N + k - 1) + 1]>>
      BY <1>2, <3>1
    <3>. QED  BY <3>1, <3>2
  <2>5. R = Q \cup B
    BY <2>2, <2>3, <2>4
  <2>. QED  BY <2>1, <2>5
<1>5. Abstract(r).erased_ = Abstract(s).erased_
  <2>1. Abstract(r).erased_ = {r.index_[p + 1] : p \in s.erased_}
    BY <1>2 DEF Abstract
  <2>2. Abstract(s).erased_ = {s.index_[p + 1] : p \in s.erased_}
    BY DEF Abstract
  <2>3. \A p \in s.erased_ : r.index_[p + 1] = s.index_[p + 1]
    BY <1>1, <1>3
  <2>. QED  BY <2>1, <2>2, <2>3
<1>6. ASSUME NEW d \in Doc, \E k \in 1..n : batch[k][2] = d
      PROVE  \E k : IsLast(batch, n, d, k) /\ Abstract(r).ids_[d] = batch[k][1]
  <2>1. d \in DOMAIN r.ids_
    BY <1>6 DEF Appended
  <2>2. PICK k : IsLast(batch, n, d, k) /\ r.ids_[d] = N + k - 1
    BY <1>6, <2>1 DEF Appended
  <2>3. k \in 1..n /\ (N + k - 1) + 1 = N + k
    BY <1>1, <2>2 DEF IsLast
  <2>4. Abstract(r).ids_[d] = r.index_[r.ids_[d] + 1]
    BY <2>1 DEF Abstract
  <2>. QED  BY <1>2, <2>2, <2>3, <2>4
<1>7. ASSUME NEW d \in Doc, ~ \E k \in 1..n : batch[k][2] = d
      PROVE  Abstract(r).ids_[d] = Abstract(s).ids_[d]
  <2>1. d \in DOMAIN r.ids_ <=> d \in DOMAIN s.ids_
    BY <1>7 DEF Appended
  <2>2. CASE d \in DOMAIN s.ids_
    <3>1. r.ids_[d] = s.ids_[d]
      BY <1>7, <2>1, <2>2 DEF Appended
    <3>2. s.ids_[d] \in 0..(N - 1)
      BY <2>2 DEF WellFormed
    <3>3. r.index_[r.ids_[d] + 1] = s.index_[s.ids_[d] + 1]
      BY <1>3, <3>1, <3>2
    <3>. QED  BY <2>1, <2>2, <3>3 DEF Abstract
  <2>3. CASE d \notin DOMAIN s.ids_
    BY <2>1, <2>3 DEF Abstract
  <2>. QED  BY <2>2, <2>3
<1>. QED  BY <1>4, <1>5, <1>6, <1>7 DEF Extended

(* The fields of the abstract segment.                                     *)
LEMMA AbstractRecord ==
  ASSUME NEW s
  PROVE  /\ Abstract(s) = [seg_id |-> s.seg_id, ids_ |-> Abstract(s).ids_,
                           inv_ids_ |-> Abstract(s).inv_ids_, erased_ |-> Abstract(s).erased_]
         /\ Abstract(s).ids_ = [d \in Doc |-> Abstract(s).ids_[d]]
         /\ Abstract(s).seg_id = s.seg_id
BY DEF Abstract

(* add_batch of fresh numbers is add_batch of Segment.                     *)
IsNumbered(batch, base, n, ds) ==
  ds \in [1..n -> Doc] /\ batch = [k \in 1..n |-> <<base + k, ds[k]>>]

(* Appending a batch with fresh numbers is add_batch of Segment.           *)
LEMMA AddRefines ==
  ASSUME NEW s, WellFormed(s), NEW base \in Nat, NEW n \in Nat, NEW ds,
         NEW batch, IsNumbered(batch, base, n, ds),
         NEW r, Appended(s, batch, n, r)
  PROVE  Abstract(r) = Seg!add_batch(Abstract(s), base, ds)
<1>a. ds \in [1..n -> Doc] /\ batch = [k \in 1..n |-> <<base + k, ds[k]>>]
  BY DEF IsNumbered
<1> USE <1>a
<1> DEFINE A == Abstract(s)
           R == Abstract(r)
           ids == [d \in Doc |-> IF \E k \in DOMAIN ds : ds[k] = d
                                 THEN base + Seg!LastIn(ds, d) ELSE A.ids_[d]]
           added == {<<ds[k], base + k>> : k \in 1..n}
<1>1. /\ batch \in Batches(n) /\ DOMAIN ds = 1..n
      /\ \A k \in 1..n : batch[k][1] = base + k /\ batch[k][2] = ds[k]
  BY DEF Batches
<1>0. Extended(A, batch, n, R)
  BY <1>1, AppendedAbstract
<1>2. R.inv_ids_ = A.inv_ids_ \cup added
  <2>1. {<<batch[k][2], batch[k][1]>> : k \in 1..n} = added
    BY <1>1
  <2>. QED  BY <1>0, <2>1 DEF Extended
<1>3. R.erased_ = A.erased_ /\ R.seg_id = A.seg_id
  <2>1. R.erased_ = A.erased_
    BY <1>0 DEF Extended
  <2>2. r.seg_id = s.seg_id
    BY DEF Appended
  <2>. QED  BY <2>1, <2>2, AbstractRecord
<1>4. ASSUME NEW d \in Doc PROVE R.ids_[d] = ids[d]
  <2>1. CASE \E k \in 1..n : ds[k] = d
    <3>0. \E k \in 1..n : batch[k][2] = d
      BY <1>1, <2>1
    <3>1. PICK k : IsLast(batch, n, d, k) /\ R.ids_[d] = batch[k][1]
      BY <1>0, <3>0 DEF Extended
    <3>2. k \in 1..n /\ ds[k] = d /\ \A l \in 1..n : ds[l] = d => l <= k
      BY <1>1, <3>1 DEF IsLast
    <3>3. \A l \in 1..n : ds[l] = d /\ (\A j \in 1..n : ds[j] = d => j <= l) => l = k
      BY <3>2
    <3>4. Seg!LastIn(ds, d) = k
      BY <1>1, <3>2, <3>3 DEF Seg!LastIn
    <3>. QED  BY <1>1, <2>1, <3>1, <3>2, <3>4
  <2>2. CASE ~ \E k \in 1..n : ds[k] = d
    <3>1. ~ \E k \in 1..n : batch[k][2] = d
      BY <1>1, <2>2
    <3>2. R.ids_[d] = A.ids_[d]
      BY <1>0, <3>1 DEF Extended
    <3>. QED  BY <1>1, <2>2, <3>2
  <2>. QED  BY <2>1, <2>2
<1>5. R.ids_ = ids
  BY <1>4, AbstractRecord
<1>6. Seg!Batch(base, ds) = added
  BY <1>1 DEF Seg!Batch
<1>7. Seg!add_batch(A, base, ds) =
        [A EXCEPT !.ids_ = ids, !.inv_ids_ = A.inv_ids_ \cup added]
  <2>1. Seg!add_batch(A, base, ds) =
          [A EXCEPT !.ids_ = ids, !.inv_ids_ = A.inv_ids_ \cup Seg!Batch(base, ds)]
    BY DEF Seg!add_batch
  <2>. QED  BY <1>6, <2>1
<1>8. /\ R = [seg_id |-> R.seg_id, ids_ |-> R.ids_, inv_ids_ |-> R.inv_ids_, erased_ |-> R.erased_]
      /\ A = [seg_id |-> A.seg_id, ids_ |-> A.ids_, inv_ids_ |-> A.inv_ids_, erased_ |-> A.erased_]
  BY AbstractRecord
<1> HIDE DEF A, R, ids, added
<1>9. R = [A EXCEPT !.ids_ = ids, !.inv_ids_ = A.inv_ids_ \cup added]
  BY <1>2, <1>3, <1>5, <1>8
<1>. QED  BY <1>7, <1>9 DEF A, R

(* The numbers of the vectors a segment holds: different, and among the    *)
(* first top numbers.                                                      *)
OwnNumbers(s, top) ==
  /\ \A p, q \in 1..s.next_id : s.index_[p] = s.index_[q] => p = q
  /\ \A p \in 1..s.next_id : s.index_[p] \in 1..top

(* Marking the positions of ids erased is erase_batch of Segment.          *)
LEMMA EraseRefines ==
  ASSUME NEW s, WellFormed(s), NEW top \in Nat, OwnNumbers(s, top), NEW ds \in SUBSET Doc
  PROVE  Abstract(erase_batch(s, ds)) = Seg!erase_batch(Abstract(s), ds)
<1> DEFINE A == Abstract(s)
           r == erase_batch(s, ds)
           R == Abstract(r)
           N == s.next_id
<1>1. /\ s.ids_ \in Maps(Doc, Nat) /\ N \in Nat
      /\ \A d \in DOMAIN s.ids_ : s.ids_[d] \in 0..(N - 1)
  BY DEF WellFormed, FaissSegments
<1>2. DOMAIN s.ids_ \subseteq Doc
  BY <1>1, MapFacts
<1>3. ASSUME NEW d \in DOMAIN s.ids_
      PROVE  A.ids_[d] = s.index_[s.ids_[d] + 1] /\ A.ids_[d] # 0
  <2>1. s.ids_[d] + 1 \in 1..N
    BY <1>1
  <2>2. s.index_[s.ids_[d] + 1] \in 1..top
    BY <2>1 DEF OwnNumbers
  <2>3. A.ids_[d] = s.index_[s.ids_[d] + 1]
    BY <1>2 DEF Abstract
  <2>. QED  BY <2>2, <2>3
<1>4. \A d \in Doc : d \notin DOMAIN s.ids_ => A.ids_[d] = 0
  BY DEF Abstract
<1>5. Seg!Keys(A) = DOMAIN s.ids_
  BY <1>2, <1>3, <1>4 DEF Seg!Keys
<1>6. r = [s EXCEPT !.erased_ = s.erased_ \cup {s.ids_[d] : d \in ds \cap DOMAIN s.ids_}]
  BY DEF erase_batch
<1>7. /\ r.seg_id = s.seg_id /\ r.ids_ = s.ids_ /\ r.inv_ids_ = s.inv_ids_ /\ r.index_ = s.index_
      /\ r.erased_ = s.erased_ \cup {s.ids_[d] : d \in ds \cap DOMAIN s.ids_}
  <2> HIDE DEF r
  <2>. QED  BY <1>6 DEF WellFormed, FaissSegments
<1> HIDE DEF r
<1>8. R.seg_id = A.seg_id /\ R.ids_ = A.ids_ /\ R.inv_ids_ = A.inv_ids_
  BY <1>7 DEF Abstract
<1>9. R.erased_ = A.erased_ \cup {A.ids_[d] : d \in ds \cap DOMAIN s.ids_}
  <2>1. R.erased_ = {s.index_[p + 1] : p \in r.erased_}
    BY <1>7 DEF Abstract
  <2>2. A.erased_ = {s.index_[p + 1] : p \in s.erased_}
    BY DEF Abstract
  <2> HIDE DEF A, R
  <2>3. {A.ids_[d] : d \in ds \cap DOMAIN s.ids_} = {s.index_[s.ids_[d] + 1] : d \in ds \cap DOMAIN s.ids_}
    BY <1>3
  <2> DEFINE X == {s.ids_[d] : d \in ds \cap DOMAIN s.ids_}
             vec(p) == s.index_[p + 1]
  <2>4. r.erased_ = s.erased_ \cup X
    BY <1>7
  <2>5. {s.index_[s.ids_[d] + 1] : d \in ds \cap DOMAIN s.ids_} = {vec(p) : p \in X}
    OBVIOUS
  <2> HIDE DEF X
  <2>6. R.erased_ = {vec(p) : p \in s.erased_ \cup X} /\ A.erased_ = {vec(p) : p \in s.erased_}
    BY <2>1, <2>2, <2>4
  <2> HIDE DEF vec
  <2>7. {vec(p) : p \in s.erased_ \cup X} = {vec(p) : p \in s.erased_} \cup {vec(p) : p \in X}
    OBVIOUS
  <2>. QED  BY <2>3, <2>5, <2>6, <2>7
<1>10. Seg!erase_batch(A, ds) =
         [A EXCEPT !.erased_ = A.erased_ \cup {A.ids_[d] : d \in ds \cap DOMAIN s.ids_}]
  BY <1>5 DEF Seg!erase_batch
<1>11. /\ R = [seg_id |-> R.seg_id, ids_ |-> R.ids_, inv_ids_ |-> R.inv_ids_, erased_ |-> R.erased_]
       /\ A = [seg_id |-> A.seg_id, ids_ |-> A.ids_, inv_ids_ |-> A.inv_ids_, erased_ |-> A.erased_]
  BY AbstractRecord
<1> HIDE DEF A, R
<1>12. R = Seg!erase_batch(A, ds)
  BY <1>8, <1>9, <1>10, <1>11
<1>. QED  BY <1>12 DEF A, R, r

LivePositions(s) == DOMAIN s.inv_ids_ \ s.erased_

LiveBatch(s, ps) == [k \in DOMAIN ps |-> <<s.index_[ps[k] + 1], s.inv_ids_[ps[k]]>>]

(* The positions ps, n of them, are the live ones of s in some order.      *)
ListsLive(s, ps, n) ==
  /\ ps \in [1..n -> LivePositions(s)]
  /\ \A j, k \in 1..n : ps[j] = ps[k] => j = k
  /\ \A p \in LivePositions(s) : \E k \in 1..n : ps[k] = p

(* The batch a merge copies consists of live vectors with their ids.       *)
LEMMA LiveBatchFacts ==
  ASSUME NEW s, WellFormed(s), NEW n \in Nat, NEW ps, ListsLive(s, ps, n)
  PROVE  /\ LiveBatch(s, ps) \in Batches(n)
         /\ \A k \in 1..n : /\ ps[k] \in 0..(s.next_id - 1) /\ ps[k] + 1 \in 1..s.next_id
                            /\ LiveBatch(s, ps)[k] = <<s.index_[ps[k] + 1], s.inv_ids_[ps[k]]>>
<1>1. /\ s.next_id \in Nat /\ s.index_ \in Seq(Nat) /\ s.inv_ids_ \in Maps(Nat, Doc)
      /\ Len(s.index_) = s.next_id /\ DOMAIN s.inv_ids_ = 0..(s.next_id - 1)
  BY DEF WellFormed, FaissSegments
<1>2. \A p \in 0..(s.next_id - 1) : s.inv_ids_[p] \in Doc /\ p + 1 \in 1..s.next_id
  BY <1>1, MapFacts
<1>3. \A p \in 1..s.next_id : s.index_[p] \in Nat
  BY <1>1
<1>4. DOMAIN ps = 1..n /\ \A k \in 1..n : ps[k] \in 0..(s.next_id - 1)
  BY <1>1 DEF ListsLive, LivePositions
<1>5. \A k \in 1..n : LiveBatch(s, ps)[k] = <<s.index_[ps[k] + 1], s.inv_ids_[ps[k]]>>
  BY <1>4 DEF LiveBatch
<1>6. LiveBatch(s, ps) \in Batches(n)
  BY <1>2, <1>3, <1>4 DEF LiveBatch, Batches
<1>. QED  BY <1>2, <1>4, <1>5, <1>6

(* merge_from_other adds the live vectors of the other segment.            *)
LEMMA MergeAppends ==
  ASSUME NEW s, WellFormed(s), NEW o, WellFormed(o), NEW r \in merge_from_other(s, o)
  PROVE  \E n \in Nat : \E ps : ListsLive(o, ps, n) /\ Appended(s, LiveBatch(o, ps), n, r)
<1> DEFINE X == LivePositions(o)
<1>1. X \subseteq 0..(o.next_id - 1) /\ o.next_id \in Nat
  BY DEF LivePositions, WellFormed, FaissSegments
<1>2. IsFiniteSet(0..(o.next_id - 1))
  BY <1>1, FS_Interval
<1>3. IsFiniteSet(X)
  BY <1>1, <1>2, FS_Subset
<1>4. PICK ps \in SetToSeqs(X) : r = add_batch(s, LiveBatch(o, ps))
  BY DEF merge_from_other, LiveBatch, LivePositions
<1> DEFINE n == Cardinality(X)
<1>5. n \in Nat /\ ListsLive(o, ps, n)
  BY <1>3, Permutes DEF ListsLive
<1> HIDE DEF n
<1>6. Appended(s, LiveBatch(o, ps), n, r)
  BY <1>4, <1>5, LiveBatchFacts, AddBatchAppends
<1>. QED  BY <1>5, <1>6

(* The live vectors of the abstract segment are those of the batch.        *)
LEMMA LiveRefines ==
  ASSUME NEW s, WellFormed(s), NEW top, OwnNumbers(s, top),
         NEW n \in Nat, NEW ps, ListsLive(s, ps, n)
  PROVE  Seg!Live(Abstract(s)) =
           {<<LiveBatch(s, ps)[k][2], LiveBatch(s, ps)[k][1]>> : k \in 1..n}
<1> DEFINE N == s.next_id
           vec(p) == <<s.inv_ids_[p], s.index_[p + 1]>>
<1>1. N \in Nat /\ DOMAIN s.inv_ids_ = 0..(N - 1) /\ s.erased_ \subseteq 0..(N - 1)
  BY DEF WellFormed, FaissSegments
<1>2. /\ Abstract(s).inv_ids_ = {vec(p) : p \in 0..(N - 1)}
      /\ Abstract(s).erased_ = {s.index_[p + 1] : p \in s.erased_}
  BY <1>1 DEF Abstract
<1>3. ASSUME NEW p \in 0..(N - 1)
      PROVE  s.index_[p + 1] \in {s.index_[q + 1] : q \in s.erased_} <=> p \in s.erased_
  <2>1. ASSUME NEW q \in s.erased_, s.index_[p + 1] = s.index_[q + 1] PROVE p = q
    <3>1. q \in 0..(N - 1) /\ p + 1 \in 1..N /\ q + 1 \in 1..N
      BY <1>1
    <3>2. p + 1 = q + 1
      BY <2>1, <3>1 DEF OwnNumbers
    <3>. QED  BY <3>1, <3>2
  <2>. QED  BY <2>1
<1>4. Seg!Live(Abstract(s)) = {vec(p) : p \in LivePositions(s)}
  <2>1. Seg!Live(Abstract(s)) = {v \in {vec(p) : p \in 0..(N - 1)} :
                                   v[2] \notin {s.index_[p + 1] : p \in s.erased_}}
    BY <1>2 DEF Seg!Live
  <2>2. \A p \in 0..(N - 1) :
          vec(p)[2] \notin {s.index_[q + 1] : q \in s.erased_} <=> p \in LivePositions(s)
    BY <1>1, <1>3 DEF LivePositions
  <2>3. LivePositions(s) \subseteq 0..(N - 1)
    BY <1>1 DEF LivePositions
  <2> HIDE DEF vec
  <2>. QED  BY <2>1, <2>2, <2>3
<1>5. \A k \in 1..n : <<LiveBatch(s, ps)[k][2], LiveBatch(s, ps)[k][1]>> = vec(ps[k])
  BY LiveBatchFacts
<1>6. {vec(p) : p \in LivePositions(s)} = {vec(ps[k]) : k \in 1..n}
  <2> HIDE DEF vec
  <2>. QED  BY DEF ListsLive
<1> HIDE DEF vec
<1>. QED  BY <1>4, <1>5, <1>6

(* merge_from_other, in whatever order it copies, is that of Segment.      *)
LEMMA MergeRefines ==
  ASSUME NEW s, WellFormed(s), NEW o, WellFormed(o), NEW top, OwnNumbers(o, top),
         NEW r \in merge_from_other(s, o)
  PROVE  Abstract(r) \in Seg!merge_from_other(Abstract(s), Abstract(o))
<1>1. PICK n \in Nat : \E ps : ListsLive(o, ps, n) /\ Appended(s, LiveBatch(o, ps), n, r)
  BY MergeAppends
<1>2. PICK ps : ListsLive(o, ps, n) /\ Appended(s, LiveBatch(o, ps), n, r)
  BY <1>1
<1> DEFINE A == Abstract(s)
           R == Abstract(r)
           batch == LiveBatch(o, ps)
           vs == {<<batch[k][2], batch[k][1]>> : k \in 1..n}
           ds == {v[1] : v \in vs}
           last == [d \in ds |-> R.ids_[d]]
           ids == [d \in Doc |-> IF d \in ds THEN last[d] ELSE A.ids_[d]]
<1>3. batch \in Batches(n)
  BY <1>2, LiveBatchFacts
<1>4. Extended(A, batch, n, R)
  BY <1>2, <1>3, AppendedAbstract
<1>5. Seg!Live(Abstract(o)) = vs
  BY <1>2, LiveRefines
<1>6. R.inv_ids_ = A.inv_ids_ \cup vs /\ R.erased_ = A.erased_
  BY <1>4 DEF Extended
<1>7. r.seg_id = s.seg_id
  BY <1>2 DEF Appended
<1> HIDE DEF batch
<1>8. \A d : d \in ds <=> \E k \in 1..n : batch[k][2] = d
  <2>1. \A k \in 1..n : /\ <<batch[k][2], batch[k][1]>> \in vs
                        /\ <<batch[k][2], batch[k][1]>>[1] = batch[k][2]
    OBVIOUS
  <2>2. \A v \in vs : \E k \in 1..n : v = <<batch[k][2], batch[k][1]>>
    OBVIOUS
  <2> HIDE DEF vs
  <2>3. \A k \in 1..n : batch[k][2] \in ds
    BY <2>1
  <2>4. ASSUME NEW d \in ds PROVE \E k \in 1..n : batch[k][2] = d
    <3>1. PICK v \in vs : d = v[1]
      OBVIOUS
    <3>2. PICK k \in 1..n : v = <<batch[k][2], batch[k][1]>>
      BY <2>2
    <3>. QED  BY <2>1, <3>1, <3>2
  <2> HIDE DEF ds
  <2>. QED  BY <2>3, <2>4
<1>9. ds \subseteq Doc
  BY <1>3, <1>8 DEF Batches
<1>10. ASSUME NEW d \in ds PROVE <<d, last[d]>> \in vs
  <2>1. PICK k : IsLast(batch, n, d, k) /\ R.ids_[d] = batch[k][1]
    BY <1>4, <1>8, <1>9 DEF Extended
  <2>2. k \in 1..n /\ batch[k][2] = d
    BY <2>1 DEF IsLast
  <2>3. <<d, last[d]>> = <<batch[k][2], batch[k][1]>>
    BY <2>1, <2>2
  <2>. QED  BY <2>2, <2>3
<1>11. last \in [ds -> {v[2] : v \in vs}]
  <2>1. ASSUME NEW d \in ds PROVE last[d] \in {v[2] : v \in vs}
    <3> HIDE DEF vs, ds, last
    <3>1. <<d, last[d]>>[2] = last[d]
      OBVIOUS
    <3>. QED  BY <1>10, <3>1
  <2> HIDE DEF vs, ds
  <2>. QED  BY <2>1
<1>12. R.ids_ = ids
  <2>1. \A d \in Doc : d \notin ds => R.ids_[d] = A.ids_[d]
    BY <1>4, <1>8 DEF Extended
  <2> HIDE DEF ds
  <2>2. \A d \in Doc : R.ids_[d] = ids[d]
    BY <2>1
  <2>. QED  BY <2>2, AbstractRecord
<1> DEFINE E == [A EXCEPT !.ids_ = ids, !.inv_ids_ = A.inv_ids_ \cup vs]
<1>13. E \in Seg!Absorb(A, vs)
  <2> HIDE DEF A, vs, last
  <2>. QED  BY <1>10, <1>11 DEF Seg!Absorb
<1>14. R = E
  <2>1. R.seg_id = A.seg_id
    BY <1>7, AbstractRecord
  <2>2. /\ R = [seg_id |-> R.seg_id, ids_ |-> R.ids_, inv_ids_ |-> R.inv_ids_, erased_ |-> R.erased_]
        /\ A = [seg_id |-> A.seg_id, ids_ |-> A.ids_, inv_ids_ |-> A.inv_ids_, erased_ |-> A.erased_]
    BY AbstractRecord
  <2> HIDE DEF A, R, ids, vs
  <2>. QED  BY <1>6, <1>12, <2>1, <2>2
<1> HIDE DEF E, vs
<1>. QED  BY <1>5, <1>13, <1>14 DEF Seg!merge_from_other
-----------------------------------------------------------------------------
(* The file of a segment.  FlattenSeq puts pairs one behind the other.     *)
LEMMA FlattenPairs ==
  ASSUME NEW n \in Nat, NEW Z, NEW prs \in [1..n -> Seq(Z)], \A k \in 1..n : Len(prs[k]) = 2
  PROVE  /\ FlattenSeq(prs) \in Seq(Z) /\ Len(FlattenSeq(prs)) = 2 * n
         /\ \A k \in 1..n : /\ FlattenSeq(prs)[2 * k - 1] = prs[k][1]
                            /\ FlattenSeq(prs)[2 * k] = prs[k][2]
<1> DEFINE Body(g, i) == IF i = 1 THEN prs[i] ELSE g[i - 1] \o prs[i]
           G == CHOOSE g : g = [i \in 1..n |-> Body(g, i)]
<1>0. Len(prs) = n
  OBVIOUS
<1>1. CASE n = 0
  <2>1. FlattenSeq(prs) = prs
    BY <1>0, <1>1 DEF FlattenSeq
  <2>2. prs \in Seq(Z)
    BY <1>0, <1>1
  <2>. QED  BY <1>0, <1>1, <2>1, <2>2
<1>2. CASE n # 0
  <2>1. FlattenSeq(prs) = G[n]
    BY <1>0, <1>2 DEF FlattenSeq
  <2>2. \E g : g = [i \in 1..n |-> Body(g, i)]
    <3> DEFINE Upto(g, m) == \A i \in 1..m : g[i] = Body(g, i)
               P == {m \in 0..n : \E g \in [1..n -> Seq(Z)] : Upto(g, m)}
    <3>1. 0 \in P
      <4>1. prs \in [1..n -> Seq(Z)] /\ Upto(prs, 0)
        OBVIOUS
      <4>. QED  BY <4>1
    <3>2. ASSUME NEW m \in 1..n, m - 1 \in P PROVE m \in P
      <4>1. PICK g \in [1..n -> Seq(Z)] : Upto(g, m - 1)
        BY <3>2
      <4> DEFINE h == [i \in 1..n |-> Body(g, i)]
      <4>2. h \in [1..n -> Seq(Z)]
        <5>1. ASSUME NEW i \in 1..n PROVE Body(g, i) \in Seq(Z)
          <6>1. CASE i = 1
            BY <6>1
          <6>2. CASE i # 1
            <7>1. g[i - 1] \in Seq(Z) /\ prs[i] \in Seq(Z)
              BY <6>2
            <7>. QED  BY <6>2, <7>1, ConcatProperties
          <6>. QED  BY <6>1, <6>2
        <5>. QED  BY <5>1
      <4>3. ASSUME NEW i \in 1..m PROVE h[i] = Body(h, i)
        <5>1. CASE i = 1
          BY <5>1
        <5>2. CASE i # 1
          <6>1. i - 1 \in 1..(m - 1) /\ i - 1 \in 1..n /\ i \in 1..n
            BY <5>2
          <6>2. h[i - 1] = g[i - 1]
            BY <4>1, <6>1
          <6>. QED  BY <5>2, <6>1, <6>2
        <5>. QED  BY <5>1, <5>2
      <4> HIDE DEF h
      <4>4. Upto(h, m) /\ m \in 0..n
        BY <4>3
      <4> HIDE DEF Upto
      <4>. QED  BY <4>2, <4>4
    <3> HIDE DEF P
    <3>3. n \in P
      BY <3>1, <3>2, Climb
    <3>4. PICK g \in [1..n -> Seq(Z)] : Upto(g, n)
      BY <3>3 DEF P
    <3>5. g = [i \in 1..n |-> Body(g, i)]
      BY <3>4
    <3>. QED  BY <3>5
  <2>3. G = [i \in 1..n |-> Body(G, i)]
    BY <2>2
  <2>4. \A i \in 1..n : G[i] = Body(G, i)
    BY <2>3
  <2> HIDE DEF G
  <2> DEFINE Good(m) == /\ G[m] \in Seq(Z) /\ Len(G[m]) = 2 * m
                        /\ \A k \in 1..m : G[m][2 * k - 1] = prs[k][1] /\ G[m][2 * k] = prs[k][2]
             P == {m \in 0..n : m = 0 \/ Good(m)}
  <2>5. 0 \in P
    OBVIOUS
  <2>6. ASSUME NEW m \in 1..n, m - 1 \in P PROVE m \in P
    <3>1. CASE m = 1
      <4>1. G[1] = prs[1] /\ prs[1] \in Seq(Z) /\ Len(prs[1]) = 2
        BY <1>2, <2>4
      <4>2. Good(1)
        BY <4>1
      <4>. QED  BY <3>1, <4>2
    <3>2. CASE m # 1
      <4> DEFINE u == G[m - 1]
                 v == prs[m]
      <4>1. G[m] = u \o v /\ v \in Seq(Z) /\ Len(v) = 2
        BY <2>4, <3>2
      <4>2. Good(m - 1) /\ u \in Seq(Z) /\ Len(u) = 2 * (m - 1)
        BY <2>6, <3>2
      <4> HIDE DEF u, v
      <4>3. /\ u \o v \in Seq(Z) /\ Len(u \o v) = 2 * m
            /\ \A i \in 1..(2 * m) : (u \o v)[i] = IF i <= 2 * (m - 1) THEN u[i] ELSE v[i - 2 * (m - 1)]
        <5>1. Len(u) = 2 * (m - 1) /\ Len(u) + Len(v) = 2 * m
          BY <4>1, <4>2
        <5>2. /\ u \o v \in Seq(Z) /\ Len(u \o v) = Len(u) + Len(v)
              /\ \A i \in 1..(Len(u) + Len(v)) :
                   (u \o v)[i] = IF i <= Len(u) THEN u[i] ELSE v[i - Len(u)]
          BY <4>1, <4>2, ConcatProperties
        <5>. QED  BY ONLY <5>1, <5>2
      <4>4. ASSUME NEW k \in 1..m
            PROVE  G[m][2 * k - 1] = prs[k][1] /\ G[m][2 * k] = prs[k][2]
        <5>1. 2 * k - 1 \in 1..(2 * m) /\ 2 * k \in 1..(2 * m)
          OBVIOUS
        <5>2. CASE k = m
          <6>1. ~(2 * k - 1 <= 2 * (m - 1)) /\ ~(2 * k <= 2 * (m - 1))
            BY <5>2
          <6>2. 2 * k - 1 - 2 * (m - 1) = 1 /\ 2 * k - 2 * (m - 1) = 2
            BY <5>2
          <6>. QED  BY <4>1, <4>3, <5>1, <5>2, <6>1, <6>2 DEF v
        <5>3. CASE k # m
          <6>1. k \in 1..(m - 1) /\ 2 * k - 1 <= 2 * (m - 1) /\ 2 * k <= 2 * (m - 1)
            BY <5>3
          <6>2. u[2 * k - 1] = prs[k][1] /\ u[2 * k] = prs[k][2]
            BY <4>2, <6>1 DEF u
          <6>. QED  BY <4>1, <4>3, <5>1, <6>1, <6>2
        <5>. QED  BY <5>2, <5>3
      <4>5. Good(m)
        BY <4>1, <4>3, <4>4
      <4>. QED  BY <4>5
    <3>. QED  BY <3>1, <3>2
  <2> HIDE DEF P
  <2>7. n \in P
    BY <2>5, <2>6, Climb
  <2>8. Good(n)
    BY <1>2, <2>7 DEF P
  <2>. QED  BY <2>1, <2>8
<1>. QED  BY <1>1, <1>2

(* g holds the m words of u and behind them the n words of v.              *)
Joined(g, u, m, v, n) ==
  /\ Len(g) = m + n
  /\ \A i \in 1..m : g[i] = u[i]
  /\ \A i \in 1..n : g[m + i] = v[i]

(* Concatenation puts the words of v behind those of u.                    *)
LEMMA Behind ==
  ASSUME NEW Z, NEW u \in Seq(Z), NEW v \in Seq(Z),
         NEW m, NEW n, Len(u) = m, Len(v) = n
  PROVE  u \o v \in Seq(Z) /\ Joined(u \o v, u, m, v, n)
<1>1. /\ u \o v \in Seq(Z) /\ Len(u \o v) = Len(u) + Len(v)
      /\ \A i \in 1..(Len(u) + Len(v)) : (u \o v)[i] = IF i <= Len(u) THEN u[i] ELSE v[i - Len(u)]
  BY ConcatProperties
<1>2. Len(u) \in Nat /\ Len(v) \in Nat
  OBVIOUS
<1>3. ASSUME NEW i \in 1..Len(u) PROVE (u \o v)[i] = u[i]
  BY <1>1, <1>2
<1>4. ASSUME NEW i \in 1..Len(v) PROVE (u \o v)[Len(u) + i] = v[i]
  <2>1. /\ Len(u) + i \in 1..(Len(u) + Len(v)) /\ ~(Len(u) + i <= Len(u))
        /\ (Len(u) + i) - Len(u) = i
    BY <1>2
  <2>. QED  BY <1>1, <2>1
<1>. QED  BY <1>1, <1>3, <1>4 DEF Joined

(* w is a map as writeBinary leaves it: the number of entries, then the    *)
(* keys ks, each followed by its value.                                    *)
MapWords(map, w, n, ks) ==
  /\ ks \in [1..n -> DOMAIN map] /\ \A x \in DOMAIN map : \E k \in 1..n : ks[k] = x
  /\ Len(w) = 1 + 2 * n /\ w[1] = n
  /\ \A k \in 1..n : w[2 * k] = ks[k] /\ w[2 * k + 1] = map[ks[k]]

(* serialize_index writes the size of a map and then all its entries.      *)
LEMMA WriteMapWords ==
  ASSUME NEW Z, Nat \subseteq Z, NEW map, IsFiniteSet(DOMAIN map),
         DOMAIN map \subseteq Z, \A x \in DOMAIN map : map[x] \in Z,
         NEW w \in WriteMap(map)
  PROVE  w \in Seq(Z) /\ \E n \in Nat : \E ks : MapWords(map, w, n, ks)
<1>1. PICK ks \in SetToSeqs(DOMAIN map) :
        w = <<Len(ks)>> \o FlattenSeq([k \in DOMAIN ks |-> <<ks[k], map[ks[k]]>>])
  BY DEF WriteMap
<1> DEFINE n == Cardinality(DOMAIN map)
           prs == [k \in 1..n |-> <<ks[k], map[ks[k]]>>]
           u == <<n>>
           v == FlattenSeq(prs)
<1>2. /\ n \in Nat /\ ks \in [1..n -> DOMAIN map] /\ Len(ks) = n /\ DOMAIN ks = 1..n
      /\ \A x \in DOMAIN map : \E k \in 1..n : ks[k] = x
  BY Permutes
<1> HIDE DEF n
<1>3. w = u \o v
  BY <1>1, <1>2
<1>4. prs \in [1..n -> Seq(Z)] /\ \A k \in 1..n : Len(prs[k]) = 2
  BY <1>2
<1>5. \A k \in 1..n : prs[k][1] = ks[k] /\ prs[k][2] = map[ks[k]]
  OBVIOUS
<1> HIDE DEF prs
<1>6. /\ v \in Seq(Z) /\ Len(v) = 2 * n
      /\ \A k \in 1..n : v[2 * k - 1] = ks[k] /\ v[2 * k] = map[ks[k]]
  <2>1. /\ v \in Seq(Z) /\ Len(v) = 2 * n
        /\ \A k \in 1..n : v[2 * k - 1] = prs[k][1] /\ v[2 * k] = prs[k][2]
    <3>1. n \in Nat
      BY <1>2
    <3>. QED  BY ONLY <1>4, <3>1, FlattenPairs
  <2> HIDE DEF v
  <2>. QED  BY <1>5, <2>1
<1>7. u \in Seq(Z) /\ Len(u) = 1 /\ u[1] = n
  BY <1>2
<1> HIDE DEF u, v
<1>8. /\ w \in Seq(Z) /\ Len(w) = 1 + 2 * n /\ w[1] = n
      /\ \A i \in 1..(2 * n) : w[1 + i] = v[i]
  <2>1. w \in Seq(Z) /\ Joined(w, u, 1, v, 2 * n)
    <3>1. u \in Seq(Z) /\ v \in Seq(Z) /\ Len(u) = 1 /\ Len(v) = 2 * n
      BY <1>6, <1>7
    <3>. QED  BY ONLY <1>3, <3>1, Behind
  <2>. QED  BY <1>2, <1>7, <2>1 DEF Joined
<1>9. ASSUME NEW k \in 1..n PROVE w[2 * k] = ks[k] /\ w[2 * k + 1] = map[ks[k]]
  <2>1. /\ 2 * k - 1 \in 1..(2 * n) /\ 2 * k \in 1..(2 * n)
        /\ 1 + (2 * k - 1) = 2 * k /\ 1 + 2 * k = 2 * k + 1
    BY <1>2
  <2>2. w[2 * k] = v[2 * k - 1] /\ w[2 * k + 1] = v[2 * k]
    BY <1>8, <2>1
  <2>. QED  BY <1>6, <2>2
<1>10. MapWords(map, w, n, ks)
  BY <1>2, <1>8, <1>9 DEF MapWords
<1>. QED  BY <1>2, <1>8, <1>10

(* The same for a set.                                                     *)
SetWords(X, w, n) == /\ Len(w) = 1 + n /\ w[1] = n
                     /\ X = {w[1 + k] : k \in 1..n}

(* For a set it writes the size and then the members.                      *)
LEMMA WriteSetWords ==
  ASSUME NEW Z, Nat \subseteq Z, NEW X, IsFiniteSet(X), X \subseteq Z, NEW w \in WriteSet(X)
  PROVE  w \in Seq(Z) /\ \E n \in Nat : SetWords(X, w, n)
<1>1. PICK ks \in SetToSeqs(X) : w = <<Len(ks)>> \o ks
  BY DEF WriteSet
<1> DEFINE n == Cardinality(X)
           u == <<n>>
<1>2. /\ n \in Nat /\ ks \in [1..n -> X] /\ Len(ks) = n
      /\ \A x \in X : \E k \in 1..n : ks[k] = x
  BY Permutes
<1> HIDE DEF n
<1>3. w = u \o ks
  BY <1>1, <1>2
<1>4. ks \in Seq(Z) /\ u \in Seq(Z) /\ Len(u) = 1 /\ u[1] = n
  BY <1>2
<1> HIDE DEF u
<1>5. w \in Seq(Z) /\ Len(w) = 1 + n /\ w[1] = n /\ \A k \in 1..n : w[1 + k] = ks[k]
  <2>1. w \in Seq(Z) /\ Joined(w, u, 1, ks, n)
    <3>1. u \in Seq(Z) /\ ks \in Seq(Z) /\ Len(u) = 1 /\ Len(ks) = n
      BY <1>2, <1>4
    <3>. QED  BY ONLY <1>3, <3>1, Behind
  <2>. QED  BY <1>2, <1>4, <2>1 DEF Joined
<1>6. X = {ks[k] : k \in 1..n}
  BY <1>2
<1>7. X = {w[1 + k] : k \in 1..n}
  BY <1>5, <1>6
<1>. QED  BY <1>2, <1>5, <1>7 DEF SetWords

(* readBinary of a map puts its entries in one after the other.            *)
ReadSteps(f, at, n, h) ==
  /\ h[0] = <<>> /\ ReadMap(f, at, n) = h[n]
  /\ \A k \in 1..n : h[k] = Put(h[k - 1], f[at + 2 * k - 2], f[at + 2 * k - 1])

EntriesOf(f, at, n, K, W) ==
  \A k \in 1..n : f[at + 2 * k - 2] \in K /\ f[at + 2 * k - 1] \in W

(* The constructor reads a map as a chain of assignments.                  *)
LEMMA ReadMapSteps ==
  ASSUME NEW f, NEW at \in Nat, NEW n \in Nat, NEW K, NEW W, EntriesOf(f, at, n, K, W)
  PROVE  \E h : ReadSteps(f, at, n, h)
<1> DEFINE id == [k \in 1..n |-> k]
           Body(g, T) == IF T = {} THEN <<>>
                         ELSE Put(g[T \ {Max(T)}], f[at + 2 * id[Max(T)] - 2], f[at + 2 * id[Max(T)] - 1])
           e == [x \in 1..n |-> [t \in Maps(K, W) |-> Put(t, f[at + 2 * x - 2], f[at + 2 * x - 1])]]
           G == CHOOSE g : g = [T \in SUBSET (1..n) |-> Body(g, T)]
<1>1. \A x \in 1..n, t \in Maps(K, W) :
        e[x][t] = Put(t, f[at + 2 * x - 2], f[at + 2 * x - 1]) /\ e[x][t] \in Maps(K, W)
  BY PutFacts DEF EntriesOf
<1>2. <<>> \in Maps(K, W)
  <2>1. <<>> \in [{} -> W]
    OBVIOUS
  <2>. QED  BY <2>1 DEF Maps
<1> HIDE DEF e
<1>3. PICK g \in [SUBSET (1..n) -> Maps(K, W)] : FoldLeftEquation(g, n, <<>>, e)
  BY <1>1, <1>2, FoldLeftExists
<1>4. ASSUME NEW T \in SUBSET (1..n) PROVE g[T] = Body(g, T)
  <2>1. CASE T = {}
    BY <1>3, <2>1 DEF FoldLeftEquation
  <2>2. CASE T # {}
    <3>1. Max(T) \in 1..n /\ g[T \ {Max(T)}] \in Maps(K, W)
      BY <2>2, MaxFacts
    <3>2. id[Max(T)] = Max(T)
      BY <3>1
    <3>. QED  BY <1>1, <1>3, <2>2, <3>1, <3>2 DEF FoldLeftEquation
  <2>. QED  BY <2>1, <2>2
<1>5. g = [T \in SUBSET (1..n) |-> Body(g, T)]
  BY <1>4
<1>6. G = [T \in SUBSET (1..n) |-> Body(G, T)]
  BY <1>5
<1>7. ReadMap(f, at, n) = G[1..n]
  <2>1. DOMAIN id = 1..n
    OBVIOUS
  <2>. QED  BY <2>1 DEF ReadMap, FoldLeft, MapThenFoldSet
<1> HIDE DEF G
<1> DEFINE h == [k \in 0..n |-> G[1..k]]
<1>8. h[0] = <<>> /\ h[n] = G[1..n]
  <2>1. G[{}] = <<>>
    BY <1>6
  <2>. QED  BY <2>1, MaxFacts
<1>9. ASSUME NEW k \in 1..n PROVE h[k] = Put(h[k - 1], f[at + 2 * k - 2], f[at + 2 * k - 1])
  <2>1. G[1..k] = Body(G, 1..k)
    BY <1>6, MaxFacts
  <2>2. Body(G, 1..k) = Put(G[1..(k - 1)], f[at + 2 * k - 2], f[at + 2 * k - 1])
    BY MaxFacts
  <2>3. h[k] = G[1..k] /\ h[k - 1] = G[1..(k - 1)]
    OBVIOUS
  <2>. QED  BY <2>1, <2>2, <2>3
<1> HIDE DEF h
<1>10. ReadSteps(f, at, n, h)
  BY <1>7, <1>8, <1>9 DEF ReadSteps
<1>. QED  BY <1>10

(* A map whose words lie in the file from at - 1 on is read back.          *)
LiesAt(f, at, n, ks, map) ==
  /\ ks \in [1..n -> DOMAIN map] /\ \A x \in DOMAIN map : \E k \in 1..n : ks[k] = x
  /\ \A k \in 1..n : f[at + 2 * k - 2] = ks[k] /\ f[at + 2 * k - 1] = map[ks[k]]

(* What lies in the file as the entries of a map is read as that map.      *)
LEMMA ReadBack ==
  ASSUME NEW f, NEW at \in Nat, NEW n \in Nat, NEW K, NEW W, NEW map \in Maps(K, W),
         NEW ks, LiesAt(f, at, n, ks, map)
  PROVE  ReadMap(f, at, n) = map
<1>0. /\ ks \in [1..n -> DOMAIN map] /\ \A x \in DOMAIN map : \E k \in 1..n : ks[k] = x
      /\ \A k \in 1..n : f[at + 2 * k - 2] = ks[k] /\ f[at + 2 * k - 1] = map[ks[k]]
  BY DEF LiesAt
<1>1. /\ DOMAIN map \in SUBSET K /\ \A x \in DOMAIN map : map[x] \in W
      /\ map = [x \in DOMAIN map |-> map[x]]
  BY MapFacts
<1>2. EntriesOf(f, at, n, K, W)
  BY <1>0, <1>1 DEF EntriesOf
<1>a. PICK h : ReadSteps(f, at, n, h)
  BY <1>2, ReadMapSteps
<1>3. /\ h[0] = <<>> /\ ReadMap(f, at, n) = h[n]
      /\ \A k \in 1..n : h[k] = Put(h[k - 1], f[at + 2 * k - 2], f[at + 2 * k - 1])
  BY <1>a DEF ReadSteps
<1> DEFINE Some(m) == [x \in {ks[j] : j \in 1..m} |-> map[x]]
           P == {m \in 0..n : h[m] = Some(m)}
<1>4. 0 \in P
  <2>1. {ks[j] : j \in 1..0} = {}
    OBVIOUS
  <2>2. Some(0) = [x \in {} |-> map[x]]
    BY <2>1
  <2>3. <<>> = [x \in {} |-> map[x]]
    OBVIOUS
  <2>4. h[0] = Some(0) /\ 0 \in 0..n
    BY <1>3, <2>2, <2>3
  <2> HIDE DEF Some
  <2>. QED  BY <2>4
<1>5. ASSUME NEW m \in 1..n, m - 1 \in P PROVE m \in P
  <2> DEFINE D == {ks[j] : j \in 1..(m - 1)}
  <2>1. h[m] = Put(Some(m - 1), ks[m], map[ks[m]])
    BY <1>0, <1>3, <1>5
  <2>2. {ks[j] : j \in 1..m} = D \cup {ks[m]}
    <3>1. 1..m = (1..(m - 1)) \cup {m}
      OBVIOUS
    <3>. QED  BY <3>1
  <2>3. Put([x \in D |-> map[x]], ks[m], map[ks[m]]) = [x \in D \cup {ks[m]} |-> map[x]]
    <3> HIDE DEF D
    <3>. QED  BY DEF Put
  <2>4. h[m] = Some(m)
    BY <2>1, <2>2, <2>3
  <2>. QED  BY <2>4
<1> HIDE DEF P
<1>6. n \in P
  BY <1>4, <1>5, Climb
<1>7. {ks[j] : j \in 1..n} = DOMAIN map
  BY <1>0
<1>8. h[n] = [x \in DOMAIN map |-> map[x]]
  BY <1>6, <1>7 DEF P
<1>. QED  BY <1>1, <1>3, <1>8

(* The maps and the set of a segment are finite.                           *)
LEMMA SegmentFinite ==
  ASSUME NEW s, WellFormed(s)
  PROVE  /\ IsFiniteSet(DOMAIN s.ids_) /\ IsFiniteSet(DOMAIN s.inv_ids_) /\ IsFiniteSet(s.erased_)
         /\ s.erased_ \subseteq Nat
<1> DEFINE X == 0..(s.next_id - 1)
<1>1. /\ s.next_id \in Nat /\ DOMAIN s.inv_ids_ = X /\ s.erased_ \subseteq X
      /\ s.ids_ \in Maps(Doc, Nat)
      /\ \A d \in DOMAIN s.ids_ : s.ids_[d] \in X /\ s.inv_ids_[s.ids_[d]] = d
  BY DEF WellFormed, FaissSegments
<1>2. IsFiniteSet(X)
  BY <1>1, FS_Interval
<1>3. s.ids_ \in [DOMAIN s.ids_ -> X]
  BY <1>1, MapFacts
<1>4. \A d, e \in DOMAIN s.ids_ : s.ids_[d] = s.ids_[e] => d = e
  BY <1>1
<1>5. s.ids_ \in Injection(DOMAIN s.ids_, X)
  BY <1>3, <1>4 DEF Injection, IsInjective
<1>6. IsFiniteSet(DOMAIN s.ids_)
  BY <1>2, <1>5, FS_Injection
<1>7. IsFiniteSet(s.erased_)
  BY <1>1, <1>2, FS_Subset
<1>. QED  BY <1>1, <1>2, <1>6, <1>7

(* DeserealizeSegment undoes SerializeSegment.                             *)
LEMMA FileReadsBack ==
  ASSUME NEW s, WellFormed(s), NEW f \in SerializeSegment(s)
  PROVE  DeserealizeSegment(f) = s
<1> DEFINE Z == Nat \cup Doc \cup {s.index_}
<1>1. /\ s \in FaissSegments /\ s.ids_ \in Maps(Doc, Nat) /\ s.inv_ids_ \in Maps(Nat, Doc)
      /\ s.seg_type \in {0, 1} /\ s.next_id \in Nat /\ s.seg_id \in Nat
  BY DEF WellFormed, FaissSegments
<1> DEFINE hd == <<s.seg_type, s.index_, s.next_id>>
           tl == <<s.seg_id>>
           F(m, i, e) == hd \o m \o i \o e \o tl
<1> HIDE DEF F
<1>b. SerializeSegment(s) =
        {F(m, i, e) : m \in WriteMap(s.ids_), i \in WriteMap(s.inv_ids_), e \in WriteSet(s.erased_)}
  BY SMT DEF F, SerializeSegment
<1>2. PICK m \in WriteMap(s.ids_), i \in WriteMap(s.inv_ids_), w \in WriteSet(s.erased_) :
        f = F(m, i, w)
  BY <1>b, SMT
<1>3. Nat \subseteq Z
  OBVIOUS
<1>4. /\ DOMAIN s.ids_ \subseteq Z /\ \A x \in DOMAIN s.ids_ : s.ids_[x] \in Z
      /\ DOMAIN s.inv_ids_ \subseteq Z /\ \A x \in DOMAIN s.inv_ids_ : s.inv_ids_[x] \in Z
      /\ s.erased_ \subseteq Z
  BY <1>1, MapFacts, SegmentFinite
<1>5. /\ hd \in Seq(Z) /\ Len(hd) = 3 /\ hd[1] = s.seg_type /\ hd[2] = s.index_ /\ hd[3] = s.next_id
      /\ tl \in Seq(Z) /\ Len(tl) = 1 /\ tl[1] = s.seg_id
  BY <1>1
<1> HIDE DEF Z, hd, tl
<1>6. m \in Seq(Z) /\ \E n \in Nat : \E ks : MapWords(s.ids_, m, n, ks)
  BY <1>3, <1>4, SegmentFinite, WriteMapWords
<1>7. i \in Seq(Z) /\ \E n \in Nat : \E ks : MapWords(s.inv_ids_, i, n, ks)
  BY <1>3, <1>4, SegmentFinite, WriteMapWords
<1>8. w \in Seq(Z) /\ \E n \in Nat : SetWords(s.erased_, w, n)
  BY <1>3, <1>4, SegmentFinite, WriteSetWords
<1>9. PICK n1 \in Nat : \E ks : MapWords(s.ids_, m, n1, ks)
  BY <1>6
<1>10. PICK k1 : MapWords(s.ids_, m, n1, k1)
  BY <1>9
<1>11. PICK n2 \in Nat : \E ks : MapWords(s.inv_ids_, i, n2, ks)
  BY <1>7
<1>12. PICK k2 : MapWords(s.inv_ids_, i, n2, k2)
  BY <1>11
<1>a. PICK n3 \in Nat : SetWords(s.erased_, w, n3)
  BY <1>8
<1>13. Len(w) = 1 + n3 /\ w[1] = n3 /\ s.erased_ = {w[1 + k] : k \in 1..n3}
  BY <1>a DEF SetWords
<1> DEFINE f1 == hd \o m
           f2 == f1 \o i
           f3 == f2 \o w
           p1 == 4 + 2 * n1
           p2 == p1 + 1 + 2 * n2
           p3 == p2 + 1 + n3
<1>14. f = f3 \o tl
  BY <1>2 DEF F, f1, f2, f3
<1>15. Len(m) = 1 + 2 * n1 /\ m[1] = n1 /\ Len(i) = 1 + 2 * n2 /\ i[1] = n2
  BY <1>10, <1>12 DEF MapWords
<1>16. /\ f1 \in Seq(Z) /\ Len(f1) = p1 /\ \A j \in 1..3 : f1[j] = hd[j]
       /\ \A j \in 1..(1 + 2 * n1) : f1[3 + j] = m[j]
  <2>1. f1 \in Seq(Z) /\ Joined(f1, hd, 3, m, 1 + 2 * n1)
    BY <1>5, <1>6, <1>15, Behind
  <2>2. 3 + (1 + 2 * n1) = p1
    OBVIOUS
  <2> HIDE DEF f1, p1
  <2>. QED  BY <2>1, <2>2 DEF Joined
<1> HIDE DEF f1
<1>17. /\ f2 \in Seq(Z) /\ Len(f2) = p2 /\ \A j \in 1..p1 : f2[j] = f1[j]
       /\ \A j \in 1..(1 + 2 * n2) : f2[p1 + j] = i[j]
  <2>2. p1 + (1 + 2 * n2) = p2
    OBVIOUS
  <2> HIDE DEF p1, p2
  <2>1. f2 \in Seq(Z) /\ Joined(f2, f1, p1, i, 1 + 2 * n2)
    BY <1>7, <1>15, <1>16, Behind
  <2> HIDE DEF f2
  <2>. QED  BY <2>1, <2>2 DEF Joined
<1> HIDE DEF f2
<1>18. /\ f3 \in Seq(Z) /\ Len(f3) = p3 /\ \A j \in 1..p2 : f3[j] = f2[j]
       /\ \A j \in 1..(1 + n3) : f3[p2 + j] = w[j]
  <2>2. p2 + (1 + n3) = p3
    OBVIOUS
  <2> HIDE DEF p2, p3
  <2>1. f3 \in Seq(Z) /\ Joined(f3, f2, p2, w, 1 + n3)
    BY <1>8, <1>13, <1>17, Behind
  <2> HIDE DEF f3
  <2>. QED  BY <2>1, <2>2 DEF Joined
<1> HIDE DEF f3
<1>19. (\A j \in 1..p3 : f[j] = f3[j]) /\ f[p3 + 1] = s.seg_id
  <2> HIDE DEF p3
  <2>1. Joined(f, f3, p3, tl, 1)
    BY <1>5, <1>14, <1>18, Behind
  <2>. QED  BY <1>5, <2>1 DEF Joined
<1>20. p1 \in Nat /\ p2 \in Nat /\ p3 \in Nat /\ p1 >= 4 /\ p2 >= p1 /\ p3 >= p2
  OBVIOUS
<1>21. /\ f[1] = s.seg_type /\ f[2] = s.index_ /\ f[3] = s.next_id
       /\ \A j \in 1..(1 + 2 * n1) : f[3 + j] = m[j]
  <2>1. \A j \in 1..p1 : f[j] = f1[j]
    <3> HIDE DEF p1, p2, p3
    <3>. QED  BY <1>17, <1>18, <1>19, <1>20
  <2>2. \A j \in 1..(1 + 2 * n1) : 3 + j \in 1..p1
    OBVIOUS
  <2>3. 1 \in 1..p1 /\ 2 \in 1..p1 /\ 3 \in 1..p1
    OBVIOUS
  <2> HIDE DEF p1
  <2>. QED  BY <1>5, <1>16, <2>1, <2>2, <2>3
<1>22. \A j \in 1..(1 + 2 * n2) : f[p1 + j] = i[j]
  <2>1. \A j \in 1..p2 : f[j] = f2[j]
    <3> HIDE DEF p1, p2, p3
    <3>. QED  BY <1>18, <1>19, <1>20
  <2>2. \A j \in 1..(1 + 2 * n2) : p1 + j \in 1..p2
    OBVIOUS
  <2> HIDE DEF p1, p2
  <2>. QED  BY <1>17, <2>1, <2>2
<1>23. \A j \in 1..(1 + n3) : f[p2 + j] = w[j]
  <2>1. \A j \in 1..(1 + n3) : p2 + j \in 1..p3
    OBVIOUS
  <2> HIDE DEF p2, p3
  <2>. QED  BY <1>18, <1>19, <2>1
<1>24. f[4] = n1 /\ f[p1 + 1] = n2 /\ f[p2 + 1] = n3
  <2>1. 1 \in 1..(1 + 2 * n1) /\ 1 \in 1..(1 + 2 * n2) /\ 1 \in 1..(1 + n3) /\ 3 + 1 = 4
    OBVIOUS
  <2> HIDE DEF p1, p2
  <2>. QED  BY <1>13, <1>15, <1>21, <1>22, <1>23, <2>1
<1>25. ReadMap(f, 5, n1) = s.ids_
  <2>1. ASSUME NEW k \in 1..n1 PROVE f[5 + 2 * k - 2] = k1[k] /\ f[5 + 2 * k - 1] = s.ids_[k1[k]]
    <3>1. /\ 2 * k \in 1..(1 + 2 * n1) /\ 2 * k + 1 \in 1..(1 + 2 * n1)
          /\ 5 + 2 * k - 2 = 3 + 2 * k /\ 5 + 2 * k - 1 = 3 + (2 * k + 1)
      OBVIOUS
    <3>2. m[2 * k] = k1[k] /\ m[2 * k + 1] = s.ids_[k1[k]]
      BY <1>10 DEF MapWords
    <3>. QED  BY <1>21, <3>1, <3>2
  <2>2. k1 \in [1..n1 -> DOMAIN s.ids_] /\ \A x \in DOMAIN s.ids_ : \E k \in 1..n1 : k1[k] = x
    BY <1>10 DEF MapWords
  <2>3. LiesAt(f, 5, n1, k1, s.ids_)
    BY <2>1, <2>2 DEF LiesAt
  <2>. QED  BY <1>1, <2>3, ReadBack
<1>26. ReadMap(f, p1 + 2, n2) = s.inv_ids_
  <2>1. ASSUME NEW k \in 1..n2
        PROVE  f[(p1 + 2) + 2 * k - 2] = k2[k] /\ f[(p1 + 2) + 2 * k - 1] = s.inv_ids_[k2[k]]
    <3>1. /\ 2 * k \in 1..(1 + 2 * n2) /\ 2 * k + 1 \in 1..(1 + 2 * n2)
          /\ (p1 + 2) + 2 * k - 2 = p1 + 2 * k /\ (p1 + 2) + 2 * k - 1 = p1 + (2 * k + 1)
      OBVIOUS
    <3>2. i[2 * k] = k2[k] /\ i[2 * k + 1] = s.inv_ids_[k2[k]]
      BY <1>12 DEF MapWords
    <3> HIDE DEF p1
    <3>. QED  BY <1>22, <3>1, <3>2
  <2>2. k2 \in [1..n2 -> DOMAIN s.inv_ids_]
        /\ \A x \in DOMAIN s.inv_ids_ : \E k \in 1..n2 : k2[k] = x
    BY <1>12 DEF MapWords
  <2>3. p1 + 2 \in Nat
    OBVIOUS
  <2> HIDE DEF p1
  <2>4. LiesAt(f, p1 + 2, n2, k2, s.inv_ids_)
    BY <2>1, <2>2 DEF LiesAt
  <2>. QED  BY <1>1, <2>3, <2>4, ReadBack
<1>27. s.erased_ = {f[(p2 + 1) + k] : k \in 1..n3}
  <2>1. \A k \in 1..n3 : 1 + k \in 1..(1 + n3) /\ (p2 + 1) + k = p2 + (1 + k)
    OBVIOUS
  <2> HIDE DEF p2
  <2>2. \A k \in 1..n3 : f[(p2 + 1) + k] = w[1 + k]
    BY <1>23, <2>1
  <2>. QED  BY <1>13, <2>2
<1>28. f[(p2 + 1) + n3 + 1] = s.seg_id
  <2>1. (p2 + 1) + n3 + 1 = p3 + 1
    OBVIOUS
  <2> HIDE DEF p2, p3
  <2>. QED  BY <1>19, <2>1
<1>29. 5 + 2 * n1 = p1 + 1 /\ (p1 + 1) + 1 = p1 + 2 /\ (p1 + 1) + 1 + 2 * n2 = p2 + 1
  OBVIOUS
<1> HIDE DEF p1, p2, p3
<1>30. DeserealizeSegment(f) =
         [seg_type |-> s.seg_type, index_ |-> s.index_, next_id |-> s.next_id, ids_ |-> s.ids_,
          inv_ids_ |-> s.inv_ids_, erased_ |-> s.erased_, seg_id |-> s.seg_id]
  <2>1. f[1] \in {SegmentType.kFaissFlat, SegmentType.kFaissHNSW}
    BY <1>1, <1>21 DEF SegmentType
  <2>2. 5 + 2 * f[4] = p1 + 1 /\ f[5 + 2 * f[4]] = n2 /\ (p1 + 1) + 1 + 2 * n2 = p2 + 1
    BY <1>24, <1>29
  <2>3. DeserealizeSegment(f) =
          [seg_type |-> f[1], index_ |-> f[2], next_id |-> f[3],
           ids_ |-> ReadMap(f, 5, n1), inv_ids_ |-> ReadMap(f, (p1 + 1) + 1, n2),
           erased_ |-> {f[(p2 + 1) + k] : k \in 1..n3}, seg_id |-> f[(p2 + 1) + n3 + 1]]
    BY ONLY <1>24, <2>1, <2>2 DEF DeserealizeSegment
  <2>. QED  BY ONLY <1>21, <1>25, <1>26, <1>27, <1>28, <1>29, <2>3
<1>. QED  BY <1>1, <1>30 DEF FaissSegments

-----------------------------------------------------------------------------
(* What each operation keeps of the shape of a segment and of its numbers. *)
Apart(s, t) == \A p \in 1..s.next_id, q \in 1..t.next_id : s.index_[p] # t.index_[q]

(* A new segment is well formed and empty, and so is what it stands for.   *)
LEMMA EmptyFacts ==
  ASSUME NEW type \in {0, 1}, NEW id \in Nat, NEW top
  PROVE  /\ WellFormed(EmptySegment(type, id)) /\ OwnNumbers(EmptySegment(type, id), top)
         /\ EmptySegment(type, id).next_id = 0 /\ EmptySegment(type, id).seg_id = id
         /\ Abstract(EmptySegment(type, id)) = Seg!NewSegment(id)
<1> DEFINE E == EmptySegment(type, id)
<1>1. /\ E.seg_type = type /\ E.seg_id = id /\ E.index_ = <<>> /\ E.next_id = 0
      /\ E.ids_ = <<>> /\ E.inv_ids_ = <<>> /\ E.erased_ = {}
  BY DEF EmptySegment
<1>2. \A K, W : <<>> \in Maps(K, W)
  <2>1. \A W : <<>> \in [{} -> W]
    OBVIOUS
  <2>. QED  BY <2>1 DEF Maps
<1>3. E \in FaissSegments
  <2>1. <<>> \in Maps(Doc, Nat) /\ <<>> \in Maps(Nat, Doc)
    BY <1>2
  <2>. QED  BY <2>1 DEF EmptySegment, FaissSegments
<1> HIDE DEF E
<1>4. DOMAIN E.ids_ = {} /\ DOMAIN E.inv_ids_ = {} /\ 0..(0 - 1) = {} /\ 1..0 = {} /\ Len(E.index_) = 0
  BY <1>1
<1>5. WellFormed(E)
  BY <1>1, <1>3, <1>4 DEF WellFormed
<1>6. OwnNumbers(E, top)
  BY <1>1, <1>4 DEF OwnNumbers
<1>7. Abstract(E) = Seg!NewSegment(id)
  BY <1>1, <1>4 DEF Abstract, Seg!NewSegment
<1>. QED  BY <1>1, <1>5, <1>6, <1>7 DEF E

(* Numbers below a bound are below a larger one.                           *)
LEMMA OwnMore ==
  ASSUME NEW s, NEW m \in Nat, NEW n \in Nat, OwnNumbers(s, m)
  PROVE  OwnNumbers(s, m + n)
<1>1. \A p \in 1..s.next_id : s.index_[p] \in 1..m
  BY DEF OwnNumbers
<1>2. 1..m \subseteq 1..(m + n)
  OBVIOUS
<1>. QED  BY <1>1, <1>2 DEF OwnNumbers

(* After a batch with fresh numbers no vector is held twice.               *)
LEMMA AddKeeps ==
  ASSUME NEW s, WellFormed(s), NEW base \in Nat, OwnNumbers(s, base),
         NEW n \in Nat, NEW ds, NEW batch, IsNumbered(batch, base, n, ds),
         NEW r, Appended(s, batch, n, r),
         NEW o, o.next_id \in Nat, OwnNumbers(o, base), Apart(s, o)
  PROVE  OwnNumbers(r, base + n) /\ Apart(r, o) /\ Apart(o, r)
<1>1. /\ s.next_id \in Nat /\ r.next_id = s.next_id + n
      /\ \A p \in 1..s.next_id : r.index_[p] = s.index_[p]
      /\ \A k \in 1..n : r.index_[s.next_id + k] = batch[k][1]
  BY DEF Appended, WellFormed, FaissSegments
<1>2. \A k \in 1..n : batch[k][1] = base + k
  BY DEF IsNumbered
<1>3. /\ \A p, q \in 1..s.next_id : s.index_[p] = s.index_[q] => p = q
      /\ \A p \in 1..s.next_id : s.index_[p] \in 1..base
  BY DEF OwnNumbers
<1>4. \A q \in 1..o.next_id : o.index_[q] \in 1..base
  BY DEF OwnNumbers
<1>5. ASSUME NEW p \in 1..r.next_id
      PROVE  \/ p \in 1..s.next_id /\ r.index_[p] = s.index_[p]
             \/ p - s.next_id \in 1..n /\ r.index_[p] = base + (p - s.next_id)
  <2>1. CASE p <= s.next_id
    BY <1>1, <2>1, SMTT(40)
  <2>2. CASE ~(p <= s.next_id)
    <3>1. p - s.next_id \in 1..n /\ s.next_id + (p - s.next_id) = p
      BY <1>1, <2>2
    <3>. QED  BY <1>1, <1>2, <3>1
  <2>. QED  BY <2>1, <2>2
<1>6. ASSUME NEW p \in 1..r.next_id PROVE r.index_[p] \in 1..(base + n)
  BY <1>3, <1>5
<1>7. ASSUME NEW p \in 1..r.next_id, NEW q \in 1..r.next_id, r.index_[p] = r.index_[q]
      PROVE  p = q
  <2>1. CASE p \in 1..s.next_id /\ r.index_[p] = s.index_[p]
    <3>1. ~(q - s.next_id \in 1..n /\ r.index_[q] = base + (q - s.next_id))
      BY <1>3, <1>7, <2>1, SMTT(40)
    <3>. QED  BY <1>3, <1>5, <1>7, <2>1, <3>1
  <2>2. CASE p - s.next_id \in 1..n /\ r.index_[p] = base + (p - s.next_id)
    <3>1. q - s.next_id \in 1..n /\ r.index_[q] = base + (q - s.next_id)
      <4>1. r.index_[p] \notin 1..base
        BY <2>2
      <4>. QED  BY <1>3, <1>5, <1>7, <4>1
    <3>2. s.next_id \in Nat /\ p \in Int /\ q \in Int
      BY <1>1
    <3>3. base + (p - s.next_id) = base + (q - s.next_id)
      BY <1>7, <2>2, <3>1
    <3>. QED  BY <3>2, <3>3
  <2>. QED  BY <1>5, <2>1, <2>2
<1>8. ASSUME NEW p \in 1..r.next_id, NEW q \in 1..o.next_id PROVE r.index_[p] # o.index_[q]
  <2>1. CASE p \in 1..s.next_id /\ r.index_[p] = s.index_[p]
    BY <2>1 DEF Apart
  <2>2. CASE p - s.next_id \in 1..n /\ r.index_[p] = base + (p - s.next_id)
    BY <1>4, <2>2, SMTT(40)
  <2>. QED  BY <1>5, <2>1, <2>2
<1>. QED  BY <1>6, <1>7, <1>8 DEF OwnNumbers, Apart

(* An erase keeps a segment well formed, and all vectors in their places.  *)
LEMMA EraseKeeps ==
  ASSUME NEW s, WellFormed(s), NEW ds
  PROVE  /\ WellFormed(erase_batch(s, ds))
         /\ erase_batch(s, ds).next_id = s.next_id /\ erase_batch(s, ds).index_ = s.index_
         /\ erase_batch(s, ds).seg_id = s.seg_id
<1> DEFINE r == erase_batch(s, ds)
           X == {s.ids_[d] : d \in ds \cap DOMAIN s.ids_}
<1>1. s \in FaissSegments
  BY DEF WellFormed
<1>2. /\ r.seg_type = s.seg_type /\ r.seg_id = s.seg_id /\ r.index_ = s.index_
      /\ r.next_id = s.next_id /\ r.ids_ = s.ids_ /\ r.inv_ids_ = s.inv_ids_
      /\ r.erased_ = s.erased_ \cup X
  BY <1>1 DEF erase_batch, FaissSegments
<1>3. X \subseteq DOMAIN s.inv_ids_ /\ DOMAIN s.inv_ids_ \subseteq Nat
  BY DEF WellFormed, FaissSegments
<1>4. r \in FaissSegments
  BY <1>1, <1>3 DEF erase_batch, FaissSegments
<1> HIDE DEF r, X
<1>5. WellFormed(r)
  BY <1>2, <1>3, <1>4 DEF WellFormed
<1>. QED  BY <1>2, <1>5 DEF r

(* A merge keeps the segment well formed and holds no vector twice.        *)
LEMMA MergeKeeps ==
  ASSUME NEW s, WellFormed(s), NEW o, WellFormed(o), NEW top,
         OwnNumbers(s, top), OwnNumbers(o, top), Apart(s, o),
         NEW r \in merge_from_other(s, o)
  PROVE  WellFormed(r) /\ OwnNumbers(r, top)
<1>1. PICK n \in Nat : \E ps : ListsLive(o, ps, n) /\ Appended(s, LiveBatch(o, ps), n, r)
  BY MergeAppends
<1>2. PICK ps : ListsLive(o, ps, n) /\ Appended(s, LiveBatch(o, ps), n, r)
  BY <1>1
<1> DEFINE batch == LiveBatch(o, ps)
<1>3. /\ batch \in Batches(n)
      /\ \A k \in 1..n : /\ ps[k] \in 0..(o.next_id - 1) /\ ps[k] + 1 \in 1..o.next_id
                         /\ batch[k] = <<o.index_[ps[k] + 1], o.inv_ids_[ps[k]]>>
  BY <1>2, LiveBatchFacts
<1>4. \A j, k \in 1..n : ps[j] = ps[k] => j = k
  BY <1>2 DEF ListsLive
<1> HIDE DEF batch
<1>5. Appended(s, batch, n, r)
  BY <1>2 DEF batch
<1>6. /\ s.next_id \in Nat /\ r.next_id = s.next_id + n
      /\ \A p \in 1..s.next_id : r.index_[p] = s.index_[p]
      /\ \A k \in 1..n : r.index_[s.next_id + k] = batch[k][1]
  BY <1>5 DEF Appended, WellFormed, FaissSegments
<1>7. ASSUME NEW p \in 1..r.next_id
      PROVE  \/ p \in 1..s.next_id /\ r.index_[p] = s.index_[p]
             \/ \E k \in 1..n : p = s.next_id + k /\ r.index_[p] = o.index_[ps[k] + 1]
  <2>1. CASE p <= s.next_id
    BY <1>6, <2>1, SMTT(40)
  <2>2. CASE ~(p <= s.next_id)
    <3>1. p - s.next_id \in 1..n /\ s.next_id + (p - s.next_id) = p
      BY <1>6, <2>2
    <3>. QED  BY <1>3, <1>6, <3>1
  <2>. QED  BY <2>1, <2>2
<1>8. /\ \A p, q \in 1..s.next_id : s.index_[p] = s.index_[q] => p = q
      /\ \A p, q \in 1..o.next_id : o.index_[p] = o.index_[q] => p = q
      /\ \A p \in 1..s.next_id : s.index_[p] \in 1..top
      /\ \A p \in 1..o.next_id : o.index_[p] \in 1..top
      /\ \A p \in 1..s.next_id, q \in 1..o.next_id : s.index_[p] # o.index_[q]
  BY DEF OwnNumbers, Apart
<1>9. ASSUME NEW p \in 1..r.next_id PROVE r.index_[p] \in 1..top
  BY <1>3, <1>7, <1>8
<1>10. ASSUME NEW j \in 1..n, NEW k \in 1..n, o.index_[ps[j] + 1] = o.index_[ps[k] + 1]
       PROVE  j = k
  <2>1. ps[j] + 1 = ps[k] + 1 /\ ps[j] \in Int /\ ps[k] \in Int
    BY <1>3, <1>8, <1>10
  <2>2. ps[j] = ps[k]
    BY <2>1
  <2>. QED  BY <1>4, <2>2
<1>11. ASSUME NEW p \in 1..r.next_id, NEW q \in 1..r.next_id, r.index_[p] = r.index_[q]
       PROVE  p = q
  BY <1>3, <1>7, <1>8, <1>10, <1>11
<1>12. WellFormed(r)
  BY <1>3, <1>5, AppendedWellFormed
<1>. QED  BY <1>9, <1>11, <1>12 DEF OwnNumbers
-----------------------------------------------------------------------------
(* The inductive invariant of FaissIndex: both segments have their shape,  *)
(* no vector number occurs twice, and the file is one that SerializeSegment *)
(* can write of the segment saved.                                         *)
FaissInv ==
  /\ received \in Nat
  /\ WellFormed(a) /\ WellFormed(b) /\ b.seg_id = 2
  /\ OwnNumbers(a, received) /\ OwnNumbers(b, received) /\ Apart(a, b)
  /\ file # None => WellFormed(saved) /\ file \in SerializeSegment(saved)
  /\ copy # None => file # None /\ copy = saved

(* New segments satisfy the invariant.                                     *)
LEMMA FaissInitInv == Init => FaissInv
<1> SUFFICES ASSUME Init PROVE FaissInv
  OBVIOUS
<1>1. PICK t \in DOMAIN SegmentType : /\ a = EmptySegment(SegmentType[t], 1)
                                      /\ b = EmptySegment(SegmentType[t], 2)
  BY DEF Init
<1>2. SegmentType[t] \in {0, 1}
  BY DEF SegmentType
<1>3. /\ WellFormed(a) /\ OwnNumbers(a, received) /\ a.next_id = 0
      /\ WellFormed(b) /\ OwnNumbers(b, received) /\ b.next_id = 0 /\ b.seg_id = 2
  BY <1>1, <1>2, EmptyFacts
<1>4. Apart(a, b)
  BY <1>3 DEF Apart
<1>. QED  BY <1>3, <1>4 DEF FaissInv, Init

(* What Numbered makes of a call.                                          *)
LEMMA CallFacts ==
  ASSUME received \in Nat, NEW ds \in Calls
  PROVE  \E n \in Nat : /\ Len(ds) = n /\ IsNumbered(Numbered(ds), received, n, ds)
                        /\ Numbered(ds) \in Batches(n)
<1>1. PICK n \in 1..MaxBatch : ds \in [1..n -> Doc]
  BY DEF Calls
<1>2. n \in Nat /\ DOMAIN ds = 1..n /\ Len(ds) = n
  BY <1>1, FaissAssumption
<1>3. Numbered(ds) = [k \in 1..n |-> <<received + k, ds[k]>>]
  BY <1>2 DEF Numbered
<1>4. \A k \in 1..n : <<received + k, ds[k]>> \in Nat \X Doc
  BY <1>1, <1>2
<1>5. Numbered(ds) \in Batches(n)
  BY <1>3, <1>4 DEF Batches
<1>6. IsNumbered(Numbered(ds), received, n, ds)
  BY <1>1, <1>3 DEF IsNumbered
<1>. QED  BY <1>2, <1>5, <1>6

(* A batch added to one of two segments.                                   *)
LEMMA AddStep ==
  ASSUME received \in Nat, NEW ds \in Calls, NEW s, NEW o,
         WellFormed(s), WellFormed(o), OwnNumbers(s, received), OwnNumbers(o, received), Apart(s, o)
  PROVE  LET r == add_batch(s, Numbered(ds))
         IN /\ received + Len(ds) \in Nat /\ WellFormed(r) /\ r.seg_id = s.seg_id
            /\ OwnNumbers(r, received + Len(ds)) /\ OwnNumbers(o, received + Len(ds))
            /\ Apart(r, o) /\ Apart(o, r)
            /\ Abstract(r) = Seg!add_batch(Abstract(s), received, ds)
<1> DEFINE batch == Numbered(ds)
           r == add_batch(s, batch)
<1>1. PICK n \in Nat : /\ Len(ds) = n /\ IsNumbered(batch, received, n, ds)
                       /\ batch \in Batches(n)
  BY CallFacts
<1> HIDE DEF batch
<1>2. Appended(s, batch, n, r)
  BY <1>1, AddBatchAppends
<1> HIDE DEF r
<1>3. WellFormed(r) /\ r.seg_id = s.seg_id
  <2>1. WellFormed(r)
    BY <1>1, <1>2, AppendedWellFormed
  <2>2. r.seg_id = s.seg_id
    BY <1>2 DEF Appended
  <2>. QED  BY <2>1, <2>2
<1>4. Abstract(r) = Seg!add_batch(Abstract(s), received, ds)
  BY <1>1, <1>2, AddRefines
<1>5. o.next_id \in Nat
  BY DEF WellFormed, FaissSegments
<1>6. OwnNumbers(r, received + n) /\ Apart(r, o) /\ Apart(o, r)
  BY <1>1, <1>2, <1>5, AddKeeps
<1>7. OwnNumbers(o, received + n) /\ received + n \in Nat
  BY OwnMore
<1>. QED  BY <1>1, <1>3, <1>4, <1>6, <1>7 DEF r, batch

(* Which of two segments comes first does not matter.                      *)
LEMMA ApartSymmetric == ASSUME NEW s, NEW o, Apart(s, o) PROVE Apart(o, s)
BY DEF Apart

(* A batch keeps the invariant and is a step of Segment.                   *)
LEMMA FaissAddInv ==
  ASSUME FaissInv, NEW ds \in Calls, AddTo(ds)
  PROVE  FaissInv' /\ SegmentStep
<1>1. received' = received + Len(ds) /\ UNCHANGED <<file, saved, copy>>
  BY DEF AddTo
<1>2. /\ received \in Nat /\ WellFormed(a) /\ WellFormed(b) /\ b.seg_id = 2 /\ Apart(a, b)
      /\ OwnNumbers(a, received) /\ OwnNumbers(b, received) /\ Apart(b, a)
  BY ApartSymmetric DEF FaissInv
<1>3. CASE a' = add_batch(a, Numbered(ds)) /\ UNCHANGED b
  <2>1. /\ received' \in Nat /\ WellFormed(a') /\ OwnNumbers(a', received')
        /\ OwnNumbers(b', received') /\ Apart(a', b')
        /\ Abstract(a') = Seg!add_batch(Abstract(a), received, ds)
    BY <1>1, <1>2, <1>3, AddStep
  <2>2. FaissInv'
    BY <1>1, <1>2, <1>3, <2>1 DEF FaissInv
  <2>. QED  BY <1>1, <1>3, <2>1, <2>2 DEF SegmentStep
<1>4. CASE b' = add_batch(b, Numbered(ds)) /\ UNCHANGED a
  <2>1. /\ received' \in Nat /\ WellFormed(b') /\ OwnNumbers(b', received') /\ b'.seg_id = 2
        /\ OwnNumbers(a', received') /\ Apart(a', b')
        /\ Abstract(b') = Seg!add_batch(Abstract(b), received, ds)
    BY <1>1, <1>2, <1>4, AddStep
  <2>2. FaissInv'
    BY <1>1, <1>2, <1>4, <2>1 DEF FaissInv
  <2>. QED  BY <1>1, <1>4, <2>1, <2>2 DEF SegmentStep
<1>. QED  BY <1>3, <1>4 DEF AddTo

(* So does an erase.                                                       *)
LEMMA FaissEraseInv ==
  ASSUME FaissInv, NEW ds \in SUBSET Doc, Erase(ds)
  PROVE  FaissInv' /\ SegmentStep
<1>1. /\ a' = erase_batch(a, ds) /\ b' = erase_batch(b, ds)
      /\ UNCHANGED <<received, file, saved, copy>>
  BY DEF Erase
<1>2. /\ received \in Nat /\ WellFormed(a) /\ WellFormed(b) /\ b.seg_id = 2 /\ Apart(a, b)
      /\ OwnNumbers(a, received) /\ OwnNumbers(b, received)
  BY DEF FaissInv
<1>3. /\ WellFormed(a') /\ a'.next_id = a.next_id /\ a'.index_ = a.index_
      /\ WellFormed(b') /\ b'.next_id = b.next_id /\ b'.index_ = b.index_ /\ b'.seg_id = 2
  BY <1>1, <1>2, EraseKeeps
<1>4. OwnNumbers(a', received') /\ OwnNumbers(b', received') /\ Apart(a', b')
  BY <1>1, <1>2, <1>3, SMTT(40) DEF OwnNumbers, Apart
<1>5. FaissInv'
  BY <1>1, <1>2, <1>3, <1>4 DEF FaissInv
<1>6. /\ Abstract(a') = Seg!erase_batch(Abstract(a), ds)
      /\ Abstract(b') = Seg!erase_batch(Abstract(b), ds)
  BY <1>1, <1>2, EraseRefines
<1>. QED  BY <1>5, <1>6 DEF SegmentStep

(* So does a merge.                                                        *)
LEMMA FaissMergeInv ==
  ASSUME FaissInv, Merge
  PROVE  FaissInv' /\ SegmentStep
<1>1. /\ a' \in merge_from_other(a, b) /\ b' = EmptySegment(b.seg_type, b.seg_id)
      /\ UNCHANGED <<received, file, saved, copy>>
  BY DEF Merge
<1>2. /\ received \in Nat /\ WellFormed(a) /\ WellFormed(b) /\ b.seg_id = 2 /\ Apart(a, b)
      /\ OwnNumbers(a, received) /\ OwnNumbers(b, received)
  BY DEF FaissInv
<1>3. WellFormed(a') /\ OwnNumbers(a', received')
  BY <1>1, <1>2, MergeKeeps
<1>4. b.seg_type \in {0, 1} /\ 2 \in Nat
  BY <1>2 DEF WellFormed, FaissSegments
<1>5. /\ WellFormed(b') /\ OwnNumbers(b', received') /\ b'.next_id = 0 /\ b'.seg_id = 2
      /\ Abstract(b') = Seg!NewSegment(2)
  BY <1>1, <1>2, <1>4, EmptyFacts
<1>6. Apart(a', b')
  BY <1>5 DEF Apart
<1>7. FaissInv'
  BY <1>1, <1>2, <1>3, <1>5, <1>6 DEF FaissInv
<1>8. Abstract(a') \in Seg!merge_from_other(Abstract(a), Abstract(b))
  BY <1>1, <1>2, MergeRefines
<1>. QED  BY <1>5, <1>7, <1>8 DEF SegmentStep

(* A step that leaves both segments alone erases no id.                    *)
LEMMA NothingErased ==
  ASSUME UNCHANGED <<a, b>>
  PROVE  SegmentStep
<1>1. ASSUME NEW s PROVE Abstract(s) = Seg!erase_batch(Abstract(s), {})
  BY AbstractRecord DEF Seg!erase_batch
<1>2. {} \in SUBSET Doc
  OBVIOUS
<1>. QED  BY <1>1, <1>2 DEF SegmentStep

(* Writing and reading the file leave both segments alone.                 *)
LEMMA FaissFileInv ==
  ASSUME FaissInv, Save \/ Load
  PROVE  FaissInv' /\ SegmentStep
<1>1. UNCHANGED <<a, b, received>>
  BY DEF Save, Load
<1>2. CASE Save
  <2>1. file' \in SerializeSegment(saved') /\ saved' = a /\ copy' = copy /\ copy = None /\ WellFormed(a)
    BY <1>2 DEF Save, FaissInv
  <2>. QED  BY <1>1, <2>1, NothingErased DEF FaissInv
<1>3. CASE Load
  <2>1. /\ file # None /\ copy' = DeserealizeSegment(file) /\ UNCHANGED <<file, saved>>
        /\ WellFormed(saved) /\ file \in SerializeSegment(saved)
    BY <1>3 DEF Load, FaissInv
  <2>2. copy' = saved
    BY <2>1, FileReadsBack
  <2>. QED  BY <1>1, <2>1, <2>2, NothingErased DEF FaissInv
<1>. QED  BY <1>2, <1>3

(* Every step keeps the invariant and is a step of Segment.                *)
LEMMA FaissStep ==
  ASSUME FaissInv, [Next]_vars
  PROVE  FaissInv' /\ [SegmentStep]_vars
<1>1. CASE UNCHANGED vars
  BY <1>1 DEF vars, FaissInv
<1>2. CASE \E ds \in Calls : AddTo(ds)
  BY <1>2, FaissAddInv
<1>3. CASE \E ds \in (SUBSET Doc) \ {{}} : Erase(ds)
  BY <1>3, FaissEraseInv
<1>4. CASE Merge
  BY <1>4, FaissMergeInv
<1>5. CASE Save \/ Load
  BY <1>5, FaissFileInv
<1>. QED  BY <1>1, <1>2, <1>3, <1>4, <1>5 DEF Next

(* The two segments keep their shape and share no vector, and the file is  *)
(* always one of the segment that was saved.                               *)
THEOREM FaissInvariance == Spec => []FaissInv
<1>1. Init => FaissInv
  BY FaissInitInv
<1>2. FaissInv /\ [Next]_vars => FaissInv'
  BY FaissStep
<1>. QED  BY <1>1, <1>2, PTL DEF Spec

(* DeserealizeSegment gives back the segment SerializeSegment was given,   *)
(* with its positions, both maps and the erased set, for any number of     *)
(* vectors and ids and any order the hash maps are written in.             *)
THEOREM FileRoundTrip == Spec => []RoundTrip
<1>1. FaissInv => RoundTrip
  BY DEF FaissInv, RoundTrip
<1>. QED  BY <1>1, FaissInvariance, PTL

(* add_batch, erase_batch and merge_from_other on positions do to the      *)
(* numbered vectors what the operators of Segment say, so the results that *)
(* the other modules have on Segment carry over to faiss positions.        *)
THEOREM FaissRefinesSegment == Spec => ImplementsSegment
<1>1. FaissInv /\ [Next]_vars => [SegmentStep]_vars
  BY FaissStep
<1>. QED  BY <1>1, FaissInvariance, PTL DEF Spec, ImplementsSegment
==============================================================================
