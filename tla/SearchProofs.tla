----------------------------- MODULE SearchProofs -----------------------------
(***************************************************************************)
(* A search of the index is exact, for every set of documents and          *)
(* distances, every k, and every state the index can reach.  Nothing is    *)
(* assumed about how faiss orders equal distances.                         *)
(***************************************************************************)
EXTENDS Search, IndexProofs

(* Search results: pairs <<distance, id>>.                                 *)
Results == Nat \X Nat

Rank(R, r) == Cardinality({t \in R : Before(t, r)})
-----------------------------------------------------------------------------
(* A set of numbers has a least element, if it has any.                    *)
LEMMA LeastNat ==
  ASSUME NEW T \in SUBSET Nat, T # {}
  PROVE  \E x \in T : \A y \in T : x <= y
<1>1. PICK x \in T : \A y \in T : ~ (<<y, x>> \in OpToRel(<, Nat))
  BY NatLessThanWellFounded, WFMin
<1>2. ASSUME NEW y \in T PROVE x <= y
  <2>1. x \in Nat /\ y \in Nat /\ ~(y < x)
    BY <1>1 DEF OpToRel
  <2>. QED  BY <2>1
<1>. QED  BY <1>2

(* A bounded set of numbers has a greatest element, if it has any.         *)
LEMMA GreatestNat ==
  ASSUME NEW n \in Nat, NEW T \in SUBSET (0..n), T # {}
  PROVE  \E x \in T : \A y \in T : y <= x
<1> DEFINE D == {m \in Nat : \E y \in T : m = n - y}
<1>1. \A y \in T : y \in Nat /\ n - y \in D
  OBVIOUS
<1>2. D \in SUBSET Nat /\ D # {}
  BY <1>1
<1> HIDE DEF D
<1>3. PICK z \in D : \A y \in D : z <= y
  BY <1>2, LeastNat
<1>4. PICK x \in T : z = n - x
  BY <1>3 DEF D
<1>5. ASSUME NEW y \in T PROVE y <= x
  <2>1. n - x <= n - y
    BY <1>1, <1>3, <1>4
  <2>. QED  BY <1>1, <2>1
<1>. QED  BY <1>5

(* A subset is no larger, and smaller if it leaves something out.          *)
LEMMA SubsetCard ==
  ASSUME NEW S, IsFiniteSet(S), NEW T \in SUBSET S
  PROVE  /\ IsFiniteSet(T) /\ Cardinality(T) \in Nat /\ Cardinality(S) \in Nat
         /\ Cardinality(T) <= Cardinality(S)
         /\ T # S => Cardinality(T) < Cardinality(S)
BY FS_Subset, FS_CardinalityType

(* Renaming one to one keeps the number of elements.                       *)
LEMMA ImageCard ==
  ASSUME NEW S, IsFiniteSet(S), NEW f, \A x, y \in S : f[x] = f[y] => x = y
  PROVE  /\ IsFiniteSet({f[x] : x \in S})
         /\ Cardinality({f[x] : x \in S}) = Cardinality(S)
<1> DEFINE T == {f[x] : x \in S}
           g == [x \in S |-> f[x]]
<1>1. g \in [S -> T] /\ (\A t \in T : \E x \in S : g[x] = t)
      /\ \A x, y \in S : g[x] = g[y] => x = y
  OBVIOUS
<1>2. g \in Bijection(S, T)
  BY <1>1 DEF Bijection, Injection, Surjection, IsInjective
<1> HIDE DEF g, T
<1>3. ExistsBijection(S, T)
  BY <1>2 DEF ExistsBijection
<1>4. IsFiniteSet(T) /\ Cardinality(T) = Cardinality(S)
  BY <1>3, FS_Bijection
<1>. QED  BY <1>4 DEF T
-----------------------------------------------------------------------------
(* operator< is a strict total order.                                      *)
LEMMA BeforeOrder ==
  ASSUME NEW r \in Results, NEW t \in Results, NEW u \in Results
  PROVE  /\ ~Before(r, r)
         /\ Before(r, t) /\ Before(t, u) => Before(r, u)
         /\ r # t => Before(r, t) \/ Before(t, r)
BY DEF Before, Results

(* A rank is a number, at most that of all results.                        *)
LEMMA RankType ==
  ASSUME NEW R \in SUBSET Results, IsFiniteSet(R), NEW r
  PROVE  /\ IsFiniteSet({t \in R : Before(t, r)})
         /\ Rank(R, r) \in Nat /\ Cardinality(R) \in Nat /\ Rank(R, r) <= Cardinality(R)
<1>1. {t \in R : Before(t, r)} \in SUBSET R
  OBVIOUS
<1>. QED  BY <1>1, SubsetCard DEF Rank

(* A result that comes before another has the smaller rank.                *)
LEMMA RankIncreases ==
  ASSUME NEW R \in SUBSET Results, IsFiniteSet(R), NEW r \in R, NEW t \in R, Before(t, r)
  PROVE  Rank(R, t) < Rank(R, r)
<1> DEFINE A == {u \in R : Before(u, t)}
           B == {u \in R : Before(u, r)}
<1>1. A \in SUBSET B /\ t \in B /\ t \notin A
  BY BeforeOrder
<1>2. IsFiniteSet(B)
  BY RankType
<1> HIDE DEF A, B
<1>3. Cardinality(A) < Cardinality(B)
  BY <1>1, <1>2, SubsetCard
<1>. QED  BY <1>3 DEF Rank, A, B

(* The bounded set keeps at most k results, k if it drops any, and the     *)
(* ones it keeps come before the ones it drops.                            *)
LEMMA KthStatProps ==
  ASSUME NEW R \in SUBSET Results, IsFiniteSet(R), NEW k \in Nat
  PROVE  LET K == KthStat(R, k)
         IN  /\ K \in SUBSET R /\ IsFiniteSet(K) /\ Cardinality(K) \in Nat
             /\ Cardinality(K) <= k
             /\ K # R => Cardinality(K) = k
             /\ \A r \in K, t \in R \ K : Before(r, t)
<1> DEFINE K == KthStat(R, k)
<1>1. /\ K \in SUBSET R /\ \A r \in R : r \in K <=> Rank(R, r) < k
  BY DEF KthStat, Rank
<1>2. \A r \in R : Rank(R, r) \in Nat
  BY RankType
<1> HIDE DEF K
<1>3. IsFiniteSet(K) /\ Cardinality(K) \in Nat
  BY <1>1, SubsetCard
<1>4. Cardinality(K) <= k
  <2>1. CASE K = {}
    BY <2>1, FS_EmptySet
  <2>2. CASE K # {}
    <3> DEFINE ranks == {Rank(R, r) : r \in K}
    <3>1. ranks \in SUBSET (0..k) /\ ranks # {}
      BY <1>1, <1>2, <2>2
    <3>2. PICK x \in ranks : \A y \in ranks : y <= x
      BY <3>1, GreatestNat
    <3>3. PICK m \in K : x = Rank(R, m)
      BY <3>2
    <3>4. \A r \in K : Rank(R, r) <= Rank(R, m)
      BY <3>2, <3>3
    <3>5. K \ {m} \in SUBSET {t \in R : Before(t, m)}
      <4> SUFFICES ASSUME NEW t \in K, t # m PROVE Before(t, m)
        BY <1>1
      <4>1. t \in R /\ m \in R /\ t \in Results /\ m \in Results
        BY <1>1
      <4>2. CASE Before(m, t)
        <5>1. Rank(R, m) < Rank(R, t)
          BY <4>1, <4>2, RankIncreases
        <5>. QED  BY <1>2, <3>4, <4>1, <5>1
      <4>. QED  BY <4>1, <4>2, BeforeOrder
    <3>6. Cardinality(K \ {m}) <= Rank(R, m)
      BY <3>5, RankType, SubsetCard DEF Rank
    <3>7. Cardinality(K \ {m}) = Cardinality(K) - 1
      BY <1>3, FS_RemoveElement
    <3>8. Rank(R, m) \in Nat /\ Rank(R, m) < k
      BY <1>1, <1>2
    <3>. QED  BY <1>3, <3>6, <3>7, <3>8
  <2>. QED  BY <2>1, <2>2
<1>5. ASSUME K # R PROVE k <= Cardinality(K)
  <2> DEFINE ranks == {Rank(R, r) : r \in R \ K}
  <2>1. ranks \in SUBSET Nat /\ ranks # {}
    BY <1>1, <1>2, <1>5
  <2>2. PICK x \in ranks : \A y \in ranks : x <= y
    BY <2>1, LeastNat
  <2>3. PICK m \in R \ K : x = Rank(R, m)
    BY <2>2
  <2>4. {t \in R : Before(t, m)} \in SUBSET K
    <3> SUFFICES ASSUME NEW t \in R, Before(t, m), t \notin K PROVE FALSE
      OBVIOUS
    <3>1. Rank(R, t) < Rank(R, m)
      BY RankIncreases
    <3>2. Rank(R, m) <= Rank(R, t)
      BY <2>2, <2>3
    <3>. QED  BY <1>2, <3>1, <3>2
  <2>5. Rank(R, m) <= Cardinality(K)
    BY <1>3, <2>4, SubsetCard DEF Rank
  <2>6. Rank(R, m) \in Nat /\ k <= Rank(R, m)
    BY <1>1, <1>2, <2>3
  <2>. QED  BY <1>3, <2>5, <2>6
<1>6. ASSUME NEW r \in K, NEW t \in R \ K PROVE Before(r, t)
  <2>1. r \in R /\ r \in Results /\ t \in Results /\ r # t
    BY <1>1
  <2>2. CASE Before(t, r)
    <3>1. Rank(R, t) < Rank(R, r)
      BY <2>1, <2>2, RankIncreases
    <3>2. Rank(R, r) < k
      BY <1>1
    <3>3. Rank(R, t) < k
      BY <1>2, <2>1, <3>1, <3>2
    <3>. QED  BY <1>1, <3>3
  <2>. QED  BY <2>1, <2>2, BeforeOrder
<1>. QED  BY <1>1, <1>3, <1>4, <1>5, <1>6 DEF K
-----------------------------------------------------------------------------
(* T are k nearest of the vectors V, or all of them.                       *)
NearestOf(T, V, k, dist) ==
  /\ T \in SUBSET V
  /\ IsFiniteSet(T) /\ Cardinality(T) \in Nat /\ Cardinality(T) <= k
  /\ T # V => Cardinality(T) = k
  /\ \A t \in T, v \in V \ T : dist[t[2]] <= dist[v[2]]

(* A flat faiss index returns n nearest vectors, or all it has.            *)
LEMMA LeastProps ==
  ASSUME NEW V, IsFiniteSet(V), NEW k \in Nat, NEW dist, NEW T \in Least(V, k, dist)
  PROVE  NearestOf(T, V, k, dist)
<1>1. /\ T \in SUBSET V
      /\ Cardinality(T) = k \/ (Cardinality(V) < k /\ T = V)
      /\ \A t \in T, v \in V \ T : dist[t[2]] <= dist[v[2]]
  BY DEF Least
<1>2. IsFiniteSet(T) /\ Cardinality(T) \in Nat
  BY <1>1, SubsetCard
<1>. QED  BY <1>1, <1>2 DEF NearestOf

(* The extra room makes up for the erased positions: single_search returns *)
(* k nearest of the live vectors.                                          *)
LEMMA SingleSearchProps ==
  ASSUME NEW s \in Segments, Consistent(s), IsFiniteSet(s.inv_ids_), IsFiniteSet(s.erased_),
         NEW q, q.k \in Nat, NEW T \in single_search(s, q)
  PROVE  NearestOf(T, Live(s), q.k, q.dist)
<1> DEFINE e == Cardinality(s.erased_)
           inv == s.inv_ids_
<1>1. PICK near \in Least(inv, q.k + e, q.dist) :
        T \in Least({v \in near : v[2] \notin s.erased_}, q.k, q.dist)
  BY DEF single_search
<1> DEFINE N == {v \in near : v[2] \notin s.erased_}
<1>2. e \in Nat /\ q.k + e \in Nat
  BY FS_CardinalityType
<1>3. NearestOf(near, inv, q.k + e, q.dist)
  BY <1>1, <1>2, LeastProps
<1>4. N \in SUBSET near /\ near \in SUBSET inv /\ IsFiniteSet(near) /\ N \in SUBSET Live(s)
  BY <1>3 DEF NearestOf, Live
<1>5. IsFiniteSet(N) /\ Cardinality(N) \in Nat /\ Cardinality(near) \in Nat
  BY <1>4, SubsetCard
<1>6. NearestOf(T, N, q.k, q.dist)
  BY <1>1, <1>5, LeastProps
<1>7. ASSUME near # inv PROVE q.k <= Cardinality(N)
  <2>1. Cardinality(near) = q.k + e
    BY <1>3, <1>7 DEF NearestOf
  <2> DEFINE g == [v \in near \ N |-> v[2]]
  <2>2. \A v \in near \ N : v[2] \in s.erased_
    OBVIOUS
  <2>3. \A v, w \in near \ N : v[2] = w[2] => v = w
    BY <1>4 DEF Consistent
  <2>4. g \in Injection(near \ N, s.erased_)
    BY <2>2, <2>3 DEF Injection, IsInjective
  <2> HIDE DEF g, N
  <2>5. Cardinality(near \ N) <= e
    BY <2>4, FS_Injection
  <2>6. near \cap N = N
    BY <1>4
  <2>7. Cardinality(near \ N) = Cardinality(near) - Cardinality(N)
    BY <1>4, <2>6, FS_Difference
  <2>. QED  BY <1>2, <1>5, <2>1, <2>5, <2>7
<1>8. \A v \in Live(s) : v \in inv /\ (v \in near => v \in N)
  BY DEF Live
<1> HIDE DEF N, e, inv
<1>9. ASSUME T # Live(s) PROVE Cardinality(T) = q.k
  <2>1. CASE T # N
    BY <1>6, <2>1 DEF NearestOf
  <2>2. CASE T = N
    <3>1. near # inv
      BY <1>4, <1>8, <1>9, <2>2
    <3>. QED  BY <1>5, <1>6, <1>7, <2>2, <3>1 DEF NearestOf
  <2>. QED  BY <2>1, <2>2
<1>10. ASSUME NEW t \in T, NEW v \in Live(s) \ T PROVE q.dist[t[2]] <= q.dist[v[2]]
  <2>1. CASE v \in near
    BY <1>6, <1>8, <2>1 DEF NearestOf
  <2>2. CASE v \notin near
    <3>1. t \in near /\ v \in inv \ near
      BY <1>4, <1>6, <1>8, <2>2 DEF NearestOf
    <3>. QED  BY <1>3, <3>1 DEF NearestOf
  <2>. QED  BY <2>1, <2>2
<1>. QED  BY <1>4, <1>6, <1>9, <1>10 DEF NearestOf
-----------------------------------------------------------------------------
(* A finite set of numbers has a greatest element, if it has any.          *)
LEMMA FiniteMax ==
  ASSUME NEW S \in SUBSET Nat, S # {}, IsFiniteSet(S)
  PROVE  \E x \in S : \A y \in S : y <= x
<1> DEFINE below(x) == {z \in S : z < x}
           c(x) == Cardinality(below(x))
           D == {c(z) : z \in S}
<1>1. Cardinality(S) \in Nat
  BY FS_CardinalityType
<1>2. ASSUME NEW x \in S
      PROVE  IsFiniteSet(below(x)) /\ c(x) \in Nat /\ c(x) <= Cardinality(S)
  <2>1. below(x) \in SUBSET S
    OBVIOUS
  <2> HIDE DEF below
  <2>. QED  BY <2>1, SubsetCard
<1>3. ASSUME NEW x \in S, NEW y \in S, x < y PROVE c(x) < c(y)
  <2>0. x \in Nat /\ y \in Nat /\ \A z \in S : z < x => z < y
    BY <1>3
  <2>1. below(x) \in SUBSET below(y) /\ x \in below(y) /\ x \notin below(x)
    <3> HIDE DEF c, D
    <3>1. below(x) \in SUBSET below(y)
      BY <2>0
    <3>2. x \in below(y) /\ x \notin below(x)
      BY <1>3, <2>0
    <3>. QED  BY <3>1, <3>2
  <2>2. IsFiniteSet(below(y))
    BY <1>2
  <2> HIDE DEF below
  <2>. QED  BY <2>1, <2>2, SubsetCard
<1> HIDE DEF c, below
<1>4. D \in SUBSET (0..Cardinality(S)) /\ D # {}
  <2>1. \A x \in S : c(x) \in D /\ c(x) \in 0..Cardinality(S)
    BY <1>1, <1>2
  <2>. QED  BY <2>1
<1>5. PICK n \in D : \A m \in D : m <= n
  <2> HIDE DEF D
  <2>. QED  BY <1>1, <1>4, GreatestNat
<1>6. PICK x \in S : n = c(x)
  BY <1>5
<1>7. ASSUME NEW y \in S PROVE y <= x
  <2>1. c(y) <= c(x)
    BY <1>2, <1>5, <1>6
  <2>2. c(x) \in Nat /\ c(y) \in Nat /\ x \in Nat /\ y \in Nat
    BY <1>2
  <2>3. ~(x < y)
    BY <1>3, <2>1, <2>2
  <2>. QED  BY <2>2, <2>3
<1>. QED  BY <1>7

(* The results of a segment are vectors found, some if any was found, and  *)
(* all of them if no two have the same id.                                 *)
LEMMA FarthestProps ==
  ASSUME NEW T, IsFiniteSet(T), NEW q, \A v \in T : q.dist[v[2]] \in Nat
  PROVE  /\ Farthest(T, q) \in SUBSET {<<q.dist[v[2]], v[1]>> : v \in T}
         /\ T # {} => Farthest(T, q) # {}
         /\ (\A v, w \in T : v[1] = w[1] => v = w)
              => Farthest(T, q) = {<<q.dist[v[2]], v[1]>> : v \in T}
<1>1. ASSUME T # {} PROVE Farthest(T, q) # {}
  <2> DEFINE ds == {q.dist[v[2]] : v \in T}
             g == [v \in T |-> q.dist[v[2]]]
  <2>1. g \in Surjection(T, ds)
    BY DEF Surjection
  <2>2. IsFiniteSet(ds)
    <3> HIDE DEF g, ds
    <3>. QED  BY <2>1, FS_Surjection
  <2>3. ds \in SUBSET Nat /\ ds # {}
    BY <1>1
  <2>4. PICK x \in ds : \A y \in ds : y <= x
    <3> HIDE DEF ds
    <3>. QED  BY <2>2, <2>3, FiniteMax
  <2>5. PICK v \in T : x = q.dist[v[2]]
    BY <2>4
  <2>6. \A w \in T : q.dist[w[2]] <= q.dist[v[2]]
    BY <2>4, <2>5
  <2>7. <<q.dist[v[2]], v[1]>> \in Farthest(T, q)
    BY <2>6 DEF Farthest
  <2>. QED  BY <2>7
<1>2. ASSUME \A v, w \in T : v[1] = w[1] => v = w
      PROVE  Farthest(T, q) = {<<q.dist[v[2]], v[1]>> : v \in T}
  <2>1. \A u \in T : \A w \in T : w[1] = u[1] => q.dist[w[2]] <= q.dist[u[2]]
    BY <1>2
  <2>2. {u \in T : \A w \in T : w[1] = u[1] => q.dist[w[2]] <= q.dist[u[2]]} = T
    BY <2>1
  <2>. QED  BY <2>2 DEF Farthest
<1>3. Farthest(T, q) \in SUBSET {<<q.dist[v[2]], v[1]>> : v \in T}
  BY DEF Farthest
<1>. QED  BY <1>1, <1>2, <1>3

(* A set with at most one element does not have two.                       *)
LEMMA AtMostOne ==
  ASSUME NEW S, IsFiniteSet(S), Cardinality(S) <= 1, NEW x \in S, NEW y \in S
  PROVE  x = y
<1> SUFFICES ASSUME x # y PROVE FALSE
  OBVIOUS
<1>1. {x} \in SUBSET S /\ {x} # S
  OBVIOUS
<1>2. Cardinality({x}) = 1
  BY FS_Singleton
<1>3. 1 < Cardinality(S) /\ Cardinality(S) \in Nat
  BY <1>1, <1>2, SubsetCard
<1>. QED  BY <1>3
-----------------------------------------------------------------------------
(* The result a vector gives.                                              *)
AsResult(q, v) == <<q.dist[v[2]], v[1]>>

(* Everything a search touches is finite, and the query has a distance for *)
(* each vector.                                                            *)
LEMMA SearchedType ==
  ASSUME IInv, NEW q \in Queries
  PROVE  /\ q.k \in Nat /\ q.k >= 1
         /\ IsFiniteSet(Doc \X (1..added))
         /\ \A v \in Doc \X (1..added) : q.dist[v[2]] \in Nat /\ AsResult(q, v) \in Results
         /\ \A p \in Objects : /\ heap[p] \in Segments /\ Consistent(heap[p])
                               /\ IsFiniteSet(heap[p].inv_ids_)
                               /\ IsFiniteSet(heap[p].erased_)
                               /\ Live(heap[p]) \in SUBSET (Doc \X (1..added))
<1>1. added \in Nat /\ \A p \in Objects : heap[p] \in Segments /\ IsFiniteSet(heap[p].erased_)
  BY DEF IInv, TypeOK, Objects
<1>2. /\ q.dist \in [1..added -> Dist] /\ q.k \in 1..MaxK
  BY DEF Queries
<1>3. Dist \subseteq Nat /\ MaxK \in Nat /\ Doc \subseteq Nat
  BY SearchAssumption
<1>4. q.k \in Nat /\ q.k >= 1
  BY <1>2, <1>3
<1>5. IsFiniteSet(1..added)
  BY <1>1, FS_Interval
<1>6. IsFiniteSet(Doc \X (1..added))
  BY <1>5, DocAssumption, FS_Product
<1>7. ASSUME NEW v \in Doc \X (1..added)
      PROVE  q.dist[v[2]] \in Nat /\ AsResult(q, v) \in Results
  <2>1. v[1] \in Nat /\ q.dist[v[2]] \in Nat
    BY <1>2, <1>3
  <2>. QED  BY <2>1 DEF AsResult, Results
<1>8. ASSUME NEW p \in Objects
      PROVE  /\ Consistent(heap[p]) /\ IsFiniteSet(heap[p].inv_ids_)
             /\ Live(heap[p]) \in SUBSET (Doc \X (1..added))
  <2>1. Consistent(heap[p]) /\ \A n \in Numbers(heap[p]) : 0 < n /\ n <= added
    BY DEF IInv, Bookkeeping
  <2>2. heap[p].inv_ids_ \in SUBSET (Doc \X Nat)
    BY <1>1 DEF Segments
  <2>3. \A v \in heap[p].inv_ids_ : v[2] \in Numbers(heap[p])
    BY DEF Numbers
  <2>4. heap[p].inv_ids_ \in SUBSET (Doc \X (1..added))
    BY <1>1, <2>1, <2>2, <2>3
  <2>5. IsFiniteSet(heap[p].inv_ids_)
    BY <1>6, <2>4, FS_Subset
  <2>. QED  BY <2>1, <2>4, <2>5 DEF Live
<1>. QED  BY <1>1, <1>4, <1>6, <1>7, <1>8

(* What Index::search computes: k best of the results of all segments,     *)
(* where each segment gives k nearest of its live vectors.                 *)
FromSegments(q, R, all, ps, found) ==
  /\ all \in SUBSET {AsResult(q, v) : v \in Visible}
  /\ all \in SUBSET Results /\ IsFiniteSet(all)
  /\ R = KthStat(all, q.k)
  /\ \A p \in ps : /\ NearestOf(found[p], Live(heap[p]), q.k, q.dist)
                   /\ found[p] # {} => \E v \in found[p] : AsResult(q, v) \in all
                   /\ (\A v, w \in found[p] : v[1] = w[1] => v = w)
                        => \A v \in found[p] : AsResult(q, v) \in all

(* Index::search has that form in every state of the invariant.            *)
LEMMA SearchSteps ==
  ASSUME IInv, NEW q \in Queries, NEW R \in search(q)
  PROVE  \E all, found : FromSegments(q, R, all, {p \in Objects : Searched(p)}, found)
<1> DEFINE ps == {p \in Objects : Searched(p)}
<1>1. PICK r \in [ps -> UNION {searchQuery(heap[p], q) : p \in ps}] :
        /\ \A p \in ps : r[p] \in searchQuery(heap[p], q)
        /\ R = KthStat(UNION {r[p] : p \in ps}, q.k)
  BY DEF search
<1> DEFINE all == UNION {r[p] : p \in ps}
           found == [p \in ps |-> CHOOSE T \in single_search(heap[p], q) : r[p] = Farthest(T, q)]
<1>2. ASSUME NEW p \in ps
      PROVE  found[p] \in single_search(heap[p], q) /\ r[p] = Farthest(found[p], q)
  <2>1. \E T \in single_search(heap[p], q) : r[p] = Farthest(T, q)
    BY <1>1 DEF searchQuery
  <2>. QED  BY <2>1
<1> HIDE DEF found
<1>3. ASSUME NEW p \in ps
      PROVE  /\ NearestOf(found[p], Live(heap[p]), q.k, q.dist)
             /\ r[p] \in SUBSET {AsResult(q, v) : v \in found[p]}
             /\ found[p] # {} => r[p] # {}
             /\ (\A v, w \in found[p] : v[1] = w[1] => v = w)
                  => r[p] = {AsResult(q, v) : v \in found[p]}
  <2>1. NearestOf(found[p], Live(heap[p]), q.k, q.dist)
    BY <1>2, SearchedType, SingleSearchProps
  <2>2. IsFiniteSet(found[p]) /\ found[p] \in SUBSET Live(heap[p])
    BY <2>1 DEF NearestOf
  <2>3. \A v \in found[p] : q.dist[v[2]] \in Nat
    BY <2>2, SearchedType
  <2>. QED  BY <1>2, <2>1, <2>2, <2>3, FarthestProps DEF AsResult
<1>4. all \in SUBSET {AsResult(q, v) : v \in Visible}
  <2>1. \A p \in ps : found[p] \in SUBSET Visible
    BY <1>3 DEF NearestOf, Visible
  <2>. QED  BY <1>3, <2>1
<1>5. Visible \in SUBSET (Doc \X (1..added))
  BY SearchedType DEF Visible
<1>6. all \in SUBSET Results
  BY <1>4, <1>5, SearchedType
<1>7. IsFiniteSet(all)
  <2> DEFINE img == {AsResult(q, v) : v \in Visible}
             g == [v \in Visible |-> AsResult(q, v)]
  <2>1. IsFiniteSet(Visible)
    BY <1>5, SearchedType, FS_Subset
  <2>2. g \in Surjection(Visible, img)
    BY DEF Surjection
  <2>3. IsFiniteSet(img)
    <3> HIDE DEF g, img
    <3>. QED  BY <2>1, <2>2, FS_Surjection
  <2>. QED  BY <1>4, <2>3, FS_Subset
<1>8. \A p \in ps : r[p] \in SUBSET all
  OBVIOUS
<1>9. R = KthStat(all, q.k)
  BY <1>1
<1> HIDE DEF all
<1>10. ASSUME NEW p \in ps
       PROVE  /\ found[p] # {} => \E v \in found[p] : AsResult(q, v) \in all
              /\ (\A v, w \in found[p] : v[1] = w[1] => v = w)
                   => \A v \in found[p] : AsResult(q, v) \in all
  BY <1>3, <1>8
<1>11. FromSegments(q, R, all, ps, found)
  BY <1>3, <1>4, <1>6, <1>7, <1>9, <1>10 DEF FromSegments
<1>. QED  BY <1>11

(* The nearest vectors are the answer, when the ids can be told apart.     *)
LEMMA DistinctExact ==
  ASSUME IInv, NEW q \in Queries, NEW R, NEW all, NEW found,
         FromSegments(q, R, all, {p \in Objects : Searched(p)}, found),
         OnePerId \/ q.k = 1
  PROVE  Exact(R, q, Visible)
<1> DEFINE ps == {p \in Objects : Searched(p)}
           ids == {r[2] : r \in R}
           docids == {v[1] : v \in Visible}
<1>1. q.k \in Nat /\ q.k >= 1
  BY SearchedType
<1>2. /\ R \in SUBSET all /\ IsFiniteSet(R) /\ Cardinality(R) \in Nat
      /\ Cardinality(R) <= q.k
      /\ R # all => Cardinality(R) = q.k
      /\ \A r \in R, t \in all \ R : Before(r, t)
  BY <1>1, KthStatProps DEF FromSegments
<1>3. \A p \in ps : NearestOf(found[p], Live(heap[p]), q.k, q.dist)
  BY DEF FromSegments
<1>4. /\ Visible \in SUBSET (Doc \X (1..added)) /\ IsFiniteSet(Visible)
      /\ \A v \in Visible : q.dist[v[2]] \in Nat
      /\ \A p \in ps : Live(heap[p]) \in SUBSET Visible
      /\ \A p \in ps : found[p] \in SUBSET Visible
  <2>1. Visible \in SUBSET (Doc \X (1..added)) /\ \A p \in ps : Live(heap[p]) \in SUBSET Visible
    BY SearchedType DEF Visible
  <2>2. IsFiniteSet(Visible) /\ \A v \in Visible : q.dist[v[2]] \in Nat
    BY <2>1, SearchedType, FS_Subset
  <2>. QED  BY <1>3, <2>1, <2>2 DEF NearestOf
<1>5. \A r \in R : \E v \in Visible : r = AsResult(q, v)
  BY <1>2 DEF FromSegments
<1>6. ASSUME NEW p \in ps
      PROVE  /\ \A v, w \in found[p] : v[1] = w[1] => v = w
             /\ \A v \in found[p] : AsResult(q, v) \in all
  <2>1. CASE OnePerId
    BY <1>4, <2>1 DEF OnePerId, FromSegments
  <2>2. CASE q.k = 1
    <3>1. \A v, w \in found[p] : v = w
      BY <1>3, <2>2, AtMostOne DEF NearestOf
    <3>. QED  BY <3>1 DEF FromSegments
  <2>. QED  BY <2>1, <2>2
<1>7. \A r, t \in R : r[2] = t[2] => r = t
  <2>1. CASE OnePerId
    <3> SUFFICES ASSUME NEW r \in R, NEW t \in R, r[2] = t[2] PROVE r = t
      OBVIOUS
    <3>1. PICK v \in Visible : r = AsResult(q, v)
      BY <1>5
    <3>2. PICK w \in Visible : t = AsResult(q, w)
      BY <1>5
    <3>3. v[1] = w[1]
      BY <3>1, <3>2 DEF AsResult
    <3>4. v = w
      BY <2>1, <3>3 DEF OnePerId
    <3>. QED  BY <3>1, <3>2, <3>4
  <2>2. CASE q.k = 1
    BY <1>2, <2>2, AtMostOne
  <2>. QED  BY <2>1, <2>2
<1>8. IsFiniteSet(ids) /\ Cardinality(ids) = Cardinality(R)
  <2> DEFINE g == [r \in R |-> r[2]]
  <2>1. \A r, t \in R : g[r] = g[t] => r = t
    BY <1>7
  <2>2. ids = {g[r] : r \in R}
    OBVIOUS
  <2> HIDE DEF g, ids
  <2>. QED  BY <1>2, <2>1, <2>2, ImageCard
(* A segment that leaves a live vector out gives k results.                *)
<1>9. ASSUME NEW p \in ps, found[p] # Live(heap[p])
      PROVE  LET F == {AsResult(q, v) : v \in found[p]}
             IN  F \in SUBSET all /\ IsFiniteSet(F) /\ Cardinality(F) = q.k
  <2> DEFINE g == [v \in found[p] |-> AsResult(q, v)]
             F == {AsResult(q, v) : v \in found[p]}
  <2>1. \A v, w \in found[p] : g[v] = g[w] => v = w
    BY <1>6 DEF AsResult
  <2>2. F = {g[v] : v \in found[p]}
    OBVIOUS
  <2>3. F \in SUBSET all
    BY <1>6
  <2>4. IsFiniteSet(found[p]) /\ Cardinality(found[p]) = q.k
    BY <1>3, <1>9 DEF NearestOf
  <2> HIDE DEF g, F
  <2>5. IsFiniteSet(F) /\ Cardinality(F) = q.k
    BY <2>1, <2>2, <2>4, ImageCard
  <2>. QED  BY <2>3, <2>5 DEF F
<1>10. ids \in SUBSET docids
  BY <1>5 DEF AsResult
<1>11. IsFiniteSet(docids)
  <2> DEFINE g == [v \in Visible |-> v[1]]
  <2>1. g \in Surjection(Visible, docids)
    BY DEF Surjection
  <2> HIDE DEF g, docids
  <2>. QED  BY <1>4, <2>1, FS_Surjection
<1>12. ASSUME Cardinality(R) # q.k PROVE ids = docids
  <2>1. R = all
    BY <1>2, <1>12
  <2>2. ASSUME NEW p \in ps PROVE found[p] = Live(heap[p])
    <3> SUFFICES ASSUME found[p] # Live(heap[p]) PROVE FALSE
      OBVIOUS
    <3> DEFINE F == {AsResult(q, v) : v \in found[p]}
    <3>1. F \in SUBSET R /\ Cardinality(F) = q.k
      BY <1>9, <2>1
    <3> HIDE DEF F
    <3>2. q.k <= Cardinality(R)
      BY <1>2, <3>1, SubsetCard
    <3>. QED  BY <1>1, <1>2, <1>12, <3>2
  <2>3. ASSUME NEW v \in Visible PROVE v[1] \in ids
    <3>1. PICK p \in ps : v \in Live(heap[p])
      BY DEF Visible
    <3>2. AsResult(q, v) \in R
      BY <1>6, <2>1, <2>2, <3>1
    <3>. QED  BY <3>2 DEF AsResult
  <2>. QED  BY <1>10, <2>3
<1>13. Cardinality(ids) = IF Cardinality(docids) < q.k THEN Cardinality(docids) ELSE q.k
  <2> HIDE DEF ids, docids
  <2>1. Cardinality(docids) \in Nat /\ Cardinality(ids) <= Cardinality(docids)
    BY <1>10, <1>11, SubsetCard
  <2>2. CASE Cardinality(R) = q.k
    BY <1>1, <1>8, <2>1, <2>2
  <2>3. CASE Cardinality(R) # q.k
    BY <1>1, <1>2, <1>8, <1>12, <2>1, <2>3
  <2>. QED  BY <2>2, <2>3
<1>14. ASSUME NEW v \in Visible, v[1] \notin ids, NEW r \in R
       PROVE  r[1] <= q.dist[v[2]]
  <2>1. PICK p \in ps : v \in Live(heap[p])
    BY DEF Visible
  <2>2. r \in Results /\ r[1] \in Nat /\ q.dist[v[2]] \in Nat
    BY <1>2, <1>4 DEF FromSegments, Results
  <2>3. CASE v \in found[p]
    <3>1. AsResult(q, v) \in all /\ AsResult(q, v) \notin R
      BY <1>6, <1>14, <2>3 DEF AsResult
    <3>2. Before(r, AsResult(q, v))
      BY <1>2, <3>1
    <3>. QED  BY <2>2, <3>2 DEF Before, AsResult
  <2>4. CASE v \notin found[p]
    <3> SUFFICES ASSUME q.dist[v[2]] < r[1] PROVE FALSE
      BY <2>2
    <3> DEFINE F == {AsResult(q, w) : w \in found[p]}
               B == {t \in all : Before(t, r)}
    <3>1. F \in SUBSET all /\ Cardinality(F) = q.k
      BY <1>9, <2>1, <2>4
    <3>2. ASSUME NEW w \in found[p] PROVE Before(AsResult(q, w), r)
      <4>1. q.dist[w[2]] \in Nat /\ q.dist[w[2]] <= q.dist[v[2]]
        BY <1>3, <1>4, <2>1, <2>4 DEF NearestOf
      <4>2. q.dist[w[2]] < r[1]
        BY <2>2, <4>1
      <4>. QED  BY <4>2 DEF Before, AsResult
    <3>3. F \in SUBSET B
      BY <3>1, <3>2
    <3>4. IsFiniteSet(B) /\ B \in SUBSET all
      BY FS_Subset DEF FromSegments
    <3>5. Cardinality(B) < q.k
      BY DEF FromSegments, KthStat
    <3> HIDE DEF F, B
    <3>6. q.k <= Cardinality(B) /\ Cardinality(B) \in Nat
      BY <3>1, <3>3, <3>4, SubsetCard
    <3>. QED  BY <1>1, <3>5, <3>6
  <2>. QED  BY <2>3, <2>4
<1>15. \A r \in R : \E v \in Visible : v[1] = r[2] /\ q.dist[v[2]] = r[1]
  BY <1>5 DEF AsResult
<1>. QED  BY <1>8, <1>13, <1>14, <1>15 DEF Exact

(* What the invariant of the index says is all that a search needs.        *)
LEMMA SearchIsExact == ASSUME IInv PROVE SearchExact
<1> SUFFICES ASSUME NEW q \in Queries, NEW R \in search(q)
             PROVE  /\ Cardinality(R) <= q.k
                    /\ \A r \in R : \E v \in Visible : v[1] = r[2] /\ q.dist[v[2]] = r[1]
                    /\ R = {} => Visible = {}
                    /\ OnePerId \/ q.k = 1 => Exact(R, q, Visible)
  BY DEF SearchExact
<1> DEFINE ps == {p \in Objects : Searched(p)}
<1>1. PICK all, found : FromSegments(q, R, all, ps, found)
  BY SearchSteps
<1>2. q.k \in Nat /\ q.k >= 1
  BY SearchedType
<1>3. /\ R \in SUBSET all /\ Cardinality(R) <= q.k /\ Cardinality(R) \in Nat
      /\ R # all => Cardinality(R) = q.k
  BY <1>1, <1>2, KthStatProps DEF FromSegments
<1>4. \A r \in R : \E v \in Visible : v[1] = r[2] /\ q.dist[v[2]] = r[1]
  BY <1>1, <1>3 DEF FromSegments, AsResult
<1>5. ASSUME R = {} PROVE Visible = {}
  <2>1. Cardinality({}) = 0
    BY FS_EmptySet
  <2>2. all = {}
    BY <1>2, <1>3, <1>5, <2>1
  <2>3. ASSUME NEW p \in ps PROVE Live(heap[p]) = {}
    <3>1. found[p] = {} /\ NearestOf(found[p], Live(heap[p]), q.k, q.dist)
      BY <1>1, <2>2 DEF FromSegments
    <3>. QED  BY <1>2, <2>1, <3>1 DEF NearestOf
  <2>. QED  BY <2>3 DEF Visible
<1>6. OnePerId \/ q.k = 1 => Exact(R, q, Visible)
  BY <1>1, DistinctExact
<1>. QED  BY <1>3, <1>4, <1>5, <1>6

(* Index::search returns at most k stored ids at true distances, comes     *)
(* back empty only if nothing is stored and, for k = 1 or while no id has  *)
(* two vectors, returns exactly the k nearest: in every state the index    *)
(* can reach by adds, erases and merges, for any distances and any way     *)
(* faiss breaks ties.                                                      *)
THEOREM SearchesAreExact == Spec => []SearchExact
<1>1. IInv => SearchExact
  BY SearchIsExact
<1>. QED  BY <1>1, Invariance, PTL
=============================================================================
