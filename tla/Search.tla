------------------------------- MODULE Search -------------------------------
(***************************************************************************)
(* Top-k search: Index::search (index/include/Index.h) over searchQuery of *)
(* each segment (index/include/Segment.h) over FaissIndex::single_search   *)
(* (index/baselines/faiss.h), for a flat (exact) faiss index.              *)
(*                                                                         *)
(* search holds segments_m_ shared, so it sees one state of the Index: the *)
(* operators below are evaluated in every state in which it can get the    *)
(* lock.  A query is the distance of each vector received so far, and k.   *)
(* Where equal distances leave a choice to faiss, or to positions inside a *)
(* segment that Segment does not keep, the operators return every outcome. *)
(* Document ids are ordered by <.                                          *)
(***************************************************************************)
EXTENDS Index

CONSTANTS
  Dist,  \* distances
  MaxK   \* bound: results asked for

ASSUME SearchAssumption == Dist \subseteq Nat /\ MaxK \in Nat /\ Doc \subseteq Nat

Queries == [dist : [1..added -> Dist], k : 1..MaxK]

(* The sets of n of the vectors V that are nearest, or all if there are    *)
(* not as many: what the search of a flat faiss index may return.          *)
Least(V, n, dist) ==
  {T \in SUBSET V :
     /\ Cardinality(T) = n \/ (Cardinality(V) < n /\ T = V)
     /\ \A t \in T, v \in V \ T : dist[t[2]] <= dist[v[2]]}

(* Mutant: the erased positions get no extra room.                         *)
single_search_k(s, q) ==
  UNION {Least({v \in near : v[2] \notin s.erased_}, q.k, q.dist) :
           near \in Least(s.inv_ids_, q.k, q.dist)}

(* The k + erased_.size() nearest positions, without the erased ones, cut  *)
(* to the k nearest.                                                       *)
single_search(s, q) ==
  UNION {Least({v \in near : v[2] \notin s.erased_}, q.k, q.dist) :
           near \in Least(s.inv_ids_, q.k + Cardinality(s.erased_), q.dist)}

(* Results in order of distance, assigned to a map: of several vectors of  *)
(* one id the farthest stays.  A result is a pair <<distance, id>>.        *)
Farthest(T, q) ==
  {<<q.dist[v[2]], v[1]>> : v \in {u \in T : \A w \in T :
                                     w[1] = u[1] => q.dist[w[2]] <= q.dist[u[2]]}}

searchQuery(s, q) == {Farthest(T, q) : T \in single_search(s, q)}

(* operator< of SearchResult.                                              *)
Before(r, t) == r[1] < t[1] \/ (r[1] = t[1] /\ r[2] < t[2])

(* What the bounded set kth_stat holds once the results R went through it. *)
KthStat(R, k) == {r \in R : Cardinality({t \in R : Before(t, r)}) < k}

(* A segment with two entries in segments_ gives the same results twice.   *)
search(q) ==
  LET ps == {p \in Objects : Searched(p)}
  IN  {KthStat(UNION {r[p] : p \in ps}, q.k) :
         r \in {f \in [ps -> UNION {searchQuery(heap[p], q) : p \in ps}] :
                  \A p \in ps : f[p] \in searchQuery(heap[p], q)}}
-----------------------------------------------------------------------------
(* R is a correct answer to q over the vectors V: as many ids as there are *)
(* up to k, each at the distance of one of its vectors, and no vector of   *)
(* another id is nearer than a result.                                     *)
Exact(R, q, V) ==
  LET ids == {r[2] : r \in R}
      all == {v[1] : v \in V}
  IN /\ Cardinality(ids) = IF Cardinality(all) < q.k THEN Cardinality(all) ELSE q.k
     /\ Cardinality(R) = Cardinality(ids)
     /\ \A r \in R : \E v \in V : v[1] = r[2] /\ q.dist[v[2]] = r[1]
     /\ \A v \in V : v[1] \in ids \/ \A r \in R : r[1] <= q.dist[v[2]]

(* search can have the lock.  What it sees does not depend on callbacks    *)
(* still posted, and every state of the index is one without any, too.     *)
CanSearch == pc = "idle" /\ posted = <<>>

OnePerId == \A v, w \in Visible : v[1] = w[1] => v = w

(* A search returns at most k ids that are stored, each at the distance of *)
(* one of its vectors, and comes back empty only if nothing is stored.     *)
(* Asked for one result it returns the nearest and, while no id has two    *)
(* vectors, it returns the k nearest, however they are spread over         *)
(* segments and whatever was erased or merged before (Index::search,       *)
(* searchQuery, single_search).                                            *)
SearchExact ==
  CanSearch => \A q \in Queries : \A R \in search(q) :
    /\ Cardinality(R) <= q.k
    /\ \A r \in R : \E v \in Visible : v[1] = r[2] /\ q.dist[v[2]] = r[1]
    /\ R = {} => Visible = {}
    /\ OnePerId \/ q.k = 1 => Exact(R, q, Visible)
=============================================================================
