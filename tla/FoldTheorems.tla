---------------------------- MODULE FoldTheorems ----------------------------
(***************************************************************************)
(* Lemmas for modules that fold over data.  The library defines a fold by  *)
(* a recursive function; here it is shown to exist and to satisfy its      *)
(* equation, by a least counterexample.                                    *)
(***************************************************************************)
EXTENDS Integers, FiniteSets, Sequences, SequencesExt, FiniteSetTheorems, SequenceTheorems, TLAPS

(* A set of numbers has a least element, if it has any.                    *)
LEMMA LeastNumber ==
  ASSUME NEW T \in SUBSET Nat, T # {}
  PROVE  \E x \in T : \A y \in T : x <= y
<1>1. PICK x \in T : \A y \in T : ~ (<<y, x>> \in OpToRel(<, Nat))
  BY NatLessThanWellFounded, WFMin
<1>2. ASSUME NEW y \in T PROVE x <= y
  <2>1. x \in Nat /\ y \in Nat /\ ~(y < x)
    BY <1>1 DEF OpToRel
  <2>. QED  BY <2>1
<1>. QED  BY <1>2

(* A set of numbers that holds 0 and, with each number below n, the next,  *)
(* holds n.                                                                *)
LEMMA Climb ==
  ASSUME NEW n \in Nat, NEW P, 0 \in P, \A k \in 1..n : k - 1 \in P => k \in P
  PROVE  n \in P
<1> DEFINE Q == {k \in 0..n : k \notin P}
<1>1. CASE Q # {}
  <2>1. Q \in SUBSET Nat
    OBVIOUS
  <2>2. PICK x \in Q : \A y \in Q : x <= y
    BY <1>1, <2>1, LeastNumber
  <2>3. x \in 1..n
    BY <2>2
  <2>4. x - 1 \in 0..n /\ x - 1 \notin Q
    BY <2>2, <2>3
  <2>. QED  BY <2>2, <2>3, <2>4
<1>. QED  BY <1>1

(* The recursion of MapThenFoldSet has a solution: c[T] is taken out of T, *)
(* and f[x][y] folds x into the value y of the rest.                       *)
FoldEquation(g, S, e, c, f) ==
  \A T \in SUBSET S : g[T] = IF T = {} THEN e ELSE f[c[T]][g[T \ {c[T]}]]

FoldsOver(S, V, e, c, f) ==
  /\ IsFiniteSet(S) /\ e \in V
  /\ \A T \in SUBSET S : T # {} => c[T] \in T
  /\ \A x \in S, y \in V : f[x][y] \in V

(* Such a fold exists, by induction on the size of the set.                *)
LEMMA FoldExists ==
  ASSUME NEW S, NEW V, NEW e, NEW c, NEW f, FoldsOver(S, V, e, c, f)
  PROVE  \E g \in [SUBSET S -> V] : FoldEquation(g, S, e, c, f)
<1>a. /\ IsFiniteSet(S) /\ e \in V
      /\ \A T \in SUBSET S : T # {} => c[T] \in T
      /\ \A x \in S, y \in V : f[x][y] \in V
  BY DEF FoldsOver
<1> USE <1>a
<1> DEFINE Body(g, T) == IF T = {} THEN e ELSE f[c[T]][g[T \ {c[T]}]]
           Upto(g, m) == \A T \in SUBSET S : Cardinality(T) <= m => g[T] = Body(g, T)
           P == {m \in Nat : \E g \in [SUBSET S -> V] : Upto(g, m)}
<1>1. \A T \in SUBSET S : IsFiniteSet(T) /\ Cardinality(T) \in Nat /\ Cardinality(T) <= Cardinality(S)
  BY FS_Subset, FS_CardinalityType
<1>2. ASSUME NEW T \in SUBSET S, T # {}
      PROVE  /\ c[T] \in S /\ T \ {c[T]} \in SUBSET S
             /\ Cardinality(T \ {c[T]}) = Cardinality(T) - 1
  BY <1>1, <1>2, FS_RemoveElement
<1>3. ASSUME NEW g \in [SUBSET S -> V], NEW T \in SUBSET S
      PROVE  Body(g, T) \in V
  BY <1>2
<1>4. 0 \in P
  <2> DEFINE g0 == [T \in SUBSET S |-> e]
  <2>1. ASSUME NEW T \in SUBSET S, Cardinality(T) <= 0 PROVE g0[T] = Body(g0, T)
    <3>1. Cardinality(T) = 0
      BY <1>1, <2>1
    <3>2. T = {}
      BY <1>1, <3>1, FS_EmptySet
    <3>. QED  BY <3>2
  <2>2. g0 \in [SUBSET S -> V]
    OBVIOUS
  <2>3. Upto(g0, 0)
    BY <2>1
  <2>. QED  BY <2>2, <2>3
<1> DEFINE N == Cardinality(S)
<1>5. N \in Nat
  BY <1>1
<1>6. ASSUME NEW m \in 1..N, m - 1 \in P PROVE m \in P
  <2>1. PICK g \in [SUBSET S -> V] : Upto(g, m - 1)
    BY <1>6
  <2> DEFINE h == [T \in SUBSET S |-> Body(g, T)]
  <2>2. h \in [SUBSET S -> V]
    BY <1>3
  <2>3. ASSUME NEW T \in SUBSET S, Cardinality(T) <= m PROVE h[T] = Body(h, T)
    <3>1. CASE T = {}
      BY <3>1
    <3>2. CASE T # {}
      <4> DEFINE U == T \ {c[T]}
      <4>1. U \in SUBSET S /\ Cardinality(U) <= m - 1
        BY <1>1, <1>2, <1>5, <2>3, <3>2
      <4>2. g[U] = Body(g, U)
        BY <2>1, <4>1
      <4>3. h[U] = g[U]
        BY <4>1, <4>2
      <4>. QED  BY <3>2, <4>3
    <3>. QED  BY <3>1, <3>2
  <2>4. Upto(h, m)
    BY <2>3
  <2>5. m \in Nat
    BY <1>5
  <2>. QED  BY <2>2, <2>4, <2>5
<1> HIDE DEF P
<1>7. N \in P
  BY <1>4, <1>5, <1>6, Climb
<1> USE DEF P
<1>8. PICK g \in [SUBSET S -> V] : Upto(g, N)
  BY <1>7
<1>9. FoldEquation(g, S, e, c, f)
  BY <1>1, <1>8 DEF FoldEquation
<1>. QED  BY <1>9

(* The greatest number of a set, as FoldLeft takes it out.                 *)
LEMMA MaxFacts ==
  ASSUME NEW n \in Nat
  PROVE  /\ \A T \in SUBSET (1..n) : T # {} => Max(T) \in T
         /\ \A k \in 1..n : /\ Max(1..k) = k /\ 1..k # {} /\ 1..k \in SUBSET (1..n)
                            /\ (1..k) \ {k} = 1..(k - 1)
         /\ 1..0 = {}
<1>1. ASSUME NEW T \in SUBSET (1..n), T # {}
      PROVE  Max(T) \in T
  <2> DEFINE D == {m \in Nat : \E y \in T : m = n - y}
  <2>1. \A y \in T : y \in Nat /\ n - y \in D
    OBVIOUS
  <2>2. D \in SUBSET Nat /\ D # {}
    BY <1>1, <2>1
  <2> HIDE DEF D
  <2>3. PICK z \in D : \A y \in D : z <= y
    BY <2>2, LeastNumber
  <2>4. PICK x \in T : z = n - x
    BY <2>3 DEF D
  <2>5. \A y \in T : x >= y
    BY <2>1, <2>3, <2>4
  <2>. QED  BY <2>4, <2>5 DEF Max
<1>2. ASSUME NEW k \in 1..n
      PROVE  Max(1..k) = k
  <2>1. k \in 1..k /\ \A y \in 1..k : k >= y
    OBVIOUS
  <2>2. \A x \in 1..k : (\A y \in 1..k : x >= y) => x = k
    OBVIOUS
  <2>. QED  BY <2>1, <2>2 DEF Max
<1>. QED  BY <1>1, <1>2

(* A fold over 1..n from the left, as FoldLeft does it.                    *)
FoldLeftEquation(g, n, e, f) ==
  \A T \in SUBSET (1..n) : g[T] = IF T = {} THEN e ELSE f[Max(T)][g[T \ {Max(T)}]]

(* The special case of FoldExists that takes out the largest number.       *)
LEMMA FoldLeftExists ==
  ASSUME NEW n \in Nat, NEW V, NEW e \in V,
         NEW f, \A x \in 1..n, y \in V : f[x][y] \in V
  PROVE  \E g \in [SUBSET (1..n) -> V] : FoldLeftEquation(g, n, e, f)
<1> DEFINE c == [T \in SUBSET (1..n) |-> Max(T)]
<1>1. \A T \in SUBSET (1..n) : c[T] = Max(T) /\ (T # {} => c[T] \in T)
  BY MaxFacts
<1>2. IsFiniteSet(1..n)
  BY FS_Interval
<1> HIDE DEF c
<1>3. PICK g \in [SUBSET (1..n) -> V] : FoldEquation(g, 1..n, e, c, f)
  <2>1. FoldsOver(1..n, V, e, c, f)
    BY <1>1, <1>2 DEF FoldsOver
  <2>. QED  BY <2>1, FoldExists
<1>4. FoldLeftEquation(g, n, e, f)
  BY <1>1, <1>3 DEF FoldEquation, FoldLeftEquation
<1>. QED  BY <1>4

(* Partial maps.                                                           *)
Maps(K, W) == UNION {[D -> W] : D \in SUBSET K}

(* What a map consists of.                                                 *)
LEMMA MapFacts ==
  ASSUME NEW K, NEW W, NEW map \in Maps(K, W)
  PROVE  /\ DOMAIN map \in SUBSET K /\ map \in [DOMAIN map -> W]
         /\ \A k \in DOMAIN map : map[k] \in W
BY DEF Maps

(* The order of an unordered_map: every element once.                      *)
LEMMA Permutes ==
  ASSUME NEW X, IsFiniteSet(X), NEW ps \in SetToSeqs(X)
  PROVE  /\ Cardinality(X) \in Nat /\ ps \in [1..Cardinality(X) -> X]
         /\ Len(ps) = Cardinality(X) /\ DOMAIN ps = 1..Cardinality(X)
         /\ \A j, k \in 1..Cardinality(X) : ps[j] = ps[k] => j = k
         /\ \A x \in X : \E k \in 1..Cardinality(X) : ps[k] = x
<1> DEFINE n == Cardinality(X)
<1>1. n \in Nat
  BY FS_CardinalityType
<1>2. ps \in [1..n -> X] /\ \A j, k \in 1..n : ps[j] = ps[k] => j = k
  BY DEF SetToSeqs
<1>3. IsFiniteSet(1..n) /\ Cardinality(1..n) = n
  BY <1>1, FS_Interval
<1>4. ps \in Injection(1..n, X)
  BY <1>2 DEF Injection, IsInjective
<1>5. ps \in Surjection(1..n, X)
  BY <1>3, <1>4, FS_Injection
<1>6. \A x \in X : \E k \in 1..n : ps[k] = x
  BY <1>5 DEF Surjection
<1> HIDE DEF n
<1>7. Len(ps) = n /\ DOMAIN ps = 1..n
  BY <1>1, <1>2
<1>. QED  BY <1>1, <1>2, <1>6, <1>7 DEF n
=============================================================================
