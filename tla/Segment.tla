------------------------------- MODULE Segment -------------------------------
(***************************************************************************)
(* The contents of one segment: a Segment (index/include/Segment.h) around *)
(* a FaissIndex (index/baselines/faiss.h), as operators on records.        *)
(*                                                                         *)
(* Vectors are numbered 1, 2, ... in the order the whole index receives    *)
(* them, and a vector keeps its number when a merge copies it, so the      *)
(* number stands for the faiss position (idx_t) it has inside a segment.   *)
(* That renaming is one-to-one as long as no segment holds a vector twice: *)
(* Index states and checks that (LevelsDisjoint).  The floats themselves   *)
(* play no part here.                                                      *)
(***************************************************************************)
EXTENDS Integers, Sequences, FiniteSets

CONSTANTS
  Doc,      \* document ids (IDType)
  SizeMod   \* size_t arithmetic is modulo SizeMod (2^64 in the code)

ASSUME DocAssumption == IsFiniteSet(Doc)
ASSUME SizeModAssumption == SizeMod \in Nat \ {0}

(* ids_ is a map id -> position; 0 marks an id that is not a key of it.    *)
(* inv_ids_ is the map position -> id, as a set of pairs <<id, position>>. *)
Segments == [seg_id : Nat, ids_ : [Doc -> Nat],
             inv_ids_ : SUBSET (Doc \X Nat), erased_ : SUBSET Nat]

NewSegment(id) == [seg_id |-> id, ids_ |-> [d \in Doc |-> 0],
                   inv_ids_ |-> {}, erased_ |-> {}]

(* What a search of the segment can return.                                *)
Live(s) == {v \in s.inv_ids_ : v[2] \notin s.erased_}

Numbers(s) == {v[2] : v \in s.inv_ids_}
Keys(s) == {d \in Doc : s.ids_[d] # 0}

(* ids_.size() - erased_.size(), on size_t.                                *)
size(s) == (Cardinality(Keys(s)) - Cardinality(s.erased_)) % SizeMod

(* The k-th id of the batch gets number base + k; a repeated id keeps its  *)
(* last number in ids_, and all of them in inv_ids_.                       *)
Batch(base, ds) == {<<ds[k], base + k>> : k \in DOMAIN ds}

LastIn(ds, d) == CHOOSE k \in DOMAIN ds :
                   ds[k] = d /\ \A l \in DOMAIN ds : ds[l] = d => l <= k

add_batch(s, base, ds) ==
  [s EXCEPT !.ids_ = [d \in Doc |-> IF \E k \in DOMAIN ds : ds[k] = d
                                    THEN base + LastIn(ds, d) ELSE @[d]],
            !.inv_ids_ = @ \cup Batch(base, ds)]

(* Mutant: the position -1 that stands for "none" is marked.               *)
EraseNone(s, ds) ==
  [s EXCEPT !.erased_ = @ \cup {IF d \in Keys(s) THEN s.ids_[d] ELSE -1 : d \in ds}]

(* Only the position ids_ has for an id is marked.                         *)
erase_batch(s, ds) ==
  [s EXCEPT !.erased_ = @ \cup {s.ids_[d] : d \in ds \cap Keys(s)}]

(* The invariant of the class: inv_ids_ is a map, ids_ names positions of  *)
(* inv_ids_ that hold the id, and only positions in use are marked erased. *)
Consistent(s) == /\ \A v, w \in s.inv_ids_ : v[2] = w[2] => v = w
                 /\ \A d \in Keys(s) : <<d, s.ids_[d]>> \in s.inv_ids_
                 /\ s.erased_ \subseteq Numbers(s)

(* The segments that adding the vectors vs to s can leave: they are added  *)
(* in the order of an unordered_map, so if vs holds several vectors of one *)
(* id, any of them may be the last.                                        *)
Absorb(s, vs) ==
  LET ds == {v[1] : v \in vs}
  IN {[s EXCEPT !.ids_ = [d \in Doc |-> IF d \in ds THEN last[d] ELSE @[d]],
                !.inv_ids_ = @ \cup vs] :
        last \in {f \in [ds -> {v[2] : v \in vs}] : \A d \in ds : <<d, f[d]>> \in vs}}

(* Mutants: the erased vectors of other are copied too; the ids s knows    *)
(* already are skipped.                                                    *)
MergeErasedToo(s, other) == Absorb(s, other.inv_ids_)
MergeNewIdsOnly(s, other) == Absorb(s, {v \in Live(other) : v[1] \notin Keys(s)})

(* Only what other has not erased is copied.                               *)
merge_from_other(s, other) == Absorb(s, Live(other))
=============================================================================
