----------------------------- MODULE FaissIndex -----------------------------
(***************************************************************************)
(* Segments at the level of positions: FaissIndex (index/baselines/        *)
(* faiss.h) with next_id and the faiss index it fills, and the file format *)
(* of a segment, SerializeSegment and DeserealizeSegment (index/baselines/ *)
(* IndexFactory.h, io.h).                                                  *)
(*                                                                         *)
(* This is what the module Segment abstracts from: there a vector keeps    *)
(* one number for good; here each segment numbers its vectors itself, from *)
(* 0, and a merge numbers the vectors it copies anew, in the order of an   *)
(* unordered_map.                                                          *)
(***************************************************************************)
EXTENDS Integers, Sequences, SequencesExt

CONSTANTS
  Doc,       \* document ids
  MaxAdds,   \* bound: vectors received
  MaxBatch,  \* bound: vectors of one call
  None       \* no file, no copy

ASSUME FaissAssumption == MaxAdds \in Nat /\ MaxBatch \in Nat /\ None \notin Doc

VARIABLES
  a, b,      \* two segments
  received,  \* vectors received so far; the n-th is called n
  file,      \* the words of a serialized segment
  saved,     \* history: the segment as it was serialized
  copy       \* the segment read back

vars == <<a, b, received, file, saved, copy>>

SegmentType == [kFaissFlat |-> 0, kFaissHNSW |-> 1]

(* index_[p + 1] is the vector at position p; ids_ and inv_ids_ are maps.  *)
EmptySegment(type, id) ==
  [seg_type |-> type, seg_id |-> id, index_ |-> <<>>, next_id |-> 0,
   ids_ |-> <<>>, inv_ids_ |-> <<>>, erased_ |-> {}]

Put(map, k, v) == [x \in DOMAIN map \cup {k} |-> IF x = k THEN v ELSE map[x]]

add_one(s, v, d) ==
  [s EXCEPT !.index_ = Append(@, v), !.ids_ = Put(@, d, s.next_id),
            !.inv_ids_ = Put(@, s.next_id, d), !.next_id = @ + 1]

(* A batch is a sequence of pairs <<vector, id>>.                          *)
add_batch(s, batch) == FoldLeft(LAMBDA t, x : add_one(t, x[1], x[2]), s, batch)

(* Mutant: the oldest position of the id is marked.                        *)
erase_batch_first(s, ds) ==
  [s EXCEPT !.erased_ = @ \cup {p \in DOMAIN s.inv_ids_ : s.inv_ids_[p] \in ds /\
                                  \A q \in DOMAIN s.inv_ids_ :
                                    s.inv_ids_[q] = s.inv_ids_[p] => p <= q}]

erase_batch(s, ds) ==
  [s EXCEPT !.erased_ = @ \cup {s.ids_[d] : d \in ds \cap DOMAIN s.ids_}]

(* reconstruct_batch and add_batch of the positions of other that are not  *)
(* erased, in any order.                                                   *)
merge_from_other(s, other) ==
  {add_batch(s, [n \in DOMAIN ps |->
                   <<other.index_[ps[n] + 1], other.inv_ids_[ps[n]]>>]) :
     ps \in SetToSeqs(DOMAIN other.inv_ids_ \ other.erased_)}
-----------------------------------------------------------------------------
(* writeBinary of a map: its size, then key and value of each entry, in    *)
(* any order; of a set: its size and its members.                          *)
WriteMap(map) ==
  {<<Len(ks)>> \o FlattenSeq([n \in DOMAIN ks |-> <<ks[n], map[ks[n]]>>]) :
     ks \in SetToSeqs(DOMAIN map)}

WriteSet(set) == {<<Len(ks)>> \o ks : ks \in SetToSeqs(set)}

(* Mutant: inv_ids_ before ids_.                                           *)
SerializeSwapped(s) ==
  {<<s.seg_type, s.index_, s.next_id>> \o i \o m \o e \o <<s.seg_id>> :
     m \in WriteMap(s.ids_), i \in WriteMap(s.inv_ids_), e \in WriteSet(s.erased_)}

(* The type of the segment, the faiss index (one word here), the fields in *)
(* this order, and the id of the segment.                                  *)
SerializeSegment(s) ==
  {<<s.seg_type, s.index_, s.next_id>> \o m \o i \o e \o <<s.seg_id>> :
     m \in WriteMap(s.ids_), i \in WriteMap(s.inv_ids_), e \in WriteSet(s.erased_)}

(* readBinary of n entries from word at on, assigned one after the other.  *)
ReadMap(f, at, n) ==
  FoldLeft(LAMBDA map, k : Put(map, f[at + 2 * k - 2], f[at + 2 * k - 1]),
           <<>>, [k \in 1..n |-> k])

(* An unknown type gives a null pointer.                                   *)
DeserealizeSegment(f) ==
  LET inv_at == 5 + 2 * f[4]
      erased_at == inv_at + 1 + 2 * f[inv_at]
  IN IF f[1] \notin {SegmentType.kFaissFlat, SegmentType.kFaissHNSW} THEN None
     ELSE [seg_type |-> f[1], index_ |-> f[2], next_id |-> f[3],
           ids_ |-> ReadMap(f, 5, f[4]),
           inv_ids_ |-> ReadMap(f, inv_at + 1, f[inv_at]),
           erased_ |-> {f[erased_at + k] : k \in 1..f[erased_at]},
           seg_id |-> f[erased_at + f[erased_at] + 1]]
-----------------------------------------------------------------------------
Init == /\ \E t \in DOMAIN SegmentType : /\ a = EmptySegment(SegmentType[t], 1)
                                         /\ b = EmptySegment(SegmentType[t], 2)
        /\ received = 0
        /\ file = None /\ saved = None /\ copy = None

Numbered(ds) == [k \in DOMAIN ds |-> <<received + k, ds[k]>>]

Calls == UNION {[1..n -> Doc] : n \in 1..MaxBatch}

AddTo(ds) ==
  /\ received + Len(ds) <= MaxAdds
  /\ received' = received + Len(ds)
  /\ \/ a' = add_batch(a, Numbered(ds)) /\ UNCHANGED b
     \/ b' = add_batch(b, Numbered(ds)) /\ UNCHANGED a
  /\ UNCHANGED <<file, saved, copy>>

Erase(ds) ==
  /\ a' = erase_batch(a, ds) /\ b' = erase_batch(b, ds)
  /\ UNCHANGED <<received, file, saved, copy>>

(* The absorbed segment is given up; a new one takes its place.            *)
Merge ==
  /\ b.next_id > 0
  /\ a' \in merge_from_other(a, b) /\ b' = EmptySegment(b.seg_type, b.seg_id)
  /\ UNCHANGED <<received, file, saved, copy>>

Save ==
  /\ file = None
  /\ file' \in SerializeSegment(a) /\ saved' = a
  /\ UNCHANGED <<a, b, received, copy>>

Load ==
  /\ file # None /\ copy = None
  /\ copy' = DeserealizeSegment(file)
  /\ UNCHANGED <<a, b, received, file, saved>>

Next == \/ \E ds \in Calls : AddTo(ds)
        \/ \E ds \in (SUBSET Doc) \ {{}} : Erase(ds)
        \/ Merge \/ Save \/ Load

Spec == Init /\ [][Next]_vars
-----------------------------------------------------------------------------
(* A segment of positions as a segment of vector numbers.                  *)
Abstract(s) ==
  LET num(p) == s.index_[p + 1]
  IN [seg_id |-> s.seg_id,
      ids_ |-> [d \in Doc |-> IF d \in DOMAIN s.ids_ THEN num(s.ids_[d]) ELSE 0],
      inv_ids_ |-> {<<s.inv_ids_[p], num(p)>> : p \in DOMAIN s.inv_ids_},
      erased_ |-> {num(p) : p \in s.erased_}]

Seg == INSTANCE Segment WITH SizeMod <- 64

SegmentStep ==
  LET A == Abstract(a)  A1 == Abstract(a')  B == Abstract(b)  B1 == Abstract(b')
  IN \/ \E ds \in Calls : /\ received' = received + Len(ds)
                          /\ \/ A1 = Seg!add_batch(A, received, ds) /\ B1 = B
                             \/ B1 = Seg!add_batch(B, received, ds) /\ A1 = A
     \/ \E ds \in SUBSET Doc : /\ A1 = Seg!erase_batch(A, ds)
                               /\ B1 = Seg!erase_batch(B, ds)
     \/ A1 \in Seg!merge_from_other(A, B) /\ B1 = Seg!NewSegment(2)

(* Each operation of FaissIndex does to the numbered vectors what Segment  *)
(* says: positions and the order of a hash map cannot be told apart.       *)
ImplementsSegment == [][SegmentStep]_vars

(* What a searcher reads back is the segment the writer serialized, with   *)
(* its erased positions, whatever order the maps were written in.          *)
RoundTrip == copy # None => copy = saved
=============================================================================
