-------------------------------- MODULE Index --------------------------------
(***************************************************************************)
(* The segmented index of the library, in the role the Writer gives it:    *)
(* Index::add and Index::erase (index/include/Index.h), SegmentStorage     *)
(* with its levelled merge (index/include/IIndex.h), and the client of the *)
(* update callback, which handles each call later, on another thread.      *)
(*                                                                         *)
(* add holds segments_m_ for its whole duration.  Its loops are unrolled   *)
(* into steps (pc # "idle") during which nothing else is enabled: no other *)
(* operation of the index, and not the callback's client, which needs the  *)
(* lock the caller of add holds (runner_lock in app/src/Writer.cpp).       *)
(***************************************************************************)
EXTENDS Segment

CONSTANTS
  Threshold,    \* segmentThreshold_
  MergeAmount,  \* the argument of storage_.merge in add (200 in the code)
  EnableMerge,  \* enable_merge_
  Overwrite,    \* may a client add an id that a search can already return?
  MaxBatch,     \* bound: ids per call of add
  MaxAdds       \* bound: vectors added in a behaviour

ASSUME IndexAssumption ==
  /\ Threshold \in Nat \ {0} /\ MergeAmount \in Nat \ {0} /\ MaxBatch \in Nat
  /\ MaxAdds \in Nat /\ EnableMerge \in BOOLEAN /\ Overwrite \in BOOLEAN

VARIABLES
  heap,       \* the Segment objects; a shared_ptr is a position of heap
  last_,      \* the open segment
  segments_,  \* segments_[p]: how many entries of the vector point to p
  levels,     \* storage_.levels, lowest first; null slots are left out
  rand,       \* calls of rand() so far; the n-th value is named n
  added,      \* vectors received so far
  pc,         \* "idle", or where add is: "add", "merge"
  todo,       \* add: ids still to add
  erased,     \* the local vectors erased (segment ids) and
  inserted,   \*   inserted (objects) of add and merge
  i, j,       \* merge: level and slot
  amount,     \* merge: what is left of the size budget
  posted,     \* callback invocations whose client has not run yet, oldest first
  published,  \* segment ids the client has after handling the rest
  docs        \* history: what was added and whose id was not erased since

store == <<heap, last_, segments_, levels, rand>>
locals == <<todo, erased, inserted, i, j, amount>>
client == <<posted, published>>
vars == <<store, added, pc, locals, client, docs>>

Objects == DOMAIN heap
Searched(p) == p = last_ \/ segments_[p] > 0

(* What Index::search looks at: every entry of segments_, and last_.       *)
Visible == UNION {Live(heap[p]) : p \in {q \in Objects : Searched(q)}}

LevelSegments == {p \in Objects : \E l \in DOMAIN levels :
                    \E k \in DOMAIN levels[l] : levels[l][k] = p}
-----------------------------------------------------------------------------
(* The slot SegmentStorage::add picks for a segment of size n, from 1: the *)
(* number of turns of its loop.                                            *)
LevelFor(n) == LET up == Cardinality({e \in 0..n : 2^e < n})
               IN  IF up = 0 THEN 1 ELSE up

Level(ls, l) == IF l <= Len(ls) THEN ls[l] ELSE <<>>

(* push_back on a level, creating the levels up to it.                     *)
PushAt(ls, l, p) ==
  [m \in 1..(IF l > Len(ls) THEN l ELSE Len(ls)) |->
     IF m = l THEN Append(Level(ls, m), p) ELSE Level(ls, m)]

(* Mutant: levels[i][j] is not reset.                                      *)
RemoveSecond(s, k) ==
  [m \in 1..(Len(s) - 1) |-> IF m <= k THEN s[m] ELSE s[m + 1]]

RemovePair(s, k) ==
  [m \in 1..(Len(s) - 2) |-> IF m < k THEN s[m] ELSE s[m + 2]]

(* Mutant: the client handles the newest invocation first.                 *)
CallbackNewestFirst(er, ins) ==
  posted' = <<[erased |-> er, inserted |-> ins]>> \o posted

(* callback_.value()(er, ins): the client gets the segment ids to erase by *)
(* value and the inserted segments as pointers.                            *)
Invocations == [erased : SUBSET Nat, inserted : SUBSET Objects]

Callback(er, ins) ==
  posted' = Append(posted, [erased |-> er, inserted |-> ins])
-----------------------------------------------------------------------------
Init ==
  /\ heap = <<NewSegment(1)>> /\ last_ = 1 /\ segments_ = <<0>>
  /\ levels = <<>> /\ rand = 1 /\ added = 0 /\ pc = "idle"
  /\ todo = <<>> /\ erased = {} /\ inserted = {}
  /\ i = 1 /\ j = 1 /\ amount = 0
  /\ posted = <<>> /\ published = {} /\ docs = {}

(* A caller that never overwrites adds distinct ids no search returns.     *)
Fresh(ds) == /\ \A k, l \in DOMAIN ds : ds[k] = ds[l] => k = l
             /\ \A k \in DOMAIN ds : \A v \in Visible : v[1] # ds[k]

Add(ds) ==
  /\ pc = "idle"
  /\ added + Len(ds) <= MaxAdds
  /\ Overwrite \/ Fresh(ds)
  /\ pc' = "add" /\ todo' = ds
  /\ UNCHANGED <<store, added, erased, inserted, i, j, amount, client, docs>>

(* Mutant: an overfull segment has no room.                                *)
batchClamped ==
  LET n == size(heap[last_])
      room == IF n > Threshold THEN 0 ELSE Threshold - n
  IN  IF Len(todo) < room THEN Len(todo) ELSE room

batch == LET room == (Threshold - size(heap[last_])) % SizeMod
         IN  IF Len(todo) < room THEN Len(todo) ELSE room

KeepOpen(seg) ==
  /\ heap' = [heap EXCEPT ![last_] = seg]
  /\ UNCHANGED <<last_, segments_, levels, rand, inserted>>

(* The full segment enters segments_ and the storage; a new one is opened. *)
Seal(seg) ==
  /\ heap' = Append([heap EXCEPT ![last_] = seg], NewSegment(rand + 1))
  /\ rand' = rand + 1
  /\ last_' = Len(heap) + 1
  /\ segments_' = Append([segments_ EXCEPT ![last_] = @ + 1], 0)
  /\ levels' = PushAt(levels, LevelFor(Threshold), last_)
  /\ inserted' = inserted \cup {last_}

(* One turn of the loop of add.  A batch of 0 makes the code throw.        *)
AddBatch ==
  LET now == SubSeq(todo, 1, batch)
      seg == add_batch(heap[last_], added, now)
  IN
  /\ pc = "add" /\ todo # <<>> /\ batch # 0
  /\ added' = added + batch
  /\ todo' = SubSeq(todo, batch + 1, Len(todo))
  /\ docs' = docs \cup Batch(added, now)
  /\ \/ size(seg) # Threshold /\ KeepOpen(seg)
     \/ size(seg) = Threshold /\ Seal(seg)
  /\ UNCHANGED <<pc, erased, i, j, amount, client>>

AddDone ==
  /\ pc = "add" /\ todo = <<>>
  /\ IF inserted # {} THEN Callback({}, inserted) ELSE UNCHANGED posted
  /\ inserted' = {}
  /\ IF EnableMerge
     THEN pc' = "merge" /\ i' = 1 /\ j' = 1 /\ amount' = MergeAmount
     ELSE pc' = "idle" /\ UNCHANGED <<i, j, amount>>
  /\ UNCHANGED <<store, added, todo, erased, published, docs>>

InLoop == pc = "merge" /\ i <= Len(levels)
PairSize == (size(heap[levels[i][j]]) + size(heap[levels[i][j + 1]])) % SizeMod

(* The absorbing segment gets a new id.                                    *)
Renamed(s) == [s EXCEPT !.seg_id = rand + 1]

(* Slots j and j + 1 fit the budget: the first segment absorbs the second, *)
(* takes a new id and moves one level up.  The code leaves two nulls here  *)
(* that stop it from pairing across them; dropping the slots and staying   *)
(* at j visits the same pairs.                                             *)
MergePair ==
  /\ InLoop /\ j < Len(levels[i]) /\ PairSize <= amount
  /\ LET a == levels[i][j]
         b == levels[i][j + 1]
     IN /\ \E s \in merge_from_other(heap[a], heap[b]) :
             heap' = [heap EXCEPT ![a] = Renamed(s)]
        /\ rand' = rand + 1
        /\ erased' = erased \cup {heap[a].seg_id, heap[b].seg_id}
        /\ inserted' = inserted \cup {a}
        /\ levels' = PushAt([levels EXCEPT ![i] = RemovePair(@, j)], i + 1, a)
        /\ amount' = amount - PairSize
  /\ UNCHANGED <<last_, segments_, added, pc, todo, i, j, client, docs>>

(* Mutant: continue without ++j.                                           *)
MergeSkipStays ==
  /\ InLoop /\ j < Len(levels[i]) /\ PairSize > amount
  /\ UNCHANGED vars

MergeSkip ==
  /\ InLoop /\ j < Len(levels[i]) /\ PairSize > amount
  /\ j' = j + 1
  /\ UNCHANGED <<store, added, pc, todo, erased, inserted, i, amount, client, docs>>

(* The inserted segments are appended to segments_; then each erased id    *)
(* takes out the first entry that has it now, if there is one.             *)
Pushed(p) == segments_[p] + (IF p \in inserted THEN 1 ELSE 0)

(* Mutant: the comparison inverted.                                        *)
FoundOther(p) == heap[p].seg_id \notin erased /\ Pushed(p) > 0

Found(p) == heap[p].seg_id \in erased /\ Pushed(p) > 0

MergeLevelEnd ==
  /\ InLoop /\ j >= Len(levels[i])
  /\ segments_' = [p \in Objects |-> IF Found(p) THEN Pushed(p) - 1 ELSE Pushed(p)]
  /\ IF erased # {} /\ inserted # {}
     THEN Callback(erased, inserted) ELSE UNCHANGED posted
  /\ erased' = {} /\ inserted' = {}
  /\ j' = 1
  /\ i' = IF amount > 0 THEN i + 1 ELSE Len(levels) + 1
  /\ UNCHANGED <<heap, last_, levels, rand, added, pc, todo, amount, published, docs>>

MergeEnd ==
  /\ pc = "merge" /\ i > Len(levels)
  /\ pc' = "idle"
  /\ UNCHANGED <<store, added, locals, client, docs>>

(* Mutant: only the storage's segments and last_ are visited.              *)
EraseStored(ds) ==
  /\ pc = "idle"
  /\ heap' = [p \in Objects |-> IF p = last_ \/ p \in LevelSegments
                                THEN erase_batch(heap[p], ds) ELSE heap[p]]
  /\ docs' = {v \in docs : v[1] \notin ds}
  /\ UNCHANGED <<last_, segments_, levels, rand, added, pc, locals, client>>

(* Index::erase calls deleteBatch on every entry of segments_ and on last_.*)
Erase(ds) ==
  /\ pc = "idle"
  /\ heap' = [p \in Objects |-> IF Searched(p) THEN erase_batch(heap[p], ds) ELSE heap[p]]
  /\ docs' = {v \in docs : v[1] \notin ds}
  /\ UNCHANGED <<last_, segments_, levels, rand, added, pc, locals, client>>

(* Mutant: the invocation stays queued.                                    *)
RunCallbackAgain ==
  /\ pc = "idle" /\ posted # <<>>
  /\ published' = (published \cup {heap[p].seg_id : p \in Head(posted).inserted})
                    \ Head(posted).erased
  /\ UNCHANGED <<store, posted, added, pc, locals, docs>>

(* The client handles the oldest invocation, and reads getID() only now:   *)
(* it stores what was inserted, then drops what was erased.                *)
RunCallback ==
  /\ pc = "idle" /\ posted # <<>>
  /\ published' = (published \cup {heap[p].seg_id : p \in Head(posted).inserted})
                    \ Head(posted).erased
  /\ posted' = Tail(posted)
  /\ UNCHANGED <<store, added, pc, locals, docs>>

AddStep == AddBatch \/ AddDone \/ MergePair \/ MergeSkip \/ MergeLevelEnd \/ MergeEnd

Calls == UNION {[1..n -> Doc] : n \in 1..MaxBatch}

Next == \/ \E ds \in Calls : Add(ds)
        \/ \E ds \in (SUBSET Doc) \ {{}} : Erase(ds)
        \/ AddStep
        \/ RunCallback

Spec == Init /\ [][Next]_vars
FairSpec == Spec /\ WF_vars(AddStep) /\ WF_vars(RunCallback)
-----------------------------------------------------------------------------
(* Types of the state of Index and SegmentStorage, and of the locals of    *)
(* add and merge.                                                          *)
TypeOK ==
  /\ heap \in Seq(Segments) /\ last_ \in Objects
  /\ segments_ \in [Objects -> Nat]
  /\ levels \in Seq(Seq(Objects)) /\ rand \in Nat /\ added \in Nat
  /\ pc \in {"idle", "add", "merge"} /\ todo \in Seq(Doc)
  /\ erased \in SUBSET Nat /\ inserted \in SUBSET Objects
  /\ i \in Nat \ {0} /\ j \in Nat \ {0} /\ amount \in Nat
  /\ posted \in Seq(Invocations)
  /\ published \in SUBSET Nat /\ docs \in SUBSET (Doc \X Nat)
  /\ \A p \in Objects : IsFiniteSet(heap[p].erased_)

(* No loss: a vector that was added, and whose id no erase named since, is *)
(* found by a search, however often its segment was sealed, merged, moved  *)
(* between levels or taken out of segments_.                               *)
NoLoss == docs \subseteq Visible

(* A client that never adds an id it can still find gets exactly what it   *)
(* stored: erase (deleteBatch over segments_ and last_) reaches the copy   *)
(* in every segment, the stale ones a merge leaves behind included.        *)
EraseReachesAll == ~Overwrite => Visible \subseteq docs

(* The slots of storage_.levels hold different segments, and no vector is  *)
(* in two of them or in one of them and in last_, so a merge never copies  *)
(* a vector into a segment that has it.                                    *)
LevelsDisjoint ==
  /\ \A l1, l2 \in DOMAIN levels : \A k1 \in DOMAIN levels[l1], k2 \in DOMAIN levels[l2] :
       l1 # l2 \/ k1 # k2 =>
         /\ levels[l1][k1] # levels[l2][k2]
         /\ Numbers(heap[levels[l1][k1]]) \cap Numbers(heap[levels[l2][k2]]) = {}
  /\ \A p \in LevelSegments :
       p # last_ /\ Numbers(heap[p]) \cap Numbers(heap[last_]) = {}

(* What makes the properties inductive.  Segment ids differ and are values *)
(* rand() has returned.  The segments of the levels and those just merged  *)
(* are entries of segments_, and an id on the way out belongs to no        *)
(* segment of the levels, only to segments that one of the inserted ones   *)
(* has absorbed.                                                           *)
Bookkeeping ==
  /\ \A p, q \in Objects : heap[p].seg_id = heap[q].seg_id => p = q
  /\ \A p \in Objects : /\ heap[p].seg_id <= rand
                        /\ Consistent(heap[p])
                        /\ \A n \in Numbers(heap[p]) : 0 < n /\ n <= added
  /\ \A e \in erased : e <= rand
  /\ ~InLoop => erased = {}
  /\ \A p \in LevelSegments : segments_[p] > 0 /\ heap[p].seg_id \notin erased
  /\ \A p \in inserted : segments_[p] > 0
  /\ \A p \in Objects : heap[p].seg_id \in erased =>
       \E q \in inserted : Live(heap[p]) \subseteq Live(heap[q])

(* Once the client has handled every invocation of the callback, the ids   *)
(* it keeps are those of the segments in the levels, although it reads     *)
(* getID() of segments that merges may have renamed since the call.        *)
PublishedMatches ==
  pc = "idle" /\ posted = <<>> =>
    published = {heap[p].seg_id : p \in LevelSegments}

(* add never meets the empty batch that makes it throw, even when size()   *)
(* has wrapped below zero.                                                 *)
NoEmptyBatch == pc = "add" /\ todo # <<>> => batch # 0

(* storage_.merge changes what is stored where, and nothing a search sees. *)
MergePreservesSearch == [][pc = "merge" => Visible' = Visible]_vars

(* merge looks its erased ids up in segments_ and asserts that each is     *)
(* found.                                                                  *)
ErasedAreFound ==
  InLoop /\ j >= Len(levels[i]) => \A e \in erased : \E p \in Objects :
                                     Pushed(p) > 0 /\ heap[p].seg_id = e

(* After an erase of an id no search returns it, until it is added again.  *)
ErasedIsGone == Visible \subseteq docs

(* Every add returns: the loop over batches and the merge both end.        *)
AddReturns == pc # "idle" ~> pc = "idle"

(* Every invocation of the callback is handled, once the adds stop.        *)
CallbacksDrain == posted # <<>> ~> posted = <<>>

(* A client that never overwrites sees a plain set of documents: what add  *)
(* takes in can be found at once, sealing and merging, which are part of a *)
(* call of add, take nothing away, erase removes whole ids, and the        *)
(* callback brings nothing back.                                           *)
Store == INSTANCE DocStore WITH found <- Visible, received <- added,
                                adding <- pc # "idle"
ImplementsDocStore == Store!Spec
=============================================================================
