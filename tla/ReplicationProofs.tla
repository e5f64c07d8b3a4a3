------------------------- MODULE ReplicationProofs -------------------------
(***************************************************************************)
(* What S3 and the searchers hold, for every set of searchers, every       *)
(* threshold and merge budget, and every order of writes, tasks, refused   *)
(* operations, crashes and restarts.                                       *)
(***************************************************************************)
EXTENDS ClientProofs, Replication

(* What a write request does to the index.                                 *)
Write == \/ \E ds \in Seq(Doc) : Add(ds)
         \/ \E ds \in SUBSET Doc : Erase(ds)
         \/ AddStep

(* An object with all that a segment still has to say.                     *)
Stored(p) == \E o \in bucket : o[1] = heap[p].seg_id /\ Live(heap[p]) \subseteq o[2]

(* A segment of the levels is in S3 or a task will put it there ...        *)
LevelsStored ==
  writerUp /\ ~lost => \A p \in LevelSegments : Inserting(p) \/ Stored(p)

(* ... and its vectors are on a searcher, or in what the task under way    *)
(* will still have it fetch, or in the work of a later task.               *)
Reaches(v, s) ==
  \/ v \in Held(s)
  \/ /\ runner = "list" \/ s \in targets
     /\ \E o \in Fetched : v \in o[2]

LevelsReach ==
  writerUp /\ ~lost => \A p \in LevelSegments :
    Inserting(p) \/ \A v \in Live(heap[p]), s \in Searcher \ missed : Reaches(v, s)

(* While the shard stays listed the bucket has the ids of the client.      *)
BucketFollows == writerUp /\ ~dropped /\ ~lost => StoredIds = published

RInv == /\ RTypeOK /\ PInv /\ (~dropped => OthersLeave)
        /\ AnnouncedIsStored /\ LevelsStored /\ LevelsReach /\ BucketFollows
-----------------------------------------------------------------------------
(* A write request changes a segment of the levels only in ways that the   *)
(* object stored for it covers, or the segment is on its way to S3.        *)
LEMMA LevelStep ==
  ASSUME PInv, Write
  PROVE  \A p \in LevelSegments' :
           \/ Inserting(p)'
           \/ /\ p \in LevelSegments /\ ~Inserting(p)
              /\ heap'[p].seg_id = heap[p].seg_id /\ Live(heap'[p]) \subseteq Live(heap[p])
<1> DEFINE Covered == \A p \in LevelSegments' :
             \/ Inserting(p)'
             \/ /\ p \in LevelSegments /\ ~Inserting(p)
                /\ heap'[p].seg_id = heap[p].seg_id /\ Live(heap'[p]) \subseteq Live(heap[p])
<1> SUFFICES Covered
  OBVIOUS
<1>1. TypeOK /\ IInv /\ LevelsDisjoint /\ Bookkeeping /\ ErasedAreOld
  BY DEF PInv, IInv
<1>2. CASE UNCHANGED <<heap, levels, posted, inserted>>
  <2>1. LevelSegments' = LevelSegments /\ \A p : Inserting(p)' <=> Inserting(p)
    BY <1>2 DEF LevelSegments, Objects, Inserting
  <2>. QED  BY <1>2, <2>1
<1>3. ASSUME NEW ds \in SUBSET Doc, Erase(ds) PROVE Covered
  <2>1. /\ UNCHANGED <<levels, posted, inserted>>
        /\ heap' = [p \in Objects |-> IF Searched(p) THEN erase_batch(heap[p], ds) ELSE heap[p]]
    BY <1>3 DEF Erase, client, locals
  <2>2. Objects' = Objects
    BY <1>1, <2>1, HeapType DEF Objects
  <2>3. LevelSegments' = LevelSegments /\ \A p : Inserting(p)' <=> Inserting(p)
    BY <2>1, <2>2 DEF LevelSegments, Inserting
  <2>4. ASSUME NEW p \in Objects
        PROVE  heap'[p].seg_id = heap[p].seg_id /\ Live(heap'[p]) \subseteq Live(heap[p])
    <3>1. heap[p] \in Segments
      BY <1>1, HeapType
    <3>. QED  BY <2>1, <3>1 DEF erase_batch, Segments, Live
  <2>. QED  BY <1>1, <2>3, <2>4, PostedType
<1>4. CASE AddBatch
  <2> DEFINE seg == add_batch(heap[last_], added, SubSeq(todo, 1, batch))
  <2>1. UNCHANGED posted /\ (Seal(seg) \/ KeepOpen(seg))
    BY <1>4 DEF AddBatch, client
  <2>2. \A p \in LevelSegments : p # last_ /\ p \in Objects
    BY <1>1 DEF LevelsDisjoint, LevelSegments
  <2>3. CASE Seal(seg)
    <3>1. inserted' = inserted \cup {last_}
      BY <2>3 DEF Seal
    <3>2. /\ LevelSegments' = LevelSegments \cup {last_}
          /\ \A p \in Objects : p # last_ => heap'[p] = heap[p]
      BY <1>1, <1>4, <2>3, SealLevels
    <3>3. \A p : Inserting(p) \/ p = last_ => Inserting(p)'
      BY <2>1, <3>1 DEF Inserting
    <3>. QED  BY <2>2, <3>2, <3>3
  <2>4. CASE KeepOpen(seg)
    <3>1. UNCHANGED <<levels, inserted>> /\ heap' = [heap EXCEPT ![last_] = seg]
      BY <2>4 DEF KeepOpen
    <3> HIDE DEF seg
    <3>2. Objects' = Objects /\ \A p \in Objects : p # last_ => heap'[p] = heap[p]
      BY <1>1, <3>1, HeapType DEF Objects
    <3>3. LevelSegments' = LevelSegments /\ \A p : Inserting(p)' <=> Inserting(p)
      BY <2>1, <3>1, <3>2 DEF LevelSegments, Inserting
    <3>. QED  BY <2>2, <3>2, <3>3
  <2>. QED  BY <2>1, <2>3, <2>4
<1>5. CASE MergePair
  <2> DEFINE a == levels[i][j]
  <2>1. UNCHANGED posted /\ inserted' = inserted \cup {a}
    BY <1>5 DEF MergePair, client
  <2>2. /\ LevelSegments' \subseteq LevelSegments
        /\ \A p \in Objects : p # a => heap'[p] = heap[p]
    BY <1>1, <1>5, PairLevelSegments, PairHeap
  <2>3. \A p : Inserting(p) \/ p = a => Inserting(p)'
    BY <2>1 DEF Inserting
  <2>. QED  BY <1>1, <2>2, <2>3, PostedType
<1>6. CASE AddDone \/ MergeLevelEnd
  <2>1. UNCHANGED <<heap, levels>>
    BY <1>6 DEF AddDone, MergeLevelEnd, store
  <2>2. LevelSegments' = LevelSegments
    BY <2>1 DEF LevelSegments, Objects
  <2>3. \/ UNCHANGED posted /\ inserted = {}
        \/ \E e : posted' = Append(posted, [erased |-> e, inserted |-> inserted])
    BY <1>1, <1>6 DEF AddDone, MergeLevelEnd, Callback, ErasedAreOld, InLoop
  <2>4. CASE UNCHANGED posted /\ inserted = {}
    BY <2>1, <2>2, <2>4 DEF Inserting
  <2>5. ASSUME NEW e, posted' = Append(posted, [erased |-> e, inserted |-> inserted])
        PROVE  Covered
    <3>1. PICK n \in Nat : n = Len(posted) + 1
      BY <1>1 DEF TypeOK
    <3>2. /\ DOMAIN posted' = DOMAIN posted \cup {n} /\ posted'[n].inserted = inserted
          /\ \A k \in DOMAIN posted : posted'[k] = posted[k]
      BY <1>1, <2>5, <3>1 DEF TypeOK
    <3>3. \A p : Inserting(p) => Inserting(p)'
      BY <3>2 DEF Inserting
    <3>. QED  BY <2>1, <2>2, <3>3
  <2>. QED  BY <2>3, <2>4, <2>5
<1>7. ASSUME NEW ds \in Seq(Doc), Add(ds) PROVE Covered
  <2>1. UNCHANGED <<heap, levels, posted, inserted>>
    BY <1>7 DEF Add, store, client
  <2>. QED  BY <1>2, <2>1
<1>8. CASE MergeSkip \/ MergeEnd
  <2>1. UNCHANGED <<heap, levels, posted, inserted>>
    BY <1>8 DEF MergeSkip, MergeEnd, store, client, locals
  <2>. QED  BY <1>2, <2>1
<1> HIDE DEF Covered
<1>. QED
  BY <1>3, <1>4, <1>5, <1>6, <1>7, <1>8 DEF Write, AddStep

(* The open segment of an index that starts is empty and consistent.       *)
LEMMA NewSegmentProps ==
  ASSUME NEW id \in Nat
  PROVE  /\ NewSegment(id) \in Segments /\ NewSegment(id).seg_id = id
         /\ Consistent(NewSegment(id)) /\ Numbers(NewSegment(id)) = {}
         /\ IsFiniteSet(NewSegment(id).erased_)
<1>1. /\ NewSegment(id) \in Segments /\ NewSegment(id).seg_id = id
      /\ NewSegment(id).inv_ids_ = {} /\ NewSegment(id).erased_ = {}
      /\ NewSegment(id).ids_ = [d \in Doc |-> 0]
  BY DEF NewSegment, Segments
<1>2. Numbers(NewSegment(id)) = {} /\ Keys(NewSegment(id)) = {}
  BY <1>1 DEF Numbers, Keys
<1>. QED  BY <1>1, <1>2, FS_EmptySet DEF Consistent

(* The index is destroyed with its shard: nothing is in the levels, and    *)
(* the invocations still queued keep their segments.                       *)
LEMMA DropPInv == ASSUME PInv, DropIndex PROVE PInv'
<1>1. /\ TypeOK /\ Bookkeeping /\ NoneWithdrawn /\ ErasedAreOld /\ rand \in Nat
      /\ heap \in Seq(Segments) /\ Len(heap) \in Nat /\ Objects = 1..Len(heap)
      /\ erased = {} /\ inserted = {} /\ pc = "idle"
  BY HeapType DEF PInv, IInv, TypeOK, DropIndex, Bookkeeping, InLoop, ErasedAreOld
<1>2. /\ heap' = Append(heap, NewSegment(rand + 1)) /\ rand' = rand + 1
      /\ last_' = Len(heap) + 1 /\ levels' = <<>> /\ docs' = {}
      /\ segments_' = [p \in 1..(Len(heap) + 1) |-> 0]
      /\ UNCHANGED <<added, pc, todo, erased, inserted, i, j, amount, posted, published>>
  BY DEF DropIndex, locals, client
<1>3. /\ rand + 1 \in Nat /\ NewSegment(rand + 1) \in Segments
      /\ NewSegment(rand + 1).seg_id = rand + 1
      /\ Consistent(NewSegment(rand + 1)) /\ Numbers(NewSegment(rand + 1)) = {}
      /\ IsFiniteSet(NewSegment(rand + 1).erased_)
  BY <1>1, NewSegmentProps
<1>4. /\ heap' \in Seq(Segments) /\ Objects' = 1..(Len(heap) + 1)
      /\ heap'[Len(heap) + 1] = NewSegment(rand + 1)
      /\ \A p \in Objects : heap'[p] = heap[p]
  BY <1>1, <1>2, <1>3 DEF Objects
<1>5. Objects' = Objects \cup {last_'} /\ last_' \notin Objects /\ heap'[last_'].seg_id = rand + 1
  BY <1>1, <1>2, <1>3, <1>4
<1>6. LevelSegments' = {} /\ DOMAIN levels' = {}
  BY <1>2 DEF LevelSegments
<1>7. TypeOK'
  <2>1. posted' \in Seq(Invocations')
    <3>1. posted \in Seq(Invocations) /\ Invocations \subseteq Invocations'
      BY <1>1, <1>5 DEF TypeOK, Invocations
    <3>. QED  BY <1>2, <3>1
  <2>2. levels' \in Seq(Seq(Objects'))
    BY <1>2
  <2>3. segments_' \in [Objects' -> Nat]
    BY <1>2, <1>4
  <2>4. \A p \in Objects' : IsFiniteSet(heap'[p].erased_)
    BY <1>1, <1>2, <1>3, <1>4, <1>5 DEF TypeOK
  <2>5. /\ last_' \in Objects' /\ rand' \in Nat /\ inserted' \in SUBSET Objects'
        /\ docs' \in SUBSET (Doc \X Nat)
    BY <1>1, <1>2, <1>3, <1>5
  <2>. QED  BY <1>1, <1>2, <1>4, <2>1, <2>2, <2>3, <2>4, <2>5 DEF TypeOK
<1>8. LevelsDisjoint' /\ NoLoss'
  BY <1>2, <1>6 DEF LevelsDisjoint, NoLoss
<1>9. Bookkeeping'
  <2>1. \A p \in Objects : heap[p].seg_id \in Nat /\ heap[p].seg_id <= rand
    BY <1>1, HeapType DEF Bookkeeping
  <2>2. \A p, q \in Objects' : heap'[p].seg_id = heap'[q].seg_id => p = q
    <3>1. \A p, q \in Objects : heap'[p].seg_id = heap'[q].seg_id => p = q
      BY <1>1, <1>4 DEF Bookkeeping
    <3>2. \A p \in Objects : heap'[p].seg_id # heap'[last_'].seg_id
      BY ONLY <1>1, <1>4, <1>5, <2>1
    <3>. QED  BY ONLY <1>5, <3>1, <3>2
  <2>3. \A p \in Objects' : /\ heap'[p].seg_id <= rand' /\ Consistent(heap'[p])
                            /\ \A n \in Numbers(heap'[p]) : 0 < n /\ n <= added'
    <3>1. ASSUME NEW p \in Objects
          PROVE  /\ heap'[p].seg_id <= rand' /\ Consistent(heap'[p])
                 /\ \A n \in Numbers(heap'[p]) : 0 < n /\ n <= added'
      BY <1>1, <1>2, <1>4, <2>1 DEF Bookkeeping
    <3>2. /\ heap'[last_'].seg_id <= rand' /\ Consistent(heap'[last_'])
          /\ Numbers(heap'[last_']) = {}
      BY <1>1, <1>2, <1>3, <1>4, <1>5, SMTT(30)
    <3>. QED  BY <1>5, <3>1, <3>2
  <2>. QED  BY <1>1, <1>2, <1>6, <2>2, <2>3 DEF Bookkeeping
<1>10. LevelsArrive' /\ InsertedInLevels'
  BY <1>1, <1>2, <1>6 DEF LevelsArrive, InsertedInLevels
<1>11. NoneWithdrawn'
  BY <1>1, <1>2, <1>4, PostedType DEF NoneWithdrawn
<1>12. ErasedAreOld'
  <2>1. \A k \in DOMAIN posted : \A e \in posted[k].erased : e \in Nat /\ e <= rand
    BY <1>1, PostedType DEF ErasedAreOld
  <2>. QED  BY <1>1, <1>2, <1>5, <2>1 DEF ErasedAreOld, ErasedFrom
<1>. QED  BY <1>7, <1>8, <1>9, <1>10, <1>11, <1>12 DEF PInv, IInv

(* A writer that starts again has an empty index and no invocations.       *)
LEMMA StartPInv == ASSUME PInv, WriterStart PROVE PInv'
<1>1. /\ heap' = <<NewSegment(1)>> /\ last_' = 1 /\ segments_' = <<0>> /\ levels' = <<>>
      /\ rand' = 1 /\ pc' = "idle" /\ todo' = <<>> /\ erased' = {} /\ inserted' = {}
      /\ i' = 1 /\ j' = 1 /\ amount' = 0 /\ posted' = <<>> /\ published' = {} /\ docs' = {}
      /\ added' = added /\ added \in Nat
  BY DEF WriterStart, PInv, IInv, TypeOK
<1>2. /\ NewSegment(1) \in Segments /\ NewSegment(1).seg_id = 1
      /\ Consistent(NewSegment(1)) /\ Numbers(NewSegment(1)) = {}
      /\ IsFiniteSet(NewSegment(1).erased_)
  BY NewSegmentProps
<1>3. heap' \in Seq(Segments) /\ Objects' = {1} /\ heap'[1] = NewSegment(1)
  BY <1>1, <1>2 DEF Objects
<1>4. LevelSegments' = {} /\ DOMAIN levels' = {} /\ DOMAIN posted' = {}
  BY <1>1 DEF LevelSegments
<1>5. TypeOK'
  <2>1. posted' \in Seq(Invocations') /\ levels' \in Seq(Seq(Objects')) /\ todo' \in Seq(Doc)
    BY <1>1
  <2>2. segments_' \in [Objects' -> Nat]
    BY <1>1, <1>3
  <2>. QED  BY <1>1, <1>2, <1>3, <2>1, <2>2 DEF TypeOK
<1>6. LevelsDisjoint' /\ NoLoss' /\ LevelsArrive' /\ InsertedInLevels' /\ NoneWithdrawn'
  BY <1>1, <1>4 DEF LevelsDisjoint, NoLoss, LevelsArrive, InsertedInLevels, NoneWithdrawn
<1>7. Bookkeeping'
  BY <1>1, <1>2, <1>3, <1>4 DEF Bookkeeping
<1>8. ErasedAreOld'
  BY <1>1, <1>4 DEF ErasedAreOld, ErasedFrom
<1>. QED  BY <1>5, <1>6, <1>7, <1>8 DEF PInv, IInv
-----------------------------------------------------------------------------
(* A step that leaves the index, the bucket and the history of S3 alone.   *)
Quiet == /\ UNCHANGED <<vars, bucket, lost, dropped>>
         /\ writerUp' => writerUp
         /\ runner' # "free" => runner # "free" /\ request' = request

(* What the steps of the system do to the index.                           *)
LEMMA StepKinds ==
  ASSUME [RNext]_allVars
  PROVE  \/ Write /\ Locked /\ UNCHANGED replication
         \/ DropIndex \/ WriterStart \/ StoreTask \/ StoreTaskCrash
         \/ Quiet
<1>1. CASE ProcessWriteRequest
  <2>1. \A d \in Doc : <<d>> \in Seq(Doc) /\ {d} \in SUBSET Doc
    OBVIOUS
  <2>. QED  BY <1>1, <2>1 DEF ProcessWriteRequest, Write
<1>2. CASE CreateIndex \/ DeleteFromNull \/ EtcdUnreachable \/ WriterCrash
  BY <1>2 DEF CreateIndex, DeleteFromNull, EtcdUnreachable, WriterCrash, Quiet, task, history
<1>3. CASE ListSearcherHosts \/ TaskDone
  BY <1>3 DEF ListSearcherHosts, TaskDone, Quiet, history
<1>4. ASSUME NEW s \in Searcher,
             UpdateIndex(s) \/ UpdateUnreachable(s) \/ NoFile(s) \/ UpdateEndless(s)
      PROVE  Quiet
  BY <1>4 DEF UpdateIndex, UpdateUnreachable, NoFile, UpdateEndless, Quiet, task, history
<1>5. ASSUME NEW s \in Searcher, SearcherStep(s) \/ RemoveSearcherHost(s)
      PROVE  Quiet
  BY <1>5 DEF SearcherStep, SearcherInit, Listen, Crash, GracefulShutdown, Forget,
              RemoveSearcherHost, Quiet, task, history
<1>6. CASE UpdateAverageResponseTime
  BY <1>6 DEF UpdateAverageResponseTime, Quiet, task, history
<1>7. CASE UNCHANGED allVars
  BY <1>7 DEF allVars, replication, Quiet, task, history
<1>. QED
  BY <1>1, <1>2, <1>3, <1>4, <1>5, <1>6, <1>7
     DEF RNext, TaskStep, UpdateMissingObject, UpdateRefused

(* The index and its invocations, whatever the rest of the system does.    *)
LEMMA IndexPart ==
  ASSUME RInv, [RNext]_allVars
  PROVE  PInv' /\ (~dropped' => OthersLeave')
<1>1. PInv /\ (~dropped => OthersLeave)
  BY DEF RInv
<1>2. CASE Write /\ UNCHANGED replication
  <2>1. Operation /\ UNCHANGED dropped
    BY <1>2 DEF Write, Operation, replication, history
  <2>. QED  BY <1>1, <2>1, OperationPInv
<1>3. CASE DropIndex \/ WriterStart
  <2>1. dropped'
    BY <1>3 DEF DropIndex, WriterStart
  <2>. QED  BY <1>1, <1>3, <2>1, DropPInv, StartPInv
<1>4. CASE StoreTask
  <2>1. Operation /\ UNCHANGED dropped
    BY <1>4 DEF StoreTask, Operation
  <2>. QED  BY <1>1, <2>1, OperationPInv
<1>5. CASE StoreTaskCrash \/ Quiet
  <2>1. UNCHANGED <<vars, dropped>>
    BY <1>5 DEF StoreTaskCrash, Quiet, history
  <2>. QED  BY <1>1, <2>1, OperationPInv
<1>. QED  BY <1>2, <1>3, <1>4, <1>5, StepKinds

(* What a task puts into S3: the id, live vectors and size of a segment.   *)
LEMMA SerializedType ==
  ASSUME TypeOK, NEW p \in Objects
  PROVE  Serialized(p) \in Nat \X (SUBSET (Doc \X Nat)) \X Nat
<1>1. heap[p] \in Segments /\ heap[p].seg_id \in Nat /\ size(heap[p]) \in Nat
  BY HeapType
<1>2. Live(heap[p]) \in SUBSET (Doc \X Nat)
  BY <1>1 DEF Segments, Live
<1>. QED  BY <1>1, <1>2 DEF Serialized

(* The invocation that a task works on.                                    *)
LEMMA HeadType ==
  ASSUME TypeOK, posted # <<>>
  PROVE  /\ Head(posted) = posted[1] /\ 1 \in DOMAIN posted
         /\ Head(posted).inserted \subseteq Objects /\ Head(posted).erased \subseteq Nat
<1>1. posted \in Seq(Invocations)
  BY DEF TypeOK
<1>2. Head(posted) = posted[1] /\ 1 \in DOMAIN posted
  BY <1>1
<1>. QED  BY <1>2, PostedType

(* The state of the services keeps its types, tasks end with no target     *)
(* left, and a searcher that is down holds nothing.                        *)
LEMMA RTypeStep ==
  ASSUME RInv, [RNext]_allVars
  PROVE  RTypeOK'
<1> DEFINE Obj == Nat \X (SUBSET (Doc \X Nat)) \X Nat
<1>1. RTypeOK /\ TypeOK
  BY DEF RInv, PInv, IInv
<1>2. CASE UNCHANGED replication
  BY <1>1, <1>2 DEF RTypeOK, replication, shard, task, etcd, searchers, history
<1>3. CASE CreateIndex \/ DeleteFromNull \/ EtcdUnreachable \/ WriterCrash
  BY <1>1, <1>3 DEF RTypeOK, CreateIndex, DeleteFromNull, EtcdUnreachable, WriterCrash,
                    shard, task, etcd, searchers, history
<1>4. CASE DropIndex
  BY <1>1, <1>4 DEF RTypeOK, DropIndex, task, etcd, searchers
<1>5. CASE ListSearcherHosts \/ TaskDone
  BY <1>1, <1>5 DEF RTypeOK, ListSearcherHosts, TaskDone, shard, etcd, searchers, history
<1>6. \A put \in SUBSET {Serialized(p) : p \in Head(posted).inserted} : \A gone :
        posted # <<>> => Del(Put(bucket, put), gone) \in SUBSET Obj
  <2>1. posted # <<>> => {Serialized(p) : p \in Head(posted).inserted} \subseteq Obj
    BY <1>1, HeadType, SerializedType
  <2>. QED  BY <1>1, <2>1 DEF RTypeOK, Del, Put
<1>7. CASE StoreTask
  <2> DEFINE new == {Serialized(p) : p \in Head(posted).inserted}
             del == Head(posted).erased
  <2>1. posted # <<>> /\ runner = "free" /\ runner' = "list"
    BY <1>7 DEF StoreTask, RunCallback, Locked
  <2>2. PICK put \in Done(new), gone \in Done(del) :
          /\ bucket' = Del(Put(bucket, put), gone)
          /\ lost' = (lost \/ put # new \/ gone # del)
    BY <1>7 DEF StoreTask
  <2>3. put \in SUBSET new
    BY DEF Done
  <2>4. bucket' \in SUBSET Obj /\ lost' \in BOOLEAN
    BY <1>6, <2>1, <2>2, <2>3
  <2>5. request' = [added |-> {o[1] : o \in new}, deleted |-> del]
    BY <1>7 DEF StoreTask
  <2>6. {o[1] : o \in new} \subseteq Nat /\ del \subseteq Nat
    BY <1>1, <2>1, HeadType, SerializedType
  <2>7. request' \in [added : SUBSET Nat, deleted : SUBSET Nat]
    BY <2>5, <2>6
  <2>8. UNCHANGED <<writerUp, present, sameName, targets, etcd, searchers, dropped, lives, missed>>
    BY <1>7 DEF StoreTask, shard
  <2> HIDE DEF new, del
  <2>. QED  BY <1>1, <2>1, <2>4, <2>7, <2>8 DEF RTypeOK, etcd, searchers
<1>8. CASE StoreTaskCrash
  <2> DEFINE new == {Serialized(p) : p \in Head(posted).inserted}
  <2>1. posted # <<>> /\ writerUp' = FALSE
        /\ UNCHANGED <<present, sameName, task, etcd, searchers, history>>
    BY <1>8 DEF StoreTaskCrash, shard
  <2>2. \E put \in SUBSET new : \E gone : bucket' = Del(Put(bucket, put), gone)
    BY <1>8 DEF StoreTaskCrash
  <2>3. bucket' \in SUBSET Obj
    BY <1>6, <2>1, <2>2
  <2>. QED  BY <1>1, <2>1, <2>3 DEF RTypeOK, task, etcd, searchers, history
<1>9. CASE WriterStart
  <2>1. /\ lives' = lives + 1 /\ lives' \in Nat /\ writerUp' = TRUE /\ dropped' = TRUE
        /\ present' = FALSE /\ runner' = "free" /\ targets' = {}
        /\ request' = [added |-> {}, deleted |-> {}]
        /\ UNCHANGED <<sameName, bucket, etcd, searchers, lost, missed>>
    BY <1>1, <1>9 DEF RTypeOK, WriterStart
  <2>2. request' \in [added : SUBSET Nat, deleted : SUBSET Nat]
    BY <2>1
  <2>. QED  BY <1>1, <2>1, <2>2 DEF RTypeOK, etcd, searchers
<1>10. ASSUME NEW s \in Searcher, UpdateIndex(s) PROVE RTypeOK'
  <2>1. /\ replica' = [replica EXCEPT ![s] = @ \cup Fetched] /\ Fetched \subseteq bucket
        /\ targets' = targets \ {s} /\ runner = "notify" /\ state[s] = "up"
        /\ UNCHANGED <<writerUp, present, sameName, runner, request, bucket, etcd, state, starts, history>>
    BY <1>10 DEF UpdateIndex, Fetched, shard
  <2>2. replica' \in [Searcher -> SUBSET Obj]
    BY <1>1, <2>1 DEF RTypeOK
  <2>3. \A t \in Searcher : state[t] = "down" => replica'[t] = {}
    BY <1>1, <2>1 DEF RTypeOK
  <2>. QED  BY <1>1, <2>1, <2>2, <2>3 DEF RTypeOK, etcd, history
<1>11. ASSUME NEW s \in Searcher, UpdateUnreachable(s) PROVE RTypeOK'
  BY <1>1, <1>11 DEF RTypeOK, UpdateUnreachable, shard, task, etcd, searchers, history
<1>12. ASSUME NEW s \in Searcher, NoFile(s) PROVE RTypeOK'
  BY <1>1, <1>12 DEF RTypeOK, NoFile, shard, task, etcd, history
<1>13. ASSUME NEW s \in Searcher, SearcherInit(s) \/ Listen(s) PROVE RTypeOK'
  BY <1>1, <1>13 DEF RTypeOK, SearcherInit, Listen, Reg!Start, Reg!Listen, shard, task, history
<1>14. ASSUME NEW s \in Searcher, Crash(s) \/ GracefulShutdown(s) PROVE RTypeOK'
  BY <1>1, <1>14 DEF RTypeOK, Crash, GracefulShutdown, Forget, Reg!Crash, Reg!Shutdown, shard, task
<1>15. ASSUME NEW s \in Searcher, RemoveSearcherHost(s) PROVE RTypeOK'
  BY <1>1, <1>15 DEF RTypeOK, RemoveSearcherHost, Reg!Evict, shard, task, history
<1>16. CASE UpdateAverageResponseTime
  BY <1>1, <1>16 DEF RTypeOK, UpdateAverageResponseTime, Reg!StoreTime, shard, task, history
<1>17. CASE UNCHANGED allVars
  BY <1>2, <1>17 DEF allVars
<1>18. CASE ProcessWriteRequest
  BY <1>2, <1>18 DEF ProcessWriteRequest
<1>19. ASSUME NEW s \in Searcher, UpdateEndless(s) PROVE RTypeOK'
  <2>1. /\ writerUp' = FALSE /\ state[s] = "up"
        /\ UNCHANGED <<present, sameName, task, bucket, etcd, starts, history>>
    BY <1>19 DEF UpdateEndless, shard
  <2>2. \/ /\ state' = [state EXCEPT ![s] = "down"]
           /\ replica' = [replica EXCEPT ![s] = {}]
        \/ /\ UNCHANGED state
           /\ \E pushed \in SUBSET bucket : replica' = [replica EXCEPT ![s] = @ \cup pushed]
    BY <1>19 DEF UpdateEndless, Fetched
  <2>3. replica' \in [Searcher -> SUBSET Obj] /\ state' \in [Searcher -> {"down", "starting", "up"}]
    BY <1>1, <2>2 DEF RTypeOK
  <2>4. \A t \in Searcher : state'[t] = "down" => replica'[t] = {}
    BY <1>1, <2>1, <2>2 DEF RTypeOK
  <2>. QED  BY <1>1, <2>1, <2>3, <2>4 DEF RTypeOK, task, etcd, history
<1> HIDE DEF Obj
<1>. QED
  BY <1>3, <1>4, <1>5, <1>7, <1>8, <1>9, <1>10, <1>11, <1>12, <1>13, <1>14, <1>15, <1>16,
     <1>17, <1>18, <1>19 DEF RNext, TaskStep, SearcherStep, UpdateMissingObject, UpdateRefused
-----------------------------------------------------------------------------
(* What a task leaves in S3 when no operation was refused: the segments it *)
(* announces, as they are now, and the older objects under other names.    *)
LEMMA StoreFacts ==
  ASSUME RInv, StoreTask, ~lost'
  PROVE  LET ins == Head(posted).inserted
             del == Head(posted).erased
         IN  /\ ~lost /\ writerUp /\ runner = "free" /\ UNCHANGED <<heap, levels, inserted>>
             /\ \A p \in ins : Serialized(p) \in bucket'
             /\ \A o \in bucket : \/ o \in bucket' \/ o[1] \in del
                                  \/ \E p \in ins : o[1] = heap[p].seg_id
             /\ \A o \in bucket' : \/ \E p \in ins : o = Serialized(p)
                                   \/ o \in bucket /\ \A p \in ins : o[1] # heap[p].seg_id
             /\ StoredIds' = (StoredIds \cup {heap[p].seg_id : p \in ins}) \ del
             /\ request'.added = {heap[p].seg_id : p \in ins}
<1> DEFINE ins == Head(posted).inserted
           del == Head(posted).erased
           new == {Serialized(p) : p \in ins}
<1>1. /\ writerUp /\ runner = "free" /\ UNCHANGED <<heap, levels, inserted>>
      /\ posted # <<>> /\ TypeOK /\ NoneWithdrawn
  BY DEF StoreTask, Locked, RunCallback, store, locals, RInv, PInv, IInv
<1>2. PICK put \in Done(new), gone \in Done(del) :
        /\ bucket' = Del(Put(bucket, put), gone)
        /\ lost' = (lost \/ put # new \/ gone # del)
  BY DEF StoreTask
<1>3. ~lost /\ bucket' = Del(Put(bucket, new), del)
  BY <1>2
<1>4. \A p \in ins : heap[p].seg_id \notin del
  BY <1>1, HeadType DEF NoneWithdrawn
<1>5. \A p : Serialized(p)[1] = heap[p].seg_id
  BY DEF Serialized
<1>6. \A o : o \in bucket' <=> /\ o[1] \notin del
                               /\ \/ o \in bucket /\ \A p \in ins : o[1] # heap[p].seg_id
                                  \/ \E p \in ins : o = Serialized(p)
  BY <1>3, <1>5 DEF Put, Del
<1>7. request' = [added |-> {o[1] : o \in new}, deleted |-> del]
  BY DEF StoreTask
<1>8. request'.added = {heap[p].seg_id : p \in ins}
  BY <1>5, <1>7
<1> HIDE DEF ins, del, new
<1>9. \A p \in ins : Serialized(p) \in bucket'
  BY <1>4, <1>5, <1>6
<1>10. StoredIds' = (StoredIds \cup {heap[p].seg_id : p \in ins}) \ del
  <2>1. ASSUME NEW e \in StoredIds' PROVE e \in (StoredIds \cup {heap[p].seg_id : p \in ins}) \ del
    <3>1. PICK o \in bucket' : e = o[1]
      BY <2>1 DEF StoredIds
    <3>. QED  BY <1>5, <1>6, <3>1 DEF StoredIds
  <2>2. ASSUME NEW p \in ins PROVE heap[p].seg_id \in StoredIds'
    BY <1>5, <1>9 DEF StoredIds
  <2>3. ASSUME NEW o \in bucket, o[1] \notin del PROVE o[1] \in StoredIds'
    <3>1. CASE \E p \in ins : o[1] = heap[p].seg_id
      BY <2>2, <3>1
    <3>2. CASE \A p \in ins : o[1] # heap[p].seg_id
      BY <1>6, <2>3, <3>2 DEF StoredIds
    <3>. QED  BY <3>1, <3>2
  <2>4. ASSUME NEW e \in (StoredIds \cup {heap[p].seg_id : p \in ins}) \ del PROVE e \in StoredIds'
    BY <2>2, <2>3 DEF StoredIds
  <2>. QED  BY <2>1, <2>4
<1>. QED  BY <1>1, <1>3, <1>6, <1>8, <1>9, <1>10 DEF ins, del

(* No step takes away what the task under way announces.                   *)
LEMMA AnnouncedStep ==
  ASSUME RInv, [RNext]_allVars
  PROVE  AnnouncedIsStored'
<1>1. AnnouncedIsStored
  BY DEF RInv
<1>2. CASE StoreTask
  <2> SUFFICES ASSUME ~lost'
               PROVE  /\ request'.added \subseteq StoredIds'
                      /\ Fetched' \subseteq {Serialized(p)' : p \in Objects'}
    BY DEF AnnouncedIsStored
  <2> DEFINE ins == Head(posted).inserted
  <2>1. /\ heap' = heap /\ request'.added = {heap[p].seg_id : p \in ins}
        /\ \A p \in ins : Serialized(p) \in bucket'
        /\ \A o \in bucket' : \/ \E p \in ins : o = Serialized(p)
                              \/ \A p \in ins : o[1] # heap[p].seg_id
    BY <1>2, StoreFacts
  <2>2. /\ Objects' = Objects /\ \A p : Serialized(p)' = Serialized(p)
        /\ \A p : Serialized(p)[1] = heap[p].seg_id
    BY <2>1 DEF Objects, Serialized, Live
  <2>3. ins \subseteq Objects
    BY <1>2, HeadType DEF RInv, PInv, IInv, StoreTask, RunCallback
  <2> HIDE DEF ins
  <2>4. request'.added \subseteq StoredIds'
    BY <2>1, <2>2 DEF StoredIds
  <2>5. ASSUME NEW o \in Fetched' PROVE \E p \in Objects' : o = Serialized(p)'
    BY <2>1, <2>2, <2>3 DEF Fetched
  <2>. QED  BY <2>4, <2>5
<1>3. CASE Quiet
  BY <1>1, <1>3 DEF Quiet, AnnouncedIsStored, StoredIds, Fetched, Serialized, Objects, Live,
                    vars, store
<1>4. CASE Write /\ Locked /\ UNCHANGED replication
  BY <1>4 DEF AnnouncedIsStored, Locked, replication, task
<1>5. CASE DropIndex \/ WriterStart \/ StoreTaskCrash
  BY <1>5 DEF AnnouncedIsStored, Locked, DropIndex, WriterStart, StoreTaskCrash, task
<1>. QED  BY <1>2, <1>3, <1>4, <1>5, StepKinds

(* Objects come and go with the ids of the callback's client.              *)
LEMMA FollowsStep ==
  ASSUME RInv, [RNext]_allVars
  PROVE  BucketFollows'
<1>1. BucketFollows
  BY DEF RInv
<1>2. CASE StoreTask
  <2> SUFFICES ASSUME ~dropped', ~lost' PROVE StoredIds' = published'
    BY DEF BucketFollows
  <2> DEFINE new == {heap[p].seg_id : p \in Head(posted).inserted}
             del == Head(posted).erased
  <2>1. published' = (published \cup new) \ del /\ ~dropped
    BY <1>2 DEF StoreTask, RunCallback
  <2>2. StoredIds' = (StoredIds \cup new) \ del /\ ~lost /\ writerUp
    BY <1>2, StoreFacts
  <2> HIDE DEF new, del
  <2>. QED  BY <1>1, <2>1, <2>2 DEF BucketFollows
<1>3. CASE Quiet
  BY <1>1, <1>3 DEF Quiet, BucketFollows, StoredIds, vars, client
<1>4. CASE Write /\ UNCHANGED replication
  <2>1. UNCHANGED published
    BY <1>4 DEF Write, AddStep, Add, Erase, AddBatch, AddDone, MergePair, MergeSkip,
                MergeLevelEnd, MergeEnd, client
  <2>. QED  BY <1>1, <1>4, <2>1 DEF BucketFollows, StoredIds, replication, history
<1>5. CASE DropIndex \/ WriterStart \/ StoreTaskCrash
  BY <1>5 DEF BucketFollows, DropIndex, WriterStart, StoreTaskCrash
<1>. QED  BY <1>2, <1>3, <1>4, <1>5, StepKinds

(* A task takes only its own segments off the way.                         *)
LEMMA StillInserting ==
  ASSUME TypeOK, RunCallback, NEW p, Inserting(p)
  PROVE  Inserting(p)' \/ p \in Head(posted).inserted
<1>1. /\ posted # <<>> /\ posted' = Tail(posted) /\ inserted' = inserted
      /\ posted \in Seq(Invocations)
  BY DEF RunCallback, locals, TypeOK
<1>2. \A k \in DOMAIN posted : k # 1 => k - 1 \in DOMAIN posted' /\ posted'[k - 1] = posted[k]
  BY <1>1
<1>3. Head(posted) = posted[1]
  BY <1>1
<1>. QED  BY <1>1, <1>2, <1>3 DEF Inserting

(* A segment that leaves the queue is in S3, and stays there.              *)
LEMMA StoredStep ==
  ASSUME RInv, [RNext]_allVars
  PROVE  LevelsStored'
<1>1. LevelsStored /\ PInv /\ TypeOK /\ Bookkeeping /\ LevelsArrive
  BY DEF RInv, PInv, IInv
<1>2. CASE StoreTask
  <2> SUFFICES ASSUME ~lost', NEW p \in LevelSegments' PROVE Inserting(p)' \/ Stored(p)'
    BY DEF LevelsStored
  <2> DEFINE ins == Head(posted).inserted
             del == Head(posted).erased
  <2>1. /\ ~lost /\ writerUp /\ UNCHANGED <<heap, levels, inserted>>
        /\ \A q \in ins : Serialized(q) \in bucket'
        /\ \A o \in bucket : \/ o \in bucket' \/ o[1] \in del
                             \/ \E q \in ins : o[1] = heap[q].seg_id
    BY <1>2, StoreFacts
  <2>2. p \in LevelSegments /\ p \in Objects
    BY <2>1 DEF LevelSegments, Objects
  <2>3. /\ RunCallback /\ posted # <<>> /\ ins \subseteq Objects
        /\ 1 \in DOMAIN posted /\ posted[1].erased = del
    BY <1>1, <1>2, HeadType DEF StoreTask, RunCallback
  <2>4. heap[p].seg_id \notin del
    BY <1>1, <2>2, <2>3, SMTT(30) DEF LevelsArrive, ErasedFrom
  <2>5. p \in ins => Stored(p)'
    BY <2>1 DEF Stored, Serialized
  <2>6. CASE Inserting(p)
    BY <1>1, <2>3, <2>5, <2>6, StillInserting
  <2>7. CASE Stored(p)
    <3>1. PICK o \in bucket : o[1] = heap[p].seg_id /\ Live(heap[p]) \subseteq o[2]
      BY <2>7 DEF Stored
    <3>2. CASE o \in bucket'
      BY <2>1, <3>1, <3>2 DEF Stored
    <3>3. ASSUME NEW q \in ins, o[1] = heap[q].seg_id PROVE p \in ins
      BY <1>1, <2>2, <2>3, <3>1, <3>3 DEF Bookkeeping
    <3>. QED  BY <2>1, <2>4, <2>5, <3>1, <3>2, <3>3
  <2>. QED  BY <1>1, <2>1, <2>2, <2>6, <2>7 DEF LevelsStored
<1>3. CASE Quiet
  BY <1>1, <1>3 DEF Quiet, LevelsStored, Stored, LevelSegments, Objects, Inserting, vars, store,
                    client, locals
<1>4. CASE Write /\ UNCHANGED replication
  <2>1. UNCHANGED <<writerUp, lost, bucket>>
    BY <1>4 DEF replication, history
  <2>. QED  BY <1>1, <1>4, <2>1, LevelStep DEF LevelsStored, Stored
<1>5. CASE DropIndex \/ WriterStart
  <2>1. levels' = <<>>
    BY <1>5 DEF DropIndex, WriterStart
  <2>. QED  BY <2>1 DEF LevelsStored, LevelSegments
<1>6. CASE StoreTaskCrash
  BY <1>6 DEF LevelsStored, StoreTaskCrash
<1>. QED  BY <1>2, <1>3, <1>4, <1>5, <1>6, StepKinds

(* What has reached a searcher, or is about to, does not get lost between  *)
(* two tasks unless the searcher counts as one that missed something.      *)
LEMMA StillReaches ==
  ASSUME RInv, [RNext]_allVars, Quiet, writerUp', NEW s \in Searcher \ missed', NEW v,
         s \notin missed => Reaches(v, s)
  PROVE  s \notin missed /\ Reaches(v, s)'
<1>1. RTypeOK
  BY DEF RInv
<1>2. CASE s \notin missed /\ Held(s) \subseteq Held(s)' /\ UNCHANGED <<task, bucket>>
  BY <1>2 DEF Reaches, Fetched, task
<1>3. CASE UNCHANGED <<replica, task, bucket, missed>>
  BY <1>2, <1>3 DEF Held
<1>4. CASE ProcessWriteRequest \/ UNCHANGED allVars
  BY <1>3, <1>4 DEF ProcessWriteRequest, allVars, replication, searchers, history
<1>5. CASE CreateIndex \/ DeleteFromNull \/ EtcdUnreachable \/ WriterCrash \/ DropIndex
  BY <1>3, <1>5 DEF CreateIndex, DeleteFromNull, EtcdUnreachable, WriterCrash, DropIndex,
                    searchers, history
<1>6. CASE ListSearcherHosts
  <2>1. /\ runner = "list" /\ targets' = hosts /\ missed' = missed \cup (Searcher \ hosts)
        /\ UNCHANGED <<request, bucket, replica>>
    BY <1>6 DEF ListSearcherHosts, searchers
  <2>2. s \in targets' /\ s \notin missed /\ Fetched' = Fetched /\ Held(s)' = Held(s)
    BY <2>1 DEF Fetched, Held
  <2>. QED  BY <2>2 DEF Reaches
<1>7. CASE TaskDone
  <2>1. runner = "notify" /\ targets = {} /\ UNCHANGED <<replica, missed>>
    BY <1>7 DEF TaskDone, searchers, history
  <2>. QED  BY <2>1 DEF Reaches, Held
<1>8. ASSUME NEW t \in Searcher, UpdateIndex(t) PROVE s \notin missed /\ Reaches(v, s)'
  <2>1. /\ replica' = [replica EXCEPT ![t] = @ \cup Fetched] /\ targets' = targets \ {t}
        /\ runner = "notify" /\ UNCHANGED <<runner, request, bucket, missed>>
    BY <1>8 DEF UpdateIndex, history
  <2>2. s \notin missed /\ Fetched' = Fetched /\ Reaches(v, s)
    BY <2>1 DEF Fetched
  <2>3. CASE s = t
    <3>1. replica'[s] = replica[s] \cup Fetched
      BY <1>1, <2>1, <2>3 DEF RTypeOK
    <3>2. v \in Held(s) \/ \E o \in Fetched : v \in o[2]
      BY <2>2 DEF Reaches
    <3>. QED  BY <2>2, <3>1, <3>2 DEF Reaches, Held
  <2>4. CASE s # t
    <3>1. replica'[s] = replica[s]
      BY <1>1, <2>1, <2>4 DEF RTypeOK
    <3>. QED  BY <2>1, <2>2, <2>4, <3>1 DEF Reaches, Held
  <2>. QED  BY <2>3, <2>4
<1>9. ASSUME NEW t \in Searcher,
             UpdateUnreachable(t) \/ NoFile(t) \/ UpdateEndless(t)
      PROVE  FALSE
  BY <1>9 DEF UpdateUnreachable, NoFile, UpdateEndless
<1>10. CASE StoreTask \/ StoreTaskCrash \/ WriterStart
  BY <1>10 DEF StoreTask, StoreTaskCrash, WriterStart, Locked, Quiet
<1>11. ASSUME NEW t \in Searcher, SearcherInit(t) PROVE s \notin missed /\ Reaches(v, s)'
  <2>1. /\ state[t] = "down" /\ replica' = [replica EXCEPT ![t] = {}]
        /\ UNCHANGED <<task, bucket, missed>>
    BY <1>11 DEF SearcherInit, Reg!Start, history
  <2>2. UNCHANGED replica
    BY <1>1, <2>1 DEF RTypeOK
  <2>. QED  BY <1>3, <2>1, <2>2
<1>12. ASSUME NEW t \in Searcher, Listen(t) \/ RemoveSearcherHost(t)
       PROVE  s \notin missed /\ Reaches(v, s)'
  BY <1>3, <1>12 DEF Listen, RemoveSearcherHost, history
<1>13. ASSUME NEW t \in Searcher, Forget(t) PROVE s \notin missed /\ Reaches(v, s)'
  <2>1. /\ replica' = [replica EXCEPT ![t] = {}]
        /\ missed' = IF replica[t] # {} THEN missed \cup {t} ELSE missed
        /\ UNCHANGED <<task, bucket>>
    BY <1>13 DEF Forget
  <2>2. s \notin missed /\ (s # t \/ replica[s] = {})
    BY <2>1
  <2>3. replica'[s] = replica[s]
    BY <1>1, <2>1, <2>2 DEF RTypeOK
  <2>. QED  BY <1>2, <2>1, <2>2, <2>3 DEF Held
<1>14. CASE UpdateAverageResponseTime
  BY <1>3, <1>14 DEF UpdateAverageResponseTime, history
<1>. QED
  BY <1>4, <1>5, <1>6, <1>7, <1>8, <1>9, <1>10, <1>11, <1>12, <1>13, <1>14
     DEF RNext, TaskStep, SearcherStep, Crash, GracefulShutdown, UpdateMissingObject,
         UpdateRefused

(* What a task has announced reaches every searcher that misses nothing.   *)
LEMMA ReachStep ==
  ASSUME RInv, [RNext]_allVars
  PROVE  LevelsReach'
<1>1. LevelsReach /\ PInv /\ TypeOK /\ RTypeOK
  BY DEF RInv, PInv, IInv
<1>2. CASE StoreTask
  <2> SUFFICES ASSUME ~lost', NEW p \in LevelSegments', ~Inserting(p)',
                      NEW v \in Live(heap'[p]), NEW s \in Searcher \ missed'
               PROVE  Reaches(v, s)'
    BY DEF LevelsReach
  <2> DEFINE ins == Head(posted).inserted
  <2>1. /\ ~lost /\ writerUp /\ runner = "free" /\ UNCHANGED <<heap, levels, inserted>>
        /\ \A q \in ins : Serialized(q) \in bucket'
        /\ request'.added = {heap[q].seg_id : q \in ins}
    BY <1>2, StoreFacts
  <2>2. p \in LevelSegments /\ RunCallback /\ runner' = "list" /\ UNCHANGED <<replica, missed>>
    BY <1>2, <2>1 DEF LevelSegments, Objects, StoreTask, searchers
  <2>3. CASE Inserting(p)
    <3>1. p \in ins
      BY <1>1, <2>2, <2>3, StillInserting
    <3>2. Serialized(p) \in Fetched' /\ v \in Serialized(p)[2]
      BY <2>1, <3>1 DEF Fetched, Serialized
    <3>. QED  BY <2>2, <3>2 DEF Reaches
  <2>4. CASE ~Inserting(p)
    <3>1. Reaches(v, s)
      BY <1>1, <2>1, <2>2, <2>4 DEF LevelsReach
    <3>2. v \in Held(s)
      BY <1>1, <2>1, <3>1 DEF Reaches, RTypeOK
    <3>. QED  BY <2>2, <3>2 DEF Reaches, Held
  <2>. QED  BY <2>3, <2>4
<1>3. CASE Quiet
  <2> SUFFICES ASSUME writerUp', ~lost', NEW p \in LevelSegments', ~Inserting(p)',
                      NEW v \in Live(heap'[p]), NEW s \in Searcher \ missed'
               PROVE  Reaches(v, s)'
    BY DEF LevelsReach
  <2>1. writerUp /\ ~lost /\ p \in LevelSegments /\ ~Inserting(p) /\ v \in Live(heap[p])
    BY <1>3 DEF Quiet, LevelSegments, Objects, Inserting, vars, store, client, locals
  <2>2. s \notin missed => Reaches(v, s)
    BY <1>1, <2>1 DEF LevelsReach
  <2>. QED  BY <1>3, <2>2, StillReaches
<1>4. CASE Write /\ UNCHANGED replication
  <2>1. /\ UNCHANGED <<writerUp, lost, missed>>
        /\ \A v, s : Reaches(v, s)' <=> Reaches(v, s)
    BY <1>4 DEF replication, history, searchers, task, Reaches, Held, Fetched
  <2>. QED  BY <1>1, <1>4, <2>1, LevelStep DEF LevelsReach
<1>5. CASE DropIndex \/ WriterStart
  <2>1. levels' = <<>>
    BY <1>5 DEF DropIndex, WriterStart
  <2>. QED  BY <2>1 DEF LevelsReach, LevelSegments
<1>6. CASE StoreTaskCrash
  BY <1>6 DEF LevelsReach, StoreTaskCrash
<1>. QED  BY <1>2, <1>3, <1>4, <1>5, <1>6, StepKinds
-----------------------------------------------------------------------------
(* The invariant holds before the first request ...                        *)
LEMMA InitRInv == RInit => RInv
<1> SUFFICES ASSUME RInit PROVE RInv
  OBVIOUS
<1>1. PInv /\ OthersLeave /\ LevelSegments = {} /\ published = {}
  <2>1. Init
    BY DEF RInit
  <2>. QED  BY <2>1, InitPInv DEF Init, LevelSegments
<1>2. RTypeOK
  BY DEF RInit, RTypeOK, Reg!Init
<1>3. AnnouncedIsStored /\ BucketFollows
  BY <1>1 DEF RInit, AnnouncedIsStored, BucketFollows, StoredIds
<1>4. LevelsStored /\ LevelsReach
  BY <1>1 DEF LevelsStored, LevelsReach
<1>. QED  BY <1>1, <1>2, <1>3, <1>4 DEF RInv

(* ... and every step of the services keeps it.                            *)
LEMMA NextRInv == RInv /\ [RNext]_allVars => RInv'
BY IndexPart, RTypeStep, AnnouncedStep, StoredStep, ReachStep, FollowsStep DEF RInv

(* The inductive invariant of the writer, S3 and the searchers.            *)
THEOREM ReplicationInvariance == RSpec => []RInv
BY InitRInv, NextRInv, PTL DEF RSpec

(* The services keep their types; a task ends with no host left over, and  *)
(* a searcher's memory ends with its process.                              *)
THEOREM ServicesTypeCorrect == RSpec => []RTypeOK
<1>1. RInv => RTypeOK
  BY DEF RInv
<1>. QED  BY ReplicationInvariance, <1>1, PTL

(* A searcher never looks for an object that is not there and never loads  *)
(* another segment than the one announced, unless S3 refused an operation. *)
THEOREM SearchersFindObjects == RSpec => []AnnouncedIsStored
<1>1. RInv => AnnouncedIsStored
  BY DEF RInv
<1>. QED  BY ReplicationInvariance, <1>1, PTL

(* Nothing is on its way once the writer has caught up.                    *)
LEMMA DrainedFacts ==
  ASSUME RInv, Drained
  PROVE  PInv /\ pc = "idle" /\ posted = <<>> /\ \A p : ~Inserting(p)
<1>1. PInv /\ pc = "idle" /\ posted = <<>>
  BY DEF RInv, Drained
<1>2. inserted = {} /\ DOMAIN posted = {}
  BY <1>1 DEF PInv, ErasedAreOld
<1>. QED  BY <1>1, <1>2 DEF Inserting

(* A writer that has caught up has every segment of the levels in S3 under *)
(* its present id, after dropped shards and restarts too.                  *)
THEOREM LevelsReachS3 == RSpec => []CurrentIsStored
<1>1. RInv => CurrentIsStored
  <2> SUFFICES ASSUME RInv, Drained, NEW p \in LevelSegments PROVE Stored(p)
    BY DEF CurrentIsStored, Stored
  <2>. QED  BY DrainedFacts DEF RInv, LevelsStored, Drained
<1>. QED  BY ReplicationInvariance, <1>1, PTL

(* ... and no orphans, while the shard stayed listed and the writer lived. *)
THEOREM NoOrphans == RSpec => []BucketMatches
<1>1. RInv => BucketMatches
  <2> SUFFICES ASSUME RInv, Drained, ~dropped
               PROVE  StoredIds = {heap[p].seg_id : p \in LevelSegments}
    BY DEF BucketMatches
  <2>1. published = {heap[p].seg_id : p \in LevelSegments}
    BY DrainedFacts, CaughtUp DEF RInv
  <2>2. StoredIds = published
    BY DEF RInv, Drained, BucketFollows
  <2>. QED  BY <2>1, <2>2
<1>. QED  BY ReplicationInvariance, <1>1, PTL

(* A searcher that was registered at every update, and lost none of its    *)
(* memory, finds every vector of a sealed segment that was not erased.     *)
THEOREM ReplicasCatchUp == RSpec => []ReplicaComplete
<1>1. RInv => ReplicaComplete
  <2> SUFFICES ASSUME RInv, Drained, NEW s \in Searcher \ missed,
                      NEW p \in LevelSegments, NEW v \in Live(heap[p])
               PROVE  v \in Held(s)
    BY DEF ReplicaComplete
  <2>1. Reaches(v, s)
    BY DrainedFacts DEF RInv, LevelsReach, Drained
  <2>2. runner = "free" /\ targets = {}
    BY DEF RInv, RTypeOK, Drained
  <2>. QED  BY <2>1, <2>2 DEF Reaches
<1>. QED  BY ReplicationInvariance, <1>1, PTL
=============================================================================
