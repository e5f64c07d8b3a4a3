# Vecodex in TLA+

TLA+ models of Vecodex: the segmented vector index of `src/index`, the services
built on it in `src/app` (Writer, Searchers and Coordinator, which meet through
gRPC, etcd and S3), and the Kubernetes operator of `src/kube-operator`. TLC checks
small instances. TLAPS proves the central properties for every value of the
constants.

## The system

| Part | State | Operations | What is hard about it | Module |
|---|---|---|---|---|
| `FaissIndex`, `Segment` | `ids_`, `inv_ids_`, `erased_`, `next_id`, `seg_id` | `add_batch`, `erase_batch`, `merge_from_other`, `size`, serialisation | an id added twice; renumbering in hash order; `size()` below zero on `size_t` | `Segment`, `FaissIndex` |
| `Index` | `segments_`, `last_`, callback | `add`, `erase`, `pushSegment`, `eraseSegment` | batches, sealing, the order of callback and merge | `Index` |
| `SegmentStorage` | `levels` | `add`, `merge` | cascading merges under a budget, renaming while ids are on the way out | `Index` |
| Search | none | `Index::search`, `searchQuery`, `single_search` | erased vectors among the nearest, k per segment and over all | `Search` |
| Writer | one index per shard, queue of update tasks | write and delete requests, `updateIndexesState`, `chooseShard`, `indexUpdateCallback` | tasks run late and see segments as they are then; remote calls fail; an exception on a pool thread ends the process; a restart repeats segment ids | `Replication`, `Placement` |
| Searcher | one index per shard | registration, update and search requests | registered before it listens; crashes; starts empty | `Replication`, `Coordinator`, `Registry` |
| Coordinator, `StatsManager` | cache of searchers, error counts, average times | search requests | stale cache, errors counted late, evictions | `Coordinator`, `Placement` |
| Merging | none | `MergeSearcherAnswers` | order of fused rankings, ties | `Merging` |
| `EtcdClient`, `StorageClient` | keys, objects | one remote call each | unreachable, refused, interleaved with everyone | `Registry`, `Replication`, `Placement` |
| `PrometheusExposer` | families, counters, gauges | find, create, change | one operation is several critical sections | `Metrics` |
| Kubernetes operator | deployments, ingress | `Reconcile` | lagging caches, failures between two objects, changes by others | `Operator` |

A write request reaches the Writer, which chooses a shard and adds the vector to
an open segment. Full segments are sealed, merged by levels, and announced
through the update callback. The callback posts a task that stores segments in
S3 and tells the Searchers listed in etcd to fetch them. A search request reaches
the Coordinator, which asks the Searchers listed in etcd and fuses their answers.
It stores the response time of each shard in etcd, which the Writer's choice
reads. The operator turns a `VecodexSet` into deployments and an ingress.

## Modules

**`Segment`**: a segment is a record of the fields of `FaissIndex` plus its id.
A vector is a pair of its id and a number that is unique in the index. The
number stands for the position inside the segment, and a vector keeps it when a
merge copies it. That is sound while no segment receives a vector it has, which
is `LevelsDisjoint`. `size` keeps the arithmetic of `size_t`, modulo `SizeMod`.

**`FaissIndex`**: the same operations with the positions of the code. Each
segment numbers its vectors from 0, and a merge numbers what it copies anew in
any order a hash map can have. `ImplementsSegment` says that every operation does
what `Segment` says, under the mapping from positions to vectors. The module also
has the file format, as a sequence of words.

**`Index`**: `Index` and `SegmentStorage` in the role the Writer gives them. A
`shared_ptr` is a position of `heap`, and `segments_` counts the entries of the
vector per object. `add` is unrolled: `Add`, one `AddBatch` per turn of its
loop, `AddDone` (callback), then `MergePair` / `MergeSkip` per slot,
`MergeLevelEnd` per level and `MergeEnd`. `add` holds `segments_m_` throughout,
and the client of the callback needs a lock its caller holds, so nothing else
is enabled meanwhile. `RunCallback` is the client, which handles calls later and
in order. The n-th value of `rand()` is named n; distinct values are assumed
within one life of a process. Null slots in `levels` are dropped at once.
`docs` is a history variable.

**`DocStore`**: the abstract promise of the index. It is a set of documents. During
a call of `add` it grows by the vectors just received and loses nothing; between
calls it changes only by losing an id with everything stored under it. `Index`
implements it for clients that do not add an id they can still find
(`ImplementsDocStore`, with `found` mapped to the vectors a search ranges over,
`received` to `added` and `adding` to a call being under way). As merges belong to a
call of `add`, a vector that a merge lost is not a step of `DocStore`. What `DocStore`
does not say is that an id lost between calls is one that an erase named; `NoLoss`
says that.

**`Search`** extends `Index`: search as operators on a state. A query gives each
vector a distance. Where equal distances leave faiss a choice, the operators
return every outcome. The faiss index is the flat, exact one.

**`Registry`**: what the services share about one shard, that is, its keys in etcd
and which of its Searchers run. `Replication` is composed with it (`Reg!Start`,
`Reg!Evict`, ... inside its actions). `Coordinator` is shown to take no other steps
on any shard (`ImplementsRegistry`). So what `Replication` concludes with an
arbitrary Coordinator holds with the one of the code.

**`Replication`** extends `Index`: one shard with its Writer, S3, etcd and
Searchers. `CreateIndex` and `DropIndex` are `updateIndexesState`, which runs in
every write request: a shard without any key in etcd loses its index.
`ProcessWriteRequest` is the rest of a request. `StoreTask`, `ListSearcherHosts`,
`UpdateIndex` and `TaskDone` are the remote calls of one update task; `runner` says
how far it is. An object in S3 is the id, the live vectors and the `size()` of a
segment. The size matters to a Searcher: `SegmentStorage::add` looks for the first
power of two that is not below it, and there is none when it has wrapped
(`Endless`). The loop then adds levels until the memory is gone (`UpdateEndless`).
The ways a task fails are actions of their own and end the Writer, since nothing
catches an exception on the pool thread. `WriterCrash` and `StoreTaskCrash` end the
process anywhere, the latter between two operations on S3; a call that breaks off
although the Searcher listens ends the Writer like a crash before or after the call.
`WriterStart` begins with empty memory and, since `rand()` is never seeded, with the
segment ids of the first life. `sameName`, chosen in the initial state, says whether
the shard is called like its index: if not, a delete request dereferences null
(`DeleteFromNull`). The configurations in the repository call their shards "0" and
"1". `GracefulShutdown` is the destructor of the Searcher; `main` never gets there,
an embedding program may.

**`Placement`**: several shards. It has the running average of `Stats.h` as an exact
fraction, over a clock that is finer than the microseconds etcd gets (`Unit`), its
rounding on the way to etcd, stores that fail or are left out after an error, and a
write request that lists shards and reads their times one call at a time.

**`Coordinator`**: one index with several shards. `Receive`, `ListShardIds`,
`ListSearcherHosts`, `StartLoop`, one ask (`AskAnswered` / `AskFailed`) and one
settlement (`SettleRemove` / `SettleStats`) per cached searcher, `Respond`;
`EtcdUnreachable` and `SettleUnreachable` are the exceptions that leave the handler,
the latter with the time stored or not, as the reply may be what was lost. A call
may fail whatever the Searcher does. A Searcher registers for its shards one call at
a time (`AddSearcherHost`) and listens after the last. The mutex admits one request
at a time. Error counts are only compared with a limit and saturate there, and
responses are counted modulo 1, so behaviours need no bound on requests or restarts.
Hash-map order is any order. `etcdFaults` is chosen in the initial state and says
whether etcd may fail in the behaviour.

**`Merging`**: `MergeSearcherAnswers`, with scores scaled to integers. Ties come
out in any order.

**`Metrics`**: the exposer under concurrent handlers, one step per critical section,
and the `vectors_count` gauge of the Writer, read and written back as a `size_t`. A
gauge is a double: it holds every integer up to `ExactMax` (2^53) and beyond that the
multiples of powers of two.

**`Operator`**: `Reconcile` for one set, a step per object in the order of the code.
Caches lag separately for every object, a write from a stale read is refused, and
a write may succeed without the operator learning of it. A restarted operator begins
with the caches that a consistent list of the API server fills, so both are current
then. An object is told by the
version of the spec it was made from and by its owner. The API server, the work
queue and `CreateOrUpdate` are external.

**`IndexProofs`**, **`ClientProofs`**, **`SearchProofs`**, **`FaissProofs`**,
**`ReplicationProofs`**, **`CoordinatorProofs`** (with `Merging`) and
**`ServiceProofs`** (`Placement`, `Metrics` and `Operator`): lemmas and theorems.
**`FoldTheorems`**: lemmas about folds. **`MC*`**: instances. Definitions whose
comment says "Mutant" are deliberate bugs in the definition that follows them; no
specification uses them, and they show that each property can fail.

## Runs

| Run | Config | Properties | What it shows |
|---|---|---|---|
| `index` | `MCIndex.cfg` | `EraseReachesAll`, `ImplementsDocStore`, `AddReturns`, `CallbacksDrain` | a client that never re-adds an id it can find sees a plain set of documents through adds, erases and merges; nothing erased comes back; adds return and callbacks drain |
| `index_overwrite` | `MCSearch.cfg` | `TypeOK`, `NoLoss`, `LevelsDisjoint`, `Bookkeeping`, `PublishedMatches`, `NoEmptyBatch`, `SearchExact`, `MergePreservesSearch` | clients that re-add ids, with sizes that wrap: nothing is lost, merges change nothing a search sees, the late callback client ends with the right ids, and every query in every state gets the right answer |
| `erased_are_found` | `MCIndexErasedAreFound.cfg` | `ErasedAreFound` | violated, see Findings |
| `erased_is_gone` | `MCIndexErasedIsGone.cfg` | `ErasedIsGone` | violated, see Findings |
| `faiss_index` | `MCFaissIndex.cfg` | `ImplementsSegment`, `RoundTrip` | positions do what `Segment` says; a file reads back as the segment written |
| `replication` | `MCReplication.cfg` | `AnnouncedIsStored`, `CurrentIsStored`, `BucketMatches`, `ReplicaComplete` | through cascading merges and a crash and restart of the Writer, announced objects exist and are current, S3 holds what the levels hold, and an uninterrupted Searcher is complete |
| `replication_faults` | `MCReplicationFaults.cfg` | `RTypeOK`, `ReplicaComplete`, `TaskEnds`, `UpdatesDrain` | two Searchers, refused S3 operations, lost etcd, deletes (fatal or not), re-added ids and segments of wrapped size: tasks end and the queue drains, or the Writer is gone |
| `coordinator` | `MCCoordinator.cfg` | `AnswersComplete`, `EvictionNeedsFailure`, `EvictedShardIsListed`, `ImplementsRegistry`, `RequestEnds`, `DeadIsEvicted` | a response covers every Searcher that was registered and up throughout; an eviction needs a failure in the same shard and leaves the shard listed; requests end; a dead Searcher leaves etcd |
| `merging` | `MCMerging.cfg` | `Dominance`, `Consensus`, `ScoresExact` | the score map against its defining sum, repeated documents included; the fused order of documents |
| `metrics` | `MCMetrics.cfg` | `CountsExact`, `GaugeExact`, `CallReturns` | no increment is lost, the gauge follows the requests until it wraps or leaves the exact doubles, no call waits for ever |
| `placement` | `MCPlacement.cfg` | `ChosenIsFastest`, `TimeWithinAnswers` | a document goes to the fastest shard as far as times stood still; the recorded time of a shard lies between half its fastest and its slowest answer, up to rounding |
| `operator` | `MCOperator.cfg` | `NothingForgotten`, `NoRollback`, `Converges`, `Repaired` | no change is forgotten or rolled back; objects become what the set says; drift is repaired if the cache resyncs |

`Overwrite = TRUE` allows every behaviour that `FALSE` allows, so the invariants of
`index_overwrite` cover both kinds of client. `MCIndex.cfg` checks what is true of
the second kind only.

**Bounds.** `MaxAdds`, `MaxBatch`, `MaxStarts`, `MaxLives`, `MaxResponses`,
`MaxChanges`, `MaxLen`, `MaxK`, `MaxCalls`, `MaxVersions`, `MaxFaults` and
`MaxDrifts` are bounds; all sit in guards, initial states or the range of a
property's quantifier.

- Index: thresholds of 1 and 2 with the additions allowed give segments on three
  levels, a merge of merged segments, a budget that runs out in the middle of a
  level, and sizes that wrap. `SizeMod` is 64 in place of 2^64: large against every
  size that occurs, so a wrapped value is as far from a real one as in the code.
  The code's merge budget of 200 is `MergeAmount`, small so that both outcomes of
  the comparison occur.
- Search: two distances give ties and strict orders among up to five vectors, and
  k of 1 and 2 is less than, equal to and more than what a segment holds.
- Replication: four additions give cascading merges with tasks queued behind them;
  two lives of the Writer are what it takes to repeat an id. With faults, two
  Searchers and two starts, two additions of one document are enough for a merge, and
  with the erases in between for an object of wrapped size.
- Coordinator: one host serves both shards and one serves only the second, which
  gives overlapping, foreign and exclusive Searchers.
- Metrics: three threads and five calls, a `SizeMod` of 4 and an `ExactMax` of 2, so
  that the gauge rounds at the top and wraps below zero.
- Placement: a clock of quarter microseconds and times of 0, 3 and 16 of them average
  to fractions that round up, down and to zero.
- Operator: two specs (an edit, or a deletion and re-creation), a fault and a drift
  at any point.

Symmetry of documents, Searchers or shards is used in runs without liveness.

**Deadlock** checking is off in `Replication`, where a terminated Writer, dead
Searchers and used-up starts leave nothing to do, in `Merging`, which is a
function that returns, and in `Metrics` and `Operator`, where the calls or edits
allowed are used up and nothing is left to handle. `CallReturns` shows
that no thread of `Metrics` is stuck by then.

**Fairness.** No fairness is assumed of clients, crashes, faults or restarts.

- `Index`: a thread inside `add` goes on, and the runner takes posted calls.
- `Replication`: the same, for tasks that are not blocked by a lock, and a started
  server gets to listen. Refused operations and an etcd that does not answer are no
  part of what a task is fair to (`TaskStep`).
- `Coordinator`: a request's thread goes on. `DeadIsEvicted` has recurring requests
  and an etcd that answers as premises.
- `Metrics`: a thread that handles a request goes on. Weak fairness is enough: a
  request has `runner_lock` before its first step, and the lock of the exposer is
  free again after every critical section.
- `Operator`: the worker takes the queued request and goes on, watches deliver, and
  the garbage collector runs. controller-runtime and Kubernetes promise
  these. `Repaired` has recurring resyncs of the cache as a premise, since
  controller-runtime's period is configurable and the code does not set it.

The code sets no deadlines, so a peer that accepts a call and never answers would
hold the locks for ever; the models take a peer to answer or to fail.

## Proofs

Each holds for all values of the constants that satisfy the named assumption of
the module (`DocAssumption`, `SizeModAssumption`, `IndexAssumption`,
`SearchAssumption`, `FaissAssumption`, `MergingAssumption`, `ReplicationAssumption`,
`CoordinatorAssumption`, `MetricsAssumption`, `PlacementAssumption`,
`OperatorAssumption`); two theorems have a hypothesis of their own: `BatchesNotEmpty`,
and `IndexIsDocStore`, which is about clients with `~Overwrite`.

**Index** (`IndexProofs`, which begins with lemmas about one segment):
`TypeCorrect`, `NothingLost` (`NoLoss`), `LevelsStayDisjoint`, `MergeIsInvisible`
(`MergePreservesSearch`). The inductive invariant is
`IInv == TypeOK /\ LevelsDisjoint /\ Bookkeeping /\ NoLoss`. `NoLoss` alone is not
inductive. `MergeLevelEnd` takes entries out of `segments_` by id, so one must know
that an id on its way out belongs to no segment of the levels, that ids are
unique, and that whatever goes out was absorbed by a segment that goes in: that is
`Bookkeeping`. It also has the invariant of the class, `Consistent`, and that the
locals are empty between levels. `LevelsDisjoint` is needed because a segment that
already had a vector, marked erased, would hide the copy it absorbs. There is one
lemma per action. `MergePair` is split into what it does to objects (`PairHeap`)
and to levels (`PairLevels`).

**Clients of the index** (`ClientProofs`), in three parts.

- `BatchesNotEmpty` (`NoEmptyBatch`): `add` does not throw for want of room. It
  assumes `MaxAdds + Threshold < SizeMod`: all vectors ever added and one segment
  stay below 2^64. Without it `threshold - size()` could wrap to 0. `BatchInv`
  adds that the open segment holds, by its net size (which may be negative), less
  than the threshold; the room computed on `size_t` is then the true one
  (`ModRoom`).
- `ErasedStaysErased` (`EraseReachesAll`) and the refinement `IndexIsDocStore`
  (`ImplementsDocStore`), for clients with `~Overwrite`. `SInv` adds that `ids_`
  names the position of every live vector, that no two visible vectors share an
  id, and what the caller of `add` promised about the ids left.
- `ClientFollowsLevels` (`PublishedMatches`), `BookkeepingHolds`. A posted call
  names segments by pointer and is read late, after renamings. `PInv` adds to
  `IInv` that each segment of the levels has reached the client or is in a call
  still to come and that no call takes its id away (`LevelsArrive`); that what `add`
  and `merge` are about to insert is in the levels (`InsertedInLevels`), that no
  call withdraws a segment it inserts (`NoneWithdrawn`), and that only ids given
  out before are withdrawn (`ErasedAreOld`). `OthersLeave` adds that every other id
  the client has or will read is withdrawn later. That one ends when an index is
  dropped, which only `Replication` does, so it is kept apart from `PInv`.

**Search** (`SearchProofs`): `SearchesAreExact` (`SearchExact`), for all distances,
every k and every state `IInv` allows. The lemmas follow the code from the inside
out. `SingleSearchProps`: asking faiss for k plus the number of erased positions
leaves k nearest live vectors or all of them, since each erased position takes up
one place (this needs `Consistent`). `FarthestProps`: the map drops a result only
for another of the same id. `KthStatProps`: the bounded set keeps k results if it
drops any, and those it keeps come before those it drops. `DistinctExact` puts
them together: a vector that is not in the answer was dropped by `kth_stat`, or
its segment gave k nearer ones. The counting goes by ranks and least elements.

**Segments** (`FaissProofs`): `FaissRefinesSegment` (`ImplementsSegment`) and
`FileRoundTrip` (`RoundTrip`), for batches of any length and maps written in any
order. `FaissIndex` and `Merging` go through data one entry after the other, and the
library defines such folds by recursive functions. Its induction theorems take an
operator, which the provers cannot instantiate, so `FoldTheorems` starts from a least
counterexample: `Climb` is induction over a set of numbers, and `FoldExists` and
`FoldLeftExists` show that a fold exists and satisfies its equation.
`AddBatchAppends` says what a batch leaves in a segment, `MergeAppends` that a merge
is the batch of the live vectors in some order, `WriteMapWords` and `ReadBack` where
the words of a map lie in the file. The inductive invariant is `FaissInv`. Both
segments are `WellFormed`: positions without gaps, and `ids_` names a position that
`inv_ids_` gives back. Neither holds a vector twice (`OwnNumbers`), nor one of the
other (`Apart`): in the sets of `Segment` a second copy would be lost, and an erased
one would hide the live one. The file is one that `SerializeSegment` can have written
for `saved`.

**Replication** (`ReplicationProofs`): `ServicesTypeCorrect` (`RTypeOK`),
`SearchersFindObjects` (`AnnouncedIsStored`), `LevelsReachS3` (`CurrentIsStored`),
`NoOrphans` (`BucketMatches`), `ReplicasCatchUp` (`ReplicaComplete`), for any set of
Searchers. None of these is inductive, as four of them speak of a Writer that has
caught up. `RInv` says where everything is before that: each segment of the levels
is in a task still to come, or in S3 under its present id with all its live vectors
(`LevelsStored`), and each of its vectors is then on every Searcher that missed
nothing or among what the task under way still has it fetch (`LevelsReach`); while
the shard stays listed the bucket has the ids of the callback's client
(`BucketFollows`). The index keeps `PInv`: `StepKinds` sorts the steps of the
services into writes, callbacks, the loss of the index (`DropPInv`), a restart
(`StartPInv`) and steps that leave the index alone. Steps that bring the Writer
down, as a segment without a level does, end what `RInv` promises until the next
start. `LevelStep` is the fact about `Index` the others rest on: after a write, a
segment of the levels is on its way to the client or has its old id and no new
vectors.

**Coordinator** (`CoordinatorProofs`): `ResponseCoversSteady` (`AnswersComplete`),
`EvictionFollowsFailure`, `EvictionKeepsShard`, and `ShardsAreRegistries`
(`ImplementsRegistry`). `SteadyIsReached` follows a Searcher from etcd through the
cache and the list of asks to the answers. `ErrorsHappened` ties a count to an ask
that failed and to the stored time.

**Merging** (`CoordinatorProofs`): `MergedScores` (`ScoresExact`), `MergedDominance`
(`Dominance`) and `MergedConsensus` (`Consensus`), for any number of answers of any
length; scores are exact fractions, as in the model. The inductive invariant
`MergeInv` is `ScoresExact` with the result being a beginning of the sorted keys. A
sum over a set does not depend on the order of the fold (`Measure`, by induction over
finite sets, `SubsetClimb`), so a new place adds its reciprocal (`AddedFacts`),
better ranks give a larger sum (`MeasureLifts`), and a sum lies between its smallest
and its largest addend times their number (`MeasureBounds`). An answer may name a
document more than once, so `Dominance` asks for an earlier place of the one document
for each place of the other, and `Consensus` counts places. A document named k + 1
times in answers of length L scores at least (k + 1) / (60 + L), one named k times at
most k / 61, and the first is larger just when k (L - 1) < 61: that is the condition
in `Consensus`. The code bounds neither number: a document named once loses to one
named twice in answers of up to 61 places, one named nine times to one named ten times
only up to 7, and beyond that good ranks can make up for a place.

**Metrics** (`ServiceProofs`): `NoIncrementLost` (`CountsExact`) and
`GaugeFollowsWrites` (`GaugeExact`), for any number of threads. The strengthening is
that a family exists when it is used and a metric without one is 0
(`FamiliesFirst`), and that what a request will store is one more or less than the
present count (`StoresNext`), which needs the exclusion by `runner_lock` in
`MetricsTypeOK`. `GaugeFacts` says that the conversions to a double and back are exact
up to `ExactMax`.

**Placement** (`ServiceProofs`): `FastestIsChosen` (`ChosenIsFastest`), by the loop
invariant `BestSoFar`, and `RecordedTimesFit` (`TimeWithinAnswers`), by arithmetic on
the average as a fraction: while a shard has no error, the average, a sum of n answers
over n + 1, is between half the fastest and the slowest, and no time is stored after
an error.

**Operator** (`ServiceProofs`): `ForgetsNothing` (`NothingForgotten`) and
`NeverRollsBack` (`NoRollback`). The strengthening is an order: what a run has read
is no newer than the cache, which is no newer than the API server (`ReadsOrdered`),
and no object is newer than a set somebody may still write it from
(`ObjectsOrdered`). `CacheTrue` is why leaving an ingress alone on the word of the
cache is sound.

The type invariants of `Coordinator`, `Metrics` and `Operator` are proved there too
and not repeated in the runs.

Only model-checked: liveness (beyond TLAPS here, as is `ENABLED`), that is
`AddReturns`, `CallbacksDrain`, `TaskEnds`, `UpdatesDrain`, `RequestEnds`,
`DeadIsEvicted`, `CallReturns`, `Converges` and `Repaired`. Every invariant and every
other property of a passing run is also a theorem.

## Findings

- `erased_are_found`: `merge` renames the absorbing segment before looking up the
  ids to erase, so the assertion that each is found does not hold, and the
  segment stays in `segments_` twice. `NoLoss` and `MergePreservesSearch` hold
  regardless: the second entry costs a repeated search and nothing else.
- `erased_is_gone`: an id added again before its erase leaves its older vector
  findable.

What the models show of the code, without a run that states the opposite:

- After one failed ask of a shard, the Coordinator evicts every host of that shard
  as it asks it, since the count is per shard and never reset.
- A search request that names a shard can bring down Searchers of other shards the
  Coordinator has cached.
- Losing the last key of a shard makes the Writer drop the index. While etcd
  answers, evictions alone do not lead there (`EvictedShardIsListed`).
- One unreachable Searcher ends the Writer.
- The vectors of a re-added id crowd other documents out of a search for several
  results (`Segment.h:61`). `SearchExact` therefore promises the k nearest only while
  no id has two vectors.
- The average response time divides by one more than the responses so far, so the
  first answer counts half (`Stats.h:55`), and the first time stored is 0.
  `TimeWithinAnswers` bounds what is recorded by half the fastest answer, or zero.
- A segment whose `size()` has wrapped makes a Searcher that is told of it allocate
  levels without end (`IIndex.h:116`).
- `vectors_count` counts delete requests, not deleted vectors, and wraps below 0, to
  a value no double holds.
- The operator creates no Service and never applies the `command` of a `NodeSpec`.
  It does not watch the objects it owns.

## Not modelled

- The `async_*` calls: each dereferences a null `promise_ptr` first (`IIndex.h:61`,
  `76`, `92`), and nothing calls them.
- The approximate answers of an HNSW index, which have no definition to compare with.
- Two writers or two shards that use a Searcher's working directory at once
  (`Searcher.cpp:83`), and the race on the Searcher's map of shards (`Searcher.cpp:38`).
- Configuration parsing, start-up flags, the bytes of a file, login and bucket
  creation of the S3 client, and the publishing of metrics.
- Services, labels, ports and the other contents of the operator's objects.
- Generated code.

`PROJECT.json` lists the components with their status and reason.
