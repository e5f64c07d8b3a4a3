---------------------------- MODULE ServiceProofs ----------------------------
(***************************************************************************)
(* Proofs about three parts of the service that stand by themselves.       *)
(* Operator, for every number of specs, faults and drifts: Reconcile       *)
(* forgets no change and never rolls an object back.  Placement, for all   *)
(* shards, response times and units of the clock: a document goes to the   *)
(* shard with the least recorded time, which lies between the fastest and  *)
(* the slowest answer but for rounding.  Metrics, for every number of      *)
(* threads, width of size_t and precision of doubles: no increment of a    *)
(* counter is lost, and the gauge follows the writes while it is exact.    *)
(***************************************************************************)
EXTENDS Operator, Placement, Metrics, TLAPS

(* v is not newer than w, and is w when it is as new.                      *)
NotNewer(v, w) == v.gen <= w.gen /\ (v.gen = w.gen => v = w)

(* What Reconcile reads is never ahead of the cache, nor that of the API   *)
(* server, and while nothing is queued the run works on what is cached.    *)
ReadsOrdered ==
  /\ set # None => set.gen <= version
  /\ seen # None => seen.gen <= version
  /\ stage > 0 => vecodex.gen <= version
  /\ set # None /\ seen # None => NotNewer(seen, set)
  /\ set # None /\ stage > 0 => NotNewer(vecodex, set)
  /\ seen # None /\ stage > 0 => NotNewer(vecodex, seen)
  /\ stage > 0 /\ ~queued => vecodex = seen

(* No object is ahead of a set that anybody is going to write it from.     *)
ObjectsOrdered ==
  \A o \in Names :
    /\ cache[o] # None => cache[o].gen <= version
    /\ objects[o] # None =>
         /\ objects[o].gen <= version
         /\ set # None => objects[o].gen <= set.gen
         /\ seen # None => objects[o].gen <= seen.gen
         /\ stage > 0 => objects[o].gen <= vecodex.gen

(* An object that is up to date in the cache is so, unless others have     *)
(* changed it: leaving an Ingress alone on the word of the cache is sound. *)
CacheTrue ==
  set # None => \A o \in Names :
    cache[o] # None /\ cache[o].owner = set.uid /\ cache[o].gen = set.gen
      => Match(o) \/ o \in drifted

IInv == TypeOK /\ ReadsOrdered /\ ObjectsOrdered /\ CacheTrue /\ NothingForgotten
-----------------------------------------------------------------------------
(* The stages are four, and each of them makes one of the objects.         *)
LEMMA StageFacts ==
  /\ Len(Stages) = 4 /\ DOMAIN Stages = 1..4
  /\ \A n \in 1..4 : Stages[n] \in Names
BY DEF Stages, Names

(* After the stage that makes an object, the others remain.                *)
LEMMA RemainingNext ==
  ASSUME NEW o \in Names, NEW n \in 1..4, Remaining(o, n), o # Stages[n]
  PROVE  n < 4 /\ Remaining(o, n + 1)
BY StageFacts DEF Remaining

(* All objects remain at the first stage.                                  *)
LEMMA RemainingAll ==
  ASSUME NEW o \in Names
  PROVE  Remaining(o, 1)
BY DEF Remaining, Stages, Names

(* Every step keeps the types.                                             *)
LEMMA TypeStep ==
  ASSUME TypeOK, [Next]_vars
  PROVE  TypeOK'
<1> USE OperatorAssumption, StageFacts DEF TypeOK, Sets, Managed
<1>1. CASE WriteSet
  BY <1>1 DEF WriteSet, controller
<1>2. CASE DeleteSet
  BY <1>2 DEF DeleteSet, controller, history
<1>3. CASE SyncSet
  BY <1>3 DEF SyncSet, api, history
<1>4. CASE Resync
  BY <1>4 DEF Resync, api, history
<1>5. CASE Restart
  BY <1>5 DEF Restart, api
<1>6. CASE Reconcile
  <2>1. vecodex' = seen /\ stage' = (IF seen = None THEN 0 ELSE 1) /\ queued' = FALSE
    BY <1>6 DEF Reconcile
  <2>2. UNCHANGED <<set, objects, seen, cache, version, faults, drifts, drifted>>
    BY <1>6 DEF Reconcile, api, history
  <2>3. stage' \in 0..Len(Stages) /\ vecodex' \in Sets
    BY <2>1
  <2>4. stage' > 0 => vecodex' # None
    BY <2>1
  <2>5. QED
    BY <2>1, <2>2, <2>3, <2>4
<1>7. CASE ReconcileReadFault
  BY <1>7 DEF ReconcileReadFault, api, controller
<1>8. CASE ReconcileObject
  BY <1>8 DEF ReconcileObject, Current, NoCall, Accepted, Written, Desired, Succeeded
<1>9. CASE ReconcileRefused
  BY <1>9 DEF ReconcileRefused, Failed, api, history
<1>10. CASE ReconcileFault
  BY <1>10 DEF ReconcileFault, Current, Accepted, Written, Desired, Failed
<1>11. ASSUME NEW p \in Names, Drift(p)
      PROVE  TypeOK'
  BY <1>11 DEF Drift, controller
<1>12. ASSUME NEW p \in Names, CollectGarbage(p)
      PROVE  TypeOK'
  BY <1>12 DEF CollectGarbage, controller, history
<1>13. ASSUME NEW p \in Names, SyncObject(p)
      PROVE  TypeOK'
  BY <1>13 DEF SyncObject, api, history
<1>14. CASE UNCHANGED vars
  BY <1>14 DEF vars, api, controller, history
<1>15. QED
  BY <1>1, <1>2, <1>3, <1>4, <1>5, <1>6, <1>7, <1>8, <1>9, <1>10, <1>11, <1>12, <1>13, <1>14 DEF Next, ReconcileStep

(* Every step keeps the order of the reads.                                *)
LEMMA ReadsStep ==
  ASSUME TypeOK, ReadsOrdered, [Next]_vars
  PROVE  ReadsOrdered'
<1> USE OperatorAssumption, StageFacts DEF TypeOK, Sets, ReadsOrdered, NotNewer
<1>1. CASE WriteSet
  BY <1>1 DEF WriteSet, controller
<1>2. CASE DeleteSet
  BY <1>2 DEF DeleteSet, controller, history
<1>3. CASE SyncSet
  BY <1>3 DEF SyncSet, api, history
<1>4. CASE Resync
  BY <1>4 DEF Resync, api, history
<1>5. CASE Restart
  BY <1>5 DEF Restart, api
<1>6. CASE Reconcile
  BY <1>6 DEF Reconcile, api, history
<1>7. CASE ReconcileReadFault
  BY <1>7 DEF ReconcileReadFault, api, controller
<1>8. CASE ReconcileObject
  BY <1>8 DEF ReconcileObject, Current, NoCall, Accepted, Written, Desired, Succeeded
<1>9. CASE ReconcileRefused
  BY <1>9 DEF ReconcileRefused, Failed, api, history
<1>10. CASE ReconcileFault
  BY <1>10 DEF ReconcileFault, Current, Accepted, Written, Desired, Failed
<1>11. ASSUME NEW p \in Names, Drift(p)
      PROVE  ReadsOrdered'
  BY <1>11 DEF Drift, controller
<1>12. ASSUME NEW p \in Names, CollectGarbage(p)
      PROVE  ReadsOrdered'
  BY <1>12 DEF CollectGarbage, controller, history
<1>13. ASSUME NEW p \in Names, SyncObject(p)
      PROVE  ReadsOrdered'
  BY <1>13 DEF SyncObject, api, history
<1>14. CASE UNCHANGED vars
  BY <1>14 DEF vars, api, controller, history
<1>15. QED
  BY <1>1, <1>2, <1>3, <1>4, <1>5, <1>6, <1>7, <1>8, <1>9, <1>10, <1>11, <1>12, <1>13, <1>14 DEF Next, ReconcileStep

(* Every step keeps the objects behind the sets.                           *)
LEMMA ObjectsStep ==
  ASSUME TypeOK, ReadsOrdered, ObjectsOrdered, [Next]_vars
  PROVE  ObjectsOrdered'
<1> USE OperatorAssumption, StageFacts DEF TypeOK, Sets, Managed, ReadsOrdered, NotNewer, ObjectsOrdered
<1>1. CASE WriteSet
  BY <1>1 DEF WriteSet, controller
<1>2. CASE DeleteSet
  BY <1>2 DEF DeleteSet, controller, history
<1>3. CASE SyncSet
  BY <1>3 DEF SyncSet, api, history
<1>4. CASE Resync
  BY <1>4 DEF Resync, api, history
<1>5. CASE Restart
  BY <1>5 DEF Restart, api
<1>6. CASE Reconcile
  BY <1>6 DEF Reconcile, api, history
<1>7. CASE ReconcileReadFault
  BY <1>7 DEF ReconcileReadFault, api, controller
<1>8. CASE ReconcileObject
  BY <1>8 DEF ReconcileObject, Current, NoCall, Accepted, Written, Desired, Succeeded
<1>9. CASE ReconcileRefused
  BY <1>9 DEF ReconcileRefused, Failed, api, history
<1>10. CASE ReconcileFault
  BY <1>10 DEF ReconcileFault, Current, Accepted, Written, Desired, Failed
<1>11. ASSUME NEW p \in Names, Drift(p)
      PROVE  ObjectsOrdered'
  BY <1>11 DEF Drift, controller
<1>12. ASSUME NEW p \in Names, CollectGarbage(p)
      PROVE  ObjectsOrdered'
  BY <1>12 DEF CollectGarbage, controller, history
<1>13. ASSUME NEW p \in Names, SyncObject(p)
      PROVE  ObjectsOrdered'
  BY <1>13 DEF SyncObject, api, history
<1>14. CASE UNCHANGED vars
  BY <1>14 DEF vars, api, controller, history
<1>15. QED
  BY <1>1, <1>2, <1>3, <1>4, <1>5, <1>6, <1>7, <1>8, <1>9, <1>10, <1>11, <1>12, <1>13, <1>14 DEF Next, ReconcileStep

(* Every step keeps what the cache says of current objects true.           *)
LEMMA CacheStep ==
  ASSUME TypeOK, ReadsOrdered, ObjectsOrdered, CacheTrue, [Next]_vars
  PROVE  CacheTrue'
<1> USE OperatorAssumption, StageFacts DEF TypeOK, Sets, Managed, ReadsOrdered, NotNewer, ObjectsOrdered, CacheTrue, Match
<1>1. CASE WriteSet
  BY <1>1 DEF WriteSet, controller
<1>2. CASE DeleteSet
  BY <1>2 DEF DeleteSet, controller, history
<1>3. CASE SyncSet
  BY <1>3 DEF SyncSet, api, history
<1>4. CASE Resync
  BY <1>4 DEF Resync, api, history
<1>5. CASE Restart
  BY <1>5 DEF Restart, api
<1>6. CASE Reconcile
  BY <1>6 DEF Reconcile, api, history
<1>7. CASE ReconcileReadFault
  BY <1>7 DEF ReconcileReadFault, api, controller
<1>8. CASE ReconcileObject
  BY <1>8 DEF ReconcileObject, Current, NoCall, Accepted, Written, Desired, Succeeded
<1>9. CASE ReconcileRefused
  BY <1>9 DEF ReconcileRefused, Failed, api, history
<1>10. CASE ReconcileFault
  BY <1>10 DEF ReconcileFault, Current, Accepted, Written, Desired, Failed
<1>11. ASSUME NEW p \in Names, Drift(p)
      PROVE  CacheTrue'
  BY <1>11 DEF Drift, controller
<1>12. ASSUME NEW p \in Names, CollectGarbage(p)
      PROVE  CacheTrue'
  BY <1>12 DEF CollectGarbage, controller, history
<1>13. ASSUME NEW p \in Names, SyncObject(p)
      PROVE  CacheTrue'
  BY <1>13 DEF SyncObject, api, history
<1>14. CASE UNCHANGED vars
  BY <1>14 DEF vars, api, controller, history
<1>15. QED
  BY <1>1, <1>2, <1>3, <1>4, <1>5, <1>6, <1>7, <1>8, <1>9, <1>10, <1>11, <1>12, <1>13, <1>14 DEF Next, ReconcileStep

(* Every step leaves no change behind.                                     *)
LEMMA ForgetStep ==
  ASSUME IInv, [Next]_vars
  PROVE  NothingForgotten'
<1> USE OperatorAssumption, StageFacts
    DEF IInv, TypeOK, Sets, Managed, ReadsOrdered, NotNewer, CacheTrue, NothingForgotten, Match
<1>1. CASE WriteSet
  BY <1>1 DEF WriteSet, controller
<1>2. CASE DeleteSet
  BY <1>2 DEF DeleteSet, controller, history
<1>3. CASE SyncSet
  BY <1>3 DEF SyncSet, api, history
<1>4. CASE Resync
  BY <1>4 DEF Resync, api, history
<1>5. CASE Restart
  BY <1>5 DEF Restart, api
<1>6. CASE Reconcile
  <2>1. \A o \in Names : stage' = 1 => Remaining(o, stage')
    BY RemainingAll
  <2>2. SUFFICES ASSUME seen = None, set # None PROVE seen' # set'
    BY <1>6, <2>1 DEF Reconcile, api
  <2>3. QED
    BY <1>6, <2>2 DEF Reconcile, api
<1>7. CASE ReconcileReadFault
  BY <1>7 DEF ReconcileReadFault, api, controller
<1>8. CASE ReconcileObject
  <2>1. UNCHANGED <<set, seen, queued>> /\ stage \in 1..4
    BY <1>8 DEF ReconcileObject, Succeeded
  <2>2. SUFFICES ASSUME set # None, NEW o \in Names, ~queued, seen = set, o \notin drifted'
                 PROVE  Match(o)' \/ Remaining(o, stage')
    BY <2>1
  <2>3. vecodex = set
    BY <2>1, <2>2
  <2>4. CASE o = Current /\ NoCall
    <3>1. Match(o) /\ UNCHANGED objects
      BY <1>8, <2>2, <2>3, <2>4 DEF ReconcileObject, NoCall, Desired
    <3>2. QED
      BY <2>1, <3>1
  <2>5. CASE o = Current /\ ~NoCall
    <3>1. objects'[o] = Desired(set)
      BY <1>8, <2>3, <2>5 DEF ReconcileObject, Written
    <3>2. Desired(set) # None
      BY <2>2 DEF Desired
    <3>3. QED
      BY <2>1, <2>2, <3>1, <3>2 DEF Desired
  <2>6. CASE o # Current
    <3>1. objects'[o] = objects[o] /\ o \notin drifted
      BY <1>8, <2>2, <2>6 DEF ReconcileObject, Written
    <3>2. CASE Match(o)
      BY <2>1, <3>1, <3>2
    <3>3. CASE Remaining(o, stage)
      <4>1. stage < 4 /\ Remaining(o, stage + 1)
        BY <2>1, <2>6, <3>3, RemainingNext DEF Current
      <4>2. QED
        BY <1>8, <2>1, <4>1 DEF ReconcileObject, Succeeded
    <3>4. QED
      BY <2>2, <3>1, <3>2, <3>3
  <2>7. QED
    BY <2>4, <2>5, <2>6
<1>9. CASE ReconcileRefused
  BY <1>9 DEF ReconcileRefused, Failed, api, history
<1>10. CASE ReconcileFault
  BY <1>10 DEF ReconcileFault, Current, Accepted, Written, Desired, Failed
<1>11. ASSUME NEW p \in Names, Drift(p)
      PROVE  NothingForgotten'
  BY <1>11 DEF Drift, controller
<1>12. ASSUME NEW p \in Names, CollectGarbage(p)
      PROVE  NothingForgotten'
  BY <1>12 DEF CollectGarbage, controller, history
<1>13. ASSUME NEW p \in Names, SyncObject(p)
      PROVE  NothingForgotten'
  BY <1>13 DEF SyncObject, api, history
<1>14. CASE UNCHANGED vars
  BY <1>14 DEF vars, api, controller, history
<1>15. QED
  BY <1>1, <1>2, <1>3, <1>4, <1>5, <1>6, <1>7, <1>8, <1>9, <1>10, <1>11, <1>12, <1>13, <1>14 DEF Next, ReconcileStep

(* A write never takes an object back: it is made from the set that was    *)
(* read, and no object is ahead of that.                                   *)
LEMMA RollbackStep ==
  ASSUME IInv, [Next]_vars, NEW o \in Names, objects[o] # None, objects'[o] # None,
         drifts' = drifts
  PROVE  objects'[o].gen >= objects[o].gen
<1> USE OperatorAssumption, StageFacts DEF IInv, TypeOK, Sets, Managed, ObjectsOrdered
<1>1. CASE UNCHANGED objects
  BY <1>1
<1>2. CASE ReconcileObject
  BY <1>2, SMTT(40) DEF ReconcileObject, Current, Written, Desired
<1>3. CASE ReconcileFault
  BY <1>3 DEF ReconcileFault, Current, Written, Desired
<1>4. ASSUME NEW p \in Names, Drift(p)
      PROVE  FALSE
  BY <1>4 DEF Drift
<1>5. ASSUME NEW p \in Names, CollectGarbage(p)
      PROVE  objects'[o].gen >= objects[o].gen
  BY <1>5 DEF CollectGarbage
<1>6. QED
  BY <1>1, <1>2, <1>3, <1>4, <1>5
  DEF Next, ReconcileStep, vars, api, WriteSet, DeleteSet, SyncSet, Resync, Restart,
      SyncObject, Reconcile, ReconcileReadFault, ReconcileRefused
-----------------------------------------------------------------------------
(* The invariant holds at the start and in every step.                     *)
THEOREM Invariance == Spec => []IInv
<1>1. Init => IInv
  <2> SUFFICES ASSUME Init PROVE IInv
    OBVIOUS
  <2>1. TypeOK
    <3>1. objects \in [Names -> Managed] /\ cache \in [Names -> Managed]
      BY DEF Init, Managed
    <3>2. stage \in 0..Len(Stages) /\ ~(stage > 0)
      BY StageFacts DEF Init
    <3>3. queued \in BOOLEAN
      BY DEF Init
    <3>4. QED
      BY <3>1, <3>2, <3>3 DEF Init, TypeOK, Sets
  <2>2. ReadsOrdered
    BY DEF Init, ReadsOrdered
  <2>3. ObjectsOrdered
    BY DEF Init, ObjectsOrdered
  <2>4. CacheTrue /\ NothingForgotten
    BY DEF Init, CacheTrue, NothingForgotten
  <2>5. QED
    BY <2>1, <2>2, <2>3, <2>4 DEF IInv
<1>2. IInv /\ [Next]_vars => IInv'
  BY TypeStep, ReadsStep, ObjectsStep, CacheStep, ForgetStep DEF IInv
<1>3. QED
  BY <1>1, <1>2, PTL DEF Spec

(* The variables keep their types, and a run always has a set to work on.  *)
THEOREM TypeCorrect == Spec => []TypeOK
<1>1. IInv => TypeOK
  BY DEF IInv
<1>2. QED
  BY <1>1, Invariance, PTL

(* However changes of the set, a lagging cache, refused writes, failed     *)
(* calls and restarts of the operator interleave, an object that is not as *)
(* the set asks is looked at again.                                        *)
THEOREM ForgetsNothing == Spec => []NothingForgotten
<1>1. IInv => NothingForgotten
  BY DEF IInv
<1>2. QED
  BY <1>1, Invariance, PTL

(* Reconcile never takes an object back to an older spec.                  *)
THEOREM NeverRollsBack == Spec => NoRollback
<1>1. IInv /\ [Next]_vars
        => [\A o \in Names : objects[o] # None /\ objects'[o] # None /\ drifts' = drifts
              => objects'[o].gen >= objects[o].gen]_vars
  BY RollbackStep
<1>2. QED
  BY <1>1, Invariance, PTL DEF Spec, NoRollback
-----------------------------------------------------------------------------
Typed ==
  /\ hosts \in SUBSET Shard /\ times \in [Shard -> Nat \cup {Nothing}]
  /\ shards \in SUBSET Shard /\ toRead \in SUBSET Shard /\ moved \in SUBSET Shard
  /\ shard_id \in Shard \cup {Nothing} /\ min_time \in Nat
  /\ pc \in {"idle", "list", "choose", "write"}

(* The best of the shards read so far, as far as their times still stand.  *)
BestSoFar ==
  /\ toRead \subseteq shards
  /\ shard_id = Nothing => toRead = shards /\ shards # {}
  /\ shard_id # Nothing =>
       /\ shard_id \in shards
       /\ shard_id \notin moved => min_time = TimeOf(shard_id)
       /\ \A s \in shards : s \notin toRead /\ s \notin moved => min_time <= TimeOf(s)

ChoiceInv ==
  /\ Typed
  /\ pc \in {"choose", "write"} => BestSoFar
  /\ pc = "write" => toRead = {}
-----------------------------------------------------------------------------
(* A recorded time changes only for a shard that is then marked.           *)
LEMMA StoredStep ==
  ASSUME ChoiceInv, NEW t \in Shard, Stored(t), UNCHANGED <<hosts, writer>>
  PROVE  ChoiceInv'
<1> USE PlacementAssumption DEF ChoiceInv, Typed, writer, request
<1>1. times' \in [Shard -> Nat \cup {Nothing}] /\ moved' \in SUBSET Shard /\ moved \subseteq moved'
  BY DEF Stored, to_string
<1>2. \A s \in Shard : s \notin moved' => TimeOf(s)' = TimeOf(s)
  BY DEF Stored, TimeOf
<1>3. Typed'
  BY <1>1
<1>4. BestSoFar => BestSoFar'
  BY <1>1, <1>2 DEF BestSoFar
<1>5. QED
  BY <1>3, <1>4

(* A turn of the loop of chooseShard.                                      *)
LEMMA ChooseStep ==
  ASSUME ChoiceInv, NEW t \in Shard, Choose(t)
  PROVE  ChoiceInv'
<1> USE PlacementAssumption DEF ChoiceInv, Typed, Choose, etcd, observed
<1>0. TimeOf(t) \in Nat /\ \A s \in Shard : TimeOf(s) \in Nat /\ TimeOf(s)' = TimeOf(s)
  BY DEF TimeOf
<1>1. Typed'
  BY <1>0
<1>2. BestSoFar'
  <2>1. CASE shard_id = Nothing \/ TimeOf(t) < min_time
    <3>1. shard_id' = t /\ min_time' = TimeOf(t) /\ toRead' = toRead \ {t} /\ t # Nothing
      BY <2>1
    <3>2. \A s \in shards : s \notin toRead' /\ s \notin moved => min_time' <= TimeOf(s)
      BY <1>0, <2>1, <3>1 DEF BestSoFar
    <3>3. QED
      BY <1>0, <3>1, <3>2 DEF BestSoFar
  <2>2. CASE ~(shard_id = Nothing \/ TimeOf(t) < min_time)
    BY <1>0, <2>2 DEF BestSoFar
  <2>3. QED
    BY <2>1, <2>2
<1>3. QED
  BY <1>1, <1>2

(* Every step keeps the choice right.                                      *)
LEMMA ChoiceStep ==
  ASSUME ChoiceInv, [PlacementNext]_placement_vars
  PROVE  ChoiceInv'
<1> USE PlacementAssumption DEF ChoiceInv, Typed
<1>1. ASSUME NEW t \in Shard, Register(t) \/ Unregister(t) \/ UpdateSearchersState(t)
      PROVE  ChoiceInv'
  BY <1>1 DEF Register, Unregister, UpdateSearchersState, etcd, writer, request, observed,
              BestSoFar, TimeOf
<1>2. ASSUME NEW t \in Shard, NEW u \in Time, Answer(t, u)
      PROVE  ChoiceInv'
  BY <1>2, StoredStep DEF Answer
<1>3. ASSUME NEW t \in Shard, Error(t)
      PROVE  ChoiceInv'
  BY <1>3, StoredStep DEF Error
<1>4. CASE UpdateIndexesState
  <2>1. Listed \in SUBSET Shard
    BY DEF Listed
  <2>2. QED
    BY <1>4, <2>1 DEF UpdateIndexesState, etcd, BestSoFar
<1>5. CASE ProcessWriteRequest
  BY <1>5 DEF ProcessWriteRequest, etcd, observed, BestSoFar, TimeOf
<1>6. CASE Chosen
  BY <1>6 DEF Chosen, etcd, observed, BestSoFar, TimeOf
<1>7. CASE Write \/ EtcdUnreachable
  BY <1>7 DEF Write, EtcdUnreachable, etcd, observed, BestSoFar, TimeOf
<1>8. CASE UNCHANGED placement_vars
  BY <1>8 DEF placement_vars, etcd, writer, request, observed, BestSoFar, TimeOf
<1>9. QED
  BY <1>1, <1>2, <1>3, <1>4, <1>5, <1>6, <1>7, <1>8, ChooseStep DEF PlacementNext, Request

(* A document goes to a shard the Writer has, and to none slower than      *)
(* another as far as the times read still stand.                           *)
THEOREM FastestIsChosen == PlacementSpec => []ChosenIsFastest
<1>1. PlacementInit => ChoiceInv
  BY PlacementAssumption DEF PlacementInit, ChoiceInv, Typed
<1>2. ChoiceInv /\ [PlacementNext]_placement_vars => ChoiceInv'
  BY ChoiceStep
<1>3. ChoiceInv => ChosenIsFastest
  BY DEF ChoiceInv, BestSoFar, ChosenIsFastest
<1>4. QED
  BY <1>1, <1>2, <1>3, PTL DEF PlacementSpec
-----------------------------------------------------------------------------
(* A recorded time x fits answers between f and m.                         *)
Fits(x, m, f) ==
  /\ 2 * Unit * x <= 2 * m + Unit
  /\ x = 0 \/ f <= 2 * Unit * x + Unit

(* The average of a shard is no larger than its slowest answer and, while  *)
(* no error is counted, at least half of the fastest; without an answer it *)
(* is zero.  What was recorded fits.                                       *)
Averages(s) ==
  /\ stats[s].errors_cnt_ <= stats[s].responses_cnt_
  /\ stats[s].average_response_time_.num <= slowest[s] * stats[s].average_response_time_.den
  /\ stats[s].errors_cnt_ = 0 /\ stats[s].responses_cnt_ > 0 =>
       fastest[s] * stats[s].average_response_time_.den
         <= 2 * stats[s].average_response_time_.num
  /\ stats[s].responses_cnt_ = stats[s].errors_cnt_ => stats[s].average_response_time_.num = 0

Recorded(s) ==
  /\ Fits(TimeOf(s), slowest[s], fastest[s])
  /\ stats[s].responses_cnt_ = stats[s].errors_cnt_ => TimeOf(s) = 0

Fraction == [num : Nat, den : Nat \ {0}]
Statistics == [average_response_time_ : Fraction, responses_cnt_ : Nat, errors_cnt_ : Nat]

AverageTyped ==
  /\ stats \in [Shard -> Statistics]
  /\ slowest \in [Shard -> Nat] /\ fastest \in [Shard -> Nat]
  /\ times \in [Shard -> Nat \cup {Nothing}]

AverageInv == AverageTyped /\ \A s \in Shard : Averages(s) /\ Recorded(s)

(* Products of naturals are monotone, and a factor cancels.                *)
LEMMA TimesMonotone ==
  \A i, j, k \in Nat : i <= j => i * k <= j * k
OBVIOUS

LEMMA Cancels ==
  ASSUME NEW i \in Nat, NEW j \in Nat, NEW k \in Nat \ {0}, i * k <= j * k
  PROVE  i <= j
<1>1. SUFFICES ASSUME j + 1 <= i PROVE FALSE
  OBVIOUS
<1>2. (j + 1) * k <= i * k
  BY <1>1, TimesMonotone
<1>3. (j + 1) * k = j * k + k /\ j * k \in Nat /\ i * k \in Nat
  OBVIOUS
<1>4. QED
  BY <1>2, <1>3

(* Averaging does not exceed the largest addend.                           *)
LEMMA AveragedBound ==
  ASSUME NEW num \in Nat, NEW den \in Nat \ {0}, NEW cnt \in Nat, NEW t \in Nat,
         NEW m \in Nat, NEW M \in Nat, num <= m * den, m <= M, t <= M
  PROVE  /\ num * cnt + t * den \in Nat /\ den * (cnt + 1) \in Nat \ {0}
         /\ num * cnt + t * den <= M * (den * (cnt + 1))
<1>1. m * den <= M * den /\ t * den <= M * den /\ m * den \in Nat /\ M * den \in Nat
  BY TimesMonotone
<1>2. num * cnt <= (M * den) * cnt
  BY <1>1, TimesMonotone
<1>3. M * (den * (cnt + 1)) = (M * den) * cnt + M * den
  OBVIOUS
<1>4. den * (cnt + 1) > 0
  OBVIOUS
<1>5. num * cnt + t * den \in Nat /\ den * (cnt + 1) \in Nat
  OBVIOUS
<1>6. QED
  BY <1>1, <1>2, <1>3, <1>4, <1>5

(* Averaging keeps at least half of the smallest addend; the first answer  *)
(* is averaged with a zero.                                                *)
LEMMA AveragedHalf ==
  ASSUME NEW num \in Nat, NEW den \in Nat \ {0}, NEW cnt \in Nat, NEW t \in Nat,
         NEW f \in Nat, NEW F \in Nat, F <= t,
         (cnt = 1 /\ num = 0) \/ (f * den <= 2 * num /\ F <= f)
  PROVE  F * (den * (cnt + 1)) <= 2 * (num * cnt + t * den)
<1>1. F * den <= t * den /\ F * den \in Nat /\ t * den \in Nat
  BY TimesMonotone
<1>2. CASE cnt = 1 /\ num = 0
  <2>1. F * (den * (cnt + 1)) = 2 * (F * den) /\ num * cnt = 0
    BY <1>2
  <2>2. QED
    BY <1>1, <2>1
<1>3. CASE f * den <= 2 * num /\ F <= f
  <2>1. F * den <= 2 * num
    BY <1>1, <1>3, TimesMonotone
  <2>2. (F * den) * cnt <= (2 * num) * cnt
    BY <1>1, <2>1, TimesMonotone
  <2>3. F * (den * (cnt + 1)) = (F * den) * cnt + F * den
    OBVIOUS
  <2>4. (2 * num) * cnt = 2 * (num * cnt) /\ num * cnt \in Nat /\ (F * den) * cnt \in Nat
    BY <1>1
  <2>5. QED
    BY <1>1, <2>2, <2>3, <2>4
<1>4. QED
  BY <1>2, <1>3

(* Rounding to microseconds moves a time by half a microsecond at most.    *)
LEMMA RoundedBound ==
  ASSUME NEW a \in Fraction, NEW r \in to_string(a), NEW m \in Nat, a.num <= m * a.den
  PROVE  /\ r \in Nat /\ 2 * Unit * r <= 2 * m + Unit
         /\ \A f \in Nat : f * a.den <= 2 * a.num => f <= 2 * Unit * r + Unit
         /\ a.num = 0 => r = 0
<1> DEFINE d == a.den
           n == a.num
<1>1. Unit \in Nat \ {0} /\ d \in Nat \ {0} /\ n \in Nat /\ r \in Nat
  BY PlacementAssumption DEF to_string, Fraction
<1>2. 2 * n - Unit * d <= 2 * r * Unit * d /\ 2 * r * Unit * d <= 2 * n + Unit * d
  BY DEF to_string
<1>3. 2 * r * Unit * d = (2 * Unit * r) * d /\ 2 * Unit * r \in Nat
  BY <1>1
<1>4. 2 * Unit * r <= 2 * m + Unit
  <2>1. (2 * m + Unit) * d = 2 * (m * d) + Unit * d /\ m * d \in Nat /\ Unit * d \in Nat
    BY <1>1
  <2>2. (2 * Unit * r) * d <= (2 * m + Unit) * d
    BY <1>1, <1>2, <1>3, <2>1
  <2>3. QED
    BY <1>1, <1>3, <2>2, Cancels
<1>5. ASSUME NEW f \in Nat, f * d <= 2 * n PROVE f <= 2 * Unit * r + Unit
  <2>1. (2 * Unit * r + Unit) * d = (2 * Unit * r) * d + Unit * d /\ Unit * d \in Nat
        /\ f * d \in Nat /\ (2 * Unit * r) * d \in Nat
    BY <1>1, <1>3
  <2>2. f * d <= (2 * Unit * r + Unit) * d
    BY <1>1, <1>2, <1>3, <1>5, <2>1
  <2>3. QED
    BY <1>1, <1>3, <2>2, Cancels
<1>6. ASSUME n = 0 PROVE r = 0
  <2>1. (2 * Unit * r) * d <= Unit * d
    BY <1>1, <1>2, <1>3, <1>6
  <2>2. 2 * Unit * r <= Unit
    BY <1>1, <1>3, <2>1, Cancels
  <2>3. (2 * r) * Unit <= 1 * Unit
    BY <1>1, <2>2
  <2>4. 2 * r <= 1
    BY <1>1, <2>3, Cancels
  <2>5. QED
    BY <1>1, <2>4
<1>7. QED
  BY <1>1, <1>4, <1>5, <1>6

(* What an ask stores of the asks before fits the answers.                 *)
LEMMA StoredBound ==
  ASSUME AverageInv, NEW t \in Shard, Stored(t)
  PROVE  /\ times' \in [Shard -> Nat \cup {Nothing}]
         /\ \A s \in Shard : /\ Fits(TimeOf(s)', slowest[s], fastest[s])
                             /\ stats[s].responses_cnt_ = stats[s].errors_cnt_ => TimeOf(s)' = 0
<1> USE PlacementAssumption
<1>1. CASE UNCHANGED times
  BY <1>1 DEF TimeOf, AverageInv, AverageTyped, Recorded
<1>2. CASE /\ stats[t].errors_cnt_ < 1
           /\ \E r \in to_string(stats[t].average_response_time_) : times' = [times EXCEPT ![t] = r]
  <2> DEFINE a == stats[t].average_response_time_
  <2>1. PICK r \in to_string(a) : times' = [times EXCEPT ![t] = r]
    BY <1>2
  <2>2. a \in Fraction /\ slowest[t] \in Nat /\ fastest[t] \in Nat
        /\ stats[t].responses_cnt_ \in Nat /\ stats[t].errors_cnt_ = 0
    BY <1>2 DEF AverageInv, AverageTyped, Statistics
  <2>3. /\ r \in Nat /\ 2 * Unit * r <= 2 * slowest[t] + Unit
        /\ \A f \in Nat : f * a.den <= 2 * a.num => f <= 2 * Unit * r + Unit
        /\ a.num = 0 => r = 0
    BY <2>2, RoundedBound DEF AverageInv, Averages
  <2>4. Fits(r, slowest[t], fastest[t]) /\ (stats[t].responses_cnt_ = stats[t].errors_cnt_ => r = 0)
    BY <2>2, <2>3 DEF AverageInv, Averages, Fits
  <2>5. \A s \in Shard : s # t => TimeOf(s)' = TimeOf(s)
    BY <2>1 DEF TimeOf
  <2>6. TimeOf(t)' = r
    BY <2>1, <2>3 DEF TimeOf, AverageInv, AverageTyped
  <2>7. times' \in [Shard -> Nat \cup {Nothing}]
    BY <2>1, <2>3 DEF AverageInv, AverageTyped
  <2>8. QED
    BY <2>4, <2>5, <2>6, <2>7 DEF AverageInv, Recorded
<1>3. QED
  BY <1>1, <1>2 DEF Stored

(* An answer keeps averages and recorded times within the answers.         *)
LEMMA AnswerStep ==
  ASSUME AverageInv, NEW t \in Shard, NEW u \in Time, Answer(t, u)
  PROVE  AverageInv'
<1> USE PlacementAssumption
<1> DEFINE a == stats[t].average_response_time_
           n == stats[t].responses_cnt_
           e == stats[t].errors_cnt_
           b == Averaged(a, n + 1, u)
           M == IF u > slowest[t] THEN u ELSE slowest[t]
           F == IF u < fastest[t] \/ n = e THEN u ELSE fastest[t]
<1>1. /\ Stored(t)
      /\ stats' = [stats EXCEPT ![t] =
           [average_response_time_ |-> b, responses_cnt_ |-> n + 1, errors_cnt_ |-> e]]
      /\ slowest' = [slowest EXCEPT ![t] = M] /\ fastest' = [fastest EXCEPT ![t] = F]
  BY DEF Answer
<1>2. /\ a.num \in Nat /\ a.den \in Nat \ {0} /\ n \in Nat /\ n + 1 \in Nat
      /\ e \in Nat /\ u \in Nat
      /\ slowest[t] \in Nat /\ M \in Nat /\ slowest[t] <= M /\ u <= M
      /\ fastest[t] \in Nat /\ F \in Nat /\ F <= u /\ (n # e => F <= fastest[t])
      /\ e <= n /\ a.num <= slowest[t] * a.den
      /\ e = 0 /\ n > 0 => fastest[t] * a.den <= 2 * a.num
      /\ n = e => a.num = 0
  BY DEF AverageInv, AverageTyped, Averages, Statistics, Fraction
<1>3. /\ b \in Fraction /\ b.num = a.num * (n + 1) + u * a.den /\ b.den = a.den * ((n + 1) + 1)
      /\ b.num <= M * b.den
  <2>1. /\ a.num * (n + 1) + u * a.den \in Nat /\ a.den * ((n + 1) + 1) \in Nat \ {0}
        /\ a.num * (n + 1) + u * a.den <= M * (a.den * ((n + 1) + 1))
    BY <1>2, AveragedBound
  <2>2. QED
    BY <2>1 DEF Averaged, Fraction
<1>4. e = 0 => F * b.den <= 2 * b.num
  <2>1. SUFFICES ASSUME e = 0
                 PROVE  F * (a.den * ((n + 1) + 1)) <= 2 * (a.num * (n + 1) + u * a.den)
    <3> HIDE DEF a, n, e, b, F
    <3>1. QED
      BY <1>3, Zenon
  <2> DEFINE c == n + 1
             num == a.num
             den == a.den
             f == fastest[t]
             G == F
  <2>2. /\ num \in Nat /\ den \in Nat \ {0} /\ c \in Nat /\ u \in Nat /\ f \in Nat /\ G \in Nat
        /\ G <= u /\ ((c = 1 /\ num = 0) \/ (f * den <= 2 * num /\ G <= f))
    BY <1>2, <2>1
  <2>3. G * (den * (c + 1)) <= 2 * (num * c + u * den)
    <3> HIDE DEF c, num, den, f, G
    <3>1. QED
      BY <2>2, AveragedHalf
  <2>4. QED
    BY <2>3
<1>5. /\ times' \in [Shard -> Nat \cup {Nothing}]
      /\ \A s \in Shard : /\ Fits(TimeOf(s)', slowest[s], fastest[s])
                          /\ stats[s].responses_cnt_ = stats[s].errors_cnt_ => TimeOf(s)' = 0
  BY <1>1, StoredBound
<1> HIDE DEF a, n, e, b, M, F
<1>6. AverageTyped'
  <2>1. [average_response_time_ |-> b, responses_cnt_ |-> n + 1, errors_cnt_ |-> e] \in Statistics
    BY <1>2, <1>3 DEF Statistics
  <2>2. QED
    BY <1>1, <1>2, <1>5, <2>1 DEF AverageInv, AverageTyped
<1>7. ASSUME NEW s \in Shard, s # t PROVE Averages(s)' /\ Recorded(s)'
  <2>1. stats'[s] = stats[s] /\ slowest'[s] = slowest[s] /\ fastest'[s] = fastest[s]
    BY <1>1, <1>7 DEF AverageInv, AverageTyped
  <2>2. QED
    BY <1>5, <2>1 DEF AverageInv, Averages, Recorded
<1>8. /\ stats'[t].average_response_time_ = b /\ stats'[t].responses_cnt_ = n + 1
      /\ stats'[t].errors_cnt_ = e /\ slowest'[t] = M /\ fastest'[t] = F
  BY <1>1 DEF AverageInv, AverageTyped
<1>9. e <= n + 1 /\ n + 1 # e
  BY ONLY <1>2
<1>10. Averages(t)'
  <2>1. b.num <= M * b.den /\ (e = 0 => F * b.den <= 2 * b.num)
    BY ONLY <1>3, <1>4
  <2>2. QED
    BY ONLY <1>8, <1>9, <2>1, Zenon DEF Averages
<1>11. Recorded(t)'
  <2>1. TimeOf(t)' \in Nat
    BY <1>5 DEF TimeOf
  <2>2. /\ slowest[t] \in Nat /\ M \in Nat /\ slowest[t] <= M
        /\ fastest[t] \in Nat /\ F \in Nat /\ (n # e => F <= fastest[t])
    BY <1>2
  <2>3. Fits(TimeOf(t)', slowest[t], fastest[t]) /\ (n = e => TimeOf(t)' = 0)
    BY <1>5 DEF n, e
  <2>4. Fits(TimeOf(t)', M, F)
    BY ONLY PlacementAssumption, <2>1, <2>2, <2>3 DEF Fits
  <2>5. QED
    BY ONLY <1>8, <1>9, <2>4, Zenon DEF Recorded
<1>12. QED
  BY <1>6, <1>7, <1>10, <1>11 DEF AverageInv

(* Every step keeps averages and recorded times within the answers.        *)
LEMMA AverageStep ==
  ASSUME AverageInv, [PlacementNext]_placement_vars
  PROVE  AverageInv'
<1> USE PlacementAssumption
<1>1. ASSUME NEW t \in Shard, Error(t)
      PROVE  AverageInv'
  <2>1. /\ Stored(t) /\ UNCHANGED <<slowest, fastest>>
        /\ stats' = [stats EXCEPT ![t] =
             [average_response_time_ |-> stats[t].average_response_time_,
              responses_cnt_ |-> stats[t].responses_cnt_ + 1,
              errors_cnt_ |-> stats[t].errors_cnt_ + 1]]
    BY <1>1 DEF Error, extremes
  <2>2. /\ times' \in [Shard -> Nat \cup {Nothing}]
        /\ \A s \in Shard : /\ Fits(TimeOf(s)', slowest[s], fastest[s])
                            /\ stats[s].responses_cnt_ = stats[s].errors_cnt_ => TimeOf(s)' = 0
    BY <2>1, StoredBound
  <2>3. AverageTyped'
    <3>1. stats[t] \in Statistics
      BY DEF AverageInv, AverageTyped
    <3>2. [average_response_time_ |-> stats[t].average_response_time_,
           responses_cnt_ |-> stats[t].responses_cnt_ + 1,
           errors_cnt_ |-> stats[t].errors_cnt_ + 1] \in Statistics
      BY <3>1 DEF Statistics
    <3>3. QED
      BY <2>1, <2>2, <3>2 DEF AverageInv, AverageTyped
  <2>4. ASSUME NEW s \in Shard
        PROVE  Averages(s)' /\ Recorded(s)'
    <3>1. /\ stats[s].responses_cnt_ \in Nat /\ stats[s].errors_cnt_ \in Nat
          /\ stats'[s].average_response_time_ = stats[s].average_response_time_
          /\ stats'[s].errors_cnt_ = stats[s].errors_cnt_ \/ stats'[s].errors_cnt_ > 0
          /\ stats'[s].errors_cnt_ = stats[s].errors_cnt_ => stats'[s] = stats[s]
          /\ stats'[s].responses_cnt_ = stats'[s].errors_cnt_
               => stats[s].responses_cnt_ = stats[s].errors_cnt_
          /\ stats[s].errors_cnt_ <= stats[s].responses_cnt_
               => stats'[s].errors_cnt_ <= stats'[s].responses_cnt_
      BY <2>1 DEF AverageInv, AverageTyped, Statistics
    <3>2. Averages(s)'
      BY <2>1, <3>1 DEF AverageInv, Averages
    <3>3. Recorded(s)'
      BY <2>1, <2>2, <3>1 DEF Recorded
    <3>4. QED
      BY <3>2, <3>3
  <2>5. QED
    BY <2>3, <2>4 DEF AverageInv
<1>2. CASE UNCHANGED <<times, stats, slowest, fastest>>
  BY <1>2 DEF AverageInv, AverageTyped, Averages, Recorded, TimeOf
<1>3. QED
  <2>1. \/ UNCHANGED <<times, stats, slowest, fastest>>
        \/ \E t \in Shard : Error(t) \/ \E u \in Time : Answer(t, u)
    BY DEF PlacementNext, Request, Register, Unregister, UpdateSearchersState,
           ProcessWriteRequest, UpdateIndexesState, Choose, Chosen, Write, EtcdUnreachable,
           placement_vars, etcd, coordinator, writer, request, observed, extremes
  <2>2. QED
    BY <1>1, <1>2, <2>1, AnswerStep

(* The recorded time of a shard is between half of its fastest and its     *)
(* slowest answer, up to half a microsecond, or zero: for every resolution *)
(* of the clock, any number of answers and errors, and failed stores.      *)
THEOREM RecordedTimesFit == PlacementSpec => []TimeWithinAnswers
<1>1. PlacementInit => AverageInv
  <2>1. SUFFICES ASSUME PlacementInit PROVE AverageInv
    OBVIOUS
  <2>2. AverageTyped
    BY <2>1, PlacementAssumption DEF PlacementInit, AverageTyped, NoStats, Statistics, Fraction
  <2>3. ASSUME NEW s \in Shard PROVE Averages(s) /\ Recorded(s)
    BY <2>1, PlacementAssumption
       DEF PlacementInit, Averages, Recorded, Fits, NoStats, TimeOf
  <2>4. QED
    BY <2>2, <2>3 DEF AverageInv
<1>2. AverageInv /\ [PlacementNext]_placement_vars => AverageInv'
  BY AverageStep
<1>3. AverageInv => TimeWithinAnswers
  BY DEF AverageInv, Recorded, Fits, TimeWithinAnswers
<1>4. QED
  BY <1>1, <1>2, <1>3, PTL DEF PlacementSpec
-----------------------------------------------------------------------------
(* A thread on its way to store the gauge.                                 *)
Storing(t) == at[t] \in {"find", "add", "set"} /\ name[t] = "vectors_count"

(* A family is there when it is used, and a metric without one is 0.       *)
FamiliesFirst ==
  /\ \A m \in Metric : m \notin families => value[m] = 0
  /\ \A t \in Thread : at[t] = "set" => name[t] \in families

(* Only write requests come to the gauge, and what one will store is the   *)
(* present count, one more or one less, and exact as a double.              *)
StoresNext ==
  /\ \A t \in Thread : at[t] = "get" \/ Storing(t) => op[t] # "other"
  /\ ~inexact => value["vectors_count"] <= ExactMax
  /\ ~inexact => \A t \in Thread : Storing(t) =>
       /\ vec_cnt[t] <= ExactMax
       /\ vec_cnt[t] = IF op[t] = "add" THEN stored + 1 ELSE stored - 1

MetricsInv == MetricsTypeOK /\ FamiliesFirst /\ StoresNext /\ CountsExact /\ GaugeExact
-----------------------------------------------------------------------------
(* Remainders of size_t arithmetic are in range, and exact in range.       *)
LEMMA ModFacts ==
  \A v \in Int : /\ v % SizeMod \in 0..(SizeMod - 1)
                 /\ v \in 0..(SizeMod - 1) => v % SizeMod = v
<1>1. SizeMod \in Nat /\ SizeMod > 1
  BY MetricsAssumption
<1>2. SUFFICES ASSUME NEW v \in Int
               PROVE  /\ v % SizeMod \in 0..(SizeMod - 1)
                      /\ v \in 0..(SizeMod - 1) => v % SizeMod = v
  OBVIOUS
<1>3. v % SizeMod \in 0..(SizeMod - 1)
  BY <1>1
<1>4. v \in 0..(SizeMod - 1) => v % SizeMod = v
  BY <1>1
<1>5. QED
  BY <1>3, <1>4

(* A number that doubles hold exactly is stored as it is.                  *)
LEMMA GaugeFacts ==
  ASSUME NEW n \in 0..(SizeMod - 1), NEW v \in ToGauge(n)
  PROVE  v \in Nat /\ (n <= ExactMax => v = n)
<1>1. v \in Nat /\ \A u \in Doubles : Distance(n, v) <= Distance(n, u)
  BY MetricsAssumption DEF ToGauge, Doubles
<1>2. SUFFICES ASSUME n <= ExactMax PROVE v = n
  BY <1>1
<1>3. n \in Doubles
  BY <1>2, MetricsAssumption DEF Doubles
<1>4. Distance(n, v) <= Distance(n, n)
  BY <1>1, <1>3
<1>5. QED
  BY <1>1, <1>4, MetricsAssumption DEF Distance

(* A new request has nothing to store yet.                                 *)
LEMMA HandleStep ==
  ASSUME MetricsInv, NEW t \in Thread, NEW o \in {"other", "add", "delete"}, Handle(t, o)
  PROVE  MetricsInv'
<1> USE MetricsAssumption DEF Handle, tallies, MetricsInv, Metric
<1>1. MetricsTypeOK'
  BY DEF MetricsTypeOK
<1>2. FamiliesFirst'
  BY DEF MetricsTypeOK, FamiliesFirst
<1>3. StoresNext'
  BY DEF MetricsTypeOK, StoresNext, Storing
<1>4. QED
  BY <1>1, <1>2, <1>3 DEF CountsExact, GaugeExact

(* The update of a metric, when its family is there.                       *)
LEMMA UpdateStep ==
  ASSUME MetricsInv, NEW t \in Thread, at[t] \in {"find", "set"}, name[t] \in families, Update(t),
         UNCHANGED <<lock, families, name, op, vec_cnt, calls, inexact>>
  PROVE  MetricsInv'
<1> USE MetricsAssumption DEF MetricsInv, Metric
<1>1. CASE name[t] = "requests_count"
  <2>1. /\ value' = [value EXCEPT !["requests_count"] = @ + 1] /\ counted' = counted + 1
        /\ at' = [at EXCEPT ![t] = IF op[t] = "other" THEN "idle" ELSE "get"]
        /\ UNCHANGED <<runner_lock, stored>>
    BY <1>1 DEF Update
  <2>2. MetricsTypeOK'
    BY <2>1 DEF MetricsTypeOK
  <2>3. FamiliesFirst'
    BY <1>1, <2>1 DEF MetricsTypeOK, FamiliesFirst
  <2>4. StoresNext'
    BY <1>1, <2>1 DEF MetricsTypeOK, StoresNext, Storing
  <2>5. QED
    BY <2>1, <2>2, <2>3, <2>4 DEF MetricsTypeOK, CountsExact, GaugeExact
<1>2. CASE name[t] = "vectors_count"
  <2>0. PICK v \in ToGauge(vec_cnt[t]) : value' = [value EXCEPT !["vectors_count"] = v]
    BY <1>2 DEF Update
  <2>1. /\ value' = [value EXCEPT !["vectors_count"] = v]
        /\ stored' = IF op[t] = "add" THEN stored + 1 ELSE stored - 1
        /\ at' = [at EXCEPT ![t] = "idle"]
        /\ runner_lock' = NoThread /\ UNCHANGED counted
    BY <1>2, <2>0 DEF Update
  <2>2. op[t] # "other" /\ runner_lock = t
    BY <1>2 DEF MetricsTypeOK, StoresNext, Storing
  <2>3. \A r \in Thread \ {t} : at[r] # "idle" => op[r] = "other"
    BY <2>2 DEF MetricsTypeOK
  <2>4. v \in Nat /\ (~inexact => v = vec_cnt[t])
    <3>1. vec_cnt[t] \in 0..(SizeMod - 1) /\ (~inexact => vec_cnt[t] <= ExactMax)
      BY <1>2 DEF MetricsTypeOK, StoresNext, Storing
    <3>2. QED
      BY <3>1, GaugeFacts
  <2>5. MetricsTypeOK'
    BY <2>1, <2>3, <2>4 DEF MetricsTypeOK
  <2>6. FamiliesFirst'
    BY <1>2, <2>1 DEF MetricsTypeOK, FamiliesFirst
  <2>7. StoresNext'
    BY <1>2, <2>1, <2>3, <2>4 DEF MetricsTypeOK, StoresNext, Storing
  <2>8. QED
    BY <1>2, <2>1, <2>4, <2>5, <2>6, <2>7 DEF MetricsTypeOK, StoresNext, Storing, CountsExact, GaugeExact
<1>3. QED
  BY <1>1, <1>2 DEF MetricsTypeOK

(* Looking a family up, and creating it.                                   *)
LEMMA FindStep ==
  ASSUME MetricsInv, NEW t \in Thread, Find(t)
  PROVE  MetricsInv'
<1> USE MetricsAssumption DEF Find, MetricsInv, Metric
<1>1. CASE name[t] \in families
  BY <1>1, UpdateStep
<1>2. CASE name[t] \notin families
  <2>1. MetricsTypeOK'
    BY <1>2 DEF MetricsTypeOK
  <2>2. FamiliesFirst'
    BY <1>2 DEF MetricsTypeOK, FamiliesFirst
  <2>3. StoresNext'
    BY <1>2 DEF MetricsTypeOK, StoresNext, Storing
  <2>4. QED
    BY <1>2, <2>1, <2>2, <2>3 DEF CountsExact, GaugeExact
<1>3. QED
  BY <1>1, <1>2

(* A family that another thread created first keeps its metric.            *)
LEMMA AddFamilyStep ==
  ASSUME MetricsInv, NEW t \in Thread, AddFamily(t)
  PROVE  MetricsInv'
<1> USE MetricsAssumption DEF AddFamily, tallies, MetricsInv, Metric
<1>1. value' = value
  BY DEF MetricsTypeOK, FamiliesFirst
<1>2. MetricsTypeOK'
  BY <1>1 DEF MetricsTypeOK
<1>3. FamiliesFirst'
  BY <1>1 DEF MetricsTypeOK, FamiliesFirst
<1>4. StoresNext'
  BY <1>1 DEF MetricsTypeOK, StoresNext, Storing
<1>5. QED
  BY <1>1, <1>2, <1>3, <1>4 DEF CountsExact, GaugeExact

(* Reading the gauge: what is read is the count, unless it left the range. *)
LEMMA GetStep ==
  ASSUME MetricsInv, NEW t \in Thread, GetGaugeValue(t)
  PROVE  MetricsInv'
<1> USE MetricsAssumption DEF MetricsInv, Metric
<1>1. PICK v \in IF "vectors_count" \in families THEN FromGauge(value["vectors_count"]) ELSE {0} :
       /\ vec_cnt' = [vec_cnt EXCEPT ![t] = (IF op[t] = "add" THEN v + 1 ELSE v - 1) % SizeMod]
       /\ inexact' = (inexact \/ (op[t] = "add" /\ v >= ExactMax) \/ (op[t] = "delete" /\ v = 0))
  BY DEF GetGaugeValue
<1>2. /\ at[t] = "get" /\ at' = [at EXCEPT ![t] = "find"]
      /\ name' = [name EXCEPT ![t] = "vectors_count"]
      /\ UNCHANGED <<lock, runner_lock, families, value, op, calls, counted, stored>>
  BY DEF GetGaugeValue
<1>3. v \in 0..(SizeMod - 1) /\ (~inexact => v = value["vectors_count"])
  BY <1>1 DEF MetricsTypeOK, FamiliesFirst, StoresNext, FromGauge
<1>4. op[t] \in {"add", "delete"} /\ runner_lock = t
  BY <1>2 DEF MetricsTypeOK, StoresNext
<1>5. (IF op[t] = "add" THEN v + 1 ELSE v - 1) % SizeMod \in 0..(SizeMod - 1)
  BY <1>3, ModFacts
<1>6. ASSUME ~inexact'
      PROVE  /\ vec_cnt'[t] = IF op[t] = "add" THEN v + 1 ELSE v - 1
             /\ vec_cnt'[t] <= ExactMax
  <2>0. ~(op[t] = "add" /\ v >= ExactMax) /\ ~(op[t] = "delete" /\ v = 0)
    BY <1>1, <1>6, Zenon
  <2>a. v <= ExactMax
    <3>1. ~inexact
      BY <1>1, <1>6, Zenon
    <3>2. QED
      BY <3>1, <1>3 DEF StoresNext
  <2>1. op[t] = "add" => v < ExactMax
    BY <1>3, <2>0, MetricsAssumption
  <2>2. op[t] = "delete" => v > 0
    BY <1>3, <2>0
  <2>3. (IF op[t] = "add" THEN v + 1 ELSE v - 1) \in 0..ExactMax
    BY <1>3, <1>4, <2>a, <2>1, <2>2, MetricsAssumption
  <2>4. vec_cnt'[t] = (IF op[t] = "add" THEN v + 1 ELSE v - 1) % SizeMod
    BY <1>1 DEF MetricsTypeOK
  <2>5. QED
    BY <2>3, <2>4, ModFacts, MetricsAssumption
<1>7. MetricsTypeOK'
  <2>1. vec_cnt' \in [Thread -> 0..(SizeMod - 1)]
    BY <1>1, <1>5 DEF MetricsTypeOK
  <2>2. inexact' \in BOOLEAN
    BY <1>1 DEF MetricsTypeOK
  <2>3. \A r \in Thread : at'[r] # "idle" /\ op'[r] # "other" => runner_lock' = r
    BY <1>2 DEF MetricsTypeOK
  <2>4. QED
    BY <1>2, <2>1, <2>2, <2>3 DEF MetricsTypeOK
<1>8. FamiliesFirst'
  BY <1>2 DEF MetricsTypeOK, FamiliesFirst
<1>9. StoresNext'
  <2>1. \A r \in Thread : (at[r] = "get" \/ Storing(r))' => op'[r] # "other"
    BY <1>2, <1>4 DEF MetricsTypeOK, StoresNext, Storing
  <2>2. ~inexact' => ~inexact
    BY <1>1
  <2>3. ASSUME ~inexact', NEW r \in Thread, Storing(r)'
        PROVE  /\ vec_cnt'[r] <= ExactMax
               /\ vec_cnt'[r] = IF op'[r] = "add" THEN stored' + 1 ELSE stored' - 1
    <3>1. CASE r = t
      <4>1. v = stored
        BY <1>3, <2>2, <2>3 DEF GaugeExact
      <4>2. QED
        BY <1>2, <1>6, <2>3, <3>1, <4>1
    <3>2. CASE r # t
      BY <1>2, <1>4, <2>3, <3>2 DEF MetricsTypeOK, StoresNext, Storing
    <3>3. QED
      BY <3>1, <3>2
  <2>4. QED
    BY <1>2, <2>1, <2>2, <2>3 DEF StoresNext
<1>10. QED
  BY <1>1, <1>2, <1>7, <1>8, <1>9 DEF CountsExact, GaugeExact

(* A request that ends early leaves the gauge as it is.                    *)
LEMMA ReturnStep ==
  ASSUME MetricsInv, NEW t \in Thread, ReturnEarly(t)
  PROVE  MetricsInv'
<1> USE MetricsAssumption DEF ReturnEarly, tallies, MetricsInv, Metric
<1>1. op[t] # "other" /\ runner_lock = t
  BY DEF MetricsTypeOK, StoresNext
<1>2. MetricsTypeOK'
  BY <1>1 DEF MetricsTypeOK
<1>3. FamiliesFirst'
  BY DEF MetricsTypeOK, FamiliesFirst
<1>4. StoresNext'
  BY DEF MetricsTypeOK, StoresNext, Storing
<1>5. QED
  BY <1>2, <1>3, <1>4 DEF CountsExact, GaugeExact
-----------------------------------------------------------------------------
(* The invariant holds at the start and in every step.                     *)
THEOREM MetricsInvariance == MetricsSpec => []MetricsInv
<1>1. MetricsInit => MetricsInv
  <2> SUFFICES ASSUME MetricsInit PROVE MetricsInv
    OBVIOUS
  <2> USE MetricsAssumption DEF MetricsInit, Metric
  <2>1. MetricsTypeOK
    <3>1. at \in [Thread -> {"idle", "find", "add", "set", "get"}] /\ value \in [Metric -> Nat]
      OBVIOUS
    <3>2. vec_cnt \in [Thread -> 0..(SizeMod - 1)]
      OBVIOUS
    <3>3. \A t \in Thread : at[t] # "idle" /\ op[t] # "other" => runner_lock = t
      OBVIOUS
    <3>4. name \in [Thread -> Metric] /\ op \in [Thread -> {"other", "add", "delete"}]
      OBVIOUS
    <3>5. inexact \in BOOLEAN /\ families \in SUBSET Metric
      OBVIOUS
    <3>6. QED
      BY <3>1, <3>2, <3>3, <3>4, <3>5 DEF MetricsTypeOK
  <2>2. FamiliesFirst
    BY DEF FamiliesFirst
  <2>3. StoresNext
    BY DEF StoresNext, Storing
  <2>4. QED
    BY <2>1, <2>2, <2>3 DEF MetricsInv, CountsExact, GaugeExact
<1>2. MetricsInv /\ [MetricsNext]_metrics_vars => MetricsInv'
  <2> SUFFICES ASSUME MetricsInv, [MetricsNext]_metrics_vars PROVE MetricsInv'
    OBVIOUS
  <2>1. ASSUME NEW t \in Thread, SetValue(t)
        PROVE  MetricsInv'
    <3>1. name[t] \in families
      BY <2>1 DEF SetValue, MetricsInv, FamiliesFirst
    <3>2. QED
      BY <2>1, <3>1, UpdateStep DEF SetValue
  <2>2. CASE UNCHANGED metrics_vars
    BY <2>2 DEF metrics_vars, thread, tallies, MetricsInv, MetricsTypeOK, FamiliesFirst, StoresNext,
                Storing, CountsExact, GaugeExact
  <2>3. QED
    BY <2>1, <2>2, HandleStep, FindStep, AddFamilyStep, GetStep, ReturnStep DEF MetricsNext, Step
<1>3. QED
  BY <1>1, <1>2, PTL DEF MetricsSpec

(* The counter of requests equals the increments made, for any number of   *)
(* threads racing to create its family.                                    *)
THEOREM NoIncrementLost == MetricsSpec => []CountsExact
<1>1. MetricsInv => CountsExact
  BY DEF MetricsInv
<1>2. QED
  BY <1>1, MetricsInvariance, PTL

(* The gauge equals the vectors added less the deletes while it has stayed *)
(* in the range that doubles hold exactly, for every width of size_t and   *)
(* every precision below it.                                               *)
THEOREM GaugeFollowsWrites == MetricsSpec => []GaugeExact
<1>1. MetricsInv => GaugeExact
  BY DEF MetricsInv
<1>2. QED
  BY <1>1, MetricsInvariance, PTL

(* The variables keep their types, and runner_lock excludes.               *)
THEOREM MetricsTypeCorrect == MetricsSpec => []MetricsTypeOK
<1>1. MetricsInv => MetricsTypeOK
  BY DEF MetricsInv
<1>2. QED
  BY <1>1, MetricsInvariance, PTL
=============================================================================
