---------------------------- MODULE Replication ----------------------------
(***************************************************************************)
(* One shard, from the Writer to the Searchers that serve it: the write    *)
(* requests and the callback runner of app/src/Writer.cpp around the Index *)
(* they share, the segment objects in S3 (app/src/StorageClient.cpp), the  *)
(* searcher addresses in etcd (app/src/EtcdClient.cpp) and the update      *)
(* handler, registration and life of app/src/Searcher.cpp.                 *)
(*                                                                         *)
(* The callback runner is a pool of one thread.  A task holds runner_lock  *)
(* from its first statement to its last, and so does a write request, but  *)
(* searchers, etcd and S3 move on between the remote calls of a task:      *)
(* runner says how far the current task is.                                *)
(***************************************************************************)
EXTENDS Index

CONSTANTS
  Searcher,    \* searcher addresses
  Faults,      \* may S3 refuse an operation, and etcd not answer?
  MaxStarts,   \* bound: searcher starts in a behaviour
  MaxLives     \* bound: writer processes in a behaviour

ASSUME ReplicationAssumption ==
  Faults \in BOOLEAN /\ MaxStarts \in Nat /\ MaxLives \in Nat \ {0}

VARIABLES
  writerUp,  \* FALSE once an exception has left a task, or it crashed
  present,   \* does the writer have an index for the shard?
  sameName,  \* is the shard's id the id of its index, in this behaviour?
  runner,    \* "free", or in a task: "list" (hosts next), "notify"
  request,   \* the UpdateRequest of the task: [added, deleted]
  targets,   \* hosts the task has still to update
  bucket,    \* set of objects <<segment id, live vectors, size()>>
  hosts,     \* searchers registered in etcd for this shard
  stats,     \* is the shard's response time in etcd?
  state,     \* of each searcher: "down", "starting" (not listening), "up"
  replica,   \* of each searcher: the segments pushed, as in the bucket
  starts,    \* searcher starts so far
  lost,      \* history: S3 refused an operation
  dropped,   \* history: an index was dropped, or lost with its writer
  lives,     \* writer processes so far
  missed     \* history: searchers a task did not list, or that lost a segment

(* The keys of the shard and the life of its searchers.                    *)
Reg == INSTANCE Registry WITH Host <- Searcher

shard == <<present, sameName>>
task == <<runner, request, targets>>
etcd == <<hosts, stats>>
searchers == <<state, replica, starts>>
history == <<lost, dropped, lives, missed>>
replication == <<writerUp, shard, task, bucket, etcd, searchers, history>>
allVars == <<vars, replication>>

Held(s) == UNION {o[2] : o \in replica[s]}
StoredIds == {o[1] : o \in bucket}

RInit ==
  /\ Init
  /\ writerUp = TRUE /\ present = FALSE /\ sameName \in BOOLEAN /\ runner = "free" /\ targets = {}
  /\ request = [added |-> {}, deleted |-> {}]
  /\ Reg!Init /\ bucket = {} /\ starts = 0
  /\ replica = [s \in Searcher |-> {}]
  /\ lost = FALSE /\ dropped = FALSE /\ lives = 1 /\ missed = {}
-----------------------------------------------------------------------------
(* Mutant: tasks wait for a registered searcher.                           *)
LockedIfHosts == writerUp /\ runner = "free" /\ hosts # {}

(* Write requests and tasks exclude each other by runner_lock.             *)
Locked == writerUp /\ runner = "free"

(* ListShardIds finds the shard by any key under it.                       *)
Listed == hosts # {} \/ stats

(* updateIndexesState, which runs first in every write request: a shard    *)
(* that came up gets an empty index, and the index of one that is no       *)
(* longer listed is destroyed, with all it holds; queued tasks keep their  *)
(* segments alive.  The open segment of the next index is allocated here.  *)
CreateIndex ==
  /\ Locked /\ pc = "idle" /\ Listed /\ ~present
  /\ present' = TRUE
  /\ UNCHANGED <<vars, writerUp, sameName, task, bucket, etcd, searchers, history>>

DropIndex ==
  /\ Locked /\ pc = "idle" /\ ~Listed /\ present
  /\ present' = FALSE /\ dropped' = TRUE
  /\ heap' = Append(heap, NewSegment(rand + 1)) /\ rand' = rand + 1
  /\ last_' = Len(heap) + 1 /\ levels' = <<>>
  /\ segments_' = [p \in 1..(Len(heap) + 1) |-> 0]
  /\ docs' = {}
  /\ UNCHANGED <<added, pc, locals, client, writerUp, sameName, task, bucket, etcd, searchers, lost, lives, missed>>

(* The rest of a write request: one document is added or, if the request   *)
(* has the attribute "delete", erased.                                     *)
ProcessWriteRequest ==
  /\ Locked /\ present
  /\ \/ Listed /\ \E d \in Doc : Add(<<d>>)
     \/ Listed /\ sameName /\ \E d \in Doc : Erase({d})
     \/ AddStep
  /\ UNCHANGED replication

(* The delete branch looks the shard up under the id of the index: if that *)
(* is not its name, the index found is null.                               *)
DeleteFromNull ==
  /\ Locked /\ present /\ Listed /\ pc = "idle" /\ ~sameName
  /\ writerUp' = FALSE
  /\ UNCHANGED <<vars, shard, task, bucket, etcd, searchers, history>>

(* Mutant: an object that exists is not written again.                     *)
PutKeeps(b, new) == b \cup {n \in new : \A o \in b : n[1] # o[1]}

(* putObject replaces an object of the same name; delObject takes the      *)
(* objects of a name out.                                                  *)
Put(b, new) == {o \in b : \A n \in new : n[1] # o[1]} \cup new
Del(b, ids) == {o \in b : o[1] \notin ids}

(* A serialized segment is its id, what it has not erased, and the size    *)
(* that its ids_ and erased_ make up, wrapped or not.                      *)
Serialized(p) == <<heap[p].seg_id, Live(heap[p]), size(heap[p])>>

(* The operations of a set S that S3 carries out.                          *)
Done(S) == IF Faults THEN SUBSET S ELSE {S}

(* The task takes the oldest callback invocation: every inserted segment   *)
(* is serialized, under the id it has now, and put; then every erased id   *)
(* is deleted.  The results of put and delete are ignored.                 *)
StoreTask ==
  LET new == {Serialized(p) : p \in Head(posted).inserted}
      del == Head(posted).erased
  IN
  /\ Locked /\ RunCallback
  /\ \E put \in Done(new), gone \in Done(del) :
       /\ bucket' = Del(Put(bucket, put), gone)
       /\ lost' = (lost \/ put # new \/ gone # del)
  /\ request' = [added |-> {o[1] : o \in new}, deleted |-> del]
  /\ runner' = "list"
  /\ UNCHANGED <<writerUp, shard, targets, etcd, searchers, dropped, lives, missed>>

ListSearcherHosts ==
  /\ writerUp /\ runner = "list"
  /\ targets' = hosts /\ runner' = "notify"
  /\ missed' = missed \cup (Searcher \ hosts)
  /\ UNCHANGED <<vars, writerUp, shard, request, bucket, etcd, searchers, lost, dropped, lives>>

(* etcd does not answer: the exception leaves the task.                    *)
EtcdUnreachable ==
  /\ Faults /\ writerUp /\ runner = "list"
  /\ writerUp' = FALSE
  /\ UNCHANGED <<vars, shard, task, bucket, etcd, searchers, history>>

(* ProcessUpdateRequest on a listening searcher: each added object is      *)
(* fetched and pushed; then eraseSegment looks each deleted id up, and     *)
(* leaves the segment where it is.                                         *)
Fetched == {o \in bucket : o[1] \in request.added}

(* SegmentStorage::add looks for the level of a segment it is pushed: no   *)
(* power of 2 is as large as a size that wrapped.                          *)
Endless(o) == o[3] > SizeMod \div 2

(* Mutants: only the first host is told; the fetched segments replace the  *)
(* index.                                                                  *)
UpdateIndexFirst(s) ==
  /\ writerUp /\ runner = "notify" /\ s \in targets
  /\ state[s] = "up" /\ request.added \subseteq StoredIds
  /\ \A o \in Fetched : ~Endless(o)
  /\ replica' = [replica EXCEPT ![s] = @ \cup Fetched]
  /\ targets' = {}
  /\ UNCHANGED <<vars, writerUp, shard, runner, request, bucket, etcd, state, starts, history>>

UpdateIndexReplaces(s) ==
  /\ writerUp /\ runner = "notify" /\ s \in targets
  /\ state[s] = "up" /\ request.added \subseteq StoredIds
  /\ \A o \in Fetched : ~Endless(o)
  /\ replica' = [replica EXCEPT ![s] = Fetched]
  /\ targets' = targets \ {s}
  /\ UNCHANGED <<vars, writerUp, shard, runner, request, bucket, etcd, state, starts, history>>

UpdateIndex(s) ==
  /\ writerUp /\ runner = "notify" /\ s \in targets
  /\ state[s] = "up" /\ request.added \subseteq StoredIds
  /\ \A o \in Fetched : ~Endless(o)
  /\ replica' = [replica EXCEPT ![s] = @ \cup Fetched]
  /\ targets' = targets \ {s}
  /\ UNCHANGED <<vars, writerUp, shard, runner, request, bucket, etcd, state, starts, history>>

(* updateIndex throws when the searcher cannot be reached, nothing catches *)
(* it on the pool thread, and the writer terminates.                       *)
UpdateUnreachable(s) ==
  /\ writerUp /\ runner = "notify" /\ s \in targets /\ state[s] # "up"
  /\ writerUp' = FALSE
  /\ UNCHANGED <<vars, shard, task, bucket, etcd, searchers, history>>

(* No file: fopen returns NULL, the searcher dies reading from it, and the *)
(* failed call takes the writer down too.                                  *)
NoFile(s) ==
  /\ writerUp /\ runner = "notify" /\ s \in targets /\ state[s] = "up"
  /\ state' = [state EXCEPT ![s] = "down"]
  /\ replica' = [replica EXCEPT ![s] = {}]
  /\ writerUp' = FALSE
  /\ UNCHANGED <<vars, shard, task, bucket, etcd, starts, history>>

(* An object is missing, or getObject is refused.                          *)
UpdateMissingObject(s) == ~ (request.added \subseteq StoredIds) /\ NoFile(s)
UpdateRefused(s) == Faults /\ request.added # {} /\ NoFile(s)

(* Mutant: the loop allocates nothing, and the call never returns.         *)
UpdateHangs(s) == FALSE

(* The loop of SegmentStorage::add appends levels until the memory is      *)
(* gone, which ends the searcher, or only the call, with what it had       *)
(* pushed before; the writer ends either way.                              *)
UpdateEndless(s) ==
  /\ writerUp /\ runner = "notify" /\ s \in targets /\ state[s] = "up"
  /\ request.added \subseteq StoredIds /\ \E o \in Fetched : Endless(o)
  /\ \/ /\ state' = [state EXCEPT ![s] = "down"]
        /\ replica' = [replica EXCEPT ![s] = {}]
     \/ /\ \E pushed \in SUBSET {o \in Fetched : ~Endless(o)} :
             replica' = [replica EXCEPT ![s] = @ \cup pushed]
        /\ UNCHANGED state
  /\ writerUp' = FALSE
  /\ UNCHANGED <<vars, shard, task, bucket, etcd, starts, history>>

(* Mutant: the lock is released before every host has answered.            *)
TaskDoneEarly ==
  /\ writerUp /\ runner = "notify"
  /\ runner' = "free"
  /\ UNCHANGED <<vars, writerUp, shard, request, targets, bucket, etcd, searchers, history>>

TaskDone ==
  /\ writerUp /\ runner = "notify" /\ targets = {}
  /\ runner' = "free"
  /\ UNCHANGED <<vars, writerUp, shard, request, targets, bucket, etcd, searchers, history>>

(* The writer dies anywhere, in a task also between two operations on S3;  *)
(* it does so too when a call of a searcher that listens breaks off.       *)
WriterCrash ==
  /\ writerUp /\ lives < MaxLives
  /\ writerUp' = FALSE
  /\ UNCHANGED <<vars, shard, task, bucket, etcd, searchers, history>>

StoreTaskCrash ==
  LET new == {Serialized(p) : p \in Head(posted).inserted}
      del == Head(posted).erased
  IN
  /\ Locked /\ pc = "idle" /\ posted # <<>> /\ lives < MaxLives
  /\ \E put \in SUBSET new : \E gone \in IF put = new THEN SUBSET del ELSE {{}} :
       bucket' = Del(Put(bucket, put), gone)
  /\ writerUp' = FALSE
  /\ UNCHANGED <<vars, shard, task, etcd, searchers, history>>

(* A new writer starts with nothing and reads nothing back.  rand() is not *)
(* seeded, so its segments get the ids of the process before.  added goes  *)
(* on: it names the vectors.                                               *)
WriterStart ==
  /\ ~writerUp /\ lives < MaxLives
  /\ lives' = lives + 1 /\ writerUp' = TRUE /\ dropped' = TRUE
  /\ heap' = <<NewSegment(1)>> /\ last_' = 1 /\ segments_' = <<0>>
  /\ levels' = <<>> /\ rand' = 1 /\ pc' = "idle"
  /\ todo' = <<>> /\ erased' = {} /\ inserted' = {}
  /\ i' = 1 /\ j' = 1 /\ amount' = 0
  /\ posted' = <<>> /\ published' = {} /\ docs' = {}
  /\ present' = FALSE /\ runner' = "free" /\ targets' = {}
  /\ request' = [added |-> {}, deleted |-> {}]
  /\ UNCHANGED <<added, sameName, bucket, etcd, searchers, lost, missed>>
-----------------------------------------------------------------------------
(* A searcher starts with an empty index, and loses it with its process.   *)
SearcherInit(s) ==
  /\ Reg!Start(s) /\ starts < MaxStarts
  /\ replica' = [replica EXCEPT ![s] = {}]
  /\ starts' = starts + 1
  /\ UNCHANGED <<vars, writerUp, shard, task, bucket, history>>

Listen(s) ==
  /\ Reg!Listen(s)
  /\ UNCHANGED <<vars, writerUp, shard, task, bucket, replica, starts, history>>

Forget(s) ==
  /\ replica' = [replica EXCEPT ![s] = {}]
  /\ missed' = IF replica[s] # {} THEN missed \cup {s} ELSE missed
  /\ UNCHANGED <<vars, writerUp, shard, task, bucket, starts, lost, dropped, lives>>

Crash(s) == Reg!Crash(s) /\ Forget(s)

GracefulShutdown(s) == Reg!Shutdown(s) /\ Forget(s)

(* The Coordinator takes an address out of etcd, or stores the response    *)
(* time of the shard; see Coordinator.                                     *)
RemoveSearcherHost(s) ==
  /\ Reg!Evict(s)
  /\ UNCHANGED <<vars, writerUp, shard, task, bucket, replica, starts, history>>

UpdateAverageResponseTime ==
  /\ ~stats /\ Reg!StoreTime
  /\ UNCHANGED <<vars, writerUp, shard, task, bucket, replica, starts, history>>
-----------------------------------------------------------------------------
(* What a task does while nothing fails that may go well.                  *)
TaskStep == \/ StoreTask \/ ListSearcherHosts \/ TaskDone
            \/ \E s \in Searcher : \/ UpdateIndex(s)
                                   \/ UpdateUnreachable(s)
                                   \/ UpdateMissingObject(s)
                                   \/ UpdateEndless(s)

SearcherStep(s) == SearcherInit(s) \/ Listen(s) \/ Crash(s) \/ GracefulShutdown(s)

RNext == \/ ProcessWriteRequest \/ CreateIndex \/ DropIndex \/ DeleteFromNull
         \/ TaskStep
         \/ EtcdUnreachable \/ \E s \in Searcher : UpdateRefused(s)
         \/ \E s \in Searcher : SearcherStep(s) \/ RemoveSearcherHost(s)
         \/ UpdateAverageResponseTime
         \/ WriterCrash \/ StoreTaskCrash \/ WriterStart

RSpec == RInit /\ [][RNext]_allVars

(* The threads of a live writer make progress, and a started searcher      *)
(* gets to listen.                                                         *)
RFairSpec == /\ RSpec
             /\ WF_allVars(Locked /\ AddStep /\ UNCHANGED replication)
             /\ WF_allVars(TaskStep)
             /\ \A s \in Searcher : WF_allVars(Listen(s))
-----------------------------------------------------------------------------
(* Types; a task ends with no host left over, and memory ends with its     *)
(* process.                                                                *)
RTypeOK ==
  /\ writerUp \in BOOLEAN /\ present \in BOOLEAN /\ sameName \in BOOLEAN
  /\ stats \in BOOLEAN /\ dropped \in BOOLEAN /\ lives \in Nat
  /\ runner \in {"free", "list", "notify"}
  /\ request \in [added : SUBSET Nat, deleted : SUBSET Nat]
  /\ targets \in SUBSET Searcher
  /\ bucket \in SUBSET (Nat \X (SUBSET (Doc \X Nat)) \X Nat)
  /\ hosts \in SUBSET Searcher /\ state \in [Searcher -> {"down", "starting", "up"}]
  /\ replica \in [Searcher -> SUBSET (Nat \X (SUBSET (Doc \X Nat)) \X Nat)]
  /\ starts \in Nat /\ lost \in BOOLEAN /\ missed \in SUBSET Searcher
  /\ runner # "notify" => targets = {}
  /\ \A s \in Searcher : state[s] = "down" => replica[s] = {}

(* Every segment a task announces is in S3 when the searchers fetch it,    *)
(* although ids are read late and the same task deletes objects, and what  *)
(* they fetch is a segment as it is now, not an object that an earlier     *)
(* writer left under the id: no searcher dies on a missing file or serves  *)
(* another segment unless S3 refused an operation (StoreTask).             *)
AnnouncedIsStored ==
  runner # "free" /\ ~lost =>
    /\ request.added \subseteq StoredIds
    /\ Fetched \subseteq {Serialized(p) : p \in Objects}

Drained == writerUp /\ runner = "free" /\ pc = "idle" /\ posted = <<>> /\ ~lost

(* When the writer has caught up, S3 holds an object for every segment of  *)
(* the levels, under the id the segment has now, with all it still has to  *)
(* say.  This survives dropped shards and restarts, after which old        *)
(* objects lie under ids that are given out again (StoreTask).             *)
CurrentIsStored ==
  Drained => \A p \in LevelSegments : \E o \in bucket :
    o[1] = heap[p].seg_id /\ Live(heap[p]) \subseteq o[2]

(* ... and nothing else: no orphans, however late the tasks ran, as long   *)
(* as the shard stayed listed and the writer lived.                        *)
BucketMatches ==
  Drained /\ ~dropped => StoredIds = {heap[p].seg_id : p \in LevelSegments}

(* When the writer has caught up, a searcher that was registered at every  *)
(* update and lost none of its memory finds every document of a sealed     *)
(* segment that was not erased.                                            *)
ReplicaComplete ==
  Drained => \A s \in Searcher \ missed : state[s] = "up" =>
    UNION {Live(heap[p]) : p \in LevelSegments} \subseteq Held(s)

(* A task that has started ends, or takes the writer with it, also when a  *)
(* searcher is told of a segment that has no level (ProcessUpdateRequest). *)
TaskEnds == runner # "free" ~> (runner = "free" \/ ~writerUp)

(* What callbacks announce is worked off while the writer lives.           *)
UpdatesDrain == posted # <<>> ~> (posted = <<>> \/ ~writerUp)
============================================================================
