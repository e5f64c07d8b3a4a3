------------------------------ MODULE Placement ------------------------------
(***************************************************************************)
(* Where a document goes when an index has several shards: the response    *)
(* times that the Coordinator averages (app/include/utils/Stats.h) and     *)
(* stores in etcd, and the write request that brings the Writer's shards   *)
(* up to date and takes the shard with the least time (updateIndexesState  *)
(* and chooseShard in app/src/Writer.cpp).                                 *)
(*                                                                         *)
(* The clock is finer than the microsecond that is the last digit of       *)
(* std::to_string: a response time counts units of which Unit make one     *)
(* microsecond.  An average is an exact fraction [num, den] of units, and  *)
(* what etcd holds is in microseconds.  runner_lock is held for a whole    *)
(* write request, but etcd changes between its remote calls.               *)
(***************************************************************************)
EXTENDS Integers, FiniteSets

CONSTANTS
  Shard,         \* the shards of the index
  Nothing,       \* no shard; no time
  EtcdFaults,    \* may etcd not answer?
  Unit,          \* units of the clock in a microsecond (1000 in the code)
  Time,          \* response times a searcher can have, in units
  MaxResponses,  \* bound: asks of the Coordinator
  MaxChanges     \* bound: registrations and evictions of searchers

ASSUME PlacementAssumption ==
  /\ Unit \in Nat \ {0} /\ Time \subseteq Nat /\ Nothing \notin Shard \cup Nat
  /\ MaxResponses \in Nat /\ MaxChanges \in Nat /\ EtcdFaults \in BOOLEAN

VARIABLES
  hosts,          \* etcd: shards with a registered searcher
  times,          \* etcd: average_response_time of each shard, or Nothing
  cached,         \* searchers_map: shards the Coordinator has clients for
  stats,          \* searchers_stats: [average_response_time_, responses_cnt_, errors_cnt_]
  shards,         \* shards[index_id] of the Writer: keys with an index
  pc,             \* write request: "idle", "list", "choose", "write"
  toRead,         \* chooseShard: shards still to be read
  shard_id,       \* chooseShard: the best shard so far, and
  min_time,       \*   its time
  changes,        \* registrations and evictions so far
  slowest,        \* history: the longest response time of each shard
  fastest,        \* history: the shortest one
  moved           \* history: shards whose time changed since the listing

etcd == <<hosts, times>>
request == <<pc, toRead, shard_id, min_time>>
coordinator == <<cached, stats>>
writer == <<shards, request>>
extremes == <<slowest, fastest>>
observed == <<extremes, moved>>
placement_vars == <<etcd, coordinator, writer, changes, observed>>

Listed == hosts \cup {s \in Shard : times[s] # Nothing}
NoStats == [average_response_time_ |-> [num |-> 0, den |-> 1], responses_cnt_ |-> 0, errors_cnt_ |-> 0]

PlacementInit ==
  /\ hosts = {} /\ times = [s \in Shard |-> Nothing]
  /\ cached = {} /\ stats = [s \in Shard |-> NoStats]
  /\ shards = {}
  /\ pc = "idle" /\ toRead = {} /\ shard_id = Nothing /\ min_time = 0
  /\ changes = 0 /\ moved = {}
  /\ slowest = [s \in Shard |-> 0] /\ fastest = [s \in Shard |-> 0]
-----------------------------------------------------------------------------
(* Searchers of a shard register and are taken out of etcd.                *)
Register(s) ==
  /\ changes < MaxChanges /\ changes' = changes + 1
  /\ s \notin hosts /\ hosts' = hosts \cup {s}
  /\ UNCHANGED <<times, coordinator, writer, observed>>

Unregister(s) ==
  /\ changes < MaxChanges /\ changes' = changes + 1
  /\ s \in hosts /\ hosts' = hosts \ {s}
  /\ UNCHANGED <<times, coordinator, writer, observed>>

(* AggregateStats has counted the response already when it averages.       *)
Averaged(a, cnt, t) == [num |-> a.num * cnt + t * a.den, den |-> a.den * (cnt + 1)]

(* std::to_string: the nearest microseconds.                               *)
to_string(a) == {r \in 0..a.num : 2 * a.num - Unit * a.den <= 2 * r * Unit * a.den
                              /\ 2 * r * Unit * a.den <= 2 * a.num + Unit * a.den}

(* GetSearcherAverageResponseTime: 0.0 for a shard without a key.          *)
TimeOf(s) == IF times[s] = Nothing THEN 0 ELSE times[s]

(* UpdateSearchersState: the clients of a shard are those registered now.  *)
UpdateSearchersState(s) ==
  /\ cached' = IF s \in hosts THEN cached \cup {s} ELSE cached \ {s}
  /\ UNCHANGED <<etcd, stats, writer, changes, observed>>

(* Mutant: errors do not keep a time from being stored.                    *)
StoredAnyway(s) ==
  /\ \E r \in to_string(stats[s].average_response_time_) : times' = [times EXCEPT ![s] = r]
  /\ moved' = IF TimeOf(s)' = TimeOf(s) THEN moved ELSE moved \cup {s}

(* An ask of a cached searcher, registered still or not.                   *)
(* UpdateStateIfNeeded stores the average of the asks before, if the shard *)
(* has no errors (kHostErrorsLimit is 1); etcd may not take it.  Then the  *)
(* collector is destroyed, by an exception too, and its response           *)
(* aggregated.                                                             *)
Stored(s) ==
  \/ /\ stats[s].errors_cnt_ >= 1 \/ EtcdFaults
     /\ UNCHANGED <<times, moved>>
  \/ /\ stats[s].errors_cnt_ < 1
     /\ \E r \in to_string(stats[s].average_response_time_) : times' = [times EXCEPT ![s] = r]
     /\ moved' = IF TimeOf(s)' = TimeOf(s) THEN moved ELSE moved \cup {s}

Answer(s, t) ==
  /\ s \in cached /\ stats[s].responses_cnt_ < MaxResponses
  /\ Stored(s)
  /\ LET cnt == stats[s].responses_cnt_ + 1
     IN stats' = [stats EXCEPT ![s] =
          [average_response_time_ |-> Averaged(@.average_response_time_, cnt, t),
           responses_cnt_ |-> cnt, errors_cnt_ |-> @.errors_cnt_]]
  /\ slowest' = [slowest EXCEPT ![s] = IF t > @ THEN t ELSE @]
  /\ fastest' = [fastest EXCEPT ![s] =
       IF t < @ \/ stats[s].responses_cnt_ = stats[s].errors_cnt_ THEN t ELSE @]
  /\ UNCHANGED <<hosts, cached, writer, changes>>

Error(s) ==
  /\ s \in cached /\ stats[s].responses_cnt_ < MaxResponses
  /\ Stored(s)
  /\ stats' = [stats EXCEPT ![s] =
       [average_response_time_ |-> @.average_response_time_,
        responses_cnt_ |-> @.responses_cnt_ + 1, errors_cnt_ |-> @.errors_cnt_ + 1]]
  /\ UNCHANGED <<hosts, cached, writer, changes, extremes>>
-----------------------------------------------------------------------------
(* A write request has runner_lock.                                        *)
ProcessWriteRequest ==
  /\ pc = "idle" /\ pc' = "list"
  /\ UNCHANGED <<etcd, coordinator, shards, toRead, shard_id, min_time, changes, observed>>

(* updateIndexesState: indexes of shards no longer listed are destroyed,   *)
(* listed ones created; without any, the index itself is forgotten and the *)
(* request refused.                                                        *)
UpdateIndexesState ==
  /\ pc = "list"
  /\ shards' = Listed /\ moved' = {}
  /\ pc' = IF Listed = {} THEN "idle" ELSE "choose"
  /\ toRead' = Listed /\ shard_id' = Nothing /\ min_time' = 0
  /\ UNCHANGED <<etcd, coordinator, changes, extremes>>

(* Mutant: the time of the first shard is not kept.                        *)
ChooseFirst(s) ==
  /\ pc = "choose" /\ s \in toRead
  /\ toRead' = toRead \ {s}
  /\ IF shard_id = Nothing \/ TimeOf(s) < min_time
     THEN shard_id' = s /\ min_time' = (IF shard_id = Nothing THEN min_time ELSE TimeOf(s))
     ELSE UNCHANGED <<shard_id, min_time>>
  /\ UNCHANGED <<etcd, coordinator, shards, pc, changes, observed>>

(* One turn of the loop of chooseShard, in the order of the map.           *)
Choose(s) ==
  /\ pc = "choose" /\ s \in toRead
  /\ toRead' = toRead \ {s}
  /\ IF shard_id = Nothing \/ TimeOf(s) < min_time
     THEN shard_id' = s /\ min_time' = TimeOf(s)
     ELSE UNCHANGED <<shard_id, min_time>>
  /\ UNCHANGED <<etcd, coordinator, shards, pc, changes, observed>>

Chosen ==
  /\ pc = "choose" /\ toRead = {} /\ pc' = "write"
  /\ UNCHANGED <<etcd, coordinator, shards, toRead, shard_id, min_time, changes, observed>>

(* The document is added to the index of the shard; see Index.             *)
Write ==
  /\ pc = "write" /\ pc' = "idle"
  /\ UNCHANGED <<etcd, coordinator, shards, toRead, shard_id, min_time, changes, observed>>

(* etcd does not answer: the exception ends the request.                   *)
EtcdUnreachable ==
  /\ EtcdFaults /\ pc \in {"list", "choose"}
  /\ pc = "choose" => toRead # {}
  /\ pc' = "idle"
  /\ UNCHANGED <<etcd, coordinator, shards, toRead, shard_id, min_time, changes, observed>>

Request == UpdateIndexesState \/ (\E s \in Shard : Choose(s)) \/ Chosen \/ Write

PlacementNext ==
  \/ \E s \in Shard : \/ Register(s) \/ Unregister(s) \/ UpdateSearchersState(s) \/ Error(s)
                     \/ \E t \in Time : Answer(s, t)
  \/ ProcessWriteRequest \/ Request \/ EtcdUnreachable

PlacementSpec == PlacementInit /\ [][PlacementNext]_placement_vars
----------------------------------------------------------------------------
(* A document goes to a shard that the Writer has an index for, and to     *)
(* none slower than another, as far as times did not change while they     *)
(* were read (chooseShard, between remote calls).                          *)
ChosenIsFastest ==
  pc = "write" =>
    /\ shard_id \in shards
    /\ shard_id \notin moved => min_time = TimeOf(shard_id)
    /\ \A s \in shards \ moved : min_time <= TimeOf(s)

(* What etcd has of a shard fits its answers, however often they are       *)
(* averaged and rounded, whatever errors come in between and whichever     *)
(* stores fail.  It is above the slowest answer by the rounding at most.   *)
(* It is below the fastest by half and the rounding at most, since the     *)
(* count runs ahead of the average by one and errors, which are counted    *)
(* too, end the storing; or it is zero, as after the first ask             *)
(* (AggregateStats, UpdateAverageResponseTime).                            *)
TimeWithinAnswers ==
  \A s \in Shard :
    /\ 2 * Unit * TimeOf(s) <= 2 * slowest[s] + Unit
    /\ TimeOf(s) = 0 \/ fastest[s] <= 2 * Unit * TimeOf(s) + Unit
=============================================================================
