---------------------------- MODULE Coordinator ----------------------------
(***************************************************************************)
(* Search over one index: the request handler of app/src/Coordinator.cpp   *)
(* with its cache of searchers and its statistics (app/include/utils/      *)
(* Stats.h), the keys it reads and writes in etcd (app/src/EtcdClient.cpp) *)
(* and the searchers that answer it (app/src/Searcher.cpp).                *)
(*                                                                         *)
(* mutex_ is held for a whole request, so one request is handled at a      *)
(* time, but searchers start and crash between its remote calls.  Error    *)
(* counts are only compared with the limit and saturate there;             *)
(* kRequestsToNextUpdate is 1, so responses need not be counted.           *)
(***************************************************************************)
EXTENDS Naturals, FiniteSets

CONSTANTS
  Shard,             \* the shards of the index
  Host,              \* searcher addresses
  Serves,            \* set of <<shard, host>>: the searchers' configurations
  All,               \* stands for a request without a shard_id
  kHostErrorsLimit

ASSUME CoordinatorAssumption ==
  /\ Serves \subseteq Shard \X Host /\ All \notin Shard
  /\ kHostErrorsLimit \in Nat \ {0}

VARIABLES
  etcdFaults,     \* may etcd not answer, in this behaviour?
  hosts,          \* etcd: <<shard, host>> registered
  stats,          \* etcd: shards whose response time is stored
  state,          \* of each host: "down", "starting" (not listening), "up"
  toRegister,     \* <<shard, host>> that starting hosts have still to register
  searchers_map,  \* cache: shard -> hosts
  errors_cnt_,    \* searchers_stats: failed asks of each shard, saturating
  pc,             \* "idle", "shards", "hosts", "loop", "settle"
  req,            \* the shard the request names, or All
  toList,         \* shards whose hosts are still to be read
  toAsk,          \* <<shard, host>> still to be asked
  asked,          \* the pair just asked and whether the ask failed
  answers,        \* hosts whose answers will be merged
  steady,         \* history: pairs registered when the request came, up and answering since
  failed          \* history: shards with a failed ask

etcd == <<hosts, stats>>
processes == <<state, toRegister>>
cache == <<searchers_map, errors_cnt_>>
request == <<pc, req, toList, toAsk, asked, answers>>
vars == <<etcdFaults, etcd, processes, cache, request, steady, failed>>

HostsOf(s) == {h \in Host : <<s, h>> \in hosts}
NoAsk == [pair |-> <<>>, error |-> FALSE]

Init ==
  /\ etcdFaults \in BOOLEAN
  /\ hosts = {} /\ stats = {}
  /\ state = [h \in Host |-> "down"] /\ toRegister = {}
  /\ searchers_map = [s \in Shard |-> {}]
  /\ errors_cnt_ = [s \in Shard |-> 0]
  /\ pc = "idle" /\ req = All /\ toList = {} /\ toAsk = {}
  /\ asked = NoAsk /\ answers = {} /\ steady = {} /\ failed = {}
-----------------------------------------------------------------------------
(* A request has the mutex.                                                *)
Receive(r) ==
  /\ pc = "idle"
  /\ req' = r /\ pc' = "shards" /\ answers' = {}
  /\ steady' = {p \in hosts : state[p[2]] = "up"}
  /\ UNCHANGED <<etcdFaults, etcd, processes, cache, toList, toAsk, asked, failed>>

(* UpdateSearchersState: the shard named, or all that have a key in etcd.  *)
ListShardIds ==
  /\ pc = "shards" /\ pc' = "hosts"
  /\ toList' = IF req = All THEN {p[1] : p \in hosts} \cup stats ELSE {req}
  /\ UNCHANGED <<etcdFaults, etcd, processes, cache, req, toAsk, asked, answers, steady, failed>>

(* Mutant: a shard with cached searchers is not read again.                *)
CachedOnce(s) ==
  [searchers_map EXCEPT ![s] = IF @ = {} THEN HostsOf(s) ELSE @]

(* The clients of a shard are built anew from its addresses.               *)
Refreshed(s) == [searchers_map EXCEPT ![s] = HostsOf(s)]

ListSearcherHosts(s) ==
  /\ pc = "hosts" /\ s \in toList
  /\ searchers_map' = Refreshed(s)
  /\ toList' = toList \ {s}
  /\ UNCHANGED <<etcdFaults, etcd, processes, errors_cnt_, pc, req, toAsk, asked, answers, steady, failed>>

(* Every cached shard is asked, named by the request or not.               *)
StartLoop ==
  /\ pc = "hosts" /\ toList = {}
  /\ pc' = "loop"
  /\ toAsk' = {p \in Shard \X Host : p[2] \in searchers_map[p[1]]}
  /\ UNCHANGED <<etcdFaults, etcd, processes, cache, req, toList, asked, answers, steady, failed>>

(* The exception leaves the handler, and gRPC answers with an error.       *)
EtcdUnreachable ==
  /\ etcdFaults /\ pc \in {"shards", "hosts"}
  /\ pc = "hosts" => toList # {}
  /\ pc' = "idle" /\ toList' = {}
  /\ UNCHANGED <<etcdFaults, etcd, processes, cache, req, toAsk, asked, answers, steady, failed>>

(* A listening searcher looks the request's shard up; the index of a shard *)
(* it does not serve is null, and the lookup brings it down.               *)
Knows(h) == req = All \/ <<req, h>> \in Serves

(* Mutant: the pair is asked again.                                        *)
AskAgain(p) ==
  /\ pc = "loop" /\ p \in toAsk
  /\ state[p[2]] = "up" /\ Knows(p[2])
  /\ answers' = answers \cup {p[2]}
  /\ asked' = [pair |-> p, error |-> FALSE]
  /\ pc' = "settle"
  /\ UNCHANGED <<etcdFaults, etcd, processes, cache, req, toList, toAsk, steady, failed>>

(* AskSingleSearcher: the answer is kept, or the error is noted in the     *)
(* collector.                                                              *)
AskAnswered(p) ==
  /\ pc = "loop" /\ p \in toAsk
  /\ state[p[2]] = "up" /\ Knows(p[2])
  /\ answers' = answers \cup {p[2]}
  /\ asked' = [pair |-> p, error |-> FALSE]
  /\ toAsk' = toAsk \ {p} /\ pc' = "settle"
  /\ UNCHANGED <<etcdFaults, etcd, processes, cache, req, toList, steady, failed>>

(* A call can fail whatever the searcher is doing, and may have brought it *)
(* down.                                                                   *)
AskFailed(p) ==
  /\ pc = "loop" /\ p \in toAsk
  /\ \/ UNCHANGED state
     \/ state[p[2]] = "up" /\ ~Knows(p[2]) /\ state' = [state EXCEPT ![p[2]] = "down"]
  /\ steady' = {q \in steady : q[2] # p[2]}
  /\ asked' = [pair |-> p, error |-> TRUE]
  /\ failed' = failed \cup {p[1]}
  /\ toAsk' = toAsk \ {p} /\ pc' = "settle"
  /\ UNCHANGED <<etcdFaults, etcd, toRegister, cache, req, toList, answers>>
-----------------------------------------------------------------------------
(* Mutant: errors of any shard count.                                      *)
TooManyOfAny(s) == \E t \in Shard : errors_cnt_[t] >= kHostErrorsLimit

TooManyErrors(s) == errors_cnt_[s] >= kHostErrorsLimit

(* AggregateStats, in the destructor of the collector: after               *)
(* UpdateStateIfNeeded has looked at the counts, and on an exception too.  *)
Aggregated ==
  [errors_cnt_ EXCEPT ![asked.pair[1]] =
     IF asked.error /\ @ < kHostErrorsLimit THEN @ + 1 ELSE @]

(* Mutant: the address is kept.                                            *)
SettleKeeps ==
  /\ pc = "settle" /\ pc' = "loop" /\ asked' = NoAsk
  /\ errors_cnt_' = Aggregated
  /\ TooManyErrors(asked.pair[1])
  /\ UNCHANGED <<etcdFaults, etcd, processes, searchers_map, req, toList, toAsk, answers, steady, failed>>

(* Mutant: the shard loses all its hosts.                                  *)
SettleRemoveShard ==
  /\ pc = "settle" /\ pc' = "loop" /\ asked' = NoAsk
  /\ errors_cnt_' = Aggregated
  /\ TooManyErrors(asked.pair[1])
  /\ hosts' = {p \in hosts : p[1] # asked.pair[1]}
  /\ UNCHANGED <<etcdFaults, stats, processes, searchers_map, req, toList, toAsk, answers, steady, failed>>

(* UpdateStateIfNeeded: a shard with too many errors loses the host that   *)
(* was asked, whether it answered or not; the address may stay in etcd,    *)
(* the exception being caught.                                             *)
SettleRemove ==
  /\ pc = "settle" /\ pc' = "loop" /\ asked' = NoAsk
  /\ errors_cnt_' = Aggregated
  /\ TooManyErrors(asked.pair[1])
  /\ \/ hosts' = hosts \ {asked.pair}
     \/ etcdFaults /\ UNCHANGED hosts
  /\ UNCHANGED <<etcdFaults, stats, processes, searchers_map, req, toList, toAsk, answers, steady, failed>>

(* Mutant: only an answer has a response time.                             *)
SettleStatsAnswered ==
  /\ pc = "settle" /\ pc' = "loop" /\ asked' = NoAsk
  /\ errors_cnt_' = Aggregated
  /\ ~TooManyErrors(asked.pair[1])
  /\ stats' = IF asked.error THEN stats ELSE stats \cup {asked.pair[1]}
  /\ UNCHANGED <<etcdFaults, hosts, processes, searchers_map, req, toList, toAsk, answers, steady, failed>>

(* Otherwise the response time is stored.                                  *)
SettleStats ==
  /\ pc = "settle" /\ pc' = "loop" /\ asked' = NoAsk
  /\ errors_cnt_' = Aggregated
  /\ ~TooManyErrors(asked.pair[1])
  /\ stats' = stats \cup {asked.pair[1]}
  /\ UNCHANGED <<etcdFaults, hosts, processes, searchers_map, req, toList, toAsk, answers, steady, failed>>

(* ... or the exception ends the request, the answers so far unused and    *)
(* the time stored when only the reply was lost.                           *)
SettleUnreachable ==
  /\ etcdFaults /\ pc = "settle" /\ pc' = "idle" /\ asked' = NoAsk
  /\ errors_cnt_' = Aggregated
  /\ ~TooManyErrors(asked.pair[1])
  /\ stats' \in {stats, stats \cup {asked.pair[1]}}
  /\ toAsk' = {}
  /\ UNCHANGED <<etcdFaults, hosts, processes, searchers_map, req, toList, answers, steady, failed>>

(* The answers are merged and returned; see Merging.                       *)
Respond ==
  /\ pc = "loop" /\ toAsk = {}
  /\ pc' = "idle"
  /\ UNCHANGED <<etcdFaults, etcd, processes, cache, req, toList, toAsk, asked, answers, steady, failed>>
-----------------------------------------------------------------------------
(* A searcher registers for the shards it serves, one call to etcd after   *)
(* the other, then listens.                                                *)
SearcherInit(h) ==
  /\ state[h] = "down"
  /\ state' = [state EXCEPT ![h] = "starting"]
  /\ toRegister' = toRegister \cup {p \in Serves : p[2] = h}
  /\ UNCHANGED <<etcdFaults, etcd, cache, request, steady, failed>>

AddSearcherHost(p) ==
  /\ p \in toRegister
  /\ hosts' = hosts \cup {p}
  /\ toRegister' = toRegister \ {p}
  /\ UNCHANGED <<etcdFaults, stats, state, cache, request, steady, failed>>

Listen(h) ==
  /\ state[h] = "starting" /\ \A p \in toRegister : p[2] # h
  /\ state' = [state EXCEPT ![h] = "up"]
  /\ UNCHANGED <<etcdFaults, etcd, toRegister, cache, request, steady, failed>>

(* Also the end of a constructor whose call to etcd fails.                 *)
Crash(h) ==
  /\ state[h] # "down"
  /\ state' = [state EXCEPT ![h] = "down"]
  /\ toRegister' = {p \in toRegister : p[2] # h}
  /\ steady' = {p \in steady : p[2] # h}
  /\ UNCHANGED <<etcdFaults, etcd, cache, request, failed>>

Handler ==
  \/ ListShardIds \/ (\E s \in Shard : ListSearcherHosts(s)) \/ StartLoop
  \/ EtcdUnreachable
  \/ \E p \in Shard \X Host : AskAnswered(p) \/ AskFailed(p)
  \/ SettleRemove \/ SettleStats \/ SettleUnreachable \/ Respond

Next == \/ \E r \in Shard \cup {All} : Receive(r)
        \/ Handler
        \/ \E p \in Serves : AddSearcherHost(p)
        \/ \E h \in Host : SearcherInit(h) \/ Listen(h) \/ Crash(h)

Spec == Init /\ [][Next]_vars

(* The thread of a request makes progress: every call returns.             *)
FairSpec == Spec /\ WF_vars(Handler)
-----------------------------------------------------------------------------
(* Types; the lists of a request are empty outside the steps that use      *)
(* them, and no ask is open outside its settlement.                        *)
TypeOK ==
  /\ etcdFaults \in BOOLEAN
  /\ hosts \in SUBSET Serves /\ stats \in SUBSET Shard
  /\ state \in [Host -> {"down", "starting", "up"}] /\ toRegister \in SUBSET Serves
  /\ \A p \in toRegister : state[p[2]] = "starting"
  /\ searchers_map \in [Shard -> SUBSET Host]
  /\ errors_cnt_ \in [Shard -> 0..kHostErrorsLimit]
  /\ pc \in {"idle", "shards", "hosts", "loop", "settle"}
  /\ req \in Shard \cup {All} /\ toList \in SUBSET Shard
  /\ toAsk \in SUBSET Serves /\ answers \in SUBSET Host
  /\ (pc = "settle") = (asked.pair # <<>>)
  /\ toList # {} => pc = "hosts"
  /\ toAsk # {} => pc \in {"loop", "settle"}

(* A response covers every searcher that serves the request, was           *)
(* registered when it came, has been up since and failed no call of it,    *)
(* whatever the cache held before and whatever happened to the others: the *)
(* loop of ProcessSearchRequest after UpdateSearchersState.                *)
AnswersComplete ==
  pc = "loop" /\ toAsk = {} =>
    \A p \in steady : req \in {All, p[1]} => p[2] \in answers

(* The Coordinator takes nobody's address out of etcd unless an ask of the *)
(* same shard had failed before: trouble in one shard leaves the searchers *)
(* of the others registered (UpdateStateIfNeeded).                         *)
EvictionNeedsFailure ==
  [][\A p \in hosts \ hosts' : p[1] \in failed]_vars

(* While etcd answers, the Coordinator stores a response time of a shard   *)
(* before it takes the first of its searchers out.  The shard keeps a key  *)
(* when its last searcher goes, ListShardIds still finds it, and the       *)
(* Writer does not throw its index away (SettleRemove after SettleStats).  *)
EvictedShardIsListed ==
  [][~etcdFaults => \A p \in hosts \ hosts' : p[1] \in stats]_vars

(* Each shard sees the Coordinator and the searchers do what Registry says *)
(* and no more: keys and processes of a shard change by single starts,     *)
(* crashes, evictions and stored times, also when a searcher registers for *)
(* several shards in turn and fails half-way; to a shard, it has started   *)
(* once it is registered there.  The Writer's view of a shard rests on     *)
(* this.                                                                   *)
Reg(s) == INSTANCE Registry WITH
  Host <- {h \in Host : <<s, h>> \in Serves}, hosts <- HostsOf(s), stats <- s \in stats,
  state <- [h \in {g \in Host : <<s, g>> \in Serves} |->
              IF <<s, h>> \in toRegister THEN "down" ELSE state[h]]

ImplementsRegistry ==
  /\ \A s \in Shard : Reg(s)!Init
  /\ [][\A s \in Shard : Reg(s)!Next \/ UNCHANGED Reg(s)!vars]_vars

(* Every request ends, with an answer or an error.                         *)
RequestEnds == pc # "idle" ~> pc = "idle"

(* A searcher that is down for good disappears from etcd if etcd answers   *)
(* and requests for the whole index keep being answered (two are enough).  *)
DeadIsEvicted ==
  \A h \in Host :
    ~etcdFaults /\ <>[](state[h] = "down") /\ []<>(pc = "loop" /\ toAsk = {} /\ req = All)
      => <>[](\A s \in Shard : <<s, h>> \notin hosts)
============================================================================
