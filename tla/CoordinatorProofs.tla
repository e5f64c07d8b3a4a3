------------------------- MODULE CoordinatorProofs --------------------------
(***************************************************************************)
(* Proofs about Coordinator, for all shards, searchers and error limits:   *)
(* type correctness, that a response covers every steady searcher, and     *)
(* what an eviction requires; and about Merging, for any number of answers *)
(* of any length: what the scores are and in which order documents come.   *)
(***************************************************************************)
EXTENDS Coordinator, Merging, FoldTheorems

(* The pair asked is one of the configuration, and the cache holds such    *)
(* pairs only.                                                             *)
Typed ==
  /\ TypeOK /\ steady \in SUBSET Serves /\ failed \in SUBSET Shard
  /\ pc = "settle" => asked \in [pair : Serves, error : BOOLEAN]
  /\ pc # "settle" => asked = NoAsk
  /\ \A s \in Shard, h \in Host : h \in searchers_map[s] => <<s, h>> \in Serves

(* A steady searcher is up; while the request reads etcd it is registered, *)
(* then it is in the cache or its shard is still to be read, then it has   *)
(* answered or is still to be asked.                                       *)
SteadyIsReached ==
  \A p \in steady :
    /\ state[p[2]] = "up"
    /\ pc \in {"shards", "hosts"} => p \in hosts
    /\ pc = "hosts" /\ req \in {All, p[1]} => p[1] \in toList \/ p[2] \in searchers_map[p[1]]
    /\ pc \in {"loop", "settle"} /\ req \in {All, p[1]} => p \in toAsk \/ p[2] \in answers

(* An error that counts was an ask that failed, after which a response     *)
(* time was stored.                                                        *)
ErrorsHappened ==
  /\ pc = "settle" /\ asked.error => asked.pair[1] \in failed
  /\ \A s \in Shard : errors_cnt_[s] > 0 =>
       s \in failed /\ (~etcdFaults => s \in stats)

IInv == Typed /\ SteadyIsReached /\ ErrorsHappened
-----------------------------------------------------------------------------
(* A pair is its shard and its host.                                       *)
LEMMA PairFacts ==
  \A p \in Shard \X Host : p = <<p[1], p[2]>> /\ p[1] \in Shard /\ p[2] \in Host
OBVIOUS

(* Whether etcd may fail is settled at the start.                          *)
LEMMA FaultsFixed ==
  ASSUME [Next]_vars
  PROVE  UNCHANGED etcdFaults
BY DEF Next, vars, Handler, Receive, ListShardIds, ListSearcherHosts, StartLoop, EtcdUnreachable,
       AskAnswered, AskFailed, SettleRemove, SettleStats, SettleUnreachable, Respond,
       SearcherInit, AddSearcherHost, Listen, Crash

(* Every step keeps the types.                                             *)
LEMMA TypedStep ==
  ASSUME Typed, [Next]_vars
  PROVE  Typed'
<1>0. UNCHANGED etcdFaults
  BY FaultsFixed
<1> USE <1>0, CoordinatorAssumption, PairFacts DEF Typed, TypeOK, NoAsk
<1>1. ASSUME NEW r \in Shard \cup {All}, Receive(r)
      PROVE  Typed'
  BY <1>1 DEF Receive, etcd, processes, cache
<1>2. CASE ListShardIds
  BY <1>2 DEF ListShardIds, etcd, processes, cache
<1>3. ASSUME NEW t \in Shard, ListSearcherHosts(t)
      PROVE  Typed'
  BY <1>3 DEF ListSearcherHosts, Refreshed, HostsOf, etcd, processes
<1>4. CASE StartLoop
  BY <1>4 DEF StartLoop, etcd, processes, cache
<1>5. CASE EtcdUnreachable
  BY <1>5 DEF EtcdUnreachable, etcd, processes, cache
<1>6. ASSUME NEW q \in Shard \X Host, AskAnswered(q)
      PROVE  Typed'
  BY <1>6 DEF AskAnswered, etcd, processes, cache
<1>7. ASSUME NEW q \in Shard \X Host, AskFailed(q)
      PROVE  Typed'
  BY <1>7 DEF AskFailed, etcd, cache
<1>8. CASE SettleRemove
  BY <1>8 DEF SettleRemove, Aggregated, TooManyErrors, processes
<1>9. CASE SettleStats
  BY <1>9 DEF SettleStats, Aggregated, TooManyErrors, processes
<1>10. CASE SettleUnreachable
  BY <1>10 DEF SettleUnreachable, Aggregated, TooManyErrors, processes
<1>11. CASE Respond
  BY <1>11 DEF Respond, etcd, processes, cache
<1>12. ASSUME NEW g \in Host, SearcherInit(g)
      PROVE  Typed'
  BY <1>12 DEF SearcherInit, etcd, cache, request
<1>13. ASSUME NEW g \in Host, Listen(g)
      PROVE  Typed'
  BY <1>13 DEF Listen, etcd, cache, request
<1>14. ASSUME NEW g \in Host, Crash(g)
      PROVE  Typed'
  BY <1>14 DEF Crash, etcd, cache, request
<1>15. ASSUME NEW q \in Serves, AddSearcherHost(q)
      PROVE  Typed'
  BY <1>15 DEF AddSearcherHost, cache, request
<1>16. CASE UNCHANGED vars
  BY <1>16 DEF vars, etcd, processes, cache, request
<1>17. QED
  BY <1>1, <1>2, <1>3, <1>4, <1>5, <1>6, <1>7, <1>8, <1>9, <1>10, <1>11, <1>12, <1>13, <1>14, <1>15, <1>16 DEF Next, Handler

(* Every step keeps steady searchers within reach.                         *)
LEMMA SteadyStep ==
  ASSUME Typed, SteadyIsReached, [Next]_vars
  PROVE  SteadyIsReached'
<1> USE CoordinatorAssumption, PairFacts DEF Typed, TypeOK, SteadyIsReached
<1>1. ASSUME NEW r \in Shard \cup {All}, Receive(r)
      PROVE  SteadyIsReached'
  BY <1>1 DEF Receive, etcd, processes, cache
<1>2. CASE ListShardIds
  BY <1>2 DEF ListShardIds, etcd, processes, cache
<1>3. ASSUME NEW t \in Shard, ListSearcherHosts(t)
      PROVE  SteadyIsReached'
  BY <1>3 DEF ListSearcherHosts, Refreshed, HostsOf, etcd, processes
<1>4. CASE StartLoop
  BY <1>4 DEF StartLoop, etcd, processes, cache
<1>5. CASE EtcdUnreachable
  BY <1>5 DEF EtcdUnreachable, etcd, processes, cache
<1>6. ASSUME NEW q \in Shard \X Host, AskAnswered(q)
      PROVE  SteadyIsReached'
  BY <1>6 DEF AskAnswered, etcd, processes, cache
<1>7. ASSUME NEW q \in Shard \X Host, AskFailed(q)
      PROVE  SteadyIsReached'
  BY <1>7 DEF AskFailed, etcd, cache
<1>8. CASE SettleRemove
  BY <1>8 DEF SettleRemove, Aggregated, TooManyErrors, processes
<1>9. CASE SettleStats
  BY <1>9 DEF SettleStats, Aggregated, TooManyErrors, processes
<1>10. CASE SettleUnreachable
  BY <1>10 DEF SettleUnreachable, Aggregated, TooManyErrors, processes
<1>11. CASE Respond
  BY <1>11 DEF Respond, etcd, processes, cache
<1>12. ASSUME NEW g \in Host, SearcherInit(g)
      PROVE  SteadyIsReached'
  BY <1>12 DEF SearcherInit, etcd, cache, request
<1>13. ASSUME NEW g \in Host, Listen(g)
      PROVE  SteadyIsReached'
  BY <1>13 DEF Listen, etcd, cache, request
<1>14. ASSUME NEW g \in Host, Crash(g)
      PROVE  SteadyIsReached'
  BY <1>14 DEF Crash, etcd, cache, request
<1>15. ASSUME NEW q \in Serves, AddSearcherHost(q)
      PROVE  SteadyIsReached'
  BY <1>15 DEF AddSearcherHost, cache, request
<1>16. CASE UNCHANGED vars
  BY <1>16 DEF vars, etcd, processes, cache, request
<1>17. QED
  BY <1>1, <1>2, <1>3, <1>4, <1>5, <1>6, <1>7, <1>8, <1>9, <1>10, <1>11, <1>12, <1>13, <1>14, <1>15, <1>16 DEF Next, Handler

(* Every step counts only errors that happened.                            *)
LEMMA ErrorsStep ==
  ASSUME Typed, ErrorsHappened, [Next]_vars
  PROVE  ErrorsHappened'
<1>0. UNCHANGED etcdFaults
  BY FaultsFixed
<1> USE <1>0, CoordinatorAssumption, PairFacts DEF Typed, TypeOK, NoAsk, ErrorsHappened
<1>1. ASSUME NEW r \in Shard \cup {All}, Receive(r)
      PROVE  ErrorsHappened'
  BY <1>1 DEF Receive, etcd, processes, cache
<1>2. CASE ListShardIds
  BY <1>2 DEF ListShardIds, etcd, processes, cache
<1>3. ASSUME NEW t \in Shard, ListSearcherHosts(t)
      PROVE  ErrorsHappened'
  BY <1>3 DEF ListSearcherHosts, Refreshed, HostsOf, etcd, processes
<1>4. CASE StartLoop
  BY <1>4 DEF StartLoop, etcd, processes, cache
<1>5. CASE EtcdUnreachable
  BY <1>5 DEF EtcdUnreachable, etcd, processes, cache
<1>6. ASSUME NEW q \in Shard \X Host, AskAnswered(q)
      PROVE  ErrorsHappened'
  BY <1>6 DEF AskAnswered, etcd, processes, cache
<1>7. ASSUME NEW q \in Shard \X Host, AskFailed(q)
      PROVE  ErrorsHappened'
  BY <1>7 DEF AskFailed, etcd, cache
<1>8. CASE SettleRemove
  BY <1>8 DEF SettleRemove, Aggregated, TooManyErrors, processes
<1>9. CASE SettleStats
  BY <1>9 DEF SettleStats, Aggregated, TooManyErrors, processes
<1>10. CASE SettleUnreachable
  BY <1>10 DEF SettleUnreachable, Aggregated, TooManyErrors, processes
<1>11. CASE Respond
  BY <1>11 DEF Respond, etcd, processes, cache
<1>12. ASSUME NEW g \in Host, SearcherInit(g)
      PROVE  ErrorsHappened'
  BY <1>12 DEF SearcherInit, etcd, cache, request
<1>13. ASSUME NEW g \in Host, Listen(g)
      PROVE  ErrorsHappened'
  BY <1>13 DEF Listen, etcd, cache, request
<1>14. ASSUME NEW g \in Host, Crash(g)
      PROVE  ErrorsHappened'
  BY <1>14 DEF Crash, etcd, cache, request
<1>15. ASSUME NEW q \in Serves, AddSearcherHost(q)
      PROVE  ErrorsHappened'
  BY <1>15 DEF AddSearcherHost, cache, request
<1>16. CASE UNCHANGED vars
  BY <1>16 DEF vars, etcd, processes, cache, request
<1>17. QED
  BY <1>1, <1>2, <1>3, <1>4, <1>5, <1>6, <1>7, <1>8, <1>9, <1>10, <1>11, <1>12, <1>13, <1>14, <1>15, <1>16 DEF Next, Handler

(* An address leaves etcd in SettleRemove only.                            *)
LEMMA EvictionStep ==
  ASSUME IInv, [Next]_vars, NEW p \in hosts \ hosts'
  PROVE  p[1] \in failed /\ (~etcdFaults => p[1] \in stats)
<1>1. CASE SettleRemove
  <2>1. p = asked.pair /\ asked.pair \in Serves /\ TooManyErrors(p[1])
    BY <1>1 DEF SettleRemove, IInv, Typed
  <2>2. p[1] \in Shard /\ errors_cnt_[p[1]] > 0
    BY <2>1, CoordinatorAssumption, PairFacts DEF TooManyErrors, IInv, Typed, TypeOK
  <2>3. QED
    BY <2>2 DEF IInv, ErrorsHappened
<1>2. CASE ~SettleRemove
  <2>1. hosts \subseteq hosts'
    BY <1>2
    DEF Next, Handler, Receive, ListShardIds, ListSearcherHosts, StartLoop, EtcdUnreachable,
        AskAnswered, AskFailed, SettleStats, SettleUnreachable, Respond, SearcherInit,
        AddSearcherHost, Listen, Crash, vars, etcd
  <2>2. QED
    BY <2>1
<1>3. QED
  BY <1>1, <1>2
-----------------------------------------------------------------------------
(* The invariant holds at the start and in every step.                     *)
THEOREM Invariance == Spec => []IInv
<1>1. Init => IInv
  <2> SUFFICES ASSUME Init PROVE IInv
    OBVIOUS
  <2>1. Typed
    BY CoordinatorAssumption DEF Init, Typed, TypeOK, NoAsk
  <2>2. SteadyIsReached
    BY DEF Init, SteadyIsReached
  <2>3. ErrorsHappened
    BY DEF Init, ErrorsHappened
  <2>4. QED
    BY <2>1, <2>2, <2>3 DEF IInv
<1>2. IInv /\ [Next]_vars => IInv'
  BY TypedStep, SteadyStep, ErrorsStep DEF IInv
<1>3. QED
  BY <1>1, <1>2, PTL DEF Spec

(* The variables keep their types, and the lists of a request are empty    *)
(* outside the steps that use them.                                        *)
THEOREM TypeCorrect == Spec => []TypeOK
<1>1. IInv => TypeOK
  BY DEF IInv, Typed
<1>2. QED
  BY <1>1, Invariance, PTL

(* Whatever was cached and whoever crashes or registers meanwhile, a       *)
(* response covers the searchers that serve the request, were registered   *)
(* when it came and have been up since.                                    *)
THEOREM ResponseCoversSteady == Spec => []AnswersComplete
<1>1. IInv => AnswersComplete
  BY DEF IInv, SteadyIsReached, AnswersComplete
<1>2. QED
  BY <1>1, Invariance, PTL

(* The Coordinator evicts only from shards in which an ask has failed.     *)
THEOREM EvictionFollowsFailure == Spec => EvictionNeedsFailure
<1>1. IInv /\ [Next]_vars => [\A p \in hosts \ hosts' : p[1] \in failed]_vars
  BY EvictionStep
<1>2. QED
  BY <1>1, Invariance, PTL DEF Spec, EvictionNeedsFailure

(* While etcd answers, a shard whose searchers are evicted stays listed.   *)
THEOREM EvictionKeepsShard == Spec => EvictedShardIsListed
<1>1. IInv /\ [Next]_vars
        => [~etcdFaults => \A p \in hosts \ hosts' : p[1] \in stats]_vars
  BY EvictionStep
<1>2. QED
  BY <1>1, Invariance, PTL DEF Spec, EvictedShardIsListed
-----------------------------------------------------------------------------
(* A pair taken out of etcd is a host taken from the hosts of its shard.   *)
LEMMA HostsWithout ==
  ASSUME NEW s, NEW g \in Host, <<s, g>> \in hosts, hosts' = hosts \ {<<s, g>>}
  PROVE  HostsOf(s)' = HostsOf(s) \ {g} /\ g \in HostsOf(s)
BY DEF HostsOf

(* What one shard sees of a step is a step of Registry or nothing.         *)
LEMMA ShardStep ==
  ASSUME IInv, [Next]_vars, NEW s \in Shard
  PROVE  Reg(s)!Next \/ UNCHANGED Reg(s)!vars
<1> DEFINE H == {h \in Host : <<s, h>> \in Serves}
           seen == [h \in H |-> IF <<s, h>> \in toRegister THEN "down" ELSE state[h]]
<1> USE CoordinatorAssumption, PairFacts DEF IInv, Typed, TypeOK
<1>1. ASSUME UNCHANGED HostsOf(s), (s \in stats)' = (s \in stats), UNCHANGED seen
      PROVE  UNCHANGED Reg(s)!vars
  BY <1>1 DEF Reg!vars
<1>2. ASSUME UNCHANGED <<hosts, stats, processes>>
      PROVE  UNCHANGED Reg(s)!vars
  BY <1>1, <1>2 DEF HostsOf, processes
<1>3. ASSUME NEW g \in Host, UNCHANGED <<hosts, stats>>, state[g] # "down",
             state' = [state EXCEPT ![g] = "down"],
             toRegister' = {p \in toRegister : p[2] # g}
      PROVE  Reg(s)!Next \/ UNCHANGED Reg(s)!vars
  <2>1. UNCHANGED HostsOf(s) /\ (s \in stats)' = (s \in stats)
    BY <1>3 DEF HostsOf
  <2>2. CASE g \in H /\ <<s, g>> \notin toRegister
    <3>1. seen' = [seen EXCEPT ![g] = "down"] /\ seen[g] # "down"
      BY <1>3, <2>2
    <3>2. Reg(s)!Crash(g)
      BY <2>1, <3>1 DEF Reg!Crash
    <3>3. QED
      BY <2>2, <3>2 DEF Reg!Next
  <2>3. CASE g \notin H \/ <<s, g>> \in toRegister
    <3>1. UNCHANGED seen
      BY <1>3, <2>3
    <3>2. QED
      BY <1>1, <2>1, <3>1
  <2>4. QED
    BY <2>2, <2>3
<1>4. ASSUME NEW q \in Shard \X Host, AskFailed(q)
      PROVE  Reg(s)!Next \/ UNCHANGED Reg(s)!vars
  <2>1. UNCHANGED <<hosts, stats, toRegister>>
    BY <1>4 DEF AskFailed, etcd
  <2>2. CASE UNCHANGED state
    BY <1>2, <2>1, <2>2 DEF processes
  <2>3. CASE state[q[2]] = "up" /\ state' = [state EXCEPT ![q[2]] = "down"]
    <3>1. toRegister' = {p \in toRegister : p[2] # q[2]}
      BY <2>1, <2>3
    <3>2. QED
      BY <1>3, <2>1, <2>3, <3>1
  <2>4. QED
    BY <1>4, <2>2, <2>3 DEF AskFailed
<1>5. CASE \E g \in Host : Crash(g)
  BY <1>3, <1>5 DEF Crash, etcd
<1>6. CASE SettleRemove
  <2>1. UNCHANGED <<stats, processes>> /\ UNCHANGED seen /\ asked.pair \in Serves
    BY <1>6 DEF SettleRemove, processes
  <2>2. CASE UNCHANGED hosts
    BY <1>2, <2>1, <2>2
  <2>3. CASE hosts' = hosts \ {asked.pair} /\ asked.pair[1] # s
    BY <1>1, <2>1, <2>3 DEF HostsOf
  <2>4. CASE hosts' = hosts \ {asked.pair} /\ asked.pair[1] = s /\ asked.pair \in hosts
    <3>1. asked.pair = <<s, asked.pair[2]>> /\ asked.pair[2] \in H
      BY <2>1, <2>4
    <3>2. PICK g \in H : asked.pair = <<s, g>>
      BY <3>1
    <3>3. <<s, g>> \in hosts /\ hosts' = hosts \ {<<s, g>>}
      BY <2>4, <3>2
    <3>4. HostsOf(s)' = HostsOf(s) \ {g} /\ g \in HostsOf(s)
      BY <3>3, HostsWithout
    <3>5. Reg(s)!Evict(g)
      BY <2>1, <3>4 DEF Reg!Evict
    <3>6. QED
      BY <3>5 DEF Reg!Next
  <2>5. asked.pair \notin hosts => hosts \ {asked.pair} = hosts
    OBVIOUS
  <2>6. hosts' \in {hosts, hosts \ {asked.pair}}
    BY <1>6 DEF SettleRemove
  <2>7. QED
    BY <2>2, <2>3, <2>4, <2>5, <2>6
<1>7. CASE SettleStats \/ SettleUnreachable
  <2>1. UNCHANGED HostsOf(s) /\ UNCHANGED seen
    BY <1>7 DEF SettleStats, SettleUnreachable, HostsOf, processes
  <2>2. stats' \in {stats, stats \cup {asked.pair[1]}}
    BY <1>7 DEF SettleStats, SettleUnreachable
  <2>3. CASE (s \in stats)'
    <3>1. Reg(s)!StoreTime
      BY <2>1, <2>3 DEF Reg!StoreTime
    <3>2. QED
      BY <3>1 DEF Reg!Next
  <2>4. CASE ~(s \in stats)'
    BY <1>1, <2>1, <2>2, <2>4
  <2>5. QED
    BY <2>3, <2>4
<1>8. ASSUME NEW g \in Host, SearcherInit(g)
      PROVE  UNCHANGED Reg(s)!vars
  <2>1. UNCHANGED HostsOf(s) /\ (s \in stats)' = (s \in stats)
    BY <1>8 DEF SearcherInit, etcd, HostsOf
  <2>2. UNCHANGED seen
    BY <1>8 DEF SearcherInit
  <2>3. QED
    BY <1>1, <2>1, <2>2
<1>9. ASSUME NEW q \in Serves, AddSearcherHost(q)
      PROVE  Reg(s)!Next \/ UNCHANGED Reg(s)!vars
  <2>1. /\ (s \in stats)' = (s \in stats) /\ UNCHANGED state /\ state[q[2]] = "starting"
        /\ q \in toRegister /\ toRegister' = toRegister \ {q} /\ hosts' = hosts \cup {q}
    BY <1>9 DEF AddSearcherHost
  <2>2. CASE q[1] = s
    <3>0. q \in Shard \X Host /\ q = <<s, q[2]>> /\ q[2] \in Host /\ <<s, q[2]>> \in Serves
      BY <2>2
    <3>1. PICK g \in H : q = <<s, g>>
      BY <3>0
    <3>2. /\ \A h \in H : <<s, h>> \in toRegister' <=> <<s, h>> \in toRegister /\ h # g
          /\ <<s, g>> \in toRegister /\ state'[g] = "starting"
      <4>1. toRegister' = toRegister \ {<<s, g>>} /\ <<s, g>> \in toRegister
        BY <2>1, <3>1
      <4>2. q[2] = g
        BY <3>1
      <4>3. state'[g] = "starting"
        BY <2>1, <4>2
      <4>4. \A h \in H : <<s, h>> = <<s, g>> <=> h = g
        OBVIOUS
      <4>5. QED
        BY <4>1, <4>3, <4>4
    <3>3. \A h \in H : seen'[h] = IF h = g THEN "starting" ELSE seen[h]
      BY <2>1, <3>2
    <3>4. seen' = [seen EXCEPT ![g] = "starting"] /\ seen[g] = "down"
      BY <3>2, <3>3
    <3>5. HostsOf(s)' = HostsOf(s) \cup {g}
      BY <2>1, <3>1 DEF HostsOf
    <3>6. Reg(s)!Start(g)
      BY <2>1, <3>4, <3>5 DEF Reg!Start
    <3>7. QED
      BY <3>6 DEF Reg!Next
  <2>3. CASE q[1] # s
    <3>1. UNCHANGED HostsOf(s)
      BY <2>1, <2>3 DEF HostsOf
    <3>2. UNCHANGED seen
      BY <2>1, <2>3
    <3>3. QED
      BY <1>1, <2>1, <3>1, <3>2
  <2>4. QED
    BY <2>2, <2>3
<1>10. ASSUME NEW g \in Host, Listen(g)
      PROVE  Reg(s)!Next \/ UNCHANGED Reg(s)!vars
  <2>1. UNCHANGED HostsOf(s) /\ (s \in stats)' = (s \in stats)
    BY <1>10 DEF Listen, etcd, HostsOf
  <2>2. CASE g \in H
    <3>1. seen' = [seen EXCEPT ![g] = "up"] /\ seen[g] = "starting"
      BY <1>10, <2>2 DEF Listen
    <3>2. Reg(s)!Listen(g)
      BY <2>1, <3>1 DEF Reg!Listen
    <3>3. QED
      BY <2>2, <3>2 DEF Reg!Next
  <2>3. CASE g \notin H
    BY <1>1, <1>10, <2>1, <2>3 DEF Listen
  <2>4. QED
    BY <2>2, <2>3
<1>11. QED
  <2>1. \/ UNCHANGED <<hosts, stats, processes>>
        \/ \E q \in Shard \X Host : AskFailed(q)
        \/ SettleRemove \/ SettleStats \/ SettleUnreachable
        \/ \E q \in Serves : AddSearcherHost(q)
        \/ \E g \in Host : SearcherInit(g) \/ Listen(g) \/ Crash(g)
    BY DEF Next, Handler, Receive, ListShardIds, ListSearcherHosts, StartLoop, EtcdUnreachable,
           AskAnswered, Respond, vars, etcd
  <2>2. QED
    BY <1>2, <1>4, <1>5, <1>6, <1>7, <1>8, <1>9, <1>10, <2>1

(* The Coordinator and the searchers implement, for each shard, the        *)
(* registry that the Writer's view of the shard takes for granted.         *)
THEOREM ShardsAreRegistries == Spec => ImplementsRegistry
<1>1. Init => \A s \in Shard : Reg(s)!Init
  BY DEF Init, Reg!Init, HostsOf
<1>2. IInv /\ [Next]_vars
        => [\A s \in Shard : Reg(s)!Next \/ UNCHANGED Reg(s)!vars]_vars
  BY ShardStep
<1>3. QED
  BY <1>1, <1>2, Invariance, PTL DEF Spec, ImplementsRegistry
-----------------------------------------------------------------------------
(* Merging.  Scale is a product, built factor by factor.                   *)
Positive == Nat \ {0}

ScaleSteps(h) ==
  /\ h[0] = 1 /\ Scale = h[MaxLen]
  /\ \A k \in 1..MaxLen : h[k] = h[k - 1] * (60 + k)

(* Scale is the product of the denominators 61 to 60 + MaxLen.             *)
LEMMA ScaleIsProduct == \E h : ScaleSteps(h)
<1> DEFINE n == MaxLen
           id == [k \in 1..n |-> k]
           Body(g, T) == IF T = {} THEN 1 ELSE g[T \ {Max(T)}] * (RFF_CONST + id[Max(T)])
           e == [x \in 1..n |-> [t \in Nat |-> t * (60 + x)]]
           G == CHOOSE g : g = [T \in SUBSET (1..n) |-> Body(g, T)]
<1>0. n \in Nat
  BY MergingAssumption
<1> HIDE DEF n
<1>1. \A x \in 1..n, t \in Nat : e[x][t] = t * (60 + x) /\ e[x][t] \in Nat
  <2>1. ASSUME NEW x \in 1..n, NEW t \in Nat PROVE t * (60 + x) \in Nat
    <3>1. 60 + x \in Nat
      BY <1>0
    <3>2. \A u \in Nat : t * u \in Nat
      OBVIOUS
    <3>. QED  BY <3>1, <3>2
  <2>. QED  BY <2>1
<1> HIDE DEF e
<1>3. PICK g \in [SUBSET (1..n) -> Nat] : FoldLeftEquation(g, n, 1, e)
  BY <1>0, <1>1, FoldLeftExists
<1>4. ASSUME NEW T \in SUBSET (1..n) PROVE g[T] = Body(g, T)
  <2>1. CASE T = {}
    BY <1>3, <2>1 DEF FoldLeftEquation
  <2>2. CASE T # {}
    <3>1. Max(T) \in 1..n /\ g[T \ {Max(T)}] \in Nat
      BY <1>0, <2>2, MaxFacts
    <3>2. id[Max(T)] = Max(T)
      BY <3>1
    <3>. QED  BY <1>1, <1>3, <2>2, <3>1, <3>2 DEF FoldLeftEquation, RFF_CONST
  <2>. QED  BY <2>1, <2>2
<1>5. g = [T \in SUBSET (1..n) |-> Body(g, T)]
  BY <1>4
<1>6. G = [T \in SUBSET (1..n) |-> Body(G, T)]
  BY <1>5
<1>7. Scale = G[1..n]
  <2>1. DOMAIN id = 1..n
    OBVIOUS
  <2>. QED  BY <2>1 DEF Scale, FoldLeft, MapThenFoldSet, n
<1> HIDE DEF G
<1> DEFINE h == [k \in 0..n |-> G[1..k]]
<1>8. h[0] = 1 /\ h[n] = G[1..n]
  <2>1. G[{}] = 1
    BY <1>6
  <2>. QED  BY <1>0, <2>1, MaxFacts
<1>9. ASSUME NEW k \in 1..n PROVE h[k] = h[k - 1] * (60 + k)
  <2>1. G[1..k] = Body(G, 1..k)
    BY <1>0, <1>6, MaxFacts
  <2>2. Body(G, 1..k) = G[1..(k - 1)] * (60 + k)
    BY <1>0, MaxFacts DEF RFF_CONST
  <2>3. h[k] = G[1..k] /\ h[k - 1] = G[1..(k - 1)]
    BY <1>0
  <2>. QED  BY <2>1, <2>2, <2>3
<1> HIDE DEF h
<1>10. ScaleSteps(h)
  BY <1>7, <1>8, <1>9 DEF ScaleSteps, n
<1>. QED  BY <1>10

(* Each denominator divides it.                                            *)
LEMMA ScaleMultiple ==
  /\ Scale \in Positive
  /\ \A i \in 1..MaxLen : \E q \in Positive : Scale = q * (60 + i)
<1>0. PICK h : ScaleSteps(h)
  BY ScaleIsProduct
<1>1. /\ MaxLen \in Nat /\ h[0] = 1 /\ Scale = h[MaxLen]
      /\ \A k \in 1..MaxLen : h[k] = h[k - 1] * (60 + k)
  BY <1>0, MergingAssumption DEF ScaleSteps
<1> DEFINE Good(m) == /\ h[m] \in Positive
                      /\ \A i \in 1..m : \E q \in Positive : h[m] = q * (60 + i)
           P == {m \in 0..MaxLen : Good(m)}
<1>2. 0 \in P
  <2>1. h[0] \in Positive /\ 1..0 = {} /\ 0 \in 0..MaxLen
    BY <1>1 DEF Positive
  <2>. QED  BY <2>1
<1>3. ASSUME NEW m \in 1..MaxLen, m - 1 \in P PROVE m \in P
  <2>1. h[m - 1] \in Positive /\ \A i \in 1..(m - 1) : \E q \in Positive : h[m - 1] = q * (60 + i)
    BY <1>3
  <2>2. h[m] = h[m - 1] * (60 + m) /\ 60 + m \in Positive
    BY <1>1 DEF Positive
  <2>3. \A u, v \in Positive : u * v \in Positive
    BY DEF Positive
  <2>4. h[m] \in Positive
    BY <2>1, <2>2, <2>3
  <2>5. ASSUME NEW i \in 1..m PROVE \E q \in Positive : h[m] = q * (60 + i)
    <3>1. CASE i = m
      BY <2>1, <2>2, <3>1
    <3>2. CASE i # m
      <4>1. i \in 1..(m - 1) /\ 60 + i \in Int
        BY <1>1, <3>2
      <4>2. PICK q \in Positive : h[m - 1] = q * (60 + i)
        BY <2>1, <4>1
      <4>3. q * (60 + m) \in Positive
        BY <2>2, <2>3
      <4>4. \A u, v, w \in Int : (u * v) * w = (u * w) * v
        OBVIOUS
      <4>5. h[m] = (q * (60 + m)) * (60 + i)
        BY <2>2, <4>1, <4>2, <4>4 DEF Positive
      <4>. QED  BY <4>3, <4>5
    <3>. QED  BY <3>1, <3>2
  <2>6. m \in 0..MaxLen
    BY <1>1
  <2>. QED  BY <2>4, <2>5, <2>6
<1> HIDE DEF Good
<1>4. MaxLen \in P
  <2> HIDE DEF P
  <2>. QED  BY <1>1, <1>2, <1>3, Climb
<1>5. Good(MaxLen)
  BY <1>4
<1>. QED  BY <1>1, <1>5 DEF Good

(* What a rank is worth, times its denominator, is Scale; so a better rank *)
(* is worth more.                                                          *)
Worth(i) == Scale \div (60 + i)

(* The division of Scale by a denominator leaves no remainder.             *)
LEMMA WorthFacts ==
  ASSUME NEW i \in 1..MaxLen
  PROVE  Worth(i) \in Positive /\ Worth(i) * (60 + i) = Scale
<1>1. PICK q \in Positive : Scale = q * (60 + i)
  BY ScaleMultiple
<1>2. q \in Nat /\ 60 + i \in Nat \ {0}
  BY MergingAssumption DEF Positive
<1>3. \A u \in Nat, v \in Nat \ {0} : (u * v) \div v = u
  OBVIOUS
<1>4. Worth(i) = q
  BY <1>1, <1>2, <1>3 DEF Worth
<1>. QED  BY <1>1, <1>4

(* A better rank is worth more.                                            *)
LEMMA BetterRank ==
  ASSUME NEW i \in 1..MaxLen, NEW j \in 1..MaxLen, i < j
  PROVE  Worth(i) >= Worth(j) + 1
<1>1. /\ Worth(i) \in Nat /\ Worth(j) \in Nat /\ Worth(j) > 0
      /\ Worth(i) * (60 + i) = Worth(j) * (60 + j)
  BY WorthFacts DEF Positive
<1>2. 60 + i \in Nat /\ 60 + j \in Nat /\ 60 + i < 60 + j
  BY MergingAssumption
<1>3. \A u, v, x, y \in Nat : v > 0 /\ x < y /\ u * x = v * y => u > v
  <2>1. SUFFICES ASSUME NEW u \in Nat, NEW v \in Nat, NEW x \in Nat, NEW y \in Nat,
                        v > 0, x < y, u * x = v * y, u <= v
                 PROVE  FALSE
    OBVIOUS
  <2>2. u * x <= v * x
    BY <2>1
  <2>3. v * x < v * y
    BY <2>1
  <2>. QED  BY <2>1, <2>2, <2>3
<1>. QED  BY <1>1, <1>2, <1>3


(* A set of subsets of a finite set that holds {} and, with all T \ {y},   *)
(* also T, holds every subset.                                             *)
LEMMA SubsetClimb ==
  ASSUME NEW S, IsFiniteSet(S), NEW Good, {} \in Good,
         \A T \in SUBSET S : T # {} /\ (\A y \in T : T \ {y} \in Good) => T \in Good,
         NEW T \in SUBSET S
  PROVE  T \in Good
<1> DEFINE P == {m \in Nat : \A R \in SUBSET S : Cardinality(R) <= m => R \in Good}
<1>1. \A R \in SUBSET S : IsFiniteSet(R) /\ Cardinality(R) \in Nat
  BY FS_Subset, FS_CardinalityType
<1>2. 0 \in P
  <2>1. ASSUME NEW R \in SUBSET S, Cardinality(R) <= 0 PROVE R = {}
    BY <1>1, <2>1, FS_EmptySet
  <2>. QED  BY <2>1
<1>3. ASSUME NEW m \in Nat \ {0}, m - 1 \in P PROVE m \in P
  <2>1. ASSUME NEW R \in SUBSET S, Cardinality(R) <= m, R # {} PROVE R \in Good
    <3>1. ASSUME NEW y \in R PROVE R \ {y} \in Good
      <4>1. R \ {y} \in SUBSET S /\ Cardinality(R \ {y}) = Cardinality(R) - 1
        BY <1>1, FS_RemoveElement
      <4>2. Cardinality(R \ {y}) <= m - 1
        BY <1>1, <2>1, <4>1
      <4>. QED  BY <1>3, <4>1, <4>2
    <3>. QED  BY <2>1, <3>1
  <2>2. \A R \in SUBSET S : Cardinality(R) <= m => R \in Good
    BY <2>1
  <2>. QED  BY <2>2
<1>4. Cardinality(T) \in Nat
  BY <1>1
<1>5. \A k \in 1..Cardinality(T) : k - 1 \in P => k \in P
  BY <1>3, <1>4
<1>6. Cardinality(T) \in P
  <2> HIDE DEF P
  <2>. QED  BY <1>2, <1>4, <1>5, Climb
<1>7. Cardinality(T) <= Cardinality(T)
  BY <1>4
<1>. QED  BY <1>6, <1>7

(* M gives every subset of U the sum of the weights w of its members.      *)
Measure(M, U, w) ==
  /\ M \in [SUBSET U -> Nat] /\ M[{}] = 0
  /\ \A T \in SUBSET U : \A y \in T : M[T] = w[y] + M[T \ {y}]

(* The order a fold takes the members in does not matter.                  *)
LEMMA MeasureExists ==
  ASSUME NEW U, IsFiniteSet(U), NEW w \in [U -> Nat]
  PROVE  \E M : Measure(M, U, w)
<1> DEFINE c == [T \in SUBSET U |-> CHOOSE x : x \in T]
           f == [x \in U |-> [t \in Nat |-> w[x] + t]]
<1>1. \A T \in SUBSET U : T # {} => c[T] \in T
  OBVIOUS
<1>2. \A x \in U, t \in Nat : f[x][t] = w[x] + t /\ f[x][t] \in Nat
  OBVIOUS
<1> HIDE DEF c, f
<1>3. PICK M \in [SUBSET U -> Nat] : FoldEquation(M, U, 0, c, f)
  <2>1. FoldsOver(U, Nat, 0, c, f)
    BY <1>1, <1>2 DEF FoldsOver
  <2>. QED  BY <2>1, FoldExists
<1>4. M[{}] = 0
  BY <1>3 DEF FoldEquation
<1>5. ASSUME NEW T \in SUBSET U, T # {}
      PROVE  c[T] \in T /\ M[T] = w[c[T]] + M[T \ {c[T]}]
  <2>1. c[T] \in U /\ T \ {c[T]} \in SUBSET U
    BY <1>1, <1>5
  <2>2. M[T \ {c[T]}] \in Nat
    BY <2>1
  <2>. QED  BY <1>1, <1>2, <1>3, <1>5, <2>1, <2>2 DEF FoldEquation
<1> DEFINE Good == {T \in SUBSET U : \A y \in T : M[T] = w[y] + M[T \ {y}]}
<1>6. {} \in Good
  OBVIOUS
<1>7. ASSUME NEW T \in SUBSET U, T # {}, \A y \in T : T \ {y} \in Good
      PROVE  T \in Good
  <2> DEFINE x == c[T]
  <2>1. x \in T /\ M[T] = w[x] + M[T \ {x}]
    BY <1>5, <1>7
  <2> HIDE DEF x
  <2>2. ASSUME NEW y \in T, y # x PROVE M[T] = w[y] + M[T \ {y}]
    <3> DEFINE R == (T \ {x}) \ {y}
    <3>1. R = (T \ {y}) \ {x} /\ R \in SUBSET U
      OBVIOUS
    <3> HIDE DEF R
    <3>2. M[T \ {x}] = w[y] + M[R]
      BY <1>7, <2>1, <2>2 DEF R
    <3>3. M[T \ {y}] = w[x] + M[R]
      BY <1>7, <2>1, <2>2, <3>1
    <3>4. w[x] \in Nat /\ w[y] \in Nat /\ M[R] \in Nat
      BY <2>1, <3>1
    <3>. QED  BY <2>1, <3>2, <3>3, <3>4
  <2>. QED  BY <2>1, <2>2
<1>8. \A T \in SUBSET U : T \in Good
  <2> HIDE DEF Good
  <2>. QED  BY <1>6, <1>7, SubsetClimb
<1>9. Measure(M, U, w)
  BY <1>4, <1>8 DEF Measure
<1>. QED  BY <1>9

(* Weights between lo and hi.                                              *)
LEMMA MeasureBounds ==
  ASSUME NEW U, IsFiniteSet(U), NEW w \in [U -> Nat], NEW M, Measure(M, U, w),
         NEW lo \in Nat, NEW hi \in Nat, \A y \in U : lo <= w[y] /\ w[y] <= hi,
         NEW T \in SUBSET U
  PROVE  Cardinality(T) * lo <= M[T] /\ M[T] <= Cardinality(T) * hi
<1> DEFINE Good == {R \in SUBSET U : Cardinality(R) * lo <= M[R] /\ M[R] <= Cardinality(R) * hi}
<1>1. /\ M \in [SUBSET U -> Nat] /\ M[{}] = 0
      /\ \A R \in SUBSET U : \A y \in R : M[R] = w[y] + M[R \ {y}]
  BY DEF Measure
<1>2. {} \in Good
  <2>1. Cardinality({}) = 0 /\ {} \in SUBSET U
    BY FS_EmptySet
  <2>2. 0 * lo = 0 /\ 0 * hi = 0
    OBVIOUS
  <2>. QED  BY <1>1, <2>1, <2>2
<1>3. ASSUME NEW R \in SUBSET U, R # {}, \A y \in R : R \ {y} \in Good
      PROVE  R \in Good
  <2>1. PICK y \in R : TRUE
    BY <1>3
  <2>2. /\ IsFiniteSet(R) /\ Cardinality(R) \in Nat
        /\ Cardinality(R \ {y}) = Cardinality(R) - 1
    BY FS_Subset, FS_CardinalityType, FS_RemoveElement
  <2> DEFINE n == Cardinality(R)
             x == M[R \ {y}]
  <2>3. (n - 1) * lo <= x /\ x <= (n - 1) * hi /\ M[R] = w[y] + x
    BY <1>1, <1>3, <2>2
  <2>4. n \in Nat /\ x \in Nat /\ w[y] \in Nat /\ lo <= w[y] /\ w[y] <= hi
    BY <1>1, <2>2
  <2> HIDE DEF n, x
  <2>5. (n - 1) * lo + lo = n * lo /\ (n - 1) * hi + hi = n * hi
    BY <2>4
  <2>6. (n - 1) * lo \in Int /\ (n - 1) * hi \in Int
    BY <2>4
  <2>7. n * lo <= M[R] /\ M[R] <= n * hi
    BY <2>3, <2>4, <2>5, <2>6
  <2>. QED  BY <2>7 DEF n
<1>4. \A R \in SUBSET U : R \in Good
  <2> HIDE DEF Good
  <2>. QED  BY <1>2, <1>3, SubsetClimb
<1>. QED  BY <1>4

(* A one-to-one f that leads from the members of A to heavier ones.        *)
Lifts(f, A, U, w) ==
  /\ f \in [A -> U]
  /\ \A p, q \in A : f[p] = f[q] => p = q
  /\ \A p \in A : w[f[p]] >= w[p] + 1

(* A sum over better places is larger, by one for each place at least.     *)
LEMMA MeasureLifts ==
  ASSUME NEW U, IsFiniteSet(U), NEW w \in [U -> Nat], NEW M, Measure(M, U, w),
         NEW A \in SUBSET U, NEW f, Lifts(f, A, U, w),
         NEW B \in SUBSET U, \A p \in A : f[p] \in B
  PROVE  M[B] >= M[A] + Cardinality(A)
<1> DEFINE Good == {T \in SUBSET A : \A V \in SUBSET U :
                      (\A p \in T : f[p] \in V) => M[V] >= M[T] + Cardinality(T)}
<1>1. /\ M \in [SUBSET U -> Nat] /\ M[{}] = 0
      /\ \A R \in SUBSET U : \A y \in R : M[R] = w[y] + M[R \ {y}]
  BY DEF Measure
<1>2. IsFiniteSet(A)
  BY FS_Subset
<1>3. {} \in Good
  <2>1. Cardinality({}) = 0
    BY FS_EmptySet
  <2>. QED  BY <1>1, <2>1
<1>4. ASSUME NEW T \in SUBSET A, T # {}, \A y \in T : T \ {y} \in Good
      PROVE  T \in Good
  <2>1. PICK y \in T : TRUE
    BY <1>4
  <2>2. /\ IsFiniteSet(T) /\ Cardinality(T) \in Nat
        /\ Cardinality(T \ {y}) = Cardinality(T) - 1
    BY <1>2, FS_Subset, FS_CardinalityType, FS_RemoveElement
  <2>3. ASSUME NEW V \in SUBSET U, \A p \in T : f[p] \in V
        PROVE  M[V] >= M[T] + Cardinality(T)
    <3>1. f[y] \in V /\ f[y] \in U /\ y \in U /\ w[f[y]] >= w[y] + 1
      BY <2>3 DEF Lifts
    <3>2. \A p \in T \ {y} : f[p] \in V \ {f[y]}
      BY <2>3 DEF Lifts
    <3>3. T \ {y} \in Good /\ V \ {f[y]} \in SUBSET U
      BY <1>4
    <3>4. M[V \ {f[y]}] >= M[T \ {y}] + Cardinality(T \ {y})
      BY <3>2, <3>3
    <3>5. M[V] = w[f[y]] + M[V \ {f[y]}] /\ M[T] = w[y] + M[T \ {y}]
      BY <1>1, <3>1
    <3>6. /\ M[V \ {f[y]}] \in Nat /\ M[T \ {y}] \in Nat /\ w[y] \in Nat /\ w[f[y]] \in Nat
      BY <1>1, <3>1
    <3>. QED  BY <2>2, <3>1, <3>4, <3>5, <3>6, SMTT(40)
  <2>. QED  BY <2>3
<1>5. A \in Good
  <2>1. A \in SUBSET A
    OBVIOUS
  <2> HIDE DEF Good
  <2>. QED  BY <1>2, <1>3, <1>4, <2>1, SubsetClimb
<1>. QED  BY <1>5


(* The weights of the places, and their sums as ScoresExact takes them.    *)
Weights == [p \in Places |-> Reciprocal(p)]

(* Places are finitely many and each is worth the reciprocal of its rank.  *)
LEMMA PlacesFacts ==
  /\ IsFiniteSet(Places) /\ Weights \in [Places -> Nat]
  /\ \A p \in Places : /\ p[1] \in 1..MaxResponses /\ p[2] \in 1..MaxLen /\ p = <<p[1], p[2]>>
                       /\ Reciprocal(p) = Worth(p[2]) /\ Weights[p] = Worth(p[2])
<1>1. IsFiniteSet(1..MaxResponses) /\ IsFiniteSet(1..MaxLen)
  BY FS_Interval, MergingAssumption
<1>2. IsFiniteSet(Places)
  BY <1>1, FS_Product DEF Places
<1>3. \A p \in Places : p[1] \in 1..MaxResponses /\ p[2] \in 1..MaxLen /\ p = <<p[1], p[2]>>
  BY DEF Places
<1>4. \A p \in Places : Reciprocal(p) = Worth(p[2]) /\ Weights[p] = Worth(p[2])
  BY DEF Reciprocal, Worth, Weights
<1>5. \A p \in Places : Reciprocal(p) \in Nat
  BY <1>3, <1>4, WorthFacts DEF Positive
<1>6. Weights \in [Places -> Nat]
  BY <1>5 DEF Weights
<1>. QED  BY <1>2, <1>3, <1>4, <1>6

(* MapThenSumSet, whatever order it takes, gives the measure.              *)
LEMMA SumIsMeasure ==
  ASSUME NEW M, Measure(M, Places, Weights), NEW S \in SUBSET Places
  PROVE  MapThenSumSet(Reciprocal, S) = M[S]
<1> DEFINE pick(T) == CHOOSE x \in T : TRUE
           Body(g, T) == IF T = {} THEN 0 ELSE Reciprocal(pick(T)) + g[T \ {pick(T)}]
           G == CHOOSE g : g = [T \in SUBSET S |-> Body(g, T)]
           g1 == [T \in SUBSET S |-> M[T]]
<1>1. /\ M \in [SUBSET Places -> Nat] /\ M[{}] = 0
      /\ \A R \in SUBSET Places : \A y \in R : M[R] = Weights[y] + M[R \ {y}]
  BY DEF Measure
<1>2. \A y \in Places : Weights[y] = Reciprocal(y)
  BY PlacesFacts
<1>3. \A T \in SUBSET S : T # {} => pick(T) \in T
  OBVIOUS
<1> HIDE DEF pick
<1>4. ASSUME NEW T \in SUBSET S PROVE M[T] = Body(M, T)
  BY <1>1, <1>2, <1>3
<1>5. ASSUME NEW T \in SUBSET S PROVE g1[T] = Body(g1, T)
  <2>1. CASE T = {}
    BY <1>4, <2>1
  <2>2. CASE T # {}
    <3>1. T \ {pick(T)} \in SUBSET S
      OBVIOUS
    <3>2. g1[T \ {pick(T)}] = M[T \ {pick(T)}]
      BY <3>1
    <3>. QED  BY <1>4, <2>2, <3>2
  <2>. QED  BY <2>1, <2>2
<1>6. g1 = [T \in SUBSET S |-> Body(g1, T)]
  BY <1>5
<1>7. G = [T \in SUBSET S |-> Body(G, T)]
  <2> HIDE DEF g1
  <2>. QED  BY <1>6
<1>8. MapThenSumSet(Reciprocal, S) = G[S]
  BY DEF MapThenSumSet, MapThenFoldSet, pick
<1> HIDE DEF G
<1> DEFINE Good == {T \in SUBSET S : G[T] = M[T]}
<1>9. {} \in Good
  BY <1>1, <1>7
<1>10. ASSUME NEW T \in SUBSET S, T # {}, \A y \in T : T \ {y} \in Good
       PROVE  T \in Good
  <2>1. pick(T) \in T /\ G[T \ {pick(T)}] = M[T \ {pick(T)}]
    BY <1>3, <1>10
  <2>2. G[T] = Body(G, T) /\ M[T] = Body(M, T)
    BY <1>4, <1>7
  <2>. QED  BY <1>10, <2>1, <2>2
<1>11. S \in Good
  <2>1. S \in SUBSET S /\ IsFiniteSet(S)
    BY PlacesFacts, FS_Subset
  <2> HIDE DEF Good
  <2>. QED  BY <1>9, <1>10, <2>1, SubsetClimb
<1>. QED  BY <1>8, <1>11

(* The arguments of MergeSearcherAnswers.                                  *)
IsResponses == responses \in UNION {[1..n -> Answers] : n \in 0..MaxResponses}

(* Answers are within the bounds and name documents.                       *)
LEMMA ResponsesFacts ==
  ASSUME IsResponses
  PROVE  /\ Len(responses) \in 0..MaxResponses /\ DOMAIN responses = 1..Len(responses)
         /\ \A o \in 1..Len(responses) :
              /\ Len(responses[o]) \in 0..MaxLen /\ DOMAIN responses[o] = 1..Len(responses[o])
              /\ \A i \in 1..Len(responses[o]) : responses[o][i] \in Docs
<1>1. PICK n \in 0..MaxResponses : responses \in [1..n -> Answers]
  BY DEF IsResponses
<1>2. n \in Nat /\ DOMAIN responses = 1..n /\ Len(responses) = n
  BY <1>1, MergingAssumption
<1>3. ASSUME NEW x \in Answers
      PROVE  /\ Len(x) \in 0..MaxLen /\ DOMAIN x = 1..Len(x)
             /\ \A i \in 1..Len(x) : x[i] \in Docs
  <2>1. x \in Seq(ToSet(x)) /\ Len(x) <= MaxLen /\ MaxLen \in Nat
    BY MergingAssumption
  <2>2. Len(x) \in Nat /\ DOMAIN x = 1..Len(x)
    BY <2>1
  <2>3. \A i \in 1..Len(x) : x[i] \in ToSet(x)
    BY <2>2 DEF ToSet
  <2>. QED  BY <2>1, <2>2, <2>3 DEF Docs
<1>. QED  BY <1>1, <1>2, <1>3

(* doc_to_score[id] += score turns the map s into t.                       *)
Raises(s, D, id, score, t) ==
  /\ t \in Maps(D, Nat) /\ IsFiniteSet(DOMAIN t)
  /\ DOMAIN t = DOMAIN s \cup {id}
  /\ t[id] = IF id \in DOMAIN s THEN s[id] + score ELSE score
  /\ \A d \in DOMAIN s : d # id => t[d] = s[d]

(* Both branches of the loop body raise the entry of one document.         *)
LEMMA AddedFacts ==
  ASSUME NEW D, doc_to_score \in Maps(D, Nat), IsFiniteSet(DOMAIN doc_to_score),
         NEW id \in D, NEW score \in Nat
  PROVE  Raises(doc_to_score, D, id, score, Added(id, score))
<1> DEFINE s == doc_to_score
           t == Added(id, score)
<1>1. /\ DOMAIN s \in SUBSET D /\ \A x \in DOMAIN s : s[x] \in Nat
      /\ s = [x \in DOMAIN s |-> s[x]]
  BY MapFacts
<1>2. IsFiniteSet(DOMAIN s \cup {id})
  BY FS_AddElement
<1>3. /\ DOMAIN t = DOMAIN s \cup {id}
      /\ t[id] = IF id \in DOMAIN s THEN s[id] + score ELSE score
      /\ \A d \in DOMAIN s : d # id => t[d] = s[d]
      /\ t = [x \in DOMAIN t |-> t[x]]
  <2>1. PICK v : v = IF id \in DOMAIN s THEN s[id] + score ELSE score
    OBVIOUS
  <2>2. t = [x \in DOMAIN s \cup {id} |-> IF x = id THEN v ELSE s[x]]
    BY <2>1 DEF Added, Assigned
  <2> HIDE DEF s, t
  <2>. QED  BY <2>1, <2>2
<1> HIDE DEF s, t
<1>4. \A x \in DOMAIN t : t[x] \in Nat
  BY <1>1, <1>3
<1>5. t \in [DOMAIN t -> Nat] /\ DOMAIN t \in SUBSET D
  BY <1>1, <1>3, <1>4
<1>6. t \in Maps(D, Nat)
  BY <1>5 DEF Maps
<1>. QED  BY <1>2, <1>3, <1>6 DEF Raises, s, t
-----------------------------------------------------------------------------
(* The inductive invariant of Merging: the map is exact all along, and the *)
(* result is the beginning of a sorted list of its keys.                   *)
SortedKeys(sorted) ==
  /\ sorted \in SetToSeqs(DOMAIN doc_to_score)
  /\ \A i, j \in 1..Len(sorted) : i < j => doc_to_score[sorted[i]] >= doc_to_score[sorted[j]]

MergeInv ==
  /\ IsResponses /\ num_requested \in Nat
  /\ out \in Positive /\ in \in Positive
  /\ doc_to_score \in Maps(Docs, Nat) /\ IsFiniteSet(DOMAIN doc_to_score)
  /\ ScoresExact
  /\ phase = "done" =>
       /\ out > Len(responses)
       /\ \E sorted : /\ SortedKeys(sorted)
                      /\ \E n \in 0..Len(sorted) : final_response = SubSeq(sorted, 1, n)

(* ScoresExact, with the sums taken by one measure.                        *)
ExactBy(M) ==
  \A d \in Docs : IF Read(d) = {} THEN d \notin DOMAIN doc_to_score
                  ELSE d \in DOMAIN doc_to_score /\ doc_to_score[d] = M[Read(d)]

(* ScoresExact can be read with any measure of the places.                 *)
LEMMA ExactByMeasure ==
  ASSUME NEW M, Measure(M, Places, Weights)
  PROVE  (ScoresExact <=> ExactBy(M)) /\ (ScoresExact' <=> ExactBy(M)')
<1>1. \A S \in SUBSET Places : MapThenSumSet(Reciprocal, S) = M[S]
  BY SumIsMeasure
<1>2. \A d \in Docs : Read(d) \in SUBSET Places
  BY DEF Read
<1>3. \A d \in Docs : Read(d)' \in SUBSET Places
  BY DEF Read
<1>4. \A d \in Docs : MapThenSumSet(Reciprocal, Read(d)) = M[Read(d)]
  BY <1>1, <1>2
<1>5. \A d \in Docs : MapThenSumSet(Reciprocal, Read(d)') = M[Read(d)']
  BY <1>1, <1>3
<1>6. ScoresExact <=> ExactBy(M)
  BY <1>4 DEF ScoresExact, ExactBy
<1>7. ScoresExact' <=> ExactBy(M)'
  BY <1>5 DEF ScoresExact, ExactBy
<1>. QED  BY <1>6, <1>7

(* There is such a measure.                                                *)
LEMMA SomeMeasure == \E M : Measure(M, Places, Weights)
BY PlacesFacts, MeasureExists

(* Before the loops nothing has been read and the map is empty.            *)
LEMMA MergeInitInv == MergeInit => MergeInv
<1> SUFFICES ASSUME MergeInit PROVE MergeInv
  OBVIOUS
<1>1. IsResponses /\ num_requested \in Nat
  BY MergingAssumption DEF MergeInit, IsResponses
<1>2. out = 1 /\ in = 1 /\ doc_to_score = <<>> /\ phase = "score"
  BY DEF MergeInit
<1>3. DOMAIN doc_to_score = {} /\ doc_to_score \in [{} -> Nat]
  BY <1>2
<1>4. doc_to_score \in Maps(Docs, Nat) /\ IsFiniteSet(DOMAIN doc_to_score)
  BY <1>3, FS_EmptySet DEF Maps
<1>5. ASSUME NEW d \in Docs PROVE Read(d) = {}
  <2>1. ASSUME NEW p \in Places PROVE ~(p[1] < out \/ (p[1] = out /\ p[2] < in))
    <3>1. p[1] \in Nat /\ p[1] >= 1 /\ p[2] \in Nat /\ p[2] >= 1
      BY PlacesFacts
    <3>. QED  BY <1>2, <3>1
  <2>. QED  BY <2>1 DEF Read
<1>6. ScoresExact
  BY <1>3, <1>5 DEF ScoresExact
<1>. QED  BY <1>1, <1>2, <1>4, <1>6 DEF MergeInv, Positive

(* Reading one place keeps the scores exact.                               *)
LEMMA MergeScoreInv == ASSUME MergeInv, Score PROVE MergeInv'
<1> DEFINE id == responses[out][in]
           place == <<out, in>>
           v == GetScore(in - 1)
<1>1. /\ IsResponses /\ num_requested \in Nat /\ out \in Nat /\ out >= 1 /\ in \in Nat /\ in >= 1
      /\ doc_to_score \in Maps(Docs, Nat) /\ IsFiniteSet(DOMAIN doc_to_score) /\ ScoresExact
  BY DEF MergeInv, Positive
<1>2. /\ phase = "score" /\ out <= Len(responses) /\ in <= Len(responses[out])
      /\ doc_to_score' = Added(id, v) /\ in' = in + 1
      /\ UNCHANGED <<responses, num_requested, out, final_response, phase>>
  BY DEF Score
<1>3. /\ Len(responses) \in 0..MaxResponses /\ MaxResponses \in Nat /\ MaxLen \in Nat
      /\ out \in 1..Len(responses)
      /\ Len(responses[out]) \in 0..MaxLen /\ in \in 1..Len(responses[out]) /\ id \in Docs
  <2>1. Len(responses) \in 0..MaxResponses /\ MaxResponses \in Nat /\ MaxLen \in Nat
    BY <1>1, ResponsesFacts, MergingAssumption
  <2>2. out \in 1..Len(responses)
    BY <1>1, <1>2, <2>1
  <2>3. Len(responses[out]) \in 0..MaxLen
    BY <1>1, <2>2, ResponsesFacts
  <2>4. in \in 1..Len(responses[out])
    BY <1>1, <1>2, <2>1, <2>3
  <2>5. id \in Docs
    BY <1>1, <2>2, <2>4, ResponsesFacts
  <2>. QED  BY <2>1, <2>2, <2>3, <2>4, <2>5
<1>4. out \in 1..MaxResponses /\ in \in 1..MaxLen
  BY <1>3
<1>5. place \in Places /\ place[1] = out /\ place[2] = in
  BY <1>4 DEF Places
<1>6. v = Weights[place] /\ v \in Nat
  <2>1. RFF_CONST + (in - 1) + 1 = 60 + in
    BY <1>1 DEF RFF_CONST
  <2>2. v = Worth(in)
    BY <2>1 DEF GetScore, Worth
  <2>3. Weights[place] = Worth(in)
    BY <1>5, PlacesFacts
  <2>. QED  BY <1>4, <2>2, <2>3, WorthFacts DEF Positive
<1> HIDE DEF id, v, place
<1>7. ASSUME NEW d \in Docs
      PROVE  /\ place \notin Read(d)
             /\ d = id => Read(d)' = Read(d) \cup {place}
             /\ d # id => Read(d)' = Read(d)
  <2>1. place \notin Read(d)
    BY <1>1, <1>5 DEF Read
  <2>2. ASSUME NEW p \in Places
        PROVE  (p[1] < out \/ (p[1] = out /\ p[2] < in + 1))
                 <=> (p[1] < out \/ (p[1] = out /\ p[2] < in)) \/ p = place
    <3>1. p[1] \in Nat /\ p[2] \in Nat /\ p = <<p[1], p[2]>>
      BY PlacesFacts
    <3>2. p = place <=> p[1] = out /\ p[2] = in
      BY <3>1 DEF place
    <3>. QED  BY <1>1, <3>1, <3>2
  <2>3. /\ place[1] <= Len(responses) /\ place[2] <= Len(responses[place[1]])
        /\ responses[place[1]][place[2]] = id
    BY <1>2, <1>5 DEF id
  <2>4. Read(d)' = {p \in Places : /\ p[1] <= Len(responses) /\ p[2] <= Len(responses[p[1]])
                                   /\ p[1] < out \/ (p[1] = out /\ p[2] < in + 1)
                                   /\ responses[p[1]][p[2]] = d}
    BY <1>2 DEF Read
  <2>. QED  BY <1>5, <2>1, <2>2, <2>3, <2>4 DEF Read
<1>8. /\ doc_to_score' \in Maps(Docs, Nat) /\ IsFiniteSet(DOMAIN doc_to_score')
      /\ DOMAIN doc_to_score' = DOMAIN doc_to_score \cup {id}
      /\ doc_to_score'[id] = IF id \in DOMAIN doc_to_score THEN doc_to_score[id] + v ELSE v
      /\ \A d \in DOMAIN doc_to_score : d # id => doc_to_score'[d] = doc_to_score[d]
  <2>1. Raises(doc_to_score, Docs, id, v, Added(id, v))
    BY <1>1, <1>3, <1>6, AddedFacts
  <2>. QED  BY <1>2, <2>1 DEF Raises
<1>9. PICK M : Measure(M, Places, Weights)
  BY SomeMeasure
<1>10. /\ M \in [SUBSET Places -> Nat] /\ M[{}] = 0
       /\ \A T \in SUBSET Places : \A y \in T : M[T] = Weights[y] + M[T \ {y}]
  BY <1>9 DEF Measure
<1>11. ExactBy(M)
  BY <1>1, <1>9, ExactByMeasure
<1>12. ASSUME NEW d \in Docs, d = id
       PROVE  Read(d)' # {} /\ d \in DOMAIN doc_to_score' /\ doc_to_score'[d] = M[Read(d)']
  <2>1. /\ Read(d)' = Read(d) \cup {place} /\ Read(d)' \in SUBSET Places /\ place \in Read(d)'
        /\ Read(d)' \ {place} = Read(d) /\ Read(d) \in SUBSET Places
    BY <1>5, <1>7, <1>12 DEF Read
  <2>2. M[Read(d)'] = v + M[Read(d)] /\ M[Read(d)] \in Nat
    BY <1>6, <1>10, <2>1
  <2>3. CASE Read(d) = {}
    <3>1. d \notin DOMAIN doc_to_score
      BY <1>11, <2>3 DEF ExactBy
    <3>. QED  BY <1>6, <1>8, <1>10, <1>12, <2>1, <2>2, <2>3, <3>1, SMTT(40)
  <2>4. CASE Read(d) # {}
    <3>1. d \in DOMAIN doc_to_score /\ doc_to_score[d] = M[Read(d)]
      BY <1>11, <2>4 DEF ExactBy
    <3>. QED  BY <1>6, <1>8, <1>12, <2>1, <2>2, <3>1, SMTT(40)
  <2>. QED  BY <2>3, <2>4
<1>13. ASSUME NEW d \in Docs, d # id
       PROVE  IF Read(d)' = {} THEN d \notin DOMAIN doc_to_score'
              ELSE d \in DOMAIN doc_to_score' /\ doc_to_score'[d] = M[Read(d)']
  BY <1>7, <1>8, <1>11, <1>13 DEF ExactBy
<1>14. ExactBy(M)'
  BY <1>12, <1>13 DEF ExactBy
<1>15. ScoresExact'
  BY <1>9, <1>14, ExactByMeasure
<1>16. IsResponses' /\ num_requested' \in Nat /\ out' \in Positive /\ in' \in Positive /\ phase' # "done"
  BY <1>1, <1>2 DEF IsResponses, Positive
<1>. QED  BY <1>8, <1>15, <1>16 DEF MergeInv

(* Going on to the next answer reads nothing.                              *)
LEMMA MergeNextResponseInv == ASSUME MergeInv, NextResponse PROVE MergeInv'
<1>1. /\ IsResponses /\ num_requested \in Nat /\ out \in Nat /\ out >= 1 /\ in \in Nat /\ in >= 1
      /\ doc_to_score \in Maps(Docs, Nat) /\ IsFiniteSet(DOMAIN doc_to_score) /\ ScoresExact
  BY DEF MergeInv, Positive
<1>2. /\ phase = "score" /\ out <= Len(responses) /\ in > Len(responses[out])
      /\ out' = out + 1 /\ in' = 1
      /\ UNCHANGED <<responses, num_requested, doc_to_score, final_response, phase>>
  BY DEF NextResponse
<1>3. Len(responses) \in Nat /\ Len(responses[out]) \in Nat
  <2>1. Len(responses) \in 0..MaxResponses /\ MaxResponses \in Nat /\ MaxLen \in Nat
    BY <1>1, ResponsesFacts, MergingAssumption
  <2>2. out \in 1..Len(responses)
    BY <1>1, <1>2, <2>1
  <2>3. Len(responses[out]) \in 0..MaxLen
    BY <1>1, <2>2, ResponsesFacts
  <2>. QED  BY <2>1, <2>3
<1>4. ASSUME NEW p \in Places, p[2] <= Len(responses[p[1]])
      PROVE  (p[1] < out + 1 \/ (p[1] = out + 1 /\ p[2] < 1))
               <=> (p[1] < out \/ (p[1] = out /\ p[2] < in))
  <2>1. p[1] \in Nat /\ p[2] \in Nat /\ p[2] >= 1
    BY PlacesFacts
  <2>2. p[1] = out => p[2] < in
    BY <1>1, <1>2, <1>3, <1>4, <2>1
  <2>. QED  BY <1>1, <2>1, <2>2
<1>5. ASSUME NEW d \in Docs PROVE Read(d)' = Read(d)
  <2>1. Read(d)' = {p \in Places : /\ p[1] <= Len(responses) /\ p[2] <= Len(responses[p[1]])
                                   /\ p[1] < out + 1 \/ (p[1] = out + 1 /\ p[2] < 1)
                                   /\ responses[p[1]][p[2]] = d}
    BY <1>2 DEF Read
  <2>. QED  BY <1>4, <2>1 DEF Read
<1>6. ScoresExact'
  <2>1. PICK M : Measure(M, Places, Weights)
    BY SomeMeasure
  <2>2. ExactBy(M)
    BY <1>1, <2>1, ExactByMeasure
  <2>3. ExactBy(M)'
    BY <1>2, <1>5, <2>2 DEF ExactBy
  <2>. QED  BY <2>1, <2>3, ExactByMeasure
<1>7. IsResponses' /\ num_requested' \in Nat /\ out' \in Positive /\ in' \in Positive /\ phase' # "done"
  BY <1>1, <1>2 DEF IsResponses, Positive
<1>. QED  BY <1>1, <1>2, <1>6, <1>7 DEF MergeInv

(* The result is a beginning of the sorted keys.                           *)
LEMMA MergeSortInv == ASSUME MergeInv, SortAndCut PROVE MergeInv'
<1>1. /\ IsResponses /\ num_requested \in Nat /\ out \in Positive /\ in \in Positive
      /\ doc_to_score \in Maps(Docs, Nat) /\ IsFiniteSet(DOMAIN doc_to_score) /\ ScoresExact
  BY DEF MergeInv
<1>2. /\ out > Len(responses) /\ UNCHANGED <<responses, num_requested, out, in, doc_to_score>>
  BY DEF SortAndCut
<1>3. PICK sorted \in SetToSeqs(DOMAIN doc_to_score) :
        /\ IsSorted(sorted, LAMBDA d, e : doc_to_score[d] >= doc_to_score[e])
        /\ final_response' =
             SubSeq(sorted, 1, IF num_requested < Len(sorted) THEN num_requested ELSE Len(sorted))
  BY DEF SortAndCut
<1>4. SortedKeys(sorted)
  BY <1>3 DEF SortedKeys, IsSorted
<1>5. Len(sorted) \in Nat
  <2>1. \A ps \in SetToSeqs(DOMAIN doc_to_score) : Len(ps) \in Nat
    BY <1>1, Permutes, SMTT(40)
  <2>. QED  BY ONLY <2>1, sorted \in SetToSeqs(DOMAIN doc_to_score)
<1>6. \E n \in 0..Len(sorted) : final_response' = SubSeq(sorted, 1, n)
  <2>1. (IF num_requested < Len(sorted) THEN num_requested ELSE Len(sorted)) \in 0..Len(sorted)
    BY <1>1, <1>5
  <2>. QED  BY <1>3, <2>1
<1>7. SortedKeys(sorted)'
  BY <1>2, <1>4 DEF SortedKeys
<1>8. ScoresExact' /\ IsResponses'
  BY <1>1, <1>2 DEF ScoresExact, IsResponses, Read
<1>. QED  BY <1>1, <1>2, <1>6, <1>7, <1>8 DEF MergeInv

(* Every step of the merge keeps the invariant.                            *)
LEMMA MergeStep == MergeInv /\ [MergeNext]_merge_vars => MergeInv'
<1> SUFFICES ASSUME MergeInv, [MergeNext]_merge_vars PROVE MergeInv'
  OBVIOUS
<1>1. CASE UNCHANGED merge_vars
  BY <1>1 DEF merge_vars, MergeInv, IsResponses, ScoresExact, Read, SortedKeys
<1>. QED  BY <1>1, MergeScoreInv, MergeNextResponseInv, MergeSortInv DEF MergeNext

(* After every step of the two loops of MergeSearcherAnswers the map is    *)
(* what ScoresExact says, and what is returned is the beginning of a list  *)
(* of its keys sorted by score.                                            *)
THEOREM MergeInvariance == MergeSpec => []MergeInv
BY MergeInitInv, MergeStep, PTL DEF MergeSpec

(* The score of a document is the sum of its reciprocal ranks over all the *)
(* places it was read at, for any number and length of answers.            *)
THEOREM MergedScores == MergeSpec => []ScoresExact
<1>1. MergeInv => ScoresExact
  BY DEF MergeInv
<1>. QED  BY <1>1, MergeInvariance, PTL

-----------------------------------------------------------------------------
(* A document with a higher score than another comes before it.            *)
LEMMA HigherScore ==
  ASSUME MergeInv, phase = "done", NEW d, NEW e,
         e \in DOMAIN doc_to_score =>
           d \in DOMAIN doc_to_score /\ doc_to_score[d] > doc_to_score[e]
  PROVE  Ranked(d, e)
<1> DEFINE X == DOMAIN doc_to_score
<1>1. PICK sorted : /\ SortedKeys(sorted)
                    /\ \E n \in 0..Len(sorted) : final_response = SubSeq(sorted, 1, n)
  BY DEF MergeInv
<1>2. PICK n \in 0..Len(sorted) : final_response = SubSeq(sorted, 1, n)
  BY <1>1
<1> DEFINE m == Len(sorted)
<1>3. /\ m \in Nat /\ sorted \in [1..m -> X] /\ \A x \in X : \E k \in 1..m : sorted[k] = x
      /\ \A i, j \in 1..m : i < j => doc_to_score[sorted[i]] >= doc_to_score[sorted[j]]
  <2>1. IsFiniteSet(X) /\ sorted \in SetToSeqs(X)
    BY <1>1 DEF MergeInv, SortedKeys
  <2>2. /\ m \in Nat /\ sorted \in [1..m -> X] /\ \A x \in X : \E k \in 1..m : sorted[k] = x
    BY <2>1, Permutes
  <2>. QED  BY <1>1, <2>2 DEF SortedKeys
<1>4. DOMAIN final_response = 1..n /\ \A i \in 1..n : final_response[i] = sorted[i]
  <2>1. sorted \in Seq(X)
    BY <1>3
  <2>2. n \in Nat /\ n <= m
    BY <1>3
  <2> HIDE DEF X
  <2>. QED  BY <1>2, <2>1, <2>2, SubSeqProperties
<1>5. \A x \in X : doc_to_score[x] \in Nat
  BY MapFacts DEF MergeInv
<1>6. ASSUME NEW j \in 1..n, sorted[j] = e
      PROVE  \E i \in 1..n : sorted[i] = d /\ i < j
  <2>1. j \in 1..m /\ j \in Int
    BY <1>3
  <2>2. e \in X /\ d \in X /\ doc_to_score[d] > doc_to_score[e]
    BY <1>3, <1>6, <2>1
  <2>3. PICK i \in 1..m : sorted[i] = d
    BY <1>3, <2>2
  <2>4. ~(i > j) /\ i # j
    BY <1>3, <1>5, <1>6, <2>1, <2>2, <2>3
  <2>. QED  BY <1>3, <2>1, <2>3, <2>4
<1>. QED  BY <1>4, <1>6 DEF Ranked, In, Precedes

(* When the loops are over everything has been read.                       *)
LEMMA ReadAll ==
  ASSUME MergeInv, phase = "done", NEW d, NEW p
  PROVE  p \in Read(d) <=> /\ p \in Places /\ p[1] \in DOMAIN responses
                           /\ p[2] \in DOMAIN responses[p[1]] /\ responses[p[1]][p[2]] = d
<1>1. IsResponses /\ out > Len(responses) /\ out \in Nat
  BY DEF MergeInv, Positive
<1>2. Len(responses) \in Nat /\ DOMAIN responses = 1..Len(responses)
  BY <1>1, ResponsesFacts, MergingAssumption
<1>3. \A o \in 1..Len(responses) :
        Len(responses[o]) \in Nat /\ DOMAIN responses[o] = 1..Len(responses[o])
  BY <1>1, ResponsesFacts, MergingAssumption
<1>4. p \in Places => p[1] \in Nat /\ p[1] >= 1 /\ p[2] \in Nat /\ p[2] >= 1
  BY PlacesFacts
<1>5. p \in Places /\ p[1] <= Len(responses) => p[1] \in 1..Len(responses) /\ p[1] < out
  BY <1>1, <1>2, <1>4
<1>6. p \in Places /\ p[1] \in 1..Len(responses) =>
        (p[2] <= Len(responses[p[1]]) <=> p[2] \in DOMAIN responses[p[1]])
  BY <1>3, <1>4
<1>. QED  BY <1>1, <1>2, <1>5, <1>6 DEF Read

(* A place in an answer is a place of the instance.                        *)
LEMMA PlaceIn ==
  ASSUME IsResponses, NEW o \in DOMAIN responses, NEW i \in DOMAIN responses[o]
  PROVE  <<o, i>> \in Places /\ <<o, i>>[1] = o /\ <<o, i>>[2] = i
<1>1. /\ Len(responses) \in 0..MaxResponses /\ DOMAIN responses = 1..Len(responses)
      /\ MaxResponses \in Nat /\ MaxLen \in Nat
  BY ResponsesFacts, MergingAssumption
<1>2. Len(responses[o]) \in 0..MaxLen /\ DOMAIN responses[o] = 1..Len(responses[o])
  BY <1>1, ResponsesFacts
<1>3. o \in 1..MaxResponses /\ i \in 1..MaxLen
  BY <1>1, <1>2
<1>. QED  BY <1>3 DEF Places

(* Each place of e has a better place of d in the same answer.             *)
LEMMA DominanceHolds == MergeInv => Dominance
<1> SUFFICES ASSUME MergeInv, phase = "done", NEW d \in Docs, NEW e \in Docs,
                    Read(e) # {}, \A o \in DOMAIN responses : Ahead(d, e, responses[o])
             PROVE  Ranked(d, e)
  BY DEF Dominance
<1> DEFINE A == Read(e)
           B == Read(d)
           Leads(h, o) == /\ h \in [Ranks(e, responses[o]) -> Ranks(d, responses[o])]
                          /\ \A i, j \in Ranks(e, responses[o]) : h[i] = h[j] => i = j
                          /\ \A i \in Ranks(e, responses[o]) : h[i] < i
           g == [o \in DOMAIN responses |-> CHOOSE h : Leads(h, o)]
           f == [p \in A |-> <<p[1], g[p[1]][p[2]]>>]
<1>0. IsResponses
  BY DEF MergeInv
<1>1. A \in SUBSET Places /\ B \in SUBSET Places
  BY DEF Read
<1>2. ASSUME NEW o \in DOMAIN responses PROVE Leads(g[o], o)
  <2>1. \E h : Leads(h, o)
    BY DEF Ahead, Injection, IsInjective
  <2> HIDE DEF Leads
  <2>. QED  BY <2>1
<1> HIDE DEF g
<1>a. ASSUME NEW p \in A
      PROVE  /\ p[1] \in DOMAIN responses /\ p[2] \in Ranks(e, responses[p[1]])
             /\ p = <<p[1], p[2]>>
  <2>1. /\ p[1] \in DOMAIN responses /\ p[2] \in DOMAIN responses[p[1]]
        /\ responses[p[1]][p[2]] = e
    BY ReadAll
  <2>2. p = <<p[1], p[2]>>
    BY <1>1, PlacesFacts
  <2>. QED  BY <2>1, <2>2 DEF Ranks
<1>3. ASSUME NEW p \in A
      PROVE  f[p] \in B /\ f[p][1] = p[1] /\ f[p][2] = g[p[1]][p[2]] /\ f[p][2] < p[2]
  <2> DEFINE o == p[1]
             i == g[o][p[2]]
  <2>1. o \in DOMAIN responses /\ p[2] \in Ranks(e, responses[o])
    BY <1>a
  <2>2. i \in Ranks(d, responses[o]) /\ i < p[2]
    BY <1>2, <2>1
  <2>3. i \in DOMAIN responses[o] /\ responses[o][i] = d
    BY <2>2 DEF Ranks
  <2>4. f[p] = <<o, i>>
    OBVIOUS
  <2> HIDE DEF o, i, f
  <2>5. <<o, i>> \in Places /\ <<o, i>>[1] = o /\ <<o, i>>[2] = i
    BY <1>0, <2>1, <2>3, PlaceIn
  <2>6. <<o, i>> \in B
    BY <2>1, <2>3, <2>5, ReadAll
  <2>. QED  BY <2>2, <2>4, <2>5, <2>6 DEF o, i
<1> HIDE DEF A, B
<1>4. f \in [A -> Places]
  <2>1. \A p \in A : f[p] \in Places
    BY <1>1, <1>3
  <2>. QED  BY <2>1
<1> HIDE DEF f
<1>5. ASSUME NEW p \in A, NEW q \in A, f[p] = f[q] PROVE p = q
  <2>1. p[1] = q[1] /\ g[p[1]][p[2]] = g[p[1]][q[2]]
    BY <1>3, <1>5
  <2>2. /\ p[1] \in DOMAIN responses /\ p[2] \in Ranks(e, responses[p[1]])
        /\ q[2] \in Ranks(e, responses[p[1]])
    BY <1>a, <2>1
  <2>3. p[2] = q[2]
    BY <1>2, <2>1, <2>2
  <2>. QED  BY <1>a, <2>1, <2>3
<1>6. ASSUME NEW p \in A PROVE Weights[f[p]] >= Weights[p] + 1
  <2>1. f[p] \in Places /\ p \in Places
    BY <1>1, <1>3
  <2>2. /\ Weights[f[p]] = Worth(f[p][2]) /\ Weights[p] = Worth(p[2])
        /\ f[p][2] \in 1..MaxLen /\ p[2] \in 1..MaxLen
    BY <2>1, PlacesFacts
  <2>. QED  BY <1>3, <2>2, BetterRank
<1>7. Lifts(f, A, Places, Weights)
  BY <1>4, <1>5, <1>6 DEF Lifts
<1>8. PICK M : Measure(M, Places, Weights)
  BY SomeMeasure
<1>9. M[B] >= M[A] + Cardinality(A)
  BY <1>1, <1>3, <1>7, <1>8, PlacesFacts, MeasureLifts
<1>10. A # {}
  BY DEF A
<1>11. Cardinality(A) \in Nat /\ Cardinality(A) # 0 /\ M[A] \in Nat /\ M[B] \in Nat
  <2>1. IsFiniteSet(A)
    BY <1>1, PlacesFacts, FS_Subset
  <2>2. M \in [SUBSET Places -> Nat]
    BY <1>8 DEF Measure
  <2>. QED  BY <1>1, <1>10, <2>1, <2>2, FS_EmptySet, FS_CardinalityType
<1>12. B # {}
  BY <1>3, <1>10
<1>13. ExactBy(M)
  BY <1>8, ExactByMeasure DEF MergeInv
<1>14. d \in DOMAIN doc_to_score /\ doc_to_score[d] = M[B] /\ doc_to_score[e] = M[A]
  BY <1>10, <1>12, <1>13 DEF ExactBy, A, B
<1>15. doc_to_score[d] > doc_to_score[e]
  BY <1>9, <1>11, <1>14
<1>. QED  BY <1>14, <1>15, HigherScore

(* A document that goes before e wherever e is named comes before e in the *)
(* fused answer, for any number and length of answers.                     *)
THEOREM MergedDominance == MergeSpec => []Dominance
BY DominanceHolds, MergeInvariance, PTL


(* k + 1 places of the lowest worth outweigh k of the highest.             *)
LEMMA MoreFinders ==
  ASSUME NEW k \in Nat, NEW m \in Positive, NEW lo \in Positive, NEW hi \in Positive,
         lo * (60 + m) = hi * 61, k * (m - 1) <= 60
  PROVE  k * hi < (k + 1) * lo
<1> USE DEF Positive
<1>1. k * (60 + m) < 61 * (k + 1)
  <2>1. k * (60 + m) = k * (m - 1) + k * 61
    OBVIOUS
  <2>2. k * (m - 1) \in Int /\ k * 61 \in Int /\ 61 * (k + 1) = k * 61 + 61
    OBVIOUS
  <2>. QED  BY <2>1, <2>2
<1>2. (k * hi) * 61 = lo * (k * (60 + m))
  <2>1. (k * hi) * 61 = k * (hi * 61)
    OBVIOUS
  <2>2. \A x \in Int : k * (lo * x) = lo * (k * x)
    OBVIOUS
  <2>3. 60 + m \in Int
    OBVIOUS
  <2>. QED  BY <2>1, <2>2, <2>3
<1>3. lo * (k * (60 + m)) < lo * (61 * (k + 1))
  <2>1. \A x, y \in Int : x < y => lo * x < lo * y
    OBVIOUS
  <2>2. k * (60 + m) \in Int /\ 61 * (k + 1) \in Int
    OBVIOUS
  <2>. QED  BY <1>1, <2>1, <2>2
<1>4. lo * (61 * (k + 1)) = ((k + 1) * lo) * 61
  OBVIOUS
<1>5. (k * hi) * 61 < ((k + 1) * lo) * 61 /\ k * hi \in Int /\ (k + 1) * lo \in Int
  BY <1>2, <1>3, <1>4
<1>6. \A x, y \in Int : x * 61 < y * 61 => x < y
  OBVIOUS
<1>. QED  BY <1>5, <1>6

(* More places at the worst rank outweigh fewer at the best.               *)
LEMMA ConsensusHolds == MergeInv => Consensus
<1> SUFFICES ASSUME MergeInv, phase = "done", NEW d \in Docs, NEW e \in Docs,
                    Cardinality(Read(d)) > Cardinality(Read(e)),
                    Cardinality(Read(e)) * (MaxLen - 1) <= 60
             PROVE  Ranked(d, e)
  BY DEF Consensus
<1> DEFINE A == Read(e)
           B == Read(d)
           k == Cardinality(A)
<1>1. k \in Nat /\ Cardinality(B) \in Nat /\ Cardinality(B) >= k + 1
  <2>1. A \in SUBSET Places /\ B \in SUBSET Places
    BY DEF Read
  <2>2. k \in Nat /\ Cardinality(B) \in Nat
    BY <2>1, PlacesFacts, FS_Subset, FS_CardinalityType
  <2>. QED  BY <2>2
<1>2. A \in SUBSET Places /\ B \in SUBSET Places
  BY DEF Read
<1>3. B # {}
  <2>1. Cardinality({}) = 0
    BY FS_EmptySet
  <2>2. Cardinality(B) # 0
    BY <1>1
  <2>. QED  BY <2>1, <2>2, Zenon
<1>4. MaxLen \in Positive /\ 1 \in 1..MaxLen /\ MaxLen \in 1..MaxLen
  <2>1. PICK p \in Places : TRUE
    BY <1>2, <1>3
  <2>2. p[2] \in 1..MaxLen /\ MaxLen \in Nat
    BY PlacesFacts, MergingAssumption
  <2>. QED  BY <2>2 DEF Positive
<1> DEFINE lo == Worth(MaxLen)
           hi == Worth(1)
<1>5. lo \in Positive /\ hi \in Positive /\ lo * (60 + MaxLen) = hi * 61
  <2>1. lo \in Positive /\ lo * (60 + MaxLen) = Scale
    BY <1>4, WorthFacts
  <2>2. hi \in Positive /\ hi * (60 + 1) = Scale
    BY <1>4, WorthFacts
  <2>. QED  BY <2>1, <2>2
<1>6. ASSUME NEW p \in Places PROVE lo <= Weights[p] /\ Weights[p] <= hi
  <2>1. p[2] \in 1..MaxLen /\ Weights[p] = Worth(p[2])
    BY PlacesFacts
  <2>2. lo \in Nat /\ hi \in Nat /\ Worth(p[2]) \in Nat
    BY <1>5, <2>1, WorthFacts DEF Positive
  <2>3. p[2] = 1 \/ 1 < p[2]
    BY <2>1
  <2>4. p[2] = MaxLen \/ p[2] < MaxLen
    BY <1>4, <2>1
  <2>5. Worth(p[2]) <= hi
    BY <1>4, <2>1, <2>2, <2>3, BetterRank
  <2>6. lo <= Worth(p[2])
    BY <1>4, <2>1, <2>2, <2>4, BetterRank
  <2>. QED  BY <2>1, <2>5, <2>6
<1>7. PICK M : Measure(M, Places, Weights)
  BY SomeMeasure
<1> HIDE DEF lo, hi
<1>8. Cardinality(B) * lo <= M[B] /\ M[A] <= Cardinality(A) * hi
  <2>1. lo \in Nat /\ hi \in Nat
    BY <1>5 DEF Positive
  <2>. QED  BY <1>2, <1>6, <1>7, <2>1, PlacesFacts, MeasureBounds
<1>9. M[A] \in Nat /\ M[B] \in Nat
  BY <1>2, <1>7 DEF Measure
<1>10. ExactBy(M)
  BY <1>7, ExactByMeasure DEF MergeInv
<1>11. d \in DOMAIN doc_to_score /\ doc_to_score[d] = M[B]
  BY <1>3, <1>10 DEF ExactBy
<1>12. e \in DOMAIN doc_to_score => doc_to_score[e] = M[A]
  BY <1>10 DEF ExactBy
<1> HIDE DEF k
<1>13. k * (MaxLen - 1) <= 60
  BY DEF k
<1> HIDE DEF A, B
<1>14. k * hi < (k + 1) * lo
  BY <1>1, <1>4, <1>5, <1>13, MoreFinders
<1>15. (k + 1) * lo <= Cardinality(B) * lo
  <2>1. \A x, y, z \in Nat : x <= y => x * z <= y * z
    OBVIOUS
  <2>2. lo \in Nat /\ hi \in Nat /\ k + 1 \in Nat
    BY <1>1, <1>5 DEF Positive
  <2>. QED  BY <1>1, <2>1, <2>2
<1>16. M[B] > M[A]
  <2>1. lo \in Int /\ hi \in Int /\ k \in Int /\ Cardinality(B) \in Int
    BY <1>1, <1>5 DEF Positive
  <2>2. k * hi \in Int /\ (k + 1) * lo \in Int /\ Cardinality(B) * lo \in Int
    BY <2>1
  <2>3. M[A] <= k * hi
    BY <1>8 DEF k
  <2>. QED  BY <1>8, <1>9, <1>14, <1>15, <2>2, <2>3
<1>. QED  BY <1>11, <1>12, <1>16, HigherScore

(* A document named more often comes before one named less often, as long  *)
(* as the number of times the second one is named, times the length of the *)
(* answers less one, is at most 60; a document named once is so outvoted   *)
(* in answers of 61.  Beyond that ranks can make up for it.                *)
THEOREM MergedConsensus == MergeSpec => []Consensus
<1>1. MergeInv => Consensus
  BY ConsensusHolds
<1>. QED  BY <1>1, MergeInvariance, PTL
=============================================================================
