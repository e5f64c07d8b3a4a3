------------------------------ MODULE Registry ------------------------------
(***************************************************************************)
(* What the services of one shard share: the keys of the shard in etcd     *)
(* (app/src/EtcdClient.cpp) and which searchers run.  Replication looks at *)
(* the shard from the Writer and takes these actions for the rest of the   *)
(* system; Coordinator is shown to do nothing else.                        *)
(***************************************************************************)
CONSTANT Host  \* searcher addresses that serve the shard

VARIABLES
  hosts,  \* etcd: searchers registered for the shard
  stats,  \* etcd: is the shard's response time stored?
  state   \* of each searcher: "down", "starting" (not listening), "up"

vars == <<hosts, stats, state>>

Init == hosts = {} /\ stats = FALSE /\ state = [h \in Host |-> "down"]

(* The constructor registers the address; the server starts to listen      *)
(* later, in InternalRun.                                                  *)
Start(h) ==
  /\ state[h] = "down"
  /\ state' = [state EXCEPT ![h] = "starting"]
  /\ hosts' = hosts \cup {h}
  /\ UNCHANGED stats

Listen(h) ==
  /\ state[h] = "starting"
  /\ state' = [state EXCEPT ![h] = "up"]
  /\ UNCHANGED <<hosts, stats>>

(* A crash leaves the address in etcd, and so does the end of the process  *)
(* in main, where the server waits for ever; the destructor, run when an   *)
(* embedding program stops the server, removes it.                         *)
Crash(h) ==
  /\ state[h] # "down"
  /\ state' = [state EXCEPT ![h] = "down"]
  /\ UNCHANGED <<hosts, stats>>

Shutdown(h) ==
  /\ state[h] = "up"
  /\ state' = [state EXCEPT ![h] = "down"]
  /\ hosts' = hosts \ {h}
  /\ UNCHANGED stats

(* The Coordinator takes an address out, or stores a response time.  The   *)
(* keys of response times are never removed.                               *)
Evict(h) ==
  /\ h \in hosts
  /\ hosts' = hosts \ {h}
  /\ UNCHANGED <<stats, state>>

StoreTime ==
  /\ stats' = TRUE
  /\ UNCHANGED <<hosts, state>>

Next == \/ StoreTime
        \/ \E h \in Host : Start(h) \/ Listen(h) \/ Crash(h) \/ Shutdown(h) \/ Evict(h)

Spec == Init /\ [][Next]_vars
=============================================================================
