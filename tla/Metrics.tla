------------------------------ MODULE Metrics ------------------------------
(***************************************************************************)
(* The metrics of a service: app/include/utils/PrometheusExposer.h, whose  *)
(* counters and gauges the concurrent request handlers of a server share,  *)
(* and the vectors_count gauge that a write request of app/src/Writer.cpp  *)
(* reads, changes and writes back.                                         *)
(*                                                                         *)
(* Every service has an exposer of its own.  Write requests exclude each   *)
(* other, requests of a Searcher or Coordinator do not; the threads here   *)
(* handle both kinds, which covers each service.                           *)
(*                                                                         *)
(* A critical section of the exposer is one step, taken when its lock is   *)
(* free; a thread that keeps the lock between two steps is its holder.     *)
(* The registry of prometheus-cpp is external: a family it has created     *)
(* stays, and Add gives the metric of a label set, new ones being 0.       *)
(* Counters and gauges are doubles; the counter grows by one per request   *)
(* and is taken to stay exact, the gauge, which can wrap below 0, is not.  *)
(***************************************************************************)
EXTENDS Integers, FiniteSets

CONSTANTS
  Thread,    \* threads that run request handlers
  NoThread,  \* no holder
  SizeMod,   \* 2^w for the width w of size_t
  ExactMax,  \* 2^53: doubles hold every integer up to it
  MaxCalls   \* bound: requests handled

ASSUME MetricsAssumption ==
  /\ SizeMod \in Nat \ {0, 1} /\ ExactMax \in 1..(SizeMod - 1)
  /\ MaxCalls \in Nat /\ NoThread \notin Thread

VARIABLES
  lock,         \* PrometheusExposer::lock
  runner_lock,  \* WriterImpl::runner_lock
  families,     \* keys of counter_families and gauge_families
  value,        \* the metrics of the families; a gauge is a double
  at,           \* of each thread: "idle", "find", "add", "set", "get"
  name,         \* of each thread: the metric it is at
  op,           \* of each thread: "other" requests, or "add", "delete" of a writer
  vec_cnt,      \* of each thread: what it will store in the gauge
  calls,        \* requests so far
  counted,      \* history: increments made by calls that returned
  stored,       \* history: vectors added less deletes
  inexact       \* history: a request has taken the gauge below 0 or over ExactMax

thread == <<at, name, op, vec_cnt>>
tallies == <<counted, stored, inexact>>
metrics_vars == <<lock, runner_lock, families, value, thread, calls, tallies>>

Metric == {"requests_count", "vectors_count"}

MetricsInit ==
  /\ lock = NoThread /\ runner_lock = NoThread /\ families = {}
  /\ value = [m \in Metric |-> 0]
  /\ at = [t \in Thread |-> "idle"] /\ name = [t \in Thread |-> "requests_count"]
  /\ op = [t \in Thread |-> "other"] /\ vec_cnt = [t \in Thread |-> 0]
  /\ calls = 0 /\ counted = 0 /\ stored = 0 /\ inexact = FALSE
-----------------------------------------------------------------------------
(* Mutant: write requests do not exclude each other.                       *)
HandleUnlocked(t, o) ==
  /\ at[t] = "idle" /\ calls < MaxCalls /\ calls' = calls + 1
  /\ at' = [at EXCEPT ![t] = "find"] /\ op' = [op EXCEPT ![t] = o]
  /\ name' = [name EXCEPT ![t] = "requests_count"]
  /\ UNCHANGED <<lock, runner_lock, families, value, vec_cnt, tallies>>

(* Every handler starts with IncrementCounter("requests_count", 1); that   *)
(* of a write request has runner_lock by then, and keeps it.               *)
Handle(t, o) ==
  /\ at[t] = "idle" /\ calls < MaxCalls /\ calls' = calls + 1
  /\ at' = [at EXCEPT ![t] = "find"] /\ op' = [op EXCEPT ![t] = o]
  /\ name' = [name EXCEPT ![t] = "requests_count"]
  /\ IF o = "other" THEN UNCHANGED runner_lock
                    ELSE runner_lock = NoThread /\ runner_lock' = t
  /\ UNCHANGED <<lock, families, value, vec_cnt, tallies>>

(* The doubles up to 2^w, and those nearest to a size_t; the largest ones  *)
(* round up to 2^w.  A double of 2^w or more has no size_t: the conversion *)
(* back is undefined.                                                      *)
Doubles == {v \in 0..SizeMod : v <= ExactMax \/ \E m \in 0..ExactMax, k \in 1..SizeMod : v = m * 2^k}
Distance(u, v) == IF u < v THEN v - u ELSE u - v
ToGauge(n) == {v \in Doubles : \A u \in Doubles : Distance(n, v) <= Distance(n, u)}
FromGauge(v) == IF v < SizeMod THEN {v} ELSE 0..(SizeMod - 1)

(* Increment or Set on the metric, and the way back to the handler.        *)
Update(t) ==
  IF name[t] = "requests_count"
  THEN /\ value' = [value EXCEPT !["requests_count"] = @ + 1]
       /\ counted' = counted + 1
       /\ at' = [at EXCEPT ![t] = IF op[t] = "other" THEN "idle" ELSE "get"]
       /\ UNCHANGED <<runner_lock, stored>>
  ELSE /\ \E v \in ToGauge(vec_cnt[t]) : value' = [value EXCEPT !["vectors_count"] = v]
       /\ stored' = IF op[t] = "add" THEN stored + 1 ELSE stored - 1
       /\ at' = [at EXCEPT ![t] = "idle"]
       /\ runner_lock' = NoThread /\ UNCHANGED counted

(* Mutant: AddCounter is called with the lock held.                        *)
FindNested(t) ==
  /\ at[t] = "find" /\ lock = NoThread
  /\ IF name[t] \in families
     THEN Update(t) /\ UNCHANGED lock
     ELSE /\ at' = [at EXCEPT ![t] = "add"] /\ lock' = t
          /\ UNCHANGED <<value, runner_lock, counted, stored>>
  /\ UNCHANGED <<families, name, op, vec_cnt, calls, inexact>>

(* IncrementCounter and SetGauge: a family that is there is used in the    *)
(* first section.                                                          *)
Find(t) ==
  /\ at[t] = "find" /\ lock = NoThread
  /\ IF name[t] \in families
     THEN Update(t)
     ELSE /\ at' = [at EXCEPT ![t] = "add"]
          /\ UNCHANGED <<value, runner_lock, counted, stored>>
  /\ UNCHANGED <<lock, families, name, op, vec_cnt, calls, inexact>>

(* Mutant: the family starts afresh although another thread created it.    *)
AddFamilyAgain(t) ==
  /\ at[t] = "add" /\ lock = NoThread
  /\ families' = families \cup {name[t]}
  /\ value' = [value EXCEPT ![name[t]] = 0]
  /\ at' = [at EXCEPT ![t] = "set"]
  /\ UNCHANGED <<lock, runner_lock, name, op, vec_cnt, calls, tallies>>

(* AddCounter and AddGauge look again, since another thread may have come  *)
(* first, and create the family with a metric of 0.                        *)
AddFamily(t) ==
  /\ at[t] = "add" /\ lock = NoThread
  /\ families' = families \cup {name[t]}
  /\ value' = [value EXCEPT ![name[t]] = IF name[t] \in families THEN @ ELSE 0]
  /\ at' = [at EXCEPT ![t] = "set"]
  /\ UNCHANGED <<lock, runner_lock, name, op, vec_cnt, calls, tallies>>

SetValue(t) ==
  /\ at[t] = "set" /\ lock = NoThread
  /\ Update(t)
  /\ UNCHANGED <<lock, families, name, op, vec_cnt, calls, inexact>>

(* ProcessWriteRequest reads the gauge, adds or erases, and goes on to     *)
(* SetGauge with one more or one less, modulo 2^w.                         *)
GetGaugeValue(t) ==
  /\ at[t] = "get" /\ lock = NoThread
  /\ \E v \in IF "vectors_count" \in families THEN FromGauge(value["vectors_count"]) ELSE {0} :
       /\ vec_cnt' = [vec_cnt EXCEPT ![t] = (IF op[t] = "add" THEN v + 1 ELSE v - 1) % SizeMod]
       /\ inexact' = (inexact \/ (op[t] = "add" /\ v >= ExactMax) \/ (op[t] = "delete" /\ v = 0))
  /\ at' = [at EXCEPT ![t] = "find"] /\ name' = [name EXCEPT ![t] = "vectors_count"]
  /\ UNCHANGED <<lock, runner_lock, families, value, op, calls, counted, stored>>

(* A request that names no index, or meets an unreachable etcd, ends       *)
(* before it comes to the gauge.                                           *)
ReturnEarly(t) ==
  /\ at[t] = "get"
  /\ at' = [at EXCEPT ![t] = "idle"] /\ runner_lock' = NoThread
  /\ UNCHANGED <<lock, families, value, name, op, vec_cnt, calls, tallies>>

Step(t) == Find(t) \/ AddFamily(t) \/ SetValue(t) \/ GetGaugeValue(t) \/ ReturnEarly(t)

MetricsNext == \E t \in Thread : Step(t) \/ \E o \in {"other", "add", "delete"} : Handle(t, o)

MetricsSpec == MetricsInit /\ [][MetricsNext]_metrics_vars

(* A thread that can go on does.                                           *)
MetricsFairSpec == MetricsSpec /\ \A t \in Thread : WF_metrics_vars(Step(t))
-----------------------------------------------------------------------------
(* Types, and that the two locks exclude: a thread at the gauge of the     *)
(* Writer holds runner_lock.                                               *)
MetricsTypeOK ==
  /\ lock \in Thread \cup {NoThread} /\ runner_lock \in Thread \cup {NoThread}
  /\ families \in SUBSET Metric /\ value \in [Metric -> Nat]
  /\ at \in [Thread -> {"idle", "find", "add", "set", "get"}]
  /\ name \in [Thread -> Metric] /\ op \in [Thread -> {"other", "add", "delete"}]
  /\ vec_cnt \in [Thread -> 0..(SizeMod - 1)] /\ calls \in Nat
  /\ counted \in Nat /\ stored \in Int /\ inexact \in BOOLEAN
  /\ \A t \in Thread : at[t] # "idle" /\ op[t] # "other" => runner_lock = t

(* The counter is the number of increments that were made: none is lost or *)
(* made twice although the family is looked up, created and used in three  *)
(* separate sections (IncrementCounter, AddCounter).                       *)
CountsExact == value["requests_count"] = counted

(* The gauge is the number of vectors added less the deletes, although it  *)
(* is read and written in separate sections, as a double, unless it went   *)
(* below 0 or over what doubles hold exactly (ProcessWriteRequest).        *)
GaugeExact == ~inexact => value["vectors_count"] = stored

(* Every request gets through the metrics: no section waits for a lock its *)
(* own thread holds.                                                       *)
CallReturns == \A t \in Thread : at[t] # "idle" ~> at[t] = "idle"
=============================================================================
