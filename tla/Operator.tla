------------------------------ MODULE Operator ------------------------------
(***************************************************************************)
(* The Kubernetes operator: the Reconcile loop of kube-operator/internal/  *)
(* controller/vecodexset_controller.go for one VecodexSet.                 *)
(*                                                                         *)
(* The API server, the garbage collector and controller-runtime (its work  *)
(* queue, its cached client and CreateOrUpdate) are external and modelled  *)
(* as far as the controller uses them: reads come from a cache that lags,  *)
(* a write based on a stale read is refused, an error puts the request     *)
(* back on the queue, and one worker handles it.  A VecodexSet or object   *)
(* is told by the version of the spec it holds; versions only grow.        *)
(***************************************************************************)
EXTENDS Naturals, Sequences

CONSTANTS
  None,         \* no object
  MaxVersions,  \* bound: specs the user writes
  MaxFaults,    \* bound: failed API calls and crashes of the operator
  MaxDrifts     \* bound: changes that others make to the objects

ASSUME OperatorAssumption ==
  /\ MaxVersions \in Nat /\ MaxFaults \in Nat /\ MaxDrifts \in Nat
  /\ None \notin [uid : Nat, gen : Nat]
  /\ None \notin [owner : Nat, gen : Nat]

(* What Reconcile makes, in this order.                                    *)
Stages == <<"coordinator", "writer", "searcher", "ingress">>
Names == {"coordinator", "writer", "searcher", "ingress"}

VARIABLES
  set,       \* API server: the VecodexSet [uid, gen]
  objects,   \* API server: name -> [owner, gen]
  seen,      \* cache: the VecodexSet
  cache,     \* cache: the objects
  queued,    \* is the request in the work queue?
  stage,     \* Reconcile: next stage, 0 when it does not run
  vecodex,   \* Reconcile: the VecodexSet it has read
  version,   \* specs written so far
  faults,    \* failed API calls and crashes so far
  drifts,    \* changes made by others so far
  drifted    \* history: objects changed by others since Reconcile wrote them

api == <<set, objects>>
controller == <<seen, cache, queued, stage, vecodex>>
history == <<version, faults, drifts, drifted>>
vars == <<api, controller, history>>

Init ==
  /\ set = None /\ objects = [o \in Names |-> None]
  /\ seen = None /\ cache = [o \in Names |-> None]
  /\ queued = FALSE /\ stage = 0 /\ vecodex = None
  /\ version = 0 /\ faults = 0 /\ drifts = 0 /\ drifted = {}
-----------------------------------------------------------------------------
(* The user creates, edits and deletes the VecodexSet.                     *)
WriteSet ==
  /\ version < MaxVersions /\ version' = version + 1
  /\ set' = [uid |-> IF set = None THEN version' ELSE set.uid, gen |-> version']
  /\ UNCHANGED <<objects, controller, faults, drifts, drifted>>

DeleteSet ==
  /\ set # None /\ set' = None
  /\ UNCHANGED <<objects, controller, history>>

(* Somebody else edits or deletes an object.                               *)
Drift(o) ==
  /\ drifts < MaxDrifts /\ drifts' = drifts + 1
  /\ objects[o] # None
  /\ \/ objects' = [objects EXCEPT ![o] = None]
     \/ objects' = [objects EXCEPT ![o] = [owner |-> objects[o].owner, gen |-> 0]]
  /\ drifted' = drifted \cup {o}
  /\ UNCHANGED <<set, controller, version, faults>>

(* Objects whose owner is gone are deleted.                                *)
CollectGarbage(o) ==
  /\ objects[o] # None
  /\ set # None => set.uid # objects[o].owner
  /\ objects' = [objects EXCEPT ![o] = None]
  /\ UNCHANGED <<set, controller, history>>

(* For(&VecodexSet{}): an event of the set enters the cache and queues the *)
(* request; objects enter the cache without an event, Owns being absent.   *)
SyncSet ==
  /\ seen # set /\ seen' = set /\ queued' = TRUE
  /\ UNCHANGED <<api, cache, stage, vecodex, history>>

SyncObject(o) ==
  /\ cache[o] # objects[o]
  /\ cache' = [cache EXCEPT ![o] = objects[o]]
  /\ UNCHANGED <<api, seen, queued, stage, vecodex, history>>

(* The cache repeats every VecodexSet from time to time.                   *)
Resync ==
  /\ seen # None /\ ~queued /\ queued' = TRUE
  /\ UNCHANGED <<api, seen, cache, stage, vecodex, history>>

(* A new process waits for its caches, which a consistent list of the API  *)
(* server fills: both are current when it starts, and the sets are queued. *)
Restart ==
  /\ faults < MaxFaults /\ faults' = faults + 1
  /\ seen' = set /\ cache' = objects /\ queued' = (set # None)
  /\ stage' = 0 /\ vecodex' = None
  /\ UNCHANGED <<api, version, drifts, drifted>>
-----------------------------------------------------------------------------
(* Mutant: the set is read from the cache or from the API server.          *)
ReconcileMixed ==
  /\ queued /\ stage = 0 /\ queued' = FALSE
  /\ vecodex' \in {seen, set}
  /\ stage' = IF vecodex' = None THEN 0 ELSE 1
  /\ UNCHANGED <<api, seen, cache, history>>

(* Reconcile gets the request and reads the set; one that is not found is  *)
(* left to the garbage collector.                                          *)
Reconcile ==
  /\ queued /\ stage = 0 /\ queued' = FALSE
  /\ vecodex' = seen
  /\ stage' = IF seen = None THEN 0 ELSE 1
  /\ UNCHANGED <<api, seen, cache, history>>

(* Get fails otherwise: the error is returned and the request stays.       *)
ReconcileReadFault ==
  /\ queued /\ stage = 0
  /\ faults < MaxFaults /\ faults' = faults + 1
  /\ UNCHANGED <<api, controller, version, drifts, drifted>>

(* Mutant: the object keeps the set's first spec.                          *)
DesiredOnce(v) == [owner |-> v.uid, gen |-> v.uid]

(* The mutate functions of reconcileDeployment and reconcileIngress: the   *)
(* part of the spec they copy, and the controller reference.               *)
Desired(v) == [owner |-> v.uid, gen |-> v.gen]

Current == Stages[stage]

(* Mutant: an object that exists is left alone.                            *)
NoCallExists == cache[Current] # None

(* CreateOrUpdate: an object the cache does not have is created, another   *)
(* one updated from what the cache has.  A Deployment comes back from the  *)
(* API server with defaults the template does not have and is always       *)
(* written; an Ingress that is as desired in the cache is left alone.      *)
NoCall == Current = "ingress" /\ cache[Current] = Desired(vecodex)
Accepted == cache[Current] = objects[Current]
Written == [objects EXCEPT ![Current] = Desired(vecodex)]

(* Mutant: an error ends the request.                                      *)
FailedDropped == stage' = 0 /\ vecodex' = None /\ UNCHANGED queued

(* The error is returned at once, and the request queued again.            *)
Failed == stage' = 0 /\ vecodex' = None /\ queued' = TRUE

Succeeded ==
  /\ stage' = IF stage = Len(Stages) THEN 0 ELSE stage + 1
  /\ vecodex' = IF stage = Len(Stages) THEN None ELSE vecodex
  /\ UNCHANGED queued

ReconcileObject ==
  /\ stage > 0 /\ (NoCall \/ Accepted)
  /\ IF NoCall THEN UNCHANGED <<objects, drifted>>
               ELSE objects' = Written /\ drifted' = drifted \ {Current}
  /\ Succeeded
  /\ UNCHANGED <<set, seen, cache, version, faults, drifts>>

(* AlreadyExists, NotFound or a conflict; SetControllerReference may also  *)
(* refuse an object that an earlier set of the name owns.                  *)
ReconcileRefused ==
  /\ stage > 0
  /\ \/ ~NoCall /\ ~Accepted
     \/ cache[Current] # None /\ cache[Current].owner # vecodex.uid
  /\ Failed
  /\ UNCHANGED <<api, seen, cache, history>>

(* The API server does not answer, before or after it did the write.       *)
ReconcileFault ==
  /\ stage > 0 /\ ~NoCall
  /\ faults < MaxFaults /\ faults' = faults + 1
  /\ \/ UNCHANGED <<objects, drifted>>
     \/ Accepted /\ objects' = Written /\ drifted' = drifted \ {Current}
  /\ Failed
  /\ UNCHANGED <<set, seen, cache, version, drifts>>
-----------------------------------------------------------------------------
ReconcileStep == \/ Reconcile \/ ReconcileReadFault
                 \/ ReconcileObject \/ ReconcileRefused \/ ReconcileFault

Next == \/ WriteSet \/ DeleteSet \/ SyncSet \/ Resync \/ Restart
        \/ \E o \in Names : Drift(o) \/ CollectGarbage(o) \/ SyncObject(o)
        \/ ReconcileStep

Spec == Init /\ [][Next]_vars

(* The worker runs, and watches and garbage collector make progress.  The  *)
(* resync of the cache comes every ten hours.                              *)
FairSpec == /\ Spec
            /\ WF_vars(ReconcileStep) /\ WF_vars(SyncSet)
            /\ \A o \in Names : WF_vars(CollectGarbage(o)) /\ WF_vars(SyncObject(o))
-----------------------------------------------------------------------------
Sets == [uid : Nat, gen : Nat] \cup {None}
Managed == [owner : Nat, gen : Nat] \cup {None}

(* Types; Reconcile has read a set while it runs.                          *)
TypeOK ==
  /\ set \in Sets /\ objects \in [Names -> Managed]
  /\ seen \in Sets /\ cache \in [Names -> Managed]
  /\ queued \in BOOLEAN /\ stage \in 0..Len(Stages) /\ vecodex \in Sets
  /\ version \in Nat /\ faults \in Nat /\ drifts \in Nat
  /\ drifted \in SUBSET Names
  /\ stage > 0 => vecodex # None

Match(o) ==
  IF set = None THEN objects[o] = None
  ELSE objects[o] # None /\ objects[o].owner = set.uid /\ objects[o].gen = set.gen

(* Does a run at stage n still come to o?                                  *)
Remaining(o, n) == \E m \in DOMAIN Stages : m >= n /\ n > 0 /\ Stages[m] = o

(* No change is forgotten: an object that differs from what the set asks   *)
(* for is going to be looked at, by a run that has not come to it yet or   *)
(* one that is queued, or the set has changed unseen.  Only what others    *)
(* changed may go unnoticed.  The queue, the early returns of Reconcile    *)
(* and the refused writes leave nothing behind.                            *)
NothingForgotten ==
  set # None => \A o \in Names :
    Match(o) \/ o \in drifted \/ queued \/ seen # set \/ Remaining(o, stage)

(* However far each cache lags while the process runs, Reconcile never     *)
(* takes an object back to an older spec than the one it has.              *)
NoRollback ==
  [][\A o \in Names : objects[o] # None /\ objects'[o] # None /\ drifts' = drifts
       => objects'[o].gen >= objects[o].gen]_vars

(* Once the user leaves the set alone, and calls stop failing, every       *)
(* object is and stays as the set says, or gone with it, unless others     *)
(* changed it.                                                             *)
Converges == <>[](\A o \in Names : Match(o) \/ (set # None /\ o \in drifted))

(* If the cache repeats the set from time to time, what others changed is  *)
(* repaired as well.                                                       *)
Repaired == WF_vars(Resync) => <>[](\A o \in Names : Match(o))
=============================================================================
