------------------------------ MODULE DocStore ------------------------------
(***************************************************************************)
(* What an index promises its client: a set of <<id, vector number>> pairs *)
(* a search ranges over.  While a call of add is under way it only grows,  *)
(* by the vectors just received, each under an id of its own; between      *)
(* calls it only shrinks, by erasing ids, each with everything stored      *)
(* under it.  What was erased does not come back.                          *)
(***************************************************************************)
EXTENDS Naturals

CONSTANT Doc
VARIABLES
  found,     \* what a search can return
  received,  \* vectors received so far: they are numbered from 1
  adding     \* is a call of add under way?

Init == found = {} /\ received = 0 /\ adding = FALSE

CallAdd == ~adding /\ adding' = TRUE /\ UNCHANGED <<found, received>>
AddReturn == adding /\ adding' = FALSE /\ UNCHANGED <<found, received>>

AddVectors ==
  /\ adding /\ UNCHANGED adding
  /\ received' > received
  /\ found \subseteq found'
  /\ {v[2] : v \in found' \ found} = (received + 1)..received'
  /\ \A v \in found' \ found :
       v[1] \in Doc /\ \A w \in found' \ {v} : w[1] # v[1]

EraseIds(ds) == /\ ~adding
                /\ found' = {v \in found : v[1] \notin ds}
                /\ UNCHANGED <<received, adding>>

Next == CallAdd \/ AddReturn \/ AddVectors \/ \E ds \in SUBSET Doc : EraseIds(ds)

Spec == Init /\ [][Next]_<<found, received, adding>>
=============================================================================
