---------------------------- MODULE MCPlacement ----------------------------
(* Instances of Placement for TLC.                                         *)
EXTENDS Placement, TLC

CONSTANTS a, b

TwoShards == {a, b}
Times == {0, 3, 16}
Symmetry == Permutations(Shard)
============================================================================
