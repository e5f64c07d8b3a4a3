----------------------------- MODULE MCMerging -----------------------------
(* An instance of Merging for TLC.                                         *)
EXTENDS Merging

CONSTANTS d1, d2, d3

ShortAnswers == BoundedSeq({d1, d2, d3}, 3)
Symmetry == Permutations({d1, d2, d3})
============================================================================
