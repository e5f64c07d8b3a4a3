---------------------------- MODULE MCFaissIndex ----------------------------
(* An instance of FaissIndex for TLC.                                      *)
EXTENDS FaissIndex

CONSTANTS d1, d2

TwoDocs == {d1, d2}
Symmetry == Permutations(Doc)
=============================================================================
