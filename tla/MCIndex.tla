------------------------------- MODULE MCIndex -------------------------------
(* Instances of Index for TLC.                                             *)
EXTENDS Index, TLC

CONSTANTS d1, d2, d3

TwoDocs == {d1, d2}
ThreeDocs == {d1, d2, d3}
Symmetry == Permutations(Doc)
=============================================================================
