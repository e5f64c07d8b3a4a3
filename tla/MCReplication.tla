---------------------------- MODULE MCReplication ----------------------------
(* Instances of Replication for TLC.                                       *)
EXTENDS Replication, TLC

CONSTANTS d1, d2, s1, s2

OneDoc == {d1}
TwoDocs == {d1, d2}
OneSearcher == {s1}
TwoSearchers == {s1, s2}
Symmetry == Permutations(Doc) \cup Permutations(Searcher)
=============================================================================
