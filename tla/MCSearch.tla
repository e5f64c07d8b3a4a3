------------------------------ MODULE MCSearch ------------------------------
(* An instance of Search, and of Index under it, for TLC.                  *)
EXTENDS Search

ThreeDocs == 1..3
TwoDistances == 0..1
=============================================================================
