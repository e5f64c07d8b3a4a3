----------------------------- MODULE MCOperator -----------------------------
(* Instances of Operator for TLC.                                          *)
EXTENDS Operator
=============================================================================
