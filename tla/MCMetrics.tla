----------------------------- MODULE MCMetrics -----------------------------
(* An instance of Metrics for TLC.                                         *)
EXTENDS Metrics

CONSTANTS t1, t2, t3

ThreeThreads == {t1, t2, t3}
============================================================================
