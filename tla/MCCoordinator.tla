--------------------------- MODULE MCCoordinator ---------------------------
(* Instances of Coordinator for TLC: h1 serves both shards, h2 only one.   *)
EXTENDS Coordinator, TLC

CONSTANTS a, b, h1, h2

TwoShards == {a, b}
TwoHosts == {h1, h2}
Configured == {<<a, h1>>, <<b, h1>>, <<b, h2>>}
============================================================================
