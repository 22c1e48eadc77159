--------------------------- MODULE MCTrafficSync ---------------------------
(* Instances of TrafficSync for TLC. *)
EXTENDS TrafficRefinement, TLC

\* The callers of SyncTraffic are interchangeable.
Symmetry == Permutations(Passes)
=============================================================================
