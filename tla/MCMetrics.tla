------------------------------ MODULE MCMetrics ------------------------------
(***************************************************************************)
(* The metrics on small instances: see the configurations.                 *)
(***************************************************************************)
EXTENDS Metrics, TLC

Symmetry == Permutations(Streams)
=============================================================================
