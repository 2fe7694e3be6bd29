----------------------------- MODULE MCCluster -----------------------------
(* Cluster for TLC. *)
EXTENDS Cluster
=============================================================================
