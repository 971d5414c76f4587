----------------------------- MODULE MCClusterKV -----------------------------
(* Instances of ClusterKV for TLC: one client at a time.                   *)
EXTENDS ClusterKV, MCCluster
=============================================================================
