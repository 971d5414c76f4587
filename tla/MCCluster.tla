------------------------------ MODULE MCCluster ------------------------------
(* Instances of Cluster for TLC.                                           *)
EXTENDS Cluster, TLC

CONSTANTS Prime, Cache, Backup  \* slots of each kind on every memory node

(* Keys are their own hashes, but for keys from 100 on, which collide.     *)
MCHash == [k \in Keys |-> k % 100]

MCSlotCount == [n \in 0 .. NodeCount - 1 |->
                  [prime |-> Prime, cache |-> Cache, backup |-> Backup]]

(* Which of two values has the smaller tie-breaker depends on the epoch;   *)
(* a tombstone's tie-breaker is the largest.                               *)
MCTie(k, v, e) == CASE v = "a" -> 1 + (e % 2)
                    [] v = "b" -> 2 - (e % 2)
                    [] OTHER -> MaxTie

Symmetry == Permutations(CN)
=============================================================================
