----------------------------- MODULE MCRdmaSlot -----------------------------
(* An instance of RdmaSlot.  key_hash, tie_breaker and flags, which lie    *)
(* next to each other between the visible epoch and the rest, are one unit.*)
EXTENDS RdmaSlot, TLC

MCUnits == {{"guard"}, {"visible"}, {"hash", "tie", "valid", "tomb"}, {"data"}, {"mac"}}
MCTie(k, v, e) == e
MCSymmetry == Permutations(Callers)
=============================================================================
