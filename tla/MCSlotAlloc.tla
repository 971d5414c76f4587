----------------------------- MODULE MCSlotAlloc -----------------------------
(* Instances of SlotAlloc for TLC: a size_t of a few bits.                 *)
EXTENDS SlotAlloc

CONSTANTS MaxMagnitude, Smallest, Largest

(* Every number up to MaxMagnitude.                                        *)
MCMagnitudes == 0 .. MaxMagnitude

(* Small counts, and the largest ones a size_t holds.                      *)
MCManualCounts == 0 .. Smallest \cup Word - Largest .. Word - 1
=============================================================================
