------------------------------ MODULE SlotAlloc ------------------------------
(***************************************************************************)
(* How a memory node reads the size of its memory (td_parse_size_bytes)    *)
(* and divides it into PRIME, CACHE and BACKUP slots (td_resolve_mn_slots  *)
(* and td_allocate_weighted_slots, src/config.c), and where a slot then    *)
(* lies in the region (src/layout.c).  A size or count is a size_t: sums   *)
(* and products are taken modulo 2^Width.                                  *)
(***************************************************************************)
EXTENDS Integers

CONSTANTS Width,         \* bits of a size_t
          HeaderBytes,   \* sizeof(td_region_header_t)
          SlotBytes,     \* sizeof(td_slot_t)
          Kilo,          \* 1024, the step from one unit of size to the next
          Magnitudes,    \* numbers an operator may write for mn_memory_size
          Units,         \* and the units behind them
          ManualCounts,  \* slot counts an operator may write in the config
          Replications   \* values of replication in the config

Word == 2 ^ Width
SizeT == 0 .. Word - 1

ASSUME SizesAssumption == /\ Width \in Nat
                          /\ HeaderBytes \in SizeT \ {0}
                          /\ SlotBytes \in SizeT \ 0 .. 3
                          /\ Kilo \in Nat \ {0}
                          /\ Magnitudes \subseteq SizeT
                          /\ Units \subseteq {"b", "kb", "mb", "gb"}
                          /\ ManualCounts \subseteq SizeT
                          /\ Replications \subseteq Int

(* A power of two is a positive number: stated for the proofs, which know  *)
(* nothing of exponentiation.                                              *)
ASSUME WordAssumption == Word \in Nat \ {0}

Buckets == {"prime", "cache", "backup"}
weight == [prime |-> 4, cache |-> 1, backup |-> 4]
priority == [prime |-> 0, cache |-> 1, backup |-> 2]

multiplier == [b |-> 1, kb |-> Kilo, mb |-> Kilo * Kilo, gb |-> Kilo * Kilo * Kilo]

VARIABLES pc,         \* "parse", "load", "share", "check", then "done" or "failed"
          cfg,        \* the configuration, with the counts resolved so far
          remaining,  \* slots left to the buckets that are not explicit
          allocated,  \* how many of them have been given
          remainder   \* what the division left over for each bucket

vars == <<pc, cfg, remaining, allocated, remainder>>

Sum(f) == f["prime"] + f["cache"] + f["backup"]

(* What the file says: a bucket the config does not name counts 0.         *)
Configs ==
    {[number |-> m, unit |-> u, memory |-> 0, replication |-> r, explicit |-> e,
      slots |-> [b \in Buckets |-> IF e[b] THEN manual[b] ELSE 0]] :
        m \in Magnitudes, u \in Units, r \in Replications, e \in [Buckets -> BOOLEAN],
        manual \in [Buckets -> ManualCounts]}

Weighted == {b \in Buckets : ~cfg.explicit[b]}

capacity_slots == (cfg.memory - HeaderBytes) \div SlotBytes

manual_slots == Sum(cfg.slots) % Word

weight_sum == Sum([b \in Buckets |-> IF b \in Weighted THEN weight[b] ELSE 0])

-----------------------------------------------------------------------------
(* Mutant: the product of number and unit is not checked.                  *)
TooLarge_Never == FALSE

(* td_parse_size_bytes: the size does not fit a size_t.                    *)
TooLarge == cfg.number > (Word - 1) \div multiplier[cfg.unit]

Parse ==
    /\ pc = "parse"
    /\ pc' = IF TooLarge THEN "failed" ELSE "load"
    /\ cfg' = IF TooLarge THEN cfg
              ELSE [cfg EXCEPT !.memory = (cfg.number * multiplier[cfg.unit]) % Word,
                               !.replication = IF @ <= 0 THEN 1 ELSE @]
    /\ UNCHANGED <<remaining, allocated, remainder>>

(* Mutant: the room the header takes is forgotten.                         *)
TooSmall_NoHeader == \/ cfg.memory <= HeaderBytes
                     \/ manual_slots * SlotBytes > cfg.memory

(* The memory is too small, or the explicit counts do not fit.             *)
TooSmall == \/ cfg.memory <= HeaderBytes
            \/ capacity_slots = 0
            \/ manual_slots > capacity_slots

Reject ==
    /\ pc = "load"
    /\ TooSmall
    /\ pc' = "failed"
    /\ UNCHANGED <<cfg, remaining, allocated, remainder>>

(* Nothing to divide, or nobody to give it to.                             *)
NothingToShare ==
    /\ pc = "load"
    /\ ~TooSmall
    /\ Weighted = {} \/ capacity_slots = manual_slots
    /\ pc' = "check"
    /\ UNCHANGED <<cfg, remaining, allocated, remainder>>

(* Each bucket that is not explicit gets its weighted share, rounded down. *)
Share ==
    LET rest == capacity_slots - manual_slots
        part == [b \in Buckets |-> IF b \in Weighted THEN (rest * weight[b]) % Word ELSE 0]
        given == [b \in Buckets |-> part[b] \div weight_sum]
    IN  /\ pc = "load"
        /\ ~TooSmall
        /\ Weighted # {} /\ rest > 0
        /\ pc' = "share"
        /\ cfg' = [cfg EXCEPT !.slots = [b \in Buckets |-> IF b \in Weighted THEN given[b] ELSE @[b]]]
        /\ remainder' = [b \in Buckets |-> part[b] % weight_sum]
        /\ remaining' = rest
        /\ allocated' = Sum(given)

(* Mutant: the largest remainder is not used up by the slot it earns.      *)
Spend_Keep(b) == remainder

(* The remainder of the bucket that has just been given a slot is spent.   *)
Spend(b) == [remainder EXCEPT ![b] = 0]

(* A left-over slot goes to the largest remainder, PRIME first.            *)
GiveOne ==
    /\ pc = "share"
    /\ allocated < remaining
    /\ \E best \in Weighted :
          /\ \A b \in Weighted \ {best} :
                \/ remainder[best] > remainder[b]
                \/ remainder[best] = remainder[b] /\ priority[best] < priority[b]
          /\ cfg' = [cfg EXCEPT !.slots[best] = (@ + 1) % Word]
          /\ remainder' = Spend(best)
    /\ allocated' = allocated + 1
    /\ UNCHANGED <<pc, remaining>>

AllGiven ==
    /\ pc = "share"
    /\ allocated >= remaining
    /\ pc' = "check"
    /\ UNCHANGED <<cfg, remaining, allocated, remainder>>

(* A node without PRIME slots, or with backups and no BACKUP slots, does   *)
(* not start.                                                              *)
Check ==
    /\ pc = "check"
    /\ pc' = IF \/ cfg.slots["prime"] = 0
                \/ cfg.replication > 1 /\ cfg.slots["backup"] = 0
             THEN "failed" ELSE "done"
    /\ UNCHANGED <<cfg, remaining, allocated, remainder>>

Init == /\ pc = "parse"
        /\ cfg \in Configs
        /\ remaining = 0
        /\ allocated = 0
        /\ remainder = [b \in Buckets |-> 0]

Next == Parse \/ Reject \/ NothingToShare \/ Share \/ GiveOne \/ AllGiven \/ Check

Spec == Init /\ [][Next]_vars

-----------------------------------------------------------------------------
(* The region the resolved counts make.                                    *)

td_region_kind_base_offset(kind) ==
    LET cache == (HeaderBytes + cfg.slots["prime"] * SlotBytes) % Word
    IN  CASE kind = "prime" -> HeaderBytes
          [] kind = "cache" -> cache
          [] kind = "backup" -> (cache + cfg.slots["cache"] * SlotBytes) % Word

td_region_slot_offset_for_index(kind, i) ==
    (td_region_kind_base_offset(kind) + i * SlotBytes) % Word

SlotIds == {id \in Buckets \X SizeT : id[2] < cfg.slots[id[1]]}
OffsetOf(id) == td_region_slot_offset_for_index(id[1], id[2])

-----------------------------------------------------------------------------
(* Properties.                                                             *)

(* A node that starts has room for its slots: every slot lies behind the   *)
(* header and inside the mapping td_region_open makes, and no two share a  *)
(* byte, whatever mixture of explicit and weighted counts it was given     *)
(* (manual_slots > capacity_slots in td_resolve_mn_slots).                 *)
RegionFits ==
    pc = "done" =>
        \A x \in SlotIds :
            /\ OffsetOf(x) >= HeaderBytes
            /\ OffsetOf(x) + SlotBytes <= cfg.memory
            /\ \A y \in SlotIds \ {x} : \/ OffsetOf(x) + SlotBytes <= OffsetOf(y)
                                        \/ OffsetOf(y) + SlotBytes <= OffsetOf(x)

(* All of the memory the operator asked for is used, but for less than a   *)
(* slot, once a bucket may take it, and the rounding costs no bucket a     *)
(* whole slot: each gets its exact share rounded down or up                *)
(* (td_parse_size_bytes, and the largest-remainder loop of                 *)
(* td_allocate_weighted_slots).                                            *)
FairShares ==
    pc = "done" /\ allocated > 0 =>
        /\ Sum(cfg.slots) = (cfg.number * multiplier[cfg.unit] - HeaderBytes) \div SlotBytes
        /\ \A b \in Weighted :
              /\ cfg.slots[b] * weight_sum > remaining * weight[b] - weight_sum
              /\ cfg.slots[b] * weight_sum < remaining * weight[b] + weight_sum
=============================================================================
