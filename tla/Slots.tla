-------------------------------- MODULE Slots --------------------------------
(***************************************************************************)
(* The slot of a region and the computations the client makes on slots:    *)
(* the tests on one slot, the linear probe, the construction of a slot and *)
(* the evaluation of the backups' votes (src/cluster.c, src/crypto.c).     *)
(*                                                                         *)
(* A slot is guard_epoch | visible_epoch | key_hash | tie_breaker | flags  *)
(* | value_len | iv | mac | ciphertext.  The value, its length, the iv and *)
(* the mac are one field, data: the body of a slot is written in one       *)
(* memcpy under the region's lock, so the mac of a body that can be read   *)
(* always matches it.  flags are the two Booleans valid and tomb.          *)
(***************************************************************************)
EXTENDS Integers, FiniteSets

CONSTANTS Nil,          \* no value: what an empty slot and a tombstone hold
          MaxTie,       \* UINT64_MAX, the largest tie-breaker
          Tie(_, _, _)  \* td_crypto_tie_breaker: digest of key, value, epoch

(* A slot of a fresh region: td_region_open fills the region with zeroes.  *)
EmptySlot == [guard |-> 0, visible |-> 0, hash |-> 0, tie |-> 0,
              valid |-> FALSE, tomb |-> FALSE, data |-> Nil]

(* The two epochs differ: a body was written and its CAS is not in place.  *)
Torn(slot) == slot.guard # slot.visible

td_slot_is_empty(slot) == /\ slot.guard = 0
                          /\ slot.visible = 0
                          /\ slot.hash = 0
                          /\ ~slot.valid
                          /\ ~slot.tomb

td_slot_present(slot, hash) == /\ ~Torn(slot)
                               /\ slot.hash = hash
                               /\ slot.valid
                               /\ ~slot.tomb

(* The slot a writer of value v (Nil for a delete) under key k proposes.   *)
td_crypto_make_slot(k, hash, v, tombstone, epoch) ==
    [guard |-> epoch, visible |-> epoch, hash |-> hash,
     tie |-> Tie(k, v, epoch), valid |-> TRUE, tomb |-> tombstone, data |-> v]

(***************************************************************************)
(* td_probe_slot.  A probe record holds the number of slots examined and   *)
(* the candidate: its validity, index and slot as read, and whether the    *)
(* candidate is a slot of the key itself (found).  A probe that ends with  *)
(* ok = FALSE has returned -1.                                             *)
(***************************************************************************)
ProbeStart == [i |-> 0, ok |-> FALSE, at |-> 0, slot |-> EmptySlot,
               found |-> FALSE]

(* Mutant: a torn slot of the key is taken for a record.                   *)
Matches_Torn(slot, hash) == slot.valid /\ slot.hash = hash

(* The slot holds this very key, live or deleted.                          *)
Matches(slot, hash) == ~Torn(slot) /\ slot.valid /\ slot.hash = hash

(* The slot may be taken over by another key.                              *)
Reusable(slot) == ~Torn(slot) /\ ((slot.valid /\ slot.tomb) \/ td_slot_is_empty(slot))

(* The probe after the slot with index at has been read.                   *)
Examine(p, at, slot, hash) ==
    IF Matches(slot, hash)
    THEN [i |-> p.i + 1, ok |-> TRUE, at |-> at, slot |-> slot, found |-> TRUE]
    ELSE IF Reusable(slot) /\ ~p.ok
    THEN [i |-> p.i + 1, ok |-> TRUE, at |-> at, slot |-> slot, found |-> FALSE]
    ELSE [p EXCEPT !.i = p.i + 1]

(* The probe p, whose last slot read is slot, returns to its caller.       *)
ProbeOver(p, slot, count) == p.found \/ td_slot_is_empty(slot) \/ p.i = count

(***************************************************************************)
(* td_evaluate_votes.  votes[j] is the vote of the j-th backup.  The       *)
(* smallest tie-breaker other than zero among the lost votes starts at     *)
(* UINT64_MAX in the code.                                                 *)
(***************************************************************************)
NoVote == [success |-> FALSE, tie |-> 0]

Won(votes) == {j \in DOMAIN votes : votes[j].success}
Lost(votes) == {j \in DOMAIN votes : ~votes[j].success}

td_evaluate_votes(votes, my_tie) ==
    IF Lost(votes) = {} THEN 1
    ELSE IF 2 * Cardinality(Won(votes)) > Cardinality(DOMAIN votes) THEN 2
    ELSE IF \A t \in {votes[j].tie : j \in Lost(votes)} \cup {MaxTie} :
               t # 0 => my_tie < t
    THEN 3
    ELSE 0
=============================================================================
