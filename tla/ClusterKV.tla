------------------------------ MODULE ClusterKV ------------------------------
(***************************************************************************)
(* The cluster seen by one client at a time: the store its slots stand     *)
(* for, and what is true of replicas and cache between commands.           *)
(***************************************************************************)
EXTENDS Cluster

(* The memory with the slot under commit as it was when it was probed: its *)
(* body is written before the CAS that makes it count.                     *)
Settled ==
    [a \in Addr |->
        IF \E c \in CN : cn[c].pc = "primeCas" /\ Dest(cn[c]) = a
        THEN (CHOOSE s \in {cn[c] : c \in CN} : s.pc = "primeCas" /\ Dest(s) = a).prime.slot
        ELSE mem[a]]

(* The slot td_probe_slot would find for key k, EmptySlot if none.         *)
Lookup(m, n, kind, k) ==
    LET At(d) == m[ChainAt(n, kind, Hash[k], d)]
        stops == {d \in 0 .. SlotCount[n][kind] - 1 :
                     Matches(At(d), Hash[k]) \/ td_slot_is_empty(At(d))}
        first == CHOOSE d \in stops : \A d2 \in stops : d <= d2
    IN  IF stops = {} THEN EmptySlot ELSE At(first)

PrimeSlot(m, k) == Lookup(m, td_primary_session(k), "prime", k)
BackupSlot(k, j) == Lookup(mem, td_replica_session(k, j), "backup", k)
CacheSlot(k) == Lookup(mem, td_primary_session(k), "cache", k)

Live(slot) == slot.valid /\ ~slot.tomb

(* The refinement mapping.                                                 *)
Store == LET m == Settled
         IN  [k \in Keys |-> LET p == PrimeSlot(m, k) IN IF Live(p) THEN p.data ELSE Nil]
UnderWay == [c \in CN |-> IF cn[c].pc \in {"off", "idle"} \cup EvictPcs THEN NoOp
                                                                     ELSE cn[c].op]
Done == [c \in CN |-> Committed(cn[c])]

(* What evict answers says nothing of the store.                           *)
Answers == [c \in CN |-> LET r == IF cn[c].op.kind = "evict" THEN NoReply ELSE cn[c].reply
                        IN  [status |-> r.status, val |-> r.val]]

KV == INSTANCE KVStore WITH Clients <- CN, NoRequest <- NoOp, store <- Store,
                            req <- UnderWay, done <- Done, ans <- Answers

(* A client alone on the cluster gets from read, write, update and delete  *)
(* what a map would give it: td_cluster_read_value and                     *)
(* td_cluster_write_value implement KVStore.                               *)
ImplementsKV == KV!Spec

Resting == \A c \in CN : cn[c].pc \in {"off", "idle"}

(* Between commands each backup of a key holds the very slot the primary   *)
(* holds, and no value of a key that has none (the backup loop and the     *)
(* repair loop of td_cluster_write_value).                                 *)
ReplicasAgree ==
    Resting => \A k \in Keys, j \in Backups :
        LET p == PrimeSlot(mem, k)
            b == BackupSlot(k, j)
        IN  IF Live(p) THEN b = p ELSE ~Live(b)

(* Between commands a cache entry that passes the validation of            *)
(* td_cluster_read_value (same epochs as PRIME, present) is the very slot  *)
(* PRIME holds.                                                            *)
CacheCoherent ==
    Resting => \A k \in Keys :
        LET p == PrimeSlot(mem, k)
            e == CacheSlot(k)
        IN  Matches(p, Hash[k]) /\ Live(e) /\ e.guard = p.guard => e = p

(* Between commands a read of a deleted key would answer not_found: no     *)
(* cache entry passes the validation of td_cluster_read_value against the  *)
(* tombstone in PRIME.                                                     *)
DeletedReadsNotFound ==
    Resting => \A k \in Keys :
        LET p == PrimeSlot(mem, k)
            e == CacheSlot(k)
        IN  p.tomb /\ Live(e) => e.guard # p.guard
=============================================================================
