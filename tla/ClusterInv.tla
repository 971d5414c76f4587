----------------------------- MODULE ClusterInv ------------------------------
(***************************************************************************)
(* Inductive invariants of Cluster: what has to be known of the commands   *)
(* under way for its safety properties to be preserved by every step.      *)
(***************************************************************************)
EXTENDS Cluster

(* A command behind its primary commit, or a read that refreshes the cache.*)
CommittedPcs == {"repair", "repairBody", "repairCas", "refresh", "refreshBody", "refreshCas"}

KeyedPcs == PrimePcs \cup CachePcs \cup BackupPcs

(* A command that addresses a slot has a key, one that evicts a node.      *)
WellFormed(s) == /\ s.pc \in KeyedPcs => s.op.key \in Keys
                 /\ s.pc \in EvictPcs => s.idx \in Nodes

(* Every variable has its type, and every process its key or node.         *)
TypeInv == TypeOK /\ \A c \in CN : WellFormed(cn[c])

-----------------------------------------------------------------------------
(* The epochs of PRIME slots.  While the session of a process with the     *)
(* primary of its key is up, the primary has not restarted since the       *)
(* command began, and the epochs the process has seen are past or current. *)

(* The probe p of process s has chosen a PRIME slot; in memory m its epoch *)
(* has not gone back since.                                                *)
KnownEpoch(s, p, m) ==
    LET a == <<td_primary_session(s.op.key), "prime", p.at>>
    IN  a \in Addr /\ p.slot.guard <= m[a].guard

(* What process s knows of memory m over its sessions up.                  *)
EpochOf(s, m, up) ==
    /\ s.pc \in {"read", "readCache"} => s.op.kind = "read"
    /\ s.pc = "write" /\ s.probe.ok /\ up[td_primary_session(s.op.key)]
       => KnownEpoch(s, s.probe, m)
    /\ s.pc \in ProposingPcs /\ up[td_primary_session(s.op.key)]
       => KnownEpoch(s, s.prime, m) /\ s.prop.visible = s.prime.slot.guard + 1
    /\ Committed(s) /\ up[td_primary_session(s.op.key)]
       => PrimeDest(s) \in Addr /\ s.prop.visible <= m[PrimeDest(s)].guard

(* The invariant behind the properties of epochs: a proposal is one ahead  *)
(* of an epoch the slot has reached, a committed one has been reached.     *)
EpochInv == /\ TypeInv
            /\ \A c \in CN : EpochOf(cn[c], mem, link[c])
            /\ VisibleAtMostOneAhead
            /\ OneCommitPerEpoch

-----------------------------------------------------------------------------
(* What a command knows of its own variables, whatever the memory holds:   *)
(* a slot it writes is one that was made for its key, with an epoch past   *)
(* zero; a finished probe has a candidate, and one under way slots left.   *)
CommandOf(s) ==
    /\ s.pc \in ProposingPcs \cup CommittedPcs
       => s.prop.valid /\ s.prop.hash = Hash[s.op.key]
    /\ s.pc \in ProposingPcs \cup BackupPcs => s.prop.visible > 0
    /\ s.pc \in (BodyPcs \cup CasPcs) \ {"primeBody", "primeCas"} => s.probe.ok
    /\ s.pc \in ProbePcs => s.probe.i = 0 \/ s.probe.i < Count(s)

CommandInv == TypeInv /\ \A c \in CN : CommandOf(cn[c])

-----------------------------------------------------------------------------
(* Probe chains.  The slots of PRIME and BACKUP that a probe has passed    *)
(* are occupied and stay so while the session is up: only a restart of the *)
(* node empties them.                                                      *)

RecordKinds == {"prime", "backup"}

(* In memory m, the first d slots on the chain of hash are occupied.       *)
Occupied(n, kind, hash, d, m) ==
    \A d2 \in 0 .. d - 1 : ~td_slot_is_empty(m[ChainAt(n, kind, hash, d2)])

(* In memory m, a probe of hash reaches the slot with index at.            *)
Reached(n, kind, hash, at, m) ==
    \E d \in 0 .. SlotCount[n][kind] - 1 : /\ at = SlotIndex(n, kind, hash, d)
                                           /\ Occupied(n, kind, hash, d, m)

(* What process s knows of the chain of its key over its sessions up.      *)
ChainOf(s, m, up) ==
    /\ s.pc \in ProbePcs /\ Kind(s) \in RecordKinds /\ up[Node(s)]
       => /\ Occupied(Node(s), Kind(s), Hash[s.op.key], s.probe.i, m)
          /\ s.probe.ok => Reached(Node(s), Kind(s), Hash[s.op.key], s.probe.at, m)
    /\ /\ s.pc \in (BodyPcs \cup CasPcs) \ {"primeBody", "primeCas"}
       /\ Kind(s) \in RecordKinds
       /\ up[Node(s)]
       => Reached(Node(s), Kind(s), Hash[s.op.key], s.probe.at, m)
    /\ s.pc \in ProposingPcs /\ up[td_primary_session(s.op.key)]
       => Reached(td_primary_session(s.op.key), "prime", Hash[s.op.key], s.prime.at, m)

ChainInv == /\ CommandInv
            /\ \A c \in CN : ChainOf(cn[c], mem, link[c])
            /\ ProbeChainIntact

-----------------------------------------------------------------------------
(* Cache entries.  What is written to the cache has an epoch that its      *)
(* PRIME slot has reached, over a session that has seen no restart.        *)

CacheOf(s, m, up) ==
    /\ s.pc = "read" /\ s.probe.ok /\ up[td_primary_session(s.op.key)]
       => KnownEpoch(s, s.probe, m)
    /\ s.pc = "readCache" /\ up[td_primary_session(s.op.key)]
       => KnownEpoch(s, s.prime, m)
    /\ s.pc \in CommittedPcs /\ up[td_primary_session(s.op.key)]
       => PrimeDest(s) \in Addr /\ s.prop.visible <= m[PrimeDest(s)].guard

CacheInv == /\ EpochInv
            /\ \A c \in CN : CacheOf(cn[c], mem, link[c])
            /\ CacheNotAhead

-----------------------------------------------------------------------------
(* A lone evictor.  Where no client issues evict, the eviction thread has  *)
(* the cache to itself: nobody else takes valid entries away between its   *)
(* count and its sweep, and writes to the cache only add to them.          *)
LoneInv == /\ CommandInv
           /\ \A c \in CN : cn[c].pc \notin EvictPcs
           /\ \A n \in Nodes, c \in CN : target[n][c] = 0
           /\ \A n \in Nodes : target[n][Thread] <= Cardinality(ValidCache(n))
           /\ EvictionReturns
=============================================================================
