---------------------------- MODULE ClusterProofs ----------------------------
(***************************************************************************)
(* Proofs about Cluster for every number of clients, nodes, keys, slots    *)
(* and replicas, every hash and tie-breaker function, and every bound.     *)
(***************************************************************************)
EXTENDS ClusterInv, FiniteSetTheorems, WellFoundedInduction, TLAPS

(***************************************************************************)
(* Arithmetic and types of the helpers.                                    *)
(***************************************************************************)

(* The remainder by a positive number is a slot index.                     *)
LEMMA ModType == ASSUME NEW a \in Nat, NEW n \in Nat \ {0}
                 PROVE  a % n \in 0 .. n - 1
  BY SMT

(* The addresses are the triples of a node, a kind and a slot index.       *)
LEMMA AddrIntro ==
  ASSUME NEW n \in Nodes, NEW kind \in Kinds, NEW i \in 0 .. SlotCount[n][kind] - 1
  PROVE  <<n, kind, i>> \in Addr
<1> DEFINE p == <<n, kind>>
<1>1. p \in Nodes \X Kinds /\ p[1] = n /\ p[2] = kind
  OBVIOUS
<1>2. <<n, kind, i>> \in {<<p[1], p[2], j>> : j \in 0 .. SlotCount[p[1]][p[2]] - 1}
  BY <1>1
<1> HIDE DEF p
<1> QED
  BY <1>1, <1>2 DEF Addr

(* An address is a node, a kind and an index within its slots.             *)
LEMMA AddrElim ==
  ASSUME NEW a \in Addr
  PROVE  /\ a = <<a[1], a[2], a[3]>>
         /\ a[1] \in Nodes
         /\ a[2] \in Kinds
         /\ a[3] \in 0 .. SlotCount[a[1]][a[2]] - 1
<1>1. PICK p \in Nodes \X Kinds :
             a \in {<<p[1], p[2], i>> : i \in 0 .. SlotCount[p[1]][p[2]] - 1}
  BY DEF Addr
<1>2. PICK i \in 0 .. SlotCount[p[1]][p[2]] - 1 : a = <<p[1], p[2], i>>
  BY <1>1
<1> QED
  BY <1>2

(* A slot index computed by the probe lies in the region.                  *)
LEMMA SlotIndexType ==
  ASSUME NEW n \in Nodes, NEW kind \in Kinds, NEW h \in Nat, NEW i \in Nat,
         SlotCount[n][kind] > 0
  PROVE  /\ SlotIndex(n, kind, h, i) \in 0 .. SlotCount[n][kind] - 1
         /\ <<n, kind, SlotIndex(n, kind, h, i)>> \in Addr
<1> DEFINE m == SlotCount[n][kind]
<1>1. m \in Nat \ {0}
  BY SlotCountAssumption
<1>2. h % m \in Nat
  BY <1>1, ModType
<1>3. (h % m) + i \in Nat
  BY <1>2
<1>4. ((h % m) + i) % m \in 0 .. m - 1
  BY <1>1, <1>3, ModType
<1>5. SlotIndex(n, kind, h, i) \in 0 .. SlotCount[n][kind] - 1
  BY <1>4 DEF SlotIndex
<1> QED
  BY <1>5, AddrIntro

(* The primary and the replicas of a key are memory nodes.                 *)
LEMMA SessionType ==
  ASSUME NEW k \in Keys, NEW j \in Nat
  PROVE  td_primary_session(k) \in Nodes /\ td_replica_session(k, j) \in Nodes
<1>1. Hash[k] \in Nat
  BY HashAssumption
<1>2. Hash[k] % NodeCount \in 0 .. NodeCount - 1
  BY <1>1, NodesAssumption, ModType
<1>3. (Hash[k] % NodeCount) + j \in Nat
  BY <1>2, NodesAssumption
<1>4. ((Hash[k] % NodeCount) + j) % NodeCount \in 0 .. NodeCount - 1
  BY <1>3, NodesAssumption, ModType
<1> QED
  BY <1>2, <1>4 DEF td_primary_session, td_replica_session, Nodes

(* The vote rule is one of 0, 1, 2, 3.                                     *)
LEMMA RuleType == ASSUME NEW votes, NEW t PROVE td_evaluate_votes(votes, t) \in 0 .. 3
  BY DEF td_evaluate_votes

(* Empty slots and fresh probes are typed.                                 *)
LEMMA StartTypes == EmptySlot \in Slot /\ ProbeStart \in ProbeRecord
  BY TieAssumption, BoundsAssumption DEF EmptySlot, ProbeStart, Slot, ProbeRecord, Epochs, Data

(* A process that is off is typed.                                         *)
LEMMA OffType == Off \in Process /\ WellFormed(Off)
<1>1. NoVote \in Vote
  BY TieAssumption DEF NoVote, Vote
<1>2. NoReply \in Replies
  BY DEF NoReply, Reply, Replies, Data
<1> QED
  BY <1>1, <1>2, StartTypes, BoundsAssumption
  DEF Off, Process, WellFormed, Pcs, KeyedPcs, PrimePcs, CachePcs, BackupPcs, EvictPcs

(***************************************************************************)
(* The local steps of a command keep its process typed and well formed.    *)
(***************************************************************************)

Typed(s) == s \in Process /\ WellFormed(s)

(* Finish returns a process at its prompt.                                 *)
LEMMA FinishType ==
  ASSUME NEW s \in Process, NEW r \in Replies
  PROVE  Typed(Finish(s, r))
<1>1. "idle" \in Pcs /\ "idle" \notin KeyedPcs \cup EvictPcs
  BY DEF Pcs, KeyedPcs, PrimePcs, CachePcs, BackupPcs, EvictPcs
<1>2. Off \in Process
  BY OffType
<1>3. Finish(s, r) \in Process
  BY <1>1, <1>2 DEF Finish, Process
<1>4. Finish(s, r).pc = "idle"
  BY <1>2 DEF Finish, Process
<1> QED
  BY <1>1, <1>3, <1>4 DEF Typed, WellFormed

(* Probe returns a process about to fetch its first slot.                  *)
LEMMA ProbeType ==
  ASSUME NEW s \in Process, NEW pc \in ProbePcs, s.op.key \in Keys
  PROVE  Typed(Probe(s, pc))
<1>1. pc \in Pcs /\ pc \notin EvictPcs
  BY DEF Pcs, ProbePcs, PrimePcs, CachePcs, BackupPcs, EvictPcs
<1>2. Probe(s, pc) \in Process
  BY <1>1, StartTypes DEF Probe, Process
<1>3. Probe(s, pc).pc = pc /\ Probe(s, pc).op = s.op
  BY DEF Probe, Process
<1> QED
  BY <1>1, <1>2, <1>3 DEF Typed, WellFormed

(* The replies a command gives are replies.                                *)
LEMMA ReplyTypes ==
  /\ Error \in Replies
  /\ Reply("not_found", Nil, 0) \in Replies
  /\ Reply("evicted", Nil, 0) \in Replies
  /\ \A v \in Data : Reply("value", v, 0) \in Replies
  /\ \A s \in Process : Answer(s) \in Replies
<1>1. \A s \in Process : Rule(s) \in 0 .. 3
  BY RuleType DEF Rule
<1>2. \A s \in Process : s.prop.data \in Data
  BY DEF Process, Slot
<1>3. Nil \in Data
  BY DEF Data
<1> QED
  BY <1>1, <1>2, <1>3 DEF Error, Reply, Replies, Answer

(* A non-empty set of natural numbers has a least element.                 *)
LEMMA LeastElement ==
  ASSUME NEW S \in SUBSET Nat, S # {}
  PROVE  \E i \in S : \A j \in S : i <= j
<1>1. PICK i \in S : \A j \in S : <<j, i>> \notin OpToRel(<, Nat)
  BY WFMin, NatLessThanWellFounded
<1>2. \A j \in S : ~(j < i)
  BY <1>1 DEF OpToRel
<1> QED
  BY <1>2

(* td_refresh_cache_best_effort, the repair loop and the backup loop.      *)
LEMMA RefreshType ==
  ASSUME NEW s \in Process, s.op.key \in Keys
  PROVE  Typed(td_refresh_cache_best_effort(s))
  BY FinishType, ProbeType, ReplyTypes DEF td_refresh_cache_best_effort, ProbePcs

(* The number of backups is a natural number.                              *)
LEMMA BackupsType == BackupCount \in Nat /\ Backups \subseteq Nat
<1>1. BackupCount \in Nat
  BY NodesAssumption, ConfigAssumption DEF BackupCount
<1> QED
  BY <1>1 DEF Backups

(* The repair loop.                                                        *)
LEMMA RepairType ==
  ASSUME NEW s \in Process, NEW j \in Nat, s.op.key \in Keys
  PROVE  Typed(RepairFrom(s, j))
<1> DEFINE rest == {i \in Lost(s.votes) : i >= j}
           next == CHOOSE i \in rest : \A i2 \in rest : i <= i2
<1>1. CASE rest = {}
  BY <1>1, RefreshType DEF RepairFrom
<1>2. CASE rest # {}
  <2>1. rest \subseteq Nat
    BY BackupsType DEF Lost, Process
  <2>2. next \in Nat
    <3>1. \E i \in rest : \A i2 \in rest : i <= i2
      BY <1>2, <2>1, LeastElement
    <3> QED
      BY <2>1, <3>1
  <2>3. [s EXCEPT !.idx = next] \in Process
    BY <2>2 DEF Process
  <2>4. [s EXCEPT !.idx = next].op.key \in Keys
    BY DEF Process
  <2>5. RepairFrom(s, j) = Probe([s EXCEPT !.idx = next], "repair")
    BY <1>2 DEF RepairFrom
  <2> HIDE DEF next
  <2> QED
    BY <2>3, <2>4, <2>5, ProbeType DEF ProbePcs
<1> QED
  BY <1>1, <1>2

(* The evaluation of the votes.                                            *)
LEMMA DecideType ==
  ASSUME NEW s \in Process, s.op.key \in Keys
  PROVE  Typed(Decide(s))
<1>1. CASE Rule(s) = 0
  BY <1>1, ProbeType DEF Decide, ProbePcs
<1>2. CASE Rule(s) # 0
  <2>1. "primeBody" \in Pcs /\ "primeBody" \notin EvictPcs
    BY DEF Pcs, PrimePcs, EvictPcs
  <2>2. Decide(s) = [s EXCEPT !.pc = "primeBody"]
    BY <1>2 DEF Decide
  <2> QED
    BY <2>1, <2>2 DEF Typed, WellFormed, Process
<1> QED
  BY <1>1, <1>2

(* The backup loop.                                                        *)
LEMMA BackupType ==
  ASSUME NEW s \in Process, NEW j \in Nat, s.op.key \in Keys
  PROVE  Typed(BackupFrom(s, j))
<1>1. CASE j \in Backups
  <2>1. [s EXCEPT !.idx = j] \in Process /\ [s EXCEPT !.idx = j].op.key \in Keys
    BY DEF Process
  <2>2. BackupFrom(s, j) = Probe([s EXCEPT !.idx = j], "backup")
    BY <1>1 DEF BackupFrom
  <2> QED
    BY <2>1, <2>2, ProbeType DEF ProbePcs
<1>2. CASE j \notin Backups
  BY <1>2, DecideType DEF BackupFrom
<1> QED
  BY <1>1, <1>2

(* The evict command addresses the memory nodes in turn.                   *)
LEMMA EvictType ==
  ASSUME NEW s \in Process, NEW n \in Nat
  PROVE  Typed(EvictFrom(s, n))
<1>1. CASE n \in Nodes
  <2>1. "evict" \in Pcs /\ "evict" \notin KeyedPcs
    BY DEF Pcs, KeyedPcs, PrimePcs, CachePcs, BackupPcs, EvictPcs
  <2>2. EvictFrom(s, n) = [s EXCEPT !.pc = "evict", !.idx = n]
    BY <1>1 DEF EvictFrom
  <2>3. EvictFrom(s, n) \in Process
    BY <2>1, <2>2 DEF Process
  <2>4. EvictFrom(s, n).pc = "evict" /\ EvictFrom(s, n).idx = n
    BY <2>2 DEF Process
  <2> QED
    BY <1>1, <2>1, <2>3, <2>4 DEF Typed, WellFormed
<1>2. CASE n \notin Nodes
  BY <1>2, FinishType, ReplyTypes DEF EvictFrom
<1> QED
  BY <1>1, <1>2

(* td_cluster_read_value after the probes, and the proposal of a write.    *)
LEMMA ReadPrimeSlotType ==
  ASSUME NEW s \in Process, s.op.key \in Keys
  PROVE  Typed(ReadPrimeSlot(s))
<1> DEFINE t == [s EXCEPT !.prop = s.prime.slot]
<1>1. t \in Process /\ t.op.key \in Keys
  BY DEF Process, ProbeRecord
<1>2. Typed(td_refresh_cache_best_effort(t))
  BY <1>1, RefreshType
<1>3. Typed(Finish(s, Reply("not_found", Nil, 0)))
  BY FinishType, ReplyTypes
<1> QED
  BY <1>2, <1>3 DEF ReadPrimeSlot

(* The proposal is typed and one epoch past the probed one.                *)
LEMMA ProposeType ==
  ASSUME NEW s \in Process, NEW r \in ProbeRecord, s.op.key \in Keys,
         r.slot.guard < MaxEpoch
  PROVE  /\ Propose(s, r) \in Process
         /\ Propose(s, r).op = s.op
         /\ Propose(s, r).prop.visible = r.slot.guard + 1
         /\ Propose(s, r).prime = r
<1> DEFINE e == r.slot.guard + 1
           p == td_crypto_make_slot(s.op.key, Hash[s.op.key], s.op.val,
                                    s.op.kind = "delete", e)
<1>1. e \in Epochs
  BY BoundsAssumption DEF Epochs, ProbeRecord, Slot
<1>2. s.op.val \in Data
  BY DEF Process, Requests, NoOp, Data
<1>3. Tie(s.op.key, s.op.val, e) \in 0 .. MaxTie
  BY <1>1, <1>2, TieAssumption
<1>4. Hash[s.op.key] \in Nat
  BY HashAssumption
<1>5. p \in Slot /\ p.visible = e
  BY <1>1, <1>2, <1>3, <1>4 DEF td_crypto_make_slot, Slot
<1>6. Propose(s, r) = [s EXCEPT !.prime = r, !.prop = p]
  BY DEF Propose
<1> HIDE DEF p
<1> QED
  BY <1>5, <1>6 DEF Process

(***************************************************************************)
(* Requests.                                                               *)
(***************************************************************************)

(* A process that makes a request addresses a memory node.                 *)
LEMMA NodeType ==
  ASSUME NEW s \in Process, WellFormed(s), s.pc \in KeyedPcs \cup EvictPcs
  PROVE  Node(s) \in Nodes /\ Kind(s) \in Kinds
<1>1. CASE s.pc \in EvictPcs
  BY <1>1 DEF Node, Kind, Kinds, WellFormed
<1>2. CASE s.pc \notin EvictPcs
  <2>1. s.op.key \in Keys /\ s.idx \in Nat
    BY <1>2 DEF WellFormed, Process
  <2> QED
    BY <1>2, <2>1, SessionType DEF Node, Kind, Kinds
<1> QED
  BY <1>1, <1>2

(* Breaking a session leaves the links and the count of failures typed.    *)
LEMMA SeveredType ==
  ASSUME TypeInv, NEW c \in CN, Severed(c) \/ UNCHANGED netVars
  PROVE  link' \in [CN -> [Nodes -> BOOLEAN]] /\ faults' \in 0 .. MaxFaults
<1>1. link \in [CN -> [Nodes -> BOOLEAN]] /\ faults \in 0 .. MaxFaults
  BY DEF TypeInv, TypeOK
<1>2. CASE UNCHANGED netVars
  BY <1>1, <1>2 DEF netVars
<1>3. CASE ~UNCHANGED netVars
  <2> DEFINE n == Node(cn[c])
  <2>1. /\ faults < MaxFaults
        /\ faults' = faults + 1
        /\ link' = [link EXCEPT ![c][n] = FALSE]
    BY <1>3 DEF Severed
  <2> HIDE DEF n
  <2>2. link' \in [CN -> [Nodes -> BOOLEAN]]
    BY <1>1, <2>1
  <2>3. faults' \in 0 .. MaxFaults
    BY <1>1, <2>1, BoundsAssumption
  <2> QED
    BY <2>2, <2>3
<1> QED
  BY <1>2, <1>3

(* A fetch reads a slot of the region, and the probe it extends is typed.  *)
LEMMA ExaminedType ==
  ASSUME TypeInv, NEW c \in CN, cn[c].pc \in ProbePcs, Count(cn[c]) > 0
  PROVE  /\ FetchAt(c) \in Nat
         /\ <<Node(cn[c]), Kind(cn[c]), FetchAt(c)>> \in Addr
         /\ Fetched(c) \in Slot
         /\ Examined(c) \in ProbeRecord
<1> DEFINE s == cn[c]
<1>1. s \in Process /\ WellFormed(s) /\ s.pc \in KeyedPcs
  BY DEF TypeInv, TypeOK, ProbePcs, KeyedPcs, PrimePcs, CachePcs, BackupPcs
<1>2. Node(s) \in Nodes /\ Kind(s) \in Kinds
  BY <1>1, NodeType
<1>3. Hash[s.op.key] \in Nat /\ s.probe \in ProbeRecord /\ s.probe.i \in Nat
  BY <1>1, HashAssumption DEF WellFormed, Process, ProbeRecord
<1>4. SlotCount[Node(s)][Kind(s)] \in Nat
  BY <1>2, SlotCountAssumption
<1>5. FetchAt(c) \in Nat /\ <<Node(s), Kind(s), FetchAt(c)>> \in Addr
  BY <1>2, <1>3, <1>4, SlotIndexType DEF FetchAt, Count
<1>6. Fetched(c) \in Slot
  BY <1>5 DEF Fetched, TypeInv, TypeOK
<1>7. Examined(c) \in ProbeRecord
  <2>1. s.probe.i + 1 \in Nat
    BY <1>3
  <2> QED
    BY <1>3, <1>5, <1>6, <2>1 DEF Examined, Examine, ProbeRecord
<1> QED
  BY <1>5, <1>6, <1>7

(* td_probe_slot returns a typed probe.                                    *)
LEMMA ProbeReturnsType ==
  ASSUME TypeInv, NEW c \in CN, cn[c].pc \in ProbePcs, NEW r, ProbeReturns(c, r)
  PROVE  /\ r \in ProbeRecord
         /\ link' \in [CN -> [Nodes -> BOOLEAN]]
         /\ faults' \in 0 .. MaxFaults
<1>1. r \in ProbeRecord
  BY ExaminedType, StartTypes DEF ProbeReturns
<1>2. Severed(c) \/ UNCHANGED netVars
  BY DEF ProbeReturns
<1> QED
  BY <1>1, <1>2, SeveredType

(* The two requests of td_commit_slot_at write slots.                      *)
LEMMA CommitTypes ==
  ASSUME TypeInv, NEW c \in CN
  PROVE  BodyWritten(cn[c]) \in [Addr -> Slot] /\ CasApplied(cn[c]) \in [Addr -> Slot]
<1> DEFINE s == cn[c]
           d == Dest(s)
<1>1. s.prop \in Slot /\ mem \in [Addr -> Slot]
  BY DEF TypeInv, TypeOK, Process
<1>2. s.prop.visible \in Epochs
  BY <1>1 DEF Slot
<1>3. d \in Addr => mem[d] \in Slot /\ mem[d].guard \in Epochs
  BY <1>1 DEF Slot
<1>4. d \in Addr => [s.prop EXCEPT !.guard = mem[d].guard] \in Slot
  BY <1>1, <1>3 DEF Slot
<1>5. d \in Addr => [mem[d] EXCEPT !.guard = s.prop.visible] \in Slot
  BY <1>2, <1>3 DEF Slot
<1> HIDE DEF d
<1>6. [mem EXCEPT ![d] = [s.prop EXCEPT !.guard = mem[d].guard]] \in [Addr -> Slot]
  BY <1>1, <1>4
<1>7. [mem EXCEPT ![d].guard = s.prop.visible] \in [Addr -> Slot]
  BY <1>1, <1>5
<1> QED
  BY <1>1, <1>6, <1>7 DEF BodyWritten, CasApplied, d

(* td_commit_slot_at leaves memory and sessions typed.                     *)
LEMMA CommitReturnsType ==
  ASSUME TypeInv, NEW c \in CN, NEW won \in BOOLEAN, CommitReturns(c, won)
  PROVE  /\ mem' \in [Addr -> Slot]
         /\ link' \in [CN -> [Nodes -> BOOLEAN]]
         /\ faults' \in 0 .. MaxFaults
         /\ UNCHANGED <<cursor, target, hung>>
<1>1. mem' \in [Addr -> Slot]
  BY CommitTypes DEF CommitReturns, TypeInv, TypeOK
<1>2. Severed(c) \/ UNCHANGED netVars
  BY DEF CommitReturns
<1> QED
  BY <1>1, <1>2, SeveredType DEF CommitReturns

(***************************************************************************)
(* Type correctness.                                                       *)
(***************************************************************************)

(* Replacing one process by a typed one keeps all of them typed.           *)
LEMMA ProcessUpdate ==
  ASSUME TypeInv, NEW c \in CN, NEW t, Typed(t), cn' = [cn EXCEPT ![c] = t]
  PROVE  cn' \in [CN -> Process] /\ \A d \in CN : WellFormed(cn'[d])
  BY DEF TypeInv, TypeOK, Typed

(* The number of slots an evictor sets out to clear is a natural number.   *)
LEMMA EvictTargetType ==
  ASSUME NEW n \in Nodes
  PROVE  EvictTarget(n) \in Nat
<1> DEFINE used == {i \in CacheSlots(n) : /\ mem[<<n, "cache", i>>].valid
                                          /\ ~Torn(mem[<<n, "cache", i>>])}
<1>1. SlotCount[n]["cache"] \in Nat
  BY SlotCountAssumption DEF Kinds
<1>2. IsFiniteSet(CacheSlots(n))
  BY <1>1, FS_Interval DEF CacheSlots
<1>3. Cardinality(used) \in Nat
  BY <1>2, FS_Subset, FS_CardinalityType
<1>4. UsedCache(n) \in Nat
  BY <1>3 DEF UsedCache
<1> QED
  BY <1>4 DEF EvictTarget

(* A probe that returns and a typed next state of its process.             *)
LEMMA ProbeStepType ==
  ASSUME TypeInv, NEW c \in CN, cn[c].pc \in ProbePcs, NEW r, ProbeReturns(c, r),
         UNCHANGED mnVars, NEW t, Typed(t), cn' = [cn EXCEPT ![c] = t]
  PROVE  TypeInv'
<1>1. cn' \in [CN -> Process] /\ \A d \in CN : WellFormed(cn'[d])
  BY ProcessUpdate
<1>2. link' \in [CN -> [Nodes -> BOOLEAN]] /\ faults' \in 0 .. MaxFaults
  BY ProbeReturnsType
<1> QED
  BY <1>1, <1>2 DEF TypeInv, TypeOK, mnVars

(* A commit that returns and a typed next state of its process.            *)
LEMMA CommitStepType ==
  ASSUME TypeInv, NEW c \in CN, NEW won \in BOOLEAN, CommitReturns(c, won),
         NEW t, Typed(t), cn' = [cn EXCEPT ![c] = t]
  PROVE  TypeInv'
<1>1. cn' \in [CN -> Process] /\ \A d \in CN : WellFormed(cn'[d])
  BY ProcessUpdate
<1> QED
  BY <1>1, CommitReturnsType DEF TypeInv, TypeOK

(* A process that makes a request about a key has one.                     *)
LEMMA KeyedProcess ==
  ASSUME TypeInv, NEW c \in CN
  PROVE  /\ cn[c] \in Process
         /\ WellFormed(cn[c])
         /\ cn[c].pc \in ProbePcs \cup BodyPcs \cup CasPcs => cn[c].op.key \in Keys
         /\ cn[c].idx + 1 \in Nat
<1>1. cn[c] \in Process /\ WellFormed(cn[c])
  BY DEF TypeInv, TypeOK
<1>2. ProbePcs \cup BodyPcs \cup CasPcs \subseteq KeyedPcs
  BY DEF ProbePcs, BodyPcs, CasPcs, CasOf, KeyedPcs, PrimePcs, CachePcs, BackupPcs
<1>3. cn[c].idx + 1 \in Nat
  BY <1>1 DEF Process
<1> QED
  BY <1>1, <1>2, <1>3 DEF WellFormed

(* A process that has chosen the slot it is about to write.                *)
LEMMA ChosenType ==
  ASSUME NEW s \in Process, s.op.key \in Keys, NEW r \in ProbeRecord,
         NEW pc \in {"backupBody", "repairBody", "refreshBody"}
  PROVE  Typed([s EXCEPT !.pc = pc, !.probe = r])
<1>1. pc \in Pcs \ EvictPcs
  BY DEF Pcs, CachePcs, BackupPcs, EvictPcs
<1> QED
  BY <1>1 DEF Typed, WellFormed, Process

(* The probing steps.                                                      *)
LEMMA ScanType == ASSUME TypeInv, NEW c \in CN, Scan(c) PROVE TypeInv'
<1> DEFINE s == cn[c]
           t == [s EXCEPT !.probe = Examined(c)]
<1>1. Examined(c) \in ProbeRecord
  BY ExaminedType DEF Scan
<1>2. Typed(t)
  BY <1>1, KeyedProcess DEF Typed, WellFormed, Process
<1>3. cn' = [cn EXCEPT ![c] = t]
  BY DEF Scan
<1>4. cn' \in [CN -> Process] /\ \A d \in CN : WellFormed(cn'[d])
  BY <1>2, <1>3, ProcessUpdate
<1> QED
  BY <1>4 DEF Scan, TypeInv, TypeOK, mnVars, netVars

(* The first probe of a read returns.                                      *)
LEMMA ReadPrimeType == ASSUME TypeInv, NEW c \in CN, ReadPrime(c) PROVE TypeInv'
<1> DEFINE s == cn[c]
<1>1. s.pc \in ProbePcs /\ UNCHANGED mnVars
  BY DEF ReadPrime, ProbePcs
<1>2. PICK r : /\ ProbeReturns(c, r)
               /\ cn' = [cn EXCEPT ![c] =
                     IF ~r.ok THEN Finish([s EXCEPT !.prime = r], Error)
                     ELSE IF CacheOn THEN Probe([s EXCEPT !.prime = r], "readCache")
                     ELSE ReadPrimeSlot([s EXCEPT !.prime = r])]
  BY Zenon DEF ReadPrime
<1>3. r \in ProbeRecord
  BY <1>1, <1>2, ProbeReturnsType
<1> DEFINE t == [s EXCEPT !.prime = r]
<1>4. t \in Process /\ t.op.key \in Keys
  BY <1>1, <1>3, KeyedProcess DEF Process
<1> HIDE DEF t
<1>5. /\ Typed(Finish(t, Error))
      /\ Typed(Probe(t, "readCache"))
      /\ Typed(ReadPrimeSlot(t))
  BY <1>4, FinishType, ReplyTypes, ProbeType, ReadPrimeSlotType DEF ProbePcs
<1> DEFINE u == IF ~r.ok THEN Finish(t, Error)
                ELSE IF CacheOn THEN Probe(t, "readCache") ELSE ReadPrimeSlot(t)
<1>6. Typed(u)
  BY <1>5
<1>7. cn' = [cn EXCEPT ![c] = u]
  BY <1>2, Zenon DEF t
<1> HIDE DEF u
<1> QED
  BY <1>1, <1>2, <1>6, <1>7, ProbeStepType

(* The cache probe of a read returns.                                      *)
LEMMA ReadCacheType == ASSUME TypeInv, NEW c \in CN, ReadCache(c) PROVE TypeInv'
<1> DEFINE s == cn[c]
<1>1. s.pc \in ProbePcs /\ UNCHANGED mnVars
  BY DEF ReadCache, ProbePcs
<1>2. PICK r : /\ ProbeReturns(c, r)
               /\ cn' = [cn EXCEPT ![c] =
                     IF r.ok /\ CacheConsistent(s, r)
                     THEN Finish(s, Reply("value", r.slot.data, 0))
                     ELSE ReadPrimeSlot(s)]
  BY Zenon DEF ReadCache
<1>3. r \in ProbeRecord
  BY <1>1, <1>2, ProbeReturnsType
<1>4. s \in Process /\ s.op.key \in Keys /\ r.slot.data \in Data
  BY <1>1, <1>3, KeyedProcess DEF ProbeRecord, Slot
<1>5. Typed(Finish(s, Reply("value", r.slot.data, 0))) /\ Typed(ReadPrimeSlot(s))
  BY <1>4, FinishType, ReplyTypes, ReadPrimeSlotType
<1> QED
  BY <1>1, <1>2, <1>5, ProbeStepType

(* The first probe of a write returns.                                     *)
LEMMA WritePrimeType == ASSUME TypeInv, NEW c \in CN, WritePrime(c) PROVE TypeInv'
<1> DEFINE s == cn[c]
<1>1. s.pc \in ProbePcs /\ UNCHANGED mnVars
  BY DEF WritePrime, ProbePcs
<1>2. PICK r : /\ ProbeReturns(c, r)
               /\ r.slot.guard < MaxEpoch
               /\ cn' = [cn EXCEPT ![c] =
                     IF WriteAllowed(s, r) THEN BackupFrom(Propose(s, r), 1)
                                           ELSE Finish(s, Error)]
  BY Zenon DEF WritePrime
<1>3. r \in ProbeRecord
  BY <1>1, <1>2, ProbeReturnsType
<1>4. s \in Process /\ s.op.key \in Keys
  BY <1>1, KeyedProcess
<1>5. Typed(BackupFrom(Propose(s, r), 1)) /\ Typed(Finish(s, Error))
  BY <1>2, <1>3, <1>4, ProposeType, BackupType, FinishType, ReplyTypes
<1> QED
  BY <1>1, <1>2, <1>5, ProbeStepType

(* The probe of a backup returns.                                          *)
LEMMA BackupProbeType == ASSUME TypeInv, NEW c \in CN, BackupProbe(c) PROVE TypeInv'
<1> DEFINE s == cn[c]
<1>1. s.pc \in ProbePcs /\ UNCHANGED mnVars
  BY DEF BackupProbe, ProbePcs
<1>2. PICK r : /\ ProbeReturns(c, r)
               /\ cn' = [cn EXCEPT ![c] =
                     IF r.ok THEN [s EXCEPT !.pc = "backupBody", !.probe = r]
                             ELSE Finish(s, Error)]
  BY Zenon DEF BackupProbe
<1>3. r \in ProbeRecord /\ s \in Process /\ s.op.key \in Keys
  BY <1>1, <1>2, ProbeReturnsType, KeyedProcess
<1>4. Typed([s EXCEPT !.pc = "backupBody", !.probe = r]) /\ Typed(Finish(s, Error))
  BY <1>3, ChosenType, FinishType, ReplyTypes
<1> QED
  BY <1>1, <1>2, <1>4, ProbeStepType

(* A probe of the wait for the primary returns.                            *)
LEMMA WaitType == ASSUME TypeInv, NEW c \in CN, Wait(c) PROVE TypeInv'
<1> DEFINE s == cn[c]
           t == [s EXCEPT !.tries = @ + 1]
<1>1. s.pc \in ProbePcs /\ UNCHANGED mnVars
  BY DEF Wait, ProbePcs
<1>2. PICK r : /\ ProbeReturns(c, r)
               /\ \/ cn' = [cn EXCEPT ![c] = Finish(s, Error)]
                  \/ cn' = [cn EXCEPT ![c] = Probe(t, "wait")]
  <2>1. PICK r : /\ ProbeReturns(c, r)
                 /\ cn' = [cn EXCEPT ![c] =
                       IF WaitOver(s, r) THEN Finish(s, Error) ELSE Probe(t, "wait")]
    BY Zenon DEF Wait
  <2> QED
    BY <2>1, Zenon
<1>3. s \in Process /\ s.op.key \in Keys
  BY <1>1, KeyedProcess
<1>4. t \in Process /\ t.op.key \in Keys
  BY <1>3 DEF Process
<1>5. Typed(Finish(s, Error)) /\ Typed(Probe(t, "wait"))
  BY <1>3, <1>4, FinishType, ReplyTypes, ProbeType DEF ProbePcs
<1> HIDE DEF t
<1> QED
  BY <1>1, <1>2, <1>5, ProbeStepType

(* The probe of a backup to repair returns.                                *)
LEMMA RepairProbeType == ASSUME TypeInv, NEW c \in CN, RepairProbe(c) PROVE TypeInv'
<1> DEFINE s == cn[c]
<1>1. s.pc \in ProbePcs /\ UNCHANGED mnVars
  BY DEF RepairProbe, ProbePcs
<1>2. PICK r : /\ ProbeReturns(c, r)
               /\ cn' = [cn EXCEPT ![c] =
                     IF r.ok THEN [s EXCEPT !.pc = "repairBody", !.probe = r]
                             ELSE RepairFrom(s, s.idx + 1)]
  BY Zenon DEF RepairProbe
<1>3. r \in ProbeRecord /\ s \in Process /\ s.op.key \in Keys /\ s.idx + 1 \in Nat
  BY <1>1, <1>2, ProbeReturnsType, KeyedProcess
<1>4. Typed([s EXCEPT !.pc = "repairBody", !.probe = r]) /\ Typed(RepairFrom(s, s.idx + 1))
  BY <1>3, ChosenType, RepairType
<1> QED
  BY <1>1, <1>2, <1>4, ProbeStepType

(* The cache probe of a refresh returns.                                   *)
LEMMA RefreshProbeType == ASSUME TypeInv, NEW c \in CN, RefreshProbe(c) PROVE TypeInv'
<1> DEFINE s == cn[c]
<1>1. s.pc \in ProbePcs /\ UNCHANGED mnVars
  BY DEF RefreshProbe, ProbePcs
<1>2. PICK r : /\ ProbeReturns(c, r)
               /\ cn' = [cn EXCEPT ![c] =
                     IF r.ok THEN [s EXCEPT !.pc = "refreshBody", !.probe = r]
                             ELSE Finish(s, Answer(s))]
  BY Zenon DEF RefreshProbe
<1>3. r \in ProbeRecord /\ s \in Process /\ s.op.key \in Keys
  BY <1>1, <1>2, ProbeReturnsType, KeyedProcess
<1>4. Typed([s EXCEPT !.pc = "refreshBody", !.probe = r]) /\ Typed(Finish(s, Answer(s)))
  BY <1>3, ChosenType, FinishType, ReplyTypes
<1> QED
  BY <1>1, <1>2, <1>4, ProbeStepType

(* The committing steps.                                                   *)
LEMMA WriteBodyType == ASSUME TypeInv, NEW c \in CN, WriteBody(c) PROVE TypeInv'
<1> DEFINE s == cn[c]
           t == [s EXCEPT !.pc = CasOf[s.pc]]
<1>1. CasOf[s.pc] \in CasPcs
  BY DEF WriteBody, CasPcs
<1>2. CasPcs \subseteq Pcs \ EvictPcs
  BY DEF CasPcs, CasOf, BodyPcs, Pcs, PrimePcs, CachePcs, BackupPcs, EvictPcs
<1>3. s \in Process /\ s.op.key \in Keys
  BY KeyedProcess DEF WriteBody
<1>4. Typed(t)
  BY <1>1, <1>2, <1>3 DEF Typed, WellFormed, Process
<1>5. cn' = [cn EXCEPT ![c] = t]
  BY DEF WriteBody
<1>6. cn' \in [CN -> Process] /\ \A d \in CN : WellFormed(cn'[d])
  BY <1>4, <1>5, ProcessUpdate
<1>7. mem' \in [Addr -> Slot]
  BY CommitTypes DEF WriteBody
<1> QED
  BY <1>6, <1>7 DEF WriteBody, TypeInv, TypeOK, netVars

(* A backup has voted.                                                     *)
LEMMA BackupCommitType == ASSUME TypeInv, NEW c \in CN, BackupCommit(c) PROVE TypeInv'
<1> DEFINE s == cn[c]
<1>1. s.pc \in BodyPcs \cup CasPcs
  BY DEF BackupCommit, BodyPcs, CasPcs, CasOf
<1>2. PICK won \in BOOLEAN :
         /\ CommitReturns(c, won)
         /\ cn' = [cn EXCEPT ![c] =
               BackupFrom([s EXCEPT !.votes[s.idx] =
                              [success |-> won,
                               tie |-> IF won THEN 0 ELSE s.probe.slot.tie]],
                          s.idx + 1)]
  BY Zenon DEF BackupCommit
<1> DEFINE vote == [success |-> won, tie |-> IF won THEN 0 ELSE s.probe.slot.tie]
           t == [s EXCEPT !.votes[s.idx] = vote]
<1>3. s \in Process /\ s.op.key \in Keys /\ s.idx + 1 \in Nat
  BY <1>1, KeyedProcess
<1>4. s.probe.slot.tie \in 0 .. MaxTie /\ 0 \in 0 .. MaxTie
  BY <1>3, TieAssumption DEF Process, ProbeRecord, Slot
<1>5. vote \in Vote
  BY <1>4 DEF Vote
<1> HIDE DEF vote
<1>6. t \in Process /\ t.op.key \in Keys
  BY <1>3, <1>5 DEF Process
<1>7. cn' = [cn EXCEPT ![c] = BackupFrom(t, s.idx + 1)]
  BY <1>2, Zenon DEF vote
<1> HIDE DEF t
<1>8. Typed(BackupFrom(t, s.idx + 1))
  BY <1>3, <1>6, BackupType
<1> QED
  BY <1>2, <1>7, <1>8, CommitStepType

(* The primary commit returns.                                             *)
LEMMA PrimeCommitType == ASSUME TypeInv, NEW c \in CN, PrimeCommit(c) PROVE TypeInv'
<1> DEFINE s == cn[c]
<1>1. s.pc \in BodyPcs \cup CasPcs
  BY DEF PrimeCommit, BodyPcs, CasPcs, CasOf
<1>2. PICK won \in BOOLEAN :
         /\ CommitReturns(c, won)
         /\ cn' = [cn EXCEPT ![c] = IF won THEN RepairFrom(s, 1) ELSE Finish(s, Error)]
  BY Zenon DEF PrimeCommit
<1>3. s \in Process /\ s.op.key \in Keys
  BY <1>1, KeyedProcess
<1>4. Typed(RepairFrom(s, 1)) /\ Typed(Finish(s, Error))
  BY <1>3, RepairType, FinishType, ReplyTypes
<1> QED
  BY <1>2, <1>4, CommitStepType

(* The repair of a backup returns.                                         *)
LEMMA RepairCommitType == ASSUME TypeInv, NEW c \in CN, RepairCommit(c) PROVE TypeInv'
<1> DEFINE s == cn[c]
<1>1. s.pc \in BodyPcs \cup CasPcs
  BY DEF RepairCommit, BodyPcs, CasPcs, CasOf
<1>2. s \in Process /\ s.op.key \in Keys /\ s.idx + 1 \in Nat
  BY <1>1, KeyedProcess
<1>3. Typed(RepairFrom(s, s.idx + 1))
  BY <1>2, RepairType
<1>4. PICK won \in BOOLEAN : CommitReturns(c, won)
  BY DEF RepairCommit
<1>5. cn' = [cn EXCEPT ![c] = RepairFrom(s, s.idx + 1)]
  BY Zenon DEF RepairCommit
<1> QED
  BY <1>3, <1>4, <1>5, CommitStepType

(* The refresh of the cache returns.                                       *)
LEMMA RefreshCommitType == ASSUME TypeInv, NEW c \in CN, RefreshCommit(c) PROVE TypeInv'
<1> DEFINE s == cn[c]
<1>1. s \in Process
  BY KeyedProcess
<1>2. Typed(Finish(s, Answer(s)))
  BY <1>1, FinishType, ReplyTypes
<1>3. PICK won \in BOOLEAN : CommitReturns(c, won)
  BY DEF RefreshCommit
<1>4. cn' = [cn EXCEPT ![c] = Finish(s, Answer(s))]
  BY Zenon DEF RefreshCommit
<1> QED
  BY <1>2, <1>3, <1>4, CommitStepType

(* Connecting, quitting, issuing a command and dying.                      *)
LEMMA OffWithOps ==
  ASSUME NEW n \in 0 .. MaxOps
  PROVE  Typed([Off EXCEPT !.ops = n]) /\ Typed([Off EXCEPT !.pc = "idle", !.ops = n])
<1>1. Off \in Process /\ WellFormed(Off)
  BY OffType
<1>2. "idle" \in Pcs /\ "idle" \notin KeyedPcs \cup EvictPcs
  BY DEF Pcs, KeyedPcs, PrimePcs, CachePcs, BackupPcs, EvictPcs
<1>3. Typed([Off EXCEPT !.ops = n])
  BY <1>1 DEF Typed, WellFormed, Process
<1>4. Typed([Off EXCEPT !.pc = "idle", !.ops = n])
  BY <1>1, <1>2 DEF Typed, WellFormed, Process
<1> QED
  BY <1>3, <1>4

(* Opening a session with every memory node.                               *)
LEMMA ConnectType == ASSUME TypeInv, NEW c \in CN, Connect(c) PROVE TypeInv'
<1>1. cn[c].ops \in 0 .. MaxOps
  BY DEF TypeInv, TypeOK, Process
<1>2. cn' = [cn EXCEPT ![c] = [Off EXCEPT !.pc = "idle", !.ops = cn[c].ops]]
  BY Zenon DEF Connect
<1>3. cn' \in [CN -> Process] /\ \A d \in CN : WellFormed(cn'[d])
  BY <1>1, <1>2, OffWithOps, ProcessUpdate
<1>4. link' \in [CN -> [Nodes -> BOOLEAN]]
  BY DEF Connect, TypeInv, TypeOK
<1> QED
  BY <1>3, <1>4 DEF Connect, TypeInv, TypeOK, mnVars

(* Closing every session, on quit.                                         *)
LEMMA QuitType == ASSUME TypeInv, NEW c \in CN, Quit(c) PROVE TypeInv'
<1>1. cn[c].ops \in 0 .. MaxOps
  BY DEF TypeInv, TypeOK, Process
<1>2. cn' = [cn EXCEPT ![c] = [Off EXCEPT !.ops = cn[c].ops]]
  BY Zenon DEF Quit
<1>3. cn' \in [CN -> Process] /\ \A d \in CN : WellFormed(cn'[d])
  BY <1>1, <1>2, OffWithOps, ProcessUpdate
<1>4. link' \in [CN -> [Nodes -> BOOLEAN]]
  BY DEF Quit, TypeInv, TypeOK
<1> QED
  BY <1>3, <1>4 DEF Quit, TypeInv, TypeOK, mnVars

(* The death of a client process.                                          *)
LEMMA CrashType == ASSUME TypeInv, NEW c \in CN, Crash(c) PROVE TypeInv'
<1>1. cn[c].ops \in 0 .. MaxOps
  BY DEF TypeInv, TypeOK, Process
<1>2. cn' = [cn EXCEPT ![c] = [Off EXCEPT !.ops = cn[c].ops]]
  BY Zenon DEF Crash
<1>3. cn' \in [CN -> Process] /\ \A d \in CN : WellFormed(cn'[d])
  BY <1>1, <1>2, OffWithOps, ProcessUpdate
<1>4. link' \in [CN -> [Nodes -> BOOLEAN]]
  BY DEF Crash, TypeInv, TypeOK
<1>5. faults' \in 0 .. MaxFaults
  BY BoundsAssumption DEF Crash, TypeInv, TypeOK
<1> QED
  BY <1>3, <1>4, <1>5 DEF Crash, TypeInv, TypeOK, mnVars

(* Issuing a command.                                                      *)
LEMMA BeginType ==
  ASSUME TypeInv, NEW c \in CN, NEW o \in Requests, Begin(c, o)
  PROVE  TypeInv'
<1> DEFINE n == cn[c].ops + 1
           s == [Off EXCEPT !.op = o, !.ops = n]
           t == CASE o.kind = "read" -> Probe(s, "read")
                  [] o.kind = "evict" -> EvictFrom(s, 0)
                  [] OTHER -> Probe(s, "write")
<1>1. n \in 0 .. MaxOps
  BY BoundsAssumption DEF Begin, TypeInv, TypeOK, Process
<1>2. cn' = [cn EXCEPT ![c] = t] /\ UNCHANGED <<mnVars, netVars>>
  BY Zenon DEF Begin
<1>3. s \in Process /\ s.op = o
  BY <1>1, OffType DEF Process
<1>4. o.kind # "evict" => o.key \in Keys
  BY DEF Requests
<1> HIDE DEF s
<1>5. o.kind # "evict" => Typed(Probe(s, "read")) /\ Typed(Probe(s, "write"))
  BY <1>3, <1>4, ProbeType DEF ProbePcs
<1>6. Typed(EvictFrom(s, 0))
  BY <1>3, EvictType
<1>7. Typed(t)
  BY <1>5, <1>6
<1> HIDE DEF t
<1>8. cn' \in [CN -> Process] /\ \A d \in CN : WellFormed(cn'[d])
  BY <1>2, <1>7, ProcessUpdate
<1> QED
  BY <1>2, <1>8 DEF TypeInv, TypeOK, mnVars, netVars

(* Setting what one evictor has yet to clear.                              *)
LEMMA TargetUpdate ==
  ASSUME TypeInv, NEW n \in Nodes, NEW e, NEW t \in Nat,
         target' = [target EXCEPT ![n][e] = t]
  PROVE  target' \in [Nodes -> [Evictors -> Nat]]
  BY DEF TypeInv, TypeOK

(* The eviction thread counts.                                             *)
LEMMA ThreadCountType == ASSUME TypeInv, NEW n \in Nodes, ThreadCount(n) PROVE TypeInv'
<1>1. target' = [target EXCEPT ![n][Thread] = EvictTarget(n)]
  BY DEF ThreadCount
<1>2. target' \in [Nodes -> [Evictors -> Nat]]
  BY <1>1, EvictTargetType DEF TypeInv, TypeOK
<1> QED
  BY <1>2 DEF ThreadCount, TypeInv, TypeOK, netVars

(* The evict command: request, answer and failure.                         *)
LEMMA EvictRequestType == ASSUME TypeInv, NEW c \in CN, EvictRequest(c) PROVE TypeInv'
<1> DEFINE s == cn[c]
           t == [s EXCEPT !.pc = "evictReply"]
<1>1. s.pc = "evict" /\ UNCHANGED <<mem, cursor, hung, netVars>>
  BY DEF EvictRequest
<1>2. s \in Process /\ s.idx \in Nodes /\ s.idx + 1 \in Nat
  BY <1>1, KeyedProcess DEF WellFormed, EvictPcs
<1>3. "evictReply" \in Pcs /\ "evictReply" \notin KeyedPcs
  BY DEF Pcs, KeyedPcs, PrimePcs, CachePcs, BackupPcs, EvictPcs
<1>4. Typed(t)
  BY <1>2, <1>3 DEF Typed, WellFormed, Process
<1>5. \/ /\ target' = [target EXCEPT ![s.idx][c] = EvictTarget(s.idx)]
         /\ cn' = [cn EXCEPT ![c] = t]
      \/ /\ cn' = [cn EXCEPT ![c] = EvictFrom(s, s.idx + 1)]
         /\ UNCHANGED target
  BY Zenon DEF EvictRequest
<1>6. Typed(EvictFrom(s, s.idx + 1))
  BY <1>2, EvictType
<1> HIDE DEF t
<1>7. cn' \in [CN -> Process] /\ \A d \in CN : WellFormed(cn'[d])
  BY <1>4, <1>5, <1>6, ProcessUpdate
<1>8. target' \in [Nodes -> [Evictors -> Nat]]
  <2>1. CASE target' = [target EXCEPT ![s.idx][c] = EvictTarget(s.idx)]
    BY <1>2, <2>1, EvictTargetType, TargetUpdate
  <2>2. CASE UNCHANGED target
    BY <2>2 DEF TypeInv, TypeOK
  <2> QED
    BY <1>5, <2>1, <2>2
<1> QED
  BY <1>1, <1>7, <1>8 DEF TypeInv, TypeOK, netVars

(* The answer to an evict request, after the sweep.                        *)
LEMMA EvictAnsweredType == ASSUME TypeInv, NEW c \in CN, EvictAnswered(c) PROVE TypeInv'
<1>1. Typed(EvictFrom(cn[c], cn[c].idx + 1))
  BY KeyedProcess, EvictType
<1>2. cn' = [cn EXCEPT ![c] = EvictFrom(cn[c], cn[c].idx + 1)]
  BY Zenon DEF EvictAnswered
<1>3. cn' \in [CN -> Process] /\ \A d \in CN : WellFormed(cn'[d])
  BY <1>1, <1>2, ProcessUpdate
<1> QED
  BY <1>3 DEF EvictAnswered, TypeInv, TypeOK, mnVars, netVars

(* A session that breaks while an evict request is under way.              *)
LEMMA EvictFailsType == ASSUME TypeInv, NEW c \in CN, EvictFails(c) PROVE TypeInv'
<1>1. Typed(Finish(cn[c], Error))
  BY KeyedProcess, FinishType, ReplyTypes
<1>2. cn' = [cn EXCEPT ![c] = Finish(cn[c], Error)]
  BY Zenon DEF EvictFails
<1>3. cn' \in [CN -> Process] /\ \A d \in CN : WellFormed(cn'[d])
  BY <1>1, <1>2, ProcessUpdate
<1>4. link' \in [CN -> [Nodes -> BOOLEAN]] /\ faults' \in 0 .. MaxFaults
  BY SeveredType DEF EvictFails
<1> QED
  BY <1>3, <1>4 DEF EvictFails, TypeInv, TypeOK, mnVars

(* A sweep clears slots and moves the cursor within the cache.             *)
LEMMA SweepType ==
  ASSUME TypeInv, NEW n \in Nodes, NEW e \in Evictors, Sweep(n, e)
  PROVE  TypeInv'
<1> DEFINE victims == Victims(n, target[n][e])
<1>1. mem' = Cleared(n, victims) /\ UNCHANGED <<netVars, cn>>
  BY Zenon DEF Sweep
<1>2. \/ /\ \E last \in victims :
              cursor' = [cursor EXCEPT ![n] = (last + 1) % SlotCount[n]["cache"]]
         /\ target' = [target EXCEPT ![n][e] = 0]
         /\ UNCHANGED hung
      \/ hung' = [hung EXCEPT ![n] = TRUE] /\ UNCHANGED <<cursor, target>>
  BY Zenon DEF Sweep
<1>3. mem' \in [Addr -> Slot]
  BY <1>1, StartTypes DEF Cleared, TypeInv, TypeOK
<1>4. \A last \in victims : (last + 1) % SlotCount[n]["cache"] \in Nat
  <2>1. SlotCount[n]["cache"] \in Nat
    BY SlotCountAssumption DEF Kinds
  <2> SUFFICES ASSUME NEW last \in victims
               PROVE  (last + 1) % SlotCount[n]["cache"] \in Nat
    OBVIOUS
  <2>2. last \in 0 .. SlotCount[n]["cache"] - 1
    BY DEF Victims, ValidCache, CacheSlots
  <2>3. last + 1 \in Nat /\ SlotCount[n]["cache"] \in Nat \ {0}
    BY <2>1, <2>2
  <2> QED
    BY <2>3, ModType
<1> HIDE DEF victims
<1>5. cursor' \in [Nodes -> Nat]
  BY <1>2, <1>4 DEF TypeInv, TypeOK
<1>6. target' \in [Nodes -> [Evictors -> Nat]]
  <2>1. CASE target' = [target EXCEPT ![n][e] = 0]
    BY <2>1, TargetUpdate
  <2>2. CASE UNCHANGED target
    BY <2>2 DEF TypeInv, TypeOK
  <2> QED
    BY <1>2, <2>1, <2>2
<1>7. hung' \in [Nodes -> BOOLEAN]
  <2>1. CASE hung' = [hung EXCEPT ![n] = TRUE]
    BY <2>1 DEF TypeInv, TypeOK
  <2>2. CASE UNCHANGED hung
    BY <2>2 DEF TypeInv, TypeOK
  <2> QED
    BY <1>2, <2>1, <2>2
<1> QED
  BY <1>1, <1>3, <1>5, <1>6, <1>7 DEF TypeInv, TypeOK, netVars

(* A memory node restarts with an empty region.                            *)
LEMMA RestartType == ASSUME TypeInv, NEW n \in Nodes, Restart(n) PROVE TypeInv'
<1>1. mem' \in [Addr -> Slot]
  BY StartTypes DEF Restart, TypeInv, TypeOK
<1>2. cursor' \in [Nodes -> Nat] /\ hung' \in [Nodes -> BOOLEAN]
  BY DEF Restart, TypeInv, TypeOK
<1>3. target' \in [Nodes -> [Evictors -> Nat]]
  BY DEF Restart, TypeInv, TypeOK
<1>4. link' \in [CN -> [Nodes -> BOOLEAN]]
  BY DEF Restart, TypeInv, TypeOK
<1>5. faults' \in 0 .. MaxFaults
  BY BoundsAssumption DEF Restart, TypeInv, TypeOK
<1> QED
  BY <1>1, <1>2, <1>3, <1>4, <1>5 DEF Restart, TypeInv, TypeOK

(* The initial states are typed.                                           *)
LEMMA InitType == Init => TypeInv
<1> SUFFICES ASSUME Init PROVE TypeInv
  OBVIOUS
<1>1. mem \in [Addr -> Slot] /\ cn \in [CN -> Process] /\ \A c \in CN : WellFormed(cn[c])
  BY StartTypes, OffType DEF Init
<1>2. faults \in 0 .. MaxFaults
  BY BoundsAssumption DEF Init
<1> QED
  BY <1>1, <1>2 DEF Init, TypeInv, TypeOK

(* Every step keeps every variable typed.                                  *)
LEMMA NextType == TypeInv /\ [Next]_vars => TypeInv'
<1> SUFFICES ASSUME TypeInv, [Next]_vars PROVE TypeInv'
  OBVIOUS
<1>1. CASE UNCHANGED vars
  BY <1>1 DEF vars, TypeInv, TypeOK, WellFormed
<1>2. ASSUME NEW c \in CN, ClientNext(c) PROVE TypeInv'
  <2>1. CASE Connect(c) \/ Quit(c) \/ Crash(c)
    BY <2>1, ConnectType, QuitType, CrashType
  <2>2. ASSUME NEW o \in Requests, Begin(c, o) PROVE TypeInv'
    BY <2>2, BeginType
  <2>3. CASE Scan(c) \/ ReadPrime(c) \/ ReadCache(c) \/ WritePrime(c) \/ BackupProbe(c)
    BY <2>3, ScanType, ReadPrimeType, ReadCacheType, WritePrimeType, BackupProbeType
  <2>4. CASE Wait(c) \/ RepairProbe(c) \/ RefreshProbe(c)
    BY <2>4, WaitType, RepairProbeType, RefreshProbeType
  <2>5. CASE \/ WriteBody(c) \/ BackupCommit(c) \/ PrimeCommit(c)
             \/ RepairCommit(c) \/ RefreshCommit(c)
    BY <2>5, WriteBodyType, BackupCommitType, PrimeCommitType, RepairCommitType,
       RefreshCommitType
  <2>6. CASE EvictRequest(c) \/ EvictAnswered(c) \/ EvictFails(c)
    BY <2>6, EvictRequestType, EvictAnsweredType, EvictFailsType
  <2> QED
    BY <1>2, <2>1, <2>2, <2>3, <2>4, <2>5, <2>6 DEF ClientNext, CommandStep
<1>3. ASSUME NEW n \in Nodes, NodeNext(n) PROVE TypeInv'
  BY <1>3, ThreadCountType, RestartType, SweepType DEF NodeNext
<1> QED
  BY <1>1, <1>2, <1>3 DEF Next

(* Type correctness: no step of a client or of a memory node leaves a      *)
(* value where the code's types and bounds do not allow it, and a request  *)
(* always names a memory node that exists.                                 *)
THEOREM TypeCorrect == Spec => []TypeOK
<1>1. Spec => []TypeInv
  BY InitType, NextType, PTL DEF Spec
<1>2. TypeInv => TypeOK
  BY DEF TypeInv
<1> QED
  BY <1>1, <1>2, PTL
=============================================================================
