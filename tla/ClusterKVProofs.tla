--------------------------- MODULE ClusterKVProofs ---------------------------
(***************************************************************************)
(* Proofs about a client that is alone on the cluster, with no failures:   *)
(* the backups hold what the primary holds, a cached slot with the epoch   *)
(* of PRIME is the slot of PRIME, and the commands are those of a map.     *)
(***************************************************************************)
EXTENDS ClusterKV, ClusterChainProofs

Alone(c) == CN = {c} /\ MaxFaults = 0

(***************************************************************************)
(* The invariant.  It speaks of the records: PRIME and BACKUP with the     *)
(* slot under commit as it was probed, so that a commit is one step, its   *)
(* CAS.                                                                    *)
(***************************************************************************)

Records(c) ==
    [a \in RecordAddr |-> IF cn[c].pc \in CasPcs /\ a = Dest(cn[c])
                          THEN Chosen(cn[c]).slot ELSE mem[a]]

Region(n, kind) == {a \in Addr : a[1] = n /\ a[2] = kind}

(* A record of hash h, a live one; none in the slots of a node.            *)
RecordOf(slot, h) == slot.valid /\ slot.hash = h
LiveOf(slot, h) == RecordOf(slot, h) /\ ~slot.tomb
Absent(m, n, kind, h) == \A a \in Region(n, kind) : ~RecordOf(m[a], h)

(* No record is torn, a hash has one record per node and kind, no record   *)
(* lies behind an empty slot, and the tombstones have no value.            *)
Tidy(m) ==
    /\ \A a \in RecordAddr : ~Torn(m[a])
    /\ \A a, b \in RecordAddr :
          a[1] = b[1] /\ a[2] = b[2] /\ m[a].valid /\ RecordOf(m[b], m[a].hash) => a = b
    /\ \A a \in RecordAddr : IntactAt(a, m)
    /\ \A a \in RecordAddr :
          m[a].valid => /\ m[a].tomb <=> m[a].data = Nil
                        /\ m[a].tomb => "delete" \in OpKinds

(* The finished probe p of hash h chose the record of h, or a slot to take *)
(* over when there is none.                                                *)
Picked(p, n, kind, h, m) ==
    /\ <<n, kind, p.at>> \in RecordAddr
    /\ p.slot = m[<<n, kind, p.at>>]
    /\ p.found => RecordOf(p.slot, h)
    /\ ~p.found => Reusable(p.slot) /\ Absent(m, n, kind, h)

Mutating == {"write", "update", "delete"}

(* The command under way is one that was issued, and has not answered.     *)
Commands(s) ==
    /\ s.pc \notin {"off", "idle"}
       => s.op \in Requests /\ s.op.kind \in OpKinds /\ s.reply = NoReply
    /\ s.pc \in {"read", "readCache"} => s.op.kind = "read"
    /\ s.pc \in {"write"} \cup ProposingPcs => s.op.kind \in Mutating
    /\ s.pc \in EvictPcs => s.op.kind = "evict"
    /\ s.pc \in CachePcs => CacheOn /\ s.op.kind # "evict"

(* A probe under way has passed no record of its key.                      *)
Searching(s, m) ==
    s.pc \in {"read", "write", "backup"} =>
        /\ ~s.probe.found
        /\ \A d \in 0 .. s.probe.i - 1 :
              ~RecordOf(m[ChainAt(Node(s), Kind(s), Hash[s.op.key], d)], Hash[s.op.key])
        /\ s.probe.ok => /\ <<Node(s), Kind(s), s.probe.at>> \in RecordAddr
                         /\ s.probe.slot = m[<<Node(s), Kind(s), s.probe.at>>]
                         /\ Reusable(s.probe.slot)

(* The proposal of a write is its slot, one epoch past the slot it chose.  *)
Proposal(s, m) ==
    s.pc \in ProposingPcs =>
        /\ Picked(s.prime, td_primary_session(s.op.key), "prime", Hash[s.op.key], m)
        /\ s.prop.guard = s.prop.visible
        /\ s.prop.visible = s.prime.slot.guard + 1
        /\ s.prop.tomb <=> s.op.kind = "delete"
        /\ s.prop.data = s.op.val
        /\ s.op.val \notin TooLong
        /\ s.op.kind = "update" => LiveOf(s.prime.slot, Hash[s.op.key])

BackupSteps == {"backup", "backupBody", "backupCas"}
PrimeSteps == {"primeBody", "primeCas"}
RepairSteps == {"wait", "repair", "repairBody", "repairCas"}
RefreshSteps == {"refresh", "refreshBody", "refreshCas"}

(* Every backup asked so far has accepted, so that none is to be repaired. *)
Unopposed(s, m) ==
    /\ s.pc \notin RepairSteps
    /\ s.pc \in BackupSteps => /\ s.idx \in Backups
                               /\ \A j \in Backups : j < s.idx => s.votes[j].success
    /\ s.pc \in PrimeSteps => \A j \in Backups : s.votes[j].success
    /\ s.pc \in {"backupBody", "backupCas"}
       => Picked(s.probe, td_replica_session(s.op.key, s.idx), "backup", Hash[s.op.key], m)

(* What is to be answered, or to go into the cache, is the PRIME record.   *)
Answering(s, m) ==
    /\ s.pc = "readCache"
       => /\ Picked(s.prime, td_primary_session(s.op.key), "prime", Hash[s.op.key], m)
          /\ ~s.probe.found
    /\ s.pc \in RefreshSteps
       => /\ RecordOf(s.prop, Hash[s.op.key])
          /\ \E a \in Region(td_primary_session(s.op.key), "prime") : m[a] = s.prop
          /\ s.op.kind = "read" => ~s.prop.tomb

ClientOf(s, m) == /\ Commands(s) /\ Searching(s, m) /\ Proposal(s, m)
                  /\ Unopposed(s, m) /\ Answering(s, m)

(* The backups that hold the proposal of the write under way.              *)
Voted(s) == IF s.pc \in BackupSteps THEN {j \in Backups : j < s.idx}
            ELSE IF s.pc \in PrimeSteps THEN Backups ELSE {}

(* Backup j holds the live record of key k, if there is one.               *)
Copied(m, k, j) ==
    \A a \in Region(td_primary_session(k), "prime") :
        LiveOf(m[a], Hash[k])
        => \E b \in Region(td_replica_session(k, j), "backup") : m[b] = m[a]

(* It holds no live record of a key that has none.                         *)
NoOrphan(m, k, j) ==
    \A b \in Region(td_replica_session(k, j), "backup") :
        LiveOf(m[b], Hash[k])
        => \E a \in Region(td_primary_session(k), "prime") : LiveOf(m[a], Hash[k])

Pledged(m, k, j, prop) == \E b \in Region(td_replica_session(k, j), "backup") : m[b] = prop

(* The copies agree, but for the backups that are ahead of the write under *)
(* way.  With two backups or more a write that fails at the second leaves  *)
(* a record on the first.                                                  *)
Copies(s, m) ==
    \A k \in Keys, j \in Backups :
        IF j \in Voted(s) /\ Hash[k] = Hash[s.op.key]
        THEN Pledged(m, k, j, s.prop)
        ELSE Copied(m, k, j) /\ (BackupCount <= 1 => NoOrphan(m, k, j))

(* Without deletes a key keeps its PRIME slot and the epochs only grow: a  *)
(* body in the cache is older than the record of its hash, or the same.    *)
CacheOlder(e, m) ==
    \E a \in Region(e[1], "prime") :
        /\ RecordOf(m[a], mem[e].hash)
        /\ mem[e].visible <= m[a].visible
        /\ mem[e].visible = m[a].visible => [mem[e] EXCEPT !.guard = m[a].guard] = m[a]

CachesOlder(m) ==
    "delete" \notin OpKinds => \A e \in AddrOf({"cache"}) : mem[e].valid => CacheOlder(e, m)

(* A body that waits for its CAS.                                          *)
HalfWritten(s) ==
    s.pc \in {"backupCas", "primeCas"} => mem[Dest(s)] = [s.prop EXCEPT !.guard = Chosen(s).slot.guard]

AloneOf(c) ==
    /\ cn[c].pc # "off" => \A n \in Nodes : link[c][n]
    /\ HalfWritten(cn[c])
    /\ Tidy(Records(c))
    /\ ClientOf(cn[c], Records(c))
    /\ Copies(cn[c], Records(c))
    /\ CachesOlder(Records(c))

AloneInv(c) == ChainInv /\ AloneOf(c)

(***************************************************************************)
(* Regions and placement.                                                  *)
(***************************************************************************)

(* The slots of PRIME and BACKUP, region by region.                        *)
LEMMA RegionRecord ==
  ASSUME NEW n, NEW kind \in RecordKinds, NEW a \in Region(n, kind)
  PROVE  a \in RecordAddr /\ a[1] = n /\ a[2] = kind /\ a = <<n, kind, a[3]>>
<1>1. a \in Addr /\ a[1] = n /\ a[2] = kind
  BY DEF Region
<1>2. a = <<a[1], a[2], a[3]>>
  BY <1>1, AddrElim
<1> QED
  BY <1>1, <1>2 DEF RecordAddr, AddrOf

(* A slot of PRIME or BACKUP is in its region.                             *)
LEMMA RecordRegion ==
  ASSUME NEW a \in RecordAddr
  PROVE  /\ a \in Addr /\ a[1] \in Nodes /\ a[2] \in RecordKinds
         /\ a \in Region(a[1], a[2]) /\ a = <<a[1], a[2], a[3]>>
<1>1. a \in Addr /\ a[2] \in RecordKinds
  BY DEF RecordAddr, AddrOf
<1> QED
  BY <1>1, AddrElim DEF Region

(* The address <<n, kind, i>> has these parts.                             *)
LEMMA AddrParts ==
  ASSUME NEW n, NEW kind, NEW i, <<n, kind, i>> \in RecordAddr
  PROVE  /\ n \in Nodes /\ kind \in RecordKinds
         /\ <<n, kind, i>> \in Region(n, kind)
<1> DEFINE a == <<n, kind, i>>
<1>1. a[1] = n /\ a[2] = kind
  OBVIOUS
<1> HIDE DEF a
<1>2. a \in RecordAddr
  BY DEF a
<1>3. a[1] \in Nodes /\ a[2] \in RecordKinds /\ a \in Region(a[1], a[2])
  BY <1>2, RecordRegion
<1> QED
  BY <1>1, <1>3 DEF a

(* A probe chain passes every slot of its region.                          *)
LEMMA ChainCovers ==
  ASSUME NEW n \in Nodes, NEW kind \in Kinds, NEW h \in Nat, NEW a \in Region(n, kind)
  PROVE  \E d \in 0 .. SlotCount[n][kind] - 1 : a = ChainAt(n, kind, h, d)
<1> DEFINE m == SlotCount[n][kind]
           x == h % m
           y == a[3]
<1>1. a = <<n, kind, y>> /\ y \in 0 .. m - 1 /\ m \in Nat
  <2>1. a \in Addr /\ a[1] = n /\ a[2] = kind
    BY DEF Region
  <2>2. m \in Nat
    BY SlotCountAssumption
  <2> QED
    BY <2>1, <2>2, AddrElim
<1>2. m \in Nat \ {0}
  BY <1>1
<1>3. x \in 0 .. m - 1
  BY <1>2, ModType
<1>4. \A d : SlotIndex(n, kind, h, d) = (x + d) % m
  BY DEF SlotIndex
<1> HIDE DEF x, m, y
<1>5. \A k \in 0 .. 2 * m - 1 : k % m = IF k < m THEN k ELSE k - m
  BY <1>2, ModSmall
<1> DEFINE d == IF y >= x THEN y - x ELSE (y + m) - x
           k == x + d
<1>6. d \in 0 .. m - 1 /\ k \in 0 .. 2 * m - 1 /\ (k = y \/ k = y + m)
  BY <1>1, <1>2, <1>3
<1>7. SlotIndex(n, kind, h, d) = k % m
  BY <1>4
<1> HIDE DEF k, d
<1>8. k % m = IF k < m THEN k ELSE k - m
  BY <1>5, <1>6
<1>9. k % m = y
  BY <1>1, <1>2, <1>6, <1>8
<1> QED
  BY <1>1, <1>6, <1>7, <1>9 DEF ChainAt, m

(* Those of PRIME and BACKUP in particular.                                *)
LEMMA ChainSurjective ==
  ASSUME NEW n \in Nodes, NEW kind \in RecordKinds, NEW h \in Nat, NEW a \in Region(n, kind)
  PROVE  \E d \in 0 .. SlotCount[n][kind] - 1 : a = ChainAt(n, kind, h, d)
  BY ChainCovers DEF RecordKinds, Kinds

(* Keys of one hash live on the same nodes.                                *)
LEMMA SameHash ==
  ASSUME NEW k \in Keys, NEW l \in Keys, Hash[k] = Hash[l], NEW j
  PROVE  /\ td_primary_session(k) = td_primary_session(l)
         /\ td_replica_session(k, j) = td_replica_session(l, j)
  BY DEF td_primary_session, td_replica_session

(* The replicas of a key are on different nodes.                           *)
LEMMA ReplicasDiffer ==
  ASSUME NEW k \in Keys, NEW i \in Backups, NEW j \in Backups,
         td_replica_session(k, i) = td_replica_session(k, j)
  PROVE  i = j
<1> DEFINE m == NodeCount
           x == td_primary_session(k)
<1>1. m \in Nat \ {0}
  BY NodesAssumption
<1>2. x \in 0 .. m - 1
  BY SessionType DEF Nodes
<1>3. i \in 1 .. m - 1 /\ j \in 1 .. m - 1
  BY NodesAssumption, ConfigAssumption DEF Backups, BackupCount
<1>4. (x + i) % m = (x + j) % m
  BY DEF td_replica_session
<1> HIDE DEF x, m
<1>5. \A u \in 0 .. 2 * m - 1 : u % m = IF u < m THEN u ELSE u - m
  BY <1>1, ModSmall
<1> DEFINE u == x + i
           v == x + j
<1>6. u \in 0 .. 2 * m - 1 /\ v \in 0 .. 2 * m - 1
  BY <1>1, <1>2, <1>3
<1>7. u % m = v % m
  BY <1>4
<1>8. u = x + i /\ v = x + j
  OBVIOUS
<1> HIDE DEF u, v
<1>9. (IF u < m THEN u ELSE u - m) = (IF v < m THEN v ELSE v - m)
  BY <1>5, <1>6, <1>7, Zenon
<1> QED
  BY <1>1, <1>2, <1>3, <1>8, <1>9

(***************************************************************************)
(* What a client alone knows.                                              *)
(***************************************************************************)

(* The parts of the invariant that speak of types.                         *)
LEMMA AloneTypes ==
  ASSUME NEW c, Alone(c), AloneInv(c)
  PROVE  /\ c \in CN /\ TypeInv /\ CommandInv
         /\ cn[c] \in Process /\ WellFormed(cn[c]) /\ CommandOf(cn[c])
         /\ mem \in [Addr -> Slot] /\ cn \in [CN -> Process]
         /\ faults = 0 /\ MaxFaults = 0
<1>1. c \in CN /\ MaxFaults = 0
  BY DEF Alone
<1>2. CommandInv /\ TypeInv
  BY DEF AloneInv, ChainInv, CommandInv
<1>3. cn[c] \in Process /\ WellFormed(cn[c]) /\ CommandOf(cn[c]) /\ faults \in 0 .. MaxFaults
  BY <1>1, <1>2 DEF CommandInv, TypeInv, TypeOK
<1>4. faults = 0
  BY <1>1, <1>3
<1> QED
  BY <1>1, <1>2, <1>3, <1>4 DEF TypeInv, TypeOK

(* Nothing breaks.                                                         *)
LEMMA NothingBreaks ==
  ASSUME NEW c, Alone(c), AloneInv(c), cn[c].pc # "off"
  PROVE  /\ cn[c].pc \in KeyedPcs \cup EvictPcs => ~Severed(c)
         /\ ~Crash(c) /\ ~EvictFails(c)
<1>1. /\ c \in CN /\ cn[c] \in Process /\ WellFormed(cn[c]) /\ faults = 0 /\ MaxFaults = 0
      /\ \A n \in Nodes : link[c][n]
  BY AloneTypes DEF AloneInv, AloneOf
<1>2. cn[c].pc \in KeyedPcs \cup EvictPcs => Node(cn[c]) \in Nodes
  BY <1>1, NodeType
<1>3. ~(faults < MaxFaults)
  BY <1>1
<1>4. cn[c].pc \in KeyedPcs \cup EvictPcs => ~Severed(c)
  BY <1>1, <1>2, <1>3 DEF Severed
<1>5. cn[c].pc \notin {"off", "idle"} => cn[c].pc \in KeyedPcs \cup EvictPcs
  BY <1>1 DEF Process, Pcs, KeyedPcs
<1>6. ~Crash(c)
  BY <1>1, <1>2, <1>3, <1>5 DEF Crash
<1> QED
  BY <1>4, <1>6 DEF EvictFails

(* No memory node restarts.                                                *)
LEMMA NoRestart ==
  ASSUME NEW c, Alone(c), AloneInv(c), NEW n
  PROVE  ~Restart(n)
<1>1. ~(faults < MaxFaults)
  BY AloneTypes
<1> QED
  BY <1>1 DEF Restart

(* The records are slots; between the requests of a commit they are the    *)
(* slots in memory.                                                        *)
LEMMA RecordsType ==
  ASSUME NEW c, Alone(c), AloneInv(c)
  PROVE  /\ Records(c) \in [RecordAddr -> Slot]
         /\ cn[c].pc \notin {"backupCas", "primeCas"}
            => \A a \in RecordAddr : Records(c)[a] = mem[a]
         /\ cn[c].pc \in {"backupCas", "primeCas"}
            => \A a \in RecordAddr : Records(c)[a] = IF a = Dest(cn[c]) THEN Chosen(cn[c]).slot
                                                     ELSE mem[a]
<1> DEFINE s == cn[c]
<1>1. s \in Process /\ mem \in [Addr -> Slot]
  BY AloneTypes
<1>2. Chosen(s).slot \in Slot
  BY <1>1 DEF Chosen, Process, ProbeRecord
<1>3. RecordAddr \subseteq Addr
  BY DEF RecordAddr, AddrOf
<1>4. s.pc \in CasPcs => s.pc \in {"backupCas", "primeCas"} \/ Dest(s) \notin RecordAddr
  <2> SUFFICES ASSUME s.pc \in CasPcs, s.pc \notin {"backupCas", "primeCas"}
               PROVE  Dest(s) \notin RecordAddr
    OBVIOUS
  <2>1. s.pc \in {"repairCas", "refreshCas"}
    BY DEF CasPcs, BodyPcs, CasOf
  <2>2. s.pc \notin RepairSteps
    BY DEF AloneInv, AloneOf, ClientOf, Unopposed
  <2>3. Kind(s) = "cache"
    BY <2>1, <2>2 DEF Kind, CachePcs, RepairSteps
  <2>4. Dest(s)[2] = "cache"
    BY <2>3 DEF Dest
  <2> QED
    BY <2>4 DEF RecordAddr, AddrOf, RecordKinds
<1>5. {"backupCas", "primeCas"} \subseteq CasPcs
  BY DEF CasPcs, BodyPcs, CasOf
<1>6. Records(c) \in [RecordAddr -> Slot]
  BY <1>1, <1>2, <1>3 DEF Records
<1>7. \A a \in RecordAddr : Records(c)[a] = IF s.pc \in CasPcs /\ a = Dest(s)
                                            THEN Chosen(s).slot ELSE mem[a]
  BY DEF Records
<1> QED
  BY <1>4, <1>5, <1>6, <1>7

(***************************************************************************)
(* Probes of PRIME and BACKUP.                                             *)
(***************************************************************************)

SearchPcs == {"read", "write", "backup"}

(* Where a probe looks.                                                    *)
LEMMA SearchPlace ==
  ASSUME NEW c, Alone(c), AloneInv(c), cn[c].pc \in SearchPcs
  PROVE  /\ cn[c].pc \in ProbePcs /\ cn[c].op.key \in Keys /\ Hash[cn[c].op.key] \in Nat
         /\ Node(cn[c]) \in Nodes /\ Kind(cn[c]) \in RecordKinds
         /\ cn[c].pc = "backup" => /\ Kind(cn[c]) = "backup"
                                   /\ Node(cn[c]) = td_replica_session(cn[c].op.key, cn[c].idx)
         /\ cn[c].pc # "backup" => /\ Kind(cn[c]) = "prime"
                                   /\ Node(cn[c]) = td_primary_session(cn[c].op.key)
         /\ Count(cn[c]) \in Nat
         /\ cn[c].probe \in ProbeRecord
<1> DEFINE s == cn[c]
<1>1. s \in Process /\ WellFormed(s) /\ s.pc \in ProbePcs /\ s.pc \in KeyedPcs
  BY AloneTypes DEF SearchPcs, ProbePcs, KeyedPcs, PrimePcs, BackupPcs
<1>2. s.op.key \in Keys /\ Hash[s.op.key] \in Nat
  BY <1>1, HashAssumption DEF WellFormed
<1>3. Node(s) \in Nodes /\ Kind(s) \in Kinds
  BY <1>1, NodeType
<1>4. Count(s) \in Nat
  BY <1>3, SlotCountAssumption DEF Count
<1>5. /\ s.pc = "backup" => /\ Kind(s) = "backup"
                            /\ Node(s) = td_replica_session(s.op.key, s.idx)
      /\ s.pc # "backup" => /\ Kind(s) = "prime"
                            /\ Node(s) = td_primary_session(s.op.key)
  BY DEF SearchPcs, Kind, Node, CachePcs, BackupPcs, EvictPcs
<1>6. s.probe \in ProbeRecord
  BY <1>1 DEF Process
<1> QED
  BY <1>1, <1>2, <1>3, <1>4, <1>5, <1>6 DEF RecordKinds

(* The next slot on the chain.                                             *)
LEMMA SearchSlot ==
  ASSUME NEW c, Alone(c), AloneInv(c), cn[c].pc \in SearchPcs, Count(cn[c]) > 0,
         NEW n, NEW kind, NEW h, NEW i, NEW a, NEW m,
         n = Node(cn[c]), kind = Kind(cn[c]), h = Hash[cn[c].op.key],
         i = cn[c].probe.i, a = ChainAt(n, kind, h, i), m = Records(c)
  PROVE  /\ i \in 0 .. SlotCount[n][kind] - 1
         /\ a \in RecordAddr /\ a = <<n, kind, FetchAt(c)>>
         /\ Fetched(c) = m[a] /\ ~Torn(m[a]) /\ m[a] \in Slot
<1> DEFINE s == cn[c]
<1>1. /\ s.pc \in ProbePcs /\ h \in Nat /\ n \in Nodes /\ kind \in RecordKinds
      /\ Count(s) \in Nat /\ s.probe \in ProbeRecord
  BY SearchPlace
<1>2. i \in Nat /\ (i = 0 \/ i < Count(s))
  BY <1>1, AloneTypes DEF CommandOf, ProbeRecord
<1>3. Count(s) = SlotCount[n][kind]
  BY DEF Count
<1>4. i \in 0 .. SlotCount[n][kind] - 1 /\ SlotCount[n][kind] > 0
  BY <1>1, <1>2, <1>3
<1>5. a \in RecordAddr
  BY <1>1, <1>2, <1>4, ChainAddr
<1>6. a = <<n, kind, FetchAt(c)>>
  BY DEF ChainAt, FetchAt
<1>7. Fetched(c) = mem[a]
  BY <1>6 DEF Fetched
<1>8. m[a] = mem[a] /\ m[a] \in Slot
  BY <1>5, RecordsType DEF SearchPcs
<1>9. ~Torn(m[a])
  BY <1>5 DEF AloneInv, AloneOf, Tidy
<1> QED
  BY <1>4, <1>5, <1>6, <1>7, <1>8, <1>9

(* A fetch finds the record of the key, or none is among the slots passed. *)
LEMMA ExaminedSearch ==
  ASSUME NEW c, Alone(c), AloneInv(c), cn[c].pc \in SearchPcs, Count(cn[c]) > 0,
         NEW n, NEW kind, NEW h, NEW i, NEW a, NEW m, NEW q,
         n = Node(cn[c]), kind = Kind(cn[c]), h = Hash[cn[c].op.key],
         i = cn[c].probe.i, a = ChainAt(n, kind, h, i), m = Records(c), q = Examined(c)
  PROVE  /\ q.i = i + 1
         /\ q.found => /\ RecordOf(m[a], h) /\ q.ok
                       /\ <<n, kind, q.at>> = a /\ q.slot = m[a]
         /\ ~q.found => /\ \A d \in 0 .. i : ~RecordOf(m[ChainAt(n, kind, h, d)], h)
                        /\ q.ok => /\ <<n, kind, q.at>> \in RecordAddr
                                   /\ q.slot = m[<<n, kind, q.at>>]
                                   /\ Reusable(q.slot)
<1> DEFINE s == cn[c]
           p == s.probe
<1>1. /\ a \in RecordAddr /\ a = <<n, kind, FetchAt(c)>> /\ Fetched(c) = m[a]
      /\ ~Torn(m[a]) /\ i \in Nat
  BY SearchSlot
<1>2. p \in ProbeRecord
  BY SearchPlace
<1>3. /\ ~p.found
      /\ \A d \in 0 .. i - 1 : ~RecordOf(m[ChainAt(n, kind, h, d)], h)
      /\ p.ok => /\ <<n, kind, p.at>> \in RecordAddr
                 /\ p.slot = m[<<n, kind, p.at>>]
                 /\ Reusable(p.slot)
  BY DEF AloneInv, AloneOf, ClientOf, Searching, SearchPcs
<1>4. Matches(m[a], h) <=> RecordOf(m[a], h)
  BY <1>1 DEF Matches, RecordOf
<1>5. q = Examine(p, FetchAt(c), m[a], h)
  BY <1>1 DEF Examined
<1>6. CASE Matches(m[a], h)
  <2>1. q = [i |-> i + 1, ok |-> TRUE, at |-> FetchAt(c), slot |-> m[a], found |-> TRUE]
    BY <1>5, <1>6 DEF Examine
  <2>2. q.i = i + 1 /\ q.at = FetchAt(c) /\ q.slot = m[a] /\ q.ok /\ q.found
    BY <2>1
  <2> QED
    BY <1>1, <1>4, <1>6, <2>2
<1>7. CASE ~Matches(m[a], h)
  <2>1. \A d \in 0 .. i : ~RecordOf(m[ChainAt(n, kind, h, d)], h)
    <3> SUFFICES ASSUME NEW d \in 0 .. i PROVE ~RecordOf(m[ChainAt(n, kind, h, d)], h)
      OBVIOUS
    <3>1. d = i \/ d \in 0 .. i - 1
      BY <1>1
    <3> QED
      BY <1>3, <1>4, <1>7, <3>1
  <2>2. CASE Reusable(m[a]) /\ ~p.ok
    <3>1. q = [i |-> i + 1, ok |-> TRUE, at |-> FetchAt(c), slot |-> m[a], found |-> FALSE]
      BY <1>5, <1>7, <2>2 DEF Examine
    <3>2. q.i = i + 1 /\ q.at = FetchAt(c) /\ q.slot = m[a] /\ ~q.found
      BY <3>1
    <3> QED
      BY <1>1, <2>1, <2>2, <3>2
  <2>3. CASE ~(Reusable(m[a]) /\ ~p.ok)
    <3>1. q = [p EXCEPT !.i = i + 1]
      BY <1>5, <1>7, <2>3 DEF Examine
    <3>2. q.i = i + 1 /\ q.at = p.at /\ q.slot = p.slot /\ q.found = p.found /\ q.ok = p.ok
      BY <1>2, <3>1 DEF ProbeRecord
    <3> QED
      BY <1>3, <2>1, <3>2
  <2> QED
    BY <2>2, <2>3
<1> QED
  BY <1>6, <1>7

(* A probe that has stopped without a record has seen every slot where     *)
(* there could be one.                                                     *)
LEMMA NoneLeft ==
  ASSUME NEW n \in Nodes, NEW kind \in RecordKinds, NEW h \in Nat, NEW i \in Nat, NEW m,
         \A d \in 0 .. i : ~RecordOf(m[ChainAt(n, kind, h, d)], h),
         Tidy(m), i < SlotCount[n][kind],
         td_slot_is_empty(m[ChainAt(n, kind, h, i)]) \/ i + 1 = SlotCount[n][kind]
  PROVE  Absent(m, n, kind, h)
<1> SUFFICES ASSUME NEW a \in Region(n, kind), RecordOf(m[a], h) PROVE FALSE
  BY DEF Absent
<1>1. PICK d \in 0 .. SlotCount[n][kind] - 1 : a = ChainAt(n, kind, h, d)
  BY ChainSurjective
<1>2. SlotCount[n][kind] \in Nat
  BY SlotCountAssumption DEF RecordKinds, Kinds
<1>3. d \notin 0 .. i
  BY <1>1
<1>4. d > i /\ i + 1 # SlotCount[n][kind]
  BY <1>2, <1>3
<1>5. a \in RecordAddr /\ a[1] = n /\ a[2] = kind
  BY RegionRecord
<1>6. IntactAt(a, m) /\ m[a].valid /\ m[a].hash = h
  BY <1>5 DEF Tidy, RecordOf
<1>7. Occupied(n, kind, h, d, m)
  BY <1>1, <1>5, <1>6 DEF IntactAt
<1>8. i \in 0 .. d - 1
  BY <1>2, <1>4
<1> QED
  BY <1>4, <1>7, <1>8 DEF Occupied

(* td_probe_slot returns: a candidate was picked, or there is no record.   *)
LEMMA SearchReturns ==
  ASSUME NEW c, Alone(c), AloneInv(c), cn[c].pc \in SearchPcs,
         NEW r, ProbeReturns(c, r), NEW m, m = Records(c)
  PROVE  /\ UNCHANGED netVars /\ r \in ProbeRecord
         /\ r.ok => Picked(r, Node(cn[c]), Kind(cn[c]), Hash[cn[c].op.key], m)
         /\ ~r.ok => Absent(m, Node(cn[c]), Kind(cn[c]), Hash[cn[c].op.key])
<1> DEFINE s == cn[c]
           n == Node(s)
           kind == Kind(s)
           h == Hash[s.op.key]
           i == s.probe.i
           a == ChainAt(n, kind, h, i)
           q == Examined(c)
<1>1. /\ s.pc \in ProbePcs /\ s.op.key \in Keys /\ h \in Nat /\ n \in Nodes
      /\ kind \in RecordKinds /\ Count(s) \in Nat
  BY SearchPlace
<1>2. r \in ProbeRecord
  BY <1>1, AloneTypes, ProbeReturnsType
<1>3. ~Severed(c)
  <2>1. s.pc # "off" /\ s.pc \in KeyedPcs
    BY DEF SearchPcs, KeyedPcs, PrimePcs, BackupPcs
  <2> QED
    BY <2>1, NothingBreaks
<1>4. CASE Count(s) = 0
  <2>1. UNCHANGED netVars /\ r = ProbeStart
    BY <1>3, <1>4 DEF ProbeReturns
  <2>2. Region(n, kind) = {}
    <3> SUFFICES ASSUME NEW b \in Region(n, kind) PROVE FALSE
      OBVIOUS
    <3>1. \E d \in 0 .. SlotCount[n][kind] - 1 : b = ChainAt(n, kind, h, d)
      BY <1>1, ChainSurjective
    <3> QED
      BY <1>4, <3>1 DEF Count
  <2> QED
    BY <1>2, <2>1, <2>2 DEF Absent, ProbeStart
<1>5. CASE Count(s) > 0
  <2>1. UNCHANGED netVars /\ r = q /\ ProbeOver(q, Fetched(c), Count(s))
    BY <1>3, <1>5 DEF ProbeReturns
  <2>2. /\ i \in 0 .. SlotCount[n][kind] - 1 /\ a \in RecordAddr
        /\ Fetched(c) = m[a]
    BY <1>5, SearchSlot
  <2>3. /\ q.i = i + 1
        /\ q.found => /\ RecordOf(m[a], h) /\ q.ok
                      /\ <<n, kind, q.at>> = a /\ q.slot = m[a]
        /\ ~q.found => /\ \A d \in 0 .. i : ~RecordOf(m[ChainAt(n, kind, h, d)], h)
                       /\ q.ok => /\ <<n, kind, q.at>> \in RecordAddr
                                  /\ q.slot = m[<<n, kind, q.at>>]
                                  /\ Reusable(q.slot)
    BY <1>5, ExaminedSearch
  <2>4. Tidy(m)
    BY DEF AloneInv, AloneOf
  <2> HIDE DEF q, a, i, n, kind, h
  <2>5. ~q.found => Absent(m, n, kind, h)
    <3> SUFFICES ASSUME ~q.found PROVE Absent(m, n, kind, h)
      OBVIOUS
    <3>1. td_slot_is_empty(m[a]) \/ q.i = Count(s)
      BY <2>1, <2>2 DEF ProbeOver
    <3>2. i \in Nat /\ i < SlotCount[n][kind] /\ Count(s) = SlotCount[n][kind]
      BY <1>1, <2>2 DEF Count, n, kind
    <3>3. td_slot_is_empty(m[ChainAt(n, kind, h, i)]) \/ i + 1 = SlotCount[n][kind]
      BY <2>3, <3>1, <3>2 DEF a
    <3> QED
      BY <1>1, <2>3, <2>4, <3>2, <3>3, NoneLeft
  <2>6. q.ok => Picked(q, n, kind, h, m)
    BY <2>2, <2>3, <2>5 DEF Picked
  <2> QED
    BY <1>2, <2>1, <2>3, <2>5, <2>6 DEF n, kind, h
<1> QED
  BY <1>1, <1>4, <1>5

(***************************************************************************)
(* Steps that leave the records alone.                                     *)
(***************************************************************************)

(* No write under way has reached a backup.                                *)
AllCopied(m) == \A k \in Keys, j \in Backups :
                    Copied(m, k, j) /\ (BackupCount <= 1 => NoOrphan(m, k, j))

(* Then every copy agrees.                                                 *)
LEMMA UnvotedCopies ==
  ASSUME NEW s, NEW m, Voted(s) = {}
  PROVE  Copies(s, m) <=> AllCopied(m)
  BY DEF Copies, AllCopied

(* A process at rest has nothing to say of the records.                    *)
LEMMA RestClient ==
  ASSUME NEW t, NEW m, t.pc \in {"off", "idle"}
  PROVE  ClientOf(t, m) /\ Voted(t) = {}
  BY DEF ClientOf, Commands, Searching, Proposal, Unopposed, Answering, Voted, ProposingPcs,
         EvictPcs, CachePcs, RepairSteps, BackupSteps, PrimeSteps, RefreshSteps

(* A step that writes no record and is not in the middle of a commit.      *)
LEMMA StillStep ==
  ASSUME NEW c, Alone(c), AloneInv(c), NEW t, cn' = [cn EXCEPT ![c] = t],
         cn[c].pc \notin {"backupCas", "primeCas"}, t.pc \notin {"backupCas", "primeCas"},
         \A a \in RecordAddr : mem'[a] = mem[a],
         t.pc # "off" => \A n \in Nodes : link'[c][n],
         t.pc \in CasPcs => Kind(t) = "cache",
         ClientOf(t, Records(c)), Copies(t, Records(c)),
         Records(c)' = Records(c) => CachesOlder(Records(c))'
  PROVE  AloneOf(c)' /\ Records(c)' = Records(c)
<1> DEFINE m == Records(c)
<1>1. c \in CN /\ cn \in [CN -> Process]
  BY AloneTypes
<1>2. cn'[c] = t
  BY <1>1
<1>3. Dest(t)[2] = Kind(t)
  BY DEF Dest
<1>4. t.pc \in CasPcs => Dest(t) \notin RecordAddr
  BY <1>3 DEF RecordAddr, AddrOf, RecordKinds
<1>5. m = [a \in RecordAddr |-> mem[a]]
  <2>1. \A a \in RecordAddr : m[a] = mem[a]
    BY RecordsType
  <2>2. m = [a \in RecordAddr |-> m[a]]
    BY DEF Records
  <2> QED
    BY <2>1, <2>2
<1>6. Records(c)' = m
  <2>1. Records(c)' = [a \in RecordAddr |-> IF t.pc \in CasPcs /\ a = Dest(t)
                                            THEN Chosen(t).slot ELSE mem'[a]]
    BY <1>2 DEF Records, Dest, Chosen, Node, Kind
  <2>2. \A a \in RecordAddr : (IF t.pc \in CasPcs /\ a = Dest(t)
                              THEN Chosen(t).slot ELSE mem'[a]) = mem[a]
    BY <1>4
  <2> QED
    BY <1>5, <2>1, <2>2
<1>7. Tidy(m)
  BY DEF AloneInv, AloneOf
<1> HIDE DEF m
<1>8. HalfWritten(cn[c])'
  BY <1>2 DEF HalfWritten
<1>9. CachesOlder(Records(c))'
  BY <1>6 DEF m
<1>10. ClientOf(cn[c], Records(c))'
  <2>1. ClientOf(t, m)
    BY DEF m
  <2> QED
    BY <1>2, <1>6, <2>1
<1>11. Copies(cn[c], Records(c))'
  <2>1. Copies(t, m)
    BY DEF m
  <2> QED
    BY <1>2, <1>6, <2>1
<1>12. Tidy(Records(c))'
  BY <1>6, <1>7
<1> QED
  BY <1>2, <1>6, <1>8, <1>9, <1>10, <1>11, <1>12 DEF AloneOf, m

(* A step of the client that writes nothing.                               *)
LEMMA SilentStep ==
  ASSUME NEW c, Alone(c), AloneInv(c), NEW t, cn' = [cn EXCEPT ![c] = t],
         cn[c].pc \notin {"backupCas", "primeCas"}, t.pc \notin CasPcs,
         mem' = mem, t.pc # "off" => \A n \in Nodes : link'[c][n],
         ClientOf(t, Records(c)), Copies(t, Records(c))
  PROVE  AloneOf(c)' /\ Records(c)' = Records(c)
<1>1. {"backupCas", "primeCas"} \subseteq CasPcs
  BY DEF CasPcs, BodyPcs, CasOf
<1>2. CachesOlder(Records(c))
  BY DEF AloneInv, AloneOf
<1>3. Records(c)' = Records(c) => CachesOlder(Records(c))'
  BY <1>2 DEF CachesOlder, CacheOlder
<1> QED
  BY <1>1, <1>3, StillStep

(* The same with the sessions as they were.                                *)
LEMMA CalmStep ==
  ASSUME NEW c, Alone(c), AloneInv(c), NEW t, cn' = [cn EXCEPT ![c] = t],
         cn[c].pc \notin {"off", "backupCas", "primeCas"}, t.pc \notin CasPcs,
         mem' = mem, link' = link, ClientOf(t, Records(c)), Copies(t, Records(c))
  PROVE  AloneOf(c)' /\ Records(c)' = Records(c)
<1>1. \A n \in Nodes : link'[c][n]
  BY DEF AloneInv, AloneOf
<1>2. cn[c].pc \notin {"backupCas", "primeCas"}
  OBVIOUS
<1>3. t.pc # "off" => \A n \in Nodes : link'[c][n]
  BY <1>1
<1> QED
  BY <1>2, <1>3, SilentStep

(* A command that has written no copy yet returns.                         *)
LEMMA RestKeeps ==
  ASSUME NEW c, Alone(c), AloneInv(c), NEW t, cn' = [cn EXCEPT ![c] = t],
         cn[c].pc \notin {"off", "backupCas", "primeCas"}, t.pc = "idle",
         mem' = mem, link' = link, AllCopied(Records(c))
  PROVE  AloneOf(c)' /\ Records(c)' = Records(c)
<1>1. ClientOf(t, Records(c)) /\ Voted(t) = {}
  BY RestClient
<1>2. Copies(t, Records(c))
  BY <1>1, UnvotedCopies
<1>3. t.pc \notin CasPcs
  BY DEF CasPcs, BodyPcs, CasOf
<1> QED
  BY <1>1, <1>2, <1>3, CalmStep, Zenon

(* The copies agree unless a write is under way.                           *)
LEMMA AloneCopied ==
  ASSUME NEW c, Alone(c), AloneInv(c), cn[c].pc \notin BackupSteps \cup PrimeSteps
  PROVE  AllCopied(Records(c))
<1>1. Voted(cn[c]) = {}
  BY DEF Voted
<1> QED
  BY <1>1, UnvotedCopies DEF AloneInv, AloneOf

(* td_cluster_init and td_cluster_close.                                   *)
LEMMA SessionAlone ==
  ASSUME NEW c, Alone(c), AloneInv(c), Connect(c) \/ Quit(c)
  PROVE  AloneOf(c)' /\ Records(c)' = Records(c)
<1> DEFINE s == cn[c]
           t == [Off EXCEPT !.pc = "idle", !.ops = s.ops]
           u == [Off EXCEPT !.ops = s.ops]
<1>1. c \in CN /\ TypeInv
  BY AloneTypes
<1>2. t.pc = "idle" /\ u.pc = "off"
  BY DEF Off
<1>3. s.pc \in {"off", "idle"} /\ mem' = mem
  BY DEF Connect, Quit, mnVars
<1>4. AllCopied(Records(c))
  BY <1>3, AloneCopied DEF BackupSteps, PrimeSteps
<1>5. CASE Connect(c)
  <2>1. cn' = [cn EXCEPT ![c] = t] /\ link' = [link EXCEPT ![c] = [n \in Nodes |-> TRUE]]
    BY <1>5 DEF Connect
  <2>2. \A n \in Nodes : link'[c][n]
    BY <1>1, <2>1 DEF TypeInv, TypeOK
  <2> HIDE DEF t
  <2>3. ClientOf(t, Records(c)) /\ Voted(t) = {}
    BY <1>2, RestClient
  <2>4. Copies(t, Records(c))
    BY <1>4, <2>3, UnvotedCopies
  <2>5. t.pc \notin CasPcs /\ s.pc \notin {"backupCas", "primeCas"}
    BY <1>2, <1>3 DEF CasPcs, BodyPcs, CasOf
  <2> QED
    BY <1>3, <2>1, <2>2, <2>3, <2>4, <2>5, SilentStep
<1>6. CASE Quit(c)
  <2>1. cn' = [cn EXCEPT ![c] = u]
    BY <1>6 DEF Quit
  <2> HIDE DEF u
  <2>3. ClientOf(u, Records(c)) /\ Voted(u) = {}
    BY <1>2, RestClient
  <2>4. Copies(u, Records(c))
    BY <1>4, <2>3, UnvotedCopies
  <2>5. u.pc \notin CasPcs /\ s.pc \notin {"backupCas", "primeCas"}
    BY <1>2, <1>3 DEF CasPcs, BodyPcs, CasOf
  <2> QED
    BY <1>2, <1>3, <2>1, <2>3, <2>4, <2>5, SilentStep
<1> QED
  BY <1>5, <1>6

(* A process with a fresh probe has passed no slot.                        *)
LEMMA FreshSearching ==
  ASSUME NEW t, NEW m, t.probe = ProbeStart
  PROVE  Searching(t, m) /\ ~t.probe.found
  BY DEF Searching, ProbeStart

(* A process that begins a command, or goes on with evict.                 *)
LEMMA OpeningClient ==
  ASSUME NEW t, NEW m, t.probe = ProbeStart, t.reply = NoReply, t.op \in Requests,
         t.op.kind \in OpKinds,
         \/ t.pc = "read" /\ t.op.kind = "read"
         \/ t.pc = "write" /\ t.op.kind \in Mutating
         \/ t.pc \in EvictPcs /\ t.op.kind = "evict"
  PROVE  ClientOf(t, m) /\ Voted(t) = {} /\ t.pc \notin CasPcs
<1>1. Searching(t, m)
  BY FreshSearching
<1> QED
  BY <1>1 DEF ClientOf, Commands, Proposal, Unopposed, Answering, Voted, ProposingPcs, Mutating,
         EvictPcs, CachePcs, RepairSteps, BackupSteps, PrimeSteps, RefreshSteps,
         CasPcs, BodyPcs, CasOf

(* td_cluster_execute.                                                     *)
LEMMA BeginAlone ==
  ASSUME NEW c, Alone(c), AloneInv(c), NEW o \in Requests, o.kind \in OpKinds, Begin(c, o)
  PROVE  AloneOf(c)' /\ Records(c)' = Records(c)
<1> DEFINE s == cn[c]
           u == [Off EXCEPT !.op = o, !.ops = s.ops + 1]
           v == Finish(u, Reply("evicted", Nil, 0))
           t == CASE o.kind = "read" -> Probe(u, "read")
                  [] o.kind = "evict" -> EvictFrom(u, 0)
                  [] OTHER -> Probe(u, "write")
<1>1. /\ s.pc = "idle" /\ cn' = [cn EXCEPT ![c] = t] /\ mem' = mem /\ link' = link
  BY Zenon DEF Begin, mnVars, netVars
<1>2. AllCopied(Records(c))
  BY <1>1, AloneCopied DEF BackupSteps, PrimeSteps
<1>3. 0 \in Nodes
  BY NodesAssumption DEF Nodes
<1>4. /\ t.probe = ProbeStart /\ t.reply = NoReply /\ t.op = o
      /\ \/ t.pc = "read" /\ o.kind = "read"
         \/ t.pc = "write" /\ o.kind \in Mutating
         \/ t.pc \in EvictPcs /\ o.kind = "evict"
  <2>1. o.kind \in {"read", "evict"} \cup Mutating
    BY DEF Requests, Mutating
  <2>2. CASE o.kind = "read"
    <3>1. t = Probe(u, "read")
      BY <2>2
    <3> QED
      BY <2>2, <3>1 DEF Probe, Off
  <2>3. CASE o.kind = "evict"
    <3>1. t = [u EXCEPT !.pc = "evict", !.idx = 0]
      BY <1>3, <2>3 DEF EvictFrom
    <3> QED
      BY <2>3, <3>1 DEF Off, EvictPcs
  <2>4. CASE o.kind \in Mutating
    <3>1. o.kind # "read" /\ o.kind # "evict"
      BY <2>4 DEF Mutating
    <3>2. t = Probe(u, "write")
      BY <3>1
    <3> QED
      BY <2>4, <3>2 DEF Probe, Off
  <2> QED
    BY <2>1, <2>2, <2>3, <2>4
<1> HIDE DEF t
<1>5. ClientOf(t, Records(c)) /\ Voted(t) = {} /\ t.pc \notin CasPcs
  BY <1>4, OpeningClient
<1>6. Copies(t, Records(c))
  BY <1>2, <1>5, UnvotedCopies
<1>7. s.pc \notin {"off", "backupCas", "primeCas"}
  BY <1>1
<1> QED
  BY <1>1, <1>5, <1>6, <1>7, CalmStep, Zenon

(* A memory node answers evict.                                            *)
LEMMA EvictAlone ==
  ASSUME NEW c, Alone(c), AloneInv(c), EvictRequest(c) \/ EvictAnswered(c)
  PROVE  AloneOf(c)' /\ Records(c)' = Records(c)
<1> DEFINE s == cn[c]
           u == [s EXCEPT !.pc = "evictReply"]
           v == EvictFrom(s, s.idx + 1)
           w == [s EXCEPT !.pc = "evict", !.idx = s.idx + 1]
<1>1. /\ s.pc \in EvictPcs /\ mem' = mem /\ link' = link
      /\ cn' = [cn EXCEPT ![c] = u] \/ cn' = [cn EXCEPT ![c] = v]
  BY DEF EvictRequest, EvictAnswered, EvictPcs, mnVars, netVars
<1>2. s \in Process
  BY AloneTypes
<1>3. s.op \in Requests /\ s.op.kind \in OpKinds /\ s.reply = NoReply /\ s.op.kind = "evict"
  <2>1. s.pc \notin {"off", "idle"}
    BY <1>1 DEF EvictPcs
  <2> QED
    BY <1>1, <2>1 DEF AloneInv, AloneOf, ClientOf, Commands
<1>4. AllCopied(Records(c)) /\ s.pc \notin {"off", "backupCas", "primeCas"}
  BY <1>1, AloneCopied DEF BackupSteps, PrimeSteps, EvictPcs
<1>5. ASSUME NEW t, cn' = [cn EXCEPT ![c] = t], t.pc \in EvictPcs, t.op = s.op, t.reply = s.reply
      PROVE  AloneOf(c)' /\ Records(c)' = Records(c)
  <2>1. Voted(t) = {} /\ t.pc \notin CasPcs
    BY <1>5 DEF Voted, BackupSteps, PrimeSteps, EvictPcs, CasPcs, BodyPcs, CasOf
  <2>2. ClientOf(t, Records(c))
    BY <1>3, <1>5 DEF ClientOf, Commands, Searching, Proposal, Unopposed, Answering, ProposingPcs,
         EvictPcs, CachePcs, RepairSteps, BackupSteps, PrimeSteps, RefreshSteps
  <2>3. Copies(t, Records(c))
    BY <1>4, <2>1, UnvotedCopies
  <2> QED
    BY <1>1, <1>4, <1>5, <2>1, <2>2, <2>3, CalmStep
<1>6. CASE cn' = [cn EXCEPT ![c] = u]
  <2>1. u.pc \in EvictPcs /\ u.op = s.op /\ u.reply = s.reply
    BY <1>2 DEF Process, EvictPcs
  <2> HIDE DEF u
  <2> QED
    BY <1>5, <1>6, <2>1
<1>7. CASE cn' = [cn EXCEPT ![c] = v]
  <2>1. CASE s.idx + 1 \in Nodes
    <3>1. v = w
      BY <2>1 DEF EvictFrom
    <3>2. w.pc \in EvictPcs /\ w.op = s.op /\ w.reply = s.reply
      BY <1>2 DEF Process, EvictPcs
    <3> HIDE DEF v, w
    <3> QED
      BY <1>5, <1>7, <3>1, <3>2
  <2>2. CASE s.idx + 1 \notin Nodes
    <3>1. v.pc = "idle"
      BY <2>2 DEF EvictFrom, Finish, Off
    <3> HIDE DEF v
    <3> QED
      BY <1>1, <1>4, <1>7, <3>1, RestKeeps
  <2> QED
    BY <2>1, <2>2
<1> QED
  BY <1>1, <1>6, <1>7

(* td_probe_slot goes on to the next slot.                                 *)
LEMMA ScanAlone ==
  ASSUME NEW c, Alone(c), AloneInv(c), Scan(c)
  PROVE  AloneOf(c)' /\ Records(c)' = Records(c)
<1> DEFINE s == cn[c]
           q == Examined(c)
           t == [s EXCEPT !.probe = q]
           m == Records(c)
<1>1. /\ s.pc \in ProbePcs /\ Count(s) > 0 /\ ~ProbeOver(q, Fetched(c), Count(s))
      /\ mem' = mem /\ link' = link
  BY DEF Scan, mnVars, netVars
<1>2. c \in CN /\ s \in Process /\ cn \in [CN -> Process]
  BY AloneTypes
<1>3. cn' = [cn EXCEPT ![c] = t]
  BY <1>2 DEF Scan
<1>4. ~q.found
  BY <1>1 DEF ProbeOver
<1>5. /\ t.pc = s.pc /\ t.op = s.op /\ t.prime = s.prime /\ t.prop = s.prop /\ t.votes = s.votes
      /\ t.idx = s.idx /\ t.reply = s.reply /\ t.probe = q
  BY <1>2 DEF Process
<1>6. Node(t) = Node(s) /\ Kind(t) = Kind(s)
  BY <1>5 DEF Node, Kind
<1>7. ClientOf(s, m) /\ Copies(s, m)
  BY DEF AloneInv, AloneOf
<1>8. s.pc \in SearchPcs
      => /\ q.i = s.probe.i + 1
         /\ \A d \in 0 .. s.probe.i : ~RecordOf(m[ChainAt(Node(s), Kind(s), Hash[s.op.key], d)],
                                                Hash[s.op.key])
         /\ q.ok => /\ <<Node(s), Kind(s), q.at>> \in RecordAddr
                    /\ q.slot = m[<<Node(s), Kind(s), q.at>>]
                    /\ Reusable(q.slot)
         /\ s.probe.i \in Nat
  BY <1>1, <1>4, ExaminedSearch, SearchPlace DEF ProbeRecord
<1> HIDE DEF t, q, m
<1>9. Searching(t, m)
  <2> SUFFICES ASSUME s.pc \in SearchPcs PROVE Searching(t, m)
    BY <1>5 DEF Searching, SearchPcs
  <2>1. q.i - 1 = s.probe.i
    BY <1>8
  <2> QED
    BY <1>4, <1>5, <1>6, <1>8, <2>1 DEF Searching
<1>10. /\ t.pc \notin CasPcs /\ s.pc \notin {"off", "backupCas", "primeCas"}
       /\ t.pc \notin {"backupBody", "backupCas"}
  BY <1>1, <1>5 DEF CasPcs, BodyPcs, CasOf, ProbePcs
<1>11. ClientOf(t, m)
  <2>1. Commands(t) /\ Proposal(t, m)
    BY <1>5, <1>7 DEF ClientOf, Commands, Proposal
  <2>2. Unopposed(t, m) /\ Answering(t, m)
    BY <1>4, <1>5, <1>7, <1>10 DEF ClientOf, Unopposed, Answering
  <2> QED
    BY <1>9, <2>1, <2>2 DEF ClientOf
<1>12. Copies(t, m)
  <2>1. Voted(t) = Voted(s)
    BY <1>5 DEF Voted
  <2> QED
    BY <1>5, <1>7, <2>1 DEF Copies
<1> QED
  BY <1>1, <1>3, <1>10, <1>11, <1>12, CalmStep DEF m

(* td_cluster_read_value has probed PRIME.                                 *)
LEMMA ReadPrimeReturns ==
  ASSUME NEW c, Alone(c), AloneInv(c), ReadPrime(c)
  PROVE  \E r \in ProbeRecord :
            LET s == cn[c]
                n == td_primary_session(s.op.key)
                u == [s EXCEPT !.prime = r]
            IN  /\ s.pc = "read" /\ s.op.kind = "read" /\ s.op.key \in Keys
                /\ mem' = mem /\ link' = link
                /\ r.ok => Picked(r, n, "prime", Hash[s.op.key], Records(c))
                /\ ~r.ok => Absent(Records(c), n, "prime", Hash[s.op.key])
                /\ cn' = [cn EXCEPT ![c] = IF ~r.ok THEN Finish(u, Error)
                                           ELSE IF CacheOn THEN Probe(u, "readCache")
                                           ELSE ReadPrimeSlot(u)]
<1> DEFINE s == cn[c]
<1>1. s.pc = "read" /\ s.pc \in SearchPcs /\ mem' = mem
  BY DEF ReadPrime, SearchPcs, mnVars
<1>2. PICK r : /\ ProbeReturns(c, r)
               /\ cn' = [cn EXCEPT ![c] =
                     IF ~r.ok THEN Finish([s EXCEPT !.prime = r], Error)
                     ELSE IF CacheOn THEN Probe([s EXCEPT !.prime = r], "readCache")
                     ELSE ReadPrimeSlot([s EXCEPT !.prime = r])]
  BY Zenon DEF ReadPrime
<1>3. Node(s) = td_primary_session(s.op.key) /\ Kind(s) = "prime" /\ s.op.key \in Keys
  BY <1>1, SearchPlace
<1>4. /\ UNCHANGED netVars /\ r \in ProbeRecord
      /\ r.ok => Picked(r, Node(s), Kind(s), Hash[s.op.key], Records(c))
      /\ ~r.ok => Absent(Records(c), Node(s), Kind(s), Hash[s.op.key])
  BY <1>1, <1>2, SearchReturns
<1>5. s.op.kind = "read"
  BY <1>1 DEF AloneInv, AloneOf, ClientOf, Commands
<1>6. link' = link
  BY <1>4 DEF netVars
<1> QED
  BY <1>1, <1>2, <1>3, <1>4, <1>5, <1>6, Zenon

(* Nothing was found, or the slot of PRIME is the answer.                  *)
LEMMA ReadOutcome ==
  ASSUME NEW s \in Process
  PROVE  LET t == ReadPrimeSlot(s)
             p == s.prime
         IN  \/ /\ ~(p.found /\ td_slot_present(p.slot, Hash[s.op.key]))
                /\ t = Finish(s, Reply("not_found", Nil, 0))
             \/ /\ p.found /\ td_slot_present(p.slot, Hash[s.op.key]) /\ CacheOn
                /\ t.pc = "refresh" /\ t.op = s.op /\ t.prop = p.slot /\ t.reply = s.reply
                /\ t.probe = ProbeStart
             \/ /\ p.found /\ td_slot_present(p.slot, Hash[s.op.key]) /\ ~CacheOn
                /\ t = Finish([s EXCEPT !.prop = p.slot], Answer([s EXCEPT !.prop = p.slot]))
<1> DEFINE u == [s EXCEPT !.prop = s.prime.slot]
           v == Probe(u, "refresh")
<1>1. v.pc = "refresh" /\ v.op = s.op /\ v.prop = s.prime.slot /\ v.reply = s.reply
      /\ v.probe = ProbeStart
  BY DEF Probe, Process
<1> HIDE DEF v
<1>2. CASE s.prime.found /\ td_slot_present(s.prime.slot, Hash[s.op.key])
  <2>1. ReadPrimeSlot(s) = IF CacheOn THEN v ELSE Finish(u, Answer(u))
    BY <1>2 DEF ReadPrimeSlot, td_refresh_cache_best_effort, v
  <2> QED
    BY <1>1, <1>2, <2>1
<1>3. CASE ~(s.prime.found /\ td_slot_present(s.prime.slot, Hash[s.op.key]))
  <2>1. ReadPrimeSlot(s) = Finish(s, Reply("not_found", Nil, 0))
    BY <1>3 DEF ReadPrimeSlot
  <2> QED
    BY <1>3, <2>1
<1> QED
  BY <1>2, <1>3

(* A process that refreshes the cache with the record of its key.          *)
LEMMA RefreshClient ==
  ASSUME NEW t, NEW m, t.pc = "refresh", t.probe = ProbeStart, t.reply = NoReply,
         t.op \in Requests, t.op.kind \in OpKinds, t.op.kind # "evict", CacheOn,
         RecordOf(t.prop, Hash[t.op.key]),
         \E a \in Region(td_primary_session(t.op.key), "prime") : m[a] = t.prop,
         t.op.kind = "read" => ~t.prop.tomb
  PROVE  ClientOf(t, m) /\ Voted(t) = {} /\ t.pc \notin CasPcs
<1>1. Commands(t)
  BY DEF Commands, ProposingPcs, EvictPcs
<1>2. Searching(t, m) /\ Proposal(t, m) /\ Unopposed(t, m)
  BY DEF Searching, Proposal, Unopposed, ProposingPcs, RepairSteps, BackupSteps, PrimeSteps
<1>3. Answering(t, m)
  BY DEF Answering
<1>4. Voted(t) = {} /\ t.pc \notin CasPcs
  BY DEF Voted, BackupSteps, PrimeSteps, CasPcs, BodyPcs, CasOf
<1> QED
  BY <1>1, <1>2, <1>3, <1>4 DEF ClientOf

(* A read that goes by the slot of PRIME.                                  *)
LEMMA ReadSlotAlone ==
  ASSUME NEW c, Alone(c), AloneInv(c), NEW u \in Process, cn' = [cn EXCEPT ![c] = ReadPrimeSlot(u)],
         cn[c].pc \in {"read", "readCache"}, mem' = mem, link' = link,
         u.op = cn[c].op, u.reply = cn[c].reply, u.op.kind = "read",
         Picked(u.prime, td_primary_session(u.op.key), "prime", Hash[u.op.key], Records(c))
  PROVE  AloneOf(c)' /\ Records(c)' = Records(c)
<1> DEFINE s == cn[c]
           t == ReadPrimeSlot(u)
           p == u.prime
           a == <<td_primary_session(u.op.key), "prime", p.at>>
<1>1. /\ s.pc \notin {"off", "backupCas", "primeCas"}
      /\ u.op \in Requests /\ u.op.kind \in OpKinds /\ u.reply = NoReply
  BY DEF AloneInv, AloneOf, ClientOf, Commands
<1>2. AllCopied(Records(c))
  BY AloneCopied DEF BackupSteps, PrimeSteps
<1>3. CASE t.pc = "idle"
  BY <1>1, <1>2, <1>3, RestKeeps
<1>4. CASE t.pc # "idle"
  <2>1. /\ td_slot_present(p.slot, Hash[u.op.key]) /\ CacheOn
        /\ t.pc = "refresh" /\ t.op = u.op /\ t.prop = p.slot /\ t.reply = u.reply
        /\ t.probe = ProbeStart
    BY <1>4, ReadOutcome, FinishShape
  <2> HIDE DEF t
  <2>2. RecordOf(t.prop, Hash[t.op.key]) /\ ~t.prop.tomb
    BY <2>1 DEF RecordOf, td_slot_present
  <2>3. \E b \in Region(td_primary_session(t.op.key), "prime") : Records(c)[b] = t.prop
    <3>1. a \in RecordAddr /\ Records(c)[a] = p.slot
      BY DEF Picked
    <3>2. a \in Region(td_primary_session(u.op.key), "prime")
      BY <3>1, AddrParts
    <3> QED
      BY <2>1, <3>1, <3>2
  <2>4. t.op.kind # "evict"
    BY <2>1
  <2>5. ClientOf(t, Records(c)) /\ Voted(t) = {} /\ t.pc \notin CasPcs
    BY <1>1, <2>1, <2>2, <2>3, <2>4, RefreshClient
  <2>6. Copies(t, Records(c))
    BY <1>2, <2>5, UnvotedCopies
  <2> QED
    BY <1>1, <2>5, <2>6, CalmStep DEF t
<1> QED
  BY <1>3, <1>4

(* td_cluster_read_value has probed PRIME.                                 *)
LEMMA ReadPrimeAlone ==
  ASSUME NEW c, Alone(c), AloneInv(c), ReadPrime(c)
  PROVE  AloneOf(c)' /\ Records(c)' = Records(c)
<1> DEFINE s == cn[c]
           n == td_primary_session(s.op.key)
           h == Hash[s.op.key]
<1>1. PICK r \in ProbeRecord :
          /\ s.pc = "read" /\ s.op.kind = "read" /\ s.op.key \in Keys
          /\ mem' = mem /\ link' = link
          /\ r.ok => Picked(r, n, "prime", h, Records(c))
          /\ ~r.ok => Absent(Records(c), n, "prime", h)
          /\ cn' = [cn EXCEPT ![c] =
                IF ~r.ok THEN Finish([s EXCEPT !.prime = r], Error)
                ELSE IF CacheOn THEN Probe([s EXCEPT !.prime = r], "readCache")
                ELSE ReadPrimeSlot([s EXCEPT !.prime = r])]
  BY ReadPrimeReturns, Zenon
<1> DEFINE u == [s EXCEPT !.prime = r]
           t == Probe(u, "readCache")
<1>2. s \in Process /\ s.op \in Requests /\ s.op.kind \in OpKinds /\ s.reply = NoReply
  BY <1>1, AloneTypes DEF AloneInv, AloneOf, ClientOf, Commands
<1>3. u \in Process /\ u.op = s.op /\ u.reply = s.reply /\ u.prime = r
  BY <1>2 DEF Process
<1>4. AllCopied(Records(c)) /\ s.pc \notin {"off", "backupCas", "primeCas"}
  BY <1>1, AloneCopied DEF BackupSteps, PrimeSteps
<1>5. CASE ~r.ok
  <2> DEFINE v == Finish(u, Error)
  <2>1. v.pc = "idle" /\ cn' = [cn EXCEPT ![c] = v]
    BY <1>1, <1>5, FinishShape
  <2> HIDE DEF v
  <2> QED
    BY <1>1, <1>4, <2>1, RestKeeps
<1>6. CASE r.ok /\ CacheOn
  <2>1. cn' = [cn EXCEPT ![c] = t]
    BY <1>1, <1>6
  <2>2. /\ t.pc = "readCache" /\ t.op = s.op /\ t.prime = r /\ t.reply = s.reply
        /\ t.probe = ProbeStart
    BY <1>3 DEF Probe, Process
  <2> HIDE DEF t, u
  <2>3. Searching(t, Records(c)) /\ ~t.probe.found
    BY <2>2, FreshSearching
  <2>4. Picked(t.prime, td_primary_session(t.op.key), "prime", Hash[t.op.key], Records(c))
    BY <1>1, <1>6, <2>2
  <2>5. Commands(t) /\ Answering(t, Records(c))
    BY <1>1, <1>2, <1>6, <2>2, <2>3, <2>4
       DEF Commands, Answering, ProposingPcs, EvictPcs, RefreshSteps
  <2>6. Proposal(t, Records(c)) /\ Unopposed(t, Records(c)) /\ Voted(t) = {} /\ t.pc \notin CasPcs
    BY <2>2 DEF Proposal, Unopposed, Voted, ProposingPcs, RepairSteps, BackupSteps, PrimeSteps,
                CasPcs, BodyPcs, CasOf
  <2>7. ClientOf(t, Records(c))
    BY <2>3, <2>5, <2>6 DEF ClientOf
  <2>8. Copies(t, Records(c))
    BY <1>4, <2>6, UnvotedCopies
  <2> QED
    BY <1>1, <1>4, <2>1, <2>6, <2>7, <2>8, CalmStep
<1>7. CASE r.ok /\ ~CacheOn
  <2>1. cn' = [cn EXCEPT ![c] = ReadPrimeSlot(u)]
    BY <1>1, <1>7
  <2> HIDE DEF u
  <2> QED
    BY <1>1, <1>3, <1>7, <2>1, ReadSlotAlone
<1> QED
  BY <1>5, <1>6, <1>7

(* The probe of CACHE on behalf of a read.                                 *)
LEMMA ReadCacheReturns ==
  ASSUME NEW c, Alone(c), AloneInv(c), ReadCache(c)
  PROVE  \E r \in ProbeRecord :
            LET s == cn[c]
            IN  /\ s.pc = "readCache" /\ s.op.kind = "read" /\ s.op.key \in Keys
                /\ mem' = mem /\ link' = link
                /\ r.found => /\ Matches(r.slot, Hash[s.op.key])
                              /\ \E e \in AddrOf({"cache"}) :
                                    e[1] = td_primary_session(s.op.key) /\ r.slot = mem[e]
                /\ cn' = [cn EXCEPT ![c] = IF r.ok /\ CacheConsistent(s, r)
                                           THEN Finish(s, Reply("value", r.slot.data, 0))
                                           ELSE ReadPrimeSlot(s)]
<1> DEFINE s == cn[c]
           h == Hash[s.op.key]
           e == <<Node(s), Kind(s), FetchAt(c)>>
<1>1. s.pc = "readCache" /\ s.pc \in ProbePcs /\ mem' = mem
  BY DEF ReadCache, ProbePcs, mnVars
<1>2. PICK r : /\ ProbeReturns(c, r)
               /\ cn' = [cn EXCEPT ![c] = IF r.ok /\ CacheConsistent(s, r)
                                          THEN Finish(s, Reply("value", r.slot.data, 0))
                                          ELSE ReadPrimeSlot(s)]
  BY Zenon DEF ReadCache
<1>3. /\ c \in CN /\ TypeInv /\ s \in Process /\ WellFormed(s) /\ s.op.kind = "read"
      /\ s.op.key \in Keys /\ ~s.probe.found
  <2>1. s.pc \in KeyedPcs
    BY <1>1 DEF KeyedPcs, CachePcs
  <2>2. WellFormed(s) /\ c \in CN /\ TypeInv /\ s \in Process
    BY AloneTypes
  <2>3. s.op.kind = "read" /\ ~s.probe.found
    BY <1>1 DEF AloneInv, AloneOf, ClientOf, Commands, Answering
  <2> QED
    BY <2>1, <2>2, <2>3 DEF WellFormed
<1>4. r \in ProbeRecord
  BY <1>1, <1>2, <1>3, ProbeReturnsType
<1>5. ~Severed(c) /\ s.pc \in KeyedPcs
  <2>1. s.pc # "off" /\ s.pc \in KeyedPcs
    BY <1>1 DEF KeyedPcs, CachePcs
  <2> QED
    BY <2>1, NothingBreaks
<1>6. link' = link
  BY <1>2, <1>5 DEF ProbeReturns, netVars
<1>7. Kind(s) = "cache" /\ Node(s) = td_primary_session(s.op.key) /\ Node(s) \in Nodes
  BY <1>1, <1>3, <1>5, NodeType DEF Kind, Node, CachePcs, EvictPcs, BackupPcs
<1>8. ASSUME r.found
      PROVE  Matches(r.slot, h) /\ \E a \in AddrOf({"cache"}) : /\ a[1] = td_primary_session(s.op.key)
                                                                /\ r.slot = mem[a]
  <2>1. r = Examined(c) /\ Count(s) > 0
    BY <1>2, <1>5, <1>8 DEF ProbeReturns, ProbeStart
  <2>2. Matches(Fetched(c), h)
    <3> SUFFICES ASSUME ~Matches(Fetched(c), h) PROVE FALSE
      OBVIOUS
    <3>1. r.found = FALSE \/ r.found = s.probe.found
      BY <1>3, <2>1 DEF Examined, Examine, Process, ProbeRecord
    <3> QED
      BY <1>3, <1>8, <3>1
  <2>3. r.slot = Fetched(c)
    BY <2>1, <2>2 DEF Examined, Examine
  <2>4. FetchAt(c) \in 0 .. SlotCount[Node(s)][Kind(s)] - 1
    <3>1. s.probe.i \in Nat /\ Kind(s) \in Kinds
      BY <1>3, <1>7 DEF Process, ProbeRecord, Kinds
    <3>2. SlotCount[Node(s)][Kind(s)] > 0 /\ h \in Nat
      BY <1>3, <2>1, HashAssumption DEF Count
    <3> QED
      BY <1>7, <3>1, <3>2, SlotIndexType DEF FetchAt
  <2>5. e \in Addr
    BY <1>7, <2>4, AddrIntro DEF Kinds
  <2>6. e \in AddrOf({"cache"}) /\ e[1] = td_primary_session(s.op.key) /\ Fetched(c) = mem[e]
    BY <1>7, <2>5 DEF AddrOf, Fetched
  <2> QED
    BY <2>2, <2>3, <2>6
<1> QED
  BY <1>1, <1>2, <1>3, <1>4, <1>6, <1>8, Zenon

(* td_cluster_read_value has probed CACHE.                                 *)
LEMMA ReadCacheAlone ==
  ASSUME NEW c, Alone(c), AloneInv(c), ReadCache(c)
  PROVE  AloneOf(c)' /\ Records(c)' = Records(c)
<1> DEFINE s == cn[c]
<1>1. PICK r \in ProbeRecord :
            /\ s.pc = "readCache" /\ s.op.kind = "read"
            /\ mem' = mem /\ link' = link
            /\ cn' = [cn EXCEPT ![c] = IF r.ok /\ CacheConsistent(s, r)
                                       THEN Finish(s, Reply("value", r.slot.data, 0))
                                       ELSE ReadPrimeSlot(s)]
  BY ReadCacheReturns, Zenon
<1>2. s \in Process
  BY AloneTypes
<1>3. AllCopied(Records(c)) /\ s.pc \notin {"off", "backupCas", "primeCas"}
  BY <1>1, AloneCopied DEF BackupSteps, PrimeSteps
<1>4. CASE r.ok /\ CacheConsistent(s, r)
  <2> DEFINE v == Finish(s, Reply("value", r.slot.data, 0))
  <2>1. v.pc = "idle" /\ cn' = [cn EXCEPT ![c] = v]
    BY <1>1, <1>4, FinishShape
  <2> HIDE DEF v
  <2> QED
    BY <1>1, <1>3, <2>1, RestKeeps
<1>5. CASE ~(r.ok /\ CacheConsistent(s, r))
  <2>1. cn' = [cn EXCEPT ![c] = ReadPrimeSlot(s)]
    BY <1>1, <1>5
  <2>2. Picked(s.prime, td_primary_session(s.op.key), "prime", Hash[s.op.key], Records(c))
    BY <1>1 DEF AloneInv, AloneOf, ClientOf, Answering
  <2> QED
    BY <1>1, <1>2, <2>1, <2>2, ReadSlotAlone
<1> QED
  BY <1>4, <1>5

(***************************************************************************)
(* Proposing to the backups.                                               *)
(***************************************************************************)

(* td_cluster_write_value has probed PRIME.                                *)
LEMMA WritePrimeReturns ==
  ASSUME NEW c, Alone(c), AloneInv(c), WritePrime(c)
  PROVE  \E r \in ProbeRecord :
            LET s == cn[c]
                n == td_primary_session(s.op.key)
            IN  /\ s.pc = "write" /\ s.op.kind \in Mutating /\ s.op.key \in Keys
                /\ mem' = mem /\ link' = link /\ r.slot.guard < MaxEpoch
                /\ r.ok => Picked(r, n, "prime", Hash[s.op.key], Records(c))
                /\ ~r.ok => Absent(Records(c), n, "prime", Hash[s.op.key])
                /\ cn' = [cn EXCEPT ![c] = IF WriteAllowed(s, r)
                                           THEN BackupFrom(Propose(s, r), 1)
                                           ELSE Finish(s, Error)]
<1> DEFINE s == cn[c]
<1>1. s.pc = "write" /\ s.pc \in SearchPcs /\ mem' = mem
  BY DEF WritePrime, SearchPcs, mnVars
<1>2. PICK r : /\ ProbeReturns(c, r) /\ r.slot.guard < MaxEpoch
               /\ cn' = [cn EXCEPT ![c] = IF WriteAllowed(s, r)
                                          THEN BackupFrom(Propose(s, r), 1)
                                          ELSE Finish(s, Error)]
  BY Zenon DEF WritePrime
<1>3. Node(s) = td_primary_session(s.op.key) /\ Kind(s) = "prime" /\ s.op.key \in Keys
  BY <1>1, SearchPlace
<1>4. /\ UNCHANGED netVars /\ r \in ProbeRecord
      /\ r.ok => Picked(r, Node(s), Kind(s), Hash[s.op.key], Records(c))
      /\ ~r.ok => Absent(Records(c), Node(s), Kind(s), Hash[s.op.key])
  BY <1>1, <1>2, SearchReturns
<1>5. s.op.kind \in Mutating
  BY <1>1 DEF AloneInv, AloneOf, ClientOf, Commands
<1>6. link' = link
  BY <1>4 DEF netVars
<1> QED
  BY <1>1, <1>2, <1>3, <1>4, <1>5, <1>6, Zenon

(* The next backup is asked, or all have accepted and PRIME comes next.    *)
LEMMA NextBackup ==
  ASSUME NEW u \in Process, NEW j \in Nat, j >= 1,
         \A i \in Backups : i < j => u.votes[i].success
  PROVE  LET t == BackupFrom(u, j)
         IN  /\ t.op = u.op /\ t.prime = u.prime /\ t.prop = u.prop /\ t.votes = u.votes
             /\ t.reply = u.reply
             /\ \/ j \in Backups /\ t.pc = "backup" /\ t.idx = j /\ t.probe = ProbeStart
                \/ /\ t.pc = "primeBody" /\ \A i \in Backups : i < j
                   /\ \A i \in Backups : t.votes[i].success
<1> DEFINE t == BackupFrom(u, j)
           v == [u EXCEPT !.pc = "primeBody"]
           w == Probe([u EXCEPT !.idx = j], "backup")
<1>1. BackupCount \in Nat
  BY NodesAssumption, ConfigAssumption DEF BackupCount
<1>2. CASE j \in Backups
  <2>1. t = w
    BY <1>2 DEF BackupFrom
  <2>2. /\ w.op = u.op /\ w.prime = u.prime /\ w.prop = u.prop /\ w.votes = u.votes
        /\ w.reply = u.reply /\ w.pc = "backup" /\ w.idx = j /\ w.probe = ProbeStart
    BY DEF Probe, Process
  <2> HIDE DEF t, w
  <2> QED
    BY <1>2, <2>1, <2>2 DEF t
<1>3. CASE j \notin Backups
  <2>1. \A i \in Backups : i < j
    BY <1>1, <1>3 DEF Backups
  <2>2. DOMAIN u.votes = Backups
    BY DEF Process
  <2>3. Lost(u.votes) = {}
    BY <2>1, <2>2 DEF Lost
  <2>4. Rule(u) = 1
    BY <2>3 DEF Rule, td_evaluate_votes
  <2>5. t = v
    BY <1>3, <2>4 DEF BackupFrom, Decide
  <2>6. /\ v.op = u.op /\ v.prime = u.prime /\ v.prop = u.prop /\ v.votes = u.votes
        /\ v.reply = u.reply /\ v.pc = "primeBody"
    BY DEF Process
  <2> HIDE DEF t, v
  <2> QED
    BY <2>1, <2>5, <2>6 DEF t
<1> QED
  BY <1>2, <1>3

(* A process that has a proposal for a backup or for PRIME.                *)
LEMMA ProposingClient ==
  ASSUME NEW t, NEW m, t.op \in Requests, t.op.kind \in OpKinds, t.op.kind \in Mutating,
         t.reply = NoReply, Proposal(t, m),
         \/ /\ t.pc = "backup" /\ t.idx \in Backups /\ t.probe = ProbeStart
            /\ \A j \in Backups : j < t.idx => t.votes[j].success
         \/ t.pc = "primeBody" /\ \A j \in Backups : t.votes[j].success
  PROVE  ClientOf(t, m) /\ t.pc \notin CasPcs
<1>1. Commands(t)
  BY DEF Commands, ProposingPcs, EvictPcs, CachePcs
<1>2. Searching(t, m)
  <2>1. CASE t.pc = "primeBody"
    BY <2>1 DEF Searching
  <2>2. CASE t.pc # "primeBody"
    BY <2>2, FreshSearching
  <2> QED
    BY <2>1, <2>2
<1>3. Unopposed(t, m)
  BY DEF Unopposed, RepairSteps, BackupSteps, PrimeSteps
<1>4. Answering(t, m) /\ t.pc \notin CasPcs
  BY DEF Answering, RefreshSteps, CasPcs, BodyPcs, CasOf
<1> QED
  BY <1>1, <1>2, <1>3, <1>4 DEF ClientOf

(* What a writer proposes.                                                 *)
LEMMA ProposalMade ==
  ASSUME NEW s \in Process, NEW r \in ProbeRecord, s.op.key \in Keys, r.slot.guard < MaxEpoch,
         WriteAllowed(s, r), NEW m, NEW t,
         Picked(r, td_primary_session(s.op.key), "prime", Hash[s.op.key], m),
         t.op = s.op, t.prime = Propose(s, r).prime, t.prop = Propose(s, r).prop
  PROVE  Proposal(t, m)
<1> DEFINE p == td_crypto_make_slot(s.op.key, Hash[s.op.key], s.op.val,
                                    s.op.kind = "delete", r.slot.guard + 1)
<1>1. t.prime = r /\ t.prop = p
  BY DEF Propose, Process
<1>2. /\ p.guard = r.slot.guard + 1 /\ p.visible = r.slot.guard + 1
      /\ p.tomb = (s.op.kind = "delete") /\ p.data = s.op.val
  BY DEF td_crypto_make_slot
<1>3. s.op.val \notin TooLong
  BY DEF WriteAllowed
<1>4. s.op.kind = "update" => LiveOf(r.slot, Hash[s.op.key])
  BY DEF WriteAllowed, td_slot_present, LiveOf, RecordOf
<1> HIDE DEF p
<1> QED
  BY <1>1, <1>2, <1>3, <1>4 DEF Proposal

(* td_cluster_write_value has probed PRIME.                                *)
LEMMA WritePrimeAlone ==
  ASSUME NEW c, Alone(c), AloneInv(c), WritePrime(c)
  PROVE  AloneOf(c)' /\ Records(c)' = Records(c)
<1> DEFINE s == cn[c]
           n == td_primary_session(s.op.key)
           h == Hash[s.op.key]
           m == Records(c)
<1>1. PICK r \in ProbeRecord :
          /\ s.pc = "write" /\ s.op.kind \in Mutating /\ s.op.key \in Keys
          /\ mem' = mem /\ link' = link /\ r.slot.guard < MaxEpoch
          /\ r.ok => Picked(r, n, "prime", h, m)
          /\ cn' = [cn EXCEPT ![c] = IF WriteAllowed(s, r)
                                     THEN BackupFrom(Propose(s, r), 1)
                                     ELSE Finish(s, Error)]
  BY WritePrimeReturns, Zenon
<1>2. s \in Process /\ s.op \in Requests /\ s.op.kind \in OpKinds /\ s.reply = NoReply
  BY <1>1, AloneTypes DEF AloneInv, AloneOf, ClientOf, Commands
<1>3. AllCopied(m) /\ s.pc \notin {"off", "backupCas", "primeCas"}
  BY <1>1, AloneCopied DEF BackupSteps, PrimeSteps
<1>4. CASE ~WriteAllowed(s, r)
  <2> DEFINE v == Finish(s, Error)
  <2>1. v.pc = "idle" /\ cn' = [cn EXCEPT ![c] = v]
    BY <1>1, <1>4, FinishShape
  <2> HIDE DEF v
  <2> QED
    BY <1>1, <1>3, <2>1, RestKeeps
<1>5. CASE WriteAllowed(s, r)
  <2> DEFINE u == Propose(s, r)
             t == BackupFrom(u, 1)
  <2>1. cn' = [cn EXCEPT ![c] = t]
    BY <1>1, <1>5
  <2>2. u \in Process /\ u.op = s.op /\ u.reply = s.reply
    BY <1>1, <1>2, ProposeType DEF Propose, Process
  <2>3. \A i \in Backups : ~(i < 1)
    BY DEF Backups
  <2>4. /\ t.op = u.op /\ t.prime = u.prime /\ t.prop = u.prop /\ t.votes = u.votes
        /\ t.reply = u.reply
        /\ \/ 1 \in Backups /\ t.pc = "backup" /\ t.idx = 1 /\ t.probe = ProbeStart
           \/ /\ t.pc = "primeBody" /\ \A i \in Backups : i < 1
              /\ \A i \in Backups : t.votes[i].success
    BY <2>2, <2>3, NextBackup
  <2>5. Picked(r, n, "prime", h, m)
    BY <1>1, <1>5 DEF WriteAllowed
  <2> HIDE DEF t, m
  <2>6. Proposal(t, m)
    BY <1>1, <1>2, <1>5, <2>2, <2>4, <2>5, ProposalMade
  <2> HIDE DEF u
  <2>7. ClientOf(t, m) /\ t.pc \notin CasPcs
    BY <1>1, <1>2, <2>2, <2>3, <2>4, <2>6, ProposingClient
  <2>8. Voted(t) = {}
    BY <2>3, <2>4 DEF Voted, BackupSteps, PrimeSteps
  <2>9. Copies(t, m)
    BY <1>3, <2>8, UnvotedCopies
  <2> QED
    BY <1>1, <1>3, <2>1, <2>7, <2>9, CalmStep DEF m
<1> QED
  BY <1>4, <1>5

(* A backup has been probed.  One without room has no copy of the key, so  *)
(* that PRIME has no live record of it either.                             *)
LEMMA BackupProbeReturns ==
  ASSUME NEW c, Alone(c), AloneInv(c), BackupProbe(c)
  PROVE  \E r \in ProbeRecord :
            LET s == cn[c]
                n == td_primary_session(s.op.key)
            IN  /\ s.pc = "backup" /\ s.op.kind \in Mutating /\ s.op.key \in Keys
                /\ mem' = mem /\ link' = link
                /\ r.ok => Picked(r, td_replica_session(s.op.key, s.idx), "backup",
                                  Hash[s.op.key], Records(c))
                /\ ~r.ok => \A a \in Region(n, "prime") : ~LiveOf(Records(c)[a], Hash[s.op.key])
                /\ cn' = [cn EXCEPT ![c] = IF r.ok THEN [s EXCEPT !.pc = "backupBody", !.probe = r]
                                                   ELSE Finish(s, Error)]
<1> DEFINE s == cn[c]
           k == s.op.key
           m == Records(c)
<1>1. s.pc = "backup" /\ s.pc \in SearchPcs /\ mem' = mem
  BY DEF BackupProbe, SearchPcs, mnVars
<1>2. PICK r : /\ ProbeReturns(c, r)
               /\ cn' = [cn EXCEPT ![c] = IF r.ok THEN [s EXCEPT !.pc = "backupBody", !.probe = r]
                                                  ELSE Finish(s, Error)]
  BY Zenon DEF BackupProbe
<1>3. Node(s) = td_replica_session(k, s.idx) /\ Kind(s) = "backup" /\ k \in Keys
  BY <1>1, SearchPlace
<1>4. /\ UNCHANGED netVars /\ r \in ProbeRecord
      /\ r.ok => Picked(r, Node(s), Kind(s), Hash[k], m)
      /\ ~r.ok => Absent(m, Node(s), Kind(s), Hash[k])
  BY <1>1, <1>2, SearchReturns
<1>5. /\ s.op.kind \in Mutating /\ s.idx \in Backups /\ Copies(s, m)
  BY <1>1 DEF AloneInv, AloneOf, ClientOf, Commands, Unopposed, ProposingPcs, BackupSteps
<1>6. link' = link
  BY <1>4 DEF netVars
<1>7. Copied(m, k, s.idx)
  <2>1. s.idx \notin Voted(s)
    BY <1>1, <1>5, BackupsType DEF Voted, BackupSteps
  <2> QED
    BY <1>3, <1>5, <2>1 DEF Copies
<1>8. ASSUME ~r.ok, NEW a \in Region(td_primary_session(k), "prime")
      PROVE  ~LiveOf(m[a], Hash[k])
  <2> SUFFICES ASSUME LiveOf(m[a], Hash[k]) PROVE FALSE
    OBVIOUS
  <2>1. PICK b \in Region(td_replica_session(k, s.idx), "backup") : m[b] = m[a]
    BY <1>7 DEF Copied
  <2> QED
    BY <1>3, <1>4, <1>8, <2>1 DEF Absent, LiveOf
<1> QED
  BY <1>1, <1>2, <1>3, <1>4, <1>5, <1>6, <1>8, Zenon

(* td_cluster_write_value has probed a backup.                             *)
LEMMA BackupProbeAlone ==
  ASSUME NEW c, Alone(c), AloneInv(c), BackupProbe(c)
  PROVE  AloneOf(c)' /\ Records(c)' = Records(c)
<1> DEFINE s == cn[c]
           n == td_primary_session(s.op.key)
           h == Hash[s.op.key]
           m == Records(c)
<1>1. PICK r \in ProbeRecord :
          /\ s.pc = "backup" /\ s.op.kind \in Mutating /\ s.op.key \in Keys
          /\ mem' = mem /\ link' = link
          /\ r.ok => Picked(r, td_replica_session(s.op.key, s.idx), "backup", h, m)
          /\ ~r.ok => \A a \in Region(n, "prime") : ~LiveOf(m[a], h)
          /\ cn' = [cn EXCEPT ![c] = IF r.ok THEN [s EXCEPT !.pc = "backupBody", !.probe = r]
                                             ELSE Finish(s, Error)]
  BY BackupProbeReturns, Zenon
<1>2. /\ s \in Process /\ ClientOf(s, m) /\ Copies(s, m)
      /\ s.pc \notin {"off", "backupCas", "primeCas"}
  BY <1>1, AloneTypes DEF AloneInv, AloneOf
<1>3. CASE r.ok
  <2> DEFINE t == [s EXCEPT !.pc = "backupBody", !.probe = r]
  <2>1. cn' = [cn EXCEPT ![c] = t]
    BY <1>1, <1>3
  <2>2. /\ t.pc = "backupBody" /\ t.op = s.op /\ t.prime = s.prime /\ t.prop = s.prop
        /\ t.votes = s.votes /\ t.idx = s.idx /\ t.reply = s.reply /\ t.probe = r
    BY <1>2 DEF Process
  <2> HIDE DEF t, m
  <2>3. Commands(t) /\ Searching(t, m) /\ Proposal(t, m)
    BY <1>1, <1>2, <2>2 DEF ClientOf, Commands, Searching, Proposal, ProposingPcs, EvictPcs, CachePcs
  <2>4. Unopposed(t, m)
    BY <1>1, <1>2, <1>3, <2>2 DEF ClientOf, Unopposed, RepairSteps, BackupSteps, PrimeSteps
  <2>5. Answering(t, m) /\ t.pc \notin CasPcs
    BY <2>2 DEF Answering, RefreshSteps, CasPcs, BodyPcs, CasOf
  <2>6. Voted(t) = Voted(s)
    BY <1>1, <2>2 DEF Voted, BackupSteps
  <2>7. Copies(t, m)
    BY <1>2, <2>2, <2>6 DEF Copies
  <2>8. ClientOf(t, m)
    BY <2>3, <2>4, <2>5 DEF ClientOf
  <2> QED
    BY <1>1, <1>2, <2>1, <2>5, <2>7, <2>8, CalmStep DEF m
<1>4. CASE ~r.ok
  <2> DEFINE v == Finish(s, Error)
  <2>1. v.pc = "idle" /\ cn' = [cn EXCEPT ![c] = v]
    BY <1>1, <1>4, FinishShape
  <2> HIDE DEF v, m
  <2>2. ASSUME NEW k \in Keys, NEW j \in Backups
        PROVE  Copied(m, k, j) /\ (BackupCount <= 1 => NoOrphan(m, k, j))
    <3>1. CASE ~(j \in Voted(s) /\ Hash[k] = h)
      BY <1>2, <2>2, <3>1 DEF Copies
    <3>2. CASE j \in Voted(s) /\ Hash[k] = h
      <4>1. td_primary_session(k) = n
        BY <1>1, <2>2, <3>2, SameHash
      <4>2. Copied(m, k, j)
        BY <1>1, <1>4, <3>2, <4>1 DEF Copied
      <4>3. s.idx \in Backups
        BY <1>1, <1>2 DEF ClientOf, Unopposed, BackupSteps
      <4>4. j < s.idx
        BY <1>1, <3>2 DEF Voted, BackupSteps
      <4>5. ~(BackupCount <= 1)
        BY <2>2, <4>3, <4>4, BackupsType DEF Backups
      <4> QED
        BY <4>2, <4>5
    <3> QED
      BY <3>1, <3>2
  <2>3. AllCopied(m)
    BY <2>2 DEF AllCopied
  <2> QED
    BY <1>1, <1>2, <2>1, <2>3, RestKeeps DEF m
<1> QED
  BY <1>3, <1>4

(***************************************************************************)
(* Commits: the body of a slot, then its CAS.                              *)
(***************************************************************************)

(* Where a commit to a record goes, and the slot it takes over.            *)
LEMMA RecordDest ==
  ASSUME NEW c, Alone(c), AloneInv(c), NEW s, NEW m, NEW d, s = cn[c], m = Records(c), d = Dest(s),
         s.pc \in {"backupBody", "backupCas", "primeBody", "primeCas"}
  PROVE  /\ d \in RecordAddr /\ d = <<d[1], d[2], Chosen(s).at>>
         /\ Picked(Chosen(s), d[1], d[2], Hash[s.op.key], m)
         /\ m[d] = Chosen(s).slot /\ Chosen(s).slot \in Slot
         /\ s.pc \in {"backupBody", "backupCas"}
            => /\ d[1] = td_replica_session(s.op.key, s.idx) /\ d[2] = "backup"
               /\ s.idx \in Backups /\ Chosen(s) = s.probe
         /\ s.pc \in {"primeBody", "primeCas"}
            => /\ d[1] = td_primary_session(s.op.key) /\ d[2] = "prime" /\ Chosen(s) = s.prime
<1>1. d = <<Node(s), Kind(s), Chosen(s).at>> /\ d[1] = Node(s) /\ d[2] = Kind(s)
  BY DEF Dest
<1>2. s.pc \in {"backupBody", "backupCas"}
      => /\ Node(s) = td_replica_session(s.op.key, s.idx) /\ Kind(s) = "backup"
         /\ Chosen(s) = s.probe
  BY DEF Node, Kind, Chosen, EvictPcs, BackupPcs, CachePcs
<1>3. s.pc \in {"primeBody", "primeCas"}
      => Node(s) = td_primary_session(s.op.key) /\ Kind(s) = "prime" /\ Chosen(s) = s.prime
  BY DEF Node, Kind, Chosen, EvictPcs, BackupPcs, CachePcs
<1>4. Unopposed(s, m) /\ Proposal(s, m)
  BY DEF AloneInv, AloneOf, ClientOf
<1>5. Picked(Chosen(s), Node(s), Kind(s), Hash[s.op.key], m)
  BY <1>2, <1>3, <1>4 DEF Unopposed, Proposal, ProposingPcs
<1>6. d \in RecordAddr /\ m[d] = Chosen(s).slot
  BY <1>1, <1>5 DEF Picked
<1>7. s.pc \in {"backupBody", "backupCas"} => s.idx \in Backups
  BY <1>4 DEF Unopposed, BackupSteps
<1>8. Chosen(s).slot \in Slot
  BY AloneTypes DEF Chosen, Process, ProbeRecord
<1> QED
  BY <1>1, <1>2, <1>3, <1>5, <1>6, <1>7, <1>8

(* A step that changes entries of the cache to bodies of PRIME records, or *)
(* their guards, or clears them.                                           *)
CacheMove(e, m) ==
    \/ /\ mem[e].valid /\ mem[e] \in Slot
       /\ \E g : mem'[e] = [mem[e] EXCEPT !.guard = g]
    \/ \E a \in Region(e[1], "prime") : \E g :
          m[a].valid /\ m[a] \in Slot /\ mem'[e] = [m[a] EXCEPT !.guard = g]

(* Such a step leaves the entries older than PRIME.                        *)
LEMMA CacheStep ==
  ASSUME NEW c, NEW m, CachesOlder(m), Records(c)' = m,
         \A e \in AddrOf({"cache"}) : mem'[e].valid => CacheMove(e, m)
  PROVE  CachesOlder(Records(c))'
<1> SUFFICES ASSUME "delete" \notin OpKinds, NEW e \in AddrOf({"cache"}), mem'[e].valid
             PROVE  \E a \in Region(e[1], "prime") :
                        /\ RecordOf(m[a], mem'[e].hash)
                        /\ mem'[e].visible <= m[a].visible
                        /\ mem'[e].visible = m[a].visible
                           => [mem'[e] EXCEPT !.guard = m[a].guard] = m[a]
  BY DEF CachesOlder, CacheOlder
<1>1. CASE /\ mem[e].valid /\ mem[e] \in Slot
           /\ \E g : mem'[e] = [mem[e] EXCEPT !.guard = g]
  <2>1. PICK g : mem'[e] = [mem[e] EXCEPT !.guard = g]
    BY <1>1
  <2>2. PICK a \in Region(e[1], "prime") :
                /\ RecordOf(m[a], mem[e].hash)
                /\ mem[e].visible <= m[a].visible
                /\ mem[e].visible = m[a].visible => [mem[e] EXCEPT !.guard = m[a].guard] = m[a]
    BY <1>1 DEF CachesOlder, CacheOlder
  <2>3. /\ mem'[e].hash = mem[e].hash /\ mem'[e].visible = mem[e].visible
        /\ [mem'[e] EXCEPT !.guard = m[a].guard] = [mem[e] EXCEPT !.guard = m[a].guard]
    BY <1>1, <2>1 DEF Slot
  <2> QED
    BY <2>2, <2>3
<1>2. CASE \E a \in Region(e[1], "prime") : \E g :
              m[a].valid /\ m[a] \in Slot /\ mem'[e] = [m[a] EXCEPT !.guard = g]
  <2>0. PICK a \in Region(e[1], "prime") :
                \E g : m[a].valid /\ m[a] \in Slot /\ mem'[e] = [m[a] EXCEPT !.guard = g]
    BY <1>2
  <2>1. PICK g : m[a].valid /\ m[a] \in Slot /\ mem'[e] = [m[a] EXCEPT !.guard = g]
    BY <2>0
  <2>2. /\ mem'[e].hash = m[a].hash /\ mem'[e].visible = m[a].visible
        /\ [mem'[e] EXCEPT !.guard = m[a].guard] = m[a]
    BY <2>1 DEF Slot
  <2>3. m[a].visible \in Int
    BY <2>1 DEF Slot, Epochs
  <2>4. RecordOf(m[a], mem'[e].hash) /\ mem'[e].visible <= m[a].visible
    BY <2>1, <2>2, <2>3 DEF RecordOf
  <2> QED
    BY <2>2, <2>4
<1> QED
  BY <1>1, <1>2 DEF CacheMove

(* The body of a record is written: the records stay as they were until    *)
(* the CAS.                                                                *)
LEMMA RecordBodyAlone ==
  ASSUME NEW c, Alone(c), AloneInv(c), WriteBody(c), cn[c].pc \in {"backupBody", "primeBody"}
  PROVE  AloneOf(c)' /\ Records(c)' = Records(c)
<1> DEFINE s == cn[c]
           m == Records(c)
           d == Dest(s)
           t == [s EXCEPT !.pc = CasOf[s.pc]]
<1>1. /\ c \in CN /\ s \in Process /\ cn \in [CN -> Process] /\ mem \in [Addr -> Slot]
      /\ ClientOf(s, m) /\ Copies(s, m) /\ Tidy(m) /\ CachesOlder(m)
      /\ \A n \in Nodes : link[c][n]
  BY AloneTypes DEF AloneInv, AloneOf
<1>2. /\ mem' = [mem EXCEPT ![d] = [s.prop EXCEPT !.guard = mem[d].guard]]
      /\ cn' = [cn EXCEPT ![c] = t] /\ link' = link
  BY <1>1 DEF WriteBody, BodyWritten, netVars
<1>3. cn'[c] = t
  BY <1>1, <1>2
<1>4. d \in RecordAddr /\ m[d] = Chosen(s).slot
  BY RecordDest
<1>5. d \in Addr /\ RecordAddr \subseteq Addr /\ d \notin AddrOf({"cache"})
  BY <1>4 DEF RecordAddr, AddrOf, RecordKinds
<1>6. m = [a \in RecordAddr |-> mem[a]]
  <2>1. \A a \in RecordAddr : m[a] = mem[a]
    BY RecordsType
  <2>2. m = [a \in RecordAddr |-> m[a]]
    BY DEF Records
  <2> QED
    BY <2>1, <2>2
<1>7. mem[d] = Chosen(s).slot
  BY <1>4, <1>6
<1>8. /\ t.op = s.op /\ t.prime = s.prime /\ t.prop = s.prop
      /\ t.votes = s.votes /\ t.idx = s.idx /\ t.reply = s.reply /\ t.probe = s.probe
      /\ \/ s.pc = "backupBody" /\ t.pc = "backupCas"
         \/ s.pc = "primeBody" /\ t.pc = "primeCas"
  <2>1. CasOf["backupBody"] = "backupCas" /\ CasOf["primeBody"] = "primeCas"
    BY DEF CasOf
  <2>2. t.pc = CasOf[s.pc]
    BY <1>1 DEF Process
  <2>3. \/ s.pc = "backupBody" /\ t.pc = "backupCas"
        \/ s.pc = "primeBody" /\ t.pc = "primeCas"
    BY <2>1, <2>2
  <2>4. /\ t.op = s.op /\ t.prime = s.prime /\ t.prop = s.prop
        /\ t.votes = s.votes /\ t.idx = s.idx /\ t.reply = s.reply /\ t.probe = s.probe
    BY <1>1 DEF Process
  <2> QED
    BY <2>3, <2>4
<1> HIDE DEF t
<1>9. Dest(t) = d /\ Chosen(t) = Chosen(s) /\ t.pc \in CasPcs
  BY <1>8 DEF Dest, Chosen, Node, Kind, EvictPcs, BackupPcs, CachePcs, CasPcs, BodyPcs, CasOf
<1>10. Records(c)' = m
  <2>1. Records(c)' = [a \in RecordAddr |-> IF t.pc \in CasPcs /\ a = Dest(t)
                                            THEN Chosen(t).slot ELSE mem'[a]]
    BY <1>3 DEF Records, Dest, Chosen, Node, Kind
  <2>2. \A a \in RecordAddr : (IF t.pc \in CasPcs /\ a = Dest(t)
                              THEN Chosen(t).slot ELSE mem'[a]) = mem[a]
    BY <1>1, <1>2, <1>5, <1>7, <1>9
  <2> QED
    BY <1>6, <2>1, <2>2
<1>11. HalfWritten(cn[c])'
  <2>1. mem'[d] = [s.prop EXCEPT !.guard = Chosen(s).slot.guard]
    BY <1>1, <1>2, <1>5, <1>7
  <2>2. mem'[Dest(t)] = [t.prop EXCEPT !.guard = Chosen(t).slot.guard]
    BY <1>8, <1>9, <2>1
  <2> QED
    BY <1>3, <2>2 DEF HalfWritten
<1> HIDE DEF m
<1>12. ClientOf(t, m)
  <2>1. Commands(t) /\ Searching(t, m) /\ Proposal(t, m) /\ Answering(t, m)
    BY <1>1, <1>8 DEF ClientOf, Commands, Searching, Proposal, Answering, ProposingPcs, EvictPcs,
                      CachePcs, RefreshSteps
  <2>2. Unopposed(t, m)
    BY <1>1, <1>8 DEF ClientOf, Unopposed, RepairSteps, BackupSteps, PrimeSteps
  <2> QED
    BY <2>1, <2>2 DEF ClientOf
<1>13. Copies(t, m)
  <2>1. Voted(t) = Voted(s)
    BY <1>8 DEF Voted, BackupSteps, PrimeSteps
  <2> QED
    BY <1>1, <1>8, <2>1 DEF Copies
<1>14. CachesOlder(Records(c))'
  <2>1. \A e \in AddrOf({"cache"}) : mem'[e] = mem[e]
    BY <1>1, <1>2, <1>5 DEF AddrOf
  <2>2. \A e \in AddrOf({"cache"}) :
            mem[e] \in Slot /\ mem'[e] = [mem[e] EXCEPT !.guard = mem[e].guard]
    BY <1>1, <2>1 DEF AddrOf, Slot
  <2>3. \A e \in AddrOf({"cache"}) : mem'[e].valid => CacheMove(e, m)
    BY <2>1, <2>2 DEF CacheMove
  <2> QED
    BY <1>1, <1>10, <2>3, CacheStep
<1> QED
  BY <1>1, <1>2, <1>3, <1>10, <1>11, <1>12, <1>13, <1>14 DEF AloneOf, m

(* A write to the cache: where it goes and what it leaves alone.           *)
LEMMA RefreshDest ==
  ASSUME NEW c, Alone(c), AloneInv(c), cn[c].pc \in {"refreshBody", "refreshCas"}
  PROVE  /\ Dest(cn[c])[1] = td_primary_session(cn[c].op.key)
         /\ Dest(cn[c]) \notin RecordAddr /\ Kind(cn[c]) = "cache"
         /\ cn[c].prop \in Slot /\ RecordOf(cn[c].prop, Hash[cn[c].op.key])
         /\ \E a \in Region(td_primary_session(cn[c].op.key), "prime") :
               Records(c)[a] = cn[c].prop
<1> DEFINE s == cn[c]
           d == Dest(s)
<1>1. Kind(s) = "cache" /\ Node(s) = td_primary_session(s.op.key)
  BY DEF Kind, Node, CachePcs, EvictPcs, BackupPcs
<1>2. d[1] = td_primary_session(s.op.key) /\ d[2] = "cache"
  BY <1>1 DEF Dest
<1>3. d \notin RecordAddr
  BY <1>2 DEF RecordAddr, AddrOf, RecordKinds
<1>4. s.prop \in Slot
  BY AloneTypes DEF Process
<1>5. Answering(s, Records(c))
  BY DEF AloneInv, AloneOf, ClientOf
<1> QED
  BY <1>1, <1>2, <1>3, <1>4, <1>5 DEF Answering, RefreshSteps

(* The body of a cache entry is written.                                   *)
LEMMA RefreshBodyAlone ==
  ASSUME NEW c, Alone(c), AloneInv(c), WriteBody(c), cn[c].pc = "refreshBody"
  PROVE  AloneOf(c)' /\ Records(c)' = Records(c)
<1> DEFINE s == cn[c]
           m == Records(c)
           d == Dest(s)
           t == [s EXCEPT !.pc = "refreshCas"]
<1>1. /\ c \in CN /\ s \in Process /\ cn \in [CN -> Process] /\ mem \in [Addr -> Slot]
      /\ ClientOf(s, m) /\ CachesOlder(m) /\ \A n \in Nodes : link[c][n]
  BY AloneTypes DEF AloneInv, AloneOf
<1>2. /\ mem' = [mem EXCEPT ![d] = [s.prop EXCEPT !.guard = mem[d].guard]] /\ link' = link
      /\ cn' = [cn EXCEPT ![c] = t]
  <2>1. CasOf["refreshBody"] = "refreshCas"
    BY DEF CasOf
  <2> QED
    BY <1>1, <2>1 DEF WriteBody, BodyWritten, netVars
<1>3. /\ d[1] = td_primary_session(s.op.key) /\ d \notin RecordAddr /\ s.prop \in Slot
      /\ RecordOf(s.prop, Hash[s.op.key])
  BY RefreshDest
<1>4. PICK b \in Region(td_primary_session(s.op.key), "prime") : m[b] = s.prop
  BY RefreshDest
<1>5. /\ t.op = s.op /\ t.prop = s.prop /\ t.reply = s.reply /\ t.pc = "refreshCas"
  BY <1>1 DEF Process
<1>6. AllCopied(m)
  BY AloneCopied DEF BackupSteps, PrimeSteps
<1> HIDE DEF t, m, d
<1>7. \A a \in RecordAddr : mem'[a] = mem[a]
  BY <1>1, <1>2, <1>3 DEF RecordAddr, AddrOf
<1>8. Kind(t) = "cache"
  BY <1>5 DEF Kind, CachePcs
<1>9. ClientOf(t, m)
  <2>1. Commands(t) /\ Answering(t, m)
    BY <1>1, <1>5 DEF ClientOf, Commands, Answering, ProposingPcs, EvictPcs, CachePcs, RefreshSteps
  <2>2. Searching(t, m) /\ Proposal(t, m) /\ Unopposed(t, m)
    BY <1>5 DEF Searching, Proposal, Unopposed, ProposingPcs, RepairSteps, BackupSteps, PrimeSteps
  <2> QED
    BY <2>1, <2>2 DEF ClientOf
<1>10. Copies(t, m)
  <2>1. Voted(t) = {}
    BY <1>5 DEF Voted, BackupSteps, PrimeSteps
  <2> QED
    BY <1>6, <2>1, UnvotedCopies
<1>11. ASSUME Records(c)' = m PROVE CachesOlder(Records(c))'
  <2>1. ASSUME NEW e \in AddrOf({"cache"}), mem'[e].valid
        PROVE  CacheMove(e, m)
    <3>1. e \in Addr
      BY <2>1 DEF AddrOf
    <3>2. CASE e = d
      <4>1. mem'[e] = [m[b] EXCEPT !.guard = mem[d].guard] /\ m[b].valid /\ m[b] \in Slot
        BY <1>1, <1>2, <1>3, <1>4, <3>1, <3>2 DEF RecordOf
      <4> QED
        BY <1>3, <1>4, <3>2, <4>1 DEF CacheMove
    <3>3. CASE e # d
      <4>1. mem'[e] = mem[e] /\ mem[e] \in Slot
        BY <1>1, <1>2, <3>1, <3>3
      <4>2. mem'[e] = [mem[e] EXCEPT !.guard = mem[e].guard]
        BY <4>1 DEF Slot
      <4> QED
        BY <2>1, <4>1, <4>2 DEF CacheMove
    <3> QED
      BY <3>2, <3>3
  <2> QED
    BY <1>1, <1>11, <2>1, CacheStep
<1>12. \A n \in Nodes : link'[c][n]
  BY <1>1, <1>2
<1> QED
  BY <1>2, <1>5, <1>7, <1>8, <1>9, <1>10, <1>11, <1>12, StillStep DEF m

(* The CAS of a cache entry, won or lost.                                  *)
LEMMA RefreshCommitReturns ==
  ASSUME NEW c, Alone(c), AloneInv(c), RefreshCommit(c)
  PROVE  /\ cn[c].pc = "refreshCas" /\ link' = link /\ mem' = CasApplied(cn[c])
         /\ cn' = [cn EXCEPT ![c] = Finish(cn[c], Answer(cn[c]))]
<1> DEFINE s == cn[c]
<1>1. /\ s.pc \in {"refreshBody", "refreshCas"} /\ \E won \in BOOLEAN : CommitReturns(c, won)
      /\ cn' = [cn EXCEPT ![c] = Finish(s, Answer(s))]
  BY Zenon DEF RefreshCommit
<1>2. ~Severed(c)
  <2>1. s.pc # "off" /\ s.pc \in KeyedPcs
    BY <1>1 DEF KeyedPcs, CachePcs
  <2> QED
    BY <2>1, NothingBreaks
<1>3. s.pc \in CasPcs /\ mem' = CasApplied(s) /\ link' = link
  BY <1>1, <1>2 DEF CommitReturns, netVars
<1>4. s.pc = "refreshCas"
  BY <1>1, <1>3 DEF CasPcs, BodyPcs, CasOf
<1> QED
  BY <1>1, <1>3, <1>4

(* td_refresh_cache_best_effort is done.                                   *)
LEMMA RefreshCommitAlone ==
  ASSUME NEW c, Alone(c), AloneInv(c), RefreshCommit(c)
  PROVE  AloneOf(c)' /\ Records(c)' = Records(c)
<1> DEFINE s == cn[c]
           m == Records(c)
           d == Dest(s)
           t == Finish(s, Answer(s))
<1>1. /\ c \in CN /\ mem \in [Addr -> Slot] /\ CachesOlder(m) /\ \A n \in Nodes : link[c][n]
      /\ s.pc = "refreshCas" /\ link' = link /\ cn' = [cn EXCEPT ![c] = t]
  <2>1. s.pc = "refreshCas" /\ link' = link /\ cn' = [cn EXCEPT ![c] = t]
    BY RefreshCommitReturns
  <2> QED
    BY <2>1, AloneTypes DEF AloneInv, AloneOf
<1>2. \A a \in Addr : \/ mem'[a] = mem[a]
                      \/ a = d /\ mem'[a] = [mem[a] EXCEPT !.guard = s.prop.visible]
  <2>1. mem' = mem \/ mem' = [mem EXCEPT ![d].guard = s.prop.visible]
    BY RefreshCommitReturns, Zenon DEF CasApplied
  <2> QED
    BY <1>1, <2>1
<1>3. d \notin RecordAddr
  BY <1>1, RefreshDest
<1>4. t.pc = "idle"
  BY FinishShape
<1>5. AllCopied(m)
  BY <1>1, AloneCopied DEF BackupSteps, PrimeSteps
<1> HIDE DEF t, m, d
<1>6. ClientOf(t, m) /\ Voted(t) = {}
  BY <1>4, RestClient
<1>7. Copies(t, m)
  BY <1>5, <1>6, UnvotedCopies
<1>8. \A a \in RecordAddr : mem'[a] = mem[a]
  BY <1>2, <1>3 DEF RecordAddr, AddrOf
<1>9. ASSUME Records(c)' = m PROVE CachesOlder(Records(c))'
  <2>1. ASSUME NEW e \in AddrOf({"cache"}), mem'[e].valid
        PROVE  CacheMove(e, m)
    <3>1. e \in Addr /\ mem[e] \in Slot
      BY <1>1, <2>1 DEF AddrOf
    <3>2. mem[e] = [mem[e] EXCEPT !.guard = mem[e].guard]
      BY <3>1 DEF Slot
    <3>3. \E g : mem'[e] = [mem[e] EXCEPT !.guard = g]
      BY <1>2, <3>1, <3>2
    <3>4. mem[e].valid
      BY <2>1, <3>1, <3>3 DEF Slot
    <3> QED
      BY <3>1, <3>3, <3>4 DEF CacheMove
  <2> QED
    BY <1>1, <1>9, <2>1, CacheStep
<1>10. t.pc \notin CasPcs /\ \A n \in Nodes : link'[c][n]
  BY <1>1, <1>4 DEF CasPcs, BodyPcs, CasOf
<1> QED
  BY <1>1, <1>4, <1>6, <1>7, <1>8, <1>9, <1>10, StillStep DEF m

(* The probe of CACHE on behalf of the refresh.                            *)
LEMMA RefreshProbeReturns ==
  ASSUME NEW c, Alone(c), AloneInv(c), RefreshProbe(c)
  PROVE  /\ cn[c].pc = "refresh" /\ mem' = mem /\ link' = link
         /\ \/ \E r : cn' = [cn EXCEPT ![c] = [cn[c] EXCEPT !.pc = "refreshBody", !.probe = r]]
            \/ cn' = [cn EXCEPT ![c] = Finish(cn[c], Answer(cn[c]))]
<1> DEFINE s == cn[c]
<1>1. s.pc = "refresh" /\ mem' = mem
  BY DEF RefreshProbe, mnVars
<1>2. PICK r : /\ ProbeReturns(c, r)
               /\ cn' = [cn EXCEPT ![c] = IF r.ok THEN [s EXCEPT !.pc = "refreshBody", !.probe = r]
                                                  ELSE Finish(s, Answer(s))]
  BY Zenon DEF RefreshProbe
<1>3. ~Severed(c)
  <2>1. s.pc # "off" /\ s.pc \in KeyedPcs
    BY <1>1 DEF KeyedPcs, CachePcs
  <2> QED
    BY <2>1, NothingBreaks
<1>4. link' = link
  BY <1>2, <1>3 DEF ProbeReturns, netVars
<1> QED
  BY <1>1, <1>2, <1>4, Zenon

(* td_refresh_cache_best_effort has probed CACHE.                          *)
LEMMA RefreshProbeAlone ==
  ASSUME NEW c, Alone(c), AloneInv(c), RefreshProbe(c)
  PROVE  AloneOf(c)' /\ Records(c)' = Records(c)
<1> DEFINE s == cn[c]
           m == Records(c)
<1>1. s.pc = "refresh" /\ mem' = mem /\ link' = link
  BY RefreshProbeReturns
<1>2. s \in Process /\ ClientOf(s, m) /\ s.pc \notin {"off", "backupCas", "primeCas"}
  BY <1>1, AloneTypes DEF AloneInv, AloneOf
<1>3. AllCopied(m)
  BY <1>1, AloneCopied DEF BackupSteps, PrimeSteps
<1>4. ASSUME NEW r, cn' = [cn EXCEPT ![c] = [s EXCEPT !.pc = "refreshBody", !.probe = r]]
      PROVE  AloneOf(c)' /\ Records(c)' = Records(c)
  <2> DEFINE t == [s EXCEPT !.pc = "refreshBody", !.probe = r]
  <2>1. t.op = s.op /\ t.prop = s.prop /\ t.reply = s.reply /\ t.pc = "refreshBody"
    BY <1>2 DEF Process
  <2>2. cn' = [cn EXCEPT ![c] = t]
    BY <1>4
  <2> HIDE DEF t, m
  <2>3. Commands(t) /\ Answering(t, m)
    BY <1>1, <1>2, <2>1 DEF ClientOf, Commands, Answering, ProposingPcs, EvictPcs, CachePcs,
                            RefreshSteps
  <2>4. Searching(t, m) /\ Proposal(t, m) /\ Unopposed(t, m) /\ Voted(t) = {} /\ t.pc \notin CasPcs
    BY <2>1 DEF Searching, Proposal, Unopposed, Voted, ProposingPcs, RepairSteps, BackupSteps,
                PrimeSteps, CasPcs, BodyPcs, CasOf
  <2>5. ClientOf(t, m)
    BY <2>3, <2>4 DEF ClientOf
  <2>6. Copies(t, m)
    BY <1>3, <2>4, UnvotedCopies
  <2> QED
    BY <1>1, <1>2, <2>2, <2>4, <2>5, <2>6, CalmStep DEF m
<1>5. CASE cn' = [cn EXCEPT ![c] = Finish(s, Answer(s))]
  <2> DEFINE v == Finish(s, Answer(s))
  <2>1. v.pc = "idle" /\ cn' = [cn EXCEPT ![c] = v]
    BY <1>5, FinishShape
  <2> HIDE DEF v, m
  <2> QED
    BY <1>1, <1>2, <1>3, <2>1, RestKeeps DEF m
<1> QED
  BY <1>4, <1>5, RefreshProbeReturns

(* Alone, the client wins the CAS of every record it writes.               *)
LEMMA CommitWins ==
  ASSUME NEW c, Alone(c), AloneInv(c), NEW won, CommitReturns(c, won),
         cn[c].pc \in {"backupBody", "backupCas", "primeBody", "primeCas"}
  PROVE  /\ cn[c].pc \in {"backupCas", "primeCas"} /\ won = TRUE /\ link' = link
         /\ Dest(cn[c]) \in RecordAddr /\ mem' = [mem EXCEPT ![Dest(cn[c])] = cn[c].prop]
         /\ \A a \in RecordAddr : a # Dest(cn[c]) => mem'[a] = Records(c)[a]
<1> DEFINE s == cn[c]
           d == Dest(s)
<1>1. s \in Process /\ mem \in [Addr -> Slot] /\ HalfWritten(s) /\ Proposal(s, Records(c))
  BY AloneTypes DEF AloneInv, AloneOf, ClientOf
<1>2. ~Severed(c)
  <2>1. s.pc # "off" /\ s.pc \in KeyedPcs
    BY DEF KeyedPcs, PrimePcs, BackupPcs
  <2> QED
    BY <2>1, NothingBreaks
<1>3. s.pc \in CasPcs /\ won = CasWins(s) /\ mem' = CasApplied(s) /\ link' = link
  BY <1>2 DEF CommitReturns, netVars
<1>4. s.pc \in {"backupCas", "primeCas"}
  BY <1>3 DEF CasPcs, BodyPcs, CasOf
<1>5. d \in RecordAddr /\ d \in Addr /\ RecordAddr \subseteq Addr
  BY RecordDest DEF RecordAddr, AddrOf
<1>6. mem[d] = [s.prop EXCEPT !.guard = Chosen(s).slot.guard]
  BY <1>1, <1>4 DEF HalfWritten
<1>7. s.prop \in Slot
  BY <1>1 DEF Process
<1>8. mem[d].guard = Chosen(s).slot.guard
  BY <1>6, <1>7 DEF Slot
<1>9. CasWins(s) = TRUE
  BY <1>8 DEF CasWins
<1>10. mem' = [mem EXCEPT ![d].guard = s.prop.visible]
  BY <1>3, <1>9 DEF CasApplied
<1>11. s.prop.guard = s.prop.visible
  BY <1>1, <1>4 DEF Proposal, ProposingPcs
<1>12. mem' = [mem EXCEPT ![d] = s.prop]
  <2>1. [mem[d] EXCEPT !.guard = s.prop.visible] = [s.prop EXCEPT !.guard = s.prop.visible]
    BY <1>6, <1>7 DEF Slot
  <2>2. [mem[d] EXCEPT !.guard = s.prop.visible] = s.prop
    BY <1>7, <1>11, <2>1 DEF Slot
  <2> QED
    BY <1>10, <2>2
<1>13. \A a \in RecordAddr : a # d => mem'[a] = mem[a]
  BY <1>1, <1>5, <1>12
<1>14. \A a \in RecordAddr : a # d => Records(c)[a] = mem[a]
  BY <1>4, RecordsType
<1> QED
  BY <1>3, <1>4, <1>5, <1>9, <1>12, <1>13, <1>14

(* The slot at d becomes prop.                                             *)
Written(m, m2, d, prop) ==
    /\ d \in RecordAddr /\ m2[d] = prop
    /\ \A a \in RecordAddr : a # d => m2[a] = m[a]

(* The slot that was picked is the record of h; or there is none.          *)
LEMMA PickedUnique ==
  ASSUME NEW m, Tidy(m), NEW p, NEW h, NEW d \in RecordAddr, d = <<d[1], d[2], p.at>>,
         Picked(p, d[1], d[2], h, m), NEW b \in RecordAddr, b[1] = d[1], b[2] = d[2],
         RecordOf(m[b], h)
  PROVE  b = d
<1>1. m[d] = p.slot
  BY DEF Picked
<1>2. b \in Region(d[1], d[2])
  BY RecordRegion
<1>3. p.found
  BY <1>2 DEF Picked, Absent
<1>4. RecordOf(m[d], h)
  BY <1>1, <1>3 DEF Picked
<1>5. m[d].valid /\ RecordOf(m[b], m[d].hash)
  BY <1>4 DEF RecordOf
<1> QED
  BY <1>5 DEF Tidy

(* It is no live record of another hash.                                   *)
LEMMA PickedForeign ==
  ASSUME NEW m, NEW p, NEW h, NEW d \in RecordAddr, d = <<d[1], d[2], p.at>>,
         Picked(p, d[1], d[2], h, m), NEW g, g # h
  PROVE  /\ ~LiveOf(m[d], g)
         /\ RecordOf(m[d], g) => m[d].tomb
<1>1. m[d] = p.slot
  BY DEF Picked
<1>2. CASE p.found
  BY <1>1, <1>2 DEF Picked, LiveOf, RecordOf
<1>3. CASE ~p.found
  BY <1>1, <1>3 DEF Picked, LiveOf, RecordOf, Reusable, td_slot_is_empty
<1> QED
  BY <1>2, <1>3

(* A commit keeps the records in order.                                    *)
LEMMA WrittenTidy ==
  ASSUME NEW m, Tidy(m), NEW p, NEW h, NEW d \in RecordAddr, d = <<d[1], d[2], p.at>>,
         Picked(p, d[1], d[2], h, m), NEW m2, NEW prop, Written(m, m2, d, prop),
         RecordOf(prop, h), ~Torn(prop), prop.tomb <=> prop.data = Nil,
         prop.tomb => "delete" \in OpKinds, \A a \in RecordAddr : IntactAt(a, m2)
  PROVE  Tidy(m2)
<1>1. m2[d] = prop /\ \A a \in RecordAddr : a # d => m2[a] = m[a]
  BY DEF Written
<1>2. \A a \in RecordAddr : ~Torn(m2[a])
  BY <1>1 DEF Tidy
<1>3. ASSUME NEW a \in RecordAddr, NEW b \in RecordAddr, a[1] = b[1], a[2] = b[2],
             m2[a].valid, RecordOf(m2[b], m2[a].hash)
      PROVE  a = b
  <2>1. CASE a # d /\ b # d
    BY <1>1, <1>3, <2>1 DEF Tidy
  <2>2. CASE a = d /\ b # d
    <3>1. RecordOf(m[b], h)
      BY <1>1, <1>3, <2>2 DEF RecordOf
    <3> QED
      BY <1>3, <2>2, <3>1, PickedUnique
  <2>3. CASE a # d /\ b = d
    <3>1. RecordOf(m[a], h)
      BY <1>1, <1>3, <2>3 DEF RecordOf
    <3> QED
      BY <1>3, <2>3, <3>1, PickedUnique
  <2> QED
    BY <2>1, <2>2, <2>3
<1>4. ASSUME NEW a \in RecordAddr, m2[a].valid
      PROVE  /\ m2[a].tomb <=> m2[a].data = Nil
             /\ m2[a].tomb => "delete" \in OpKinds
  <2>1. CASE a = d
    BY <1>1, <2>1
  <2>2. CASE a # d
    BY <1>1, <1>4, <2>2 DEF Tidy
  <2> QED
    BY <2>1, <2>2
<1> QED
  BY <1>2, <1>3, <1>4 DEF Tidy

(* A commit to a backup keeps the copies of other keys, and of the other   *)
(* backups of the key.                                                     *)
LEMMA BackupWritten ==
  ASSUME NEW m, NEW p, NEW h, NEW d \in RecordAddr, d = <<d[1], d[2], p.at>>, d[2] = "backup",
         Picked(p, d[1], d[2], h, m), NEW m2, NEW prop, Written(m, m2, d, prop),
         RecordOf(prop, h), NEW k \in Keys, NEW j \in Backups,
         Hash[k] # h \/ td_replica_session(k, j) # d[1]
  PROVE  /\ Copied(m, k, j) => Copied(m2, k, j)
         /\ NoOrphan(m, k, j) => NoOrphan(m2, k, j)
         /\ td_replica_session(k, j) # d[1] => \A q : Pledged(m, k, j, q) => Pledged(m2, k, j, q)
<1>1. m2[d] = prop /\ \A a \in RecordAddr : a # d => m2[a] = m[a]
  BY DEF Written
<1>2. \A a \in Region(td_primary_session(k), "prime") : m2[a] = m[a]
  <2>1. \A a \in Region(td_primary_session(k), "prime") : a \in RecordAddr /\ a[2] = "prime"
    BY RegionRecord DEF RecordKinds
  <2> QED
    BY <1>1, <2>1
<1>3. \A b \in Region(td_replica_session(k, j), "backup") :
          b \in RecordAddr /\ b[1] = td_replica_session(k, j)
  BY RegionRecord DEF RecordKinds
<1>4. \A b \in Region(td_replica_session(k, j), "backup") :
          LiveOf(m[b], Hash[k]) => m2[b] = m[b]
  <2>1. Hash[k] # h => ~LiveOf(m[d], Hash[k])
    BY PickedForeign
  <2> QED
    BY <1>1, <1>3, <2>1
<1>5. \A b \in Region(td_replica_session(k, j), "backup") :
          LiveOf(m2[b], Hash[k]) => m2[b] = m[b]
  BY <1>1, <1>3 DEF LiveOf, RecordOf
<1>6. Copied(m, k, j) => Copied(m2, k, j)
  BY <1>2, <1>4 DEF Copied
<1>7. NoOrphan(m, k, j) => NoOrphan(m2, k, j)
  BY <1>2, <1>5 DEF NoOrphan
<1>8. ASSUME td_replica_session(k, j) # d[1], NEW q, Pledged(m, k, j, q)
      PROVE  Pledged(m2, k, j, q)
  BY <1>1, <1>3, <1>8 DEF Pledged
<1> QED
  BY <1>6, <1>7, <1>8

(* A commit to PRIME keeps the copies of other keys; those of the key hold *)
(* what PRIME holds now.                                                   *)
LEMMA PrimeWritten ==
  ASSUME NEW m, NEW p, NEW h, NEW d \in RecordAddr, d = <<d[1], d[2], p.at>>, d[2] = "prime",
         Picked(p, d[1], d[2], h, m), NEW m2, NEW prop, Written(m, m2, d, prop), Tidy(m2),
         RecordOf(prop, h), NEW k \in Keys, NEW j \in Backups,
         Hash[k] = h => td_primary_session(k) = d[1] /\ Pledged(m, k, j, prop),
         Hash[k] # h => Copied(m, k, j) /\ (BackupCount <= 1 => NoOrphan(m, k, j))
  PROVE  Copied(m2, k, j) /\ (BackupCount <= 1 => NoOrphan(m2, k, j))
<1>1. m2[d] = prop /\ \A a \in RecordAddr : a # d => m2[a] = m[a]
  BY DEF Written
<1>2. \A b \in Region(td_replica_session(k, j), "backup") :
          b \in RecordAddr /\ b[1] = td_replica_session(k, j) /\ b[2] = "backup" /\ m2[b] = m[b]
  BY <1>1, RegionRecord DEF RecordKinds
<1>3. \A a \in Region(td_primary_session(k), "prime") :
          a \in RecordAddr /\ a[1] = td_primary_session(k) /\ a[2] = "prime"
  BY RegionRecord DEF RecordKinds
<1>4. CASE Hash[k] # h
  <2>1. \A a \in Region(td_primary_session(k), "prime") :
            LiveOf(m[a], Hash[k]) \/ LiveOf(m2[a], Hash[k]) => m2[a] = m[a]
    <3>1. ~LiveOf(prop, Hash[k]) /\ ~LiveOf(m[d], Hash[k])
      BY <1>4, PickedForeign DEF LiveOf, RecordOf
    <3> QED
      BY <1>1, <1>3, <3>1
  <2>2. Copied(m2, k, j)
    BY <1>2, <1>4, <2>1 DEF Copied
  <2>3. NoOrphan(m, k, j) => NoOrphan(m2, k, j)
    BY <1>2, <2>1 DEF NoOrphan
  <2> QED
    BY <1>4, <2>2, <2>3
<1>5. CASE Hash[k] = h
  <2>1. PICK b \in Region(td_replica_session(k, j), "backup") : m[b] = prop
    BY <1>5 DEF Pledged
  <2>2. d \in Region(td_primary_session(k), "prime") /\ m2[b] = prop
    BY <1>2, <1>5, <2>1, RecordRegion
  <2>3. ASSUME NEW a \in Region(td_primary_session(k), "prime"), LiveOf(m2[a], h)
        PROVE  m2[a] = prop
    <3>1. a \in RecordAddr /\ a[1] = d[1] /\ a[2] = d[2] /\ RecordOf(m2[a], m2[d].hash) /\ m2[d].valid
      BY <1>1, <1>3, <1>5, <2>3 DEF LiveOf, RecordOf
    <3>2. a = d
      BY <3>1 DEF Tidy
    <3> QED
      BY <1>1, <3>2
  <2>4. ASSUME NEW a \in Region(td_replica_session(k, j), "backup"), LiveOf(m2[a], h)
        PROVE  m2[a] = prop
    <3>1. /\ a \in RecordAddr /\ b \in RecordAddr /\ a[1] = b[1] /\ a[2] = b[2]
          /\ RecordOf(m2[a], m2[b].hash) /\ m2[b].valid
      BY <1>2, <2>2, <2>4 DEF LiveOf, RecordOf
    <3>2. a = b
      BY <3>1 DEF Tidy
    <3> QED
      BY <2>2, <3>2
  <2>5. Copied(m2, k, j)
    BY <1>5, <2>2, <2>3 DEF Copied
  <2>6. NoOrphan(m2, k, j)
    BY <1>1, <1>5, <2>2, <2>4 DEF NoOrphan
  <2> QED
    BY <2>5, <2>6
<1> QED
  BY <1>4, <1>5

(* A commit leaves the entries of the cache older than PRIME.              *)
LEMMA CacheWritten ==
  ASSUME NEW m, Tidy(m), NEW p, NEW h, NEW d \in RecordAddr, d = <<d[1], d[2], p.at>>,
         Picked(p, d[1], d[2], h, m), NEW m2, NEW prop, Written(m, m2, d, prop),
         RecordOf(prop, h), m[d] \in Slot, d[2] = "prime" => prop.visible = m[d].guard + 1,
         "delete" \notin OpKinds, NEW e \in AddrOf({"cache"}), mem[e] \in Slot, CacheOlder(e, m)
  PROVE  CacheOlder(e, m2)
<1>1. m2[d] = prop /\ \A a \in RecordAddr : a # d => m2[a] = m[a]
  BY DEF Written
<1>2. PICK a \in Region(e[1], "prime") :
              /\ RecordOf(m[a], mem[e].hash)
              /\ mem[e].visible <= m[a].visible
              /\ mem[e].visible = m[a].visible => [mem[e] EXCEPT !.guard = m[a].guard] = m[a]
  BY DEF CacheOlder
<1>3. a \in RecordAddr /\ a[2] = "prime"
  BY RegionRecord DEF RecordKinds
<1>4. CASE a # d
  BY <1>1, <1>2, <1>3, <1>4 DEF CacheOlder
<1>5. CASE a = d
  <2>1. mem[e].hash = h
    <3> SUFFICES ASSUME mem[e].hash # h PROVE FALSE
      OBVIOUS
    <3>1. RecordOf(m[d], mem[e].hash)
      BY <1>2, <1>5
    <3>2. m[d].tomb /\ m[d].valid
      BY <3>1, PickedForeign DEF RecordOf
    <3> QED
      BY <3>2 DEF Tidy
  <2>2. m[d].guard = m[d].visible
    BY DEF Tidy, Torn
  <2>3. m2[a].visible = m[d].visible + 1 /\ RecordOf(m2[a], mem[e].hash)
    BY <1>1, <1>3, <1>5, <2>1, <2>2
  <2>4. mem[e].visible \in Int /\ m[d].visible \in Int
    BY DEF Slot, Epochs
  <2>5. mem[e].visible <= m2[a].visible /\ mem[e].visible # m2[a].visible
    BY <1>2, <1>5, <2>3, <2>4
  <2> QED
    BY <2>3, <2>5 DEF CacheOlder
<1> QED
  BY <1>4, <1>5

(* What a client that commits proposes.                                    *)
LEMMA ProposalSlot ==
  ASSUME NEW c, Alone(c), AloneInv(c), cn[c].pc \in ProposingPcs
  PROVE  /\ cn[c].prop \in Slot /\ RecordOf(cn[c].prop, Hash[cn[c].op.key]) /\ ~Torn(cn[c].prop)
         /\ cn[c].prop.tomb <=> cn[c].prop.data = Nil
         /\ cn[c].prop.tomb => "delete" \in OpKinds
         /\ cn[c].op \in Requests /\ cn[c].op.kind \in Mutating /\ cn[c].op.kind \in OpKinds
         /\ cn[c].op.key \in Keys /\ cn[c].reply = NoReply
<1> DEFINE s == cn[c]
<1>1. s \in Process /\ CommandOf(s) /\ Proposal(s, Records(c)) /\ Commands(s)
  BY AloneTypes DEF AloneInv, AloneOf, ClientOf
<1>2. s.prop \in Slot
  BY <1>1 DEF Process
<1>3. RecordOf(s.prop, Hash[s.op.key])
  BY <1>1 DEF CommandOf, RecordOf
<1>4. /\ s.op \in Requests /\ s.op.kind \in Mutating /\ s.op.kind \in OpKinds
      /\ s.reply = NoReply
  BY <1>1 DEF Commands, ProposingPcs
<1>5. s.op.kind = "delete" <=> s.op.val = Nil
  BY <1>4, DataAssumption DEF Requests, Mutating
<1>6. s.op.key \in Keys
  BY <1>4 DEF Requests, Mutating
<1>7. /\ ~Torn(s.prop) /\ (s.prop.tomb <=> s.op.kind = "delete") /\ s.prop.data = s.op.val
  BY <1>1 DEF Proposal, Torn
<1> QED
  BY <1>2, <1>3, <1>4, <1>5, <1>6, <1>7

(* The CAS of a record is one step on the records.                         *)
LEMMA CommitStep ==
  ASSUME NEW c, Alone(c), AloneInv(c), ChainInv', NEW won, CommitReturns(c, won),
         cn[c].pc \in {"backupBody", "backupCas", "primeBody", "primeCas"},
         NEW t, cn' = [cn EXCEPT ![c] = t], t.pc \notin CasPcs
  PROVE  /\ Written(Records(c), Records(c)', Dest(cn[c]), cn[c].prop)
         /\ Tidy(Records(c)') /\ CachesOlder(Records(c))'
<1> DEFINE s == cn[c]
           m == Records(c)
           m2 == Records(c)'
           d == Dest(s)
           h == Hash[s.op.key]
<1>1. /\ c \in CN /\ s \in Process /\ cn \in [CN -> Process] /\ mem \in [Addr -> Slot]
      /\ Tidy(m) /\ CachesOlder(m) /\ Proposal(s, m)
  BY AloneTypes DEF AloneInv, AloneOf, ClientOf
<1>2. /\ d \in RecordAddr /\ mem'[d] = s.prop
      /\ \A a \in Addr : a # d => mem'[a] = mem[a]
      /\ \A a \in RecordAddr : a # d => mem'[a] = m[a]
  <2>1. /\ d \in RecordAddr /\ mem' = [mem EXCEPT ![d] = s.prop]
        /\ \A a \in RecordAddr : a # d => mem'[a] = m[a]
    BY CommitWins
  <2>2. d \in Addr
    BY <2>1 DEF RecordAddr, AddrOf
  <2> QED
    BY <1>1, <2>1, <2>2
<1>3. /\ d = <<d[1], d[2], Chosen(s).at>> /\ Picked(Chosen(s), d[1], d[2], h, m)
      /\ m[d] = Chosen(s).slot /\ m[d] \in Slot
      /\ d[2] = "prime" => Chosen(s) = s.prime
  BY RecordDest
<1>4. s.pc \in ProposingPcs
  BY DEF ProposingPcs
<1>5. /\ s.prop \in Slot /\ RecordOf(s.prop, h) /\ ~Torn(s.prop)
      /\ s.prop.tomb <=> s.prop.data = Nil
      /\ s.prop.tomb => "delete" \in OpKinds
  BY <1>4, ProposalSlot
<1>6. cn'[c] = t
  BY <1>1
<1>7. m2 = [a \in RecordAddr |-> mem'[a]]
  <2>1. m2 = [a \in RecordAddr |-> IF t.pc \in CasPcs /\ a = Dest(t)
                                   THEN Chosen(t).slot ELSE mem'[a]]
    BY <1>6 DEF Records, Dest, Chosen, Node, Kind
  <2> QED
    BY <2>1
<1>8. m \in [RecordAddr -> Slot]
  BY RecordsType
<1> HIDE DEF m2, m, d, h
<1>9. Written(m, m2, d, s.prop)
  BY <1>2, <1>7 DEF Written
<1>10. mem' \in [Addr -> Slot]
  BY DEF ChainInv, CommandInv, TypeInv, TypeOK
<1>11. ASSUME NEW a \in RecordAddr PROVE IntactAt(a, m2)
  <2>1. ProbeChainIntact'
    BY DEF ChainInv
  <2>2. IntactAt(a, mem')
    BY <1>11, <2>1 DEF ProbeChainIntact, IntactAt, Occupied, RecordAddr, RecordKinds
  <2>3. \A b \in RecordAddr : m2[b] = mem'[b] /\ mem'[b] \in Slot
    BY <1>7, <1>10 DEF RecordAddr, AddrOf
  <2>4. KeepsChains(a[1], mem', m2)
    BY <2>3 DEF KeepsChains
  <2> QED
    BY <1>11, <2>2, <2>3, <2>4, IntactStep
<1>12. Tidy(m2)
  BY <1>1, <1>2, <1>3, <1>5, <1>9, <1>11, WrittenTidy
<1>13. d[2] = "prime" => s.prop.visible = m[d].guard + 1
  BY <1>1, <1>3, <1>4 DEF Proposal
<1>14. \A e \in AddrOf({"cache"}) : e # d /\ mem'[e] = mem[e] /\ mem[e] \in Slot
  BY <1>1, <1>2 DEF RecordAddr, AddrOf, RecordKinds
<1>15. ASSUME "delete" \notin OpKinds, NEW e \in AddrOf({"cache"}), mem[e].valid
       PROVE  CacheOlder(e, m2)
  <2>1. CacheOlder(e, m)
    BY <1>1, <1>15 DEF CachesOlder
  <2> QED
    BY <1>1, <1>2, <1>3, <1>5, <1>9, <1>13, <1>14, <1>15, <2>1, CacheWritten
<1>16. CachesOlder(Records(c))'
  <2> SUFFICES ASSUME "delete" \notin OpKinds, NEW e \in AddrOf({"cache"}), mem'[e].valid
               PROVE  CacheOlder(e, Records(c))'
    BY DEF CachesOlder
  <2>1. mem'[e] = mem[e] /\ CacheOlder(e, m2)
    BY <1>14, <1>15
  <2> QED
    BY <2>1 DEF CacheOlder, m2
<1> QED
  BY <1>9, <1>12, <1>16 DEF m, m2, d

(* The invariant after a commit.                                           *)
LEMMA CommitAlone ==
  ASSUME NEW c, Alone(c), AloneInv(c), ChainInv', NEW won, CommitReturns(c, won),
         cn[c].pc \in {"backupBody", "backupCas", "primeBody", "primeCas"},
         NEW t, cn' = [cn EXCEPT ![c] = t], t.pc \notin CasPcs,
         ClientOf(t, Records(c)'), Copies(t, Records(c)')
  PROVE  AloneOf(c)'
<1>1. c \in CN /\ cn \in [CN -> Process] /\ \A n \in Nodes : link[c][n]
  BY AloneTypes DEF AloneInv, AloneOf
<1>2. cn'[c] = t
  BY <1>1
<1>3. Tidy(Records(c)') /\ CachesOlder(Records(c))'
  BY CommitStep
<1>4. link' = link
  BY CommitWins
<1>5. HalfWritten(cn[c])'
  <2>1. t.pc \notin {"backupCas", "primeCas"}
    BY DEF CasPcs, BodyPcs, CasOf
  <2> QED
    BY <1>2, <2>1 DEF HalfWritten
<1>6. ClientOf(cn[c], Records(c))' /\ Copies(cn[c], Records(c))'
  BY <1>2
<1> QED
  BY <1>1, <1>3, <1>4, <1>5, <1>6 DEF AloneOf

(* What was picked in slots of another kind stays picked.                  *)
LEMMA PickedElsewhere ==
  ASSUME NEW m, NEW m2, NEW d, NEW prop, Written(m, m2, d, prop), NEW p, NEW n,
         NEW kind \in RecordKinds, NEW h, d[2] # kind, Picked(p, n, kind, h, m)
  PROVE  Picked(p, n, kind, h, m2)
<1>1. \A a \in RecordAddr : a # d => m2[a] = m[a]
  BY DEF Written
<1> DEFINE a == <<n, kind, p.at>>
<1>2. a \in RecordAddr /\ a[2] = kind
  BY DEF Picked
<1>3. m2[a] = m[a]
  BY <1>1, <1>2
<1>4. \A b \in Region(n, kind) : m2[b] = m[b]
  <2>1. \A b \in Region(n, kind) : b \in RecordAddr /\ b[2] = kind
    BY RegionRecord
  <2> QED
    BY <1>1, <2>1
<1> QED
  BY <1>3, <1>4 DEF Picked, Absent

(* A backup has accepted the proposal.                                     *)
LEMMA BackupCommitReturns ==
  ASSUME NEW c, Alone(c), AloneInv(c), BackupCommit(c)
  PROVE  \E u \in Process :
            LET s == cn[c]
            IN  /\ s.pc = "backupCas" /\ CommitReturns(c, TRUE)
                /\ u.op = s.op /\ u.prime = s.prime /\ u.prop = s.prop /\ u.reply = s.reply
                /\ \A i \in Backups : i < s.idx + 1 => u.votes[i].success
                /\ cn' = [cn EXCEPT ![c] = BackupFrom(u, s.idx + 1)]
<1> DEFINE s == cn[c]
<1>1. s.pc \in {"backupBody", "backupCas"}
  BY DEF BackupCommit
<1>2. PICK won \in BOOLEAN :
         /\ CommitReturns(c, won)
         /\ cn' = [cn EXCEPT ![c] =
               BackupFrom([s EXCEPT !.votes[s.idx] =
                              [success |-> won,
                               tie |-> IF won THEN 0 ELSE s.probe.slot.tie]],
                          s.idx + 1)]
  BY Zenon DEF BackupCommit
<1>3. s.pc \in {"backupBody", "backupCas", "primeBody", "primeCas"}
  BY <1>1
<1>4. s.pc \in {"backupCas", "primeCas"} /\ won = TRUE
  BY <1>2, <1>3, CommitWins
<1>5. s.pc = "backupCas"
  BY <1>1, <1>4
<1> DEFINE vote == [success |-> TRUE, tie |-> 0]
           u == [s EXCEPT !.votes[s.idx] = vote]
<1>6. cn' = [cn EXCEPT ![c] = BackupFrom(u, s.idx + 1)] /\ CommitReturns(c, TRUE)
  BY <1>2, <1>4
<1>7. /\ s \in Process /\ s.idx \in Backups
      /\ \A i \in Backups : i < s.idx => s.votes[i].success
  BY <1>5, AloneTypes DEF AloneInv, AloneOf, ClientOf, Unopposed, BackupSteps
<1>8. vote \in Vote
  BY TieAssumption DEF Vote
<1>9. u \in Process /\ u.votes = [s.votes EXCEPT ![s.idx] = vote]
  BY <1>7, <1>8 DEF Process
<1>10. u.op = s.op /\ u.prime = s.prime /\ u.prop = s.prop /\ u.reply = s.reply
  BY <1>7 DEF Process
<1>11. ASSUME NEW i \in Backups, i < s.idx + 1 PROVE u.votes[i].success
  <2>1. s.votes \in [Backups -> Vote]
    BY <1>7 DEF Process
  <2>2. i = s.idx \/ i < s.idx
    <3>1. s.idx \in Nat /\ i \in Nat
      BY <1>7, <1>11, BackupsType
    <3> QED
      BY <1>11, <3>1
  <2>3. CASE i = s.idx
    BY <1>7, <1>9, <2>1, <2>3
  <2>4. CASE i # s.idx
    BY <1>7, <1>9, <1>11, <2>1, <2>2, <2>4
  <2> QED
    BY <2>3, <2>4
<1> HIDE DEF u
<1> QED
  BY <1>5, <1>6, <1>9, <1>10, <1>11, Zenon

(* The copies after a backup has accepted.                                 *)
LEMMA BackupCommitCopies ==
  ASSUME NEW c, Alone(c), AloneInv(c), NEW s, s = cn[c], s.pc = "backupCas", NEW t, NEW m2,
         Written(Records(c), m2, Dest(s), s.prop), t.op = s.op, t.prop = s.prop,
         Voted(t) = {j \in Backups : j < s.idx + 1}
  PROVE  Copies(t, m2)
<1> DEFINE m == Records(c)
           d == Dest(s)
           h == Hash[s.op.key]
           p == Chosen(s)
<1>1. /\ d \in RecordAddr /\ d = <<d[1], d[2], p.at>> /\ Picked(p, d[1], d[2], h, m)
      /\ d[1] = td_replica_session(s.op.key, s.idx) /\ d[2] = "backup" /\ s.idx \in Backups
  BY RecordDest
<1>2. s.pc \in ProposingPcs
  BY DEF ProposingPcs
<1>3. RecordOf(s.prop, h) /\ s.op.key \in Keys
  BY <1>2, ProposalSlot
<1>4. Copies(s, m)
  BY DEF AloneInv, AloneOf
<1>5. Voted(s) = {j \in Backups : j < s.idx}
  BY DEF Voted, BackupSteps
<1> HIDE DEF m, d, h, p
<1>6. Written(m, m2, d, s.prop)
  BY DEF m, d
<1> SUFFICES ASSUME NEW k \in Keys, NEW j \in Backups
             PROVE  IF j \in Voted(t) /\ Hash[k] = h
                    THEN Pledged(m2, k, j, s.prop)
                    ELSE Copied(m2, k, j) /\ (BackupCount <= 1 => NoOrphan(m2, k, j))
  BY DEF Copies, h
<1>7. j \in Nat /\ s.idx \in Nat
  BY <1>1, BackupsType
<1>8. Hash[k] = h /\ j # s.idx => td_replica_session(k, j) # d[1]
  <2> SUFFICES ASSUME Hash[k] = h, td_replica_session(k, j) = d[1] PROVE j = s.idx
    OBVIOUS
  <2>1. td_replica_session(k, s.idx) = td_replica_session(s.op.key, s.idx)
    BY <1>3, SameHash DEF h
  <2>2. td_replica_session(k, j) = td_replica_session(k, s.idx)
    BY <1>1, <2>1
  <2> QED
    BY <1>1, <2>2, ReplicasDiffer
<1>9. CASE Hash[k] = h /\ j = s.idx
  <2>1. j \in Voted(t)
    BY <1>7, <1>9
  <2>2. td_replica_session(k, j) = d[1]
    BY <1>1, <1>3, <1>9, SameHash DEF h
  <2>3. d \in Region(td_replica_session(k, j), "backup")
    BY <1>1, <2>2, RecordRegion
  <2>4. Pledged(m2, k, j, s.prop)
    BY <1>6, <2>3 DEF Pledged, Written
  <2> QED
    BY <1>9, <2>1, <2>4
<1>10. CASE Hash[k] # h \/ j # s.idx
  <2>1. Hash[k] # h \/ td_replica_session(k, j) # d[1]
    BY <1>8, <1>10
  <2>2. /\ Copied(m, k, j) => Copied(m2, k, j)
        /\ NoOrphan(m, k, j) => NoOrphan(m2, k, j)
        /\ td_replica_session(k, j) # d[1] => \A q : Pledged(m, k, j, q) => Pledged(m2, k, j, q)
    BY <1>1, <1>3, <1>6, <2>1, BackupWritten
  <2>3. IF j \in Voted(s) /\ Hash[k] = h
        THEN Pledged(m, k, j, s.prop)
        ELSE Copied(m, k, j) /\ (BackupCount <= 1 => NoOrphan(m, k, j))
    BY <1>4 DEF Copies, h
  <2>4. j # s.idx => (j \in Voted(t) <=> j \in Voted(s))
    BY <1>5, <1>7
  <2> QED
    BY <1>8, <1>10, <2>2, <2>3, <2>4
<1> QED
  BY <1>9, <1>10

(* td_cluster_write_value goes on to the next backup, or to PRIME.         *)
LEMMA BackupCommitAlone ==
  ASSUME NEW c, Alone(c), AloneInv(c), ChainInv', BackupCommit(c)
  PROVE  /\ AloneOf(c)' /\ Written(Records(c), Records(c)', Dest(cn[c]), cn[c].prop)
         /\ Dest(cn[c])[2] = "backup" /\ cn'[c].pc \in ProposingPcs
         /\ cn'[c].op = cn[c].op /\ cn'[c].reply = cn[c].reply
<1> DEFINE s == cn[c]
           m2 == Records(c)'
           d == Dest(s)
<1>1. PICK u \in Process :
          /\ s.pc = "backupCas" /\ CommitReturns(c, TRUE)
          /\ u.op = s.op /\ u.prime = s.prime /\ u.prop = s.prop /\ u.reply = s.reply
          /\ \A i \in Backups : i < s.idx + 1 => u.votes[i].success
          /\ cn' = [cn EXCEPT ![c] = BackupFrom(u, s.idx + 1)]
  BY BackupCommitReturns, Zenon
<1> DEFINE t == BackupFrom(u, s.idx + 1)
<1>2. s.idx + 1 \in Nat /\ s.idx + 1 >= 1
  BY AloneTypes DEF Process
<1>3. /\ t.op = s.op /\ t.prime = s.prime /\ t.prop = s.prop /\ t.reply = s.reply
      /\ \/ s.idx + 1 \in Backups /\ t.pc = "backup" /\ t.idx = s.idx + 1 /\ t.probe = ProbeStart
            /\ \A i \in Backups : i < s.idx + 1 => t.votes[i].success
         \/ /\ t.pc = "primeBody" /\ \A i \in Backups : i < s.idx + 1
            /\ \A i \in Backups : t.votes[i].success
  BY <1>1, <1>2, NextBackup
<1>4. cn' = [cn EXCEPT ![c] = t] /\ s.pc \in {"backupBody", "backupCas", "primeBody", "primeCas"}
  BY <1>1
<1> HIDE DEF t
<1>5. t.pc \notin CasPcs /\ t.pc \in ProposingPcs /\ s.pc \in ProposingPcs
  BY <1>1, <1>3 DEF CasPcs, BodyPcs, CasOf, ProposingPcs
<1>6. Written(Records(c), m2, d, s.prop)
  BY <1>1, <1>4, <1>5, CommitStep
<1>7. d[2] = "backup"
  BY <1>1, <1>4, RecordDest
<1>8. Proposal(t, m2)
  <2>1. Proposal(s, Records(c))
    BY DEF AloneInv, AloneOf, ClientOf
  <2>2. Picked(s.prime, td_primary_session(s.op.key), "prime", Hash[s.op.key], Records(c))
    BY <1>5, <2>1 DEF Proposal
  <2>3. "prime" \in RecordKinds /\ d[2] # "prime"
    BY <1>7 DEF RecordKinds
  <2> HIDE DEF m2, d
  <2>4. Picked(s.prime, td_primary_session(s.op.key), "prime", Hash[s.op.key], m2)
    BY <1>6, <2>2, <2>3, PickedElsewhere
  <2> QED
    BY <1>3, <1>5, <2>1, <2>4 DEF Proposal
<1>9. /\ s.op \in Requests /\ s.op.kind \in OpKinds /\ s.op.kind \in Mutating /\ s.reply = NoReply
  BY <1>5, ProposalSlot
<1>10. ClientOf(t, m2)
  <2> HIDE DEF m2
  <2> QED
    BY <1>3, <1>8, <1>9, ProposingClient
<1>11. Voted(t) = {j \in Backups : j < s.idx + 1}
  BY <1>3 DEF Voted, BackupSteps, PrimeSteps
<1>12. Copies(t, m2)
  BY <1>1, <1>3, <1>6, <1>11, BackupCommitCopies
<1>13. AloneOf(c)'
  BY <1>1, <1>4, <1>5, <1>10, <1>12, CommitAlone
<1>14. cn'[c] = t
  BY <1>4, AloneTypes
<1> QED
  BY <1>3, <1>5, <1>6, <1>7, <1>13, <1>14

(* Every backup has accepted: no repair, the cache is next.                *)
LEMMA PrimeCommitReturns ==
  ASSUME NEW c, Alone(c), AloneInv(c), PrimeCommit(c)
  PROVE  /\ cn[c].pc = "primeCas" /\ CommitReturns(c, TRUE)
         /\ cn' = [cn EXCEPT ![c] = td_refresh_cache_best_effort(cn[c])]
<1> DEFINE s == cn[c]
           t == RepairFrom(s, 1)
<1>1. s.pc \in {"primeBody", "primeCas"}
  BY DEF PrimeCommit
<1>2. PICK won \in BOOLEAN :
         /\ CommitReturns(c, won)
         /\ cn' = [cn EXCEPT ![c] = IF won THEN t ELSE Finish(s, Error)]
  BY Zenon DEF PrimeCommit
<1>3. s.pc \in {"backupBody", "backupCas", "primeBody", "primeCas"}
  BY <1>1
<1>4. s.pc \in {"backupCas", "primeCas"} /\ won = TRUE
  BY <1>2, <1>3, CommitWins
<1>5. s.pc = "primeCas"
  BY <1>1, <1>4
<1>6. s.votes \in [Backups -> Vote] /\ \A j \in Backups : s.votes[j].success
  BY <1>5, AloneTypes DEF AloneInv, AloneOf, ClientOf, Unopposed, PrimeSteps, Process
<1>7. Lost(s.votes) = {}
  BY <1>6 DEF Lost
<1>8. {i \in Lost(s.votes) : i >= 1} = {}
  BY <1>7
<1>9. t = td_refresh_cache_best_effort(s)
  BY <1>8, Zenon DEF RepairFrom
<1>10. cn' = [cn EXCEPT ![c] = t]
  BY <1>2, <1>4, Zenon
<1> QED
  BY <1>2, <1>4, <1>5, <1>9, <1>10

(* The client after its primary commit.                                    *)
LEMMA RefreshOutcome ==
  ASSUME NEW s \in Process
  PROVE  LET t == td_refresh_cache_best_effort(s)
         IN  \/ /\ CacheOn /\ t.pc = "refresh" /\ t.op = s.op /\ t.prop = s.prop
                /\ t.reply = s.reply /\ t.probe = ProbeStart
             \/ ~CacheOn /\ t = Finish(s, Answer(s)) /\ t.pc = "idle"
<1> DEFINE v == Probe(s, "refresh")
<1>1. /\ v.pc = "refresh" /\ v.op = s.op /\ v.prop = s.prop /\ v.reply = s.reply
      /\ v.probe = ProbeStart
  BY DEF Probe, Process
<1> HIDE DEF v
<1>2. td_refresh_cache_best_effort(s) = IF CacheOn THEN v ELSE Finish(s, Answer(s))
  BY DEF td_refresh_cache_best_effort, v
<1> QED
  BY <1>1, <1>2, FinishShape

(* The copies after the primary commit.                                    *)
LEMMA PrimeCommitCopies ==
  ASSUME NEW c, Alone(c), AloneInv(c), NEW s, s = cn[c], s.pc = "primeCas", NEW m2,
         Written(Records(c), m2, Dest(s), s.prop), Tidy(m2)
  PROVE  AllCopied(m2)
<1> DEFINE m == Records(c)
           d == Dest(s)
           h == Hash[s.op.key]
           p == Chosen(s)
<1>1. /\ d \in RecordAddr /\ d = <<d[1], d[2], p.at>> /\ Picked(p, d[1], d[2], h, m)
      /\ d[1] = td_primary_session(s.op.key) /\ d[2] = "prime"
  BY RecordDest
<1>2. s.pc \in ProposingPcs
  BY DEF ProposingPcs
<1>3. RecordOf(s.prop, h) /\ s.op.key \in Keys
  BY <1>2, ProposalSlot
<1>4. Copies(s, m)
  BY DEF AloneInv, AloneOf
<1>5. Voted(s) = Backups
  BY DEF Voted, BackupSteps, PrimeSteps
<1> HIDE DEF m, d, h, p
<1>6. Written(m, m2, d, s.prop)
  BY DEF m, d
<1>7. ASSUME NEW k \in Keys, NEW j \in Backups
      PROVE  Copied(m2, k, j) /\ (BackupCount <= 1 => NoOrphan(m2, k, j))
  <2>1. IF Hash[k] = h THEN Pledged(m, k, j, s.prop)
        ELSE Copied(m, k, j) /\ (BackupCount <= 1 => NoOrphan(m, k, j))
    BY <1>4, <1>5 DEF Copies, h
  <2>2. Hash[k] = h => td_primary_session(k) = d[1]
    BY <1>1, <1>3, SameHash DEF h
  <2> QED
    BY <1>1, <1>3, <1>6, <2>1, <2>2, PrimeWritten
<1> QED
  BY <1>7 DEF AllCopied

(* td_cluster_write_value after its primary commit.                        *)
LEMMA PrimeCommitAlone ==
  ASSUME NEW c, Alone(c), AloneInv(c), ChainInv', PrimeCommit(c)
  PROVE  /\ AloneOf(c)' /\ Written(Records(c), Records(c)', Dest(cn[c]), cn[c].prop)
         /\ Dest(cn[c])[2] = "prime" /\ Dest(cn[c])[1] = td_primary_session(cn[c].op.key)
         /\ \/ /\ CacheOn /\ cn'[c].pc = "refresh" /\ cn'[c].op = cn[c].op
               /\ cn'[c].reply = cn[c].reply
            \/ ~CacheOn /\ cn'[c] = Finish(cn[c], Answer(cn[c]))
<1> DEFINE s == cn[c]
           m2 == Records(c)'
           d == Dest(s)
           t == td_refresh_cache_best_effort(s)
<1>1. s.pc = "primeCas" /\ CommitReturns(c, TRUE) /\ cn' = [cn EXCEPT ![c] = t]
  BY PrimeCommitReturns
<1>2. s \in Process /\ cn \in [CN -> Process] /\ c \in CN
  BY AloneTypes
<1>3. \/ /\ CacheOn /\ t.pc = "refresh" /\ t.op = s.op /\ t.prop = s.prop
         /\ t.reply = s.reply /\ t.probe = ProbeStart
      \/ ~CacheOn /\ t = Finish(s, Answer(s)) /\ t.pc = "idle"
  BY <1>2, RefreshOutcome
<1>4. cn'[c] = t
  BY <1>1, <1>2
<1> HIDE DEF t
<1>5. t.pc \notin CasPcs /\ s.pc \in ProposingPcs
      /\ s.pc \in {"backupBody", "backupCas", "primeBody", "primeCas"}
  BY <1>1, <1>3 DEF CasPcs, BodyPcs, CasOf, ProposingPcs
<1>6. Written(Records(c), m2, d, s.prop) /\ Tidy(m2)
  BY <1>1, <1>5, CommitStep
<1>7. d \in RecordAddr /\ d[2] = "prime" /\ d[1] = td_primary_session(s.op.key)
  BY <1>1, <1>5, RecordDest
<1>8. AllCopied(m2)
  BY <1>1, <1>6, PrimeCommitCopies
<1>9. /\ s.op \in Requests /\ s.op.kind \in OpKinds /\ s.op.kind \in Mutating /\ s.reply = NoReply
      /\ RecordOf(s.prop, Hash[s.op.key])
  BY <1>5, ProposalSlot
<1>10. ClientOf(t, m2) /\ Voted(t) = {}
  <2>1. CASE t.pc = "idle"
    BY <2>1, RestClient
  <2>2. CASE t.pc # "idle"
    <3>1. d \in Region(td_primary_session(s.op.key), "prime") /\ m2[d] = s.prop
      BY <1>6, <1>7, RecordRegion DEF Written
    <3>2. s.op.kind # "evict" /\ s.op.kind # "read"
      BY <1>9 DEF Mutating
    <3> HIDE DEF m2, d
    <3>3. \E a \in Region(td_primary_session(t.op.key), "prime") : m2[a] = t.prop
      BY <1>3, <2>2, <3>1
    <3> QED
      BY <1>3, <1>9, <2>2, <3>2, <3>3, RefreshClient
  <2> QED
    BY <2>1, <2>2
<1>11. Copies(t, m2)
  <2> HIDE DEF m2
  <2> QED
    BY <1>8, <1>10, UnvotedCopies
<1>12. AloneOf(c)'
  BY <1>1, <1>5, <1>10, <1>11, CommitAlone
<1> QED
  BY <1>3, <1>4, <1>6, <1>7, <1>12

(***************************************************************************)
(* The memory nodes, and every step.                                       *)
(***************************************************************************)

(* The eviction threads leave the records alone.                           *)
LEMMA NodeAlone ==
  ASSUME NEW c, Alone(c), AloneInv(c), NEW n \in Nodes, NodeNext(n)
  PROVE  AloneOf(c)' /\ Records(c)' = Records(c) /\ cn' = cn
<1> DEFINE m == Records(c)
<1>1. mem \in [Addr -> Slot] /\ AloneOf(c)
  BY AloneTypes DEF AloneInv
<1>2. ThreadCount(n) \/ \E e \in Evictors : Sweep(n, e)
  BY NoRestart DEF NodeNext
<1>3. cn' = cn /\ link' = link /\ (mem' = mem \/ \E victims : mem' = Cleared(n, victims))
  <2>1. CASE ThreadCount(n)
    BY <2>1 DEF ThreadCount, netVars
  <2>2. ASSUME NEW e \in Evictors, Sweep(n, e)
        PROVE  cn' = cn /\ link' = link /\ mem' = Cleared(n, Victims(n, target[n][e]))
    BY <2>2, Zenon DEF Sweep, netVars
  <2> QED
    BY <1>2, <2>1, <2>2
<1>4. /\ \A a \in RecordAddr : mem'[a] = mem[a]
      /\ \A e \in AddrOf({"cache"}) : mem'[e] = mem[e] \/ mem'[e] = EmptySlot
  <2>1. ASSUME NEW victims, mem' = Cleared(n, victims)
        PROVE  /\ \A a \in RecordAddr : mem'[a] = mem[a]
               /\ \A e \in AddrOf({"cache"}) : mem'[e] = mem[e] \/ mem'[e] = EmptySlot
    BY <2>1 DEF Cleared, RecordAddr, AddrOf, RecordKinds
  <2> QED
    BY <1>3, <2>1
<1>5. Records(c)' = m
  <2>1. Records(c)' = [a \in RecordAddr |-> IF cn[c].pc \in CasPcs /\ a = Dest(cn[c])
                                            THEN Chosen(cn[c]).slot ELSE mem'[a]]
    BY <1>3 DEF Records, Dest, Chosen, Node, Kind
  <2> QED
    BY <1>4, <2>1 DEF Records
<1>6. HalfWritten(cn[c])'
  <2>1. cn[c].pc \in {"backupCas", "primeCas"} => Dest(cn[c]) \in RecordAddr
    BY RecordDest
  <2>2. cn[c].pc \in {"backupCas", "primeCas"} => mem'[Dest(cn[c])] = mem[Dest(cn[c])]
    BY <1>4, <2>1
  <2>3. HalfWritten(cn[c])
    BY <1>1 DEF AloneOf
  <2> QED
    BY <1>3, <2>2, <2>3 DEF HalfWritten, Dest, Chosen, Node, Kind
<1>7. CachesOlder(Records(c))'
  <2>1. CachesOlder(m)
    BY <1>1 DEF AloneOf
  <2>2. ASSUME NEW e \in AddrOf({"cache"}), mem'[e].valid PROVE CacheMove(e, m)
    <3>1. mem'[e] = mem[e]
      BY <1>4, <2>2 DEF EmptySlot
    <3>2. mem[e] \in Slot
      BY <1>1, <2>2 DEF AddrOf
    <3>3. mem'[e] = [mem[e] EXCEPT !.guard = mem[e].guard]
      BY <3>1, <3>2 DEF Slot
    <3> QED
      BY <2>2, <3>1, <3>2, <3>3 DEF CacheMove
  <2> HIDE DEF m
  <2> QED
    BY <1>5, <2>1, <2>2, CacheStep
<1>8. Tidy(m) /\ ClientOf(cn[c], m) /\ Copies(cn[c], m)
  BY <1>1 DEF AloneOf
<1> HIDE DEF m
<1>9. Tidy(Records(c))' /\ ClientOf(cn[c], Records(c))' /\ Copies(cn[c], Records(c))'
  BY <1>3, <1>5, <1>8
<1>10. (cn[c].pc # "off" => \A i \in Nodes : link[c][i])'
  BY <1>1, <1>3 DEF AloneOf
<1> QED
  BY <1>3, <1>5, <1>6, <1>7, <1>9, <1>10 DEF AloneOf, m

(* The steps of the system when nothing breaks and nobody else is there.   *)
LEMMA AloneSteps ==
  ASSUME NEW c, Alone(c), AloneInv(c), [Next]_vars
  PROVE  \/ UNCHANGED vars
         \/ Connect(c) \/ Quit(c) \/ Scan(c)
         \/ \E o \in Requests : o.kind \in OpKinds /\ Begin(c, o)
         \/ WriteBody(c) /\ cn[c].pc \in {"backupBody", "primeBody"}
         \/ WriteBody(c) /\ cn[c].pc = "refreshBody"
         \/ ReadPrime(c) \/ ReadCache(c) \/ WritePrime(c) \/ BackupProbe(c)
         \/ BackupCommit(c) \/ PrimeCommit(c) \/ RefreshProbe(c) \/ RefreshCommit(c)
         \/ EvictRequest(c) \/ EvictAnswered(c)
         \/ \E n \in Nodes : NodeNext(n)
<1>1. \A d \in CN : d = c
  BY DEF Alone
<1>2. CASE UNCHANGED vars
  BY <1>2
<1>3. CASE \E n \in Nodes : NodeNext(n)
  BY <1>3
<1>4. CASE ClientNext(c)
  <2>1. cn[c].pc \notin RepairSteps
    BY DEF AloneInv, AloneOf, ClientOf, Unopposed
  <2>2. ~Crash(c) /\ ~EvictFails(c)
    <3>1. CASE cn[c].pc = "off"
      BY <3>1 DEF Crash, EvictFails, EvictPcs
    <3>2. CASE cn[c].pc # "off"
      BY <3>2, NothingBreaks
    <3> QED
      BY <3>1, <3>2
  <2>3. ~Wait(c) /\ ~RepairProbe(c) /\ ~RepairCommit(c)
    BY <2>1 DEF Wait, RepairProbe, RepairCommit, RepairSteps
  <2>4. CASE WriteBody(c)
    <3>1. cn[c].pc \in BodyPcs
      BY <2>4 DEF WriteBody
    <3>2. cn[c].pc \in {"backupBody", "primeBody", "refreshBody"}
      BY <2>1, <3>1 DEF BodyPcs, CasOf, RepairSteps
    <3> QED
      BY <2>4, <3>2
  <2>5. CASE \E o \in {r \in Requests : r.kind \in OpKinds} : Begin(c, o)
    BY <2>5
  <2> QED
    BY <1>4, <2>2, <2>3, <2>4, <2>5 DEF ClientNext, CommandStep
<1> QED
  BY <1>1, <1>2, <1>3, <1>4 DEF Next

(* The steps that change no record.                                        *)
LEMMA RecordsKept ==
  ASSUME NEW c, Alone(c), AloneInv(c), [Next]_vars, ~BackupCommit(c), ~PrimeCommit(c)
  PROVE  AloneOf(c)' /\ Records(c)' = Records(c)
<1>1. CASE UNCHANGED vars
  <2>1. mem' = mem /\ link' = link /\ cn' = cn
    BY <1>1 DEF vars
  <2>2. Records(c)' = Records(c)
    BY <2>1 DEF Records, Dest, Chosen, Node, Kind
  <2>3. AloneOf(c)
    BY DEF AloneInv
  <2>4. HalfWritten(cn[c])' /\ (CachesOlder(Records(c)) => CachesOlder(Records(c))')
    BY <2>1, <2>2, <2>3 DEF AloneOf, HalfWritten, Dest, Chosen, Node, Kind, CachesOlder, CacheOlder
  <2> QED
    BY <2>1, <2>2, <2>3, <2>4 DEF AloneOf
<1>2. CASE Connect(c) \/ Quit(c)
  BY <1>2, SessionAlone
<1>3. CASE Scan(c)
  BY <1>3, ScanAlone
<1>4. CASE \E o \in Requests : o.kind \in OpKinds /\ Begin(c, o)
  BY <1>4, BeginAlone
<1>5. CASE WriteBody(c) /\ cn[c].pc \in {"backupBody", "primeBody"}
  BY <1>5, RecordBodyAlone
<1>6. CASE WriteBody(c) /\ cn[c].pc = "refreshBody"
  BY <1>6, RefreshBodyAlone
<1>7. CASE ReadPrime(c) \/ ReadCache(c)
  BY <1>7, ReadPrimeAlone, ReadCacheAlone
<1>8. CASE WritePrime(c) \/ BackupProbe(c)
  BY <1>8, WritePrimeAlone, BackupProbeAlone
<1>9. CASE RefreshProbe(c) \/ RefreshCommit(c)
  BY <1>9, RefreshProbeAlone, RefreshCommitAlone
<1>10. CASE EvictRequest(c) \/ EvictAnswered(c)
  BY <1>10, EvictAlone
<1>11. CASE \E n \in Nodes : NodeNext(n)
  BY <1>11, NodeAlone
<1> QED
  BY <1>1, <1>2, <1>3, <1>4, <1>5, <1>6, <1>7, <1>8, <1>9, <1>10, <1>11, AloneSteps

(* Every step keeps the invariant of a client alone.                       *)
LEMMA NextAlone ==
  ASSUME NEW c, Alone(c)
  PROVE  AloneInv(c) /\ [Next]_vars => AloneInv(c)'
<1> SUFFICES ASSUME AloneInv(c), [Next]_vars PROVE AloneInv(c)'
  OBVIOUS
<1>1. ChainInv'
  BY NextChain DEF AloneInv
<1>2. AloneOf(c)'
  BY <1>1, RecordsKept, BackupCommitAlone, PrimeCommitAlone
<1> QED
  BY <1>1, <1>2 DEF AloneInv

(* It holds of the empty cluster.                                          *)
LEMMA InitAlone ==
  ASSUME NEW c, Alone(c)
  PROVE  Init => AloneInv(c)
<1> SUFFICES ASSUME Init PROVE AloneInv(c)
  OBVIOUS
<1>1. c \in CN /\ cn[c].pc = "off" /\ mem = [a \in Addr |-> EmptySlot]
  BY DEF Init, Alone, Off
<1>2. \A a \in RecordAddr : Records(c)[a] = EmptySlot
  BY <1>1 DEF Records, CasPcs, BodyPcs, CasOf, RecordAddr, AddrOf
<1> DEFINE m == Records(c)
<1> HIDE DEF m
<1>3. \A a \in RecordAddr : ~m[a].valid /\ ~Torn(m[a])
  BY <1>2 DEF m, EmptySlot, Torn
<1>4. Tidy(m)
  BY <1>3 DEF Tidy, IntactAt, RecordOf
<1>5. ClientOf(cn[c], m) /\ Voted(cn[c]) = {}
  BY <1>1, RestClient
<1>6. AllCopied(m)
  <2>1. ASSUME NEW k \in Keys, NEW j \in Backups PROVE Copied(m, k, j) /\ NoOrphan(m, k, j)
    <3>1. \A a \in Region(td_primary_session(k), "prime") : ~m[a].valid
      BY <1>3, RegionRecord DEF RecordKinds
    <3>2. \A a \in Region(td_replica_session(k, j), "backup") : ~m[a].valid
      BY <1>3, RegionRecord DEF RecordKinds
    <3> QED
      BY <3>1, <3>2 DEF Copied, NoOrphan, LiveOf, RecordOf
  <2> QED
    BY <2>1 DEF AllCopied
<1>7. Copies(cn[c], m)
  BY <1>5, <1>6, UnvotedCopies
<1>8. CachesOlder(m)
  BY <1>1 DEF CachesOlder, AddrOf, EmptySlot
<1>9. HalfWritten(cn[c])
  BY <1>1 DEF HalfWritten
<1> QED
  BY <1>1, <1>4, <1>5, <1>7, <1>8, <1>9, InitChain DEF AloneInv, AloneOf, m

(* So it always holds.                                                     *)
LEMMA AlwaysAlone ==
  ASSUME NEW c, Alone(c)
  PROVE  Spec => []AloneInv(c)
<1>1. Init => AloneInv(c)
  BY InitAlone
<1>2. AloneInv(c) /\ [Next]_vars => AloneInv(c)'
  BY NextAlone
<1> QED
  BY <1>1, <1>2, PTL DEF Spec

(***************************************************************************)
(* A cache that is never evicted from: with a threshold above 100 no node  *)
(* ever finds an eviction due.  Then a live entry is the record of its key *)
(* in PRIME, but for the entries of a key whose refresh is under way.      *)
(***************************************************************************)

CacheAddr == AddrOf({"cache"})

(* Where the process s refreshes the cache.                                *)
HomeNode(s) == td_primary_session(s.op.key)
RefreshAt(s) == <<HomeNode(s), "cache", s.probe.at>>

(* No entry is torn but the one under commit, a hash has one entry on a    *)
(* node, and none lies behind an empty slot.                               *)
EntriesTidy(s) ==
    /\ \A e \in CacheAddr : Torn(mem[e]) => s.pc = "refreshCas" /\ e = RefreshAt(s)
    /\ \A e, f \in CacheAddr :
          e[1] = f[1] /\ mem[e].valid /\ RecordOf(mem[f], mem[e].hash) => e = f
    /\ \A e \in CacheAddr : IntactAt(e, mem)
    /\ ~CacheOn => \A e \in CacheAddr : ~mem[e].valid

(* The entry e belongs to the key that s is about to refresh.              *)
Pending(s, e) == /\ s.pc \in RefreshSteps
                 /\ e[1] = HomeNode(s) /\ mem[e].hash = Hash[s.op.key]

Mirrors(s, m) ==
    \A e \in CacheAddr :
        mem[e].valid /\ ~mem[e].tomb
        => Pending(s, e) \/ \E a \in Region(e[1], "prime") : m[a] = mem[e]

(* The candidate of the probe is a slot of the cache as it is, on the      *)
(* chain of the key.                                                       *)
Spotted(s) ==
    /\ RefreshAt(s) \in CacheAddr
    /\ s.probe.slot = mem[RefreshAt(s)]
    /\ Reached(HomeNode(s), "cache", Hash[s.op.key], s.probe.at, mem)

(* The refresh finds the entry of its key, and overwrites it.              *)
Refreshing(s) ==
    /\ s.pc = "refresh"
       => /\ ~s.probe.found
          /\ Occupied(HomeNode(s), "cache", Hash[s.op.key], s.probe.i, mem)
          /\ \A d \in 0 .. s.probe.i - 1 :
                ~RecordOf(mem[ChainAt(HomeNode(s), "cache", Hash[s.op.key], d)], Hash[s.op.key])
          /\ s.probe.ok => Spotted(s)
    /\ s.pc = "refreshBody"
       => /\ Spotted(s)
          /\ \A e \in Region(HomeNode(s), "cache") :
                RecordOf(mem[e], Hash[s.op.key]) => e = RefreshAt(s)
    /\ s.pc = "refreshCas"
       => /\ RefreshAt(s) \in CacheAddr
          /\ mem[RefreshAt(s)] = [s.prop EXCEPT !.guard = s.probe.slot.guard]

MirrorOf(c) ==
    /\ \A n \in Nodes, e \in Evictors : target[n][e] = 0
    /\ EntriesTidy(cn[c])
    /\ Mirrors(cn[c], Records(c))
    /\ Refreshing(cn[c])

MirrorInv(c) == AloneInv(c) /\ (EvictPct > 100 => MirrorOf(c))

(* With a threshold above 100 no eviction is ever due.                     *)
LEMMA NoEvictionDue ==
  ASSUME NEW n \in Nodes, EvictPct > 100
  PROVE  ~EvictionDue(n)
<1> DEFINE top == SlotCount[n]["cache"]
           used == {i \in CacheSlots(n) : /\ mem[<<n, "cache", i>>].valid
                                          /\ ~Torn(mem[<<n, "cache", i>>])}
<1>1. top \in Nat /\ EvictPct \in Nat
  BY SlotCountAssumption, ConfigAssumption DEF Kinds
<1> SUFFICES ASSUME top > 0, UsedCache(n) * 100 >= EvictPct * top PROVE FALSE
  BY DEF EvictionDue
<1>2. IsFiniteSet(0 .. top - 1) /\ Cardinality(0 .. top - 1) = top
  <2>1. top - 1 \in Int /\ ~(0 > top - 1) /\ (top - 1) - 0 + 1 = top
    BY <1>1
  <2> HIDE DEF top
  <2> QED
    BY <2>1, FS_Interval
<1>3. UsedCache(n) \in Nat /\ UsedCache(n) <= top
  <2>1. used \subseteq 0 .. top - 1
    BY DEF CacheSlots
  <2>2. UsedCache(n) = Cardinality(used)
    BY DEF UsedCache
  <2> HIDE DEF used
  <2>3. /\ IsFiniteSet(used) /\ Cardinality(used) <= Cardinality(0 .. top - 1)
    BY <1>2, <2>1, FS_Subset
  <2>4. Cardinality(used) \in Nat
    BY <2>3, FS_CardinalityType
  <2> QED
    BY <1>2, <2>2, <2>3, <2>4
<1> DEFINE u == UsedCache(n)
           over == EvictPct - 101
<1>4. u \in Nat /\ u <= top /\ over \in Nat /\ EvictPct = 101 + over
  BY <1>1, <1>3
<1>5. u * 100 >= (101 + over) * top
  BY <1>4
<1> HIDE DEF top, u, over
<1>6. (101 + over) * top = 101 * top + over * top /\ over * top \in Nat
  BY <1>1, <1>4
<1> QED
  BY <1>1, <1>4, <1>5, <1>6 DEF top

(* The slots of the cache, region by region.                               *)
LEMMA CacheRegion ==
  /\ \A n : \A e \in Region(n, "cache") : e \in CacheAddr /\ e[1] = n /\ e = <<n, "cache", e[3]>>
  /\ \A e \in CacheAddr : /\ e \in Addr /\ e[1] \in Nodes /\ e[2] = "cache"
                          /\ e \in Region(e[1], "cache") /\ e = <<e[1], "cache", e[3]>>
                          /\ e \notin RecordAddr
<1>1. ASSUME NEW e \in Addr PROVE e = <<e[1], e[2], e[3]>> /\ e[1] \in Nodes
  BY AddrElim
<1> QED
  BY <1>1 DEF Region, CacheAddr, AddrOf, RecordAddr, RecordKinds

(* The slots a probe of the cache passes.                                  *)
LEMMA CacheChain ==
  ASSUME NEW n \in Nodes, NEW h \in Nat, NEW d \in Nat, SlotCount[n]["cache"] > 0
  PROVE  ChainAt(n, "cache", h, d) \in Region(n, "cache")
<1>1. <<n, "cache", SlotIndex(n, "cache", h, d)>> \in Addr
  BY SlotIndexType DEF Kinds
<1> QED
  BY <1>1 DEF ChainAt, Region

(* The cache of n holds in m2 whatever is occupied in m.                   *)
CacheHolds(n, m, m2) ==
    \A e \in Region(n, "cache") : td_slot_is_empty(m2[e]) => td_slot_is_empty(m[e])

(* So its chains stay occupied.                                             *)
LEMMA CacheOccupied ==
  ASSUME NEW n \in Nodes, NEW h \in Nat, NEW d \in Nat, d = 0 \/ SlotCount[n]["cache"] > 0,
         NEW m, NEW m2, CacheHolds(n, m, m2), Occupied(n, "cache", h, d, m)
  PROVE  Occupied(n, "cache", h, d, m2)
<1> SUFFICES ASSUME NEW d2 \in 0 .. d - 1
             PROVE  ~td_slot_is_empty(m2[ChainAt(n, "cache", h, d2)])
  BY DEF Occupied
<1>1. ChainAt(n, "cache", h, d2) \in Region(n, "cache")
  BY CacheChain
<1> QED
  BY <1>1 DEF CacheHolds, Occupied

(* And what a probe reaches, it still reaches.                              *)
LEMMA CacheReached ==
  ASSUME NEW n \in Nodes, NEW h \in Nat, NEW at, NEW m, NEW m2, CacheHolds(n, m, m2),
         Reached(n, "cache", h, at, m)
  PROVE  Reached(n, "cache", h, at, m2)
<1>1. SlotCount[n]["cache"] \in Nat
  BY SlotCountAssumption DEF Kinds
<1>2. PICK d \in 0 .. SlotCount[n]["cache"] - 1 : /\ at = SlotIndex(n, "cache", h, d)
                                                  /\ Occupied(n, "cache", h, d, m)
  BY DEF Reached
<1>3. Occupied(n, "cache", h, d, m2)
  BY <1>1, <1>2, CacheOccupied
<1> QED
  BY <1>2, <1>3 DEF Reached

(* An entry stays in front of every empty slot while its chain is kept.    *)
LEMMA CacheIntact ==
  ASSUME NEW e \in CacheAddr, NEW m, NEW m2, CacheHolds(e[1], m, m2), IntactAt(e, m),
         m2[e] \in Slot,
         m2[e].valid => \/ m[e].valid /\ m[e].hash = m2[e].hash
                        \/ Reached(e[1], "cache", m2[e].hash, e[3], m)
  PROVE  IntactAt(e, m2)
<1> DEFINE n == e[1]
           h == m2[e].hash
           top == SlotCount[n]["cache"]
<1>1. e[2] = "cache" /\ n \in Nodes /\ e = <<n, "cache", e[3]>> /\ h \in Nat /\ top \in Nat
  BY CacheRegion, SlotCountAssumption DEF Slot, Kinds
<1> SUFFICES ASSUME m2[e].valid, NEW d \in 0 .. top - 1, e = ChainAt(n, "cache", h, d)
             PROVE  Occupied(n, "cache", h, d, m2)
  BY <1>1 DEF IntactAt
<1>2. Occupied(n, "cache", h, d, m)
  <2>1. CASE m[e].valid /\ m[e].hash = h
    BY <1>1, <2>1 DEF IntactAt
  <2>2. CASE Reached(n, "cache", h, e[3], m)
    <3>1. PICK d2 \in 0 .. top - 1 : /\ e[3] = SlotIndex(n, "cache", h, d2)
                                     /\ Occupied(n, "cache", h, d2, m)
      BY <2>2 DEF Reached
    <3>2. e[3] = SlotIndex(n, "cache", h, d)
      BY DEF ChainAt
    <3>3. d2 = d
      BY <1>1, <3>1, <3>2, ChainInjective DEF Kinds
    <3> QED
      BY <3>1, <3>3
  <2> QED
    BY <2>1, <2>2
<1>3. top > 0 /\ d \in Nat
  BY <1>1
<1> QED
  BY <1>1, <1>2, <1>3, CacheOccupied

(* An entry of the key that t is about to refresh, or a record of PRIME.   *)
Mirrored(e, t, m) ==
    mem[e].valid /\ ~mem[e].tomb
    => Pending(t, e) \/ \E a \in Region(e[1], "prime") : m[a] = mem[e]

(* A step that leaves the cache alone, up to the probe of the refresh.     *)
LEMMA QuietMirror ==
  ASSUME NEW c, mem \in [Addr -> Slot], MirrorOf(c), NEW t, cn'[c] = t, target' = target,
         \A e \in CacheAddr : mem'[e] = mem[e],
         cn[c].pc # "refreshCas", t.pc \notin {"refreshBody", "refreshCas"},
         t.pc = "refresh" => t.probe = ProbeStart,
         \A e \in CacheAddr : Mirrored(e, t, Records(c)')
  PROVE  MirrorOf(c)'
<1>1. /\ EntriesTidy(cn[c]) /\ \A n \in Nodes, e \in Evictors : target[n][e] = 0
  BY DEF MirrorOf
<1>2. EntriesTidy(cn[c])'
  <2>1. \A e \in CacheAddr : ~Torn(mem[e])
    BY <1>1 DEF EntriesTidy, RefreshSteps
  <2>2. ASSUME NEW e \in CacheAddr PROVE IntactAt(e, mem)'
    <3>1. IntactAt(e, mem) /\ mem[e] \in Slot
      BY <1>1, CacheRegion DEF EntriesTidy
    <3>2. CacheHolds(e[1], mem, mem')
      BY CacheRegion DEF CacheHolds
    <3>3. IntactAt(e, mem')
      BY <3>1, <3>2, CacheIntact
    <3> QED
      BY <3>3 DEF IntactAt, Occupied
  <2> QED
    BY <1>1, <2>1, <2>2 DEF EntriesTidy
<1>3. Mirrors(cn[c], Records(c))'
  BY DEF Mirrors, Mirrored, Pending, HomeNode
<1>4. Refreshing(cn[c])'
  <2>1. t.pc = "refresh" => t.probe.i = 0 /\ ~t.probe.ok /\ ~t.probe.found
    BY DEF ProbeStart
  <2> QED
    BY <2>1 DEF Refreshing, Occupied
<1> QED
  BY <1>1, <1>2, <1>3, <1>4 DEF MirrorOf

(* A step that leaves the cache alone, and no refresh is past its start.   *)
CacheUntouched(c) ==
    /\ target' = target /\ \A e \in CacheAddr : mem'[e] = mem[e]
    /\ cn[c].pc \notin RefreshSteps /\ cn'[c].pc \notin {"refreshBody", "refreshCas"}
    /\ cn'[c].pc = "refresh" => cn'[c].probe = ProbeStart

(* A request that writes nothing is one.                                   *)
LEMMA UntouchedMove ==
  ASSUME NEW c, Alone(c), AloneInv(c), NEW t, cn' = [cn EXCEPT ![c] = t], mem' = mem,
         target' = target, cn[c].pc \notin RefreshSteps,
         t.pc \notin RefreshSteps \/ (t.pc = "refresh" /\ t.probe = ProbeStart)
  PROVE  CacheUntouched(c)
<1>1. cn'[c] = t
  BY AloneTypes
<1> QED
  BY <1>1 DEF CacheUntouched, RefreshSteps

(* The steps outside the refresh, but for the commits of records.          *)
LEMMA UntouchedStep ==
  ASSUME NEW c, Alone(c), AloneInv(c), EvictPct > 100,
         \/ Connect(c) \/ Quit(c)
         \/ Scan(c) /\ cn[c].pc # "refresh"
         \/ \E o \in Requests : o.kind \in OpKinds /\ Begin(c, o)
         \/ WriteBody(c) /\ cn[c].pc \in {"backupBody", "primeBody"}
         \/ ReadPrime(c) \/ ReadCache(c) \/ WritePrime(c) \/ BackupProbe(c)
         \/ EvictRequest(c) \/ EvictAnswered(c)
  PROVE  CacheUntouched(c)
<1> DEFINE s == cn[c]
<1>1. c \in CN /\ s \in Process /\ cn \in [CN -> Process] /\ mem \in [Addr -> Slot]
  BY AloneTypes
<1>2. \A u, r : Finish(u, r).pc = "idle"
  BY FinishShape
<1>3. CASE Connect(c) \/ Quit(c)
  <2> DEFINE t == [Off EXCEPT !.pc = "idle", !.ops = s.ops]
             u == [Off EXCEPT !.ops = s.ops]
  <2>1. /\ mem' = mem /\ target' = target /\ s.pc \in {"off", "idle"}
        /\ cn' = [cn EXCEPT ![c] = t] \/ cn' = [cn EXCEPT ![c] = u]
    BY <1>3 DEF Connect, Quit, mnVars
  <2>2. t.pc = "idle" /\ u.pc = "off"
    BY DEF Off
  <2> HIDE DEF t, u
  <2> QED
    BY <2>1, <2>2, UntouchedMove DEF RefreshSteps
<1>4. CASE Scan(c) /\ s.pc # "refresh"
  <2> DEFINE t == [s EXCEPT !.probe = Examined(c)]
  <2>1. mem' = mem /\ target' = target /\ s.pc \in ProbePcs /\ cn' = [cn EXCEPT ![c] = t]
    BY <1>1, <1>4 DEF Scan, mnVars
  <2>2. t.pc = s.pc
    BY <1>1 DEF Process
  <2> HIDE DEF t
  <2> QED
    BY <1>4, <2>1, <2>2, UntouchedMove DEF RefreshSteps, ProbePcs
<1>5. ASSUME NEW o \in Requests, Begin(c, o) PROVE CacheUntouched(c)
  <2> DEFINE u == [Off EXCEPT !.op = o, !.ops = s.ops + 1]
             t == CASE o.kind = "read" -> Probe(u, "read")
                    [] o.kind = "evict" -> EvictFrom(u, 0)
                    [] OTHER -> Probe(u, "write")
  <2>1. s.pc = "idle" /\ cn' = [cn EXCEPT ![c] = t] /\ mem' = mem /\ target' = target
    BY <1>5, Zenon DEF Begin, mnVars
  <2>2. /\ Probe(u, "read").pc = "read" /\ Probe(u, "write").pc = "write"
        /\ EvictFrom(u, 0).pc \in {"idle", "evict"}
    BY <1>2 DEF Probe, EvictFrom, Off
  <2>3. t = Probe(u, "read") \/ t = EvictFrom(u, 0) \/ t = Probe(u, "write")
    BY Zenon
  <2> HIDE DEF t, u
  <2>4. t.pc \in {"read", "write", "idle", "evict"}
    BY <2>2, <2>3
  <2> QED
    BY <2>1, <2>4, UntouchedMove DEF RefreshSteps
<1>6. CASE WriteBody(c) /\ s.pc \in {"backupBody", "primeBody"}
  <2> DEFINE d == Dest(s)
             t == [s EXCEPT !.pc = CasOf[s.pc]]
  <2>1. /\ mem' = [mem EXCEPT ![d] = [s.prop EXCEPT !.guard = mem[d].guard]]
        /\ cn' = [cn EXCEPT ![c] = t] /\ target' = target
    BY <1>1, <1>6 DEF WriteBody, BodyWritten
  <2>2. d \in RecordAddr
    BY <1>6, RecordDest
  <2>3. \A e \in CacheAddr : mem'[e] = mem[e]
    BY <1>1, <2>1, <2>2, CacheRegion
  <2>4. cn'[c].pc \in {"backupCas", "primeCas"}
    BY <1>1, <1>6, <2>1 DEF CasOf, Process
  <2> QED
    BY <1>6, <2>1, <2>3, <2>4 DEF CacheUntouched, RefreshSteps
<1>7. ASSUME NEW u \in Process, cn' = [cn EXCEPT ![c] = ReadPrimeSlot(u)], mem' = mem,
             target' = target, s.pc \in {"read", "readCache"}
      PROVE  CacheUntouched(c)
  <2> DEFINE t == ReadPrimeSlot(u)
  <2>1. t.pc = "idle" \/ (t.pc = "refresh" /\ t.probe = ProbeStart)
    BY <1>2, <1>7, ReadOutcome
  <2>2. cn' = [cn EXCEPT ![c] = t]
    BY <1>7
  <2> HIDE DEF t
  <2> QED
    BY <1>7, <2>1, <2>2, UntouchedMove DEF RefreshSteps
<1>8. CASE ReadPrime(c)
  <2>1. PICK r \in ProbeRecord :
          /\ s.pc = "read" /\ mem' = mem
          /\ cn' = [cn EXCEPT ![c] =
                IF ~r.ok THEN Finish([s EXCEPT !.prime = r], Error)
                ELSE IF CacheOn THEN Probe([s EXCEPT !.prime = r], "readCache")
                ELSE ReadPrimeSlot([s EXCEPT !.prime = r])]
    BY <1>8, ReadPrimeReturns, Zenon
  <2>2. target' = target
    BY <1>8 DEF ReadPrime, mnVars
  <2> DEFINE u == [s EXCEPT !.prime = r]
             v == Finish(u, Error)
             w == Probe(u, "readCache")
  <2>3. u \in Process /\ v.pc = "idle" /\ w.pc = "readCache"
    BY <1>1, <1>2 DEF Process, Probe
  <2>4. \/ cn' = [cn EXCEPT ![c] = v] \/ cn' = [cn EXCEPT ![c] = w]
        \/ cn' = [cn EXCEPT ![c] = ReadPrimeSlot(u)]
    BY <2>1
  <2> HIDE DEF u, v, w
  <2> QED
    BY <1>7, <2>1, <2>2, <2>3, <2>4, UntouchedMove DEF RefreshSteps
<1>9. CASE ReadCache(c)
  <2>1. PICK r \in ProbeRecord :
          /\ s.pc = "readCache" /\ mem' = mem
          /\ cn' = [cn EXCEPT ![c] = IF r.ok /\ CacheConsistent(s, r)
                                     THEN Finish(s, Reply("value", r.slot.data, 0))
                                     ELSE ReadPrimeSlot(s)]
    BY <1>9, ReadCacheReturns, Zenon
  <2>2. target' = target
    BY <1>9 DEF ReadCache, mnVars
  <2> DEFINE v == Finish(s, Reply("value", r.slot.data, 0))
  <2>3. v.pc = "idle"
    BY <1>2
  <2>4. cn' = [cn EXCEPT ![c] = v] \/ cn' = [cn EXCEPT ![c] = ReadPrimeSlot(s)]
    BY <2>1
  <2> HIDE DEF v
  <2> QED
    BY <1>1, <1>7, <2>1, <2>2, <2>3, <2>4, UntouchedMove DEF RefreshSteps
<1>10. CASE WritePrime(c)
  <2>1. PICK r \in ProbeRecord :
          /\ s.pc = "write" /\ mem' = mem /\ s.op.key \in Keys /\ r.slot.guard < MaxEpoch
          /\ cn' = [cn EXCEPT ![c] = IF WriteAllowed(s, r)
                                     THEN BackupFrom(Propose(s, r), 1)
                                     ELSE Finish(s, Error)]
    BY <1>10, WritePrimeReturns, Zenon
  <2>2. target' = target
    BY <1>10 DEF WritePrime, mnVars
  <2> DEFINE v == Finish(s, Error)
             t == BackupFrom(Propose(s, r), 1)
  <2>3. v.pc = "idle" /\ (cn' = [cn EXCEPT ![c] = v] \/ cn' = [cn EXCEPT ![c] = t])
    BY <1>2, <2>1
  <2>4. t.pc \in {"backup", "wait", "primeBody"}
    <3> DEFINE p == Propose(s, r)
               x == [p EXCEPT !.pc = "primeBody"]
    <3>1. DOMAIN p = DOMAIN s /\ "pc" \in DOMAIN s
      BY <1>1 DEF Propose, Process
    <3>2. x.pc = "primeBody"
      BY <3>1
    <3>3. Probe(p, "wait").pc = "wait" /\ Probe([p EXCEPT !.idx = 1], "backup").pc = "backup"
      BY <3>1 DEF Probe
    <3> HIDE DEF p
    <3> QED
      BY <3>2, <3>3 DEF BackupFrom, Decide, p
  <2> HIDE DEF v, t
  <2> QED
    BY <2>1, <2>2, <2>3, <2>4, UntouchedMove DEF RefreshSteps
<1>11. CASE BackupProbe(c)
  <2>1. PICK r \in ProbeRecord :
          /\ s.pc = "backup" /\ mem' = mem
          /\ cn' = [cn EXCEPT ![c] = IF r.ok THEN [s EXCEPT !.pc = "backupBody", !.probe = r]
                                             ELSE Finish(s, Error)]
    BY <1>11, BackupProbeReturns, Zenon
  <2>2. target' = target
    BY <1>11 DEF BackupProbe, mnVars
  <2> DEFINE v == Finish(s, Error)
             t == [s EXCEPT !.pc = "backupBody", !.probe = r]
  <2>3. /\ v.pc = "idle" /\ t.pc = "backupBody"
        /\ cn' = [cn EXCEPT ![c] = v] \/ cn' = [cn EXCEPT ![c] = t]
    BY <1>1, <1>2, <2>1 DEF Process
  <2> HIDE DEF v, t
  <2> QED
    BY <2>1, <2>2, <2>3, UntouchedMove DEF RefreshSteps
<1>12. CASE EvictRequest(c) \/ EvictAnswered(c)
  <2> DEFINE v == EvictFrom(s, s.idx + 1)
  <2>1. s.pc \in EvictPcs /\ s.idx \in Nodes
    <3>1. s.pc \in EvictPcs
      BY <1>12 DEF EvictRequest, EvictAnswered, EvictPcs
    <3>2. Node(s) \in Nodes /\ Node(s) = s.idx
      BY <3>1, NodeType, AloneTypes DEF Node
    <3> QED
      BY <3>1, <3>2
  <2>2. ~EvictionDue(s.idx)
    BY <2>1, NoEvictionDue
  <2>3. mem' = mem /\ target' = target /\ cn' = [cn EXCEPT ![c] = v]
    BY <1>12, <2>2 DEF EvictRequest, EvictAnswered, mnVars
  <2>4. v.pc \in {"idle", "evict"}
    BY <1>1, <1>2 DEF EvictFrom, Process
  <2> HIDE DEF v
  <2> QED
    BY <2>1, <2>3, <2>4, UntouchedMove DEF RefreshSteps, EvictPcs
<1> QED
  BY <1>3, <1>4, <1>5, <1>6, <1>8, <1>9, <1>10, <1>11, <1>12

(* Such a step keeps the mirror when PRIME stays as it is.                 *)
LEMMA UntouchedMirror ==
  ASSUME NEW c, Alone(c), AloneInv(c), MirrorOf(c), CacheUntouched(c),
         \A n \in Nodes : \A a \in Region(n, "prime") : Records(c)'[a] = Records(c)[a]
  PROVE  MirrorOf(c)'
<1>1. mem \in [Addr -> Slot]
  BY AloneTypes
<1>2. ASSUME NEW e \in CacheAddr PROVE Mirrored(e, cn'[c], Records(c)')
  <2>1. ~Pending(cn[c], e) /\ e[1] \in Nodes
    BY CacheRegion DEF CacheUntouched, Pending
  <2>2. mem[e].valid /\ ~mem[e].tomb => \E a \in Region(e[1], "prime") : Records(c)[a] = mem[e]
    BY <2>1 DEF MirrorOf, Mirrors
  <2> QED
    BY <2>1, <2>2 DEF Mirrored
<1> QED
  BY <1>1, <1>2, QuietMirror DEF CacheUntouched, RefreshSteps

(* The commit of a record leaves the cache alone.                          *)
LEMMA CommitUntouched ==
  ASSUME NEW c, Alone(c), AloneInv(c), CommitReturns(c, TRUE), cn[c].pc \in {"backupCas", "primeCas"},
         cn'[c].pc \notin RefreshSteps \/ (cn'[c].pc = "refresh" /\ cn'[c].probe = ProbeStart)
  PROVE  CacheUntouched(c)
<1>1. target' = target
  BY DEF CommitReturns
<1>2. Dest(cn[c]) \in RecordAddr /\ mem' = [mem EXCEPT ![Dest(cn[c])] = cn[c].prop]
  BY CommitWins
<1>3. \A e \in CacheAddr : mem'[e] = mem[e]
  BY <1>2, CacheRegion, AloneTypes
<1> QED
  BY <1>1, <1>3 DEF CacheUntouched, RefreshSteps

(* A backup has accepted.                                                  *)
LEMMA BackupCommitMirror ==
  ASSUME NEW c, Alone(c), AloneInv(c), ChainInv', MirrorOf(c), BackupCommit(c)
  PROVE  MirrorOf(c)'
<1>1. cn[c].pc = "backupCas" /\ CommitReturns(c, TRUE)
  BY BackupCommitReturns
<1>2. /\ Written(Records(c), Records(c)', Dest(cn[c]), cn[c].prop)
      /\ Dest(cn[c])[2] = "backup" /\ cn'[c].pc \in ProposingPcs
  BY BackupCommitAlone
<1>3. CacheUntouched(c)
  BY <1>1, <1>2, CommitUntouched DEF ProposingPcs, RefreshSteps
<1>4. ASSUME NEW n \in Nodes, NEW a \in Region(n, "prime")
      PROVE  Records(c)'[a] = Records(c)[a]
  <2>1. a \in RecordAddr /\ a # Dest(cn[c])
    BY <1>2, RegionRecord DEF RecordKinds
  <2> QED
    BY <1>2, <2>1 DEF Written
<1> QED
  BY <1>3, <1>4, UntouchedMirror

(* PRIME has accepted: the entries of the key wait for the refresh.        *)
LEMMA PrimeCommitMirror ==
  ASSUME NEW c, Alone(c), AloneInv(c), ChainInv', MirrorOf(c), PrimeCommit(c)
  PROVE  MirrorOf(c)'
<1> DEFINE s == cn[c]
           t == cn'[c]
           m == Records(c)
           m2 == Records(c)'
           d == Dest(s)
           h == Hash[s.op.key]
<1>1. s.pc = "primeCas" /\ CommitReturns(c, TRUE)
      /\ cn' = [cn EXCEPT ![c] = td_refresh_cache_best_effort(s)]
  BY PrimeCommitReturns
<1>2. /\ Written(m, m2, d, s.prop) /\ d[1] = HomeNode(s) /\ d[2] = "prime"
  BY PrimeCommitAlone DEF HomeNode
<1>3. /\ c \in CN /\ s \in Process /\ cn \in [CN -> Process] /\ mem \in [Addr -> Slot]
  BY AloneTypes
<1>4. t = td_refresh_cache_best_effort(s)
  BY <1>1, <1>3
<1>5. \/ CacheOn /\ t.pc = "refresh" /\ t.op = s.op /\ t.probe = ProbeStart
      \/ ~CacheOn /\ t.pc = "idle"
  BY <1>3, <1>4, RefreshOutcome
<1>6. CacheUntouched(c)
  BY <1>1, <1>5, CommitUntouched DEF RefreshSteps
<1>7. /\ d \in RecordAddr /\ d = <<d[1], d[2], Chosen(s).at>>
      /\ Picked(Chosen(s), d[1], d[2], h, m)
  BY <1>1, RecordDest
<1> HIDE DEF m, m2, d, h
<1>8. ASSUME NEW e \in CacheAddr, mem[e].valid, ~mem[e].tomb
      PROVE  Pending(t, e) \/ \E a \in Region(e[1], "prime") : m2[a] = mem[e]
  <2>1. CacheOn
    BY <1>8 DEF MirrorOf, EntriesTidy
  <2>2. t.pc \in RefreshSteps /\ t.op = s.op /\ HomeNode(t) = d[1]
    BY <1>2, <1>5, <2>1 DEF RefreshSteps, HomeNode
  <2>3. CASE e[1] = d[1] /\ mem[e].hash = h
    BY <2>2, <2>3 DEF Pending, h
  <2>4. CASE ~(e[1] = d[1] /\ mem[e].hash = h)
    <3>1. ~Pending(s, e)
      BY <1>1 DEF Pending, RefreshSteps
    <3>2. PICK a \in Region(e[1], "prime") : m[a] = mem[e]
      BY <1>8, <3>1 DEF MirrorOf, Mirrors, m
    <3>3. a \in RecordAddr /\ a[1] = e[1]
      BY RegionRecord DEF RecordKinds
    <3>4. a # d
      <4> SUFFICES ASSUME a = d PROVE FALSE
        OBVIOUS
      <4>1. mem[e].hash # h /\ LiveOf(m[d], mem[e].hash)
        BY <1>8, <2>4, <3>2, <3>3 DEF LiveOf, RecordOf
      <4> QED
        BY <1>7, <4>1, PickedForeign
    <3> QED
      BY <1>2, <3>2, <3>3, <3>4 DEF Written
  <2> QED
    BY <2>3, <2>4
<1>9. \A e \in CacheAddr : Mirrored(e, t, m2)
  BY <1>8 DEF Mirrored
<1> QED
  BY <1>3, <1>6, <1>9, QuietMirror DEF CacheUntouched, RefreshSteps, m2

(* Where the refresh works.                                                *)
LEMMA RefreshPlace ==
  ASSUME NEW c, Alone(c), AloneInv(c), cn[c].pc \in RefreshSteps
  PROVE  /\ Node(cn[c]) = HomeNode(cn[c]) /\ Kind(cn[c]) = "cache" /\ HomeNode(cn[c]) \in Nodes
         /\ cn[c].op.key \in Keys /\ Hash[cn[c].op.key] \in Nat /\ CacheOn
         /\ Count(cn[c]) = SlotCount[HomeNode(cn[c])]["cache"] /\ Count(cn[c]) \in Nat
         /\ Dest(cn[c]) = RefreshAt(cn[c]) /\ Chosen(cn[c]) = cn[c].probe /\ ~Severed(c)
<1> DEFINE s == cn[c]
<1>1. s \in Process /\ WellFormed(s) /\ s.pc \in KeyedPcs /\ s.pc \in CachePcs /\ s.pc # "off"
  BY AloneTypes DEF RefreshSteps, KeyedPcs, CachePcs
<1>2. s.op.key \in Keys /\ Hash[s.op.key] \in Nat
  BY <1>1, HashAssumption DEF WellFormed
<1>3. Node(s) = HomeNode(s) /\ Kind(s) = "cache" /\ Chosen(s) = s.probe
  BY <1>1 DEF Node, Kind, Chosen, CachePcs, EvictPcs, BackupPcs, HomeNode
<1>4. Node(s) \in Nodes
  BY <1>1, NodeType
<1>5. Count(s) = SlotCount[HomeNode(s)]["cache"] /\ Count(s) \in Nat
  BY <1>3, <1>4, SlotCountAssumption DEF Count, Kinds
<1>6. CacheOn
  BY <1>1 DEF AloneInv, AloneOf, ClientOf, Commands
<1>7. ~Severed(c)
  BY <1>1, NothingBreaks
<1> QED
  BY <1>2, <1>3, <1>4, <1>5, <1>6, <1>7 DEF Dest, RefreshAt

(* The next slot the refresh looks at.                                     *)
LEMMA RefreshSlot ==
  ASSUME NEW c, Alone(c), AloneInv(c), MirrorOf(c), cn[c].pc = "refresh", Count(cn[c]) > 0,
         NEW n, NEW h, NEW i, NEW a,
         n = HomeNode(cn[c]), h = Hash[cn[c].op.key], i = cn[c].probe.i,
         a = ChainAt(n, "cache", h, i)
  PROVE  /\ i \in Nat /\ i < SlotCount[n]["cache"]
         /\ a \in Region(n, "cache") /\ a = <<n, "cache", FetchAt(c)>>
         /\ FetchAt(c) = SlotIndex(n, "cache", h, i)
         /\ Fetched(c) = mem[a] /\ ~Torn(mem[a])
<1> DEFINE s == cn[c]
<1>1. /\ Node(s) = n /\ Kind(s) = "cache" /\ n \in Nodes /\ h \in Nat
      /\ Count(s) = SlotCount[n]["cache"] /\ Count(s) \in Nat
  BY RefreshPlace DEF RefreshSteps
<1>2. i \in Nat /\ (i = 0 \/ i < Count(s))
  BY AloneTypes DEF CommandOf, Process, ProbeRecord, ProbePcs
<1>3. i < SlotCount[n]["cache"]
  BY <1>1, <1>2
<1>4. a \in Region(n, "cache")
  BY <1>1, <1>2, CacheChain
<1>5. FetchAt(c) = SlotIndex(n, "cache", h, i)
  BY <1>1 DEF FetchAt
<1>6. a = <<n, "cache", FetchAt(c)>>
  BY <1>5 DEF ChainAt
<1>7. Fetched(c) = mem[a]
  BY <1>1, <1>6 DEF Fetched
<1>8. ~Torn(mem[a])
  BY <1>4, CacheRegion DEF MirrorOf, EntriesTidy
<1> QED
  BY <1>2, <1>3, <1>4, <1>5, <1>6, <1>7, <1>8

(* A fetch finds the entry of the key, or none is among the slots passed.  *)
LEMMA RefreshExamined ==
  ASSUME NEW c, Alone(c), AloneInv(c), MirrorOf(c), cn[c].pc = "refresh", Count(cn[c]) > 0,
         NEW n, NEW h, NEW i, NEW q,
         n = HomeNode(cn[c]), h = Hash[cn[c].op.key], i = cn[c].probe.i, q = Examined(c)
  PROVE  /\ q.i = i + 1
         /\ q.ok => /\ <<n, "cache", q.at>> \in CacheAddr
                    /\ q.slot = mem[<<n, "cache", q.at>>]
                    /\ Reached(n, "cache", h, q.at, mem)
         /\ q.found => q.ok /\ RecordOf(q.slot, h)
         /\ ~q.found => \A d \in 0 .. i : ~RecordOf(mem[ChainAt(n, "cache", h, d)], h)
<1> DEFINE s == cn[c]
           p == s.probe
           a == ChainAt(n, "cache", h, i)
           at == FetchAt(c)
<1>1. /\ i \in Nat /\ i < SlotCount[n]["cache"] /\ a \in Region(n, "cache")
      /\ a = <<n, "cache", at>> /\ at = SlotIndex(n, "cache", h, i)
      /\ Fetched(c) = mem[a] /\ ~Torn(mem[a])
  BY RefreshSlot
<1>2. p \in ProbeRecord /\ n \in Nodes /\ SlotCount[n]["cache"] \in Nat
  BY AloneTypes, RefreshPlace DEF Process, RefreshSteps
<1>3. /\ ~p.found
      /\ Occupied(n, "cache", h, i, mem)
      /\ \A d \in 0 .. i - 1 : ~RecordOf(mem[ChainAt(n, "cache", h, d)], h)
      /\ p.ok => /\ <<n, "cache", p.at>> \in CacheAddr
                 /\ p.slot = mem[<<n, "cache", p.at>>]
                 /\ Reached(n, "cache", h, p.at, mem)
  BY DEF MirrorOf, Refreshing, Spotted, RefreshAt
<1>4. Matches(mem[a], h) <=> RecordOf(mem[a], h)
  BY <1>1 DEF Matches, RecordOf
<1>5. q = Examine(p, at, mem[a], h)
  BY <1>1 DEF Examined
<1>6. Reached(n, "cache", h, at, mem)
  BY <1>1, <1>2, <1>3 DEF Reached
<1>7. a \in CacheAddr
  BY <1>1, CacheRegion
<1> HIDE DEF a, at, p
<1>8. ~Matches(mem[a], h) => \A d \in 0 .. i : ~RecordOf(mem[ChainAt(n, "cache", h, d)], h)
  <2> SUFFICES ASSUME ~Matches(mem[a], h), NEW d \in 0 .. i
               PROVE  ~RecordOf(mem[ChainAt(n, "cache", h, d)], h)
    OBVIOUS
  <2>1. d = i \/ d \in 0 .. i - 1
    BY <1>1
  <2> QED
    BY <1>3, <1>4, <2>1 DEF a
<1>9. CASE Matches(mem[a], h)
  <2>1. q = [i |-> i + 1, ok |-> TRUE, at |-> at, slot |-> mem[a], found |-> TRUE]
    BY <1>5, <1>9 DEF Examine, p
  <2>2. q.i = i + 1 /\ q.at = at /\ q.slot = mem[a] /\ q.ok /\ q.found
    BY <2>1
  <2> QED
    BY <1>1, <1>4, <1>6, <1>7, <1>9, <2>2
<1>10. CASE ~Matches(mem[a], h) /\ Reusable(mem[a]) /\ ~p.ok
  <2>1. q = [i |-> i + 1, ok |-> TRUE, at |-> at, slot |-> mem[a], found |-> FALSE]
    BY <1>5, <1>10 DEF Examine, p
  <2>2. q.i = i + 1 /\ q.at = at /\ q.slot = mem[a] /\ ~q.found
    BY <2>1
  <2> QED
    BY <1>1, <1>6, <1>7, <1>8, <1>10, <2>2
<1>11. CASE ~Matches(mem[a], h) /\ ~(Reusable(mem[a]) /\ ~p.ok)
  <2>1. q = [p EXCEPT !.i = i + 1]
    BY <1>5, <1>11 DEF Examine, p
  <2>2. q.i = i + 1 /\ q.at = p.at /\ q.slot = p.slot /\ q.found = p.found /\ q.ok = p.ok
    BY <1>2, <2>1 DEF ProbeRecord
  <2> QED
    BY <1>3, <1>8, <1>11, <2>2
<1> QED
  BY <1>9, <1>10, <1>11

(* A probe of the refresh that has stopped without an entry of its key has *)
(* seen every slot where there could be one.                               *)
LEMMA RefreshAbsent ==
  ASSUME NEW c, Alone(c), AloneInv(c), MirrorOf(c), cn[c].pc = "refresh", Count(cn[c]) > 0,
         ProbeOver(Examined(c), Fetched(c), Count(cn[c])), ~Examined(c).found
  PROVE  Absent(mem, HomeNode(cn[c]), "cache", Hash[cn[c].op.key])
<1> DEFINE s == cn[c]
           n == HomeNode(s)
           h == Hash[s.op.key]
           i == s.probe.i
           top == SlotCount[n]["cache"]
<1> SUFFICES ASSUME NEW e \in Region(n, "cache"), RecordOf(mem[e], h) PROVE FALSE
  BY DEF Absent
<1>1. n \in Nodes /\ h \in Nat /\ Count(s) = top /\ top \in Nat
  BY RefreshPlace DEF RefreshSteps
<1>2. PICK d \in 0 .. top - 1 : e = ChainAt(n, "cache", h, d)
  BY <1>1, ChainCovers DEF Kinds
<1>3. i \in Nat /\ i < top /\ Fetched(c) = mem[ChainAt(n, "cache", h, i)]
  BY RefreshSlot
<1>4. /\ Examined(c).i = i + 1
      /\ \A d2 \in 0 .. i : ~RecordOf(mem[ChainAt(n, "cache", h, d2)], h)
  BY RefreshExamined
<1>5. td_slot_is_empty(mem[ChainAt(n, "cache", h, i)]) \/ i + 1 = top
  BY <1>1, <1>3, <1>4 DEF ProbeOver
<1>6. e \in CacheAddr /\ e[1] = n /\ e[2] = "cache"
  BY CacheRegion
<1>7. IntactAt(e, mem) /\ mem[e].valid /\ mem[e].hash = h
  BY <1>6 DEF MirrorOf, EntriesTidy, RecordOf
<1>8. Occupied(n, "cache", h, d, mem)
  BY <1>2, <1>6, <1>7 DEF IntactAt
<1> HIDE DEF n, h, i, top
<1>9. d \notin 0 .. i
  BY <1>2, <1>4
<1>10. i \in 0 .. d - 1 /\ i + 1 # top
  BY <1>1, <1>2, <1>3, <1>9
<1> QED
  BY <1>5, <1>8, <1>10 DEF Occupied

(* A step of the refresh that writes nothing.                              *)
LEMMA RefreshMove ==
  ASSUME NEW c, Alone(c), AloneInv(c), MirrorOf(c), NEW t, cn' = [cn EXCEPT ![c] = t],
         mem' = mem, target' = target, Records(c)' = Records(c), cn[c].pc = "refresh",
         t.op = cn[c].op, t.pc \in {"refresh", "refreshBody"}, Refreshing(t)
  PROVE  MirrorOf(c)'
<1>1. cn'[c] = t
  BY AloneTypes
<1>2. EntriesTidy(cn[c])'
  BY <1>1 DEF MirrorOf, EntriesTidy, IntactAt, Occupied
<1>3. Mirrors(cn[c], Records(c))'
  BY <1>1 DEF MirrorOf, Mirrors, Pending, HomeNode, RefreshSteps
<1>4. Refreshing(cn[c])'
  BY <1>1 DEF Refreshing, Spotted, RefreshAt, HomeNode, Occupied, Reached
<1> QED
  BY <1>2, <1>3, <1>4 DEF MirrorOf

(* The refresh goes on to the next slot.                                   *)
LEMMA RefreshScanMirror ==
  ASSUME NEW c, Alone(c), AloneInv(c), MirrorOf(c), Scan(c), cn[c].pc = "refresh"
  PROVE  MirrorOf(c)'
<1> DEFINE s == cn[c]
           n == HomeNode(s)
           h == Hash[s.op.key]
           i == s.probe.i
           q == Examined(c)
           t == [s EXCEPT !.probe = q]
<1>1. s \in Process /\ c \in CN /\ cn \in [CN -> Process]
  BY AloneTypes
<1>2. /\ mem' = mem /\ target' = target /\ cn' = [cn EXCEPT ![c] = t]
      /\ Count(s) > 0 /\ ~ProbeOver(q, Fetched(c), Count(s))
  BY <1>1 DEF Scan, mnVars
<1>3. Records(c)' = Records(c)
  BY ScanAlone
<1>4. t.pc = "refresh" /\ t.op = s.op /\ t.probe = q
  BY <1>1 DEF Process
<1>5. i \in Nat /\ Fetched(c) = mem[ChainAt(n, "cache", h, i)]
  BY <1>2, RefreshSlot
<1>6. /\ q.i = i + 1
      /\ q.ok => /\ <<n, "cache", q.at>> \in CacheAddr
                 /\ q.slot = mem[<<n, "cache", q.at>>]
                 /\ Reached(n, "cache", h, q.at, mem)
      /\ ~q.found => \A d \in 0 .. i : ~RecordOf(mem[ChainAt(n, "cache", h, d)], h)
  BY <1>2, RefreshExamined
<1>7. ~q.found /\ ~td_slot_is_empty(Fetched(c))
  BY <1>2 DEF ProbeOver
<1>8. Occupied(n, "cache", h, i, mem)
  BY DEF MirrorOf, Refreshing
<1> HIDE DEF t, q, i
<1>9. HomeNode(t) = n /\ Hash[t.op.key] = h
  BY <1>4 DEF HomeNode
<1>10. Occupied(n, "cache", h, q.i, mem)
  <2> HIDE DEF n, h
  <2>1. \A d \in 0 .. q.i - 1 : d = i \/ d \in 0 .. i - 1
    BY <1>5, <1>6
  <2> QED
    BY <1>5, <1>7, <1>8, <2>1 DEF Occupied
<1>11. \A d \in 0 .. q.i - 1 : ~RecordOf(mem[ChainAt(n, "cache", h, d)], h)
  <2>1. q.i - 1 = i
    BY <1>5, <1>6
  <2> QED
    BY <1>6, <1>7, <2>1
<1>12. Refreshing(t)
  BY <1>4, <1>6, <1>7, <1>9, <1>10, <1>11 DEF Refreshing, Spotted, RefreshAt
<1> QED
  BY <1>2, <1>3, <1>4, <1>12, RefreshMove

(* The refresh has probed CACHE.                                           *)
LEMMA RefreshProbeMirror ==
  ASSUME NEW c, Alone(c), AloneInv(c), MirrorOf(c), RefreshProbe(c)
  PROVE  MirrorOf(c)'
<1> DEFINE s == cn[c]
           n == HomeNode(s)
           h == Hash[s.op.key]
           m == Records(c)
<1>1. s.pc = "refresh" /\ mem' = mem /\ target' = target
  BY DEF RefreshProbe, mnVars
<1>2. PICK r : /\ ProbeReturns(c, r)
               /\ cn' = [cn EXCEPT ![c] = IF r.ok THEN [s EXCEPT !.pc = "refreshBody", !.probe = r]
                                                  ELSE Finish(s, Answer(s))]
  BY Zenon DEF RefreshProbe
<1>3. /\ s \in Process /\ c \in CN /\ cn \in [CN -> Process] /\ mem \in [Addr -> Slot]
      /\ Records(c)' = m
  BY AloneTypes, RefreshProbeAlone
<1>4. /\ n \in Nodes /\ h \in Nat /\ Count(s) = SlotCount[n]["cache"] /\ Count(s) \in Nat
      /\ ~Severed(c)
  BY <1>1, RefreshPlace DEF RefreshSteps
<1>5. \/ Count(s) = 0 /\ r = ProbeStart
      \/ Count(s) > 0 /\ r = Examined(c) /\ ProbeOver(Examined(c), Fetched(c), Count(s))
  BY <1>2, <1>4 DEF ProbeReturns
<1>6. r.ok => /\ <<n, "cache", r.at>> \in CacheAddr
              /\ r.slot = mem[<<n, "cache", r.at>>]
              /\ Reached(n, "cache", h, r.at, mem)
  BY <1>1, <1>5, RefreshExamined DEF ProbeStart
<1>7. r.found => r.ok /\ RecordOf(r.slot, h)
  <2>1. Count(s) > 0 => (Examined(c).found => Examined(c).ok /\ RecordOf(Examined(c).slot, h))
    BY <1>1, RefreshExamined
  <2>2. ~ProbeStart.found
    BY DEF ProbeStart
  <2> QED
    BY <1>5, <2>1, <2>2
<1>8. ~r.found => Absent(mem, n, "cache", h)
  <2>1. CASE Count(s) > 0
    BY <1>1, <1>5, <2>1, RefreshAbsent
  <2>2. CASE Count(s) = 0
    <3>1. \A e \in Region(n, "cache") : \E d \in 0 .. SlotCount[n]["cache"] - 1 :
             e = ChainAt(n, "cache", h, d)
      BY <1>4, ChainCovers DEF Kinds
    <3>2. 0 .. SlotCount[n]["cache"] - 1 = {}
      BY <1>4, <2>2
    <3>3. Region(n, "cache") = {}
      BY <3>1, <3>2
    <3> QED
      BY <3>3 DEF Absent
  <2> QED
    BY <1>4, <2>1, <2>2
<1> HIDE DEF m
<1>9. CASE r.ok
  <2> DEFINE t == [s EXCEPT !.pc = "refreshBody", !.probe = r]
  <2>1. cn' = [cn EXCEPT ![c] = t]
    BY <1>2, <1>9
  <2>2. t.pc = "refreshBody" /\ t.op = s.op /\ t.probe = r
    BY <1>3 DEF Process
  <2> HIDE DEF t
  <2>3. HomeNode(t) = n /\ Hash[t.op.key] = h /\ RefreshAt(t) = <<n, "cache", r.at>>
    BY <2>2 DEF HomeNode, RefreshAt
  <2> HIDE DEF n, h
  <2>4. Spotted(t)
    BY <1>6, <1>9, <2>2, <2>3 DEF Spotted
  <2>5. ASSUME NEW e \in Region(n, "cache"), RecordOf(mem[e], h)
        PROVE  e = RefreshAt(t)
    <3>1. r.found
      BY <1>8, <2>5 DEF Absent
    <3> DEFINE f == RefreshAt(t)
    <3>2. f \in CacheAddr /\ RecordOf(mem[f], h) /\ f[1] = n
      BY <1>6, <1>7, <1>9, <2>3, <3>1
    <3>3. e \in CacheAddr /\ e[1] = n
      BY CacheRegion
    <3> HIDE DEF f
    <3>4. mem[f].valid /\ RecordOf(mem[e], mem[f].hash)
      BY <2>5, <3>2 DEF RecordOf
    <3>5. f = e
      BY <3>2, <3>3, <3>4 DEF MirrorOf, EntriesTidy
    <3> QED
      BY <3>5 DEF f
  <2>6. Refreshing(t)
    BY <2>2, <2>3, <2>4, <2>5 DEF Refreshing
  <2> QED
    BY <1>1, <1>3, <2>1, <2>2, <2>6, RefreshMove DEF m
<1>10. CASE ~r.ok
  <2> DEFINE t == Finish(s, Answer(s))
  <2>1. cn' = [cn EXCEPT ![c] = t] /\ t.pc = "idle"
    BY <1>2, <1>10, FinishShape
  <2> HIDE DEF t
  <2>2. cn'[c] = t
    BY <1>3, <2>1
  <2>3. Absent(mem, n, "cache", h)
    BY <1>7, <1>8, <1>10
  <2>4. ASSUME NEW e \in CacheAddr PROVE Mirrored(e, t, Records(c)')
    <3> SUFFICES ASSUME mem[e].valid, ~mem[e].tomb
                 PROVE  \E a \in Region(e[1], "prime") : m[a] = mem[e]
      BY <1>3 DEF Mirrored
    <3>1. ~Pending(s, e)
      <4> SUFFICES ASSUME e[1] = n, mem[e].hash = h PROVE FALSE
        BY DEF Pending
      <4>1. e \in Region(n, "cache") /\ RecordOf(mem[e], h)
        BY CacheRegion DEF RecordOf
      <4> QED
        BY <2>3, <4>1 DEF Absent
    <3> QED
      BY <3>1 DEF MirrorOf, Mirrors, m
  <2>5. s.pc # "refreshCas" /\ t.pc \notin {"refresh", "refreshBody", "refreshCas"}
    BY <1>1, <2>1
  <2>6. \A e \in CacheAddr : mem'[e] = mem[e]
    BY <1>1
  <2> QED
    BY <1>1, <1>3, <2>2, <2>4, <2>5, <2>6, QuietMirror
<1> QED
  BY <1>9, <1>10

(* The body of the entry is written.                                       *)
LEMMA RefreshBodyMirror ==
  ASSUME NEW c, Alone(c), AloneInv(c), MirrorOf(c), WriteBody(c), cn[c].pc = "refreshBody"
  PROVE  MirrorOf(c)'
<1> DEFINE s == cn[c]
           n == HomeNode(s)
           h == Hash[s.op.key]
           d == RefreshAt(s)
           t == [s EXCEPT !.pc = "refreshCas"]
           body == [s.prop EXCEPT !.guard = mem[d].guard]
<1>1. /\ s \in Process /\ c \in CN /\ cn \in [CN -> Process] /\ mem \in [Addr -> Slot]
      /\ Records(c)' = Records(c)
  BY AloneTypes, RefreshBodyAlone
<1>2. /\ Dest(s) = d /\ n \in Nodes /\ h \in Nat /\ CacheOn
  BY RefreshPlace DEF RefreshSteps
<1>3. /\ mem' = [mem EXCEPT ![d] = body] /\ target' = target /\ cn' = [cn EXCEPT ![c] = t]
  <2>1. CasOf["refreshBody"] = "refreshCas"
    BY DEF CasOf
  <2> QED
    BY <1>1, <1>2, <2>1 DEF WriteBody, BodyWritten
<1>4. /\ d \in CacheAddr /\ s.probe.slot = mem[d] /\ Reached(n, "cache", h, s.probe.at, mem)
      /\ \A e \in Region(n, "cache") : RecordOf(mem[e], h) => e = d
  BY DEF MirrorOf, Refreshing, Spotted
<1>5. s.prop \in Slot /\ RecordOf(s.prop, h)
  BY RefreshDest
<1>6. d \in Addr /\ d[1] = n /\ d[3] = s.probe.at
  BY <1>4, CacheRegion DEF RefreshAt
<1>7. mem[d] \in Slot
  BY <1>1, <1>6
<1>8. body.valid /\ body.hash = h /\ body \in Slot
  BY <1>5, <1>7 DEF Slot, RecordOf
<1>9. cn'[c] = t /\ t.pc = "refreshCas" /\ t.op = s.op /\ t.prop = s.prop /\ t.probe = s.probe
  BY <1>1, <1>3 DEF Process
<1>10. HomeNode(t) = n /\ RefreshAt(t) = d
  BY <1>9 DEF HomeNode, RefreshAt
<1>11. mem'[d] = body /\ \A e \in CacheAddr : e # d => mem'[e] = mem[e]
  BY <1>1, <1>3, <1>6, CacheRegion
<1>12. body = [t.prop EXCEPT !.guard = t.probe.slot.guard]
  BY <1>4, <1>9
<1>13. \A e \in CacheAddr : mem[e] \in Slot /\ ~Torn(mem[e])
  BY <1>1, CacheRegion DEF MirrorOf, EntriesTidy
<1> HIDE DEF t, d, n, h, body
<1>14. ASSUME NEW e \in CacheAddr PROVE IntactAt(e, mem)'
  <2>1. IntactAt(e, mem) /\ mem'[e] \in Slot
    BY <1>8, <1>11, <1>13 DEF MirrorOf, EntriesTidy
  <2>2. CacheHolds(e[1], mem, mem')
    <3>1. ~td_slot_is_empty(mem'[d])
      BY <1>8, <1>11 DEF td_slot_is_empty
    <3> QED
      BY <1>11, <3>1, CacheRegion DEF CacheHolds
  <2>3. \/ mem'[e] = mem[e]
        \/ Reached(e[1], "cache", mem'[e].hash, e[3], mem)
    BY <1>4, <1>6, <1>8, <1>11
  <2>4. IntactAt(e, mem')
    BY <2>1, <2>2, <2>3, CacheIntact
  <2> QED
    BY <2>4 DEF IntactAt, Occupied
<1>15. ASSUME NEW e \in CacheAddr, NEW f \in CacheAddr, e[1] = f[1], mem'[e].valid,
              RecordOf(mem'[f], mem'[e].hash)
       PROVE  e = f
  <2>1. CASE e # d /\ f # d
    BY <1>11, <1>15, <2>1 DEF MirrorOf, EntriesTidy
  <2>2. CASE e = d /\ f # d
    <3>1. RecordOf(mem[f], h) /\ f \in Region(n, "cache")
      BY <1>6, <1>8, <1>11, <1>15, <2>2, CacheRegion
    <3> QED
      BY <1>4, <2>2, <3>1
  <2>3. CASE e # d /\ f = d
    <3>1. RecordOf(mem[e], h) /\ e \in Region(n, "cache")
      BY <1>6, <1>8, <1>11, <1>15, <2>3, CacheRegion DEF RecordOf
    <3> QED
      BY <1>4, <2>3, <3>1
  <2> QED
    BY <2>1, <2>2, <2>3
<1>16. EntriesTidy(cn[c])'
  <2>1. \A e \in CacheAddr : Torn(mem'[e]) => e = d
    BY <1>11, <1>13
  <2> QED
    BY <1>2, <1>9, <1>10, <1>14, <1>15, <2>1 DEF EntriesTidy
<1>17. Mirrors(cn[c], Records(c))'
  <2>1. ASSUME NEW e \in CacheAddr, mem'[e].valid, ~mem'[e].tomb
        PROVE  \/ e[1] = n /\ mem'[e].hash = h
               \/ \E a \in Region(e[1], "prime") : Records(c)[a] = mem'[e]
    <3>1. CASE e = d
      BY <1>6, <1>8, <1>11, <3>1
    <3>2. CASE e # d
      BY <1>11, <2>1, <3>2 DEF MirrorOf, Mirrors, Pending, n, h
    <3> QED
      BY <3>1, <3>2
  <2> QED
    BY <1>1, <1>9, <1>10, <2>1 DEF Mirrors, Pending, RefreshSteps, h
<1>18. Refreshing(cn[c])'
  BY <1>4, <1>9, <1>10, <1>11, <1>12 DEF Refreshing
<1>19. \A i \in Nodes, e \in Evictors : target'[i][e] = 0
  BY <1>3 DEF MirrorOf
<1> QED
  BY <1>16, <1>17, <1>18, <1>19 DEF MirrorOf

(* The entry is the record of its key.                                     *)
LEMMA RefreshCommitMirror ==
  ASSUME NEW c, Alone(c), AloneInv(c), MirrorOf(c), RefreshCommit(c)
  PROVE  MirrorOf(c)'
<1> DEFINE s == cn[c]
           n == HomeNode(s)
           h == Hash[s.op.key]
           d == RefreshAt(s)
           t == Finish(s, Answer(s))
           m == Records(c)
<1>1. /\ s.pc = "refreshCas" /\ mem' = CasApplied(s) /\ cn' = [cn EXCEPT ![c] = t]
  BY RefreshCommitReturns
<1>2. /\ s \in Process /\ c \in CN /\ cn \in [CN -> Process] /\ mem \in [Addr -> Slot]
      /\ Records(c)' = m /\ Tidy(m)
  BY AloneTypes, RefreshCommitAlone DEF AloneInv, AloneOf
<1>3. target' = target
  BY DEF RefreshCommit, CommitReturns
<1>4. /\ Dest(s) = d /\ Chosen(s) = s.probe /\ n \in Nodes
  BY <1>1, RefreshPlace DEF RefreshSteps
<1>5. d \in CacheAddr /\ mem[d] = [s.prop EXCEPT !.guard = s.probe.slot.guard]
  BY <1>1 DEF MirrorOf, Refreshing
<1>6. s.prop \in Slot /\ RecordOf(s.prop, h)
  BY <1>1, RefreshDest
<1>7. PICK b \in Region(n, "prime") : m[b] = s.prop
  BY <1>1, RefreshDest DEF HomeNode
<1>8. s.prop.guard = s.prop.visible
  <2>1. b \in RecordAddr
    BY RegionRecord DEF RecordKinds
  <2> QED
    BY <1>2, <1>7, <2>1 DEF Tidy, Torn
<1>9. d \in Addr /\ d[1] = n
  BY <1>5, CacheRegion DEF RefreshAt
<1>10. mem' = [mem EXCEPT ![d] = s.prop]
  <2>1. mem[d].guard = s.probe.slot.guard
    BY <1>5, <1>6 DEF Slot
  <2>2. mem' = [mem EXCEPT ![d].guard = s.prop.visible]
    BY <1>1, <1>4, <2>1 DEF CasApplied, CasWins
  <2>3. [mem[d] EXCEPT !.guard = s.prop.visible] = s.prop
    BY <1>5, <1>6, <1>8 DEF Slot
  <2> QED
    BY <2>2, <2>3
<1>11. mem'[d] = s.prop /\ \A e \in CacheAddr : e # d => mem'[e] = mem[e]
  BY <1>2, <1>9, <1>10, CacheRegion
<1>12. mem[d].valid /\ mem[d].hash = h /\ mem[d].tomb = s.prop.tomb /\ s.prop.valid /\ s.prop.hash = h
  BY <1>5, <1>6 DEF Slot, RecordOf
<1>13. t.pc = "idle" /\ cn'[c] = t
  BY <1>1, <1>2, FinishShape
<1> HIDE DEF t, d, n, h, m
<1>14. \A e \in CacheAddr : (mem'[e].valid <=> mem[e].valid) /\ mem'[e].hash = mem[e].hash
  BY <1>11, <1>12
<1>15. ASSUME NEW e \in CacheAddr PROVE IntactAt(e, mem)'
  <2>1. IntactAt(e, mem) /\ mem'[e] \in Slot
    BY <1>2, <1>6, <1>11, CacheRegion DEF MirrorOf, EntriesTidy
  <2>2. CacheHolds(e[1], mem, mem')
    <3>1. ~td_slot_is_empty(mem'[d])
      BY <1>11, <1>12 DEF td_slot_is_empty
    <3> QED
      BY <1>11, <3>1, CacheRegion DEF CacheHolds
  <2>3. mem'[e].valid => mem[e].valid /\ mem[e].hash = mem'[e].hash
    BY <1>14
  <2>4. IntactAt(e, mem')
    BY <2>1, <2>2, <2>3, CacheIntact
  <2> QED
    BY <2>4 DEF IntactAt, Occupied
<1>16. EntriesTidy(cn[c])'
  <2>1. EntriesTidy(s)
    BY DEF MirrorOf
  <2>2. \A e \in CacheAddr : ~Torn(mem'[e])
    BY <1>8, <1>11, <2>1 DEF EntriesTidy, Torn, d
  <2>3. \A e, f \in CacheAddr :
           e[1] = f[1] /\ mem'[e].valid /\ RecordOf(mem'[f], mem'[e].hash) => e = f
    BY <1>14, <2>1 DEF EntriesTidy, RecordOf
  <2>4. ~CacheOn => \A e \in CacheAddr : ~mem'[e].valid
    BY <1>14, <2>1 DEF EntriesTidy
  <2> QED
    BY <1>15, <2>2, <2>3, <2>4 DEF EntriesTidy
<1>17. ASSUME NEW e \in CacheAddr, mem'[e].valid, ~mem'[e].tomb
       PROVE  \E a \in Region(e[1], "prime") : m[a] = mem'[e]
  <2>1. CASE e = d
    BY <1>7, <1>9, <1>11, <2>1
  <2>2. CASE e # d
    <3>1. mem'[e] = mem[e]
      BY <1>11, <2>2
    <3>2. ~Pending(s, e)
      <4> SUFFICES ASSUME e[1] = n, mem[e].hash = h PROVE FALSE
        BY DEF Pending, n, h
      <4>1. mem[d].valid /\ RecordOf(mem[e], mem[d].hash) /\ d[1] = e[1]
        BY <1>9, <1>12, <1>17, <3>1 DEF RecordOf
      <4> QED
        BY <1>5, <2>2, <4>1 DEF MirrorOf, EntriesTidy
    <3> QED
      BY <1>17, <3>1, <3>2 DEF MirrorOf, Mirrors, m
  <2> QED
    BY <2>1, <2>2
<1>18. Mirrors(cn[c], Records(c))'
  BY <1>2, <1>17 DEF Mirrors
<1>19. Refreshing(cn[c])'
  BY <1>13 DEF Refreshing
<1>20. \A i \in Nodes, e \in Evictors : target'[i][e] = 0
  BY <1>3 DEF MirrorOf
<1> QED
  BY <1>16, <1>18, <1>19, <1>20 DEF MirrorOf

(* No memory node takes a step.                                            *)
LEMMA NoNodeStep ==
  ASSUME NEW c, Alone(c), AloneInv(c), MirrorOf(c), EvictPct > 100, NEW n \in Nodes
  PROVE  ~NodeNext(n)
<1>1. ~Restart(n)
  BY NoRestart
<1>2. ~ThreadCount(n)
  BY NoEvictionDue DEF ThreadCount
<1>3. ~(\E e \in Evictors : Sweep(n, e))
  <2> SUFFICES ASSUME NEW e \in Evictors, Sweep(n, e) PROVE FALSE
    OBVIOUS
  <2>1. target[n][e] > 0
    BY Zenon DEF Sweep
  <2>2. target[n][e] = 0
    BY DEF MirrorOf
  <2> QED
    BY <2>1, <2>2
<1> QED
  BY <1>1, <1>2, <1>3 DEF NodeNext

(* Every step keeps the mirror.                                            *)
LEMMA NextMirrorOf ==
  ASSUME NEW c, Alone(c), AloneInv(c), MirrorOf(c), EvictPct > 100, [Next]_vars
  PROVE  MirrorOf(c)'
<1>1. ChainInv'
  BY NextChain DEF AloneInv
<1>2. CASE UNCHANGED vars
  <2>1. mem' = mem /\ cn' = cn /\ target' = target
    BY <1>2 DEF vars
  <2>2. Records(c)' = Records(c)
    BY <2>1 DEF Records, Dest, Chosen, Node, Kind
  <2>3. EntriesTidy(cn[c])' /\ Mirrors(cn[c], Records(c))'
    BY <2>1, <2>2 DEF MirrorOf, EntriesTidy, Mirrors, Pending, IntactAt, Occupied
  <2>4. Refreshing(cn[c])'
    BY <2>1 DEF MirrorOf, Refreshing, Spotted, Occupied, Reached
  <2> QED
    BY <2>1, <2>3, <2>4 DEF MirrorOf
<1>3. CASE CacheUntouched(c) /\ Records(c)' = Records(c)
  BY <1>3, UntouchedMirror
<1>4. CASE \/ Connect(c) \/ Quit(c)
           \/ Scan(c) /\ cn[c].pc # "refresh"
           \/ \E o \in Requests : o.kind \in OpKinds /\ Begin(c, o)
           \/ WriteBody(c) /\ cn[c].pc \in {"backupBody", "primeBody"}
           \/ ReadPrime(c) \/ ReadCache(c) \/ WritePrime(c) \/ BackupProbe(c)
           \/ EvictRequest(c) \/ EvictAnswered(c)
  <2>1. CacheUntouched(c)
    BY <1>4, UntouchedStep
  <2>2. Records(c)' = Records(c)
    BY <1>4, SessionAlone, ScanAlone, BeginAlone, RecordBodyAlone, ReadPrimeAlone, ReadCacheAlone,
       WritePrimeAlone, BackupProbeAlone, EvictAlone
  <2> QED
    BY <1>3, <2>1, <2>2
<1>5. CASE Scan(c) /\ cn[c].pc = "refresh"
  BY <1>5, RefreshScanMirror
<1>6. CASE BackupCommit(c) \/ PrimeCommit(c)
  BY <1>1, <1>6, BackupCommitMirror, PrimeCommitMirror
<1>7. CASE WriteBody(c) /\ cn[c].pc = "refreshBody"
  BY <1>7, RefreshBodyMirror
<1>8. CASE RefreshProbe(c) \/ RefreshCommit(c)
  BY <1>8, RefreshProbeMirror, RefreshCommitMirror
<1>9. ~(\E n \in Nodes : NodeNext(n))
  BY NoNodeStep
<1> QED
  BY <1>2, <1>4, <1>5, <1>6, <1>7, <1>8, <1>9, AloneSteps

(* The cache of the empty cluster mirrors it.                              *)
LEMMA InitMirrorOf ==
  ASSUME NEW c, Alone(c), Init
  PROVE  MirrorOf(c)
<1>1. c \in CN /\ cn[c].pc = "off" /\ mem = [a \in Addr |-> EmptySlot]
  BY DEF Init, Alone, Off
<1>2. \A e \in CacheAddr : mem[e] = EmptySlot
  BY <1>1, CacheRegion
<1>3. \A e \in CacheAddr : ~mem[e].valid /\ ~Torn(mem[e])
  BY <1>2 DEF EmptySlot, Torn
<1>4. EntriesTidy(cn[c]) /\ Mirrors(cn[c], Records(c))
  BY <1>3 DEF EntriesTidy, Mirrors, IntactAt
<1>5. Refreshing(cn[c])
  BY <1>1 DEF Refreshing
<1>6. \A n \in Nodes, e \in Evictors : target[n][e] = 0
  BY DEF Init
<1> QED
  BY <1>4, <1>5, <1>6 DEF MirrorOf

(* So a cache that is never evicted from always mirrors PRIME.             *)
LEMMA AlwaysMirror ==
  ASSUME NEW c, Alone(c)
  PROVE  Spec => []MirrorInv(c)
<1>1. Init => MirrorInv(c)
  BY InitAlone, InitMirrorOf DEF MirrorInv
<1>2. MirrorInv(c) /\ [Next]_vars => MirrorInv(c)'
  <2> SUFFICES ASSUME MirrorInv(c), [Next]_vars PROVE MirrorInv(c)'
    OBVIOUS
  <2>1. AloneInv(c)'
    BY NextAlone DEF MirrorInv
  <2>2. EvictPct > 100 => MirrorOf(c)'
    BY NextMirrorOf DEF MirrorInv
  <2> QED
    BY <2>1, <2>2 DEF MirrorInv
<1> QED
  BY <1>1, <1>2, PTL DEF Spec

(***************************************************************************)
(* What a probe of a settled region finds.                                 *)
(***************************************************************************)

(* A lookup ends at the first slot of the key, or empty slot, if any.      *)
LEMMA LookupStops ==
  ASSUME NEW f, NEW n, NEW kind, NEW k, SlotCount[n][kind] \in Nat
  PROVE  LET count == SlotCount[n][kind]
             At(d) == f[ChainAt(n, kind, Hash[k], d)]
             Stop(d) == Matches(At(d), Hash[k]) \/ td_slot_is_empty(At(d))
         IN  \/ /\ Lookup(f, n, kind, k) = EmptySlot
                /\ \A d \in 0 .. count - 1 : ~Stop(d)
             \/ \E d \in 0 .. count - 1 :
                   /\ Lookup(f, n, kind, k) = At(d) /\ Stop(d)
                   /\ \A d2 \in 0 .. count - 1 : Stop(d2) => d <= d2
<1> DEFINE count == SlotCount[n][kind]
           At(d) == f[ChainAt(n, kind, Hash[k], d)]
           Stop(d) == Matches(At(d), Hash[k]) \/ td_slot_is_empty(At(d))
           stops == {d \in 0 .. count - 1 : Stop(d)}
           first == CHOOSE d \in stops : \A d2 \in stops : d <= d2
<1>1. Lookup(f, n, kind, k) = IF stops = {} THEN EmptySlot ELSE At(first)
  BY DEF Lookup
<1>2. CASE stops = {}
  BY <1>1, <1>2
<1>3. CASE stops # {}
  <2>1. stops \in SUBSET Nat
    OBVIOUS
  <2> HIDE DEF stops
  <2>2. \E d \in stops : \A d2 \in stops : d <= d2
    BY <1>3, <2>1, LeastElement
  <2>3. first \in stops /\ \A d2 \in stops : first <= d2
    BY <2>2
  <2> HIDE DEF first
  <2>4. Lookup(f, n, kind, k) = At(first)
    BY <1>1, <1>3
  <2> QED
    BY <2>3, <2>4 DEF stops
<1> QED
  BY <1>2, <1>3

(* f holds the records m in the slots of kind on n.                        *)
Shows(f, m, n, kind) == \A a \in Region(n, kind) : f[a] = m[a]

(* A lookup finds the record of the key.                                   *)
LEMMA LookupRecord ==
  ASSUME NEW f, NEW m, NEW n \in Nodes, NEW kind \in RecordKinds, NEW k \in Keys, Tidy(m),
         Shows(f, m, n, kind), NEW a \in Region(n, kind), RecordOf(m[a], Hash[k])
  PROVE  Lookup(f, n, kind, k) = m[a]
<1> DEFINE count == SlotCount[n][kind]
           h == Hash[k]
           At(d) == f[ChainAt(n, kind, h, d)]
           Stop(d) == Matches(At(d), h) \/ td_slot_is_empty(At(d))
<1>1. h \in Nat /\ count \in Nat
  BY HashAssumption, SlotCountAssumption DEF RecordKinds, Kinds
<1>2. a \in RecordAddr /\ a[1] = n /\ a[2] = kind
  BY RegionRecord
<1>3. PICK e \in 0 .. count - 1 : a = ChainAt(n, kind, h, e)
  BY <1>1, ChainSurjective
<1>4. At(e) = m[a]
  BY <1>3 DEF Shows
<1>5. Stop(e)
  BY <1>2, <1>4 DEF Tidy, Matches, RecordOf
<1>6. \A d \in 0 .. count - 1 : ChainAt(n, kind, h, d) \in RecordAddr
                               /\ ChainAt(n, kind, h, d)[1] = n
                               /\ ChainAt(n, kind, h, d)[2] = kind
  <2>1. count > 0
    BY <1>1, <1>3
  <2> QED
    BY <1>1, <2>1, ChainAddr DEF ChainAt
<1>7. \A d \in 0 .. count - 1 : At(d) = m[ChainAt(n, kind, h, d)]
  BY <1>6, RecordRegion DEF Shows
<1>8. PICK d \in 0 .. count - 1 :
              /\ Lookup(f, n, kind, k) = At(d) /\ Stop(d)
              /\ \A d2 \in 0 .. count - 1 : Stop(d2) => d <= d2
  BY <1>1, <1>5, LookupStops
<1>9. CASE d = e
  BY <1>4, <1>8, <1>9
<1>10. CASE d # e
  <2>1. d <= e /\ d \in Int /\ e \in Int
    BY <1>3, <1>5, <1>8
  <2>2. d \in 0 .. e - 1
    BY <1>8, <1>10, <2>1
  <2>3. m[a].valid /\ m[a].hash = h
    BY DEF RecordOf
  <2>4. Occupied(n, kind, h, e, m)
    BY <1>2, <1>3, <2>3 DEF Tidy, IntactAt
  <2>5. ~td_slot_is_empty(At(d))
    BY <1>7, <1>8, <2>2, <2>4 DEF Occupied
  <2>6. RecordOf(m[ChainAt(n, kind, h, d)], h)
    BY <1>7, <1>8, <2>5 DEF Matches, RecordOf
  <2>7. ChainAt(n, kind, h, d) = a
    BY <1>2, <1>6, <1>8, <2>3, <2>6 DEF Tidy
  <2> QED
    BY <1>7, <1>8, <2>7
<1> QED
  BY <1>9, <1>10

(* A lookup of a key without a record finds no value.                      *)
LEMMA LookupAbsent ==
  ASSUME NEW f, NEW m, NEW n \in Nodes, NEW kind \in RecordKinds, NEW k \in Keys,
         Shows(f, m, n, kind), Absent(m, n, kind, Hash[k])
  PROVE  ~Lookup(f, n, kind, k).valid
<1> DEFINE count == SlotCount[n][kind]
           h == Hash[k]
           At(d) == f[ChainAt(n, kind, h, d)]
           Stop(d) == Matches(At(d), h) \/ td_slot_is_empty(At(d))
<1>1. h \in Nat /\ count \in Nat
  BY HashAssumption, SlotCountAssumption DEF RecordKinds, Kinds
<1>2. CASE Lookup(f, n, kind, k) = EmptySlot
  BY <1>2 DEF EmptySlot
<1>3. CASE \E d \in 0 .. count - 1 : Lookup(f, n, kind, k) = At(d) /\ Stop(d)
  <2>1. PICK d \in 0 .. count - 1 : Lookup(f, n, kind, k) = At(d) /\ Stop(d)
    BY <1>3
  <2>2. count > 0 /\ d \in Nat
    BY <1>1, <2>1
  <2>3. ChainAt(n, kind, h, d) \in RecordAddr /\ ChainAt(n, kind, h, d)[1] = n
    BY <1>1, <2>2, ChainAddr
  <2>4. ChainAt(n, kind, h, d) \in Region(n, kind)
    BY <2>3, RecordRegion DEF ChainAt
  <2>5. ~RecordOf(At(d), h)
    BY <2>4 DEF Shows, Absent
  <2> QED
    BY <2>1, <2>5 DEF Matches, RecordOf, td_slot_is_empty
<1> QED
  BY <1>1, <1>2, <1>3, LookupStops

(* A valid slot a lookup finds is the record of the key.                   *)
LEMMA LookupValid ==
  ASSUME NEW f, NEW m, NEW n \in Nodes, NEW kind \in RecordKinds, NEW k \in Keys, Tidy(m),
         Shows(f, m, n, kind), Lookup(f, n, kind, k).valid
  PROVE  \E a \in Region(n, kind) : RecordOf(m[a], Hash[k]) /\ Lookup(f, n, kind, k) = m[a]
<1>1. PICK a \in Region(n, kind) : RecordOf(m[a], Hash[k])
  BY LookupAbsent DEF Absent
<1> QED
  BY <1>1, LookupRecord

(* A value a lookup finds in the cache is an entry of the key.             *)
LEMMA LookupCache ==
  ASSUME NEW n \in Nodes, NEW k \in Keys, Live(Lookup(mem, n, "cache", k))
  PROVE  \E e \in AddrOf({"cache"}) :
            e[1] = n /\ Matches(mem[e], Hash[k]) /\ Lookup(mem, n, "cache", k) = mem[e]
<1> DEFINE count == SlotCount[n]["cache"]
           h == Hash[k]
           At(d) == mem[ChainAt(n, "cache", h, d)]
           Stop(d) == Matches(At(d), h) \/ td_slot_is_empty(At(d))
<1>1. h \in Nat /\ count \in Nat
  BY HashAssumption, SlotCountAssumption DEF Kinds
<1>2. Lookup(mem, n, "cache", k) # EmptySlot
  BY DEF Live, EmptySlot
<1>3. PICK d \in 0 .. count - 1 : Lookup(mem, n, "cache", k) = At(d) /\ Stop(d)
  BY <1>1, <1>2, LookupStops
<1>4. Matches(At(d), h)
  BY <1>3 DEF Live, td_slot_is_empty
<1> DEFINE i == SlotIndex(n, "cache", h, d)
           e == ChainAt(n, "cache", h, d)
<1>5. i \in 0 .. count - 1
  <2>1. d \in Nat /\ count > 0 /\ "cache" \in Kinds
    BY <1>1, <1>3 DEF Kinds
  <2> QED
    BY <1>1, <2>1, SlotIndexType
<1>6. e = <<n, "cache", i>>
  BY DEF ChainAt
<1> HIDE DEF i, e
<1>7. e \in Addr /\ e[1] = n /\ e[2] = "cache"
  BY <1>5, <1>6, AddrIntro DEF Kinds
<1> QED
  BY <1>3, <1>4, <1>7 DEF AddrOf, e

(***************************************************************************)
(* The theorems about a client at rest.                                    *)
(***************************************************************************)

(* At rest the memory is the records.                                      *)
LEMMA RestShows ==
  ASSUME NEW c, Alone(c), AloneInv(c), Resting, NEW n, NEW kind \in RecordKinds
  PROVE  /\ Shows(mem, Records(c), n, kind)
         /\ Tidy(Records(c)) /\ AllCopied(Records(c)) /\ CachesOlder(Records(c))
<1>1. c \in CN /\ AloneOf(c)
  BY AloneTypes DEF AloneInv
<1>2. cn[c].pc \in {"off", "idle"}
  BY <1>1 DEF Resting
<1>3. \A a \in RecordAddr : Records(c)[a] = mem[a]
  BY <1>2, RecordsType
<1>4. AllCopied(Records(c))
  BY <1>2, AloneCopied DEF BackupSteps, PrimeSteps
<1> QED
  BY <1>1, <1>3, <1>4, RegionRecord DEF Shows, AloneOf

(* A live entry of the mirror is the record of its hash.                   *)
LEMMA MirroredRecord ==
  ASSUME NEW c, MirrorOf(c), NEW e \in CacheAddr, ~Pending(cn[c], e), mem[e] \in Slot,
         mem[e].valid, ~mem[e].tomb
  PROVE  \E a \in Region(e[1], "prime") :
             /\ RecordOf(Records(c)[a], mem[e].hash)
             /\ [mem[e] EXCEPT !.guard = Records(c)[a].guard] = Records(c)[a]
<1>1. PICK a \in Region(e[1], "prime") : Records(c)[a] = mem[e]
  BY DEF MirrorOf, Mirrors
<1>2. [mem[e] EXCEPT !.guard = mem[e].guard] = mem[e]
  BY DEF Slot
<1> QED
  BY <1>1, <1>2 DEF RecordOf

(* The invariant implies that the replicas agree.                          *)
LEMMA AloneAgree ==
  ASSUME NEW c, Alone(c), AloneInv(c), BackupCount <= 1
  PROVE  ReplicasAgree
<1> SUFFICES ASSUME Resting, NEW k \in Keys, NEW j \in Backups
             PROVE  LET p == PrimeSlot(mem, k)
                        b == BackupSlot(k, j)
                    IN  IF Live(p) THEN b = p ELSE ~Live(b)
  BY DEF ReplicasAgree
<1> DEFINE m == Records(c)
           n == td_primary_session(k)
           r == td_replica_session(k, j)
           h == Hash[k]
           p == PrimeSlot(mem, k)
           b == BackupSlot(k, j)
<1>1. n \in Nodes /\ r \in Nodes
  BY SessionType, BackupsType
<1>2. "prime" \in RecordKinds /\ "backup" \in RecordKinds
  BY DEF RecordKinds
<1>3. Shows(mem, m, n, "prime") /\ Shows(mem, m, r, "backup") /\ Tidy(m)
  BY <1>2, RestShows
<1>4. Copied(m, k, j) /\ NoOrphan(m, k, j)
  BY <1>2, RestShows DEF AllCopied
<1>5. p = Lookup(mem, n, "prime", k) /\ b = Lookup(mem, r, "backup", k)
  BY DEF PrimeSlot, BackupSlot
<1> HIDE DEF m, n, r, p, b
<1>6. CASE Live(p)
  <2>1. PICK x \in Region(n, "prime") : RecordOf(m[x], h) /\ p = m[x]
    BY <1>1, <1>2, <1>3, <1>5, <1>6, LookupValid DEF Live
  <2>2. LiveOf(m[x], h)
    BY <1>6, <2>1 DEF Live, LiveOf
  <2>3. PICK y \in Region(r, "backup") : m[y] = m[x]
    BY <1>4, <2>2 DEF Copied, n, r
  <2>4. b = m[y]
    BY <1>1, <1>2, <1>3, <1>5, <2>1, <2>3, LookupRecord
  <2> QED
    BY <1>6, <2>1, <2>3, <2>4 DEF p, b
<1>7. CASE ~Live(p)
  <2> SUFFICES ASSUME Live(b) PROVE FALSE
    BY <1>7 DEF p, b
  <2>1. PICK y \in Region(r, "backup") : RecordOf(m[y], h) /\ b = m[y]
    BY <1>1, <1>2, <1>3, <1>5, LookupValid DEF Live
  <2>2. LiveOf(m[y], h)
    BY <2>1 DEF Live, LiveOf
  <2>3. PICK x \in Region(n, "prime") : LiveOf(m[x], h)
    BY <1>4, <2>2 DEF NoOrphan, n, r
  <2>4. p = m[x]
    BY <1>1, <1>2, <1>3, <1>5, <2>3, LookupRecord DEF LiveOf
  <2> QED
    BY <1>7, <2>3, <2>4 DEF Live, LiveOf, RecordOf
<1> QED
  BY <1>6, <1>7

(* Between commands each backup of a key that has a value holds the very   *)
(* slot the primary holds.                                                 *)
ValuesCopied ==
    Resting => \A k \in Keys, j \in Backups :
        Live(PrimeSlot(mem, k)) => BackupSlot(k, j) = PrimeSlot(mem, k)

(* The invariant implies it, however many backups there are.               *)
LEMMA AloneCopies ==
  ASSUME NEW c, Alone(c), AloneInv(c)
  PROVE  ValuesCopied
<1> SUFFICES ASSUME Resting, NEW k \in Keys, NEW j \in Backups, Live(PrimeSlot(mem, k))
             PROVE  BackupSlot(k, j) = PrimeSlot(mem, k)
  BY DEF ValuesCopied
<1> DEFINE m == Records(c)
           n == td_primary_session(k)
           r == td_replica_session(k, j)
           h == Hash[k]
           p == PrimeSlot(mem, k)
<1>1. n \in Nodes /\ r \in Nodes
  BY SessionType, BackupsType
<1>2. "prime" \in RecordKinds /\ "backup" \in RecordKinds
  BY DEF RecordKinds
<1>3. Shows(mem, m, n, "prime") /\ Shows(mem, m, r, "backup") /\ Tidy(m)
  BY <1>2, RestShows
<1>4. Copied(m, k, j)
  BY <1>2, RestShows DEF AllCopied
<1>5. p = Lookup(mem, n, "prime", k) /\ BackupSlot(k, j) = Lookup(mem, r, "backup", k)
  BY DEF PrimeSlot, BackupSlot
<1>6. Live(p)
  OBVIOUS
<1> HIDE DEF m, n, r, p
<1>7. PICK x \in Region(n, "prime") : RecordOf(m[x], h) /\ p = m[x]
  BY <1>1, <1>2, <1>3, <1>5, <1>6, LookupValid DEF Live
<1>8. LiveOf(m[x], h)
  BY <1>6, <1>7 DEF Live, LiveOf
<1>9. PICK y \in Region(r, "backup") : m[y] = m[x]
  BY <1>4, <1>8 DEF Copied, n, r
<1>10. BackupSlot(k, j) = m[y]
  BY <1>1, <1>2, <1>3, <1>5, <1>7, <1>9, LookupRecord
<1> QED
  BY <1>7, <1>9, <1>10 DEF p

(* The invariant implies that the cache is coherent.                       *)
LEMMA AloneCoherent ==
  ASSUME NEW c, Alone(c), AloneInv(c), "delete" \notin OpKinds \/ MirrorOf(c)
  PROVE  CacheCoherent
<1> SUFFICES ASSUME Resting, NEW k \in Keys,
                    Matches(PrimeSlot(mem, k), Hash[k]), Live(CacheSlot(k)),
                    CacheSlot(k).guard = PrimeSlot(mem, k).guard
             PROVE  CacheSlot(k) = PrimeSlot(mem, k)
  BY DEF CacheCoherent
<1> DEFINE m == Records(c)
           n == td_primary_session(k)
           h == Hash[k]
           p == PrimeSlot(mem, k)
<1>1. n \in Nodes /\ "prime" \in RecordKinds
  BY SessionType DEF RecordKinds
<1>2. Shows(mem, m, n, "prime") /\ Tidy(m) /\ CachesOlder(m)
  BY <1>1, RestShows
<1>3. p = Lookup(mem, n, "prime", k) /\ CacheSlot(k) = Lookup(mem, n, "cache", k)
  BY DEF PrimeSlot, CacheSlot
<1>4. PICK e \in AddrOf({"cache"}) :
              e[1] = n /\ Matches(mem[e], h) /\ CacheSlot(k) = mem[e]
  BY <1>1, <1>3, LookupCache
<1>5. ~Torn(p) /\ mem[e].guard = p.guard
  BY <1>4 DEF Matches
<1>6. mem[e] \in Slot
  BY AloneTypes DEF AddrOf
<1> HIDE DEF m, n, p
<1>7. mem[e].valid /\ mem[e].hash = h /\ ~Torn(mem[e])
  BY <1>4 DEF Matches
<1>8. PICK a \in Region(n, "prime") :
              /\ RecordOf(m[a], h)
              /\ mem[e].visible = m[a].visible => [mem[e] EXCEPT !.guard = m[a].guard] = m[a]
  <2>1. CASE "delete" \notin OpKinds
    BY <1>2, <1>4, <1>7, <2>1 DEF CachesOlder, CacheOlder
  <2>2. CASE MirrorOf(c)
    <3>1. cn[c].pc \in {"off", "idle"}
      BY AloneTypes DEF Resting
    <3>2. ~Pending(cn[c], e) /\ e \in CacheAddr /\ ~mem[e].tomb
      BY <1>4, <3>1 DEF Pending, RefreshSteps, CacheAddr, Live
    <3> QED
      BY <1>4, <1>6, <1>7, <2>2, <3>2, MirroredRecord DEF m
  <2> QED
    BY <2>1, <2>2
<1>9. p = m[a]
  BY <1>1, <1>2, <1>3, <1>8, LookupRecord
<1>10. mem[e].visible = p.visible
  BY <1>5, <1>7 DEF Torn
<1>11. [mem[e] EXCEPT !.guard = p.guard] = mem[e]
  BY <1>5, <1>6 DEF Slot
<1> QED
  BY <1>4, <1>8, <1>9, <1>10, <1>11 DEF p

(* Between the commands of a client alone on the cluster, with at most two *)
(* replicas and nothing broken, the backup of a key holds the very slot    *)
(* the primary holds, and no value of a key that has none: the backup loop *)
(* and the primary commit of td_cluster_write_value leave no copy behind.  *)
THEOREM BackupsAgreeWithPrime ==
  ASSUME NEW c, Alone(c), BackupCount <= 1
  PROVE  Spec => []ReplicasAgree
<1>1. AloneInv(c) => ReplicasAgree
  BY AloneAgree
<1>2. Spec => []AloneInv(c)
  BY AlwaysAlone
<1> QED
  BY <1>1, <1>2, PTL

(* With any number of replicas, every backup of a key that has a value     *)
(* holds the slot of the primary between commands.  A key without a value  *)
(* may leave one on a backup: with two backups or more a write that finds  *)
(* no room on a later one fails after the first has accepted.              *)
THEOREM ValuesOnEveryBackup ==
  ASSUME NEW c, Alone(c)
  PROVE  Spec => []ValuesCopied
<1>1. AloneInv(c) => ValuesCopied
  BY AloneCopies
<1>2. Spec => []AloneInv(c)
  BY AlwaysAlone
<1> QED
  BY <1>1, <1>2, PTL

(* A cache entry that passes the epoch validation of td_cluster_read_value *)
(* is the very slot of PRIME: while no key is ever deleted, whatever the   *)
(* eviction threads and evict commands clear in between; and with deletes, *)
(* while eviction_threshold_pct is above 100 and nothing is evicted.  An   *)
(* eviction and a delete together can break it.                            *)
THEOREM CacheHitsAreCurrent ==
  ASSUME NEW c, Alone(c), "delete" \notin OpKinds \/ EvictPct > 100
  PROVE  Spec => []CacheCoherent
<1>1. MirrorInv(c) => CacheCoherent
  BY AloneCoherent DEF MirrorInv
<1>2. Spec => []MirrorInv(c)
  BY AlwaysMirror
<1> QED
  BY <1>1, <1>2, PTL

(***************************************************************************)
(* The refinement of KVStore.                                              *)
(***************************************************************************)

(* The value of a key that has the slot p.                                 *)
ValueOf(p) == IF Live(p) THEN p.data ELSE Nil

(* The store is what the records of PRIME hold.                            *)
StoreRight(c) ==
    \A k \in Keys :
        /\ \A a \in Region(td_primary_session(k), "prime") :
              RecordOf(Records(c)[a], Hash[k]) => Store[k] = Records(c)[a].data
        /\ Absent(Records(c), td_primary_session(k), "prime", Hash[k]) => Store[k] = Nil

(* Settled shows the records of PRIME.                                     *)
LEMMA SettledShows ==
  ASSUME NEW c, Alone(c), AloneInv(c), NEW n
  PROVE  Shows(Settled, Records(c), n, "prime")
<1> DEFINE s == cn[c]
<1>1. CN = {c}
  BY DEF Alone
<1> SUFFICES ASSUME NEW a \in Region(n, "prime") PROVE Settled[a] = Records(c)[a]
  BY DEF Shows
<1>2. a \in RecordAddr /\ a[2] = "prime" /\ a \in Addr
  BY RegionRecord DEF RecordKinds, RecordAddr, AddrOf
<1>3. CASE s.pc = "primeCas" /\ Dest(s) = a
  <2>1. Settled[a] = (CHOOSE u \in {cn[d] : d \in CN} : u.pc = "primeCas" /\ Dest(u) = a).prime.slot
    BY <1>1, <1>2, <1>3 DEF Settled
  <2>2. {cn[d] : d \in CN} = {s}
    BY <1>1
  <2>3. (CHOOSE u \in {s} : u.pc = "primeCas" /\ Dest(u) = a) = s
    BY <1>3
  <2>4. Settled[a] = s.prime.slot
    BY <2>1, <2>2, <2>3
  <2>5. Records(c)[a] = Chosen(s).slot
    BY <1>2, <1>3, RecordsType
  <2> QED
    BY <1>3, <2>4, <2>5 DEF Chosen
<1>4. CASE ~(s.pc = "primeCas" /\ Dest(s) = a)
  <2>1. Settled[a] = mem[a]
    BY <1>1, <1>2, <1>4 DEF Settled
  <2>2. s.pc = "backupCas" => Dest(s) # a
    <3> SUFFICES ASSUME s.pc = "backupCas" PROVE Dest(s)[2] = "backup"
      BY <1>2
    <3> QED
      BY RecordDest
  <2>3. Records(c)[a] = mem[a]
    BY <1>2, <1>4, <2>2, RecordsType
  <2> QED
    BY <2>1, <2>3
<1> QED
  BY <1>3, <1>4

(* The refinement mapping reads the records.                               *)
LEMMA StoreIsRight ==
  ASSUME NEW c, Alone(c)
  PROVE  AloneInv(c) => StoreRight(c)
<1> SUFFICES ASSUME AloneInv(c), NEW k \in Keys
             PROVE  /\ \A a \in Region(td_primary_session(k), "prime") :
                          RecordOf(Records(c)[a], Hash[k]) => Store[k] = Records(c)[a].data
                    /\ Absent(Records(c), td_primary_session(k), "prime", Hash[k])
                       => Store[k] = Nil
  BY DEF StoreRight
<1> DEFINE n == td_primary_session(k)
           m == Records(c)
           p == Lookup(Settled, n, "prime", k)
<1>1. n \in Nodes /\ "prime" \in RecordKinds
  BY SessionType DEF RecordKinds
<1>2. Shows(Settled, m, n, "prime") /\ Tidy(m)
  BY SettledShows DEF AloneInv, AloneOf
<1>3. Store[k] = ValueOf(p)
  BY DEF Store, PrimeSlot, ValueOf
<1> HIDE DEF n, m, p
<1>4. ASSUME NEW a \in Region(n, "prime"), RecordOf(m[a], Hash[k])
      PROVE  Store[k] = m[a].data
  <2>1. p = m[a]
    BY <1>1, <1>2, <1>4, LookupRecord DEF p
  <2>2. a \in RecordAddr /\ m[a].valid
    BY <1>1, <1>4, RegionRecord DEF RecordOf
  <2>3. m[a].tomb <=> m[a].data = Nil
    BY <1>2, <2>2 DEF Tidy
  <2> QED
    BY <1>3, <2>1, <2>2, <2>3 DEF ValueOf, Live
<1>5. ASSUME Absent(m, n, "prime", Hash[k]) PROVE Store[k] = Nil
  <2>1. ~p.valid
    BY <1>1, <1>2, <1>5, LookupAbsent DEF p
  <2> QED
    BY <1>3, <2>1 DEF ValueOf, Live
<1> QED
  BY <1>4, <1>5 DEF n, m

(* What the steps are proved from.                                         *)
StoreInv(c) == AloneInv(c) /\ StoreRight(c)

(* The store of a key that may be absent: none, or a tombstone.            *)
LEMMA NoValue ==
  ASSUME NEW c, Alone(c), StoreInv(c), NEW k \in Keys,
         \A a \in Region(td_primary_session(k), "prime") : ~LiveOf(Records(c)[a], Hash[k])
  PROVE  Store[k] = Nil
<1>1. CASE Absent(Records(c), td_primary_session(k), "prime", Hash[k])
  BY <1>1 DEF StoreInv, StoreRight
<1>2. CASE ~Absent(Records(c), td_primary_session(k), "prime", Hash[k])
  <2>1. PICK a \in Region(td_primary_session(k), "prime") : RecordOf(Records(c)[a], Hash[k])
    BY <1>2 DEF Absent
  <2>2. Store[k] = Records(c)[a].data
    BY <2>1 DEF StoreInv, StoreRight
  <2>3. Records(c)[a].tomb /\ Records(c)[a].valid /\ a \in RecordAddr
    BY <2>1, RegionRecord DEF LiveOf, RecordOf, RecordKinds
  <2> QED
    BY <2>2, <2>3 DEF StoreInv, AloneInv, AloneOf, Tidy
<1> QED
  BY <1>1, <1>2

(* The store of a key with a live record.                                  *)
LEMMA HasValue ==
  ASSUME NEW c, Alone(c), StoreInv(c), NEW k \in Keys,
         NEW a \in Region(td_primary_session(k), "prime"), LiveOf(Records(c)[a], Hash[k])
  PROVE  Store[k] = Records(c)[a].data /\ Store[k] # Nil
<1>1. RecordOf(Records(c)[a], Hash[k]) /\ a \in RecordAddr /\ Records(c)[a].valid
      /\ ~Records(c)[a].tomb
  BY RegionRecord DEF LiveOf, RecordOf, RecordKinds
<1> QED
  BY <1>1 DEF StoreInv, StoreRight, AloneInv, AloneOf, Tidy

(* The same of the slot that the probe of PRIME picked.                    *)
LEMMA PickedValue ==
  ASSUME NEW c, Alone(c), StoreInv(c), NEW k \in Keys, NEW p,
         Picked(p, td_primary_session(k), "prime", Hash[k], Records(c))
  PROVE  /\ p.found /\ ~p.slot.tomb => /\ td_slot_present(p.slot, Hash[k])
                                       /\ Store[k] = p.slot.data /\ Store[k] # Nil
         /\ ~(p.found /\ ~p.slot.tomb) => Store[k] = Nil
         /\ p.found => RecordOf(p.slot, Hash[k])
<1> DEFINE n == td_primary_session(k)
           m == Records(c)
           a == <<n, "prime", p.at>>
<1>1. a \in RecordAddr /\ m[a] = p.slot /\ Tidy(m)
  BY DEF Picked, StoreInv, AloneInv, AloneOf
<1>2. a \in Region(n, "prime")
  BY <1>1, AddrParts
<1> HIDE DEF a
<1>3. CASE p.found /\ ~p.slot.tomb
  <2>1. LiveOf(m[a], Hash[k])
    BY <1>1, <1>3 DEF Picked, LiveOf
  <2>2. td_slot_present(p.slot, Hash[k])
    BY <1>1, <2>1 DEF Tidy, LiveOf, RecordOf, td_slot_present
  <2> QED
    BY <1>1, <1>2, <1>3, <2>1, <2>2, HasValue DEF LiveOf
<1>4. CASE p.found /\ p.slot.tomb
  <2>1. RecordOf(m[a], Hash[k]) /\ m[a].valid
    BY <1>1, <1>4 DEF Picked, RecordOf
  <2>2. Store[k] = m[a].data
    BY <1>2, <2>1 DEF StoreInv, StoreRight
  <2> QED
    BY <1>1, <1>4, <2>1, <2>2 DEF Tidy
<1>5. CASE ~p.found
  BY <1>5 DEF Picked, StoreInv, StoreRight
<1> QED
  BY <1>3, <1>4, <1>5

(* A step that changes no PRIME record leaves the store as it was.         *)
LEMMA StoreKept ==
  ASSUME NEW c, Alone(c), StoreInv(c), StoreInv(c)',
         \A a \in RecordAddr : a[2] = "prime" => Records(c)'[a] = Records(c)[a]
  PROVE  Store' = Store
<1> DEFINE m == Records(c)
           m2 == Records(c)'
<1>1. StoreRight(c) /\ StoreRight(c)'
  BY DEF StoreInv
<1>2. ASSUME NEW k \in Keys PROVE Store'[k] = Store[k]
  <2> DEFINE n == td_primary_session(k)
  <2>1. \A a \in Region(n, "prime") : m2[a] = m[a]
    BY RegionRecord DEF RecordKinds
  <2>2. /\ \A a \in Region(n, "prime") : RecordOf(m[a], Hash[k]) => Store[k] = m[a].data
        /\ Absent(m, n, "prime", Hash[k]) => Store[k] = Nil
    BY <1>1 DEF StoreRight
  <2>3. /\ \A a \in Region(n, "prime") : RecordOf(m2[a], Hash[k]) => Store'[k] = m2[a].data
        /\ Absent(m2, n, "prime", Hash[k]) => Store'[k] = Nil
    BY <1>1 DEF StoreRight
  <2> HIDE DEF m, m2
  <2> QED
    BY <2>1, <2>2, <2>3 DEF Absent
<1>3. Store = [k \in Keys |-> Store[k]] /\ Store' = [k \in Keys |-> Store'[k]]
  BY DEF Store
<1> QED
  BY <1>2, <1>3

(* The primary commit changes the value of its key and of no other.        *)
LEMMA StoreCommitted ==
  ASSUME NEW c, Alone(c), StoreInv(c), StoreInv(c)', NEW s, s = cn[c], s.pc = "primeCas",
         Written(Records(c), Records(c)', Dest(s), s.prop)
  PROVE  Store' = [k \in Keys |-> IF Hash[k] = Hash[s.op.key] THEN s.op.val ELSE Store[k]]
<1> DEFINE m == Records(c)
           m2 == Records(c)'
           d == Dest(s)
           h == Hash[s.op.key]
           p == Chosen(s)
<1>1. StoreRight(c) /\ StoreRight(c)' /\ AloneInv(c)
  BY DEF StoreInv
<1>2. /\ d \in RecordAddr /\ d = <<d[1], d[2], p.at>> /\ Picked(p, d[1], d[2], h, m)
      /\ d[1] = td_primary_session(s.op.key) /\ d[2] = "prime"
  BY <1>1, RecordDest
<1>3. s.pc \in ProposingPcs
  BY DEF ProposingPcs
<1>4. RecordOf(s.prop, h) /\ s.op.key \in Keys
  BY <1>1, <1>3, ProposalSlot
<1>5. Tidy(m) /\ s.prop.data = s.op.val
  BY <1>1, <1>3 DEF AloneInv, AloneOf, ClientOf, Proposal
<1>6. m2[d] = s.prop /\ \A a \in RecordAddr : a # d => m2[a] = m[a]
  BY DEF Written
<1>7. ASSUME NEW k \in Keys
      PROVE  Store'[k] = IF Hash[k] = h THEN s.op.val ELSE Store[k]
  <2> DEFINE n == td_primary_session(k)
             g == Hash[k]
  <2>1. /\ \A a \in Region(n, "prime") : RecordOf(m[a], g) => Store[k] = m[a].data
        /\ Absent(m, n, "prime", g) => Store[k] = Nil
    BY <1>1 DEF StoreRight
  <2>2. /\ \A a \in Region(n, "prime") : RecordOf(m2[a], g) => Store'[k] = m2[a].data
        /\ Absent(m2, n, "prime", g) => Store'[k] = Nil
    BY <1>1 DEF StoreRight
  <2>3. \A a \in Region(n, "prime") : a \in RecordAddr /\ a[1] = n /\ a[2] = "prime"
    BY RegionRecord DEF RecordKinds
  <2> HIDE DEF m, m2, d, p
  <2>4. CASE g = h
    <3>1. d[1] = n
      BY <1>2, <1>4, <2>4, SameHash
    <3>2. d \in Region(n, "prime")
      BY <1>2, <3>1, RecordRegion
    <3> QED
      BY <1>4, <1>5, <1>6, <2>2, <2>4, <3>2
  <2>5. CASE g # h
    <3>1. ~RecordOf(m2[d], g) /\ (RecordOf(m[d], g) => m[d].tomb)
      <4>1. RecordOf(m[d], g) => m[d].tomb
        BY <1>2, <2>5, PickedForeign
      <4> QED
        BY <1>4, <1>6, <2>5, <4>1 DEF RecordOf
    <3>2. CASE \E a \in Region(n, "prime") : RecordOf(m2[a], g)
      <4>1. PICK a \in Region(n, "prime") : RecordOf(m2[a], g)
        BY <3>2
      <4>2. m2[a] = m[a]
        BY <1>6, <2>3, <3>1, <4>1
      <4> QED
        BY <2>1, <2>2, <2>5, <4>1, <4>2
    <3>3. CASE \A a \in Region(n, "prime") : ~RecordOf(m2[a], g)
      <4>1. Store'[k] = Nil
        BY <2>2, <3>3 DEF Absent
      <4>2. CASE Absent(m, n, "prime", g)
        BY <2>1, <2>5, <4>1, <4>2
      <4>3. CASE ~Absent(m, n, "prime", g)
        <5>1. PICK a \in Region(n, "prime") : RecordOf(m[a], g)
          BY <4>3 DEF Absent
        <5>2. a = d
          BY <1>6, <2>3, <3>3, <5>1
        <5>3. m[a].valid /\ m[a].tomb /\ a \in RecordAddr
          BY <1>2, <3>1, <5>1, <5>2 DEF RecordOf
        <5>4. m[a].data = Nil
          BY <1>5, <5>3 DEF Tidy
        <5> QED
          BY <2>1, <2>5, <4>1, <5>1, <5>4
      <4> QED
        BY <4>2, <4>3
    <3> QED
      BY <3>2, <3>3
  <2> QED
    BY <2>4, <2>5
<1>8. Store' = [k \in Keys |-> Store'[k]]
  BY DEF Store
<1> HIDE DEF h
<1>9. Store' = [k \in Keys |-> IF Hash[k] = h THEN s.op.val ELSE Store[k]]
  BY <1>7, <1>8
<1> QED
  BY <1>9 DEF h

(* The command and the answer that a process stands for.                   *)
CallOfCn(s) == IF s.pc \in {"off", "idle"} \cup EvictPcs THEN NoOp ELSE s.op
AnsOfCn(s) == IF s.op.kind = "evict" THEN [status |-> "none", val |-> Nil]
              ELSE [status |-> s.reply.status, val |-> s.reply.val]

(* The mapping of one client, and of its steps.                            *)
LEMMA MappedClient ==
  ASSUME NEW c, Alone(c), NEW s, NEW t, s = cn[c], t = cn'[c]
  PROVE  /\ UnderWay[c] = CallOfCn(s) /\ Done[c] = Committed(s) /\ Answers[c] = AnsOfCn(s)
         /\ UnderWay' = [UnderWay EXCEPT ![c] = CallOfCn(t)]
         /\ Done' = [Done EXCEPT ![c] = Committed(t)]
         /\ Answers' = [Answers EXCEPT ![c] = AnsOfCn(t)]
<1>1. CN = {c} /\ c \in CN
  BY DEF Alone
<1>2. UnderWay = [d \in CN |-> CallOfCn(cn[d])] /\ UnderWay' = [d \in CN |-> CallOfCn(cn'[d])]
  BY DEF UnderWay, CallOfCn
<1>3. Done = [d \in CN |-> Committed(cn[d])] /\ Done' = [d \in CN |-> Committed(cn'[d])]
  BY DEF Done, Committed
<1>4. Answers = [d \in CN |-> AnsOfCn(cn[d])] /\ Answers' = [d \in CN |-> AnsOfCn(cn'[d])]
  BY DEF Answers, AnsOfCn, NoReply, Reply
<1> QED
  BY <1>1, <1>2, <1>3, <1>4

(* The step of a client that does not show.                                *)
LEMMA StepHidden ==
  ASSUME NEW c, Alone(c), Store' = Store, NEW s, NEW t, s = cn[c], t = cn'[c],
         CallOfCn(t) = CallOfCn(s), Committed(t) = Committed(s), AnsOfCn(t) = AnsOfCn(s)
  PROVE  UNCHANGED KV!kvVars
<1>1. /\ UnderWay[c] = CallOfCn(s) /\ Done[c] = Committed(s) /\ Answers[c] = AnsOfCn(s)
      /\ UnderWay' = [UnderWay EXCEPT ![c] = CallOfCn(t)]
      /\ Done' = [Done EXCEPT ![c] = Committed(t)]
      /\ Answers' = [Answers EXCEPT ![c] = AnsOfCn(t)]
  BY MappedClient
<1>2. UnderWay' = UnderWay /\ Done' = Done /\ Answers' = Answers
  <2>1. /\ UnderWay = [d \in CN |-> UnderWay[d]] /\ Done = [d \in CN |-> Done[d]]
        /\ Answers = [d \in CN |-> Answers[d]]
    BY DEF UnderWay, Done, Answers
  <2> QED
    BY <1>1, <2>1
<1> QED
  BY <1>2 DEF KV!kvVars

(* A command under way that is no evict.                                   *)
Busied(s) == /\ s.pc \notin {"off", "idle"} \cup EvictPcs
             /\ s.op \in Requests /\ s.op.kind # "evict" /\ s.op.key \in Keys

(* Its request is the command.                                             *)
LEMMA BusiedCall ==
  ASSUME NEW s, Busied(s)
  PROVE  CallOfCn(s) = s.op /\ s.op # NoOp /\ s.op.kind \in {"read"} \cup Mutating
<1>1. s.op.kind \in {"read"} \cup Mutating
  BY DEF Busied, Requests, Mutating
<1>2. s.op # NoOp
  BY <1>1 DEF NoOp, Mutating
<1> QED
  BY <1>1, <1>2 DEF Busied, CallOfCn

(* A command that finishes returns its answer.                             *)
LEMMA FinishReturns ==
  ASSUME NEW c, Alone(c), NEW u, NEW r, cn'[c] = Finish(u, r), u.op.kind # "evict"
  PROVE  KV!Return(c, KV!Answer(r.status, r.val))
<1> DEFINE t == Finish(u, r)
<1>1. t.pc = "idle" /\ t.op = u.op /\ t.reply = r
  BY DEF Finish, Off
<1> HIDE DEF t
<1>2. /\ UnderWay' = [UnderWay EXCEPT ![c] = CallOfCn(t)]
      /\ Done' = [Done EXCEPT ![c] = Committed(t)]
      /\ Answers' = [Answers EXCEPT ![c] = AnsOfCn(t)]
  BY MappedClient DEF t
<1>3. CallOfCn(t) = NoOp /\ Committed(t) = FALSE
  BY <1>1 DEF CallOfCn, Committed
<1>4. AnsOfCn(t) = [status |-> r.status, val |-> r.val]
  BY <1>1 DEF AnsOfCn
<1> QED
  BY <1>2, <1>3, <1>4 DEF KV!Return, KV!Answer

(* A command is refused.                                                   *)
LEMMA StepRefuses ==
  ASSUME NEW c, Alone(c), Store' = Store, NEW s, s = cn[c], Busied(s), ~Committed(s),
         NEW u, u.op = s.op, cn'[c] = Finish(u, Error),
         Store[s.op.key] = Nil \/ s.op.val \in TooLong
  PROVE  KV!Next
<1>1. UnderWay[c] = s.op /\ s.op # NoOp /\ Done[c] = FALSE
  BY BusiedCall, MappedClient
<1>2. KV!Return(c, KV!Answer("error", Nil))
  <2>1. Error.status = "error" /\ Error.val = Nil /\ u.op.kind # "evict"
    BY DEF Error, Reply, Busied
  <2> QED
    BY <2>1, FinishReturns
<1>3. KV!Refuse(c)
  BY <1>1, <1>2 DEF KV!Refuse
<1> QED
  BY <1>3 DEF KV!Next, Alone

(* A read answers what the store holds.                                    *)
LEMMA StepReads ==
  ASSUME NEW c, Alone(c), Store' = Store, NEW s, s = cn[c], Busied(s), s.op.kind = "read",
         NEW u, u.op = s.op, NEW r, cn'[c] = Finish(u, r),
         \/ Store[s.op.key] = Nil /\ r.status = "not_found" /\ r.val = Nil
         \/ Store[s.op.key] # Nil /\ r.status = "value" /\ r.val = Store[s.op.key]
  PROVE  KV!Next
<1>1. UnderWay[c] = s.op
  BY BusiedCall, MappedClient
<1>2. KV!Return(c, KV!Answer(r.status, r.val))
  <2>1. u.op.kind # "evict"
    BY DEF Busied
  <2> QED
    BY <2>1, FinishReturns
<1>3. KV!ReadReturns(c)
  BY <1>1, <1>2 DEF KV!ReadReturns
<1> QED
  BY <1>3 DEF KV!Next, Alone

(* A mutation that has taken effect is acknowledged.                       *)
LEMMA StepAcknowledges ==
  ASSUME NEW c, Alone(c), Store' = Store, NEW s, s = cn[c], Busied(s), Committed(s),
         NEW u, u.op = s.op, NEW r, cn'[c] = Finish(u, r), r.status = "ok", r.val = Nil
  PROVE  KV!Next
<1>1. UnderWay[c] = s.op /\ Done[c] = TRUE /\ s.op.kind \in KV!Mutations
  <2>1. Committed(s) = TRUE /\ s.op.kind \in KV!Mutations
    BY DEF Committed, KV!Mutations
  <2> QED
    BY <2>1, BusiedCall, MappedClient
<1>2. KV!Return(c, KV!Answer("ok", Nil))
  <2>1. u.op.kind # "evict"
    BY DEF Busied
  <2> QED
    BY <2>1, FinishReturns
<1>3. KV!Acknowledge(c)
  BY <1>1, <1>2 DEF KV!Acknowledge
<1> QED
  BY <1>3 DEF KV!Next, Alone

(* A mutation takes effect, and is acknowledged at once when there is no   *)
(* cache.                                                                  *)
LEMMA StepTakesEffect ==
  ASSUME NEW c, Alone(c), NEW s, s = cn[c], Busied(s), s.pc = "primeCas",
         s.op.kind \in Mutating, s.op.val \notin TooLong,
         s.op.kind = "update" => Store[s.op.key] # Nil,
         Store' = [k \in Keys |-> IF Hash[k] = Hash[s.op.key] THEN s.op.val ELSE Store[k]],
         NEW t, t = cn'[c],
         \/ t.pc = "refresh" /\ t.op = s.op /\ t.reply = s.reply
         \/ t = Finish(s, Answer(s))
  PROVE  KV!Next
<1>1. UnderWay[c] = s.op /\ Done[c] = FALSE
  <2>1. Committed(s) = FALSE
    BY DEF Committed
  <2> QED
    BY <2>1, BusiedCall, MappedClient
<1>2. KV!Effect(c)
  BY <1>1 DEF KV!Effect, KV!Mutations, Mutating
<1>3. CASE t.pc = "refresh" /\ t.op = s.op /\ t.reply = s.reply
  <2>1. CallOfCn(t) = s.op /\ AnsOfCn(t) = AnsOfCn(s)
    BY <1>3 DEF CallOfCn, AnsOfCn, EvictPcs
  <2>2. Committed(t) = TRUE
    BY <1>3 DEF Committed, Mutating
  <2>3. /\ UnderWay[c] = s.op /\ Answers[c] = AnsOfCn(s)
        /\ UnderWay' = [UnderWay EXCEPT ![c] = s.op]
        /\ Done' = [Done EXCEPT ![c] = TRUE]
        /\ Answers' = [Answers EXCEPT ![c] = AnsOfCn(s)]
    BY <1>1, <2>1, <2>2, MappedClient
  <2>4. /\ UnderWay = [d \in CN |-> UnderWay[d]] /\ Answers = [d \in CN |-> Answers[d]]
    BY DEF UnderWay, Answers
  <2>5. UnderWay' = UnderWay /\ Answers' = Answers
    BY <2>3, <2>4
  <2>6. KV!TakeEffect(c)
    BY <1>2, <2>3, <2>5 DEF KV!TakeEffect
  <2> QED
    BY <2>6 DEF KV!Next, Alone
<1>4. CASE t = Finish(s, Answer(s))
  <2>1. Answer(s).status = "ok" /\ Answer(s).val = Nil /\ s.op.kind # "evict"
    BY DEF Answer, Reply, Mutating
  <2>2. KV!Return(c, KV!Answer("ok", Nil))
    BY <1>4, <2>1, FinishReturns
  <2>3. KV!Acknowledge(c)
    BY <1>2, <2>2 DEF KV!Acknowledge
  <2> QED
    BY <2>3 DEF KV!Next, Alone
<1> QED
  BY <1>3, <1>4

(* A client begins a command that is no evict.                             *)
LEMMA StepSubmits ==
  ASSUME NEW c, Alone(c), Store' = Store, NEW s, s = cn[c], s.pc = "idle",
         NEW t, t = cn'[c], Busied(t), t.reply = NoReply, ~Committed(t)
  PROVE  KV!Next
<1>1. CallOfCn(t) = t.op /\ t.op.kind \in {"read"} \cup Mutating
  BY BusiedCall
<1>2. AnsOfCn(t) = KV!NoAnswer
  BY DEF AnsOfCn, NoReply, Reply, KV!NoAnswer, KV!Answer, Busied
<1>3. CallOfCn(s) = NoOp /\ Committed(s) = FALSE /\ Committed(t) = FALSE
  BY DEF CallOfCn, Committed
<1>4. /\ UnderWay[c] = NoOp /\ Done[c] = FALSE
      /\ UnderWay' = [UnderWay EXCEPT ![c] = t.op]
      /\ Done' = [Done EXCEPT ![c] = FALSE]
      /\ Answers' = [Answers EXCEPT ![c] = KV!NoAnswer]
  BY <1>1, <1>2, <1>3, MappedClient
<1>5. Done' = Done
  <2>1. Done = [d \in CN |-> Done[d]]
    BY DEF Done
  <2> QED
    BY <1>4, <2>1
<1>6. /\ t.op = [kind |-> t.op.kind, key |-> t.op.key, val |-> t.op.val]
      /\ t.op.kind \in KV!Mutations \cup {"read"} /\ t.op.key \in Keys /\ t.op.val \in Values \cup {Nil}
  BY <1>1 DEF Busied, Requests, KV!Mutations, Mutating
<1>7. KV!Submit(c)
  BY <1>4, <1>5, <1>6 DEF KV!Submit
<1> QED
  BY <1>7 DEF KV!Next, Alone

(* A client without a command forgets its answer.                          *)
LEMMA StepLeaves ==
  ASSUME NEW c, Alone(c), Store' = Store, NEW s, s = cn[c], s.pc \in {"off", "idle"},
         NEW t, t = cn'[c], t.pc \in {"off", "idle"} \cup EvictPcs,
         t.reply = NoReply \/ t.op.kind = "evict"
  PROVE  KV!Next
<1>1. CallOfCn(s) = NoOp /\ CallOfCn(t) = NoOp /\ Committed(s) = FALSE /\ Committed(t) = FALSE
  BY DEF CallOfCn, Committed, EvictPcs
<1>2. AnsOfCn(t) = KV!NoAnswer
  BY DEF AnsOfCn, NoReply, Reply, KV!NoAnswer, KV!Answer
<1>3. /\ UnderWay[c] = NoOp /\ Done[c] = FALSE
      /\ UnderWay' = [UnderWay EXCEPT ![c] = NoOp]
      /\ Done' = [Done EXCEPT ![c] = FALSE]
      /\ Answers' = [Answers EXCEPT ![c] = KV!NoAnswer]
  BY <1>1, <1>2, MappedClient
<1>4. Done' = Done /\ UnderWay' = UnderWay
  <2>1. Done = [d \in CN |-> Done[d]] /\ UnderWay = [d \in CN |-> UnderWay[d]]
    BY DEF Done, UnderWay
  <2> QED
    BY <1>3, <2>1
<1>5. KV!Leave(c)
  BY <1>3, <1>4 DEF KV!Leave
<1> QED
  BY <1>5 DEF KV!Next, Alone

(* What a step of the cluster is to the store.                             *)
KVStep == KV!Next \/ UNCHANGED KV!kvVars

(* A client alone between the request and the answer of a command.         *)
LEMMA AloneBusied ==
  ASSUME NEW c, Alone(c), AloneInv(c), cn[c].pc \notin {"off", "idle"} \cup EvictPcs
  PROVE  Busied(cn[c]) /\ cn[c].reply = NoReply
<1> DEFINE s == cn[c]
<1>1. s \in Process /\ Commands(s) /\ Unopposed(s, Records(c))
  BY AloneTypes DEF AloneInv, AloneOf, ClientOf
<1>2. s.op \in Requests /\ s.reply = NoReply
  BY <1>1 DEF Commands
<1>3. s.pc \in {"read", "readCache", "write"} \cup ProposingPcs \cup RefreshSteps
  BY <1>1 DEF Process, Pcs, PrimePcs, CachePcs, BackupPcs, EvictPcs, ProposingPcs, RefreshSteps,
              Unopposed, RepairSteps
<1>4. s.op.kind # "evict"
  BY <1>1, <1>3 DEF Commands, Mutating, CachePcs, RefreshSteps
<1>5. s.op.key \in Keys
  BY <1>2, <1>4 DEF Requests
<1> QED
  BY <1>2, <1>4, <1>5 DEF Busied

(* A step in the middle of a command.                                      *)
LEMMA MoveHidden ==
  ASSUME NEW c, Alone(c), Store' = Store, NEW s, NEW t, s = cn[c], t = cn'[c],
         t.op = s.op, t.reply = s.reply,
         s.pc \notin {"off", "idle"} \cup EvictPcs, t.pc \notin {"off", "idle"} \cup EvictPcs,
         Committed(t) = Committed(s)
  PROVE  KVStep
<1>1. CallOfCn(t) = CallOfCn(s) /\ AnsOfCn(t) = AnsOfCn(s)
  BY DEF CallOfCn, AnsOfCn
<1> QED
  BY <1>1, StepHidden DEF KVStep

(* Connecting, quitting, evicting.                                         *)
LEMMA SessionKV ==
  ASSUME NEW c, Alone(c), AloneInv(c), Store' = Store, Connect(c) \/ Quit(c)
  PROVE  KVStep
<1> DEFINE s == cn[c]
           t == cn'[c]
<1>1. c \in CN /\ cn \in [CN -> Process]
  BY AloneTypes
<1>2. \/ t = [Off EXCEPT !.pc = "idle", !.ops = s.ops]
      \/ t = [Off EXCEPT !.ops = s.ops]
  BY <1>1 DEF Connect, Quit
<1>3. t.pc \in {"off", "idle"} /\ t.reply = NoReply
  BY <1>2 DEF Off
<1>4. s.pc \in {"off", "idle"}
  BY DEF Connect, Quit
<1> HIDE DEF t
<1>5. KV!Next
  BY <1>3, <1>4, StepLeaves DEF t
<1> QED
  BY <1>5 DEF KVStep

(* A command begins.                                                       *)
LEMMA BeginKV ==
  ASSUME NEW c, Alone(c), AloneInv(c), Store' = Store, NEW o \in Requests, Begin(c, o)
  PROVE  KVStep
<1> DEFINE s == cn[c]
           t == cn'[c]
           u == [Off EXCEPT !.op = o, !.ops = s.ops + 1]
           w == CASE o.kind = "read" -> Probe(u, "read")
                  [] o.kind = "evict" -> EvictFrom(u, 0)
                  [] OTHER -> Probe(u, "write")
<1>1. c \in CN /\ cn \in [CN -> Process]
  BY AloneTypes
<1>2. s.pc = "idle" /\ cn' = [cn EXCEPT ![c] = w]
  BY Zenon DEF Begin
<1>3. 0 \in Nodes
  BY NodesAssumption DEF Nodes
<1>4. /\ w.reply = NoReply /\ w.op = o
      /\ \/ w.pc = "read" /\ o.kind = "read"
         \/ w.pc = "write" /\ o.kind \in Mutating
         \/ w.pc \in EvictPcs /\ o.kind = "evict"
  <2>1. o.kind \in {"read", "evict"} \cup Mutating
    BY DEF Requests, Mutating
  <2>2. CASE o.kind = "read"
    <3>1. w = Probe(u, "read")
      BY <2>2
    <3> QED
      BY <2>2, <3>1 DEF Probe, Off
  <2>3. CASE o.kind = "evict"
    <3>1. w = [u EXCEPT !.pc = "evict", !.idx = 0]
      BY <1>3, <2>3 DEF EvictFrom
    <3> QED
      BY <2>3, <3>1 DEF Off, EvictPcs
  <2>4. CASE o.kind \in Mutating
    <3>1. o.kind # "read" /\ o.kind # "evict"
      BY <2>4 DEF Mutating
    <3>2. w = Probe(u, "write")
      BY <3>1
    <3> QED
      BY <2>4, <3>2 DEF Probe, Off
  <2> QED
    BY <2>1, <2>2, <2>3, <2>4
<1> HIDE DEF w
<1>5. t = w
  BY <1>1, <1>2
<1>6. CASE o.kind = "evict"
  <2>1. t.pc \in EvictPcs /\ t.reply = NoReply
    BY <1>4, <1>5, <1>6 DEF Mutating
  <2>2. KV!Next
    BY <1>2, <2>1, StepLeaves
  <2> QED
    BY <2>2 DEF KVStep
<1>7. CASE o.kind # "evict"
  <2>1. Busied(t) /\ t.reply = NoReply
    BY <1>4, <1>5, <1>7 DEF Busied, Requests, EvictPcs
  <2>2. ~Committed(t)
    BY <1>4, <1>5, <1>7 DEF Committed
  <2>3. KV!Next
    BY <1>2, <2>1, <2>2, StepSubmits
  <2> QED
    BY <2>3 DEF KVStep
<1> QED
  BY <1>6, <1>7

(* The next fetch of a probe, and the body of a commit.                    *)
LEMMA InnerKV ==
  ASSUME NEW c, Alone(c), AloneInv(c), Store' = Store, Scan(c) \/ WriteBody(c)
  PROVE  KVStep
<1> DEFINE s == cn[c]
           t == cn'[c]
<1>1. c \in CN /\ cn \in [CN -> Process] /\ s \in Process
  BY AloneTypes
<1>2. s.pc \in ProbePcs \cup BodyPcs
  BY DEF Scan, WriteBody
<1>3. t.op = s.op /\ t.reply = s.reply /\ (t.pc = s.pc \/ (s.pc \in BodyPcs /\ t.pc = CasOf[s.pc]))
  BY <1>1 DEF Scan, WriteBody, Process
<1> HIDE DEF t, s
<1>4. /\ s.pc \notin {"off", "idle"} \cup EvictPcs /\ t.pc \notin {"off", "idle"} \cup EvictPcs
      /\ Committed(t) = Committed(s)
  BY <1>2, <1>3 DEF ProbePcs, BodyPcs, CasOf, EvictPcs, Committed
<1> QED
  BY <1>3, <1>4, MoveHidden DEF s, t

(* evict.                                                                  *)
LEMMA EvictKV ==
  ASSUME NEW c, Alone(c), AloneInv(c), Store' = Store, EvictRequest(c) \/ EvictAnswered(c)
  PROVE  KVStep
<1> DEFINE s == cn[c]
           t == cn'[c]
<1>1. c \in CN /\ cn \in [CN -> Process] /\ s \in Process
  BY AloneTypes
<1>2. s.pc \in EvictPcs
  BY DEF EvictRequest, EvictAnswered, EvictPcs
<1>3. s.op.kind = "evict"
  BY <1>2 DEF AloneInv, AloneOf, ClientOf, Commands
<1>4. t = [s EXCEPT !.pc = "evictReply"] \/ t = EvictFrom(s, s.idx + 1)
  BY <1>1 DEF EvictRequest, EvictAnswered
<1>5. t.pc \in {"idle"} \cup EvictPcs /\ t.op = s.op
  BY <1>1, <1>4 DEF EvictFrom, Finish, Off, EvictPcs, Process
<1> HIDE DEF t, s
<1>6. /\ CallOfCn(t) = CallOfCn(s) /\ AnsOfCn(t) = AnsOfCn(s)
      /\ Committed(t) = FALSE /\ Committed(s) = FALSE
  BY <1>2, <1>3, <1>5 DEF CallOfCn, AnsOfCn, Committed, EvictPcs
<1> QED
  BY <1>6, StepHidden DEF KVStep, s, t

(* td_cluster_read_value goes by the slot of PRIME.                        *)
LEMMA ReadSlotKV ==
  ASSUME NEW c, Alone(c), StoreInv(c), Store' = Store, NEW s, s = cn[c],
         s.pc \in {"read", "readCache"}, s.op.kind = "read",
         NEW u \in Process, u.op = s.op, u.reply = s.reply, cn'[c] = ReadPrimeSlot(u),
         Picked(u.prime, td_primary_session(s.op.key), "prime", Hash[s.op.key], Records(c))
  PROVE  KVStep
<1> DEFINE p == u.prime
           k == s.op.key
           t == ReadPrimeSlot(u)
           v == [u EXCEPT !.prop = p.slot]
<1>1. Busied(s) /\ s.reply = NoReply /\ k \in Keys
  BY AloneBusied DEF StoreInv, EvictPcs, Busied
<1>2. /\ p.found /\ ~p.slot.tomb => /\ td_slot_present(p.slot, Hash[k])
                                    /\ Store[k] = p.slot.data /\ Store[k] # Nil
      /\ ~(p.found /\ ~p.slot.tomb) => Store[k] = Nil
  BY <1>1, PickedValue
<1>3. \/ /\ ~(p.found /\ td_slot_present(p.slot, Hash[k]))
         /\ t = Finish(u, Reply("not_found", Nil, 0))
      \/ /\ p.found /\ td_slot_present(p.slot, Hash[k]) /\ CacheOn
         /\ t.pc = "refresh" /\ t.op = u.op /\ t.reply = u.reply
      \/ /\ p.found /\ td_slot_present(p.slot, Hash[k]) /\ ~CacheOn
         /\ t = Finish(v, Answer(v))
  BY ReadOutcome
<1>4. v.op = s.op /\ v.prop = p.slot
  BY DEF Process
<1>5. cn'[c] = t
  OBVIOUS
<1> HIDE DEF t, v, k, p
<1>6. p.found /\ td_slot_present(p.slot, Hash[k]) => p.found /\ ~p.slot.tomb
  BY DEF td_slot_present
<1>7. CASE t = Finish(u, Reply("not_found", Nil, 0)) /\ ~(p.found /\ td_slot_present(p.slot, Hash[k]))
  <2> DEFINE r == Reply("not_found", Nil, 0)
  <2>1. r.status = "not_found" /\ r.val = Nil
    BY DEF Reply
  <2> HIDE DEF r
  <2>2. Store[s.op.key] = Nil
    BY <1>2, <1>7 DEF k
  <2>3. cn'[c] = Finish(u, r)
    BY <1>5, <1>7 DEF r
  <2>4. KV!Next
    BY <1>1, <2>1, <2>2, <2>3, StepReads
  <2> QED
    BY <2>4 DEF KVStep
<1>8. CASE t = Finish(v, Answer(v)) /\ p.found /\ td_slot_present(p.slot, Hash[k])
  <2>1. Answer(v).status = "value" /\ Answer(v).val = p.slot.data
    BY <1>4 DEF Answer, Reply
  <2>2. Store[s.op.key] = p.slot.data /\ Store[s.op.key] # Nil
    BY <1>2, <1>6, <1>8 DEF k
  <2>3. KV!Next
    BY <1>1, <1>4, <1>5, <1>8, <2>1, <2>2, StepReads
  <2> QED
    BY <2>3 DEF KVStep
<1>9. CASE t.pc = "refresh" /\ t.op = u.op /\ t.reply = u.reply
  <2>1. Committed(t) = FALSE /\ Committed(s) = FALSE
    BY <1>9 DEF Committed
  <2>2. s.pc \notin {"off", "idle"} \cup EvictPcs /\ t.pc \notin {"off", "idle"} \cup EvictPcs
    BY <1>9 DEF EvictPcs
  <2> QED
    BY <1>5, <1>9, <2>1, <2>2, MoveHidden
<1> QED
  BY <1>3, <1>7, <1>8, <1>9

(* The probe of PRIME returns to td_cluster_read_value.                    *)
LEMMA ReadPrimeKV ==
  ASSUME NEW c, Alone(c), StoreInv(c), Store' = Store, ReadPrime(c)
  PROVE  KVStep
<1> DEFINE s == cn[c]
           n == td_primary_session(s.op.key)
<1>1. AloneInv(c) /\ c \in CN /\ cn \in [CN -> Process] /\ s \in Process
  BY AloneTypes DEF StoreInv
<1>2. PICK r \in ProbeRecord :
          /\ s.pc = "read" /\ s.op.kind = "read" /\ s.op.key \in Keys
          /\ r.ok => Picked(r, n, "prime", Hash[s.op.key], Records(c))
          /\ ~r.ok => Absent(Records(c), n, "prime", Hash[s.op.key])
          /\ cn' = [cn EXCEPT ![c] = IF ~r.ok THEN Finish([s EXCEPT !.prime = r], Error)
                                     ELSE IF CacheOn THEN Probe([s EXCEPT !.prime = r], "readCache")
                                     ELSE ReadPrimeSlot([s EXCEPT !.prime = r])]
  BY <1>1, ReadPrimeReturns, Zenon
<1> DEFINE u == [s EXCEPT !.prime = r]
<1>3. u \in Process /\ u.op = s.op /\ u.reply = s.reply /\ u.prime = r
  BY <1>1, <1>2 DEF Process
<1>4. Busied(s)
  BY <1>1, <1>2, AloneBusied DEF EvictPcs
<1> HIDE DEF u
<1>5. cn'[c] = IF ~r.ok THEN Finish(u, Error)
               ELSE IF CacheOn THEN Probe(u, "readCache") ELSE ReadPrimeSlot(u)
  BY <1>1, <1>2 DEF u
<1>6. CASE ~r.ok
  <2>1. Store[s.op.key] = Nil
    BY <1>2, <1>6 DEF StoreInv, StoreRight
  <2>2. ~Committed(s) /\ cn'[c] = Finish(u, Error)
    BY <1>2, <1>5, <1>6 DEF Committed
  <2>3. KV!Next
    BY <1>3, <1>4, <2>1, <2>2, StepRefuses
  <2> QED
    BY <2>3 DEF KVStep
<1>7. CASE r.ok /\ CacheOn
  <2> DEFINE t == Probe(u, "readCache")
  <2>1. t.pc = "readCache" /\ t.op = s.op /\ t.reply = s.reply
    BY <1>3 DEF Probe, Process
  <2>2. cn'[c] = t
    BY <1>5, <1>7
  <2> HIDE DEF t
  <2>3. /\ Committed(t) = FALSE /\ Committed(s) = FALSE
        /\ s.pc \notin {"off", "idle"} \cup EvictPcs /\ t.pc \notin {"off", "idle"} \cup EvictPcs
    BY <1>2, <2>1 DEF Committed, EvictPcs
  <2> QED
    BY <2>1, <2>2, <2>3, MoveHidden
<1>8. CASE r.ok /\ ~CacheOn
  <2>1. Picked(u.prime, n, "prime", Hash[s.op.key], Records(c))
    BY <1>2, <1>3, <1>8
  <2>2. cn'[c] = ReadPrimeSlot(u) /\ s.pc \in {"read", "readCache"}
    BY <1>2, <1>5, <1>8
  <2> QED
    BY <1>2, <1>3, <2>1, <2>2, ReadSlotKV
<1> QED
  BY <1>6, <1>7, <1>8

(* While no key is deleted, an entry of the cache with the epochs of the   *)
(* slot of PRIME has its value.                                            *)
LEMMA HitIsCurrent ==
  ASSUME NEW c, Alone(c), StoreInv(c), NEW k \in Keys, NEW p,
         "delete" \notin OpKinds \/ (MirrorOf(c) /\ cn[c].pc \notin RefreshSteps),
         Picked(p, td_primary_session(k), "prime", Hash[k], Records(c)), p.found,
         NEW e \in AddrOf({"cache"}), e[1] = td_primary_session(k), Matches(mem[e], Hash[k]),
         mem[e].visible = p.slot.visible, ~mem[e].tomb
  PROVE  Store[k] = mem[e].data /\ Store[k] # Nil
<1> DEFINE n == td_primary_session(k)
           m == Records(c)
           a == <<n, "prime", p.at>>
<1>1. AloneInv(c) /\ Tidy(m) /\ CachesOlder(m) /\ mem[e] \in Slot
  BY AloneTypes DEF StoreInv, AloneInv, AloneOf, AddrOf
<1>2. a \in RecordAddr /\ m[a] = p.slot /\ RecordOf(m[a], Hash[k]) /\ a[1] = n /\ a[2] = "prime"
  BY DEF Picked
<1> HIDE DEF a, m
<1>3. mem[e].valid /\ mem[e].hash = Hash[k]
  BY DEF Matches
<1>4. PICK b \in Region(n, "prime") :
              /\ RecordOf(m[b], Hash[k])
              /\ mem[e].visible = m[b].visible => [mem[e] EXCEPT !.guard = m[b].guard] = m[b]
  <2>1. CASE "delete" \notin OpKinds
    BY <1>1, <1>3, <2>1 DEF CachesOlder, CacheOlder
  <2>2. CASE MirrorOf(c) /\ cn[c].pc \notin RefreshSteps
    <3>1. ~Pending(cn[c], e) /\ e \in CacheAddr
      BY <2>2 DEF Pending, CacheAddr
    <3> QED
      BY <1>1, <1>3, <2>2, <3>1, MirroredRecord DEF m
  <2> QED
    BY <2>1, <2>2
<1>5. b = a
  <2>1. b \in RecordAddr /\ b[1] = n /\ b[2] = "prime"
    BY RegionRecord DEF RecordKinds
  <2>2. m[a].valid /\ m[a].hash = Hash[k]
    BY <1>2 DEF RecordOf
  <2> QED
    BY <1>1, <1>2, <1>4, <2>1, <2>2 DEF Tidy
<1>6. m[a].data = mem[e].data /\ m[a].tomb = mem[e].tomb
  <2>1. [mem[e] EXCEPT !.guard = m[a].guard] = m[a]
    BY <1>2, <1>4, <1>5
  <2> QED
    BY <1>1, <2>1 DEF Slot
<1>7. LiveOf(m[a], Hash[k]) /\ a \in Region(n, "prime")
  BY <1>2, <1>4, <1>5, <1>6 DEF LiveOf
<1> QED
  BY <1>6, <1>7, HasValue DEF m

(* The probe of CACHE returns to td_cluster_read_value.                    *)
LEMMA ReadCacheKV ==
  ASSUME NEW c, Alone(c), StoreInv(c), Store' = Store, ReadCache(c),
         CacheOn => "delete" \notin OpKinds \/ MirrorOf(c)
  PROVE  KVStep
<1> DEFINE s == cn[c]
           n == td_primary_session(s.op.key)
<1>1. AloneInv(c) /\ c \in CN /\ cn \in [CN -> Process] /\ s \in Process
  BY AloneTypes DEF StoreInv
<1>2. PICK r \in ProbeRecord :
          /\ s.pc = "readCache" /\ s.op.kind = "read" /\ s.op.key \in Keys
          /\ r.found => /\ Matches(r.slot, Hash[s.op.key])
                        /\ \E e \in AddrOf({"cache"}) : e[1] = n /\ r.slot = mem[e]
          /\ cn' = [cn EXCEPT ![c] = IF r.ok /\ CacheConsistent(s, r)
                                     THEN Finish(s, Reply("value", r.slot.data, 0))
                                     ELSE ReadPrimeSlot(s)]
  BY <1>1, ReadCacheReturns, Zenon
<1>3. Picked(s.prime, n, "prime", Hash[s.op.key], Records(c)) /\ CacheOn
  BY <1>1, <1>2 DEF AloneInv, AloneOf, ClientOf, Answering, Commands, CachePcs
<1>4. cn'[c] = IF r.ok /\ CacheConsistent(s, r)
               THEN Finish(s, Reply("value", r.slot.data, 0)) ELSE ReadPrimeSlot(s)
  BY <1>1, <1>2
<1>5. CASE r.ok /\ CacheConsistent(s, r)
  <2>1. /\ r.found /\ s.prime.found /\ r.slot.visible = s.prime.slot.visible
        /\ ~r.slot.tomb
    BY <1>5 DEF CacheConsistent, td_slot_present
  <2>2. PICK e \in AddrOf({"cache"}) : e[1] = n /\ r.slot = mem[e]
    BY <1>2, <2>1
  <2>3. Matches(mem[e], Hash[s.op.key]) /\ mem[e].visible = s.prime.slot.visible /\ ~mem[e].tomb
    BY <1>2, <2>1, <2>2
  <2>4. Store[s.op.key] = r.slot.data /\ Store[s.op.key] # Nil
    BY <1>2, <1>3, <2>1, <2>2, <2>3, HitIsCurrent DEF RefreshSteps
  <2>5. Busied(s)
    BY <1>1, <1>2, AloneBusied DEF EvictPcs
  <2> DEFINE q == Reply("value", r.slot.data, 0)
  <2>6. q.status = "value" /\ q.val = r.slot.data
    BY DEF Reply
  <2>7. cn'[c] = Finish(s, q)
    BY <1>4, <1>5
  <2> HIDE DEF q
  <2>8. KV!Next
    BY <1>2, <2>4, <2>5, <2>6, <2>7, StepReads
  <2> QED
    BY <2>8 DEF KVStep
<1>6. CASE ~(r.ok /\ CacheConsistent(s, r))
  <2>1. cn'[c] = ReadPrimeSlot(s) /\ s.pc \in {"read", "readCache"}
    BY <1>2, <1>4, <1>6
  <2> QED
    BY <1>1, <1>2, <1>3, <2>1, ReadSlotKV
<1> QED
  BY <1>5, <1>6

(* The first probe of td_cluster_write_value returns.                      *)
LEMMA WritePrimeKV ==
  ASSUME NEW c, Alone(c), StoreInv(c), Store' = Store, WritePrime(c)
  PROVE  KVStep
<1> DEFINE s == cn[c]
           n == td_primary_session(s.op.key)
           k == s.op.key
<1>1. AloneInv(c) /\ c \in CN /\ cn \in [CN -> Process] /\ s \in Process
  BY AloneTypes DEF StoreInv
<1>2. PICK r \in ProbeRecord :
          /\ s.pc = "write" /\ s.op.kind \in Mutating /\ s.op.key \in Keys /\ r.slot.guard < MaxEpoch
          /\ r.ok => Picked(r, n, "prime", Hash[s.op.key], Records(c))
          /\ ~r.ok => Absent(Records(c), n, "prime", Hash[s.op.key])
          /\ cn' = [cn EXCEPT ![c] = IF WriteAllowed(s, r)
                                     THEN BackupFrom(Propose(s, r), 1)
                                     ELSE Finish(s, Error)]
  BY <1>1, WritePrimeReturns, Zenon
<1>3. Busied(s) /\ s.reply = NoReply
  BY <1>1, <1>2, AloneBusied DEF EvictPcs
<1>4. CASE ~WriteAllowed(s, r)
  <2>1. Store[k] = Nil \/ s.op.val \in TooLong
    <3>1. CASE ~r.ok
      BY <1>2, <3>1 DEF StoreInv, StoreRight
    <3>2. CASE r.ok /\ s.op.val \notin TooLong
      <4>1. ~(r.found /\ ~r.slot.tomb /\ td_slot_present(r.slot, Hash[k]))
        BY <1>4, <3>2 DEF WriteAllowed
      <4>2. ~(r.found /\ ~r.slot.tomb)
        BY <1>2, <3>2, <4>1, PickedValue
      <4> QED
        BY <1>2, <3>2, <4>2, PickedValue
    <3> QED
      BY <3>1, <3>2
  <2>2. ~Committed(s) /\ cn'[c] = Finish(s, Error)
    BY <1>1, <1>2, <1>4 DEF Committed
  <2>3. KV!Next
    BY <1>3, <2>1, <2>2, StepRefuses
  <2> QED
    BY <2>3 DEF KVStep
<1>5. CASE WriteAllowed(s, r)
  <2> DEFINE u == Propose(s, r)
             t == BackupFrom(u, 1)
  <2>1. u.op = s.op /\ u.reply = s.reply /\ u.votes = s.votes
    BY <1>1 DEF Propose, Process
  <2>2. cn'[c] = t
    BY <1>1, <1>2, <1>5
  <2>3. u \in Process
    BY <1>1, <1>2, ProposeType
  <2> HIDE DEF u
  <2>4. \A i \in Backups : i < 1 => u.votes[i].success
    BY DEF Backups
  <2>5. t.op = u.op /\ t.reply = u.reply /\ t.pc \in {"backup", "primeBody"}
    BY <2>3, <2>4, NextBackup
  <2> HIDE DEF t
  <2>6. /\ Committed(t) = FALSE /\ Committed(s) = FALSE
        /\ s.pc \notin {"off", "idle"} \cup EvictPcs /\ t.pc \notin {"off", "idle"} \cup EvictPcs
    BY <1>2, <2>5 DEF Committed, EvictPcs
  <2> QED
    BY <2>1, <2>2, <2>5, <2>6, MoveHidden
<1> QED
  BY <1>4, <1>5

(* A backup has been probed, or has no room: then the key has no value.    *)
LEMMA BackupProbeKV ==
  ASSUME NEW c, Alone(c), StoreInv(c), Store' = Store, BackupProbe(c)
  PROVE  KVStep
<1> DEFINE s == cn[c]
           n == td_primary_session(s.op.key)
<1>1. AloneInv(c) /\ c \in CN /\ cn \in [CN -> Process] /\ s \in Process
  BY AloneTypes DEF StoreInv
<1>2. PICK r \in ProbeRecord :
          /\ s.pc = "backup" /\ s.op.key \in Keys
          /\ ~r.ok => \A a \in Region(n, "prime") : ~LiveOf(Records(c)[a], Hash[s.op.key])
          /\ cn' = [cn EXCEPT ![c] = IF r.ok THEN [s EXCEPT !.pc = "backupBody", !.probe = r]
                                             ELSE Finish(s, Error)]
  BY <1>1, BackupProbeReturns, Zenon
<1>3. Busied(s)
  BY <1>1, <1>2, AloneBusied DEF EvictPcs
<1>4. CASE ~r.ok
  <2>1. Store[s.op.key] = Nil
    BY <1>2, <1>4, NoValue
  <2>2. ~Committed(s) /\ cn'[c] = Finish(s, Error)
    BY <1>1, <1>2, <1>4 DEF Committed
  <2>3. KV!Next
    BY <1>3, <2>1, <2>2, StepRefuses
  <2> QED
    BY <2>3 DEF KVStep
<1>5. CASE r.ok
  <2> DEFINE t == [s EXCEPT !.pc = "backupBody", !.probe = r]
  <2>1. t.op = s.op /\ t.reply = s.reply /\ t.pc = "backupBody"
    BY <1>1 DEF Process
  <2>2. cn'[c] = t
    BY <1>1, <1>2, <1>5
  <2> HIDE DEF t
  <2>3. /\ Committed(t) = FALSE /\ Committed(s) = FALSE
        /\ s.pc \notin {"off", "idle"} \cup EvictPcs /\ t.pc \notin {"off", "idle"} \cup EvictPcs
    BY <1>2, <2>1 DEF Committed, EvictPcs
  <2> QED
    BY <2>1, <2>2, <2>3, MoveHidden
<1> QED
  BY <1>4, <1>5

(* A backup accepts: PRIME is as it was.                                   *)
LEMMA BackupCommitKV ==
  ASSUME NEW c, Alone(c), StoreInv(c), StoreInv(c)', BackupCommit(c)
  PROVE  KVStep
<1> DEFINE s == cn[c]
           t == cn'[c]
<1>1. AloneInv(c) /\ ChainInv'
  BY DEF StoreInv, AloneInv
<1>2. /\ Written(Records(c), Records(c)', Dest(s), s.prop) /\ Dest(s)[2] = "backup"
      /\ t.pc \in ProposingPcs /\ t.op = s.op /\ t.reply = s.reply
  BY <1>1, BackupCommitAlone
<1>3. \A a \in RecordAddr : a[2] = "prime" => Records(c)'[a] = Records(c)[a]
  BY <1>2 DEF Written
<1>4. Store' = Store
  BY <1>3, StoreKept
<1>5. s.pc \in ProposingPcs
  BY DEF BackupCommit, ProposingPcs
<1>6. /\ Committed(t) = FALSE /\ Committed(s) = FALSE
      /\ s.pc \notin {"off", "idle"} \cup EvictPcs /\ t.pc \notin {"off", "idle"} \cup EvictPcs
  BY <1>2, <1>5 DEF Committed, EvictPcs, ProposingPcs
<1> HIDE DEF s, t
<1>7. s = cn[c] /\ t = cn'[c]
  BY DEF s, t
<1> QED
  BY <1>2, <1>4, <1>6, <1>7, MoveHidden

(* The primary commit is the effect of the command.                        *)
LEMMA PrimeCommitKV ==
  ASSUME NEW c, Alone(c), StoreInv(c), StoreInv(c)', PrimeCommit(c)
  PROVE  KVStep
<1> DEFINE s == cn[c]
           t == cn'[c]
           k == s.op.key
<1>1. AloneInv(c) /\ ChainInv'
  BY DEF StoreInv, AloneInv
<1>2. /\ Written(Records(c), Records(c)', Dest(s), s.prop)
      /\ \/ t.pc = "refresh" /\ t.op = s.op /\ t.reply = s.reply
         \/ t = Finish(s, Answer(s))
  BY <1>1, PrimeCommitAlone
<1>3. s.pc = "primeCas"
  BY <1>1, PrimeCommitReturns
<1>4. Busied(s) /\ s.op.key \in Keys
  BY <1>1, <1>3, AloneBusied DEF EvictPcs, Busied
<1>5. s.op.kind \in Mutating
  BY <1>1, <1>3, ProposalSlot DEF ProposingPcs
<1>6. /\ Picked(s.prime, td_primary_session(k), "prime", Hash[k], Records(c))
      /\ s.op.val \notin TooLong
      /\ s.op.kind = "update" => LiveOf(s.prime.slot, Hash[k])
  BY <1>1, <1>3 DEF AloneInv, AloneOf, ClientOf, Proposal, ProposingPcs
<1>7. s.op.kind = "update" => Store[k] # Nil
  <2> SUFFICES ASSUME s.op.kind = "update" PROVE Store[k] # Nil
    OBVIOUS
  <2> DEFINE a == <<td_primary_session(k), "prime", s.prime.at>>
  <2>1. a \in RecordAddr /\ Records(c)[a] = s.prime.slot
    BY <1>6 DEF Picked
  <2>2. a \in Region(td_primary_session(k), "prime")
    BY <2>1, AddrParts
  <2> QED
    BY <1>4, <1>6, <2>1, <2>2, HasValue
<1>8. Store' = [l \in Keys |-> IF Hash[l] = Hash[s.op.key] THEN s.op.val ELSE Store[l]]
  BY <1>2, <1>3, StoreCommitted
<1>9. KV!Next
  BY <1>2, <1>3, <1>4, <1>5, <1>6, <1>7, <1>8, StepTakesEffect
<1> QED
  BY <1>9 DEF KVStep

(* The refresh of the cache, after which the command answers.              *)
LEMMA RefreshKV ==
  ASSUME NEW c, Alone(c), StoreInv(c), Store' = Store, RefreshProbe(c) \/ RefreshCommit(c)
  PROVE  KVStep
<1> DEFINE s == cn[c]
           t == cn'[c]
           k == s.op.key
<1>1. AloneInv(c) /\ c \in CN /\ cn \in [CN -> Process] /\ s \in Process
  BY AloneTypes DEF StoreInv
<1>2. /\ s.pc \in RefreshSteps
      /\ \/ s.pc = "refresh" /\ \E r : t = [s EXCEPT !.pc = "refreshBody", !.probe = r]
         \/ t = Finish(s, Answer(s))
  <2>1. CASE RefreshProbe(c)
    <3>1. /\ s.pc = "refresh"
          /\ \/ \E r : cn' = [cn EXCEPT ![c] = [s EXCEPT !.pc = "refreshBody", !.probe = r]]
             \/ cn' = [cn EXCEPT ![c] = Finish(s, Answer(s))]
      BY <1>1, <2>1, RefreshProbeReturns
    <3>2. CASE \E r : cn' = [cn EXCEPT ![c] = [s EXCEPT !.pc = "refreshBody", !.probe = r]]
      <4>1. PICK r : cn' = [cn EXCEPT ![c] = [s EXCEPT !.pc = "refreshBody", !.probe = r]]
        BY <3>2
      <4>2. t = [s EXCEPT !.pc = "refreshBody", !.probe = r]
        BY <1>1, <4>1
      <4> QED
        BY <3>1, <4>2 DEF RefreshSteps
    <3>3. CASE cn' = [cn EXCEPT ![c] = Finish(s, Answer(s))]
      BY <1>1, <3>1, <3>3 DEF RefreshSteps
    <3> QED
      BY <3>1, <3>2, <3>3
  <2>2. CASE RefreshCommit(c)
    BY <1>1, <2>2, RefreshCommitReturns DEF RefreshSteps
  <2> QED
    BY <2>1, <2>2
<1>3. Busied(s) /\ k \in Keys
  BY <1>1, <1>2, AloneBusied DEF EvictPcs, Busied, RefreshSteps
<1>4. CASE \E r : t = [s EXCEPT !.pc = "refreshBody", !.probe = r]
  <2>1. t.op = s.op /\ t.reply = s.reply /\ t.pc = "refreshBody"
    BY <1>1, <1>4 DEF Process
  <2> HIDE DEF t, s
  <2>2. /\ Committed(t) = Committed(s)
        /\ s.pc \notin {"off", "idle"} \cup EvictPcs /\ t.pc \notin {"off", "idle"} \cup EvictPcs
    BY <1>2, <2>1 DEF Committed, EvictPcs, RefreshSteps
  <2> QED
    BY <2>1, <2>2, MoveHidden DEF s, t
<1>5. CASE t = Finish(s, Answer(s)) /\ s.op.kind = "read"
  <2>1. /\ RecordOf(s.prop, Hash[k]) /\ ~s.prop.tomb
        /\ \E a \in Region(td_primary_session(k), "prime") : Records(c)[a] = s.prop
    BY <1>1, <1>2, <1>5 DEF AloneInv, AloneOf, ClientOf, Answering
  <2>2. PICK a \in Region(td_primary_session(k), "prime") : Records(c)[a] = s.prop
    BY <2>1
  <2>3. Store[k] = s.prop.data /\ Store[k] # Nil
    BY <1>3, <2>1, <2>2, HasValue DEF LiveOf
  <2>4. Answer(s).status = "value" /\ Answer(s).val = s.prop.data
    BY <1>5 DEF Answer, Reply
  <2>5. KV!Next
    BY <1>3, <1>5, <2>3, <2>4, StepReads
  <2> QED
    BY <2>5 DEF KVStep
<1>6. CASE t = Finish(s, Answer(s)) /\ s.op.kind # "read"
  <2>1. s.op.kind \in Mutating
    BY <1>3, <1>6, BusiedCall
  <2>2. Committed(s)
    BY <1>2, <2>1 DEF Committed, Mutating, RefreshSteps
  <2>3. Answer(s).status = "ok" /\ Answer(s).val = Nil
    BY <1>6 DEF Answer, Reply
  <2>4. KV!Next
    BY <1>3, <1>6, <2>2, <2>3, StepAcknowledges
  <2> QED
    BY <2>4 DEF KVStep
<1> QED
  BY <1>2, <1>4, <1>5, <1>6

(* Every step is a step of the store.                                      *)
LEMMA StepIsKVStep ==
  ASSUME NEW c, Alone(c)
  PROVE  /\ CacheOn => "delete" \notin OpKinds \/ MirrorOf(c)
         /\ StoreInv(c) /\ StoreInv(c)' /\ [Next]_vars
         => KVStep
<1> SUFFICES ASSUME CacheOn => "delete" \notin OpKinds \/ MirrorOf(c),
                    StoreInv(c), StoreInv(c)', [Next]_vars
             PROVE  KVStep
  OBVIOUS
<1>1. AloneInv(c)
  BY DEF StoreInv
<1>2. CASE BackupCommit(c)
  BY <1>2, BackupCommitKV
<1>3. CASE PrimeCommit(c)
  BY <1>3, PrimeCommitKV
<1>4. CASE ~BackupCommit(c) /\ ~PrimeCommit(c)
  <2>1. Store' = Store
    <3>1. Records(c)' = Records(c)
      BY <1>1, <1>4, RecordsKept
    <3> QED
      BY <3>1, StoreKept
  <2>2. ASSUME cn' = cn PROVE KVStep
    BY <2>1, <2>2, StepHidden DEF KVStep
  <2>3. CASE UNCHANGED vars
    BY <2>2, <2>3 DEF vars
  <2>4. CASE Connect(c) \/ Quit(c)
    BY <1>1, <2>1, <2>4, SessionKV
  <2>5. CASE Scan(c) \/ WriteBody(c)
    BY <1>1, <2>1, <2>5, InnerKV
  <2>6. CASE \E o \in Requests : o.kind \in OpKinds /\ Begin(c, o)
    BY <1>1, <2>1, <2>6, BeginKV
  <2>7. CASE ReadPrime(c)
    BY <2>1, <2>7, ReadPrimeKV
  <2>8. CASE ReadCache(c)
    BY <2>1, <2>8, ReadCacheKV
  <2>9. CASE WritePrime(c)
    BY <2>1, <2>9, WritePrimeKV
  <2>10. CASE BackupProbe(c)
    BY <2>1, <2>10, BackupProbeKV
  <2>11. CASE RefreshProbe(c) \/ RefreshCommit(c)
    BY <2>1, <2>11, RefreshKV
  <2>12. CASE EvictRequest(c) \/ EvictAnswered(c)
    BY <1>1, <2>1, <2>12, EvictKV
  <2>13. CASE \E n \in Nodes : NodeNext(n)
    BY <1>1, <2>2, <2>13, NodeAlone
  <2> QED
    BY <1>1, <1>4, <2>3, <2>4, <2>5, <2>6, <2>7, <2>8, <2>9, <2>10, <2>11, <2>12, <2>13,
       AloneSteps
<1> QED
  BY <1>2, <1>3, <1>4

(* An empty cluster is an empty store.                                     *)
LEMMA InitIsKVInit ==
  ASSUME NEW c, Alone(c)
  PROVE  Init => KV!Init
<1> SUFFICES ASSUME Init PROVE KV!Init
  OBVIOUS
<1>1. AloneInv(c) /\ StoreRight(c)
  BY InitAlone, StoreIsRight
<1>2. CN = {c} /\ cn[c] = Off
  BY DEF Init, Alone
<1>3. \A a \in RecordAddr : ~Records(c)[a].valid
  BY <1>2 DEF Init, Records, Off, CasPcs, BodyPcs, CasOf, RecordAddr, AddrOf, EmptySlot
<1>4. Store = [k \in Keys |-> Nil]
  <2>1. ASSUME NEW k \in Keys PROVE Store[k] = Nil
    <3>1. Absent(Records(c), td_primary_session(k), "prime", Hash[k])
      BY <1>3, RegionRecord DEF Absent, RecordOf, RecordKinds
    <3> QED
      BY <1>1, <3>1 DEF StoreRight
  <2>2. Store = [k \in Keys |-> Store[k]]
    BY DEF Store
  <2> QED
    BY <2>1, <2>2
<1>5. Off.pc = "off" /\ Off.op = NoOp /\ Off.reply = NoReply
  BY DEF Off
<1>6. UnderWay = [d \in CN |-> NoOp]
  BY <1>2, <1>5 DEF UnderWay
<1>7. Done = [d \in CN |-> FALSE]
  BY <1>2, <1>5 DEF Done, Committed
<1>8. Answers = [d \in CN |-> KV!NoAnswer]
  BY <1>2, <1>5 DEF Answers, KV!NoAnswer, KV!Answer, NoReply, Reply
<1> QED
  BY <1>4, <1>6, <1>7, <1>8 DEF KV!Init

(* A client alone on the cluster, with nothing broken, gets from read,     *)
(* write, update and delete what a map would give it, for any number of    *)
(* memory nodes, replicas, keys that share hashes or slots, and commands:  *)
(* td_cluster_read_value and td_cluster_write_value implement KVStore.     *)
(* With the cache on this needs that no key is ever deleted, or that       *)
(* eviction_threshold_pct is above 100, so that nothing is ever evicted:   *)
(* run stale shows a deleted value that is read again after an eviction.   *)
THEOREM ClusterImplementsKV ==
  ASSUME NEW c, Alone(c), CacheOn => "delete" \notin OpKinds \/ EvictPct > 100
  PROVE  Spec => ImplementsKV
<1>1. Init => KV!Init
  BY InitIsKVInit
<1>2. Spec => []MirrorInv(c)
  BY AlwaysMirror
<1>3. MirrorInv(c) => StoreInv(c) /\ (CacheOn => "delete" \notin OpKinds \/ MirrorOf(c))
  BY StoreIsRight DEF MirrorInv, StoreInv
<1>4. /\ StoreInv(c) /\ (CacheOn => "delete" \notin OpKinds \/ MirrorOf(c))
      /\ StoreInv(c)' /\ [Next]_vars
      => [KV!Next]_(KV!kvVars)
  BY StepIsKVStep DEF KVStep
<1>5. MirrorInv(c) /\ MirrorInv(c)' /\ [Next]_vars => [KV!Next]_(KV!kvVars)
  <2>1. MirrorInv(c)' => StoreInv(c)'
    BY <1>3, PTL
  <2> QED
    BY <1>3, <1>4, <2>1
<1> QED
  BY <1>1, <1>2, <1>5, PTL DEF Spec, ImplementsKV, KV!Spec
=============================================================================
