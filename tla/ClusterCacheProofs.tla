-------------------------- MODULE ClusterCacheProofs --------------------------
(***************************************************************************)
(* Proofs about CACHE slots: no entry carries an epoch that PRIME has not  *)
(* reached, and an eviction thread that has the cache to itself always     *)
(* finds the slots it set out to clear.  Client steps are taken by their   *)
(* shapes (ClusterChainProofs).                                            *)
(***************************************************************************)
EXTENDS ClusterChainProofs

(***************************************************************************)
(* What a command knows of the PRIME slot it will put into the cache.      *)
(***************************************************************************)

(* Epochs of PRIME on node n do not go back from memory m to m2.           *)
PrimeGrows(n, m, m2) ==
    \A b \in PrimeAddr : b[1] = n =>
        /\ m[b].guard \in Nat /\ m2[b].guard \in Nat /\ m[b].guard <= m2[b].guard

(* The candidate of the first probe of a read is a slot of the primary,    *)
(* and its epoch was read from there.                                      *)
LEMMA ReadProbeEpoch ==
  ASSUME TypeInv, NEW c \in CN, cn[c].pc = "read", Count(cn[c]) > 0,
         CacheOf(cn[c], mem, link[c]),
         link[c][td_primary_session(cn[c].op.key)], Examined(c).ok
  PROVE  KnownEpoch(cn[c], Examined(c), mem)
<1> DEFINE s == cn[c]
           n == td_primary_session(s.op.key)
           a == <<n, "prime", FetchAt(c)>>
<1>1. s.pc \in ProbePcs
  BY DEF ProbePcs
<1>2. Node(s) = n /\ Kind(s) = "prime"
  BY DEF Node, Kind, EvictPcs, BackupPcs, CachePcs
<1>3. a \in Addr /\ Fetched(c) = mem[a]
  BY <1>1, <1>2, ExaminedType DEF Fetched
<1>4. mem[a].guard \in Nat
  BY <1>3, EpochTypes
<1>5. CASE Examined(c).at = FetchAt(c) /\ Examined(c).slot = Fetched(c)
  BY <1>3, <1>4, <1>5 DEF KnownEpoch
<1>6. CASE /\ s.probe.ok /\ Examined(c).at = s.probe.at
           /\ Examined(c).slot = s.probe.slot
  <2>1. KnownEpoch(s, s.probe, mem)
    BY <1>6 DEF CacheOf
  <2> QED
    BY <1>6, <2>1 DEF KnownEpoch
<1> QED
  BY <1>1, <1>5, <1>6, ExaminedCases

(* What a process knows stays true while epochs advance on the nodes it    *)
(* has a session with.                                                     *)
LEMMA CacheMono ==
  ASSUME NEW s \in Process, WellFormed(s), NEW m, NEW m2, NEW up, NEW up2,
         \A n \in Nodes : up2[n] => up[n] /\ PrimeGrows(n, m, m2),
         CacheOf(s, m, up)
  PROVE  CacheOf(s, m2, up2)
<1> DEFINE n == td_primary_session(s.op.key)
<1>1. ASSUME s.pc \in CommittedPcs \cup {"read", "readCache"}, up2[n]
      PROVE  up[n] /\ PrimeGrows(n, m, m2)
  <2>1. s.pc \in KeyedPcs
    BY <1>1 DEF CommittedPcs, KeyedPcs, PrimePcs, CachePcs, BackupPcs
  <2>2. n \in Nodes
    BY <2>1, SessionType DEF WellFormed
  <2> QED
    BY <1>1, <2>2
<1>2. \A i : <<n, "prime", i>> \in Addr => /\ <<n, "prime", i>> \in PrimeAddr
                                           /\ <<n, "prime", i>>[1] = n
  BY DEF PrimeAddr, AddrOf
<1>3. s.probe.slot.guard \in Nat /\ s.prime.slot.guard \in Nat /\ s.prop.visible \in Nat
  BY BoundsAssumption DEF Process, ProbeRecord, Slot, Epochs
<1>4. ASSUME NEW p, p.slot.guard \in Nat, PrimeGrows(n, m, m2), KnownEpoch(s, p, m)
      PROVE  KnownEpoch(s, p, m2)
  BY <1>2, <1>4 DEF KnownEpoch, PrimeGrows
<1>5. s.pc = "read" /\ s.probe.ok /\ up2[n] => KnownEpoch(s, s.probe, m2)
  BY <1>1, <1>3, <1>4 DEF CacheOf
<1>6. s.pc = "readCache" /\ up2[n] => KnownEpoch(s, s.prime, m2)
  BY <1>1, <1>3, <1>4 DEF CacheOf
<1>7. ASSUME s.pc \in CommittedPcs, up2[n]
      PROVE  PrimeDest(s) \in Addr /\ s.prop.visible <= m2[PrimeDest(s)].guard
  <2>1. PrimeDest(s) \in Addr /\ s.prop.visible <= m[PrimeDest(s)].guard
    BY <1>1, <1>7 DEF CacheOf
  <2>2. PrimeDest(s) = <<n, "prime", s.prime.at>>
    BY DEF PrimeDest
  <2>3. PrimeDest(s) \in PrimeAddr /\ PrimeDest(s)[1] = n
    BY <1>2, <2>1, <2>2
  <2> QED
    BY <1>1, <1>3, <1>7, <2>1, <2>3 DEF PrimeGrows
<1> QED
  BY <1>5, <1>6, <1>7 DEF CacheOf

(* A process past neither probe nor commit knows nothing.                  *)
LEMMA CacheQuiet ==
  ASSUME NEW t, t.pc \notin CommittedPcs \cup {"readCache"}, t.pc = "read" => ~t.probe.ok,
         NEW m, NEW up
  PROVE  CacheOf(t, m, up)
  BY DEF CacheOf

(* The step of a command keeps what it knows, memory aside, unless it has  *)
(* just committed.                                                         *)
LEMMA CacheKept ==
  ASSUME TypeInv, NEW c \in CN, NEW t, CacheOf(cn[c], mem, link[c]), Shape(c, t)
  PROVE  \/ CacheOf(t, mem, link[c])
         \/ /\ cn[c].pc \in {"primeBody", "primeCas"} /\ CommitReturns(c, TRUE)
            /\ t.pc \in {"repair", "refresh"} /\ Same(cn[c], t)
<1> DEFINE s == cn[c]
           up == link[c]
           n == td_primary_session(s.op.key)
<1>1. ~ProbeStart.ok
  BY DEF ProbeStart
<1>2. CASE RestShape(t) \/ EvictingShape(c, t) \/ StartShape(t)
  <2>1. /\ t.pc \in {"off", "idle", "evict", "evictReply", "read", "write"}
        /\ t.pc = "read" => ~t.probe.ok
    BY <1>1, <1>2 DEF RestShape, EvictingShape, StartShape, EvictPcs, Fresh
  <2> QED
    BY <2>1, CacheQuiet DEF CommittedPcs
<1>3. CASE ScanShape(c, t)
  <2>1. /\ t.pc = s.pc /\ t.op = s.op /\ t.prime = s.prime /\ t.prop = s.prop
        /\ t.probe = Examined(c) /\ Count(s) > 0
    BY <1>3 DEF ScanShape, Same
  <2>2. t.pc = "read" /\ t.probe.ok /\ up[n] => KnownEpoch(t, t.probe, mem)
    BY <2>1, ReadProbeEpoch DEF KnownEpoch
  <2>3. t.pc = "readCache" /\ up[n] => KnownEpoch(t, t.prime, mem)
    BY <2>1 DEF CacheOf, KnownEpoch
  <2> QED
    BY <2>1, <2>2, <2>3 DEF CacheOf, PrimeDest
<1>4. ASSUME NEW r, ReadShapeOf(c, t, r) PROVE CacheOf(t, mem, up)
  <2>1. /\ s.pc = "read" /\ Count(s) > 0 /\ r = Examined(c) /\ r.ok
        /\ t.op = s.op /\ t.prime = r
        /\ \/ t.pc = "readCache"
           \/ /\ t.pc = "refresh" /\ t.prop = r.slot
              /\ r.slot.guard = r.slot.visible
    BY <1>4 DEF ReadShapeOf, Returned, td_slot_present, Torn
  <2>2. up[n] => KnownEpoch(s, r, mem)
    BY <2>1, ReadProbeEpoch
  <2>3. up[n] => KnownEpoch(t, t.prime, mem)
    BY <2>1, <2>2 DEF KnownEpoch
  <2>4. t.pc = "refresh" /\ up[n]
        => PrimeDest(t) \in Addr /\ t.prop.visible <= mem[PrimeDest(t)].guard
    BY <2>1, <2>3 DEF KnownEpoch, PrimeDest
  <2> QED
    BY <2>1, <2>3, <2>4 DEF CacheOf, CommittedPcs
<1>5. CASE MissShape(c, t)
  <2>1. /\ s.pc = "readCache" /\ t.pc = "refresh" /\ t.op = s.op
        /\ t.prime = s.prime /\ t.prop = s.prime.slot
        /\ t.prop.guard = t.prop.visible
    BY <1>5 DEF MissShape, td_slot_present, Torn
  <2>2. up[n] => KnownEpoch(s, s.prime, mem)
    BY <2>1 DEF CacheOf
  <2>3. up[n] => PrimeDest(t) \in Addr /\ t.prop.visible <= mem[PrimeDest(t)].guard
    BY <2>1, <2>2 DEF KnownEpoch, PrimeDest
  <2> QED
    BY <2>1, <2>3 DEF CacheOf
<1>6. CASE \E r : ProposeShape(c, t, r)
  <2>1. t.pc \in {"primeBody", "backup", "wait"}
    BY <1>6 DEF ProposeShape
  <2> QED
    BY <2>1, CacheQuiet DEF CommittedPcs
<1>7. CASE (\E r : ChooseShape(c, t, r)) \/ BodyShape(c, t)
  <2>1. /\ Same(s, t) /\ t.pc \notin {"read", "readCache"}
        /\ t.pc \in CommittedPcs => s.pc \in CommittedPcs
    BY <1>7 DEF ChooseShape, BodyShape, BodyPcs, CasOf, CommittedPcs
  <2> QED
    BY <2>1 DEF CacheOf, Same, PrimeDest
<1>8. CASE MoveShape(c, t)
  <2>1. Same(s, t) /\ t.pc \notin {"read", "readCache"}
    BY <1>8 DEF MoveShape
  <2>2. \/ t.pc \in CommittedPcs => s.pc \in CommittedPcs
        \/ /\ s.pc \in {"primeBody", "primeCas"} /\ CommitReturns(c, TRUE)
           /\ t.pc \in {"repair", "refresh"}
    BY <1>8 DEF MoveShape, CommittedPcs
  <2> QED
    BY <2>1, <2>2 DEF CacheOf, Same, PrimeDest
<1> QED
  BY <1>2, <1>3, <1>4, <1>5, <1>6, <1>7, <1>8 DEF Shape

(* A client never takes an epoch of PRIME back.                            *)
LEMMA ClientGrows ==
  ASSUME EpochInv, TypeInv', NEW c \in CN, MemoryShape(c), NEW n \in Nodes
  PROVE  PrimeGrows(n, mem, mem')
<1> DEFINE lk == [d \in CN |-> [i \in Nodes |-> TRUE]]
<1>1. EpochsAdvance(mem, mem', lk)
  BY BodyEpochs, CasEpochs, SameMemory DEF MemoryShape
<1>2. TypeInv /\ \A i \in Nodes : lk[c][i]
  BY DEF EpochInv
<1> HIDE DEF lk
<1> SUFFICES ASSUME NEW b \in PrimeAddr
             PROVE  mem[b].guard \in Nat /\ mem'[b].guard \in Nat
                    /\ mem[b].guard <= mem'[b].guard
  BY DEF PrimeGrows
<1>3. b \in Addr
  BY DEF PrimeAddr, AddrOf
<1>4. b[1] \in Nodes /\ mem[b] \in Slot /\ mem'[b] \in Slot
  BY <1>2, <1>3, AddrElim DEF TypeInv, TypeOK
<1>5. mem[b].guard \in Nat /\ mem'[b].guard \in Nat
  BY <1>4, BoundsAssumption DEF Slot, Epochs
<1>6. mem'[b].guard \in {mem[b].guard, mem[b].guard + 1}
  BY <1>1, <1>2, <1>4 DEF EpochsAdvance
<1> QED
  BY <1>5, <1>6

(***************************************************************************)
(* Entries.                                                                *)
(***************************************************************************)

(* The entry at a carries an epoch PRIME has reached in memory m.          *)
BackedAt(a, m) ==
    m[a].valid => \E b \in PrimeAddr : b[1] = a[1] /\ m[a].visible <= m[b].guard

(* The property, entry by entry.                                           *)
LEMMA BackedDef == CacheNotAhead <=> \A a \in AddrOf({"cache"}) : BackedAt(a, mem)
  BY DEF CacheNotAhead, BackedAt, PrimeAddr

(* An entry that stays as it is stays backed.                              *)
LEMMA BackedStep ==
  ASSUME NEW a, NEW m, NEW m2, PrimeGrows(a[1], m, m2), BackedAt(a, m),
         m2[a].valid => m[a].valid /\ m2[a].visible = m[a].visible /\ m[a].visible \in Nat
  PROVE  BackedAt(a, m2)
<1> SUFFICES ASSUME m2[a].valid
             PROVE  \E b \in PrimeAddr : b[1] = a[1] /\ m2[a].visible <= m2[b].guard
  BY DEF BackedAt
<1>1. PICK b \in PrimeAddr : b[1] = a[1] /\ m[a].visible <= m[b].guard
  BY DEF BackedAt
<1>2. m[b].guard \in Nat /\ m2[b].guard \in Nat /\ m[b].guard <= m2[b].guard
  BY <1>1 DEF PrimeGrows
<1> QED
  BY <1>1, <1>2

(* The entries after a step of a client: the body it writes was read from  *)
(* PRIME or committed there.                                               *)
LEMMA ClientBacked ==
  ASSUME EpochInv, TypeInv', NEW c \in CN, CacheOf(cn[c], mem, link[c]), MemoryShape(c),
         NEW a \in AddrOf({"cache"}), BackedAt(a, mem)
  PROVE  BackedAt(a, mem')
<1> DEFINE s == cn[c]
<1>1. /\ a \in Addr /\ a[2] = "cache" /\ mem \in [Addr -> Slot] /\ s \in Process
      /\ TypeInv
  BY DEF AddrOf, EpochInv, TypeInv, TypeOK
<1>2. mem[a] \in Slot /\ s.prop \in Slot /\ mem[a].visible \in Nat
  BY <1>1, EpochTypes DEF Process
<1>3. a[1] \in Nodes
  BY <1>1, AddrElim
<1>4. PrimeGrows(a[1], mem, mem')
  BY <1>3, ClientGrows
<1>5. CASE mem'[a] = mem[a]
  BY <1>2, <1>4, <1>5, BackedStep
<1>6. CASE mem'[a] # mem[a] /\ mem' = CasApplied(s)
  <2>1. mem'[a] = [mem[a] EXCEPT !.guard = s.prop.visible]
    BY <1>1, <1>6 DEF CasApplied
  <2>2. mem'[a].valid = mem[a].valid /\ mem'[a].visible = mem[a].visible
    BY <1>2, <2>1 DEF Slot
  <2> QED
    BY <1>2, <1>4, <2>2, BackedStep
<1>7. CASE mem'[a] # mem[a] /\ s.pc \in BodyPcs /\ Served(c) /\ mem' = BodyWritten(s)
  <2>1. a = Dest(s)
    BY <1>1, <1>7 DEF BodyWritten
  <2>2. Kind(s) = "cache" /\ a[1] = Node(s)
    BY <1>1, <2>1 DEF Dest
  <2>3. s.pc = "refreshBody"
    BY <1>7, <2>2 DEF Kind, CachePcs, BackupPcs, BodyPcs, CasOf
  <2>4. Node(s) = td_primary_session(s.op.key) /\ link[c][Node(s)]
    BY <1>7, <2>3 DEF Node, EvictPcs, BackupPcs, Served
  <2>5. PrimeDest(s) \in Addr /\ s.prop.visible <= mem[PrimeDest(s)].guard
    BY <2>3, <2>4 DEF CacheOf, CommittedPcs
  <2>6. PrimeDest(s) \in PrimeAddr /\ PrimeDest(s)[1] = a[1]
    BY <2>2, <2>4, <2>5 DEF PrimeDest, PrimeAddr, AddrOf
  <2>7. mem'[a] = [s.prop EXCEPT !.guard = mem[a].guard]
    BY <1>1, <1>7, <2>1 DEF BodyWritten
  <2>8. mem'[a].visible = s.prop.visible /\ s.prop.visible \in Nat
    BY <1>2, <2>7, BoundsAssumption DEF Slot, Epochs
  <2>9. mem'[a].visible <= mem'[PrimeDest(s)].guard
    BY <1>4, <2>5, <2>6, <2>8 DEF PrimeGrows
  <2> QED
    BY <2>6, <2>9 DEF BackedAt
<1> QED
  BY <1>5, <1>6, <1>7 DEF MemoryShape

(* The initial states satisfy the invariant of the cache.                  *)
LEMMA InitCache == Init => CacheInv
<1> SUFFICES ASSUME Init PROVE CacheInv
  OBVIOUS
<1>1. \A c \in CN : cn[c].pc = "off"
  BY DEF Init, Off
<1>2. \A c \in CN : CacheOf(cn[c], mem, link[c])
  BY <1>1, CacheQuiet DEF CommittedPcs
<1>3. CacheNotAhead
  BY DEF Init, EmptySlot, CacheNotAhead, AddrOf
<1> QED
  BY <1>2, <1>3, InitEpoch DEF CacheInv

(* A step of a client keeps the invariant of the cache.                    *)
LEMMA ClientCache ==
  ASSUME CacheInv, EpochInv', NEW c \in CN, ClientNext(c)
  PROVE  CacheInv'
<1>1. /\ EpochInv /\ TypeInv /\ TypeInv'
      /\ \A d \in CN : CacheOf(cn[d], mem, link[d])
      /\ \A a \in AddrOf({"cache"}) : BackedAt(a, mem)
  BY BackedDef DEF CacheInv, EpochInv
<1>2. StepShape(c)
  BY <1>1, ClientIsShaped
<1>3. \A n \in Nodes : PrimeGrows(n, mem, mem')
  BY <1>1, <1>2, ClientGrows DEF StepShape
<1>4. \A d \in CN : cn'[d] \in Process /\ WellFormed(cn'[d])
  BY <1>1 DEF TypeInv, TypeOK
<1>5. ASSUME NEW d \in CN PROVE CacheOf(cn'[d], mem', link'[d])
  <2>1. CASE d = c /\ RestShape(cn'[c])
    BY <2>1, CacheQuiet DEF RestShape, CommittedPcs
  <2>2. CASE ~(d = c /\ RestShape(cn'[c])) /\ CacheOf(cn'[d], mem, link[d])
    <3>1. \A n \in Nodes : link'[d][n] => link[d][n]
      BY <1>2, <2>2 DEF StepShape, LinkShape
    <3> QED
      BY <1>3, <1>4, <2>2, <3>1, CacheMono
  <2>3. CASE /\ d = c /\ cn[c].pc \in {"primeBody", "primeCas"} /\ CommitReturns(c, TRUE)
             /\ cn'[c].pc \in {"repair", "refresh"} /\ Same(cn[c], cn'[c])
    <3>1. cn[c].pc \in BodyPcs \cup CasPcs
      BY <2>3 DEF BodyPcs, CasPcs, CasOf
    <3>2. /\ PrimeDest(cn[c]) \in PrimeAddr
          /\ mem'[PrimeDest(cn[c])].guard = cn[c].prop.visible
      BY <1>1, <2>3, <3>1, CommitEpochs
    <3>3. PrimeDest(cn[c]) \in Addr /\ cn[c].prop.visible \in Nat
      BY <1>1, <3>2, EpochTypes DEF PrimeAddr, AddrOf
    <3>4. PrimeDest(cn'[c]) = PrimeDest(cn[c]) /\ cn'[c].prop = cn[c].prop
      BY <2>3 DEF PrimeDest, Same
    <3>5. cn'[c].prop.visible <= mem'[PrimeDest(cn'[c])].guard
      BY <3>2, <3>3, <3>4
    <3> QED
      BY <2>3, <3>3, <3>4, <3>5 DEF CacheOf
  <2>4. CASE d # c
    BY <1>1, <1>2, <2>2, <2>4 DEF StepShape
  <2> QED
    BY <1>1, <1>2, <2>1, <2>2, <2>3, <2>4, CacheKept DEF StepShape
<1>6. \A a \in AddrOf({"cache"}) : BackedAt(a, mem')
  BY <1>1, <1>2, ClientBacked DEF StepShape
<1>7. CacheNotAhead'
  BY <1>6 DEF CacheNotAhead, BackedAt, PrimeAddr
<1> QED
  BY <1>5, <1>7 DEF CacheInv

(* A step of a memory node keeps the invariant of the cache: a sweep only  *)
(* removes entries, and a restart removes those of its node.               *)
LEMMA NodeCache ==
  ASSUME CacheInv, EpochInv', NEW n \in Nodes, NodeNext(n)
  PROVE  CacheInv'
<1>1. /\ EpochInv /\ TypeInv /\ TypeInv'
      /\ \A d \in CN : CacheOf(cn[d], mem, link[d])
      /\ \A a \in AddrOf({"cache"}) : BackedAt(a, mem)
  BY BackedDef DEF CacheInv, EpochInv
<1>2. cn' = cn /\ \A d \in CN, i \in Nodes : link'[d][i] => link[d][i]
  BY <1>1, NodeIsShaped
<1>3. ASSUME NEW i \in Nodes, i # n \/ ~Zeroed(n) PROVE PrimeGrows(i, mem, mem')
  <2> SUFFICES ASSUME NEW b \in PrimeAddr, b[1] = i
               PROVE  mem[b].guard \in Nat /\ mem'[b].guard \in Nat
                      /\ mem[b].guard <= mem'[b].guard
    BY DEF PrimeGrows
  <2>1. b \in Addr /\ b \in RecordAddr
    BY DEF PrimeAddr, RecordAddr, AddrOf, RecordKinds
  <2>2. mem[b].guard \in Nat
    <3>1. mem[b] \in Slot
      BY <1>1, <2>1 DEF TypeInv, TypeOK
    <3> QED
      BY <3>1, BoundsAssumption DEF Slot, Epochs
  <2>3. mem'[b] = mem[b]
    BY <1>1, <1>3, <2>1, NodeKeeps, NodeRecords
  <2> QED
    BY <2>2, <2>3
<1>4. ASSUME NEW d \in CN PROVE CacheOf(cn'[d], mem', link'[d])
  <2>1. Zeroed(n) => ~link'[d][n]
    BY <1>1 DEF Zeroed, TypeInv, TypeOK
  <2>2. \A i \in Nodes : link'[d][i] => link[d][i] /\ PrimeGrows(i, mem, mem')
    BY <1>2, <1>3, <2>1
  <2>3. cn[d] \in Process /\ WellFormed(cn[d])
    BY <1>1 DEF TypeInv, TypeOK
  <2> QED
    BY <1>1, <1>2, <2>2, <2>3, CacheMono
<1>5. ASSUME NEW a \in AddrOf({"cache"}) PROVE BackedAt(a, mem')
  <2>1. a \in Addr /\ a[1] \in Nodes
    BY AddrElim DEF AddrOf
  <2>2. mem[a].visible \in Nat
    <3>1. mem[a] \in Slot
      BY <1>1, <2>1 DEF TypeInv, TypeOK
    <3> QED
      BY <3>1, BoundsAssumption DEF Slot, Epochs
  <2>3. mem'[a] = mem[a] \/ mem'[a] = EmptySlot
    <3>1. ASSUME NEW victims, mem' = Cleared(n, victims)
          PROVE  mem'[a] = mem[a] \/ mem'[a] = EmptySlot
      BY <2>1, <3>1 DEF Cleared
    <3>2. CASE Zeroed(n)
      BY <2>1, <3>2 DEF Zeroed
    <3> QED
      BY <1>1, <3>1, <3>2, NodeIsShaped
  <2>4. CASE ~mem'[a].valid
    BY <2>4 DEF BackedAt
  <2>5. CASE mem'[a].valid
    <3>1. mem'[a] # EmptySlot
      BY <2>5 DEF EmptySlot
    <3>2. a[1] # n \/ ~Zeroed(n)
      BY <2>1, <3>1 DEF Zeroed
    <3> QED
      BY <1>1, <1>3, <2>1, <2>2, <2>3, <3>1, <3>2, BackedStep
  <2> QED
    BY <2>4, <2>5
<1>6. CacheNotAhead'
  BY <1>5 DEF CacheNotAhead, BackedAt, PrimeAddr
<1> QED
  BY <1>4, <1>6 DEF CacheInv

(* Every step keeps the invariant of the cache.                            *)
LEMMA NextCache == CacheInv /\ [Next]_vars => CacheInv'
<1> SUFFICES ASSUME CacheInv, [Next]_vars PROVE CacheInv'
  OBVIOUS
<1>1. EpochInv'
  BY NextEpoch DEF CacheInv
<1>2. CASE UNCHANGED vars
  <2>1. CacheNotAhead'
    BY <1>2 DEF CacheInv, CacheNotAhead, vars
  <2>2. \A d \in CN : CacheOf(cn'[d], mem', link'[d])
    BY <1>2 DEF CacheInv, vars
  <2> QED
    BY <1>1, <2>1, <2>2 DEF CacheInv
<1> QED
  BY <1>1, <1>2, ClientCache, NodeCache DEF Next

(* No cache entry carries an epoch its node's PRIME slots have not         *)
(* reached, however refreshes are delayed past commits, evictions and      *)
(* restarts: a reader cannot validate a value before its commit            *)
(* (td_refresh_cache_best_effort; cache_consistent of                      *)
(* td_cluster_read_value).                                                 *)
THEOREM CacheNeverAhead == Spec => []CacheNotAhead
<1>1. CacheInv => CacheNotAhead
  BY DEF CacheInv
<1> QED
  BY <1>1, InitCache, NextCache, PTL DEF Spec

(***************************************************************************)
(* A lone evictor.                                                         *)
(***************************************************************************)

(* The valid entries of node n in memory m.                                *)
ValidIn(n, m) == {i \in CacheSlots(n) : m[<<n, "cache", i>>].valid}

(* More entries, no smaller a count.                                       *)
LEMMA ValidGrows ==
  ASSUME NEW n \in Nodes, NEW m, NEW m2, ValidIn(n, m) \subseteq ValidIn(n, m2)
  PROVE  /\ Cardinality(ValidIn(n, m)) \in Nat /\ Cardinality(ValidIn(n, m2)) \in Nat
         /\ Cardinality(ValidIn(n, m)) <= Cardinality(ValidIn(n, m2))
<1>1. SlotCount[n]["cache"] \in Nat
  BY SlotCountAssumption DEF Kinds
<1>2. IsFiniteSet(CacheSlots(n))
  BY <1>1, FS_Interval DEF CacheSlots
<1>3. ValidIn(n, m) \subseteq CacheSlots(n) /\ ValidIn(n, m2) \subseteq CacheSlots(n)
  BY DEF ValidIn
<1>4. IsFiniteSet(ValidIn(n, m)) /\ IsFiniteSet(ValidIn(n, m2))
  BY <1>2, <1>3, FS_Subset
<1> QED
  BY <1>4, FS_Subset, FS_CardinalityType

(* An evictor sets out to clear no more slots than are valid: the count    *)
(* leaves out torn slots, which the sweep clears too.                      *)
LEMMA TargetMet ==
  ASSUME NEW n \in Nodes, EvictPct > 0, EvictionDue(n)
  PROVE  EvictTarget(n) <= Cardinality(ValidCache(n))
<1> DEFINE used == {i \in CacheSlots(n) : /\ mem[<<n, "cache", i>>].valid
                                          /\ ~Torn(mem[<<n, "cache", i>>])}
           size == SlotCount[n]["cache"]
           u == UsedCache(n)
<1>1. size \in Nat /\ EvictPct \in Nat
  BY SlotCountAssumption, ConfigAssumption DEF Kinds
<1>2. IsFiniteSet(CacheSlots(n))
  BY <1>1, FS_Interval DEF CacheSlots
<1>3. used \subseteq ValidCache(n) /\ ValidCache(n) \subseteq CacheSlots(n)
  BY DEF ValidCache
<1>4. IsFiniteSet(ValidCache(n)) /\ IsFiniteSet(used)
  BY <1>2, <1>3, FS_Subset
<1>5. u = Cardinality(used)
  BY DEF UsedCache
<1> HIDE DEF used, u
<1>6. /\ u \in Nat /\ Cardinality(ValidCache(n)) \in Nat
      /\ u <= Cardinality(ValidCache(n))
  BY <1>3, <1>4, <1>5, FS_Subset, FS_CardinalityType
<1>7. size > 0 /\ u * 100 >= EvictPct * size
  BY DEF EvictionDue, u
<1> HIDE DEF size
<1>8. EvictPct * size > 0
  <2>1. \A p \in Nat, q \in Nat : p > 0 /\ q > 0 => p * q > 0
    OBVIOUS
  <2> QED
    BY <1>1, <1>7, <2>1
<1>9. u > 0
  <2> DEFINE x == EvictPct * size
  <2>1. x > 0 /\ u * 100 >= x /\ x \in Nat
    BY <1>1, <1>7, <1>8
  <2> HIDE DEF x
  <2> QED
    BY <1>6, <2>1
<1>10. EvictTarget(n) <= u
  BY <1>6, <1>9 DEF EvictTarget, u
<1>11. EvictTarget(n) \in Nat
  BY EvictTargetType
<1> QED
  BY <1>6, <1>10, <1>11

(* Writers only add entries: what they write is valid.                     *)
LEMMA ClientAdds ==
  ASSUME CommandInv, NEW c \in CN, MemoryShape(c), NEW n \in Nodes
  PROVE  ValidIn(n, mem) \subseteq ValidIn(n, mem')
<1> SUFFICES ASSUME NEW i \in CacheSlots(n), mem[<<n, "cache", i>>].valid
             PROVE  mem'[<<n, "cache", i>>].valid
  BY DEF ValidIn
<1> DEFINE s == cn[c]
           a == <<n, "cache", i>>
<1>1. a \in Addr
  BY AddrIntro DEF CacheSlots, Kinds
<1>2. mem \in [Addr -> Slot] /\ s \in Process /\ CommandOf(s)
  BY DEF CommandInv, TypeInv, TypeOK
<1>3. mem[a] \in Slot /\ s.prop \in Slot /\ mem[a].valid
  BY <1>1, <1>2 DEF Process
<1> HIDE DEF a
<1>4. CASE mem'[a] = mem[a]
  BY <1>3, <1>4 DEF a
<1>5. CASE mem'[a] # mem[a] /\ mem' = CasApplied(s)
  <2>1. mem'[a] = [mem[a] EXCEPT !.guard = s.prop.visible]
    BY <1>1, <1>2, <1>5 DEF CasApplied
  <2>2. mem'[a].valid
    BY <1>3, <2>1 DEF Slot
  <2> QED
    BY <2>2 DEF a
<1>6. CASE mem'[a] # mem[a] /\ s.pc \in BodyPcs /\ mem' = BodyWritten(s)
  <2>1. mem'[a] = [s.prop EXCEPT !.guard = mem[a].guard]
    BY <1>1, <1>2, <1>6 DEF BodyWritten
  <2>2. s.pc \in ProposingPcs \cup CommittedPcs
    BY <1>6 DEF BodyPcs, CasOf, ProposingPcs, CommittedPcs
  <2>3. mem'[a].valid
    BY <1>2, <1>3, <2>1, <2>2 DEF CommandOf, Slot
  <2> QED
    BY <2>3 DEF a
<1> QED
  BY <1>4, <1>5, <1>6 DEF MemoryShape

(* A client that issues no evict leaves the evictors alone.                *)
LEMMA ClientIdles ==
  ASSUME NEW c \in CN, ClientNext(c), cn[c].pc \notin EvictPcs
  PROVE  UNCHANGED <<target, hung>>
<1>1. CASE Connect(c) \/ Quit(c) \/ Crash(c) \/ \E o \in Requests : Begin(c, o)
  BY <1>1 DEF Connect, Quit, Crash, Begin, mnVars
<1>2. CASE \/ Scan(c) \/ ReadPrime(c) \/ ReadCache(c) \/ WritePrime(c) \/ BackupProbe(c)
           \/ Wait(c) \/ RepairProbe(c) \/ RefreshProbe(c)
  BY <1>2 DEF Scan, ReadPrime, ReadCache, WritePrime, BackupProbe, Wait,
              RepairProbe, RefreshProbe, mnVars
<1>3. CASE WriteBody(c)
  BY <1>3 DEF WriteBody
<1>4. CASE BackupCommit(c) \/ PrimeCommit(c) \/ RepairCommit(c) \/ RefreshCommit(c)
  <2>1. \E won \in BOOLEAN : CommitReturns(c, won)
    BY <1>4 DEF BackupCommit, PrimeCommit, RepairCommit, RefreshCommit
  <2> QED
    BY <2>1 DEF CommitReturns
<1>5. ~(EvictRequest(c) \/ EvictAnswered(c) \/ EvictFails(c))
  BY DEF EvictRequest, EvictAnswered, EvictFails, EvictPcs
<1> QED
  BY <1>1, <1>2, <1>3, <1>4, <1>5 DEF ClientNext, CommandStep

(* A client that may not issue evict does not begin one.                   *)
LEMMA NoEvictBegins ==
  ASSUME NEW c \in CN, NEW t, Shape(c, t), cn[c].pc \notin EvictPcs, "evict" \notin OpKinds
  PROVE  t.pc \notin EvictPcs
<1>1. CASE RestShape(t) \/ StartShape(t) \/ ScanShape(c, t)
  BY <1>1 DEF RestShape, StartShape, ScanShape, EvictPcs
<1>2. CASE (\E r : ReadShapeOf(c, t, r)) \/ MissShape(c, t) \/ (\E r : ProposeShape(c, t, r))
  BY <1>2 DEF ReadShapeOf, MissShape, ProposeShape, EvictPcs
<1>3. CASE (\E r : ChooseShape(c, t, r)) \/ BodyShape(c, t) \/ MoveShape(c, t)
  <2>1. CASE \E r : ChooseShape(c, t, r)
    BY <2>1 DEF ChooseShape, EvictPcs
  <2>2. CASE BodyShape(c, t)
    BY <2>2 DEF BodyShape, BodyPcs, CasOf, EvictPcs
  <2>3. CASE MoveShape(c, t)
    BY <2>3 DEF MoveShape, EvictPcs
  <2> QED
    BY <1>3, <2>1, <2>2, <2>3
<1>4. ~EvictingShape(c, t)
  BY DEF EvictingShape
<1> QED
  BY <1>1, <1>2, <1>3, <1>4 DEF Shape

(* The initial states satisfy the invariant of the lone evictor.           *)
LEMMA InitLone == Init => LoneInv
<1> SUFFICES ASSUME Init PROVE LoneInv
  OBVIOUS
<1>1. CommandInv
  BY InitCommand
<1>2. \A c \in CN : cn[c].pc \notin EvictPcs
  BY DEF Init, Off, EvictPcs
<1>3. \A n \in Nodes : /\ target[n][Thread] = 0
                       /\ \A c \in CN : target[n][c] = 0
  BY DEF Init, Evictors
<1>4. \A n \in Nodes : Cardinality(ValidCache(n)) \in Nat
  <2>1. \A n \in Nodes : ValidCache(n) = ValidIn(n, mem)
    BY DEF ValidCache, ValidIn
  <2> QED
    BY <2>1, ValidGrows
<1>5. EvictionReturns
  BY DEF Init, EvictionReturns
<1> QED
  BY <1>1, <1>2, <1>3, <1>4, <1>5 DEF LoneInv

(* A step of a client keeps it.                                            *)
LEMMA ClientLone ==
  ASSUME LoneInv, CommandInv', "evict" \notin OpKinds, NEW c \in CN, ClientNext(c)
  PROVE  LoneInv'
<1>1. CommandInv /\ TypeInv /\ cn[c].pc \notin EvictPcs
  BY DEF LoneInv, CommandInv
<1>2. StepShape(c)
  BY <1>1, ClientIsShaped
<1>3. target' = target /\ hung' = hung
  BY <1>1, ClientIdles
<1>4. \A d \in CN : cn'[d].pc \notin EvictPcs
  <2>1. cn'[c].pc \notin EvictPcs
    BY <1>1, <1>2, NoEvictBegins DEF StepShape
  <2> QED
    BY <1>2, <2>1 DEF LoneInv, StepShape
<1>5. ASSUME NEW n \in Nodes PROVE target'[n][Thread] <= Cardinality(ValidIn(n, mem'))
  <2>1. target[n][Thread] \in Nat
    BY <1>1 DEF TypeInv, TypeOK, Evictors
  <2>2. target[n][Thread] <= Cardinality(ValidIn(n, mem))
    BY DEF LoneInv, ValidCache, ValidIn
  <2>3. ValidIn(n, mem) \subseteq ValidIn(n, mem')
    BY <1>1, <1>2, ClientAdds DEF StepShape
  <2> QED
    BY <1>3, <2>1, <2>2, <2>3, ValidGrows
<1>6. \A n \in Nodes : target'[n][Thread] <= Cardinality(ValidCache(n)')
  BY <1>5 DEF ValidCache, ValidIn, CacheSlots
<1> QED
  BY <1>3, <1>4, <1>6 DEF LoneInv, EvictionReturns

(* The cache of a node is as the step of another node found it.            *)
LEMMA OtherCache ==
  ASSUME TypeInv, NEW n \in Nodes, NodeNext(n), NEW i \in Nodes, i # n
  PROVE  ValidIn(i, mem') = ValidIn(i, mem)
<1> SUFFICES ASSUME NEW j \in CacheSlots(i)
             PROVE  mem'[<<i, "cache", j>>] = mem[<<i, "cache", j>>]
  BY DEF ValidIn
<1> DEFINE a == <<i, "cache", j>>
<1>1. a \in Addr /\ a[1] # n
  BY AddrIntro DEF CacheSlots, Kinds
<1> HIDE DEF a
<1>2. ASSUME NEW victims, mem' = Cleared(n, victims) PROVE mem'[a] = mem[a]
  BY <1>1, <1>2 DEF Cleared
<1>3. CASE Zeroed(n)
  BY <1>1, <1>3 DEF Zeroed, a
<1>4. mem'[a] = mem[a]
  BY <1>1, <1>2, <1>3, NodeIsShaped DEF a
<1> QED
  BY <1>4 DEF a

(* A step of a memory node keeps it: only the eviction thread sweeps, and  *)
(* it finds what it counted.                                               *)
LEMMA NodeLone ==
  ASSUME LoneInv, CommandInv', EvictPct > 0, NEW n \in Nodes, NodeNext(n)
  PROVE  LoneInv'
<1>1. /\ TypeInv /\ target \in [Nodes -> [Evictors -> Nat]] /\ hung \in [Nodes -> BOOLEAN]
      /\ \A i \in Nodes : ~hung[i]
      /\ \A i \in Nodes, c \in CN : target[i][c] = 0
      /\ \A i \in Nodes : target[i][Thread] <= Cardinality(ValidIn(i, mem))
  BY DEF LoneInv, CommandInv, TypeInv, TypeOK, EvictionReturns, ValidCache, ValidIn
<1>2. cn' = cn
  BY <1>1, NodeIsShaped
<1>3. \A i \in Nodes : Cardinality(ValidIn(i, mem')) \in Nat
  BY ValidGrows
<1>4. /\ \A i \in Nodes : ~hung'[i]
      /\ \A i \in Nodes, c \in CN : target'[i][c] = 0
      /\ \A i \in Nodes : i # n => target'[i] = target[i]
      /\ target'[n][Thread] <= Cardinality(ValidIn(n, mem'))
  <2>1. CASE ThreadCount(n)
    <3>1. /\ target' = [target EXCEPT ![n][Thread] = EvictTarget(n)]
          /\ mem' = mem /\ hung' = hung /\ EvictionDue(n)
      BY <2>1 DEF ThreadCount
    <3>2. /\ target'[n][Thread] = EvictTarget(n)
          /\ \A i \in Nodes : i # n => target'[i] = target[i]
          /\ \A i \in Nodes, c \in CN : target'[i][c] = target[i][c]
      BY <1>1, <3>1, ThreadAssumption DEF Evictors
    <3>3. EvictTarget(n) <= Cardinality(ValidIn(n, mem'))
      BY <3>1, TargetMet DEF ValidCache, ValidIn
    <3> QED
      BY <1>1, <3>1, <3>2, <3>3
  <2>2. ASSUME NEW e \in Evictors, Sweep(n, e)
        PROVE  /\ hung' = hung /\ target' = [target EXCEPT ![n][Thread] = 0]
    <3>1. target[n][e] > 0
      BY <2>2 DEF Sweep
    <3>2. e = Thread
      BY <1>1, <3>1 DEF Evictors
    <3>3. Cardinality(ValidCache(n)) >= target[n][Thread]
      <4>1. Cardinality(ValidIn(n, mem)) \in Nat /\ target[n][Thread] \in Nat
        BY <1>1, ValidGrows DEF Evictors
      <4> QED
        BY <1>1, <4>1 DEF ValidCache, ValidIn
    <3> QED
      BY <2>2, <3>2, <3>3, Zenon DEF Sweep
  <2>3. CASE \E e \in Evictors : Sweep(n, e)
    <3>1. hung' = hung /\ target' = [target EXCEPT ![n][Thread] = 0]
      BY <2>2, <2>3
    <3>2. /\ target'[n][Thread] = 0
          /\ \A i \in Nodes : i # n => target'[i] = target[i]
          /\ \A i \in Nodes, c \in CN : target'[i][c] = target[i][c]
      BY <1>1, <3>1, ThreadAssumption DEF Evictors
    <3> QED
      BY <1>1, <1>3, <3>1, <3>2
  <2>4. CASE Restart(n)
    <3>1. /\ hung' = [hung EXCEPT ![n] = FALSE]
          /\ target' = [target EXCEPT ![n] = [e \in Evictors |-> 0]]
      BY <2>4 DEF Restart
    <3> QED
      BY <1>1, <1>3, <3>1 DEF Evictors
  <2> QED
    BY <2>1, <2>3, <2>4 DEF NodeNext
<1>5. ASSUME NEW i \in Nodes PROVE target'[i][Thread] <= Cardinality(ValidIn(i, mem'))
  BY <1>1, <1>4, OtherCache
<1>6. \A i \in Nodes : target'[i][Thread] <= Cardinality(ValidCache(i)')
  BY <1>5 DEF ValidCache, ValidIn, CacheSlots
<1> QED
  BY <1>2, <1>4, <1>6 DEF LoneInv, EvictionReturns

(* Every step keeps the invariant of the lone evictor.                     *)
LEMMA NextLone ==
  ASSUME "evict" \notin OpKinds, EvictPct > 0
  PROVE  LoneInv /\ [Next]_vars => LoneInv'
<1> SUFFICES ASSUME LoneInv, [Next]_vars PROVE LoneInv'
  OBVIOUS
<1>1. CommandInv'
  BY NextCommand DEF LoneInv
<1>2. CASE UNCHANGED vars
  BY <1>1, <1>2 DEF LoneInv, EvictionReturns, ValidCache, CacheSlots, vars
<1> QED
  BY <1>1, <1>2, ClientLone, NodeLone DEF Next

(* Where no client issues evict and the threshold is not zero, the         *)
(* eviction thread always finds as many valid slots as it set out to clear *)
(* and leaves its critical section (td_region_evict_if_needed): torn       *)
(* entries, writes between its count and its sweep, and restarts never     *)
(* leave the region locked for good.                                       *)
THEOREM LoneEvictorReturns ==
  ASSUME "evict" \notin OpKinds, EvictPct > 0
  PROVE  Spec => []EvictionReturns
<1>1. LoneInv => EvictionReturns
  BY DEF LoneInv
<1>2. LoneInv /\ [Next]_vars => LoneInv'
  BY NextLone
<1> QED
  BY <1>1, <1>2, InitLone, PTL DEF Spec
=============================================================================
