-------------------------- MODULE ClusterEpochProofs -------------------------
(***************************************************************************)
(* Proofs that the guard epochs of PRIME slots do their work: one commit   *)
(* takes an epoch, epochs advance one at a time, and no body gets ahead.   *)
(***************************************************************************)
EXTENDS ClusterProofs

(* t is a later state of the command s is in, with the same proposal.      *)
Same(s, t) == t.op = s.op /\ t.prime = s.prime /\ t.prop = s.prop

(* Nothing has to be known of a process in this state.                     *)
Quiet(t) == /\ t.pc \notin ProposingPcs \cup CommittedPcs \cup {"read", "readCache"}
            /\ t.pc = "write" => ~t.probe.ok

PrimeAddr == AddrOf({"prime"})

(* What a step may do to PRIME, lk being the sessions after it.            *)
EpochsAdvance(m, m2, lk) ==
    \A a \in PrimeAddr :
        \/ /\ m2[a].guard \in {m[a].guard, m[a].guard + 1}
           /\ m2[a].visible <= m2[a].guard + 1
        \/ m2[a] = EmptySlot /\ \A c \in CN : ~lk[c][a[1]]

(***************************************************************************)
(* The shape of the local steps.                                           *)
(***************************************************************************)

(* Finish leaves a process at its prompt.                                  *)
LEMMA FinishShape == ASSUME NEW s, NEW r PROVE Finish(s, r).pc = "idle"
  BY OffType DEF Finish, Process

(* Probe changes the program counter and the probe only.                   *)
LEMMA ProbeShape ==
  ASSUME NEW s \in Process, NEW pc
  PROVE  Same(s, Probe(s, pc)) /\ Probe(s, pc).pc = pc /\ ~Probe(s, pc).probe.ok
  BY DEF Same, Probe, Process, ProbeStart

(* The cache refresh and the repair loop keep the committed proposal.      *)
LEMMA RefreshShape ==
  ASSUME NEW s \in Process
  PROVE  LET t == td_refresh_cache_best_effort(s)
         IN  t.pc = "idle" \/ (t.pc = "refresh" /\ Same(s, t))
<1>1. CASE CacheOn
  <2>1. td_refresh_cache_best_effort(s) = Probe(s, "refresh")
    BY <1>1 DEF td_refresh_cache_best_effort
  <2> QED
    BY <2>1, ProbeShape
<1>2. CASE ~CacheOn
  <2>1. td_refresh_cache_best_effort(s) = Finish(s, Answer(s))
    BY <1>2 DEF td_refresh_cache_best_effort
  <2>2. Finish(s, Answer(s)).pc = "idle"
    BY FinishShape, Zenon
  <2> QED
    BY <2>1, <2>2, Zenon
<1> QED
  BY <1>1, <1>2

(* The repair loop goes on to a backup or to the cache refresh.            *)
LEMMA RepairShape ==
  ASSUME NEW s \in Process, NEW j \in Nat, s.op.key \in Keys
  PROVE  LET t == RepairFrom(s, j)
         IN  t.pc = "idle" \/ (t.pc \in {"repair", "refresh"} /\ Same(s, t))
<1> DEFINE rest == {i \in Lost(s.votes) : i >= j}
           next == CHOOSE i \in rest : \A i2 \in rest : i <= i2
           u == [s EXCEPT !.idx = next]
<1>1. CASE rest = {}
  BY <1>1, RefreshShape DEF RepairFrom
<1>2. CASE rest # {}
  <2>1. rest \subseteq Nat
    BY BackupsType DEF Lost, Process
  <2>2. next \in Nat
    <3>1. \E i \in rest : \A i2 \in rest : i <= i2
      BY <1>2, <2>1, LeastElement
    <3> QED
      BY <2>1, <3>1
  <2>3. RepairFrom(s, j) = Probe(u, "repair")
    BY <1>2 DEF RepairFrom
  <2> HIDE DEF next
  <2>4. u \in Process /\ Same(s, u)
    BY <2>2 DEF Process, Same
  <2> HIDE DEF u
  <2> QED
    BY <2>3, <2>4, ProbeShape DEF Same
<1> QED
  BY <1>1, <1>2

(* The backup loop goes on to a backup, to the primary, or gives up.       *)
LEMMA BackupShape ==
  ASSUME NEW s \in Process, NEW j \in Nat
  PROVE  LET t == BackupFrom(s, j)
         IN  t.pc = "wait" \/ (t.pc \in {"backup", "primeBody"} /\ Same(s, t))
<1> DEFINE u == [s EXCEPT !.idx = j]
<1>1. CASE j \in Backups
  <2>1. BackupFrom(s, j) = Probe(u, "backup")
    BY <1>1 DEF BackupFrom
  <2>2. u \in Process /\ Same(s, u)
    BY DEF Process, Same
  <2> HIDE DEF u
  <2> QED
    BY <2>1, <2>2, ProbeShape DEF Same
<1>2. CASE j \notin Backups /\ Rule(s) = 0
  BY <1>2, ProbeShape DEF BackupFrom, Decide
<1>3. CASE j \notin Backups /\ Rule(s) # 0
  <2>1. BackupFrom(s, j) = [s EXCEPT !.pc = "primeBody"]
    BY <1>3 DEF BackupFrom, Decide
  <2> QED
    BY <2>1 DEF Same, Process
<1> QED
  BY <1>1, <1>2, <1>3

(* The evict command goes on to the next memory node, or ends.             *)
LEMMA EvictShape ==
  ASSUME NEW s \in Process, NEW n
  PROVE  Quiet(EvictFrom(s, n))
<1>1. CASE n \in Nodes
  <2>1. EvictFrom(s, n) = [s EXCEPT !.pc = "evict", !.idx = n]
    BY <1>1 DEF EvictFrom
  <2>2. EvictFrom(s, n).pc = "evict"
    BY <2>1 DEF Process
  <2> QED
    BY <2>2 DEF Quiet, ProposingPcs, CommittedPcs
<1>2. CASE n \notin Nodes
  BY <1>2, FinishShape DEF EvictFrom, Quiet, ProposingPcs, CommittedPcs
<1> QED
  BY <1>1, <1>2

(* An answer from PRIME ends a read or refreshes the cache for it.         *)
LEMMA ReadShape ==
  ASSUME NEW s \in Process
  PROVE  LET t == ReadPrimeSlot(s)
         IN  t.pc = "idle" \/ (t.pc = "refresh" /\ t.op = s.op)
<1> DEFINE u == [s EXCEPT !.prop = s.prime.slot]
           v == td_refresh_cache_best_effort(u)
<1>1. u \in Process /\ u.op = s.op
  BY DEF Process, ProbeRecord
<1> HIDE DEF u
<1>2. v.pc = "idle" \/ (v.pc = "refresh" /\ v.op = s.op)
  BY <1>1, RefreshShape DEF Same
<1>3. ReadPrimeSlot(s) = v \/ ReadPrimeSlot(s) = Finish(s, Reply("not_found", Nil, 0))
  BY DEF ReadPrimeSlot, u
<1> HIDE DEF v
<1>4. CASE ReadPrimeSlot(s) = v
  BY <1>2, <1>4
<1>5. CASE ReadPrimeSlot(s) = Finish(s, Reply("not_found", Nil, 0))
  <2>1. Finish(s, Reply("not_found", Nil, 0)).pc = "idle"
    BY FinishShape, Zenon
  <2> QED
    BY <1>5, <2>1, Zenon
<1> QED
  BY <1>3, <1>4, <1>5

(***************************************************************************)
(* Knowledge of epochs is kept while epochs advance and sessions break.    *)
(***************************************************************************)

(* Committed, by program counter.                                          *)
LEMMA CommittedDef ==
  ASSUME NEW s
  PROVE  Committed(s) <=> /\ s.op.kind \in {"write", "update", "delete"}
                          /\ s.pc \in CommittedPcs
  BY DEF Committed, CommittedPcs

(* A quiet process knows nothing.                                          *)
LEMMA QuietEpoch == ASSUME NEW t, Quiet(t), NEW m, NEW up PROVE EpochOf(t, m, up)
  BY CommittedDef DEF Quiet, EpochOf

(* A process at its prompt, off, or waiting for the primary is quiet.      *)
LEMMA QuietPcs ==
  ASSUME NEW t, t.pc \in {"idle", "off", "wait", "evict", "evictReply"}
  PROVE  Quiet(t)
  BY DEF Quiet, ProposingPcs, CommittedPcs

(* The next state of a proposing or committed command knows as much.       *)
LEMMA KeepsEpoch ==
  ASSUME NEW s, NEW t, NEW m, NEW up, Same(s, t), EpochOf(s, m, up),
         \/ s.pc \in ProposingPcs /\ t.pc \in ProposingPcs
         \/ Committed(s) /\ t.pc \in CommittedPcs
  PROVE  EpochOf(t, m, up)
<1>1. t.pc \notin {"read", "readCache", "write"}
  BY DEF ProposingPcs, CommittedPcs
<1>2. CASE s.pc \in ProposingPcs /\ t.pc \in ProposingPcs
  <2>1. ~Committed(t)
    BY <1>2, CommittedDef DEF ProposingPcs, CommittedPcs
  <2> QED
    BY <1>1, <1>2, <2>1 DEF EpochOf, Same, KnownEpoch
<1>3. CASE Committed(s) /\ t.pc \in CommittedPcs
  <2>1. t.pc \notin ProposingPcs
    BY <1>3 DEF ProposingPcs, CommittedPcs
  <2>2. PrimeDest(t) = PrimeDest(s)
    BY DEF PrimeDest, Same
  <2> QED
    BY <1>1, <1>3, <2>1, <2>2 DEF EpochOf, Same
<1> QED
  BY <1>2, <1>3

(* What a process knows stays true when epochs advance.                    *)
LEMMA EpochMono ==
  ASSUME NEW s \in Process, WellFormed(s),
         NEW m \in [Addr -> Slot], NEW m2 \in [Addr -> Slot],
         NEW c \in CN, NEW lk, NEW lk2, EpochsAdvance(m, m2, lk2),
         \A n \in Nodes : lk2[c][n] => lk[c][n],
         EpochOf(s, m, lk[c])
  PROVE  EpochOf(s, m2, lk2[c])
<1> DEFINE n == td_primary_session(s.op.key)
<1>1. s.pc \in KeyedPcs => n \in Nodes
  BY SessionType DEF WellFormed
<1>2. \A i : <<n, "prime", i>> \in Addr /\ lk2[c][n] =>
         /\ m[<<n, "prime", i>>].guard \in Nat
         /\ m2[<<n, "prime", i>>].guard \in Nat
         /\ m[<<n, "prime", i>>].guard <= m2[<<n, "prime", i>>].guard
  <2> SUFFICES ASSUME NEW i, <<n, "prime", i>> \in Addr, lk2[c][n]
               PROVE  /\ m[<<n, "prime", i>>].guard \in Nat
                      /\ m2[<<n, "prime", i>>].guard \in Nat
                      /\ m[<<n, "prime", i>>].guard <= m2[<<n, "prime", i>>].guard
    OBVIOUS
  <2> DEFINE a == <<n, "prime", i>>
  <2>1. m[a] \in Slot /\ m2[a] \in Slot
    OBVIOUS
  <2>2. m[a].guard \in Nat /\ m2[a].guard \in Nat
    BY <2>1, BoundsAssumption DEF Slot, Epochs
  <2>3. a \in PrimeAddr /\ a[1] = n
    BY DEF PrimeAddr, AddrOf
  <2> HIDE DEF a
  <2>4. m2[a].guard \in {m[a].guard, m[a].guard + 1}
    BY <2>3 DEF EpochsAdvance
  <2>5. m[a].guard <= m2[a].guard
    BY <2>2, <2>4
  <2> QED
    BY <2>2, <2>5 DEF a
<1> HIDE DEF n
<1>3. s.probe.slot.guard \in Nat /\ s.prime.slot.guard \in Nat /\ s.prop.visible \in Nat
  BY BoundsAssumption DEF Process, ProbeRecord, Slot, Epochs
<1>4. s.pc \in ProposingPcs \cup CommittedPcs \cup {"write"} => s.pc \in KeyedPcs
  BY DEF ProposingPcs, CommittedPcs, KeyedPcs, PrimePcs, CachePcs, BackupPcs
<1>5. s.pc \in ProposingPcs \cup CommittedPcs \cup {"write"} /\ lk2[c][n] => lk[c][n]
  BY <1>1, <1>4
<1>6. \A p \in ProbeRecord : lk2[c][n] /\ KnownEpoch(s, p, m) => KnownEpoch(s, p, m2)
  <2>1. \A p \in ProbeRecord : p.slot.guard \in Nat
    BY BoundsAssumption DEF ProbeRecord, Slot, Epochs
  <2> QED
    BY <1>2, <2>1 DEF KnownEpoch, n
<1>7. s.probe \in ProbeRecord /\ s.prime \in ProbeRecord
  BY DEF Process
<1>8. s.pc = "write" /\ s.probe.ok /\ lk2[c][n] => KnownEpoch(s, s.probe, m2)
  BY <1>5, <1>6, <1>7 DEF EpochOf, n
<1>9. s.pc \in ProposingPcs /\ lk2[c][n]
      => KnownEpoch(s, s.prime, m2) /\ s.prop.visible = s.prime.slot.guard + 1
  BY <1>5, <1>6, <1>7 DEF EpochOf, n
<1>10. Committed(s) /\ lk2[c][n]
       => PrimeDest(s) \in Addr /\ s.prop.visible <= m2[PrimeDest(s)].guard
  <2> SUFFICES ASSUME Committed(s), lk2[c][n]
               PROVE  PrimeDest(s) \in Addr /\ s.prop.visible <= m2[PrimeDest(s)].guard
    OBVIOUS
  <2>1. PrimeDest(s) \in Addr /\ s.prop.visible <= m[PrimeDest(s)].guard
    BY <1>5, CommittedDef DEF EpochOf, n
  <2>2. PrimeDest(s) = <<n, "prime", s.prime.at>>
    BY DEF PrimeDest, n
  <2> QED
    BY <1>2, <1>3, <2>1, <2>2
<1> QED
  BY <1>8, <1>9, <1>10 DEF EpochOf, n

(***************************************************************************)
(* What the requests of td_commit_slot_at do to PRIME.                     *)
(***************************************************************************)

(* The primary commit addresses the PRIME slot of the first probe.         *)
LEMMA PrimeCommitDest ==
  ASSUME NEW s, s.pc \in {"primeBody", "primeCas"}
  PROVE  /\ Node(s) = td_primary_session(s.op.key)
         /\ Chosen(s) = s.prime
         /\ Dest(s) = PrimeDest(s)
  BY DEF Node, Kind, Chosen, Dest, PrimeDest, EvictPcs, BackupPcs, CachePcs

(* No other commit addresses a PRIME slot.                                 *)
LEMMA PrimeWriter ==
  ASSUME NEW s, s.pc \in BodyPcs \cup CasPcs, Dest(s) \in PrimeAddr
  PROVE  s.pc \in {"primeBody", "primeCas"}
<1>1. Kind(s) = "prime"
  BY DEF Dest, PrimeAddr, AddrOf
<1> QED
  BY <1>1 DEF Kind, CachePcs, BackupPcs, BodyPcs, CasPcs, CasOf

(* Types of what is read and written.                                      *)
LEMMA EpochTypes ==
  ASSUME TypeInv, NEW c \in CN, NEW a \in Addr
  PROVE  /\ mem[a] \in Slot
         /\ mem[a].guard \in Nat
         /\ mem[a].visible \in Nat
         /\ cn[c].prop \in Slot
         /\ cn[c].prop.visible \in Nat
         /\ cn[c].prime.slot.guard \in Nat
<1>1. mem[a] \in Slot /\ cn[c] \in Process
  BY DEF TypeInv, TypeOK
<1> QED
  BY <1>1, BoundsAssumption DEF Process, ProbeRecord, Slot, Epochs

(* What a process that commits to PRIME knows of the slot.                 *)
LEMMA PrimeKnown ==
  ASSUME EpochInv, NEW c \in CN, cn[c].pc \in {"primeBody", "primeCas"}, Served(c)
  PROVE  /\ PrimeDest(cn[c]) \in PrimeAddr
         /\ cn[c].prime.slot.guard <= mem[PrimeDest(cn[c])].guard
         /\ cn[c].prop.visible = cn[c].prime.slot.guard + 1
<1>1. link[c][td_primary_session(cn[c].op.key)]
  BY PrimeCommitDest DEF Served
<1>2. EpochOf(cn[c], mem, link[c])
  BY DEF EpochInv
<1>3. KnownEpoch(cn[c], cn[c].prime, mem) /\ cn[c].prop.visible = cn[c].prime.slot.guard + 1
  BY <1>1, <1>2 DEF EpochOf, ProposingPcs
<1> QED
  BY <1>3 DEF KnownEpoch, PrimeDest, PrimeAddr, AddrOf

(* Memory that is left alone keeps its epochs.                             *)
LEMMA SameMemory == ASSUME EpochInv, NEW lk PROVE EpochsAdvance(mem, mem, lk)
  BY DEF EpochsAdvance, EpochInv, VisibleAtMostOneAhead, PrimeAddr

(* The body carries the epoch after the one the writer probed.             *)
LEMMA BodyEpochs ==
  ASSUME EpochInv, NEW c \in CN, cn[c].pc \in BodyPcs, Served(c), NEW lk
  PROVE  EpochsAdvance(mem, BodyWritten(cn[c]), lk)
<1> DEFINE s == cn[c]
           d == Dest(s)
           m2 == BodyWritten(s)
<1> SUFFICES ASSUME NEW a \in PrimeAddr
             PROVE  m2[a].guard = mem[a].guard /\ m2[a].visible <= m2[a].guard + 1
  BY DEF EpochsAdvance
<1>1. a \in Addr /\ TypeInv /\ mem \in [Addr -> Slot]
  BY DEF PrimeAddr, AddrOf, EpochInv, TypeInv, TypeOK
<1>2. CASE a # d
  <2>1. m2[a] = mem[a]
    BY <1>1, <1>2 DEF BodyWritten
  <2> QED
    BY <2>1 DEF EpochInv, VisibleAtMostOneAhead, PrimeAddr
<1>3. CASE a = d
  <2>1. s.pc \in {"primeBody", "primeCas"}
    BY <1>3, PrimeWriter
  <2>2. PrimeDest(s) = a
    BY <1>3, <2>1, PrimeCommitDest
  <2>3. /\ s.prime.slot.guard <= mem[a].guard
        /\ s.prop.visible = s.prime.slot.guard + 1
    BY <2>1, <2>2, PrimeKnown
  <2>4. m2[a] = [s.prop EXCEPT !.guard = mem[a].guard]
    BY <1>1, <1>3 DEF BodyWritten
  <2>5. /\ s.prop \in Slot
        /\ s.prime.slot.guard \in Nat
        /\ mem[a].guard \in Nat
    BY <1>1, EpochTypes
  <2>6. m2[a].guard = mem[a].guard /\ m2[a].visible = s.prop.visible
    BY <2>4, <2>5 DEF Slot
  <2> HIDE DEF m2
  <2> QED
    BY <2>3, <2>5, <2>6
<1> QED
  BY <1>2, <1>3

(* The CAS takes the slot from the epoch the writer probed to the next.    *)
LEMMA CasEpochs ==
  ASSUME EpochInv, NEW c \in CN, cn[c].pc \in CasPcs, Served(c), NEW lk
  PROVE  /\ EpochsAdvance(mem, CasApplied(cn[c]), lk)
         /\ cn[c].pc = "primeCas" /\ CasWins(cn[c]) =>
               /\ PrimeDest(cn[c]) \in PrimeAddr
               /\ cn[c].prop.visible = mem[PrimeDest(cn[c])].guard + 1
               /\ CasApplied(cn[c])[PrimeDest(cn[c])].guard = cn[c].prop.visible
<1> DEFINE s == cn[c]
           d == Dest(s)
           m2 == CasApplied(s)
<1>1. TypeInv /\ mem \in [Addr -> Slot]
  BY DEF EpochInv, TypeInv, TypeOK
<1>2. ASSUME s.pc \in {"primeBody", "primeCas"}, CasWins(s)
      PROVE  /\ d = PrimeDest(s)
             /\ d \in PrimeAddr
             /\ d \in Addr
             /\ s.prop.visible = mem[d].guard + 1
             /\ m2[d].guard = s.prop.visible
             /\ m2[d].visible = mem[d].visible
  <2>1. d = PrimeDest(s) /\ Chosen(s) = s.prime
    BY <1>2, PrimeCommitDest
  <2>2. d \in PrimeAddr /\ d \in Addr /\ s.prop.visible = s.prime.slot.guard + 1
    BY <1>2, <2>1, PrimeKnown DEF PrimeAddr, AddrOf
  <2>3. s.prop.visible = mem[d].guard + 1
    BY <1>2, <2>1, <2>2 DEF CasWins
  <2>4. m2[d] = [mem[d] EXCEPT !.guard = s.prop.visible]
    BY <1>1, <1>2, <2>2 DEF CasApplied
  <2>5. mem[d] \in Slot
    BY <1>1, <2>2
  <2>6. m2[d].guard = s.prop.visible /\ m2[d].visible = mem[d].visible
    BY <2>4, <2>5 DEF Slot
  <2> QED
    BY <2>1, <2>2, <2>3, <2>6
<1>3. ASSUME NEW a \in PrimeAddr
      PROVE  /\ m2[a].guard \in {mem[a].guard, mem[a].guard + 1}
             /\ m2[a].visible <= m2[a].guard + 1
  <2>1. a \in Addr /\ mem[a].visible <= mem[a].guard + 1
    BY DEF PrimeAddr, AddrOf, EpochInv, VisibleAtMostOneAhead
  <2>2. CASE a # d \/ ~CasWins(s)
    <3>1. m2[a] = mem[a]
      BY <1>1, <2>1, <2>2 DEF CasApplied
    <3> QED
      BY <2>1, <3>1
  <2>3. CASE a = d /\ CasWins(s)
    <3>1. s.pc \in {"primeBody", "primeCas"}
      BY <2>3, PrimeWriter
    <3>2. m2[a].guard = mem[a].guard + 1 /\ m2[a].visible = mem[a].visible
      BY <1>2, <2>3, <3>1
    <3>3. mem[a].guard \in Nat /\ mem[a].visible \in Nat
      BY <1>1, <2>1, EpochTypes
    <3> HIDE DEF m2
    <3> QED
      BY <2>1, <3>2, <3>3
  <2> QED
    BY <2>2, <2>3
<1>4. EpochsAdvance(mem, m2, lk)
  BY <1>3 DEF EpochsAdvance
<1> QED
  BY <1>2, <1>4

(* td_commit_slot_at as a whole; a primary commit that succeeds has taken  *)
(* the slot to the proposed epoch, one past the epoch before.              *)
LEMMA CommitEpochs ==
  ASSUME EpochInv, NEW c \in CN, cn[c].pc \in BodyPcs \cup CasPcs,
         NEW won \in BOOLEAN, CommitReturns(c, won)
  PROVE  /\ EpochsAdvance(mem, mem', link')
         /\ won /\ cn[c].pc \in {"primeBody", "primeCas"} =>
               /\ PrimeDest(cn[c]) \in PrimeAddr
               /\ cn[c].prop.visible = mem[PrimeDest(cn[c])].guard + 1
               /\ mem'[PrimeDest(cn[c])].guard = cn[c].prop.visible
<1>1. \/ cn[c].pc \in CasPcs /\ Served(c) /\ won = CasWins(cn[c]) /\ mem' = CasApplied(cn[c])
      \/ won = FALSE /\ mem' = mem
      \/ won = FALSE /\ Served(c) /\ cn[c].pc \in CasPcs /\ mem' = CasApplied(cn[c])
      \/ won = FALSE /\ Served(c) /\ cn[c].pc \in BodyPcs /\ mem' = BodyWritten(cn[c])
  BY DEF CommitReturns
<1>2. "primeBody" \notin CasPcs
  BY DEF CasPcs, CasOf, BodyPcs
<1>3. EpochsAdvance(mem, mem', link')
  BY <1>1, SameMemory, BodyEpochs, CasEpochs
<1>4. ASSUME won, cn[c].pc \in {"primeBody", "primeCas"}
      PROVE  /\ PrimeDest(cn[c]) \in PrimeAddr
             /\ cn[c].prop.visible = mem[PrimeDest(cn[c])].guard + 1
             /\ mem'[PrimeDest(cn[c])].guard = cn[c].prop.visible
  <2>1. /\ cn[c].pc = "primeCas" /\ cn[c].pc \in CasPcs /\ Served(c)
        /\ CasWins(cn[c]) /\ mem' = CasApplied(cn[c])
    BY <1>1, <1>2, <1>4
  <2> QED
    BY <2>1, CasEpochs
<1> QED
  BY <1>3, <1>4

(***************************************************************************)
(* A step of one process, or of a memory node.                             *)
(***************************************************************************)

(* The commands that have committed after a step had committed before it,  *)
(* with the same proposal, but for the one whose commit succeeds in it.    *)
KeptOrFresh(s, t, m) ==
    \/ ~Committed(t)
    \/ Committed(s) /\ Same(s, t)
    \/ PrimeDest(t) \in PrimeAddr /\ t.prop.visible = m[PrimeDest(t)].guard + 1

(* A step of e (Thread stands for a memory node) keeps the invariant when  *)
(* epochs advance, no session of a command comes back, and the process of  *)
(* e knows what it should.                                                 *)
LEMMA EpochStep ==
  ASSUME EpochInv, TypeInv', NEW e \in Evictors,
         \A d \in CN : d # e => cn'[d] = cn[d],
         EpochsAdvance(mem, mem', link'),
         \A d \in CN, n \in Nodes :
            link'[d][n] => link[d][n] \/ (d = e /\ Quiet(cn'[d])),
         e \in CN => /\ EpochOf(cn'[e], mem', link'[e])
                     /\ KeptOrFresh(cn[e], cn'[e], mem)
  PROVE  EpochInv'
<1>1. /\ mem \in [Addr -> Slot] /\ mem' \in [Addr -> Slot]
      /\ \A d \in CN : cn[d] \in Process /\ WellFormed(cn[d])
      /\ \A d \in CN : cn'[d] \in Process /\ WellFormed(cn'[d])
  BY DEF EpochInv, TypeInv, TypeOK
<1>2. \A d \in CN : EpochOf(cn'[d], mem', link'[d])
  <2> SUFFICES ASSUME NEW d \in CN, d # e PROVE EpochOf(cn'[d], mem', link'[d])
    OBVIOUS
  <2>1. cn'[d] = cn[d] /\ EpochOf(cn[d], mem, link[d])
    BY DEF EpochInv
  <2>2. \A n \in Nodes : link'[d][n] => link[d][n]
    OBVIOUS
  <2>3. EpochOf(cn[d], mem', link'[d])
    BY <1>1, <2>1, <2>2, EpochMono
  <2> QED
    BY <2>1, <2>3
<1>3. VisibleAtMostOneAhead'
  <2> SUFFICES ASSUME NEW a \in PrimeAddr PROVE mem'[a].visible <= mem'[a].guard + 1
    BY DEF VisibleAtMostOneAhead, PrimeAddr
  <2> QED
    BY DEF EpochsAdvance, EmptySlot
<1> DEFINE Live(d) == Committed(cn[d]) /\ PrimeUp(d)
           LiveAfter(d) == Committed(cn'[d]) /\ PrimeUp(d)'
<1>4. ASSUME NEW d \in CN, LiveAfter(d)
      PROVE  /\ PrimeUp(d)' <=> link'[d][td_primary_session(cn'[d].op.key)]
             /\ link[d][td_primary_session(cn'[d].op.key)]
  <2>1. cn'[d].pc \in CommittedPcs
    BY <1>4, CommittedDef
  <2>2. ~Quiet(cn'[d]) /\ cn'[d].pc \in KeyedPcs
    BY <2>1 DEF Quiet, CommittedPcs, KeyedPcs, CachePcs, BackupPcs
  <2>3. td_primary_session(cn'[d].op.key) \in Nodes
    BY <1>1, <2>2, SessionType DEF WellFormed
  <2> QED
    BY <1>4, <2>2, <2>3 DEF PrimeUp
<1>5. ASSUME NEW d \in CN, LiveAfter(d), Committed(cn[d]), Same(cn[d], cn'[d])
      PROVE  Live(d) /\ PrimeDest(cn'[d]) = PrimeDest(cn[d])
  BY <1>4, <1>5 DEF PrimeUp, PrimeDest, Same
<1>6. ASSUME NEW d \in CN, LiveAfter(d), d # e
      PROVE  Live(d) /\ cn'[d] = cn[d]
  BY <1>4, <1>6 DEF PrimeUp
<1>7. ASSUME NEW d \in CN, Live(d)
      PROVE  PrimeDest(cn[d]) \in Addr /\ cn[d].prop.visible <= mem[PrimeDest(cn[d])].guard
  <2>1. EpochOf(cn[d], mem, link[d])
    BY DEF EpochInv
  <2> QED
    BY <1>7, <2>1 DEF EpochOf, PrimeUp
<1>8. \A d1, d2 \in CN : d1 # d2 /\ Live(d1) /\ Live(d2) /\ PrimeDest(cn[d1]) = PrimeDest(cn[d2])
                         => cn[d1].prop.visible # cn[d2].prop.visible
  BY DEF EpochInv, OneCommitPerEpoch
<1>9. ASSUME NEW d \in CN, d # e, e \in CN, LiveAfter(d), LiveAfter(e),
             PrimeDest(cn'[d]) = PrimeDest(cn'[e])
      PROVE  cn'[d].prop.visible # cn'[e].prop.visible
  <2>1. Live(d) /\ cn'[d] = cn[d]
    BY <1>6, <1>9
  <2>2. CASE Committed(cn[e]) /\ Same(cn[e], cn'[e])
    <3>1. Live(e) /\ PrimeDest(cn'[e]) = PrimeDest(cn[e]) /\ cn'[e].prop = cn[e].prop
      BY <1>5, <1>9, <2>2 DEF Same
    <3> QED
      BY <1>8, <1>9, <2>1, <3>1
  <2>3. CASE cn'[e].prop.visible = mem[PrimeDest(cn'[e])].guard + 1
    <3>1. /\ PrimeDest(cn[d]) \in Addr
          /\ cn[d].prop.visible <= mem[PrimeDest(cn[d])].guard
          /\ PrimeDest(cn[d]) = PrimeDest(cn'[e])
      BY <1>7, <1>9, <2>1
    <3>2. cn[d].prop.visible \in Nat /\ mem[PrimeDest(cn[d])].guard \in Nat
      BY <3>1, EpochTypes DEF EpochInv
    <3> QED
      BY <2>1, <2>3, <3>1, <3>2
  <2> QED
    BY <1>9, <2>2, <2>3 DEF KeptOrFresh
<1>10. ASSUME NEW d1 \in CN, NEW d2 \in CN, d1 # d2, LiveAfter(d1), LiveAfter(d2),
              PrimeDest(cn'[d1]) = PrimeDest(cn'[d2])
       PROVE  cn'[d1].prop.visible # cn'[d2].prop.visible
  <2>1. CASE d1 # e /\ d2 # e
    BY <1>6, <1>8, <1>10, <2>1
  <2>2. CASE d1 = e
    BY <1>9, <1>10, <2>2
  <2>3. CASE d2 = e
    BY <1>9, <1>10, <2>3
  <2> QED
    BY <2>1, <2>2, <2>3
<1>11. OneCommitPerEpoch'
  BY <1>10 DEF OneCommitPerEpoch, PrimeDest
<1> QED
  BY <1>2, <1>3, <1>11 DEF EpochInv

(* Sessions only break while a request is under way.                       *)
LEMMA LinksBreak ==
  ASSUME TypeInv, NEW c \in CN, Severed(c) \/ UNCHANGED netVars
  PROVE  \A d \in CN, n \in Nodes : link'[d][n] => link[d][n]
<1>1. link \in [CN -> [Nodes -> BOOLEAN]]
  BY DEF TypeInv, TypeOK
<1>2. CASE UNCHANGED netVars
  BY <1>2 DEF netVars
<1>3. CASE ~UNCHANGED netVars
  <2> DEFINE m == Node(cn[c])
  <2>1. link' = [link EXCEPT ![c][m] = FALSE]
    BY <1>3 DEF Severed
  <2> HIDE DEF m
  <2> QED
    BY <1>1, <2>1
<1> QED
  BY <1>2, <1>3

(* Process t, the next state of s, knows what it should and has committed  *)
(* nothing new.                                                            *)
Follows(s, t, m, up) == /\ EpochOf(t, m, up)
                        /\ Committed(t) => Committed(s) /\ Same(s, t)

(* A step of a process that commits nothing to PRIME.                      *)
LEMMA LocalStep ==
  ASSUME EpochInv, TypeInv', NEW c \in CN, NEW t, cn' = [cn EXCEPT ![c] = t],
         EpochsAdvance(mem, mem', link'),
         \A d \in CN, n \in Nodes : link'[d][n] => link[d][n],
         Follows(cn[c], t, mem, link[c])
  PROVE  EpochInv'
<1>1. mem \in [Addr -> Slot] /\ mem' \in [Addr -> Slot] /\ cn \in [CN -> Process]
  BY DEF EpochInv, TypeInv, TypeOK
<1>2. cn'[c] = t /\ \A d \in CN : d # c => cn'[d] = cn[d]
  BY <1>1
<1>3. t \in Process /\ WellFormed(t)
  BY <1>2 DEF TypeInv, TypeOK
<1>4. EpochOf(t, mem', link'[c])
  BY <1>1, <1>3, EpochMono DEF Follows
<1>5. c \in Evictors
  BY DEF Evictors
<1> QED
  BY <1>2, <1>4, <1>5, EpochStep DEF KeptOrFresh, Follows

(* A quiet next state.                                                     *)
LEMMA QuietFollows == ASSUME NEW s, NEW t, Quiet(t), NEW m, NEW up PROVE Follows(s, t, m, up)
<1>1. ~Committed(t)
  BY CommittedDef DEF Quiet
<1> QED
  BY <1>1, QuietEpoch DEF Follows

(* The next state of the proposing or the committed part of a command.     *)
LEMMA SameFollows ==
  ASSUME NEW s, NEW t, NEW m, NEW up, Same(s, t), EpochOf(s, m, up),
         \/ s.pc \in ProposingPcs /\ t.pc \in ProposingPcs
         \/ s.pc \in CommittedPcs /\ t.pc \in CommittedPcs
  PROVE  Follows(s, t, m, up)
<1>1. CASE s.pc \in ProposingPcs /\ t.pc \in ProposingPcs
  <2>1. ~Committed(t)
    BY <1>1, CommittedDef DEF ProposingPcs, CommittedPcs
  <2> QED
    BY <1>1, <2>1, KeepsEpoch DEF Follows
<1>2. CASE s.pc \in CommittedPcs /\ t.pc \in CommittedPcs
  <2>1. Committed(t) <=> Committed(s)
    BY <1>2, CommittedDef DEF Same
  <2>2. CASE Committed(s)
    BY <1>2, <2>2, KeepsEpoch DEF Follows
  <2>3. CASE ~Committed(s)
    <3>1. t.pc \notin ProposingPcs \cup {"read", "readCache", "write"}
      BY <1>2 DEF ProposingPcs, CommittedPcs
    <3> QED
      BY <2>1, <2>3, <3>1 DEF Follows, EpochOf
  <2> QED
    BY <2>2, <2>3
<1> QED
  BY <1>1, <1>2

(* A read that goes on has nothing to commit.                              *)
LEMMA ReadFollows ==
  ASSUME NEW s, NEW t, NEW m, NEW up, t.op.kind = "read",
         t.pc \in {"read", "readCache", "refresh", "idle"}
  PROVE  Follows(s, t, m, up)
<1>1. ~Committed(t)
  BY DEF Committed
<1> QED
  BY <1>1 DEF Follows, EpochOf, ProposingPcs

(* The sessions and the memory when a probe returns.                       *)
LEMMA ProbeFrame ==
  ASSUME EpochInv, NEW c \in CN, NEW r, ProbeReturns(c, r), UNCHANGED mnVars
  PROVE  /\ EpochsAdvance(mem, mem', link')
         /\ \A d \in CN, n \in Nodes : link'[d][n] => link[d][n]
<1>1. mem' = mem /\ (Severed(c) \/ UNCHANGED netVars) /\ TypeInv
  BY DEF ProbeReturns, mnVars, EpochInv
<1> QED
  BY <1>1, SameMemory, LinksBreak

(* The candidate of the first probe of a write is a slot of the primary,   *)
(* and its epoch was read from there.                                      *)
LEMMA WriteProbeEpoch ==
  ASSUME EpochInv, NEW c \in CN, cn[c].pc = "write", Count(cn[c]) > 0,
         link[c][td_primary_session(cn[c].op.key)], Examined(c).ok
  PROVE  KnownEpoch(cn[c], Examined(c), mem)
<1> DEFINE s == cn[c]
           p == s.probe
           at == FetchAt(c)
           slot == Fetched(c)
           n == td_primary_session(s.op.key)
<1>1. TypeInv /\ s.pc \in ProbePcs /\ EpochOf(s, mem, link[c]) /\ p \in ProbeRecord
  BY KeyedProcess DEF EpochInv, ProbePcs, Process
<1>2. Node(s) = n /\ Kind(s) = "prime"
  BY DEF Node, Kind, EvictPcs, BackupPcs, CachePcs
<1>3. <<n, "prime", at>> \in Addr /\ slot = mem[<<n, "prime", at>>]
  BY <1>1, <1>2, ExaminedType DEF Fetched
<1>4. slot.guard <= mem[<<n, "prime", at>>].guard
  <2>1. slot.guard \in Nat
    BY <1>1, <1>3, EpochTypes
  <2> QED
    BY <1>3, <2>1
<1>5. CASE Examined(c).at = at /\ Examined(c).slot = slot
  BY <1>3, <1>4, <1>5 DEF KnownEpoch
<1>6. CASE Examined(c) = [p EXCEPT !.i = p.i + 1]
  <2>1. p.ok /\ Examined(c).at = p.at /\ Examined(c).slot = p.slot
    BY <1>1, <1>6 DEF ProbeRecord
  <2>2. KnownEpoch(s, p, mem)
    BY <1>1, <2>1 DEF EpochOf
  <2> QED
    BY <2>1, <2>2 DEF KnownEpoch
<1> QED
  BY <1>5, <1>6 DEF Examined, Examine

(***************************************************************************)
(* One lemma per action.                                                   *)
(***************************************************************************)

(* What the lemmas below start from.                                       *)
LEMMA EpochProcess ==
  ASSUME EpochInv, NEW c \in CN
  PROVE  /\ TypeInv
         /\ cn[c] \in Process
         /\ cn[c].pc \in ProbePcs \cup BodyPcs \cup CasPcs => cn[c].op.key \in Keys
         /\ cn[c].idx + 1 \in Nat
         /\ EpochOf(cn[c], mem, link[c])
  BY KeyedProcess DEF EpochInv

(* A probe goes on to the next slot.                                       *)
LEMMA ScanEpoch == ASSUME EpochInv, TypeInv', NEW c \in CN, Scan(c) PROVE EpochInv'
<1> DEFINE s == cn[c]
           t == [s EXCEPT !.probe = Examined(c)]
<1>1. /\ s.pc \in ProbePcs /\ Count(s) > 0
      /\ cn' = [cn EXCEPT ![c] = t]
      /\ UNCHANGED <<mem, link>>
  BY DEF Scan, mnVars, netVars
<1>2. s \in Process /\ EpochOf(s, mem, link[c])
  BY EpochProcess
<1>3. t.pc = s.pc /\ t.probe = Examined(c) /\ Same(s, t)
  BY <1>2 DEF Process, Same
<1>4. Follows(s, t, mem, link[c])
  <2> HIDE DEF t
  <2>1. CASE s.pc = "wait"
    BY <1>3, <2>1, QuietPcs, QuietFollows
  <2>2. CASE s.pc \in {"read", "readCache"}
    BY <1>2, <1>3, <2>2, ReadFollows DEF EpochOf, Same
  <2>3. CASE s.pc \in {"backup", "repair", "refresh"}
    BY <1>2, <1>3, <2>3, SameFollows DEF ProposingPcs, CommittedPcs
  <2>4. CASE s.pc = "write"
    <3>1. link[c][td_primary_session(s.op.key)] /\ Examined(c).ok
          => KnownEpoch(s, Examined(c), mem)
      BY <1>1, <2>4, WriteProbeEpoch
    <3>2. ~Committed(t) /\ t.pc = "write"
      BY <1>3, <2>4 DEF Committed
    <3>3. t.op = s.op
      BY <1>3 DEF Same
    <3> QED
      BY <1>3, <3>1, <3>2, <3>3 DEF Follows, EpochOf, ProposingPcs, KnownEpoch
  <2> QED
    BY <1>1, <2>1, <2>2, <2>3, <2>4 DEF ProbePcs
<1> HIDE DEF t
<1>5. EpochsAdvance(mem, mem', link')
  BY <1>1, SameMemory
<1> QED
  BY <1>1, <1>4, <1>5, LocalStep

(* The first probe of a read returns.                                      *)
LEMMA ReadPrimeEpoch == ASSUME EpochInv, TypeInv', NEW c \in CN, ReadPrime(c) PROVE EpochInv'
<1> DEFINE s == cn[c]
<1>1. s.pc = "read" /\ s.pc \in ProbePcs /\ UNCHANGED mnVars
  BY DEF ReadPrime, ProbePcs
<1>2. PICK r : /\ ProbeReturns(c, r)
               /\ cn' = [cn EXCEPT ![c] =
                     IF ~r.ok THEN Finish([s EXCEPT !.prime = r], Error)
                     ELSE IF CacheOn THEN Probe([s EXCEPT !.prime = r], "readCache")
                     ELSE ReadPrimeSlot([s EXCEPT !.prime = r])]
  BY Zenon DEF ReadPrime
<1>3. r \in ProbeRecord /\ s \in Process /\ s.op.kind = "read"
  BY <1>1, <1>2, EpochProcess, ProbeReturnsType DEF EpochOf
<1> DEFINE u == [s EXCEPT !.prime = r]
           t == IF ~r.ok THEN Finish(u, Error)
                ELSE IF CacheOn THEN Probe(u, "readCache") ELSE ReadPrimeSlot(u)
<1>4. u \in Process /\ u.op.kind = "read"
  BY <1>3 DEF Process
<1>5. cn' = [cn EXCEPT ![c] = t]
  BY <1>2, Zenon
<1> HIDE DEF u
<1>6. Finish(u, Error).pc = "idle"
  BY FinishShape, Zenon
<1>7. Probe(u, "readCache").pc = "readCache" /\ Probe(u, "readCache").op = u.op
  BY <1>4, ProbeShape DEF Same
<1>8. ReadPrimeSlot(u).pc = "idle" \/ (ReadPrimeSlot(u).pc = "refresh" /\ ReadPrimeSlot(u).op = u.op)
  BY <1>4, ReadShape
<1>9. \/ t.pc = "idle"
      \/ t.pc \in {"readCache", "refresh"} /\ t.op = u.op
  BY <1>6, <1>7, <1>8
<1> HIDE DEF t
<1>10. Follows(s, t, mem, link[c])
  BY <1>4, <1>9, QuietPcs, QuietFollows, ReadFollows
<1> QED
  BY <1>1, <1>2, <1>5, <1>10, ProbeFrame, LocalStep

(* The cache probe of a read returns.                                      *)
LEMMA ReadCacheEpoch == ASSUME EpochInv, TypeInv', NEW c \in CN, ReadCache(c) PROVE EpochInv'
<1> DEFINE s == cn[c]
<1>1. s.pc = "readCache" /\ UNCHANGED mnVars
  BY DEF ReadCache
<1>2. PICK r : /\ ProbeReturns(c, r)
               /\ \/ cn' = [cn EXCEPT ![c] = Finish(s, Reply("value", r.slot.data, 0))]
                  \/ cn' = [cn EXCEPT ![c] = ReadPrimeSlot(s)]
  <2>1. PICK r : /\ ProbeReturns(c, r)
                 /\ cn' = [cn EXCEPT ![c] =
                       IF r.ok /\ CacheConsistent(s, r)
                       THEN Finish(s, Reply("value", r.slot.data, 0))
                       ELSE ReadPrimeSlot(s)]
    BY Zenon DEF ReadCache
  <2> QED
    BY <2>1, Zenon
<1>3. s \in Process /\ s.op.kind = "read"
  BY <1>1, EpochProcess DEF EpochOf
<1>4. Follows(s, Finish(s, Reply("value", r.slot.data, 0)), mem, link[c])
  <2>1. Finish(s, Reply("value", r.slot.data, 0)).pc = "idle"
    BY FinishShape, Zenon
  <2> QED
    BY <2>1, QuietPcs, QuietFollows
<1>5. Follows(s, ReadPrimeSlot(s), mem, link[c])
  <2> DEFINE t == ReadPrimeSlot(s)
  <2>1. t.pc = "idle" \/ (t.pc = "refresh" /\ t.op = s.op)
    BY <1>3, ReadShape
  <2> HIDE DEF t
  <2> QED
    BY <1>3, <2>1, QuietPcs, QuietFollows, ReadFollows DEF t
<1> QED
  BY <1>1, <1>2, <1>4, <1>5, ProbeFrame, LocalStep

(* The first probe of a write returns: the proposal is one epoch ahead.    *)
LEMMA WritePrimeEpoch == ASSUME EpochInv, TypeInv', NEW c \in CN, WritePrime(c) PROVE EpochInv'
<1> DEFINE s == cn[c]
<1>1. s.pc = "write" /\ s.pc \in ProbePcs /\ UNCHANGED mnVars
  BY DEF WritePrime, ProbePcs
<1>2. PICK r : /\ ProbeReturns(c, r)
               /\ r.slot.guard < MaxEpoch
               /\ cn' = [cn EXCEPT ![c] =
                     IF WriteAllowed(s, r) THEN BackupFrom(Propose(s, r), 1)
                                           ELSE Finish(s, Error)]
  BY Zenon DEF WritePrime
<1>3. r \in ProbeRecord /\ s \in Process /\ s.op.key \in Keys
  BY <1>1, <1>2, EpochProcess, ProbeReturnsType
<1>4. CASE ~WriteAllowed(s, r)
  <2>1. cn' = [cn EXCEPT ![c] = Finish(s, Error)]
    BY <1>2, <1>4, Zenon
  <2>2. Finish(s, Error).pc = "idle"
    BY FinishShape, Zenon
  <2>3. Follows(s, Finish(s, Error), mem, link[c])
    BY <2>2, QuietPcs, QuietFollows
  <2> QED
    BY <1>1, <1>2, <2>1, <2>3, ProbeFrame, LocalStep
<1>5. CASE WriteAllowed(s, r)
  <2> DEFINE u == Propose(s, r)
             t == BackupFrom(u, 1)
  <2>1. cn' = [cn EXCEPT ![c] = t]
    BY <1>2, <1>5, Zenon
  <2>2. /\ u \in Process /\ u.op = s.op /\ u.prime = r
        /\ u.prop.visible = r.slot.guard + 1
    BY <1>2, <1>3, ProposeType
  <2> HIDE DEF u
  <2>3. t.pc = "wait" \/ (t.pc \in {"backup", "primeBody"} /\ Same(u, t))
    BY <2>2, BackupShape
  <2> HIDE DEF t
  <2>4. r.ok
    BY <1>5 DEF WriteAllowed
  <2>5. r = Examined(c) /\ Count(s) > 0
    BY <1>2, <2>4 DEF ProbeReturns, ProbeStart
  <2>6. link[c][td_primary_session(s.op.key)] => KnownEpoch(s, r, mem)
    BY <1>1, <2>4, <2>5, WriteProbeEpoch
  <2>7. Follows(s, t, mem, link[c])
    <3>1. CASE t.pc = "wait"
      BY <3>1, QuietPcs, QuietFollows
    <3>2. CASE t.pc \in {"backup", "primeBody"} /\ Same(u, t)
      <4>1. ~Committed(t) /\ t.pc \notin {"read", "readCache", "write"}
        BY <3>2 DEF Committed
      <4>2. t.op = s.op /\ t.prime = r /\ t.prop.visible = r.slot.guard + 1
        BY <2>2, <3>2 DEF Same
      <4> QED
        BY <2>6, <4>1, <4>2 DEF Follows, EpochOf, KnownEpoch
    <3> QED
      BY <2>3, <3>1, <3>2
  <2> QED
    BY <1>1, <1>2, <2>1, <2>7, ProbeFrame, LocalStep
<1> QED
  BY <1>4, <1>5

(* The end of a command is quiet.                                          *)
LEMMA FinishFollows ==
  ASSUME NEW s, NEW r, NEW m, NEW up
  PROVE  Follows(s, Finish(s, r), m, up)
<1>1. Finish(s, r).pc = "idle"
  BY FinishShape, Zenon
<1> QED
  BY <1>1, QuietPcs, QuietFollows

(* A command that has chosen the slot it is about to write.                *)
LEMMA ChosenFollows ==
  ASSUME NEW s \in Process, NEW r, NEW m, NEW up, EpochOf(s, m, up),
         NEW pc, \/ s.pc = "backup" /\ pc = "backupBody"
                 \/ s.pc = "repair" /\ pc = "repairBody"
                 \/ s.pc = "refresh" /\ pc = "refreshBody"
  PROVE  Follows(s, [s EXCEPT !.pc = pc, !.probe = r], m, up)
<1> DEFINE t == [s EXCEPT !.pc = pc, !.probe = r]
<1>1. t.pc = pc /\ Same(s, t)
  BY DEF Process, Same
<1> HIDE DEF t
<1>2. Follows(s, t, m, up)
  BY <1>1, SameFollows DEF ProposingPcs, CommittedPcs
<1> QED
  BY <1>2 DEF t

(* The repair loop after the primary commit.                               *)
LEMMA RepairFollows ==
  ASSUME NEW s \in Process, NEW j \in Nat, s.op.key \in Keys, s.pc \in CommittedPcs,
         NEW m, NEW up, EpochOf(s, m, up)
  PROVE  Follows(s, RepairFrom(s, j), m, up)
<1> DEFINE t == RepairFrom(s, j)
<1>1. t.pc = "idle" \/ (t.pc \in {"repair", "refresh"} /\ Same(s, t))
  BY RepairShape
<1> HIDE DEF t
<1>2. CASE t.pc = "idle"
  BY <1>2, QuietPcs, QuietFollows DEF t
<1>3. CASE t.pc \in {"repair", "refresh"} /\ Same(s, t)
  BY <1>3, SameFollows DEF t, CommittedPcs
<1> QED
  BY <1>1, <1>2, <1>3

(* The probe of a backup returns.                                          *)
LEMMA BackupProbeEpoch == ASSUME EpochInv, TypeInv', NEW c \in CN, BackupProbe(c) PROVE EpochInv'
<1> DEFINE s == cn[c]
<1>1. s.pc = "backup" /\ UNCHANGED mnVars
  BY DEF BackupProbe
<1>2. PICK r : /\ ProbeReturns(c, r)
               /\ \/ cn' = [cn EXCEPT ![c] = [s EXCEPT !.pc = "backupBody", !.probe = r]]
                  \/ cn' = [cn EXCEPT ![c] = Finish(s, Error)]
  <2>1. PICK r : /\ ProbeReturns(c, r)
                 /\ cn' = [cn EXCEPT ![c] =
                       IF r.ok THEN [s EXCEPT !.pc = "backupBody", !.probe = r]
                               ELSE Finish(s, Error)]
    BY Zenon DEF BackupProbe
  <2> QED
    BY <2>1, Zenon
<1>3. s \in Process /\ EpochOf(s, mem, link[c])
  BY EpochProcess
<1>4. Follows(s, [s EXCEPT !.pc = "backupBody", !.probe = r], mem, link[c])
  BY <1>1, <1>3, ChosenFollows
<1>5. Follows(s, Finish(s, Error), mem, link[c])
  BY FinishFollows
<1> QED
  BY <1>1, <1>2, <1>4, <1>5, ProbeFrame, LocalStep

(* The wait for the primary to change ends a command or goes on.           *)
LEMMA WaitEpoch == ASSUME EpochInv, TypeInv', NEW c \in CN, Wait(c) PROVE EpochInv'
<1> DEFINE s == cn[c]
           u == [s EXCEPT !.tries = @ + 1]
<1>1. UNCHANGED mnVars
  BY DEF Wait
<1>2. PICK r : /\ ProbeReturns(c, r)
               /\ \/ cn' = [cn EXCEPT ![c] = Finish(s, Error)]
                  \/ cn' = [cn EXCEPT ![c] = Probe(u, "wait")]
  <2>1. PICK r : /\ ProbeReturns(c, r)
                 /\ cn' = [cn EXCEPT ![c] =
                       IF WaitOver(s, r) THEN Finish(s, Error) ELSE Probe(u, "wait")]
    BY Zenon DEF Wait
  <2> QED
    BY <2>1, Zenon
<1>3. u \in Process
  BY EpochProcess DEF Process
<1>4. Follows(s, Finish(s, Error), mem, link[c])
  BY FinishFollows
<1>5. Probe(u, "wait").pc = "wait"
  BY <1>3, ProbeShape
<1>6. Follows(s, Probe(u, "wait"), mem, link[c])
  BY <1>5, QuietPcs, QuietFollows
<1> HIDE DEF u
<1> QED
  BY <1>1, <1>2, <1>4, <1>6, ProbeFrame, LocalStep

(* The probe of a backup to repair returns.                                *)
LEMMA RepairProbeEpoch == ASSUME EpochInv, TypeInv', NEW c \in CN, RepairProbe(c) PROVE EpochInv'
<1> DEFINE s == cn[c]
<1>1. s.pc = "repair" /\ s.pc \in ProbePcs /\ s.pc \in CommittedPcs /\ UNCHANGED mnVars
  BY DEF RepairProbe, CommittedPcs, ProbePcs
<1>2. PICK r : /\ ProbeReturns(c, r)
               /\ \/ cn' = [cn EXCEPT ![c] = [s EXCEPT !.pc = "repairBody", !.probe = r]]
                  \/ cn' = [cn EXCEPT ![c] = RepairFrom(s, s.idx + 1)]
  <2>1. PICK r : /\ ProbeReturns(c, r)
                 /\ cn' = [cn EXCEPT ![c] =
                       IF r.ok THEN [s EXCEPT !.pc = "repairBody", !.probe = r]
                               ELSE RepairFrom(s, s.idx + 1)]
    BY Zenon DEF RepairProbe
  <2> QED
    BY <2>1, Zenon
<1>3. s \in Process /\ s.op.key \in Keys /\ s.idx + 1 \in Nat /\ EpochOf(s, mem, link[c])
  BY <1>1, EpochProcess
<1>4. Follows(s, [s EXCEPT !.pc = "repairBody", !.probe = r], mem, link[c])
  BY <1>1, <1>3, ChosenFollows
<1>5. Follows(s, RepairFrom(s, s.idx + 1), mem, link[c])
  BY <1>1, <1>3, RepairFollows
<1> QED
  BY <1>1, <1>2, <1>4, <1>5, ProbeFrame, LocalStep

(* The cache probe of a refresh returns.                                   *)
LEMMA RefreshProbeEpoch == ASSUME EpochInv, TypeInv', NEW c \in CN, RefreshProbe(c) PROVE EpochInv'
<1> DEFINE s == cn[c]
<1>1. s.pc = "refresh" /\ UNCHANGED mnVars
  BY DEF RefreshProbe
<1>2. PICK r : /\ ProbeReturns(c, r)
               /\ \/ cn' = [cn EXCEPT ![c] = [s EXCEPT !.pc = "refreshBody", !.probe = r]]
                  \/ cn' = [cn EXCEPT ![c] = Finish(s, Answer(s))]
  <2>1. PICK r : /\ ProbeReturns(c, r)
                 /\ cn' = [cn EXCEPT ![c] =
                       IF r.ok THEN [s EXCEPT !.pc = "refreshBody", !.probe = r]
                               ELSE Finish(s, Answer(s))]
    BY Zenon DEF RefreshProbe
  <2> QED
    BY <2>1, Zenon
<1>3. s \in Process /\ EpochOf(s, mem, link[c])
  BY EpochProcess
<1>4. Follows(s, [s EXCEPT !.pc = "refreshBody", !.probe = r], mem, link[c])
  BY <1>1, <1>3, ChosenFollows
<1>5. Follows(s, Finish(s, Answer(s)), mem, link[c])
  BY FinishFollows
<1> QED
  BY <1>1, <1>2, <1>4, <1>5, ProbeFrame, LocalStep

(* The body of a slot is written.                                          *)
LEMMA WriteBodyEpoch == ASSUME EpochInv, TypeInv', NEW c \in CN, WriteBody(c) PROVE EpochInv'
<1> DEFINE s == cn[c]
           t == [s EXCEPT !.pc = CasOf[s.pc]]
<1>1. /\ s.pc \in BodyPcs /\ Served(c) /\ mem' = BodyWritten(s)
      /\ cn' = [cn EXCEPT ![c] = t]
      /\ UNCHANGED netVars
  BY DEF WriteBody
<1>2. s \in Process /\ EpochOf(s, mem, link[c])
  BY EpochProcess
<1>3. t.pc = CasOf[s.pc] /\ Same(s, t)
  BY <1>2 DEF Process, Same
<1> HIDE DEF t
<1>4. \/ s.pc \in ProposingPcs /\ t.pc \in ProposingPcs
      \/ s.pc \in CommittedPcs /\ t.pc \in CommittedPcs
  BY <1>1, <1>3 DEF BodyPcs, CasOf, ProposingPcs, CommittedPcs
<1>5. Follows(s, t, mem, link[c])
  BY <1>2, <1>3, <1>4, SameFollows
<1>6. EpochsAdvance(mem, mem', link')
  BY <1>1, BodyEpochs
<1>7. \A d \in CN, n \in Nodes : link'[d][n] => link[d][n]
  BY <1>1 DEF netVars
<1> QED
  BY <1>1, <1>5, <1>6, <1>7, LocalStep

(* The sessions and the memory when a commit returns.                      *)
LEMMA CommitFrame ==
  ASSUME EpochInv, NEW c \in CN, cn[c].pc \in BodyPcs \cup CasPcs,
         NEW won \in BOOLEAN, CommitReturns(c, won)
  PROVE  /\ EpochsAdvance(mem, mem', link')
         /\ \A d \in CN, n \in Nodes : link'[d][n] => link[d][n]
<1>1. (Severed(c) \/ UNCHANGED netVars) /\ TypeInv
  BY DEF CommitReturns, EpochInv
<1> QED
  BY <1>1, CommitEpochs, LinksBreak

(* A backup has voted.                                                     *)
LEMMA BackupCommitEpoch == ASSUME EpochInv, TypeInv', NEW c \in CN, BackupCommit(c) PROVE EpochInv'
<1> DEFINE s == cn[c]
<1>1. s.pc \in BodyPcs \cup CasPcs /\ s.pc \in ProposingPcs
  BY DEF BackupCommit, BodyPcs, CasPcs, CasOf, ProposingPcs
<1>2. PICK won \in BOOLEAN :
         /\ CommitReturns(c, won)
         /\ cn' = [cn EXCEPT ![c] =
               BackupFrom([s EXCEPT !.votes[s.idx] =
                              [success |-> won,
                               tie |-> IF won THEN 0 ELSE s.probe.slot.tie]],
                          s.idx + 1)]
  BY Zenon DEF BackupCommit
<1> DEFINE vote == [success |-> won, tie |-> IF won THEN 0 ELSE s.probe.slot.tie]
           u == [s EXCEPT !.votes[s.idx] = vote]
           t == BackupFrom(u, s.idx + 1)
<1>3. s \in Process /\ s.idx + 1 \in Nat /\ EpochOf(s, mem, link[c])
  BY EpochProcess
<1>4. s.probe.slot.tie \in 0 .. MaxTie /\ 0 \in 0 .. MaxTie
  BY <1>3, TieAssumption DEF Process, ProbeRecord, Slot
<1>5. vote \in Vote
  BY <1>4 DEF Vote
<1>6. cn' = [cn EXCEPT ![c] = t]
  BY <1>2, Zenon
<1> HIDE DEF vote
<1>7. u \in Process /\ Same(s, u)
  BY <1>3, <1>5 DEF Process, Same
<1> HIDE DEF u
<1>8. t.pc = "wait" \/ (t.pc \in {"backup", "primeBody"} /\ Same(u, t))
  BY <1>3, <1>7, BackupShape
<1> HIDE DEF t
<1>9. Follows(s, t, mem, link[c])
  <2>1. CASE t.pc = "wait"
    BY <2>1, QuietPcs, QuietFollows
  <2>2. CASE t.pc \in {"backup", "primeBody"} /\ Same(u, t)
    <3>1. Same(s, t) /\ t.pc \in ProposingPcs
      BY <1>7, <2>2 DEF Same, ProposingPcs
    <3> QED
      BY <1>1, <1>3, <3>1, SameFollows
  <2> QED
    BY <1>8, <2>1, <2>2
<1> QED
  BY <1>1, <1>2, <1>6, <1>9, CommitFrame, LocalStep

(* The primary commit: the one step that takes an epoch.                   *)
LEMMA PrimeCommitEpoch == ASSUME EpochInv, TypeInv', NEW c \in CN, PrimeCommit(c) PROVE EpochInv'
<1> DEFINE s == cn[c]
<1>1. s.pc \in BodyPcs \cup CasPcs /\ s.pc \in {"primeBody", "primeCas"}
  BY DEF PrimeCommit, BodyPcs, CasPcs, CasOf
<1>2. PICK won \in BOOLEAN :
         /\ CommitReturns(c, won)
         /\ cn' = [cn EXCEPT ![c] = IF won THEN RepairFrom(s, 1) ELSE Finish(s, Error)]
  BY Zenon DEF PrimeCommit
<1>3. s \in Process /\ s.op.key \in Keys /\ TypeInv
  BY <1>1, EpochProcess
<1>4. CASE ~won
  <2>1. cn' = [cn EXCEPT ![c] = Finish(s, Error)]
    BY <1>2, <1>4, Zenon
  <2> QED
    BY <1>1, <1>2, <2>1, FinishFollows, CommitFrame, LocalStep
<1>5. CASE won
  <2> DEFINE t == RepairFrom(s, 1)
  <2>1. cn' = [cn EXCEPT ![c] = t]
    BY <1>2, <1>5, Zenon
  <2>2. t.pc = "idle" \/ (t.pc \in {"repair", "refresh"} /\ Same(s, t))
    BY <1>3, RepairShape
  <2> HIDE DEF t
  <2>3. /\ PrimeDest(s) \in PrimeAddr
        /\ s.prop.visible = mem[PrimeDest(s)].guard + 1
        /\ mem'[PrimeDest(s)].guard = s.prop.visible
    BY <1>1, <1>2, <1>5, CommitEpochs
  <2>4. PrimeDest(s) \in Addr /\ s.prop.visible \in Nat
    BY <1>3, <2>3, EpochTypes DEF PrimeAddr, AddrOf
  <2>5. EpochOf(t, mem', link'[c]) /\ KeptOrFresh(s, t, mem)
    <3>1. CASE t.pc = "idle"
      <4>1. ~Committed(t)
        BY <3>1 DEF Committed
      <4> QED
        BY <3>1, <4>1, QuietPcs, QuietEpoch DEF KeptOrFresh
    <3>2. CASE t.pc \in {"repair", "refresh"} /\ Same(s, t)
      <4>1. PrimeDest(t) = PrimeDest(s) /\ t.prop = s.prop
        BY <3>2 DEF Same, PrimeDest
      <4>2. s.prop.visible <= mem'[PrimeDest(s)].guard
        BY <2>3, <2>4
      <4>3. EpochOf(t, mem', link'[c])
        BY <2>4, <3>2, <4>1, <4>2 DEF EpochOf, ProposingPcs
      <4> QED
        BY <2>3, <4>1, <4>3 DEF KeptOrFresh
    <3> QED
      BY <2>2, <3>1, <3>2
  <2>6. cn'[c] = t /\ \A d \in CN : d # c => cn'[d] = cn[d]
    BY <1>3, <2>1 DEF TypeInv, TypeOK
  <2>7. c \in Evictors
    BY DEF Evictors
  <2>8. /\ EpochsAdvance(mem, mem', link')
        /\ \A d \in CN, n \in Nodes : link'[d][n] => link[d][n]
    BY <1>1, <1>2, CommitFrame
  <2> QED
    BY <2>5, <2>6, <2>7, <2>8, EpochStep
<1> QED
  BY <1>4, <1>5

(* A backup has been repaired, or not.                                     *)
LEMMA RepairCommitEpoch == ASSUME EpochInv, TypeInv', NEW c \in CN, RepairCommit(c) PROVE EpochInv'
<1> DEFINE s == cn[c]
<1>1. s.pc \in BodyPcs \cup CasPcs /\ s.pc \in CommittedPcs
  BY DEF RepairCommit, BodyPcs, CasPcs, CasOf, CommittedPcs
<1>2. PICK won \in BOOLEAN : CommitReturns(c, won)
  BY DEF RepairCommit
<1>3. cn' = [cn EXCEPT ![c] = RepairFrom(s, s.idx + 1)]
  BY Zenon DEF RepairCommit
<1>4. s \in Process /\ s.op.key \in Keys /\ s.idx + 1 \in Nat /\ EpochOf(s, mem, link[c])
  BY <1>1, EpochProcess
<1>5. Follows(s, RepairFrom(s, s.idx + 1), mem, link[c])
  BY <1>1, <1>4, RepairFollows
<1> QED
  BY <1>1, <1>2, <1>3, <1>5, CommitFrame, LocalStep

(* The cache has been refreshed, or not.                                   *)
LEMMA RefreshCommitEpoch == ASSUME EpochInv, TypeInv', NEW c \in CN, RefreshCommit(c) PROVE EpochInv'
<1> DEFINE s == cn[c]
<1>1. s.pc \in BodyPcs \cup CasPcs
  BY DEF RefreshCommit, BodyPcs, CasPcs, CasOf
<1>2. PICK won \in BOOLEAN : CommitReturns(c, won)
  BY DEF RefreshCommit
<1>3. cn' = [cn EXCEPT ![c] = Finish(s, Answer(s))]
  BY Zenon DEF RefreshCommit
<1> QED
  BY <1>1, <1>2, <1>3, FinishFollows, CommitFrame, LocalStep

(* A step to a quiet state that leaves the memory alone.                   *)
LEMMA QuietStep ==
  ASSUME EpochInv, TypeInv', NEW c \in CN, NEW t, Quiet(t), cn' = [cn EXCEPT ![c] = t],
         UNCHANGED mem, \A d \in CN, n \in Nodes : link'[d][n] => link[d][n] \/ d = c
  PROVE  EpochInv'
<1>1. cn \in [CN -> Process] /\ c \in Evictors
  BY DEF EpochInv, TypeInv, TypeOK, Evictors
<1>2. cn'[c] = t /\ \A d \in CN : d # c => cn'[d] = cn[d]
  BY <1>1
<1>3. EpochsAdvance(mem, mem', link')
  BY SameMemory
<1>4. EpochOf(t, mem', link'[c]) /\ ~Committed(t)
  BY QuietFollows, CommittedDef DEF Follows, Quiet
<1> QED
  BY <1>1, <1>2, <1>3, <1>4, EpochStep DEF KeptOrFresh

(* A process that is off, or has just connected, is quiet.                 *)
LEMMA OffQuiet ==
  ASSUME NEW n
  PROVE  Quiet([Off EXCEPT !.ops = n]) /\ Quiet([Off EXCEPT !.pc = "idle", !.ops = n])
<1> DEFINE t == [Off EXCEPT !.ops = n]
           u == [Off EXCEPT !.pc = "idle", !.ops = n]
<1>1. t.pc = "off" /\ u.pc = "idle"
  BY DEF Off
<1> HIDE DEF t, u
<1>2. Quiet(t) /\ Quiet(u)
  BY <1>1, QuietPcs
<1> QED
  BY <1>2 DEF t, u

(* Connecting, quitting and dying.                                         *)
LEMMA SessionEpoch ==
  ASSUME EpochInv, TypeInv', NEW c \in CN, Connect(c) \/ Quit(c) \/ Crash(c)
  PROVE  EpochInv'
<1>1. link \in [CN -> [Nodes -> BOOLEAN]]
  BY DEF EpochInv, TypeInv, TypeOK
<1>2. \E x : link' = [link EXCEPT ![c] = x]
  BY DEF Connect, Quit, Crash
<1>3. \A d \in CN, n \in Nodes : link'[d][n] => link[d][n] \/ d = c
  BY <1>1, <1>2
<1>4. UNCHANGED mem
  BY DEF Connect, Quit, Crash, mnVars
<1>5. \/ cn' = [cn EXCEPT ![c] = [Off EXCEPT !.ops = cn[c].ops]]
      \/ cn' = [cn EXCEPT ![c] = [Off EXCEPT !.pc = "idle", !.ops = cn[c].ops]]
  BY Zenon DEF Connect, Quit, Crash
<1> QED
  BY <1>3, <1>4, <1>5, OffQuiet, QuietStep

(* Issuing a command.                                                      *)
LEMMA BeginEpoch ==
  ASSUME EpochInv, TypeInv', NEW c \in CN, NEW o \in Requests, Begin(c, o)
  PROVE  EpochInv'
<1> DEFINE s == [Off EXCEPT !.op = o, !.ops = cn[c].ops + 1]
           t == CASE o.kind = "read" -> Probe(s, "read")
                  [] o.kind = "evict" -> EvictFrom(s, 0)
                  [] OTHER -> Probe(s, "write")
<1>1. cn' = [cn EXCEPT ![c] = t] /\ UNCHANGED <<mnVars, netVars>>
  BY Zenon DEF Begin
<1>2. cn[c].ops + 1 \in 0 .. MaxOps
  BY BoundsAssumption DEF Begin, EpochInv, TypeInv, TypeOK, Process
<1>3. s \in Process /\ s.op = o
  BY <1>2, OffType DEF Process
<1> HIDE DEF s
<1>4. CASE o.kind = "read"
  <2>1. t.pc = "read" /\ t.op = o
    BY <1>3, <1>4, ProbeShape DEF Same
  <2> HIDE DEF t
  <2>2. Follows(cn[c], t, mem, link[c])
    BY <1>4, <2>1, ReadFollows
  <2>3. mem' = mem /\ link' = link
    BY <1>1 DEF mnVars, netVars
  <2>4. EpochsAdvance(mem, mem', link')
    BY <2>3, SameMemory
  <2> QED
    BY <1>1, <2>2, <2>3, <2>4, LocalStep
<1>5. CASE o.kind # "read"
  <2>1. Quiet(EvictFrom(s, 0))
    BY <1>3, EvictShape
  <2>2. Probe(s, "write").pc = "write" /\ ~Probe(s, "write").probe.ok
    BY <1>3, ProbeShape
  <2>3. Quiet(Probe(s, "write"))
    BY <2>2 DEF Quiet, ProposingPcs, CommittedPcs
  <2>4. Quiet(t)
    BY <1>5, <2>1, <2>3
  <2> HIDE DEF t
  <2> QED
    BY <1>1, <2>4, QuietStep DEF mnVars, netVars
<1> QED
  BY <1>4, <1>5

(* The evict command.                                                      *)
LEMMA EvictEpoch ==
  ASSUME EpochInv, TypeInv', NEW c \in CN,
         EvictRequest(c) \/ EvictAnswered(c) \/ EvictFails(c)
  PROVE  EpochInv'
<1> DEFINE s == cn[c]
           u == [s EXCEPT !.pc = "evictReply"]
<1>1. s \in Process /\ TypeInv
  BY EpochProcess
<1>2. UNCHANGED mem /\ (Severed(c) \/ UNCHANGED netVars)
  BY DEF EvictRequest, EvictAnswered, EvictFails, mnVars
<1>3. \A d \in CN, n \in Nodes : link'[d][n] => link[d][n] \/ d = c
  BY <1>1, <1>2, LinksBreak
<1>4. \/ cn' = [cn EXCEPT ![c] = u]
      \/ cn' = [cn EXCEPT ![c] = EvictFrom(s, s.idx + 1)]
      \/ cn' = [cn EXCEPT ![c] = Finish(s, Error)]
  BY Zenon DEF EvictRequest, EvictAnswered, EvictFails
<1>5. u.pc = "evictReply"
  BY <1>1 DEF Process
<1>6. Finish(s, Error).pc = "idle"
  BY FinishShape, Zenon
<1> HIDE DEF u
<1>7. Quiet(u) /\ Quiet(Finish(s, Error))
  BY <1>5, <1>6, QuietPcs
<1>8. Quiet(EvictFrom(s, s.idx + 1))
  BY <1>1, EvictShape
<1> QED
  BY <1>2, <1>3, <1>4, <1>7, <1>8, QuietStep

(* The steps of a memory node: a sweep leaves PRIME alone, a restart ends  *)
(* every session with the node.                                            *)
LEMMA NodeAdvances ==
  ASSUME EpochInv, NEW n \in Nodes, NodeNext(n)
  PROVE  /\ EpochsAdvance(mem, mem', link')
         /\ \A d \in CN, i \in Nodes : link'[d][i] => link[d][i]
<1>1. CASE ThreadCount(n)
  BY <1>1, SameMemory DEF ThreadCount, netVars
<1>2. ASSUME NEW e \in Evictors, Sweep(n, e)
      PROVE  /\ EpochsAdvance(mem, mem', link')
             /\ \A d \in CN, i \in Nodes : link'[d][i] => link[d][i]
  <2>1. mem' = Cleared(n, Victims(n, target[n][e])) /\ link' = link
    BY <1>2, Zenon DEF Sweep, netVars
  <2>2. \A a \in PrimeAddr : mem'[a] = mem[a]
    BY <2>1 DEF Cleared, PrimeAddr, AddrOf
  <2> QED
    BY <2>1, <2>2, SameMemory DEF EpochsAdvance
<1>3. CASE Restart(n)
  <2>1. /\ mem' = [a \in Addr |-> IF a[1] = n THEN EmptySlot ELSE mem[a]]
        /\ link' = [c \in CN |-> [link[c] EXCEPT ![n] = FALSE]]
    BY <1>3 DEF Restart
  <2>2. link \in [CN -> [Nodes -> BOOLEAN]]
    BY DEF EpochInv, TypeInv, TypeOK
  <2>3. \A d \in CN, i \in Nodes : (link'[d][i] => link[d][i]) /\ ~link'[d][n]
    BY <2>1, <2>2
  <2>4. \A a \in PrimeAddr : \/ a[1] = n /\ mem'[a] = EmptySlot
                             \/ mem'[a] = mem[a]
    BY <2>1 DEF PrimeAddr, AddrOf
  <2>5. EpochsAdvance(mem, mem', link')
    BY <2>3, <2>4, SameMemory DEF EpochsAdvance
  <2> QED
    BY <2>3, <2>5
<1> QED
  BY <1>1, <1>2, <1>3 DEF NodeNext

(* The steps of a memory node leave the processes alone.                   *)
LEMMA NodeEpoch == ASSUME EpochInv, TypeInv', NEW n \in Nodes, NodeNext(n) PROVE EpochInv'
<1>1. UNCHANGED cn
  BY DEF NodeNext, ThreadCount, Restart, Sweep
<1>2. Thread \in Evictors /\ Thread \notin CN
  BY ThreadAssumption DEF Evictors
<1> QED
  BY <1>1, <1>2, NodeAdvances, EpochStep

(***************************************************************************)
(* The theorems.                                                           *)
(***************************************************************************)

(* The initial states satisfy the invariant of epochs.                     *)
LEMMA InitEpoch == Init => EpochInv
<1> SUFFICES ASSUME Init PROVE EpochInv
  OBVIOUS
<1>1. TypeInv
  BY InitType
<1>2. \A c \in CN : cn[c].pc = "off"
  BY DEF Init, Off
<1>3. \A c \in CN : Quiet(cn[c]) /\ ~Committed(cn[c])
  BY <1>2, QuietPcs DEF Committed
<1>4. \A c \in CN : EpochOf(cn[c], mem, link[c])
  BY <1>3, QuietEpoch
<1>5. VisibleAtMostOneAhead
  BY DEF Init, VisibleAtMostOneAhead, AddrOf, EmptySlot
<1>6. OneCommitPerEpoch
  BY <1>3 DEF OneCommitPerEpoch
<1> QED
  BY <1>1, <1>4, <1>5, <1>6 DEF EpochInv

(* Every step keeps the invariant of epochs.                               *)
LEMMA NextEpoch == EpochInv /\ [Next]_vars => EpochInv'
<1> SUFFICES ASSUME EpochInv, [Next]_vars PROVE EpochInv'
  OBVIOUS
<1>1. TypeInv'
  BY NextType DEF EpochInv
<1>2. CASE UNCHANGED vars
  <2>1. /\ \A d \in CN : cn'[d] = cn[d]
        /\ \A d \in CN, n \in Nodes : link'[d][n] => link[d][n]
        /\ EpochsAdvance(mem, mem', link')
    BY <1>2, SameMemory DEF vars
  <2>2. Thread \in Evictors /\ Thread \notin CN
    BY ThreadAssumption DEF Evictors
  <2> QED
    BY <1>1, <2>1, <2>2, EpochStep
<1>3. ASSUME NEW c \in CN, ClientNext(c) PROVE EpochInv'
  <2>1. CASE Connect(c) \/ Quit(c) \/ Crash(c)
    BY <1>1, <2>1, SessionEpoch
  <2>2. ASSUME NEW o \in Requests, Begin(c, o) PROVE EpochInv'
    BY <1>1, <2>2, BeginEpoch
  <2>3. CASE Scan(c) \/ ReadPrime(c) \/ ReadCache(c) \/ WritePrime(c) \/ BackupProbe(c)
    BY <1>1, <2>3, ScanEpoch, ReadPrimeEpoch, ReadCacheEpoch, WritePrimeEpoch,
       BackupProbeEpoch
  <2>4. CASE Wait(c) \/ RepairProbe(c) \/ RefreshProbe(c)
    BY <1>1, <2>4, WaitEpoch, RepairProbeEpoch, RefreshProbeEpoch
  <2>5. CASE \/ WriteBody(c) \/ BackupCommit(c) \/ PrimeCommit(c)
             \/ RepairCommit(c) \/ RefreshCommit(c)
    BY <1>1, <2>5, WriteBodyEpoch, BackupCommitEpoch, PrimeCommitEpoch,
       RepairCommitEpoch, RefreshCommitEpoch
  <2>6. CASE EvictRequest(c) \/ EvictAnswered(c) \/ EvictFails(c)
    BY <1>1, <2>6, EvictEpoch
  <2> QED
    BY <1>3, <2>1, <2>2, <2>3, <2>4, <2>5, <2>6 DEF ClientNext, CommandStep
<1>4. ASSUME NEW n \in Nodes, NodeNext(n) PROVE EpochInv'
  BY <1>1, <1>4, NodeEpoch
<1> QED
  BY <1>2, <1>3, <1>4 DEF Next

(* The epochs of PRIME are sound in every reachable state.                 *)
LEMMA EpochInvariant == Spec => []EpochInv
  BY InitEpoch, NextEpoch, PTL DEF Spec

(* Of the commands whose primary commit succeeded, no two took the same    *)
(* epoch of the same PRIME slot, however clients interleave and fail: the  *)
(* CAS in td_commit_slot_at against the epoch of the first probe is enough *)
(* as long as the primary does not restart.                                *)
THEOREM OneWinnerPerEpoch == Spec => []OneCommitPerEpoch
<1>1. EpochInv => OneCommitPerEpoch
  BY DEF EpochInv
<1> QED
  BY <1>1, EpochInvariant, PTL

(* A body written late never carries an epoch more than one past the guard *)
(* of its PRIME slot.                                                      *)
THEOREM BodiesNeverRunAhead == Spec => []VisibleAtMostOneAhead
<1>1. EpochInv => VisibleAtMostOneAhead
  BY DEF EpochInv
<1> QED
  BY <1>1, EpochInvariant, PTL

(* Every step takes the epochs of PRIME forward, or zeroes a region.       *)
LEMMA StepAdvances == EpochInv /\ [Next]_vars => EpochsAdvance(mem, mem', link')
<1> SUFFICES ASSUME EpochInv, [Next]_vars PROVE EpochsAdvance(mem, mem', link')
  OBVIOUS
<1>1. ASSUME NEW c \in CN, ClientNext(c) PROVE EpochsAdvance(mem, mem', link')
  <2>1. CASE WriteBody(c)
    BY <2>1, BodyEpochs DEF WriteBody
  <2>2. CASE BackupCommit(c) \/ PrimeCommit(c) \/ RepairCommit(c) \/ RefreshCommit(c)
    <3>1. cn[c].pc \in BodyPcs \cup CasPcs /\ \E won \in BOOLEAN : CommitReturns(c, won)
      BY <2>2 DEF BackupCommit, PrimeCommit, RepairCommit, RefreshCommit,
                  BodyPcs, CasPcs, CasOf
    <3> QED
      BY <3>1, CommitEpochs
  <2>3. CASE UNCHANGED mem
    BY <2>3, SameMemory
  <2>4. \/ WriteBody(c) \/ BackupCommit(c) \/ PrimeCommit(c)
        \/ RepairCommit(c) \/ RefreshCommit(c) \/ UNCHANGED mem
    <3>1. CASE Connect(c) \/ Quit(c) \/ Crash(c) \/ \E o \in Requests : Begin(c, o)
      BY <3>1 DEF Connect, Quit, Crash, Begin, mnVars
    <3>2. CASE \/ Scan(c) \/ ReadPrime(c) \/ ReadCache(c) \/ WritePrime(c) \/ BackupProbe(c)
               \/ Wait(c) \/ RepairProbe(c) \/ RefreshProbe(c)
      BY <3>2 DEF Scan, ReadPrime, ReadCache, WritePrime, BackupProbe, Wait,
                  RepairProbe, RefreshProbe, mnVars
    <3>3. CASE EvictRequest(c) \/ EvictAnswered(c) \/ EvictFails(c)
      BY <3>3 DEF EvictRequest, EvictAnswered, EvictFails, mnVars
    <3> QED
      BY <1>1, <3>1, <3>2, <3>3 DEF ClientNext, CommandStep
  <2> QED
    BY <2>1, <2>2, <2>3, <2>4
<1>2. ASSUME NEW n \in Nodes, NodeNext(n) PROVE EpochsAdvance(mem, mem', link')
  BY <1>2, NodeAdvances
<1>3. CASE UNCHANGED vars
  BY <1>3, SameMemory DEF vars
<1> QED
  BY <1>1, <1>2, <1>3 DEF Next

(* The guard epoch of a PRIME slot moves by one at a time and never back,  *)
(* except that a restart zeroes the region (td_region_open): delayed       *)
(* commits, repairs and dying clients cannot take it to a past epoch.      *)
THEOREM EpochsNeverGoBack == Spec => PrimeEpochStep
<1> DEFINE Step == \A a \in AddrOf({"prime"}) :
                     \/ mem'[a].guard \in {mem[a].guard, mem[a].guard + 1}
                     \/ mem'[a] = EmptySlot
<1>1. EpochInv /\ [Next]_vars => [Step]_vars
  BY StepAdvances DEF EpochsAdvance, PrimeAddr
<1>2. Spec => [][Step]_vars
  BY <1>1, EpochInvariant, PTL DEF Spec
<1> QED
  BY <1>2 DEF PrimeEpochStep
=============================================================================
