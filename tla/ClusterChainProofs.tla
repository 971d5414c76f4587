-------------------------- MODULE ClusterChainProofs --------------------------
(***************************************************************************)
(* Proofs about the slots of PRIME and BACKUP: which slots a client may    *)
(* still write, and that no record lies behind an empty slot.              *)
(*                                                                         *)
(* The first part describes every step of a client by its shape: what it   *)
(* does to the variables of the command, to memory and to sessions.  The   *)
(* invariants are then proved against the shapes.                          *)
(***************************************************************************)
EXTENDS ClusterEpochProofs

(***************************************************************************)
(* The shapes.  t is the process of c after the step.                      *)
(***************************************************************************)

Fresh(t) == t.probe = ProbeStart

(* td_probe_slot returns the candidate r from a node that answered.        *)
Returned(c, r) == Count(cn[c]) > 0 /\ Served(c) /\ r = Examined(c) /\ r.ok

Still == mem' = mem /\ link' = link

(* The command is over, or the process is.                                 *)
RestShape(t) == t.pc \in {"off", "idle"}

(* An evict command begins or goes on.                                     *)
EvictingShape(c, t) == t.pc \in EvictPcs /\ (cn[c].pc \in EvictPcs \/ "evict" \in OpKinds)

(* A command begins to probe PRIME.                                        *)
StartShape(t) == t.pc \in {"read", "write"} /\ Fresh(t) /\ Still

(* A probe goes on to the next slot.                                       *)
ScanShape(c, t) == /\ cn[c].pc \in ProbePcs /\ t.pc = cn[c].pc
                   /\ Count(cn[c]) > 0 /\ Served(c)
                   /\ ~ProbeOver(Examined(c), Fetched(c), Count(cn[c]))
                   /\ Same(cn[c], t) /\ t.idx = cn[c].idx
                   /\ t.probe = Examined(c)
                   /\ Still

(* A read has its PRIME slot, and looks into the cache or refreshes it.    *)
ReadShapeOf(c, t, r) ==
    /\ cn[c].pc = "read" /\ Returned(c, r)
    /\ t.op = cn[c].op /\ t.prime = r /\ Fresh(t)
    /\ \/ t.pc = "readCache"
       \/ /\ t.pc = "refresh" /\ t.prop = r.slot
          /\ td_slot_present(r.slot, Hash[cn[c].op.key])
    /\ Still

(* A read refreshes the cache with the PRIME slot it found before.         *)
MissShape(c, t) ==
    /\ cn[c].pc = "readCache" /\ t.pc = "refresh"
    /\ t.op = cn[c].op /\ t.prime = cn[c].prime /\ t.prop = cn[c].prime.slot
    /\ td_slot_present(t.prop, Hash[cn[c].op.key])
    /\ Fresh(t)

(* A write has its PRIME slot and its proposal.                            *)
ProposeShape(c, t, r) ==
    /\ cn[c].pc = "write" /\ Returned(c, r)
    /\ t.op = cn[c].op /\ t.prime = r
    /\ t.prop.valid /\ t.prop.hash = Hash[cn[c].op.key] /\ t.prop.visible > 0
    /\ t.pc = "primeBody" \/ (t.pc \in {"backup", "wait"} /\ Fresh(t))
    /\ Still

(* The candidate of a probe is about to be written.                        *)
ChooseShape(c, t, r) ==
    /\ Returned(c, r)
    /\ Same(cn[c], t) /\ t.idx = cn[c].idx /\ t.probe = r
    /\ \/ cn[c].pc = "backup" /\ t.pc = "backupBody"
       \/ cn[c].pc = "repair" /\ t.pc = "repairBody"
       \/ cn[c].pc = "refresh" /\ t.pc = "refreshBody"
    /\ Still

(* The body of the candidate has been written.                             *)
BodyShape(c, t) ==
    /\ cn[c].pc \in BodyPcs /\ t.pc = CasOf[cn[c].pc]
    /\ Same(cn[c], t) /\ t.idx = cn[c].idx /\ t.probe = cn[c].probe

(* The command goes on to another slot with the same proposal.             *)
MoveShape(c, t) ==
    /\ Same(cn[c], t)
    /\ t.pc = "primeBody" \/ Fresh(t)
    /\ \/ cn[c].pc \in {"backupBody", "backupCas"} /\ t.pc \in {"backup", "primeBody", "wait"}
       \/ /\ cn[c].pc \in {"primeBody", "primeCas"} /\ t.pc \in {"repair", "refresh"}
          /\ CommitReturns(c, TRUE)
       \/ cn[c].pc \in {"repair", "repairBody", "repairCas"} /\ t.pc \in {"repair", "refresh"}
       \/ cn[c].pc = "wait" /\ t.pc = "wait"

Shape(c, t) == \/ RestShape(t) \/ EvictingShape(c, t) \/ StartShape(t) \/ ScanShape(c, t)
               \/ (\E r : ReadShapeOf(c, t, r)) \/ MissShape(c, t)
               \/ (\E r : ProposeShape(c, t, r)) \/ (\E r : ChooseShape(c, t, r))
               \/ BodyShape(c, t) \/ MoveShape(c, t)

(* What a step of c does to memory.                                        *)
MemoryShape(c) == \/ mem' = mem
                  \/ /\ cn[c].pc \in BodyPcs /\ Served(c)
                     /\ mem' = BodyWritten(cn[c])
                  \/ /\ cn[c].pc \in CasPcs /\ Served(c)
                     /\ mem' = CasApplied(cn[c])

(* What it does to sessions: they come up with a new process only.         *)
LinkShape(c) ==
    \A d \in CN, n \in Nodes : link'[d][n] => link[d][n] \/ (d = c /\ RestShape(cn'[c]))

(* A step of c as a whole.                                                 *)
StepShape(c) == /\ Shape(c, cn'[c])
                /\ \A d \in CN : d # c => cn'[d] = cn[d]
                /\ MemoryShape(c)
                /\ LinkShape(c)

(***************************************************************************)
(* The local steps once more, with the probe they start.                   *)
(***************************************************************************)

(* Probe starts a probe and keeps the rest.                                *)
LEMMA ProbeFresh ==
  ASSUME NEW s \in Process, NEW pc
  PROVE  /\ Same(s, Probe(s, pc)) /\ Probe(s, pc).pc = pc
         /\ Fresh(Probe(s, pc)) /\ Probe(s, pc).idx = s.idx
  BY DEF Same, Probe, Process, Fresh

(* The refresh probes CACHE or ends the command.                           *)
LEMMA RefreshFresh ==
  ASSUME NEW s \in Process
  PROVE  LET t == td_refresh_cache_best_effort(s)
         IN  t.pc = "idle" \/ (t.pc = "refresh" /\ Same(s, t) /\ Fresh(t))
<1>1. CASE CacheOn
  <2>1. td_refresh_cache_best_effort(s) = Probe(s, "refresh")
    BY <1>1 DEF td_refresh_cache_best_effort
  <2> QED
    BY <2>1, ProbeFresh
<1>2. CASE ~CacheOn
  <2>1. td_refresh_cache_best_effort(s) = Finish(s, Answer(s))
    BY <1>2 DEF td_refresh_cache_best_effort
  <2>2. Finish(s, Answer(s)).pc = "idle"
    BY FinishShape, Zenon
  <2> QED
    BY <2>1, <2>2, Zenon
<1> QED
  BY <1>1, <1>2

(* The repair loop starts a probe of a backup or of CACHE.                 *)
LEMMA RepairFresh ==
  ASSUME NEW s \in Process, NEW j \in Nat, s.op.key \in Keys
  PROVE  LET t == RepairFrom(s, j)
         IN  t.pc = "idle" \/ (t.pc \in {"repair", "refresh"} /\ Same(s, t) /\ Fresh(t))
<1> DEFINE rest == {i \in Lost(s.votes) : i >= j}
           next == CHOOSE i \in rest : \A i2 \in rest : i <= i2
           u == [s EXCEPT !.idx = next]
<1>1. CASE rest = {}
  BY <1>1, RefreshFresh DEF RepairFrom
<1>2. CASE rest # {}
  <2>1. rest \subseteq Nat
    BY BackupsType DEF Lost, Process
  <2>2. next \in Nat
    <3>1. \E i \in rest : \A i2 \in rest : i <= i2
      BY <1>2, <2>1, LeastElement
    <3> QED
      BY <2>1, <3>1
  <2>3. RepairFrom(s, j) = Probe(u, "repair")
    BY <1>2 DEF RepairFrom
  <2> HIDE DEF next
  <2>4. u \in Process /\ Same(s, u)
    BY <2>2 DEF Process, Same
  <2> HIDE DEF u
  <2> QED
    BY <2>3, <2>4, ProbeFresh DEF Same
<1> QED
  BY <1>1, <1>2

(* The backup loop starts a probe, or goes to the primary's slot.          *)
LEMMA BackupFresh ==
  ASSUME NEW s \in Process, NEW j \in Nat
  PROVE  LET t == BackupFrom(s, j)
         IN  /\ Same(s, t)
             /\ t.pc = "primeBody" \/ (t.pc \in {"backup", "wait"} /\ Fresh(t))
<1> DEFINE u == [s EXCEPT !.idx = j]
<1>1. CASE j \in Backups
  <2>1. BackupFrom(s, j) = Probe(u, "backup")
    BY <1>1 DEF BackupFrom
  <2>2. u \in Process /\ Same(s, u)
    BY DEF Process, Same
  <2> HIDE DEF u
  <2> QED
    BY <2>1, <2>2, ProbeFresh DEF Same
<1>2. CASE j \notin Backups /\ Rule(s) = 0
  BY <1>2, ProbeFresh DEF BackupFrom, Decide
<1>3. CASE j \notin Backups /\ Rule(s) # 0
  <2>1. BackupFrom(s, j) = [s EXCEPT !.pc = "primeBody"]
    BY <1>3 DEF BackupFrom, Decide
  <2> QED
    BY <2>1 DEF Same, Process
<1> QED
  BY <1>1, <1>2, <1>3

(* An answer from PRIME ends the read, or goes into the cache.             *)
LEMMA ReadFresh ==
  ASSUME NEW s \in Process
  PROVE  LET t == ReadPrimeSlot(s)
         IN  \/ t.pc = "idle"
             \/ /\ t.pc = "refresh" /\ Fresh(t)
                /\ t.op = s.op /\ t.prime = s.prime /\ t.prop = s.prime.slot
                /\ td_slot_present(s.prime.slot, Hash[s.op.key])
<1> DEFINE u == [s EXCEPT !.prop = s.prime.slot]
           v == td_refresh_cache_best_effort(u)
<1>1. u \in Process /\ u.op = s.op /\ u.prime = s.prime /\ u.prop = s.prime.slot
  BY DEF Process, ProbeRecord
<1> HIDE DEF u
<1>2. \/ v.pc = "idle"
      \/ /\ v.pc = "refresh" /\ Fresh(v)
         /\ v.op = s.op /\ v.prime = s.prime /\ v.prop = s.prime.slot
  BY <1>1, RefreshFresh DEF Same
<1>3. \/ ReadPrimeSlot(s) = v /\ td_slot_present(s.prime.slot, Hash[s.op.key])
      \/ ReadPrimeSlot(s) = Finish(s, Reply("not_found", Nil, 0))
  BY DEF ReadPrimeSlot, u
<1> HIDE DEF v
<1>4. CASE ReadPrimeSlot(s) = v /\ td_slot_present(s.prime.slot, Hash[s.op.key])
  BY <1>2, <1>4
<1>5. CASE ReadPrimeSlot(s) = Finish(s, Reply("not_found", Nil, 0))
  <2>1. Finish(s, Reply("not_found", Nil, 0)).pc = "idle"
    BY FinishShape, Zenon
  <2> QED
    BY <1>5, <2>1, Zenon
<1> QED
  BY <1>3, <1>4, <1>5

(***************************************************************************)
(* Every step of a client has a shape.                                     *)
(***************************************************************************)

(* A step of a process that opens no session.                              *)
LEMMA ShapeStep ==
  ASSUME TypeInv, NEW c \in CN, NEW t, cn' = [cn EXCEPT ![c] = t],
         Shape(c, t), MemoryShape(c),
         \A d \in CN, n \in Nodes : link'[d][n] => link[d][n]
  PROVE  StepShape(c)
<1>1. cn'[c] = t /\ \A d \in CN : d # c => cn'[d] = cn[d]
  BY DEF TypeInv, TypeOK
<1> QED
  BY <1>1 DEF StepShape, LinkShape

(* A finished command has a shape.                                         *)
LEMMA RestStep ==
  ASSUME NEW c, NEW s, NEW r
  PROVE  Shape(c, Finish(s, r))
  BY FinishShape DEF Shape, RestShape

(* A probe that returns a candidate was answered; one that fails was not.  *)
LEMMA ReturnShape ==
  ASSUME TypeInv, NEW c \in CN, cn[c].pc \in ProbePcs,
         NEW r, ProbeReturns(c, r), UNCHANGED mnVars
  PROVE  /\ r \in ProbeRecord
         /\ r.ok => Returned(c, r) /\ Still
         /\ MemoryShape(c)
         /\ \A d \in CN, n \in Nodes : link'[d][n] => link[d][n]
<1>1. r \in ProbeRecord
  BY ProbeReturnsType
<1>2. ~ProbeStart.ok
  BY DEF ProbeStart
<1>3. mem' = mem /\ (Severed(c) \/ UNCHANGED netVars)
  BY DEF ProbeReturns, mnVars
<1>4. r.ok => Returned(c, r) /\ UNCHANGED netVars
  BY <1>2 DEF ProbeReturns, Returned
<1> QED
  BY <1>1, <1>3, <1>4, LinksBreak DEF Still, MemoryShape, netVars

(* td_commit_slot_at returns.                                              *)
LEMMA CommitShape ==
  ASSUME TypeInv, NEW c \in CN, cn[c].pc \in BodyPcs \cup CasPcs,
         NEW won \in BOOLEAN, CommitReturns(c, won)
  PROVE  /\ MemoryShape(c)
         /\ \A d \in CN, n \in Nodes : link'[d][n] => link[d][n]
<1>1. Severed(c) \/ UNCHANGED netVars
  BY DEF CommitReturns
<1>2. MemoryShape(c)
  BY DEF CommitReturns, MemoryShape
<1> QED
  BY <1>1, <1>2, LinksBreak

(* A probe goes on to the next slot.                                       *)
LEMMA ScanIsShaped == ASSUME TypeInv, NEW c \in CN, Scan(c) PROVE StepShape(c)
<1> DEFINE s == cn[c]
           t == [s EXCEPT !.probe = Examined(c)]
<1>1. cn' = [cn EXCEPT ![c] = t] /\ Still
  BY DEF Scan, mnVars, netVars, Still
<1>2. s \in Process
  BY KeyedProcess
<1>3. t.pc = s.pc /\ Same(s, t) /\ t.idx = s.idx /\ t.probe = Examined(c)
  BY <1>2 DEF Process, Same
<1> HIDE DEF t
<1>4. ScanShape(c, t)
  BY <1>1, <1>3 DEF Scan, ScanShape
<1> QED
  BY <1>1, <1>4, ShapeStep DEF Shape, MemoryShape, Still

(* The first probe of a read returns.                                      *)
LEMMA ReadPrimeIsShaped == ASSUME TypeInv, NEW c \in CN, ReadPrime(c) PROVE StepShape(c)
<1> DEFINE s == cn[c]
<1>1. s.pc = "read" /\ s.pc \in ProbePcs /\ UNCHANGED mnVars
  BY DEF ReadPrime, ProbePcs
<1>2. PICK r : /\ ProbeReturns(c, r)
               /\ cn' = [cn EXCEPT ![c] =
                     IF ~r.ok THEN Finish([s EXCEPT !.prime = r], Error)
                     ELSE IF CacheOn THEN Probe([s EXCEPT !.prime = r], "readCache")
                     ELSE ReadPrimeSlot([s EXCEPT !.prime = r])]
  BY Zenon DEF ReadPrime
<1> DEFINE u == [s EXCEPT !.prime = r]
           t == IF ~r.ok THEN Finish(u, Error)
                ELSE IF CacheOn THEN Probe(u, "readCache") ELSE ReadPrimeSlot(u)
<1>3. cn' = [cn EXCEPT ![c] = t]
  BY <1>2, Zenon
<1>4. r \in ProbeRecord /\ s \in Process
  BY <1>1, <1>2, ReturnShape, KeyedProcess
<1>5. u \in Process /\ u.op = s.op /\ u.prime = r
  BY <1>4 DEF Process
<1> HIDE DEF u
<1>6. Shape(c, t)
  <2>1. CASE ~r.ok
    BY <2>1, RestStep
  <2>2. CASE r.ok /\ CacheOn
    <3>1. t = Probe(u, "readCache")
      BY <2>2
    <3>2. t.pc = "readCache" /\ Fresh(t) /\ t.op = s.op /\ t.prime = r
      BY <1>5, <3>1, ProbeFresh DEF Same
    <3> HIDE DEF t
    <3>3. ReadShapeOf(c, t, r)
      BY <1>1, <1>2, <2>2, <3>2, ReturnShape DEF ReadShapeOf
    <3> QED
      BY <3>3 DEF Shape
  <2>3. CASE r.ok /\ ~CacheOn
    <3>1. t = ReadPrimeSlot(u)
      BY <2>3
    <3>2. \/ t.pc = "idle"
          \/ /\ t.pc = "refresh" /\ Fresh(t)
             /\ t.op = s.op /\ t.prime = r /\ t.prop = r.slot
             /\ td_slot_present(r.slot, Hash[s.op.key])
      BY <1>5, <3>1, ReadFresh
    <3> HIDE DEF t
    <3>3. RestShape(t) \/ ReadShapeOf(c, t, r)
      BY <1>1, <1>2, <2>3, <3>2, ReturnShape DEF ReadShapeOf, RestShape
    <3> QED
      BY <3>3 DEF Shape
  <2> QED
    BY <2>1, <2>2, <2>3
<1> HIDE DEF t
<1> QED
  BY <1>1, <1>2, <1>3, <1>6, ReturnShape, ShapeStep

(* The cache probe of a read returns.                                      *)
LEMMA ReadCacheIsShaped == ASSUME TypeInv, NEW c \in CN, ReadCache(c) PROVE StepShape(c)
<1> DEFINE s == cn[c]
<1>1. s.pc = "readCache" /\ s.pc \in ProbePcs /\ UNCHANGED mnVars
  BY DEF ReadCache, ProbePcs
<1>2. PICK r : /\ ProbeReturns(c, r)
               /\ \/ cn' = [cn EXCEPT ![c] = Finish(s, Reply("value", r.slot.data, 0))]
                  \/ cn' = [cn EXCEPT ![c] = ReadPrimeSlot(s)]
  <2>1. PICK r : /\ ProbeReturns(c, r)
                 /\ cn' = [cn EXCEPT ![c] =
                       IF r.ok /\ CacheConsistent(s, r)
                       THEN Finish(s, Reply("value", r.slot.data, 0))
                       ELSE ReadPrimeSlot(s)]
    BY Zenon DEF ReadCache
  <2> QED
    BY <2>1, Zenon
<1>3. s \in Process
  BY KeyedProcess
<1>4. Shape(c, Finish(s, Reply("value", r.slot.data, 0)))
  BY RestStep
<1>5. Shape(c, ReadPrimeSlot(s))
  <2> DEFINE t == ReadPrimeSlot(s)
  <2>1. \/ t.pc = "idle"
        \/ /\ t.pc = "refresh" /\ Fresh(t)
           /\ t.op = s.op /\ t.prime = s.prime /\ t.prop = s.prime.slot
           /\ td_slot_present(s.prime.slot, Hash[s.op.key])
    BY <1>3, ReadFresh
  <2> HIDE DEF t
  <2>2. RestShape(t) \/ MissShape(c, t)
    BY <1>1, <2>1 DEF RestShape, MissShape
  <2>3. Shape(c, t)
    BY <2>2 DEF Shape
  <2> QED
    BY <2>3 DEF t
<1> QED
  BY <1>1, <1>2, <1>4, <1>5, ReturnShape, ShapeStep

(* The first probe of a write returns.                                     *)
LEMMA WritePrimeIsShaped == ASSUME TypeInv, NEW c \in CN, WritePrime(c) PROVE StepShape(c)
<1> DEFINE s == cn[c]
<1>1. s.pc = "write" /\ s.pc \in ProbePcs /\ UNCHANGED mnVars
  BY DEF WritePrime, ProbePcs
<1>2. PICK r : /\ ProbeReturns(c, r)
               /\ r.slot.guard < MaxEpoch
               /\ cn' = [cn EXCEPT ![c] =
                     IF WriteAllowed(s, r) THEN BackupFrom(Propose(s, r), 1)
                                           ELSE Finish(s, Error)]
  BY Zenon DEF WritePrime
<1> DEFINE t == IF WriteAllowed(s, r) THEN BackupFrom(Propose(s, r), 1) ELSE Finish(s, Error)
<1>3. cn' = [cn EXCEPT ![c] = t]
  BY <1>2, Zenon
<1>4. r \in ProbeRecord /\ s \in Process /\ s.op.key \in Keys
  BY <1>1, <1>2, ReturnShape, KeyedProcess
<1>5. Shape(c, t)
  <2>1. CASE ~WriteAllowed(s, r)
    BY <2>1, RestStep
  <2>2. CASE WriteAllowed(s, r)
    <3> DEFINE u == Propose(s, r)
    <3>1. u \in Process /\ u.op = s.op /\ u.prime = r
      BY <1>2, <1>4, ProposeType
    <3>2. u.prop.valid /\ u.prop.hash = Hash[s.op.key]
      BY <1>4 DEF Propose, td_crypto_make_slot, Process
    <3>3. u.prop.visible > 0
      <4>1. u.prop.visible = r.slot.guard + 1
        BY <1>2, <1>4, ProposeType
      <4>2. r.slot.guard \in Nat
        BY <1>4, BoundsAssumption DEF ProbeRecord, Slot, Epochs
      <4> QED
        BY <4>1, <4>2
    <3>4. t = BackupFrom(u, 1)
      BY <2>2
    <3> HIDE DEF u
    <3>5. Same(u, t) /\ (t.pc = "primeBody" \/ (t.pc \in {"backup", "wait"} /\ Fresh(t)))
      BY <3>1, <3>4, BackupFresh
    <3> HIDE DEF t
    <3>6. r.ok
      BY <2>2 DEF WriteAllowed
    <3>7. ProposeShape(c, t, r)
      BY <1>1, <1>2, <3>1, <3>2, <3>3, <3>5, <3>6, ReturnShape DEF ProposeShape, Same
    <3> QED
      BY <3>7 DEF Shape
  <2> QED
    BY <2>1, <2>2
<1> HIDE DEF t
<1> QED
  BY <1>1, <1>2, <1>3, <1>5, ReturnShape, ShapeStep

(* A process whose candidate r is about to be written.                     *)
LEMMA ChooseStep ==
  ASSUME TypeInv, NEW c \in CN, NEW r, Returned(c, r), Still, NEW pc,
         \/ cn[c].pc = "backup" /\ pc = "backupBody"
         \/ cn[c].pc = "repair" /\ pc = "repairBody"
         \/ cn[c].pc = "refresh" /\ pc = "refreshBody"
  PROVE  Shape(c, [cn[c] EXCEPT !.pc = pc, !.probe = r])
<1> DEFINE s == cn[c]
           t == [s EXCEPT !.pc = pc, !.probe = r]
<1>1. s \in Process
  BY KeyedProcess
<1>2. t.pc = pc /\ t.probe = r /\ t.idx = s.idx /\ Same(s, t)
  BY <1>1 DEF Process, Same
<1> HIDE DEF t
<1>3. ChooseShape(c, t, r)
  BY <1>2 DEF ChooseShape
<1>4. Shape(c, t)
  BY <1>3 DEF Shape
<1> QED
  BY <1>4 DEF t

(* The probe of a backup returns.                                          *)
LEMMA BackupProbeIsShaped == ASSUME TypeInv, NEW c \in CN, BackupProbe(c) PROVE StepShape(c)
<1> DEFINE s == cn[c]
<1>1. s.pc = "backup" /\ s.pc \in ProbePcs /\ UNCHANGED mnVars
  BY DEF BackupProbe, ProbePcs
<1>2. PICK r : /\ ProbeReturns(c, r)
               /\ \/ r.ok /\ cn' = [cn EXCEPT ![c] = [s EXCEPT !.pc = "backupBody", !.probe = r]]
                  \/ cn' = [cn EXCEPT ![c] = Finish(s, Error)]
  <2>1. PICK r : /\ ProbeReturns(c, r)
                 /\ cn' = [cn EXCEPT ![c] =
                       IF r.ok THEN [s EXCEPT !.pc = "backupBody", !.probe = r]
                               ELSE Finish(s, Error)]
    BY Zenon DEF BackupProbe
  <2> QED
    BY <2>1, Zenon
<1>3. r.ok => Shape(c, [s EXCEPT !.pc = "backupBody", !.probe = r])
  BY <1>1, <1>2, ReturnShape, ChooseStep
<1>4. Shape(c, Finish(s, Error))
  BY RestStep
<1> QED
  BY <1>1, <1>2, <1>3, <1>4, ReturnShape, ShapeStep

(* The wait for the primary probes again, or is over.                      *)
LEMMA WaitIsShaped == ASSUME TypeInv, NEW c \in CN, Wait(c) PROVE StepShape(c)
<1> DEFINE s == cn[c]
           u == [s EXCEPT !.tries = @ + 1]
           t == Probe(u, "wait")
<1>1. s.pc = "wait" /\ s.pc \in ProbePcs /\ UNCHANGED mnVars
  BY DEF Wait, ProbePcs
<1>2. PICK r : /\ ProbeReturns(c, r)
               /\ \/ cn' = [cn EXCEPT ![c] = Finish(s, Error)]
                  \/ cn' = [cn EXCEPT ![c] = t]
  <2>1. PICK r : /\ ProbeReturns(c, r)
                 /\ cn' = [cn EXCEPT ![c] =
                       IF WaitOver(s, r) THEN Finish(s, Error) ELSE t]
    BY Zenon DEF Wait
  <2> QED
    BY <2>1, Zenon
<1>3. u \in Process /\ Same(s, u)
  BY KeyedProcess DEF Process, Same
<1> HIDE DEF u
<1>4. t.pc = "wait" /\ Fresh(t) /\ Same(s, t)
  BY <1>3, ProbeFresh DEF Same
<1> HIDE DEF t
<1>5. MoveShape(c, t)
  BY <1>1, <1>4 DEF MoveShape
<1>6. Shape(c, t) /\ Shape(c, Finish(s, Error))
  BY <1>5, RestStep DEF Shape
<1> QED
  BY <1>1, <1>2, <1>6, ReturnShape, ShapeStep

(* The repair loop goes on from a backup.                                  *)
LEMMA RepairStep ==
  ASSUME TypeInv, NEW c \in CN, cn[c].pc \in {"repair", "repairBody", "repairCas"}
  PROVE  Shape(c, RepairFrom(cn[c], cn[c].idx + 1))
<1> DEFINE s == cn[c]
           t == RepairFrom(s, s.idx + 1)
<1>1. s \in Process /\ s.op.key \in Keys /\ s.idx + 1 \in Nat
  BY KeyedProcess DEF ProbePcs, BodyPcs, CasPcs, CasOf
<1>2. t.pc = "idle" \/ (t.pc \in {"repair", "refresh"} /\ Same(s, t) /\ Fresh(t))
  BY <1>1, RepairFresh
<1> HIDE DEF t
<1>3. RestShape(t) \/ MoveShape(c, t)
  BY <1>2 DEF RestShape, MoveShape
<1>4. Shape(c, t)
  BY <1>3 DEF Shape
<1> QED
  BY <1>4 DEF t

(* The probe of a backup to repair returns.                                *)
LEMMA RepairProbeIsShaped == ASSUME TypeInv, NEW c \in CN, RepairProbe(c) PROVE StepShape(c)
<1> DEFINE s == cn[c]
<1>1. s.pc = "repair" /\ s.pc \in ProbePcs /\ UNCHANGED mnVars
  BY DEF RepairProbe, ProbePcs
<1>2. PICK r : /\ ProbeReturns(c, r)
               /\ \/ r.ok /\ cn' = [cn EXCEPT ![c] = [s EXCEPT !.pc = "repairBody", !.probe = r]]
                  \/ cn' = [cn EXCEPT ![c] = RepairFrom(s, s.idx + 1)]
  <2>1. PICK r : /\ ProbeReturns(c, r)
                 /\ cn' = [cn EXCEPT ![c] =
                       IF r.ok THEN [s EXCEPT !.pc = "repairBody", !.probe = r]
                               ELSE RepairFrom(s, s.idx + 1)]
    BY Zenon DEF RepairProbe
  <2> QED
    BY <2>1, Zenon
<1>3. r.ok => Shape(c, [s EXCEPT !.pc = "repairBody", !.probe = r])
  BY <1>1, <1>2, ReturnShape, ChooseStep
<1>4. Shape(c, RepairFrom(s, s.idx + 1))
  BY <1>1, RepairStep
<1> QED
  BY <1>1, <1>2, <1>3, <1>4, ReturnShape, ShapeStep

(* The cache probe of a refresh returns.                                   *)
LEMMA RefreshProbeIsShaped == ASSUME TypeInv, NEW c \in CN, RefreshProbe(c) PROVE StepShape(c)
<1> DEFINE s == cn[c]
<1>1. s.pc = "refresh" /\ s.pc \in ProbePcs /\ UNCHANGED mnVars
  BY DEF RefreshProbe, ProbePcs
<1>2. PICK r : /\ ProbeReturns(c, r)
               /\ \/ r.ok /\ cn' = [cn EXCEPT ![c] = [s EXCEPT !.pc = "refreshBody", !.probe = r]]
                  \/ cn' = [cn EXCEPT ![c] = Finish(s, Answer(s))]
  <2>1. PICK r : /\ ProbeReturns(c, r)
                 /\ cn' = [cn EXCEPT ![c] =
                       IF r.ok THEN [s EXCEPT !.pc = "refreshBody", !.probe = r]
                               ELSE Finish(s, Answer(s))]
    BY Zenon DEF RefreshProbe
  <2> QED
    BY <2>1, Zenon
<1>3. r.ok => Shape(c, [s EXCEPT !.pc = "refreshBody", !.probe = r])
  BY <1>1, <1>2, ReturnShape, ChooseStep
<1>4. Shape(c, Finish(s, Answer(s)))
  BY RestStep
<1> QED
  BY <1>1, <1>2, <1>3, <1>4, ReturnShape, ShapeStep

(* The body of a slot is written.                                          *)
LEMMA WriteBodyIsShaped == ASSUME TypeInv, NEW c \in CN, WriteBody(c) PROVE StepShape(c)
<1> DEFINE s == cn[c]
           t == [s EXCEPT !.pc = CasOf[s.pc]]
<1>1. /\ s.pc \in BodyPcs /\ Served(c) /\ mem' = BodyWritten(s)
      /\ cn' = [cn EXCEPT ![c] = t]
      /\ UNCHANGED netVars
  BY DEF WriteBody
<1>2. s \in Process
  BY KeyedProcess
<1>3. t.pc = CasOf[s.pc] /\ t.probe = s.probe /\ t.idx = s.idx /\ Same(s, t)
  BY <1>2 DEF Process, Same
<1> HIDE DEF t
<1>4. BodyShape(c, t) /\ MemoryShape(c)
  BY <1>1, <1>3 DEF BodyShape, MemoryShape
<1>5. \A d \in CN, n \in Nodes : link'[d][n] => link[d][n]
  BY <1>1 DEF netVars
<1> QED
  BY <1>1, <1>4, <1>5, ShapeStep DEF Shape

(* A backup has voted.                                                     *)
LEMMA BackupCommitIsShaped == ASSUME TypeInv, NEW c \in CN, BackupCommit(c) PROVE StepShape(c)
<1> DEFINE s == cn[c]
<1>1. s.pc \in BodyPcs \cup CasPcs /\ s.pc \in {"backupBody", "backupCas"}
  BY DEF BackupCommit, BodyPcs, CasPcs, CasOf
<1>2. PICK won \in BOOLEAN :
         /\ CommitReturns(c, won)
         /\ cn' = [cn EXCEPT ![c] =
               BackupFrom([s EXCEPT !.votes[s.idx] =
                              [success |-> won,
                               tie |-> IF won THEN 0 ELSE s.probe.slot.tie]],
                          s.idx + 1)]
  BY Zenon DEF BackupCommit
<1> DEFINE vote == [success |-> won, tie |-> IF won THEN 0 ELSE s.probe.slot.tie]
           u == [s EXCEPT !.votes[s.idx] = vote]
           t == BackupFrom(u, s.idx + 1)
<1>3. s \in Process /\ s.idx + 1 \in Nat
  BY KeyedProcess
<1>4. s.probe.slot.tie \in 0 .. MaxTie /\ 0 \in 0 .. MaxTie
  BY <1>3, TieAssumption DEF Process, ProbeRecord, Slot
<1>5. vote \in Vote
  BY <1>4 DEF Vote
<1>6. cn' = [cn EXCEPT ![c] = t]
  BY <1>2, Zenon
<1> HIDE DEF vote
<1>7. u \in Process /\ Same(s, u)
  BY <1>3, <1>5 DEF Process, Same
<1> HIDE DEF u
<1>8. Same(u, t) /\ (t.pc = "primeBody" \/ (t.pc \in {"backup", "wait"} /\ Fresh(t)))
  BY <1>3, <1>7, BackupFresh
<1> HIDE DEF t
<1>9. MoveShape(c, t)
  BY <1>1, <1>7, <1>8 DEF MoveShape, Same
<1> QED
  BY <1>1, <1>2, <1>6, <1>9, CommitShape, ShapeStep DEF Shape

(* The primary commit returns.                                             *)
LEMMA PrimeCommitIsShaped == ASSUME TypeInv, NEW c \in CN, PrimeCommit(c) PROVE StepShape(c)
<1> DEFINE s == cn[c]
           t == RepairFrom(s, 1)
<1>1. s.pc \in BodyPcs \cup CasPcs /\ s.pc \in {"primeBody", "primeCas"}
  BY DEF PrimeCommit, BodyPcs, CasPcs, CasOf
<1>2. PICK won \in BOOLEAN :
         /\ CommitReturns(c, won)
         /\ \/ won = TRUE /\ cn' = [cn EXCEPT ![c] = t]
            \/ cn' = [cn EXCEPT ![c] = Finish(s, Error)]
  <2>1. PICK won \in BOOLEAN :
           /\ CommitReturns(c, won)
           /\ cn' = [cn EXCEPT ![c] = IF won THEN t ELSE Finish(s, Error)]
    BY Zenon DEF PrimeCommit
  <2>2. CASE won = TRUE
    BY <2>1, <2>2, Zenon
  <2>3. CASE won = FALSE
    BY <2>1, <2>3, Zenon
  <2> QED
    BY <2>2, <2>3
<1>3. s \in Process /\ s.op.key \in Keys
  BY <1>1, KeyedProcess
<1>4. t.pc = "idle" \/ (t.pc \in {"repair", "refresh"} /\ Same(s, t) /\ Fresh(t))
  BY <1>3, RepairFresh
<1> HIDE DEF t
<1>5. won = TRUE => RestShape(t) \/ MoveShape(c, t)
  BY <1>1, <1>2, <1>4 DEF RestShape, MoveShape
<1>6. (won = TRUE => Shape(c, t)) /\ Shape(c, Finish(s, Error))
  BY <1>5, RestStep DEF Shape
<1> QED
  BY <1>1, <1>2, <1>6, CommitShape, ShapeStep

(* The repair of a backup, or the refresh of the cache, returns.           *)
LEMMA LaterCommitIsShaped ==
  ASSUME TypeInv, NEW c \in CN, RepairCommit(c) \/ RefreshCommit(c)
  PROVE  StepShape(c)
<1> DEFINE s == cn[c]
<1>1. s.pc \in BodyPcs \cup CasPcs
  BY DEF RepairCommit, RefreshCommit, BodyPcs, CasPcs, CasOf
<1>2. PICK won \in BOOLEAN : CommitReturns(c, won)
  BY DEF RepairCommit, RefreshCommit
<1>3. \/ /\ s.pc \in {"repair", "repairBody", "repairCas"}
         /\ cn' = [cn EXCEPT ![c] = RepairFrom(s, s.idx + 1)]
      \/ cn' = [cn EXCEPT ![c] = Finish(s, Answer(s))]
  BY Zenon DEF RepairCommit, RefreshCommit
<1> QED
  BY <1>1, <1>2, <1>3, RepairStep, RestStep, CommitShape, ShapeStep

(* Connecting, quitting and dying.                                         *)
LEMMA SessionIsShaped ==
  ASSUME TypeInv, NEW c \in CN, Connect(c) \/ Quit(c) \/ Crash(c)
  PROVE  StepShape(c)
<1>1. link \in [CN -> [Nodes -> BOOLEAN]] /\ cn \in [CN -> Process]
  BY DEF TypeInv, TypeOK
<1>2. \E x : link' = [link EXCEPT ![c] = x]
  BY DEF Connect, Quit, Crash
<1>3. \A d \in CN, n \in Nodes : link'[d][n] => link[d][n] \/ d = c
  BY <1>1, <1>2
<1>4. mem' = mem
  BY DEF Connect, Quit, Crash, mnVars
<1> DEFINE u == [Off EXCEPT !.ops = cn[c].ops]
           v == [Off EXCEPT !.pc = "idle", !.ops = cn[c].ops]
<1>5. cn' = [cn EXCEPT ![c] = u] \/ cn' = [cn EXCEPT ![c] = v]
  BY Zenon DEF Connect, Quit, Crash
<1>6. u.pc = "off" /\ v.pc = "idle"
  BY DEF Off
<1> HIDE DEF u, v
<1>7. RestShape(cn'[c]) /\ \A d \in CN : d # c => cn'[d] = cn[d]
  BY <1>1, <1>5, <1>6 DEF RestShape
<1> QED
  BY <1>3, <1>4, <1>7 DEF StepShape, Shape, MemoryShape, LinkShape

(* Issuing a command.                                                      *)
LEMMA BeginIsShaped ==
  ASSUME TypeInv, NEW c \in CN, NEW o \in Requests, o.kind \in OpKinds, Begin(c, o)
  PROVE  StepShape(c)
<1> DEFINE s == [Off EXCEPT !.op = o, !.ops = cn[c].ops + 1]
           t == CASE o.kind = "read" -> Probe(s, "read")
                  [] o.kind = "evict" -> EvictFrom(s, 0)
                  [] OTHER -> Probe(s, "write")
<1>1. cn' = [cn EXCEPT ![c] = t] /\ UNCHANGED <<mnVars, netVars>>
  BY Zenon DEF Begin
<1>2. Still
  BY <1>1 DEF mnVars, netVars, Still
<1>3. cn[c].ops + 1 \in 0 .. MaxOps
  BY BoundsAssumption DEF Begin, TypeInv, TypeOK, Process
<1>4. s \in Process
  BY <1>3, OffType DEF Process
<1> HIDE DEF s
<1>5. Shape(c, t)
  <2>1. CASE o.kind = "evict"
    <3>1. t = EvictFrom(s, 0)
      BY <2>1
    <3>2. 0 \in Nodes
      BY NodesAssumption DEF Nodes
    <3>3. t = [s EXCEPT !.pc = "evict", !.idx = 0]
      BY <3>1, <3>2 DEF EvictFrom
    <3>4. t.pc = "evict"
      BY <1>4, <3>3 DEF Process
    <3> HIDE DEF t
    <3> QED
      BY <2>1, <3>4 DEF Shape, EvictingShape, EvictPcs
  <2>2. CASE o.kind # "evict"
    <3>1. t = Probe(s, "read") \/ t = Probe(s, "write")
      BY <2>2
    <3>2. t.pc \in {"read", "write"} /\ Fresh(t)
      BY <1>4, <3>1, ProbeFresh
    <3> HIDE DEF t
    <3> QED
      BY <1>2, <3>2 DEF Shape, StartShape
  <2> QED
    BY <2>1, <2>2
<1> HIDE DEF t
<1> QED
  BY <1>1, <1>2, <1>5, ShapeStep DEF MemoryShape, Still

(* The evict command.                                                      *)
LEMMA EvictIsShaped ==
  ASSUME TypeInv, NEW c \in CN, EvictRequest(c) \/ EvictAnswered(c) \/ EvictFails(c)
  PROVE  StepShape(c)
<1> DEFINE s == cn[c]
           u == [s EXCEPT !.pc = "evictReply"]
           v == EvictFrom(s, s.idx + 1)
<1>1. s \in Process /\ s.pc \in EvictPcs
  BY KeyedProcess DEF EvictRequest, EvictAnswered, EvictFails, EvictPcs
<1>2. mem' = mem /\ (Severed(c) \/ UNCHANGED netVars)
  BY DEF EvictRequest, EvictAnswered, EvictFails, mnVars
<1>3. \/ cn' = [cn EXCEPT ![c] = u]
      \/ cn' = [cn EXCEPT ![c] = v]
      \/ cn' = [cn EXCEPT ![c] = Finish(s, Error)]
  BY Zenon DEF EvictRequest, EvictAnswered, EvictFails
<1>4. u.pc = "evictReply"
  BY <1>1 DEF Process
<1>5. v.pc \in {"evict", "idle"}
  <2>1. CASE s.idx + 1 \in Nodes
    <3>1. v = [s EXCEPT !.pc = "evict", !.idx = s.idx + 1]
      BY <2>1 DEF EvictFrom
    <3> QED
      BY <1>1, <3>1 DEF Process
  <2>2. CASE s.idx + 1 \notin Nodes
    BY <2>2, FinishShape DEF EvictFrom
  <2> QED
    BY <2>1, <2>2
<1> HIDE DEF u, v
<1>6. Shape(c, u) /\ Shape(c, v)
  BY <1>1, <1>4, <1>5 DEF Shape, RestShape, EvictingShape, EvictPcs
<1>7. Shape(c, Finish(s, Error))
  BY RestStep
<1> QED
  BY <1>2, <1>3, <1>6, <1>7, LinksBreak, ShapeStep DEF MemoryShape

(* Every step of a client has a shape.                                     *)
LEMMA ClientIsShaped == ASSUME TypeInv, NEW c \in CN, ClientNext(c) PROVE StepShape(c)
<1>1. CASE Connect(c) \/ Quit(c) \/ Crash(c)
  BY <1>1, SessionIsShaped
<1>2. CASE \E o \in {r \in Requests : r.kind \in OpKinds} : Begin(c, o)
  BY <1>2, BeginIsShaped
<1>3. CASE Scan(c) \/ ReadPrime(c) \/ ReadCache(c) \/ WritePrime(c) \/ BackupProbe(c)
  BY <1>3, ScanIsShaped, ReadPrimeIsShaped, ReadCacheIsShaped, WritePrimeIsShaped,
     BackupProbeIsShaped
<1>4. CASE Wait(c) \/ RepairProbe(c) \/ RefreshProbe(c)
  BY <1>4, WaitIsShaped, RepairProbeIsShaped, RefreshProbeIsShaped
<1>5. CASE \/ WriteBody(c) \/ BackupCommit(c) \/ PrimeCommit(c)
           \/ RepairCommit(c) \/ RefreshCommit(c)
  BY <1>5, WriteBodyIsShaped, BackupCommitIsShaped, PrimeCommitIsShaped,
     LaterCommitIsShaped
<1>6. CASE EvictRequest(c) \/ EvictAnswered(c) \/ EvictFails(c)
  BY <1>6, EvictIsShaped
<1> QED
  BY <1>1, <1>2, <1>3, <1>4, <1>5, <1>6 DEF ClientNext, CommandStep

(* The region of a node that restarts.                                     *)
Zeroed(n) == /\ mem' = [a \in Addr |-> IF a[1] = n THEN EmptySlot ELSE mem[a]]
             /\ link' = [c \in CN |-> [link[c] EXCEPT ![n] = FALSE]]

(* A memory node counts, clears cache slots or restarts.                   *)
LEMMA NodeIsShaped ==
  ASSUME TypeInv, NEW n \in Nodes, NodeNext(n)
  PROVE  /\ cn' = cn
         /\ \A d \in CN, i \in Nodes : link'[d][i] => link[d][i]
         /\ \/ mem' = mem
            \/ \E victims : mem' = Cleared(n, victims)
            \/ Zeroed(n) /\ \A d \in CN : ~link'[d][n]
<1>1. CASE ThreadCount(n)
  BY <1>1 DEF ThreadCount, netVars
<1>2. ASSUME NEW e \in Evictors, Sweep(n, e)
      PROVE  cn' = cn /\ link' = link /\ mem' = Cleared(n, Victims(n, target[n][e]))
  BY <1>2, Zenon DEF Sweep, netVars
<1>3. CASE Restart(n)
  <2>1. cn' = cn /\ Zeroed(n)
    BY <1>3 DEF Restart, Zeroed
  <2>2. link \in [CN -> [Nodes -> BOOLEAN]]
    BY DEF TypeInv, TypeOK
  <2>3. \A d \in CN, i \in Nodes : (link'[d][i] => link[d][i]) /\ ~link'[d][n]
    BY <2>1, <2>2 DEF Zeroed
  <2> QED
    BY <2>1, <2>3
<1> QED
  BY <1>1, <1>2, <1>3 DEF NodeNext

(***************************************************************************)
(* What a command knows of its own variables.                              *)
(***************************************************************************)

(* The request after a fetch or a body write goes to the same place.       *)
SamePlace(s, t) ==
    /\ t.op = s.op /\ t.idx = s.idx
    /\ \/ t.pc = s.pc
       \/ s.pc = "backup" /\ t.pc = "backupBody"
       \/ s.pc = "repair" /\ t.pc = "repairBody"
       \/ s.pc = "refresh" /\ t.pc = "refreshBody"
       \/ s.pc \in BodyPcs /\ t.pc = CasOf[s.pc]

(* It is the same node and kind of slot.                                   *)
LEMMA PlaceKept ==
  ASSUME NEW s, NEW t, SamePlace(s, t)
  PROVE  Node(t) = Node(s) /\ Kind(t) = Kind(s) /\ Count(t) = Count(s)
<1>1. /\ t.pc \in EvictPcs <=> s.pc \in EvictPcs
      /\ t.pc \in BackupPcs <=> s.pc \in BackupPcs
      /\ t.pc \in CachePcs <=> s.pc \in CachePcs
  BY DEF SamePlace, EvictPcs, BackupPcs, CachePcs, BodyPcs, CasOf
<1>2. Node(t) = Node(s)
  BY <1>1 DEF SamePlace, Node
<1>3. Kind(t) = Kind(s)
  BY <1>1 DEF Kind
<1> QED
  BY <1>2, <1>3 DEF Count

(* A fetch makes the slot it read the candidate, which then is not torn,   *)
(* or leaves the candidate as it was.                                      *)
LEMMA ExaminedCases ==
  ASSUME TypeInv, NEW c \in CN, cn[c].pc \in ProbePcs
  PROVE  /\ Examined(c).i = cn[c].probe.i + 1
         /\ \/ /\ Examined(c).ok /\ Examined(c).at = FetchAt(c)
               /\ Examined(c).slot = Fetched(c) /\ ~Torn(Fetched(c))
            \/ /\ Examined(c).ok = cn[c].probe.ok
               /\ Examined(c).at = cn[c].probe.at
               /\ Examined(c).slot = cn[c].probe.slot
<1> DEFINE p == cn[c].probe
<1>1. p \in ProbeRecord
  BY KeyedProcess DEF Process
<1>2. CASE Examined(c) = [p EXCEPT !.i = p.i + 1]
  BY <1>1, <1>2 DEF ProbeRecord
<1>3. CASE Matches(Fetched(c), Hash[cn[c].op.key])
  <2>1. /\ ~Torn(Fetched(c))
        /\ Examined(c) = [i |-> p.i + 1, ok |-> TRUE, at |-> FetchAt(c),
                          slot |-> Fetched(c), found |-> TRUE]
    BY <1>3 DEF Examined, Examine, Matches
  <2>2. /\ Examined(c).i = p.i + 1 /\ Examined(c).ok
        /\ Examined(c).at = FetchAt(c) /\ Examined(c).slot = Fetched(c)
    BY <2>1
  <2> QED
    BY <2>1, <2>2, Zenon
<1>4. CASE ~Matches(Fetched(c), Hash[cn[c].op.key]) /\ Reusable(Fetched(c)) /\ ~p.ok
  <2>1. /\ ~Torn(Fetched(c))
        /\ Examined(c) = [i |-> p.i + 1, ok |-> TRUE, at |-> FetchAt(c),
                          slot |-> Fetched(c), found |-> FALSE]
    BY <1>4 DEF Examined, Examine, Reusable
  <2>2. /\ Examined(c).i = p.i + 1 /\ Examined(c).ok
        /\ Examined(c).at = FetchAt(c) /\ Examined(c).slot = Fetched(c)
    BY <2>1
  <2> QED
    BY <2>1, <2>2, Zenon
<1>5. CASE ~Matches(Fetched(c), Hash[cn[c].op.key]) /\ ~(Reusable(Fetched(c)) /\ ~p.ok)
  <2>1. Examined(c) = [p EXCEPT !.i = p.i + 1]
    BY <1>5 DEF Examined, Examine
  <2> QED
    BY <1>2, <2>1
<1> QED
  BY <1>3, <1>4, <1>5

(* A command keeps the facts about its variables.                          *)
LEMMA CommandKept ==
  ASSUME TypeInv, NEW c \in CN, NEW t, CommandOf(cn[c]), Shape(c, t)
  PROVE  CommandOf(t)
<1> DEFINE s == cn[c]
<1>1. s \in Process /\ WellFormed(s)
  BY KeyedProcess
<1>2. ~ProbeStart.ok /\ ProbeStart.i = 0
  BY DEF ProbeStart
<1>3. CASE RestShape(t) \/ EvictingShape(c, t)
  BY <1>3 DEF RestShape, EvictingShape, EvictPcs, CommandOf, ProposingPcs, CommittedPcs,
              BackupPcs, BodyPcs, CasPcs, CasOf, ProbePcs
<1>4. CASE StartShape(t)
  BY <1>2, <1>4 DEF StartShape, Fresh, CommandOf, ProposingPcs, CommittedPcs,
                    BackupPcs, BodyPcs, CasPcs, CasOf, ProbePcs
<1>5. CASE ScanShape(c, t)
  <2>1. t.pc = s.pc /\ s.pc \in ProbePcs /\ Same(s, t) /\ t.probe = Examined(c)
    BY <1>5 DEF ScanShape
  <2>2. Count(t) = Count(s) /\ Count(s) > 0 /\ Examined(c).i # Count(s)
    BY <1>5, PlaceKept DEF ScanShape, SamePlace, Same, ProbeOver
  <2>3. Examined(c).i = s.probe.i + 1
    BY <2>1, ExaminedCases
  <2>4. s.probe.i \in Nat /\ (s.probe.i = 0 \/ s.probe.i < Count(s))
    BY <1>1, <2>1 DEF CommandOf, Process, ProbeRecord
  <2>5. Count(s) \in Nat
    <3>1. s.pc \in KeyedPcs \cup EvictPcs
      BY <2>1 DEF ProbePcs, KeyedPcs, PrimePcs, CachePcs, BackupPcs
    <3> QED
      BY <1>1, <3>1, NodeType, SlotCountAssumption DEF Count
  <2>6. t.probe.i < Count(t)
    BY <2>1, <2>2, <2>3, <2>4, <2>5
  <2>7. s.pc \notin BodyPcs \cup CasPcs
    BY <2>1 DEF ProbePcs, BodyPcs, CasPcs, CasOf
  <2> QED
    BY <2>1, <2>6, <2>7 DEF CommandOf, Same
<1>6. CASE (\E r : ReadShapeOf(c, t, r)) \/ MissShape(c, t)
  <2>1. Fresh(t) /\ t.pc \in {"readCache", "refresh"} /\ t.op = s.op
    BY <1>6 DEF ReadShapeOf, MissShape
  <2>2. t.pc = "refresh" => td_slot_present(t.prop, Hash[s.op.key])
    BY <1>6 DEF ReadShapeOf, MissShape
  <2> QED
    BY <1>2, <2>1, <2>2 DEF CommandOf, Fresh, td_slot_present, ProposingPcs, CommittedPcs,
                            BackupPcs, BodyPcs, CasPcs, CasOf, ProbePcs
<1>7. CASE \E r : ProposeShape(c, t, r)
  <2>1. /\ t.op = s.op /\ t.prop.valid /\ t.prop.hash = Hash[s.op.key]
        /\ t.prop.visible > 0
        /\ t.pc = "primeBody" \/ (t.pc \in {"backup", "wait"} /\ Fresh(t))
    BY <1>7 DEF ProposeShape
  <2> QED
    BY <1>2, <2>1 DEF CommandOf, Fresh, BodyPcs, CasPcs, CasOf, ProbePcs
<1>8. CASE \E r : ChooseShape(c, t, r)
  <2>1. /\ Same(s, t) /\ t.probe.ok
        /\ \/ s.pc = "backup" /\ t.pc = "backupBody"
           \/ s.pc = "repair" /\ t.pc = "repairBody"
           \/ s.pc = "refresh" /\ t.pc = "refreshBody"
    BY <1>8 DEF ChooseShape, Returned
  <2>2. /\ s.pc \in ProposingPcs \cup CommittedPcs /\ t.pc \notin ProbePcs
        /\ t.pc \in ProposingPcs \cup BackupPcs => s.pc \in ProposingPcs \cup BackupPcs
    BY <2>1 DEF ProposingPcs, CommittedPcs, ProbePcs, BackupPcs
  <2> QED
    BY <2>1, <2>2 DEF CommandOf, Same
<1>9. CASE BodyShape(c, t)
  <2>1. s.pc \in BodyPcs /\ t.pc = CasOf[s.pc] /\ Same(s, t) /\ t.probe = s.probe
    BY <1>9 DEF BodyShape
  <2>2. /\ s.pc \in ProposingPcs \cup CommittedPcs /\ t.pc \notin ProbePcs
        /\ t.pc = "primeCas" <=> s.pc = "primeBody"
        /\ s.pc # "primeCas" /\ t.pc # "primeBody"
        /\ t.pc \in ProposingPcs \cup BackupPcs => s.pc \in ProposingPcs \cup BackupPcs
    BY <2>1 DEF BodyPcs, CasOf, ProposingPcs, CommittedPcs, ProbePcs, BackupPcs
  <2> QED
    BY <2>1, <2>2 DEF CommandOf, Same
<1>10. CASE MoveShape(c, t)
  <2>1. Same(s, t) /\ (t.pc = "primeBody" \/ Fresh(t))
    BY <1>10 DEF MoveShape
  <2>2. t.pc \in {"backup", "primeBody", "wait", "repair", "refresh"}
    BY <1>10 DEF MoveShape
  <2>3. /\ t.pc # "wait" => s.pc \in ProposingPcs \cup CommittedPcs
        /\ t.pc \in ProposingPcs \cup BackupPcs => s.pc \in ProposingPcs \cup BackupPcs
    BY <1>10 DEF MoveShape, ProposingPcs, CommittedPcs, BackupPcs
  <2> QED
    BY <1>2, <2>1, <2>2, <2>3
    DEF CommandOf, Same, Fresh, ProposingPcs, CommittedPcs, BodyPcs, CasPcs, CasOf, ProbePcs
<1> QED
  BY <1>3, <1>4, <1>5, <1>6, <1>7, <1>8, <1>9, <1>10 DEF Shape

(* The initial states satisfy the invariant of commands.                   *)
LEMMA InitCommand == Init => CommandInv
<1> SUFFICES ASSUME Init PROVE CommandInv
  OBVIOUS
<1>1. TypeInv
  BY InitType
<1>2. \A c \in CN : cn[c].pc = "off"
  BY DEF Init, Off
<1> QED
  BY <1>1, <1>2 DEF CommandInv, CommandOf, ProposingPcs, CommittedPcs, BodyPcs, CasPcs, CasOf,
                    ProbePcs, BackupPcs

(* Every step keeps the invariant of commands.                             *)
LEMMA NextCommand == CommandInv /\ [Next]_vars => CommandInv'
<1> SUFFICES ASSUME CommandInv, [Next]_vars PROVE CommandInv'
  OBVIOUS
<1>1. TypeInv /\ TypeInv' /\ \A d \in CN : CommandOf(cn[d])
  BY NextType DEF CommandInv
<1>2. ASSUME NEW c \in CN, ClientNext(c) PROVE \A d \in CN : CommandOf(cn'[d])
  <2>1. StepShape(c)
    BY <1>1, <1>2, ClientIsShaped
  <2>2. CommandOf(cn'[c])
    BY <1>1, <2>1, CommandKept DEF StepShape
  <2> QED
    BY <1>1, <2>1, <2>2 DEF StepShape
<1>3. ASSUME NEW n \in Nodes, NodeNext(n) PROVE \A d \in CN : CommandOf(cn'[d])
  BY <1>1, <1>3, NodeIsShaped
<1>4. CASE UNCHANGED vars
  BY <1>1, <1>4 DEF vars, CommandInv
<1>5. \A d \in CN : CommandOf(cn'[d])
  BY <1>1, <1>2, <1>3, <1>4 DEF Next, vars
<1> QED
  BY <1>1, <1>5 DEF CommandInv

(* Commands are well formed in every reachable state.                      *)
LEMMA CommandInvariant == Spec => []CommandInv
  BY InitCommand, NextCommand, PTL DEF Spec

(***************************************************************************)
(* Torn slots nobody holds.                                                *)
(***************************************************************************)

RecordAddr == AddrOf(RecordKinds)

(* Process s may still write to the slot at a.                             *)
HoldsOf(s, a) ==
    \/ /\ s.pc \in ProbePcs \cup BodyPcs \cup CasPcs
       /\ s.pc \notin {"primeBody", "primeCas"}
       /\ s.probe.ok
       /\ a = <<Node(s), Kind(s), s.probe.at>>
    \/ s.pc \in ProposingPcs /\ a = PrimeDest(s)

(* The requests of a commit go to a slot the process holds.                *)
LEMMA WriterHolds ==
  ASSUME NEW s, CommandOf(s), s.pc \in BodyPcs \cup CasPcs
  PROVE  HoldsOf(s, Dest(s))
<1>1. CASE s.pc \in {"primeBody", "primeCas"}
  BY <1>1, PrimeCommitDest DEF HoldsOf, ProposingPcs
<1>2. CASE s.pc \notin {"primeBody", "primeCas"}
  BY <1>2 DEF HoldsOf, CommandOf, Dest, Chosen
<1> QED
  BY <1>1, <1>2

(* A probe passes over torn slots: only a candidate it has had before it   *)
(* read the slot can be torn.                                              *)
LEMMA TornCandidate ==
  ASSUME TypeInv, NEW c \in CN, cn[c].pc \in ProbePcs, Examined(c).ok,
         NEW a, a = <<Node(cn[c]), Kind(cn[c]), Examined(c).at>>, Torn(mem[a])
  PROVE  HoldsOf(cn[c], a)
<1>1. Examined(c).at = FetchAt(c) => ~(Examined(c).slot = Fetched(c) /\ ~Torn(Fetched(c)))
  BY DEF Fetched
<1>2. /\ Examined(c).ok = cn[c].probe.ok
      /\ Examined(c).at = cn[c].probe.at
  BY <1>1, ExaminedCases
<1>3. cn[c].pc \notin {"primeBody", "primeCas"}
  BY DEF ProbePcs
<1> QED
  BY <1>2, <1>3 DEF HoldsOf

(* No step gives a client hold of a torn slot.                             *)
LEMMA HoldsStep ==
  ASSUME TypeInv, NEW c \in CN, NEW t, Shape(c, t), NEW a, Torn(mem[a]), HoldsOf(t, a)
  PROVE  HoldsOf(cn[c], a)
<1> DEFINE s == cn[c]
<1>1. ~ProbeStart.ok
  BY DEF ProbeStart
<1>2. ASSUME Same(s, t), s.pc \in ProposingPcs, a = PrimeDest(t) PROVE HoldsOf(s, a)
  BY <1>2 DEF Same, HoldsOf, PrimeDest
<1>3. CASE RestShape(t) \/ EvictingShape(c, t)
  BY <1>3 DEF RestShape, EvictingShape, EvictPcs, HoldsOf, ProposingPcs,
              BodyPcs, CasPcs, CasOf, ProbePcs
<1>4. CASE StartShape(t) \/ (\E r : ReadShapeOf(c, t, r)) \/ MissShape(c, t)
  <2>1. Fresh(t) /\ t.pc \notin ProposingPcs
    BY <1>4 DEF StartShape, ReadShapeOf, MissShape, ProposingPcs
  <2> QED
    BY <1>1, <2>1 DEF HoldsOf, Fresh
<1>5. CASE ScanShape(c, t)
  <2>1. /\ t.pc = s.pc /\ s.pc \in ProbePcs /\ Same(s, t) /\ t.probe = Examined(c)
        /\ Node(t) = Node(s) /\ Kind(t) = Kind(s)
    BY <1>5, PlaceKept DEF ScanShape, SamePlace, Same
  <2>2. CASE t.probe.ok /\ a = <<Node(t), Kind(t), t.probe.at>>
    BY <2>1, <2>2, TornCandidate
  <2>3. CASE t.pc \in ProposingPcs /\ a = PrimeDest(t)
    BY <1>2, <2>1, <2>3
  <2> QED
    BY <2>2, <2>3 DEF HoldsOf
<1>6. ASSUME NEW r, ProposeShape(c, t, r) PROVE HoldsOf(s, a)
  <2>1. /\ s.pc = "write" /\ r = Examined(c) /\ r.ok /\ t.op = s.op /\ t.prime = r
        /\ t.pc = "primeBody" \/ (t.pc \in {"backup", "wait"} /\ Fresh(t))
    BY <1>6 DEF ProposeShape, Returned
  <2>2. a = PrimeDest(t)
    BY <1>1, <2>1 DEF HoldsOf, Fresh
  <2>3. Node(s) = td_primary_session(s.op.key) /\ Kind(s) = "prime" /\ s.pc \in ProbePcs
    BY <2>1 DEF Node, Kind, EvictPcs, BackupPcs, CachePcs, ProbePcs
  <2>4. a = <<Node(s), Kind(s), Examined(c).at>>
    BY <2>1, <2>2, <2>3 DEF PrimeDest
  <2> QED
    BY <2>1, <2>3, <2>4, TornCandidate
<1>7. ASSUME NEW r, ChooseShape(c, t, r) PROVE HoldsOf(s, a)
  <2>1. /\ s.pc \in ProbePcs /\ Same(s, t) /\ t.probe = Examined(c) /\ Examined(c).ok
        /\ Node(t) = Node(s) /\ Kind(t) = Kind(s)
    BY <1>7, PlaceKept DEF ChooseShape, Returned, SamePlace, Same, ProbePcs
  <2>2. t.pc \in ProposingPcs => s.pc \in ProposingPcs
    BY <1>7 DEF ChooseShape, ProposingPcs
  <2>3. CASE a = <<Node(t), Kind(t), t.probe.at>>
    BY <2>1, <2>3, TornCandidate
  <2>4. CASE t.pc \in ProposingPcs /\ a = PrimeDest(t)
    BY <1>2, <2>1, <2>2, <2>4
  <2> QED
    BY <2>3, <2>4 DEF HoldsOf
<1>8. CASE BodyShape(c, t)
  <2>1. /\ s.pc \in BodyPcs /\ t.pc = CasOf[s.pc] /\ Same(s, t) /\ t.probe = s.probe
        /\ Node(t) = Node(s) /\ Kind(t) = Kind(s)
    BY <1>8, PlaceKept DEF BodyShape, SamePlace, Same
  <2>2. /\ t.pc = "primeCas" <=> s.pc = "primeBody"
        /\ s.pc # "primeCas"
        /\ t.pc \in ProposingPcs => s.pc \in ProposingPcs
    BY <2>1 DEF BodyPcs, CasOf, ProposingPcs
  <2>3. CASE t.pc \notin {"primeBody", "primeCas"} /\ t.probe.ok /\ a = <<Node(t), Kind(t), t.probe.at>>
    BY <2>1, <2>2, <2>3 DEF HoldsOf
  <2>4. CASE t.pc \in ProposingPcs /\ a = PrimeDest(t)
    BY <1>2, <2>1, <2>2, <2>4
  <2> QED
    BY <2>3, <2>4 DEF HoldsOf
<1>9. CASE MoveShape(c, t)
  <2>1. Same(s, t) /\ (t.pc = "primeBody" \/ Fresh(t))
    BY <1>9 DEF MoveShape
  <2>2. t.pc \in ProposingPcs => s.pc \in ProposingPcs
    BY <1>9 DEF MoveShape, ProposingPcs
  <2>3. t.pc \in ProposingPcs /\ a = PrimeDest(t)
    BY <1>1, <2>1 DEF HoldsOf, Fresh
  <2> QED
    BY <1>2, <2>1, <2>2, <2>3
<1> QED
  BY <1>3, <1>4, <1>5, <1>6, <1>7, <1>8, <1>9 DEF Shape

(* A client writes to slots it holds, and to no other.                     *)
LEMMA OthersUntouched ==
  ASSUME CommandInv, NEW c \in CN, MemoryShape(c), NEW a \in Addr, ~HoldsOf(cn[c], a)
  PROVE  mem'[a] = mem[a]
<1>1. CASE mem' = mem
  BY <1>1
<1>2. CASE mem' # mem
  <2>1. /\ cn[c].pc \in BodyPcs \cup CasPcs
        /\ mem' = BodyWritten(cn[c]) \/ mem' = CasApplied(cn[c])
    BY <1>2 DEF MemoryShape
  <2>2. a # Dest(cn[c])
    BY <2>1, WriterHolds DEF CommandInv
  <2>3. mem \in [Addr -> Slot]
    BY DEF CommandInv, TypeInv, TypeOK
  <2> QED
    BY <2>1, <2>2, <2>3 DEF BodyWritten, CasApplied
<1> QED
  BY <1>1, <1>2

(* A memory node changes PRIME and BACKUP by a restart only.               *)
LEMMA NodeRecords ==
  ASSUME TypeInv, NEW n \in Nodes, NodeNext(n), NEW a \in RecordAddr
  PROVE  \/ mem'[a] = mem[a]
         \/ a[1] = n /\ mem'[a] = EmptySlot /\ \A d \in CN : ~link'[d][n]
<1>1. a \in Addr /\ a[2] \in RecordKinds
  BY DEF RecordAddr, AddrOf
<1>2. ASSUME NEW victims, mem' = Cleared(n, victims) PROVE mem'[a] = mem[a]
  BY <1>1, <1>2 DEF Cleared, RecordKinds
<1>3. CASE Zeroed(n) /\ \A d \in CN : ~link'[d][n]
  BY <1>1, <1>3 DEF Zeroed
<1> QED
  BY <1>2, <1>3, NodeIsShaped

(* Every step leaves a leaked slot leaked, or zeroes it.                   *)
LEMMA LeakStep ==
  ASSUME CommandInv, [Next]_vars, NEW a \in RecordAddr, Leaked(a)
  PROVE  (mem'[a] = mem[a] /\ Leaked(a)') \/ mem'[a] = EmptySlot
<1>1. TypeInv /\ a \in Addr
  BY DEF CommandInv, RecordAddr, AddrOf
<1>2. Torn(mem[a]) /\ \A d \in CN : ~HoldsOf(cn[d], a)
  BY DEF Leaked, Holds, HoldsOf
<1>3. ASSUME mem'[a] = mem[a], \A d \in CN : ~HoldsOf(cn'[d], a) PROVE Leaked(a)'
  BY <1>2, <1>3 DEF Leaked, Holds, HoldsOf, Torn
<1>4. ASSUME NEW c \in CN, ClientNext(c) PROVE mem'[a] = mem[a] /\ Leaked(a)'
  <2>1. StepShape(c)
    BY <1>1, <1>4, ClientIsShaped
  <2>2. mem'[a] = mem[a]
    BY <1>1, <1>2, <2>1, OthersUntouched DEF StepShape
  <2>3. ~HoldsOf(cn'[c], a)
    BY <1>1, <1>2, <2>1, HoldsStep DEF StepShape
  <2>4. \A d \in CN : ~HoldsOf(cn'[d], a)
    BY <1>2, <2>1, <2>3 DEF StepShape
  <2> QED
    BY <1>3, <2>2, <2>4
<1>5. ASSUME NEW n \in Nodes, NodeNext(n)
      PROVE  (mem'[a] = mem[a] /\ Leaked(a)') \/ mem'[a] = EmptySlot
  <2>1. cn' = cn
    BY <1>1, <1>5, NodeIsShaped
  <2> QED
    BY <1>1, <1>2, <1>3, <1>5, <2>1, NodeRecords
<1>6. CASE UNCHANGED vars
  BY <1>2, <1>3, <1>6 DEF vars
<1> QED
  BY <1>4, <1>5, <1>6 DEF Next

(* A torn slot of PRIME or BACKUP that no command holds is lost: whatever  *)
(* clients do and however they fail, it is not written, chosen or repaired *)
(* again before its node restarts (td_probe_slot skips slots whose epochs  *)
(* differ).                                                                *)
THEOREM LeakedForGood == Spec => LeakIsPermanent
<1> DEFINE Step == \A a \in AddrOf({"prime", "backup"}) :
                     Leaked(a) => \/ mem'[a] = mem[a] /\ Leaked(a)'
                                  \/ mem'[a] = EmptySlot
<1>1. CommandInv /\ [Next]_vars => [Step]_vars
  BY LeakStep DEF RecordAddr, RecordKinds
<1>2. Spec => [][Step]_vars
  BY <1>1, CommandInvariant, PTL DEF Spec
<1> QED
  BY <1>2 DEF LeakIsPermanent

(***************************************************************************)
(* Probe chains.                                                           *)
(***************************************************************************)

(* A remainder of less than two turns.                                     *)
LEMMA ModSmall ==
  ASSUME NEW m \in Nat \ {0}, NEW k \in 0 .. 2 * m - 1
  PROVE  k % m = IF k < m THEN k ELSE k - m
  BY SMT

(* A chain passes every slot once.                                         *)
LEMMA ChainInjective ==
  ASSUME NEW n \in Nodes, NEW kind \in Kinds, NEW h \in Nat,
         NEW d \in 0 .. SlotCount[n][kind] - 1, NEW e \in 0 .. SlotCount[n][kind] - 1,
         SlotIndex(n, kind, h, d) = SlotIndex(n, kind, h, e)
  PROVE  d = e
<1> DEFINE m == SlotCount[n][kind]
           x == h % m
<1>1. m \in Nat \ {0}
  BY SlotCountAssumption
<1>2. x \in 0 .. m - 1
  BY <1>1, ModType
<1>3. (x + d) % m = (x + e) % m
  BY DEF SlotIndex
<1> HIDE DEF x, m
<1>4. d \in 0 .. m - 1 /\ e \in 0 .. m - 1
  BY DEF m
<1>5. x + d \in 0 .. 2 * m - 1 /\ x + e \in 0 .. 2 * m - 1
  BY <1>1, <1>2, <1>4
<1>6. \A k \in 0 .. 2 * m - 1 : k % m = IF k < m THEN k ELSE k - m
  BY <1>1, ModSmall
<1> DEFINE u == x + d
           v == x + e
<1>7. u \in 0 .. 2 * m - 1 /\ v \in 0 .. 2 * m - 1 /\ u % m = v % m
  BY <1>3, <1>5, Zenon
<1>8. u = x + d /\ v = x + e
  OBVIOUS
<1> HIDE DEF u, v
<1>9. (IF u < m THEN u ELSE u - m) = (IF v < m THEN v ELSE v - m)
  BY <1>6, <1>7, Zenon
<1> QED
  BY <1>1, <1>2, <1>4, <1>8, <1>9

(* No slot of the chains on node n becomes empty from memory m to m2.      *)
KeepsChains(n, m, m2) ==
    \A b \in RecordAddr : b[1] = n => (td_slot_is_empty(m2[b]) => td_slot_is_empty(m[b]))

(* The slots a probe passes are slots of the node.                         *)
LEMMA ChainAddr ==
  ASSUME NEW n \in Nodes, NEW kind \in RecordKinds, NEW h \in Nat, NEW d \in Nat,
         SlotCount[n][kind] > 0
  PROVE  ChainAt(n, kind, h, d) \in RecordAddr /\ ChainAt(n, kind, h, d)[1] = n
<1>1. kind \in Kinds
  BY DEF RecordKinds, Kinds
<1>2. ChainAt(n, kind, h, d) \in Addr
  BY <1>1, SlotIndexType DEF ChainAt
<1>3. ChainAt(n, kind, h, d)[1] = n /\ ChainAt(n, kind, h, d)[2] = kind
  BY DEF ChainAt
<1> QED
  BY <1>2, <1>3 DEF RecordAddr, AddrOf

(* What is occupied stays occupied.                                        *)
LEMMA OccupiedMono ==
  ASSUME NEW n \in Nodes, NEW kind \in RecordKinds, NEW h \in Nat, NEW d \in Nat,
         d = 0 \/ SlotCount[n][kind] > 0,
         NEW m, NEW m2, KeepsChains(n, m, m2), Occupied(n, kind, h, d, m)
  PROVE  Occupied(n, kind, h, d, m2)
<1> SUFFICES ASSUME NEW d2 \in 0 .. d - 1
             PROVE  ~td_slot_is_empty(m2[ChainAt(n, kind, h, d2)])
  BY DEF Occupied
<1>1. SlotCount[n][kind] > 0 /\ d2 \in Nat
  OBVIOUS
<1>2. ~td_slot_is_empty(m[ChainAt(n, kind, h, d2)])
  BY DEF Occupied
<1> QED
  BY <1>1, <1>2, ChainAddr DEF KeepsChains

(* What is reached stays in reach.                                         *)
LEMMA ReachedMono ==
  ASSUME NEW n \in Nodes, NEW kind \in RecordKinds, NEW h \in Nat, NEW at,
         NEW m, NEW m2, KeepsChains(n, m, m2), Reached(n, kind, h, at, m)
  PROVE  Reached(n, kind, h, at, m2)
<1>1. PICK d \in 0 .. SlotCount[n][kind] - 1 :
             at = SlotIndex(n, kind, h, d) /\ Occupied(n, kind, h, d, m)
  BY DEF Reached
<1>2. SlotCount[n][kind] \in Nat
  BY SlotCountAssumption DEF RecordKinds, Kinds
<1>3. d \in Nat /\ SlotCount[n][kind] > 0
  BY <1>2
<1>4. Occupied(n, kind, h, d, m2)
  BY <1>1, <1>3, OccupiedMono
<1> QED
  BY <1>1, <1>4 DEF Reached

(* What a process knows of chains stays true while none is broken on the   *)
(* nodes it has a session with.                                            *)
LEMMA ChainMono ==
  ASSUME NEW s \in Process, WellFormed(s), CommandOf(s), NEW m, NEW m2, NEW up, NEW up2,
         \A n \in Nodes : up2[n] => up[n] /\ KeepsChains(n, m, m2),
         ChainOf(s, m, up)
  PROVE  ChainOf(s, m2, up2)
<1> DEFINE h == Hash[s.op.key]
           p == td_primary_session(s.op.key)
<1>1. ASSUME s.pc \in ProbePcs \cup BodyPcs \cup CasPcs \cup ProposingPcs
      PROVE  Node(s) \in Nodes /\ p \in Nodes /\ h \in Nat
  <2>1. s.pc \in KeyedPcs
    BY <1>1 DEF ProbePcs, BodyPcs, CasPcs, CasOf, ProposingPcs, KeyedPcs, PrimePcs, CachePcs,
                BackupPcs
  <2> QED
    BY <2>1, NodeType, SessionType, HashAssumption DEF WellFormed
<1>2. s.probe.i \in Nat /\ (s.pc \in ProbePcs => s.probe.i = 0 \/ s.probe.i < Count(s))
  BY DEF CommandOf, Process, ProbeRecord
<1>3. ASSUME s.pc \in ProbePcs, Kind(s) \in RecordKinds, up2[Node(s)]
      PROVE  /\ Occupied(Node(s), Kind(s), h, s.probe.i, m2)
             /\ s.probe.ok => Reached(Node(s), Kind(s), h, s.probe.at, m2)
  <2>1. Node(s) \in Nodes /\ h \in Nat /\ up[Node(s)] /\ KeepsChains(Node(s), m, m2)
    BY <1>1, <1>3
  <2>2. SlotCount[Node(s)][Kind(s)] \in Nat
    BY <1>3, <2>1, SlotCountAssumption DEF RecordKinds, Kinds
  <2>3. s.probe.i = 0 \/ SlotCount[Node(s)][Kind(s)] > 0
    BY <1>2, <1>3, <2>2 DEF Count
  <2> QED
    BY <1>2, <1>3, <2>1, <2>3, OccupiedMono, ReachedMono DEF ChainOf
<1>4. ASSUME s.pc \in (BodyPcs \cup CasPcs) \ {"primeBody", "primeCas"},
             Kind(s) \in RecordKinds, up2[Node(s)]
      PROVE  Reached(Node(s), Kind(s), h, s.probe.at, m2)
  <2>1. Node(s) \in Nodes /\ h \in Nat /\ up[Node(s)] /\ KeepsChains(Node(s), m, m2)
    BY <1>1, <1>4
  <2> QED
    BY <1>4, <2>1, ReachedMono DEF ChainOf
<1>5. ASSUME s.pc \in ProposingPcs, up2[p]
      PROVE  Reached(p, "prime", h, s.prime.at, m2)
  <2>1. p \in Nodes /\ h \in Nat /\ up[p] /\ KeepsChains(p, m, m2)
    BY <1>1, <1>5
  <2>2. "prime" \in RecordKinds
    BY DEF RecordKinds
  <2> QED
    BY <1>5, <2>1, <2>2, ReachedMono DEF ChainOf
<1> QED
  BY <1>3, <1>4, <1>5 DEF ChainOf

(* A candidate lies on the chain of its key, behind occupied slots only.   *)
LEMMA ExaminedReached ==
  ASSUME CommandInv, NEW c \in CN, ChainOf(cn[c], mem, link[c]),
         cn[c].pc \in ProbePcs, Count(cn[c]) > 0, Kind(cn[c]) \in RecordKinds,
         link[c][Node(cn[c])]
  PROVE  LET s == cn[c]
             h == Hash[s.op.key]
         IN  /\ Examined(c).ok => Reached(Node(s), Kind(s), h, Examined(c).at, mem)
             /\ ~td_slot_is_empty(Fetched(c)) =>
                   Occupied(Node(s), Kind(s), h, Examined(c).i, mem)
<1> DEFINE s == cn[c]
           h == Hash[s.op.key]
           p == s.probe
<1>1. TypeInv /\ CommandOf(s) /\ s \in Process /\ WellFormed(s)
  BY KeyedProcess DEF CommandInv
<1>2. Occupied(Node(s), Kind(s), h, p.i, mem)
  BY DEF ChainOf
<1>3. p.ok => Reached(Node(s), Kind(s), h, p.at, mem)
  BY DEF ChainOf
<1>4. p.i \in Nat /\ (p.i = 0 \/ p.i < Count(s))
  BY <1>1 DEF CommandOf, Process, ProbeRecord
<1>5. Count(s) \in Nat
  <2>1. s.pc \in KeyedPcs \cup EvictPcs
    BY DEF ProbePcs, KeyedPcs, PrimePcs, CachePcs, BackupPcs
  <2> QED
    BY <1>1, <2>1, NodeType, SlotCountAssumption DEF Count
<1>6. p.i \in 0 .. SlotCount[Node(s)][Kind(s)] - 1
  BY <1>4, <1>5 DEF Count
<1>7. FetchAt(c) = SlotIndex(Node(s), Kind(s), h, p.i)
  BY DEF FetchAt
<1>8. Fetched(c) = mem[ChainAt(Node(s), Kind(s), h, p.i)]
  BY <1>7 DEF Fetched, ChainAt
<1>9. Reached(Node(s), Kind(s), h, FetchAt(c), mem)
  BY <1>2, <1>6, <1>7 DEF Reached
<1>10. Examined(c).ok => Reached(Node(s), Kind(s), h, Examined(c).at, mem)
  BY <1>1, <1>3, <1>9, ExaminedCases
<1>11. ~td_slot_is_empty(Fetched(c)) => Occupied(Node(s), Kind(s), h, Examined(c).i, mem)
  <2> SUFFICES ASSUME ~td_slot_is_empty(Fetched(c)), NEW d \in 0 .. p.i
               PROVE  ~td_slot_is_empty(mem[ChainAt(Node(s), Kind(s), h, d)])
    <3>1. Examined(c).i = p.i + 1
      BY <1>1, ExaminedCases
    <3>2. 0 .. Examined(c).i - 1 = 0 .. p.i
      BY <1>4, <3>1
    <3> QED
      BY <3>2 DEF Occupied
  <2>1. CASE d = p.i
    BY <1>8, <2>1
  <2>2. CASE d # p.i
    <3>1. d \in 0 .. p.i - 1
      BY <1>4, <2>2
    <3> QED
      BY <1>2, <3>1 DEF Occupied
  <2> QED
    BY <2>1, <2>2
<1> QED
  BY <1>10, <1>11

(* A process that has just begun a probe and proposes nothing new knows    *)
(* what it should.                                                         *)
LEMMA FreshChain ==
  ASSUME NEW t, Fresh(t), t.pc \in ProbePcs \cup {"primeBody"}, NEW m, NEW up,
         t.pc \in ProposingPcs /\ up[td_primary_session(t.op.key)]
         => Reached(td_primary_session(t.op.key), "prime", Hash[t.op.key], t.prime.at, m)
  PROVE  ChainOf(t, m, up)
<1>1. t.probe.i = 0 /\ ~t.probe.ok
  BY DEF Fresh, ProbeStart
<1>2. Occupied(Node(t), Kind(t), Hash[t.op.key], t.probe.i, m)
  BY <1>1 DEF Occupied
<1>3. t.pc \notin (BodyPcs \cup CasPcs) \ {"primeBody", "primeCas"}
  BY DEF ProbePcs, BodyPcs, CasPcs, CasOf
<1> QED
  BY <1>1, <1>2, <1>3 DEF ChainOf

(* A command about to commit to PRIME without a probe of its own.          *)
LEMMA PrimeBodyChain ==
  ASSUME NEW t, t.pc = "primeBody", NEW m, NEW up,
         up[td_primary_session(t.op.key)]
         => Reached(td_primary_session(t.op.key), "prime", Hash[t.op.key], t.prime.at, m)
  PROVE  ChainOf(t, m, up)
  BY DEF ChainOf, ProbePcs

(* The step of a command keeps what it knows of chains, memory aside.      *)
LEMMA ChainKept ==
  ASSUME CommandInv, NEW c \in CN, NEW t, ChainOf(cn[c], mem, link[c]), Shape(c, t)
  PROVE  RestShape(t) \/ ChainOf(t, mem, link[c])
<1> DEFINE s == cn[c]
           up == link[c]
           h == Hash[s.op.key]
           n == td_primary_session(s.op.key)
<1>1. TypeInv /\ s \in Process /\ CommandOf(s)
  BY KeyedProcess DEF CommandInv
<1>2. s.pc \in ProposingPcs /\ up[n] => Reached(n, "prime", h, s.prime.at, mem)
  BY DEF ChainOf
<1>3. CASE EvictingShape(c, t)
  BY <1>3 DEF EvictingShape, EvictPcs, ChainOf, ProposingPcs, BodyPcs, CasPcs, CasOf, ProbePcs
<1>4. CASE StartShape(t) \/ (\E r : ReadShapeOf(c, t, r)) \/ MissShape(c, t)
  <2>1. Fresh(t) /\ t.pc \in ProbePcs /\ t.pc \notin ProposingPcs
    BY <1>4 DEF StartShape, ReadShapeOf, MissShape, ProposingPcs, ProbePcs
  <2> QED
    BY <2>1, FreshChain
<1>5. CASE ScanShape(c, t)
  <2>1. /\ t.pc = s.pc /\ s.pc \in ProbePcs /\ Same(s, t) /\ t.probe = Examined(c)
        /\ Count(s) > 0 /\ ~td_slot_is_empty(Fetched(c))
    BY <1>5 DEF ScanShape, ProbeOver
  <2>2. Node(t) = Node(s) /\ Kind(t) = Kind(s)
    BY <1>5, PlaceKept DEF ScanShape, SamePlace, Same
  <2>3. t.op = s.op /\ t.prime = s.prime
    BY <2>1 DEF Same
  <2>4. ASSUME Kind(t) \in RecordKinds, up[Node(t)]
        PROVE  /\ Occupied(Node(t), Kind(t), Hash[t.op.key], t.probe.i, mem)
               /\ t.probe.ok => Reached(Node(t), Kind(t), Hash[t.op.key], t.probe.at, mem)
    BY <2>1, <2>2, <2>3, <2>4, ExaminedReached
  <2>5. t.pc \notin (BodyPcs \cup CasPcs) \ {"primeBody", "primeCas"}
    BY <2>1 DEF ProbePcs, BodyPcs, CasPcs, CasOf
  <2>6. t.pc \in ProposingPcs /\ up[td_primary_session(t.op.key)]
        => Reached(td_primary_session(t.op.key), "prime", Hash[t.op.key], t.prime.at, mem)
    BY <1>2, <2>1, <2>3
  <2> QED
    BY <2>4, <2>5, <2>6 DEF ChainOf
<1>6. ASSUME NEW r, ProposeShape(c, t, r) PROVE ChainOf(t, mem, up)
  <2>1. /\ s.pc = "write" /\ Count(s) > 0 /\ r = Examined(c) /\ r.ok
        /\ t.op = s.op /\ t.prime = r
        /\ t.pc = "primeBody" \/ (t.pc \in {"backup", "wait"} /\ Fresh(t))
    BY <1>6 DEF ProposeShape, Returned
  <2>2. Node(s) = n /\ Kind(s) = "prime" /\ s.pc \in ProbePcs /\ Kind(s) \in RecordKinds
    BY <2>1 DEF Node, Kind, EvictPcs, BackupPcs, CachePcs, ProbePcs, RecordKinds
  <2>3. up[n] => Reached(n, "prime", h, r.at, mem)
    BY <2>1, <2>2, ExaminedReached
  <2>4. {"backup", "wait"} \subseteq ProbePcs
    BY DEF ProbePcs
  <2> QED
    BY <2>1, <2>3, <2>4, FreshChain, PrimeBodyChain
<1>7. ASSUME NEW r, ChooseShape(c, t, r) PROVE ChainOf(t, mem, up)
  <2>1. /\ s.pc \in ProbePcs /\ Count(s) > 0 /\ t.op = s.op /\ t.prime = s.prime
        /\ t.probe = Examined(c) /\ Examined(c).ok
    BY <1>7 DEF ChooseShape, Returned, Same, ProbePcs
  <2>2. Node(t) = Node(s) /\ Kind(t) = Kind(s)
    BY <1>7, PlaceKept DEF ChooseShape, SamePlace, Same
  <2>3. Kind(t) \in RecordKinds /\ up[Node(t)]
        => Reached(Node(t), Kind(t), Hash[t.op.key], t.probe.at, mem)
    BY <2>1, <2>2, ExaminedReached
  <2>4. t.pc \notin ProbePcs /\ (t.pc \in ProposingPcs => s.pc \in ProposingPcs)
    BY <1>7 DEF ChooseShape, ProbePcs, ProposingPcs
  <2> QED
    BY <1>2, <2>1, <2>3, <2>4 DEF ChainOf
<1>8. CASE BodyShape(c, t)
  <2>1. /\ s.pc \in BodyPcs /\ t.pc = CasOf[s.pc] /\ t.op = s.op /\ t.prime = s.prime
        /\ t.probe = s.probe
    BY <1>8 DEF BodyShape, Same
  <2>2. Node(t) = Node(s) /\ Kind(t) = Kind(s)
    BY <1>8, PlaceKept DEF BodyShape, SamePlace, Same
  <2>3. /\ t.pc \notin ProbePcs
        /\ t.pc \in ProposingPcs => s.pc \in ProposingPcs
        /\ t.pc \notin {"primeBody", "primeCas"} => s.pc \notin {"primeBody", "primeCas"}
    BY <2>1 DEF BodyPcs, CasOf, ProposingPcs, ProbePcs
  <2> QED
    BY <1>2, <2>1, <2>2, <2>3 DEF ChainOf
<1>9. CASE MoveShape(c, t)
  <2>1. t.op = s.op /\ t.prime = s.prime /\ (t.pc = "primeBody" \/ Fresh(t))
    BY <1>9 DEF MoveShape, Same
  <2>2. t.pc \in {"backup", "primeBody", "wait", "repair", "refresh"}
    BY <1>9 DEF MoveShape
  <2>3. t.pc \in ProposingPcs => s.pc \in ProposingPcs
    BY <1>9 DEF MoveShape, ProposingPcs
  <2>4. "primeBody" \in ProposingPcs /\ t.pc \in ProbePcs \cup {"primeBody"}
    BY <2>2 DEF ProbePcs, ProposingPcs
  <2> QED
    BY <1>2, <2>1, <2>3, <2>4, FreshChain, PrimeBodyChain
<1> QED
  BY <1>3, <1>4, <1>5, <1>6, <1>7, <1>8, <1>9 DEF Shape

(* Writers leave occupied slots: a body is valid, and a CAS sets an epoch  *)
(* past zero.                                                              *)
LEMMA WritesOccupy ==
  ASSUME CommandInv, NEW c \in CN, MemoryShape(c), NEW b \in RecordAddr,
         td_slot_is_empty(mem'[b])
  PROVE  td_slot_is_empty(mem[b])
<1> DEFINE s == cn[c]
<1>1. b \in Addr /\ mem \in [Addr -> Slot] /\ s \in Process /\ CommandOf(s)
  BY DEF RecordAddr, AddrOf, CommandInv, TypeInv, TypeOK
<1>2. CASE mem'[b] = mem[b]
  BY <1>2
<1>3. CASE mem'[b] # mem[b]
  <2>1. s.pc \in BodyPcs \cup CasPcs /\ b = Dest(s)
    BY <1>1, <1>3 DEF MemoryShape, BodyWritten, CasApplied
  <2>2. s.pc \in ProposingPcs \cup CommittedPcs
    BY <2>1 DEF BodyPcs, CasPcs, CasOf, ProposingPcs, CommittedPcs
  <2>3. s.pc \in ProposingPcs \cup BackupPcs
    <3>1. Kind(s) \in RecordKinds
      BY <2>1 DEF Dest, RecordAddr, AddrOf
    <3> QED
      BY <2>1, <3>1 DEF Kind, RecordKinds, BodyPcs, CasPcs, CasOf, ProposingPcs, BackupPcs,
                        CachePcs
  <2>4. s.prop.valid /\ s.prop.visible > 0 /\ s.prop \in Slot /\ mem[b] \in Slot
    BY <1>1, <2>2, <2>3 DEF CommandOf, Process
  <2>5. CASE mem' = BodyWritten(s)
    <3>1. mem'[b] = [s.prop EXCEPT !.guard = mem[b].guard]
      BY <1>1, <2>1, <2>5 DEF BodyWritten
    <3>2. mem'[b].valid
      BY <2>4, <3>1 DEF Slot
    <3> QED
      BY <3>2 DEF td_slot_is_empty
  <2>6. CASE mem' = CasApplied(s)
    <3>1. mem'[b] = [mem[b] EXCEPT !.guard = s.prop.visible]
      BY <1>1, <1>3, <2>1, <2>6 DEF CasApplied
    <3>2. mem'[b].guard = s.prop.visible
      BY <2>4, <3>1 DEF Slot
    <3> QED
      BY <2>4, <3>2 DEF td_slot_is_empty
  <2> QED
    BY <1>3, <2>5, <2>6 DEF MemoryShape
<1> QED
  BY <1>2, <1>3

(* Every slot before the record at a, on the chain of its hash, is         *)
(* occupied in memory m.                                                   *)
IntactAt(a, m) ==
    m[a].valid => \A d \in 0 .. SlotCount[a[1]][a[2]] - 1 :
                     a = ChainAt(a[1], a[2], m[a].hash, d)
                     => Occupied(a[1], a[2], m[a].hash, d, m)

(* The property, record by record.                                         *)
LEMMA IntactDef == ProbeChainIntact <=> \A a \in RecordAddr : IntactAt(a, mem)
  BY DEF ProbeChainIntact, IntactAt, Occupied, RecordAddr, RecordKinds

(* The chain of a record that was there before, or whose slot the writer's *)
(* probe has reached, is intact while no slot is emptied.                  *)
LEMMA IntactStep ==
  ASSUME NEW a \in RecordAddr, NEW m, NEW m2, m2[a] \in Slot,
         KeepsChains(a[1], m, m2), IntactAt(a, m),
         m2[a].valid => \/ m[a].valid /\ m[a].hash = m2[a].hash
                        \/ Reached(a[1], a[2], m2[a].hash, a[3], m)
  PROVE  IntactAt(a, m2)
<1> DEFINE n == a[1]
           kind == a[2]
           h == m2[a].hash
           top == SlotCount[n][kind]
<1>1. /\ a = <<n, kind, a[3]>> /\ n \in Nodes /\ kind \in RecordKinds /\ kind \in Kinds
      /\ h \in Nat /\ top \in Nat
  <2>1. a \in Addr /\ kind \in RecordKinds
    BY DEF RecordAddr, AddrOf
  <2>2. a = <<n, kind, a[3]>> /\ n \in Nodes /\ kind \in Kinds
    BY <2>1, AddrElim
  <2> QED
    BY <2>1, <2>2, SlotCountAssumption DEF Slot
<1> SUFFICES ASSUME m2[a].valid, NEW d \in 0 .. top - 1, a = ChainAt(n, kind, h, d)
             PROVE  Occupied(n, kind, h, d, m2)
  BY DEF IntactAt
<1>2. d \in Nat /\ top > 0
  BY <1>1
<1>3. CASE m[a].valid /\ m[a].hash = m2[a].hash
  <2>1. Occupied(n, kind, h, d, m)
    BY <1>3 DEF IntactAt
  <2> QED
    BY <1>1, <1>2, <2>1, OccupiedMono
<1>4. CASE Reached(n, kind, h, a[3], m)
  <2>1. PICK e \in 0 .. top - 1 : a[3] = SlotIndex(n, kind, h, e) /\ Occupied(n, kind, h, e, m)
    BY <1>4 DEF Reached
  <2>2. a[3] = SlotIndex(n, kind, h, d)
    BY DEF ChainAt
  <2>3. d = e
    BY <1>1, <2>1, <2>2, ChainInjective
  <2> QED
    BY <1>1, <1>2, <2>1, <2>3, OccupiedMono
<1> QED
  BY <1>3, <1>4

(* The slot a commit addresses is one the probe of its key reaches.        *)
LEMMA DestReached ==
  ASSUME CommandInv, NEW c \in CN, ChainOf(cn[c], mem, link[c]),
         cn[c].pc \in BodyPcs \cup CasPcs, Served(c), Dest(cn[c]) \in RecordAddr
  PROVE  LET s == cn[c]
         IN  Reached(Dest(s)[1], Dest(s)[2], Hash[s.op.key], Dest(s)[3], mem)
<1> DEFINE s == cn[c]
<1>1. Dest(s)[1] = Node(s) /\ Dest(s)[2] = Kind(s) /\ Dest(s)[3] = Chosen(s).at
  BY DEF Dest
<1>2. Kind(s) \in RecordKinds /\ link[c][Node(s)]
  BY <1>1 DEF RecordAddr, AddrOf, Served
<1>3. CASE s.pc \in {"primeBody", "primeCas"}
  <2>1. Node(s) = td_primary_session(s.op.key) /\ Chosen(s) = s.prime
    BY <1>3, PrimeCommitDest
  <2>2. Kind(s) = "prime" /\ s.pc \in ProposingPcs
    BY <1>3 DEF Kind, CachePcs, BackupPcs, ProposingPcs
  <2> QED
    BY <1>1, <1>2, <2>1, <2>2 DEF ChainOf
<1>4. CASE s.pc \notin {"primeBody", "primeCas"}
  <2>1. Chosen(s) = s.probe
    BY <1>4 DEF Chosen
  <2> QED
    BY <1>1, <1>2, <1>4, <2>1 DEF ChainOf
<1> QED
  BY <1>3, <1>4

(* What a step of a client leaves at a slot of PRIME or BACKUP is a record *)
(* that was there before, or one that its probe reaches.                   *)
LEMMA WrittenReached ==
  ASSUME CommandInv, NEW c \in CN, ChainOf(cn[c], mem, link[c]), MemoryShape(c),
         NEW a \in RecordAddr, mem'[a].valid
  PROVE  \/ mem[a].valid /\ mem[a].hash = mem'[a].hash
         \/ Reached(a[1], a[2], mem'[a].hash, a[3], mem)
<1> DEFINE s == cn[c]
<1>1. a \in Addr /\ mem \in [Addr -> Slot] /\ s \in Process /\ CommandOf(s)
  BY DEF RecordAddr, AddrOf, CommandInv, TypeInv, TypeOK
<1>2. mem[a] \in Slot /\ s.prop \in Slot
  BY <1>1 DEF Process
<1>3. CASE mem'[a] = mem[a]
  BY <1>3
<1>4. CASE mem'[a] # mem[a] /\ mem' = CasApplied(s)
  <2>1. mem'[a] = [mem[a] EXCEPT !.guard = s.prop.visible]
    BY <1>1, <1>4 DEF CasApplied
  <2>2. mem'[a].valid = mem[a].valid /\ mem'[a].hash = mem[a].hash
    BY <1>2, <2>1 DEF Slot
  <2> QED
    BY <2>2
<1>5. CASE mem'[a] # mem[a] /\ s.pc \in BodyPcs /\ Served(c) /\ mem' = BodyWritten(s)
  <2>1. a = Dest(s)
    BY <1>1, <1>5 DEF BodyWritten
  <2>2. mem'[a] = [s.prop EXCEPT !.guard = mem[a].guard]
    BY <1>1, <1>5, <2>1 DEF BodyWritten
  <2>3. mem'[a].hash = s.prop.hash
    BY <1>2, <2>2 DEF Slot
  <2>4. s.pc \in ProposingPcs \cup CommittedPcs
    BY <1>5 DEF BodyPcs, CasOf, ProposingPcs, CommittedPcs
  <2>5. mem'[a].hash = Hash[s.op.key]
    BY <1>1, <2>3, <2>4 DEF CommandOf
  <2> QED
    BY <1>5, <2>1, <2>5, DestReached
<1> QED
  BY <1>3, <1>4, <1>5 DEF MemoryShape

(* A memory node that does not restart leaves PRIME and BACKUP alone.      *)
LEMMA NodeKeeps ==
  ASSUME TypeInv, NEW n \in Nodes, NodeNext(n), ~Zeroed(n), NEW a \in RecordAddr
  PROVE  mem'[a] = mem[a]
<1>1. a \in Addr /\ a[2] \in RecordKinds
  BY DEF RecordAddr, AddrOf
<1>2. ASSUME NEW victims, mem' = Cleared(n, victims) PROVE mem'[a] = mem[a]
  BY <1>1, <1>2 DEF Cleared, RecordKinds
<1> QED
  BY <1>2, NodeIsShaped

(* The initial states satisfy the invariant of chains.                     *)
LEMMA InitChain == Init => ChainInv
<1> SUFFICES ASSUME Init PROVE ChainInv
  OBVIOUS
<1>1. \A c \in CN : cn[c].pc = "off"
  BY DEF Init, Off
<1>2. \A c \in CN : ChainOf(cn[c], mem, link[c])
  BY <1>1 DEF ChainOf, ProposingPcs, BodyPcs, CasPcs, CasOf, ProbePcs
<1>3. \A a \in RecordAddr : ~mem[a].valid
  BY DEF Init, EmptySlot, RecordAddr, AddrOf
<1>4. ProbeChainIntact
  BY <1>3, IntactDef DEF IntactAt
<1> QED
  BY <1>2, <1>4, InitCommand DEF ChainInv

(* A step of a client keeps the invariant of chains.                       *)
LEMMA ClientChain ==
  ASSUME ChainInv, CommandInv', NEW c \in CN, ClientNext(c)
  PROVE  ChainInv'
<1>1. /\ CommandInv /\ TypeInv /\ TypeInv'
      /\ \A d \in CN : ChainOf(cn[d], mem, link[d])
      /\ \A a \in RecordAddr : IntactAt(a, mem)
  BY IntactDef DEF ChainInv, CommandInv
<1>2. StepShape(c)
  BY <1>1, ClientIsShaped
<1>3. \A n \in Nodes : KeepsChains(n, mem, mem')
  BY <1>1, <1>2, WritesOccupy DEF StepShape, KeepsChains
<1>4. \A d \in CN : cn'[d] \in Process /\ WellFormed(cn'[d]) /\ CommandOf(cn'[d])
  BY <1>1 DEF CommandInv, TypeInv, TypeOK
<1>5. ASSUME NEW d \in CN PROVE ChainOf(cn'[d], mem', link'[d])
  <2>1. CASE d = c /\ RestShape(cn'[c])
    BY <2>1 DEF RestShape, ChainOf, ProposingPcs, BodyPcs, CasPcs, CasOf, ProbePcs
  <2>2. CASE ~(d = c /\ RestShape(cn'[c]))
    <3>1. \A n \in Nodes : link'[d][n] => link[d][n]
      BY <1>2, <2>2 DEF StepShape, LinkShape
    <3>2. ChainOf(cn'[d], mem, link[d])
      <4>1. CASE d = c
        BY <1>1, <1>2, <2>2, <4>1, ChainKept DEF StepShape
      <4>2. CASE d # c
        BY <1>1, <1>2, <4>2 DEF StepShape
      <4> QED
        BY <4>1, <4>2
    <3> QED
      BY <1>3, <1>4, <3>1, <3>2, ChainMono
  <2> QED
    BY <2>1, <2>2
<1>6. ASSUME NEW a \in RecordAddr PROVE IntactAt(a, mem')
  <2>1. mem'[a] \in Slot /\ a[1] \in Nodes
    BY <1>1, AddrElim DEF TypeInv, TypeOK, RecordAddr, AddrOf
  <2>2. mem'[a].valid => \/ mem[a].valid /\ mem[a].hash = mem'[a].hash
                         \/ Reached(a[1], a[2], mem'[a].hash, a[3], mem)
    BY <1>1, <1>2, WrittenReached DEF StepShape
  <2> QED
    BY <1>1, <1>3, <2>1, <2>2, IntactStep
<1>7. ProbeChainIntact'
  BY <1>6 DEF ProbeChainIntact, IntactAt, Occupied, RecordAddr, RecordKinds
<1> QED
  BY <1>5, <1>7 DEF ChainInv

(* A step of a memory node keeps the invariant of chains.                  *)
LEMMA NodeChain ==
  ASSUME ChainInv, CommandInv', NEW n \in Nodes, NodeNext(n)
  PROVE  ChainInv'
<1>1. /\ CommandInv /\ TypeInv /\ TypeInv'
      /\ \A d \in CN : ChainOf(cn[d], mem, link[d])
      /\ \A a \in RecordAddr : IntactAt(a, mem)
  BY IntactDef DEF ChainInv, CommandInv
<1>2. cn' = cn /\ \A d \in CN, i \in Nodes : link'[d][i] => link[d][i]
  BY <1>1, NodeIsShaped
<1>3. \A a \in RecordAddr : \/ mem'[a] = mem[a]
                            \/ a[1] = n /\ mem'[a] = EmptySlot /\ \A d \in CN : ~link'[d][n]
  BY <1>1, NodeRecords
<1>4. ASSUME NEW d \in CN PROVE ChainOf(cn'[d], mem', link'[d])
  <2>1. \A i \in Nodes : link'[d][i] => link[d][i] /\ KeepsChains(i, mem, mem')
    BY <1>2, <1>3 DEF KeepsChains
  <2>2. cn[d] \in Process /\ WellFormed(cn[d]) /\ CommandOf(cn[d])
    BY <1>1 DEF CommandInv, TypeInv, TypeOK
  <2> QED
    BY <1>1, <1>2, <2>1, <2>2, ChainMono
<1>5. ASSUME NEW a \in RecordAddr PROVE IntactAt(a, mem')
  <2>1. mem'[a] \in Slot /\ a[1] \in Nodes
    BY <1>1, AddrElim DEF TypeInv, TypeOK, RecordAddr, AddrOf
  <2>2. CASE ~mem'[a].valid
    BY <2>2 DEF IntactAt
  <2>3. CASE mem'[a].valid
    <3>1. mem'[a] # EmptySlot
      BY <2>3 DEF EmptySlot
    <3>2. mem'[a] = mem[a]
      BY <1>3, <3>1
    <3>3. KeepsChains(a[1], mem, mem')
      <4>1. CASE a[1] # n
        BY <1>3, <4>1 DEF KeepsChains
      <4>2. CASE a[1] = n /\ ~Zeroed(n)
        BY <1>1, <1>3, <4>2, NodeKeeps DEF KeepsChains
      <4>3. CASE a[1] = n /\ Zeroed(n)
        <5>1. mem'[a] = EmptySlot
          BY <4>3 DEF Zeroed, RecordAddr, AddrOf
        <5> QED
          BY <3>1, <5>1
      <4> QED
        BY <4>1, <4>2, <4>3
    <3> QED
      BY <1>1, <2>1, <3>2, <3>3, IntactStep
  <2> QED
    BY <2>2, <2>3
<1>6. ProbeChainIntact'
  BY <1>5 DEF ProbeChainIntact, IntactAt, Occupied, RecordAddr, RecordKinds
<1> QED
  BY <1>4, <1>6 DEF ChainInv

(* Every step keeps the invariant of chains.                               *)
LEMMA NextChain == ChainInv /\ [Next]_vars => ChainInv'
<1> SUFFICES ASSUME ChainInv, [Next]_vars PROVE ChainInv'
  OBVIOUS
<1>1. CommandInv'
  BY NextCommand DEF ChainInv
<1>2. CASE UNCHANGED vars
  <2>1. ProbeChainIntact'
    BY <1>2 DEF ChainInv, ProbeChainIntact, vars
  <2>2. \A d \in CN : ChainOf(cn'[d], mem', link'[d])
    BY <1>2 DEF ChainInv, vars
  <2> QED
    BY <1>1, <2>1, <2>2 DEF ChainInv
<1> QED
  BY <1>1, <1>2, ClientChain, NodeChain DEF Next

(* No record of PRIME or BACKUP lies behind an empty slot of its probe     *)
(* chain, for any number of clients, keys, slots and failures: a probe     *)
(* that stops at the first empty slot (td_probe_slot) has seen every       *)
(* record of its key.                                                      *)
THEOREM NoRecordBehindEmptySlot == Spec => []ProbeChainIntact
<1>1. ChainInv => ProbeChainIntact
  BY DEF ChainInv
<1> QED
  BY <1>1, InitChain, NextChain, PTL DEF Spec
=============================================================================
