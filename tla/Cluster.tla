------------------------------- MODULE Cluster -------------------------------
(***************************************************************************)
(* Client nodes (CN) running read, write, update, delete and evict against *)
(* memory nodes (MN) that expose a region of PRIME, CACHE and BACKUP slots *)
(* (src/cluster.c, src/layout.c, src/mn_main.c), over the TCP transport.   *)
(*                                                                         *)
(* A step of a client is one request to a memory node (fetch of a slot,    *)
(* write of a slot's body, CAS of its guard epoch, evict) together with    *)
(* the local computation up to the next request.  A request is served by a *)
(* worker of the memory node in one critical section of the region's lock, *)
(* so it is atomic; everything between two requests interleaves.           *)
(*                                                                         *)
(* Failures: a connection breaks, and the request under way was or was not *)
(* applied; a client process dies; a memory node restarts with a zeroed    *)
(* region.  MaxFaults bounds how many of these happen.                     *)
(***************************************************************************)
EXTENDS Slots

CONSTANTS CN,           \* client processes
          NodeCount,    \* session_count, the number of memory nodes
          Keys, Hash,   \* Hash[k] is td_hash64_string(k)
          Values,       \* values clients write
          TooLong,      \* the values longer than TD_MAX_VALUE_SIZE
          Replication,  \* config.replication
          SlotCount,    \* slots of each kind on each memory node
          CacheOn,      \* config.cache == TD_CACHE_ON
          EvictPct,     \* eviction_threshold_pct
          WaitAttempts, \* probes of td_wait_for_primary_change (50)
          OpKinds,      \* commands the clients issue
          Thread,       \* the eviction thread of a memory node
          MaxOps,       \* bound: commands per client
          MaxEpoch,     \* bound: largest epoch a writer proposes
          MaxFaults     \* bound: failures of connections and processes

Nodes == 0 .. NodeCount - 1
Kinds == {"prime", "cache", "backup"}
Data == Values \cup {Nil}
Epochs == 0 .. MaxEpoch
Evictors == CN \cup {Thread}

ASSUME NodesAssumption == NodeCount \in Nat \ {0}
ASSUME HashAssumption == Hash \in [Keys -> Nat]
ASSUME DataAssumption == Nil \notin Values /\ Nil \notin Keys /\ TooLong \subseteq Values
ASSUME SlotCountAssumption == SlotCount \in [Nodes -> [Kinds -> Nat]]
ASSUME ConfigAssumption == /\ Replication \in Nat
                           /\ CacheOn \in BOOLEAN
                           /\ EvictPct \in Nat
                           /\ WaitAttempts \in Nat \ {0}
ASSUME BoundsAssumption == /\ MaxOps \in Nat
                           /\ MaxEpoch \in Nat \ {0}
                           /\ MaxFaults \in Nat
ASSUME TieAssumption == /\ MaxTie \in Nat
                        /\ \A k \in Keys, v \in Data, e \in Epochs :
                              Tie(k, v, e) \in 0 .. MaxTie
ASSUME ThreadAssumption == Thread \notin CN

VARIABLES mem,     \* mem[a] is the slot at address a = <<node, kind, index>>
          cursor,  \* header.eviction_cursor of each node
          target,  \* slots the evictor e of node n has yet to clear
          hung,    \* an evictor of the node spins with the region's lock held
          link,    \* link[c][n]: the session of c with n is up
          faults,  \* failures so far
          cn       \* state of each client process

mnVars == <<mem, cursor, target, hung>>
netVars == <<link, faults>>
vars == <<mem, cursor, target, hung, link, faults, cn>>

Addr == UNION {{<<p[1], p[2], i>> : i \in 0 .. SlotCount[p[1]][p[2]] - 1} : p \in Nodes \X Kinds}
AddrOf(kinds) == {a \in Addr : a[2] \in kinds}

-----------------------------------------------------------------------------
(* Placement.                                                              *)

td_primary_session(k) == Hash[k] % NodeCount

td_replica_session(k, ordinal) == (td_primary_session(k) + ordinal) % NodeCount

(* replica_count is clamped to session_count; the first replica is PRIME.  *)
BackupCount ==
    LET replicas == IF Replication > NodeCount THEN NodeCount ELSE Replication
    IN  IF replicas > 0 THEN replicas - 1 ELSE 0

Backups == 1 .. BackupCount

(* The slot a probe of kind looks at after i others.                       *)
SlotIndex(n, kind, hash, i) ==
    ((hash % SlotCount[n][kind]) + i) % SlotCount[n][kind]

-----------------------------------------------------------------------------
(* The state of a client process: pc names the request it is about to make *)
(* (the suffixes Body and Cas are the two requests of td_commit_slot_at),  *)
(* the other fields are the variables of the command under way.            *)

PrimePcs  == {"read", "write", "wait", "primeBody", "primeCas"}
CachePcs  == {"readCache", "refresh", "refreshBody", "refreshCas"}
BackupPcs == {"backup", "backupBody", "backupCas", "repair", "repairBody", "repairCas"}
EvictPcs  == {"evict", "evictReply"}
Pcs == PrimePcs \cup CachePcs \cup BackupPcs \cup EvictPcs \cup {"off", "idle"}

ProbePcs == {"read", "readCache", "write", "backup", "wait", "repair", "refresh"}
CasOf == [backupBody |-> "backupCas", primeBody |-> "primeCas",
          repairBody |-> "repairCas", refreshBody |-> "refreshCas"]
BodyPcs == DOMAIN CasOf
CasPcs == {CasOf[b] : b \in BodyPcs}

(* A client command, as td_cluster_execute parses it.                      *)
Requests == [kind : {"read", "delete"}, key : Keys, val : {Nil}]
            \cup [kind : {"write", "update"}, key : Keys, val : Values]
            \cup [kind : {"evict"}, key : {Nil}, val : {Nil}]
NoOp == [kind |-> "none", key |-> Nil, val |-> Nil]

(* What td_cluster_execute prints.                                         *)
Reply(status, val, rule) == [status |-> status, val |-> val, rule |-> rule]
NoReply == Reply("none", Nil, 0)
Error == Reply("error", Nil, 0)

Off == [pc |-> "off", op |-> NoOp, probe |-> ProbeStart, prime |-> ProbeStart,
        prop |-> EmptySlot, votes |-> [j \in Backups |-> NoVote], idx |-> 0,
        tries |-> 0, reply |-> NoReply, ops |-> 0]

Kind(s) == IF s.pc \in CachePcs THEN "cache"
           ELSE IF s.pc \in BackupPcs THEN "backup" ELSE "prime"

Node(s) == IF s.pc \in EvictPcs THEN s.idx
           ELSE IF s.pc \in BackupPcs THEN td_replica_session(s.op.key, s.idx)
           ELSE td_primary_session(s.op.key)

Count(s) == SlotCount[Node(s)][Kind(s)]

(* The probe that chose the slot being committed: the write path commits   *)
(* PRIME with the result of its first probe.                               *)
Chosen(s) == IF s.pc \in {"primeBody", "primeCas"} THEN s.prime ELSE s.probe
Dest(s) == <<Node(s), Kind(s), Chosen(s).at>>

Rule(s) == td_evaluate_votes(s.votes, s.prop.tie)

(* The command returns; its local variables are gone.                      *)
Finish(s, reply) == [Off EXCEPT !.pc = "idle", !.op = s.op, !.reply = reply,
                                !.ops = s.ops]

Probe(s, pc) == [s EXCEPT !.pc = pc, !.probe = ProbeStart]

-----------------------------------------------------------------------------
(* The local steps of td_cluster_read_value and td_cluster_write_value:    *)
(* from one state of the process to the state at its next request.         *)

(* Mutant: the number of votes won is reported instead of the rule.        *)
Answer_VoteCount(s) ==
    IF s.op.kind = "read" THEN Reply("value", s.prop.data, 0)
                          ELSE Reply("ok", Nil, Cardinality(Won(s.votes)) + 1)

Answer(s) == IF s.op.kind = "read" THEN Reply("value", s.prop.data, 0)
                                   ELSE Reply("ok", Nil, Rule(s))

td_refresh_cache_best_effort(s) ==
    IF CacheOn THEN Probe(s, "refresh") ELSE Finish(s, Answer(s))

(* No cache hit: the answer is what the prime probe found.                 *)
ReadPrimeSlot(s) ==
    IF s.prime.found /\ td_slot_present(s.prime.slot, Hash[s.op.key])
    THEN td_refresh_cache_best_effort([s EXCEPT !.prop = s.prime.slot])
    ELSE Finish(s, Reply("not_found", Nil, 0))

(* Mutant: a cached tombstone counts as a hit.                             *)
CacheConsistent_Tombstone(s, r) == /\ r.found
                                   /\ s.prime.found
                                   /\ r.slot.guard = s.prime.slot.guard
                                   /\ r.slot.visible = s.prime.slot.visible

CacheConsistent(s, r) == /\ r.found
                         /\ s.prime.found
                         /\ r.slot.guard = s.prime.slot.guard
                         /\ r.slot.visible = s.prime.slot.visible
                         /\ td_slot_present(r.slot, Hash[s.op.key])

(* Mutant: a backup that could not be repaired is tried again.             *)
RepairFrom_Retry(s, j) ==
    LET rest == {i \in Lost(s.votes) : i + 1 >= j}
    IN  IF rest = {} THEN td_refresh_cache_best_effort(s)
        ELSE LET next == CHOOSE i \in rest : \A i2 \in rest : i <= i2
             IN  Probe([s EXCEPT !.idx = next], "repair")

(* Repair the backups j, j + 1, ... whose vote was lost, then refresh.     *)
RepairFrom(s, j) ==
    LET rest == {i \in Lost(s.votes) : i >= j}
    IN  IF rest = {} THEN td_refresh_cache_best_effort(s)
        ELSE LET next == CHOOSE i \in rest : \A i2 \in rest : i <= i2
             IN  Probe([s EXCEPT !.idx = next], "repair")

(* Mutant: the cache is refreshed in place of the primary commit.          *)
Decide_RefreshFirst(s) ==
    IF Rule(s) = 0 THEN Probe(s, "wait") ELSE td_refresh_cache_best_effort(s)

Decide(s) == IF Rule(s) = 0 THEN Probe(s, "wait") ELSE [s EXCEPT !.pc = "primeBody"]

(* Propose to backup j, or evaluate the votes after the last one.          *)
BackupFrom(s, j) == IF j \in Backups THEN Probe([s EXCEPT !.idx = j], "backup")
                                     ELSE Decide(s)

(* Mutant: an update does not look whether the key has a value.            *)
WriteAllowed_Upsert(s, r) == r.ok /\ s.op.val \notin TooLong

(* td_cluster_write_value may go on with the result r of its first probe.  *)
WriteAllowed(s, r) ==
    /\ r.ok
    /\ s.op.kind = "update" =>
          r.found /\ ~r.slot.tomb /\ td_slot_present(r.slot, Hash[s.op.key])
    /\ s.op.val \notin TooLong

(* Mutant: the proposal skips an epoch.                                    *)
Propose_TwoAhead(s, r) ==
    [s EXCEPT !.prime = r,
              !.prop = td_crypto_make_slot(s.op.key, Hash[s.op.key], s.op.val,
                                           s.op.kind = "delete", r.slot.guard + 2)]

Propose(s, r) ==
    [s EXCEPT !.prime = r,
              !.prop = td_crypto_make_slot(s.op.key, Hash[s.op.key], s.op.val,
                                           s.op.kind = "delete", r.slot.guard + 1)]

EvictFrom(s, n) == IF n \in Nodes THEN [s EXCEPT !.pc = "evict", !.idx = n]
                                  ELSE Finish(s, Reply("evicted", Nil, 0))

-----------------------------------------------------------------------------
(* Requests.  A request to a node is served when the session is up and no  *)
(* evictor holds the region's lock for ever; it fails when the session is  *)
(* down or breaks while the request is under way.                          *)

Served(c) == LET n == Node(cn[c]) IN link[c][n] /\ ~hung[n]

Severed(c) ==
    LET n == Node(cn[c])
    IN  \/ ~link[c][n] /\ UNCHANGED netVars
        \/ /\ link[c][n]
           /\ faults < MaxFaults
           /\ faults' = faults + 1
           /\ link' = [link EXCEPT ![c][n] = FALSE]

(* Mutant: the probe starts one slot late.                                 *)
FetchAt_Late(c) == LET s == cn[c]
                   IN  SlotIndex(Node(s), Kind(s), Hash[s.op.key], s.probe.i + 1)

(* The probe of client c after its next fetch (td_fetch_slot_at).          *)
FetchAt(c) == LET s == cn[c]
              IN  SlotIndex(Node(s), Kind(s), Hash[s.op.key], s.probe.i)
Fetched(c) == mem[<<Node(cn[c]), Kind(cn[c]), FetchAt(c)>>]
Examined(c) == Examine(cn[c].probe, FetchAt(c), Fetched(c), Hash[cn[c].op.key])

(* td_probe_slot goes on to the next slot.                                 *)
Scan(c) ==
    /\ cn[c].pc \in ProbePcs
    /\ Count(cn[c]) > 0
    /\ Served(c)
    /\ ~ProbeOver(Examined(c), Fetched(c), Count(cn[c]))
    /\ cn' = [cn EXCEPT ![c].probe = Examined(c)]
    /\ UNCHANGED <<mnVars, netVars>>

(* td_probe_slot returns; r.ok is FALSE when it returns -1: no slots of    *)
(* this kind, no candidate among them, or a failed fetch.                  *)
ProbeReturns(c, r) ==
    \/ Count(cn[c]) = 0 /\ r = ProbeStart /\ UNCHANGED netVars
    \/ /\ Count(cn[c]) > 0
       /\ Served(c)
       /\ ProbeOver(Examined(c), Fetched(c), Count(cn[c]))
       /\ r = Examined(c)
       /\ UNCHANGED netVars
    \/ Count(cn[c]) > 0 /\ Severed(c) /\ r = ProbeStart

ProbeResults(c) == IF Count(cn[c]) = 0 THEN {ProbeStart} ELSE {ProbeStart, Examined(c)}

(* Mutant: the body write covers the guard epoch too.                      *)
BodyWritten_WithGuard(s) == [mem EXCEPT ![Dest(s)] = s.prop]

(* The first request of td_commit_slot_at writes everything but the guard  *)
(* epoch, whatever the slot holds by now; the second swaps the guard.      *)
BodyWritten(s) == [mem EXCEPT ![Dest(s)] = [s.prop EXCEPT !.guard = mem[Dest(s)].guard]]

(* Mutant: the swap accepts any later epoch.                               *)
CasWins_AtLeast(s) == mem[Dest(s)].guard >= Chosen(s).slot.guard

CasWins(s) == mem[Dest(s)].guard = Chosen(s).slot.guard
CasApplied(s) == IF CasWins(s) THEN [mem EXCEPT ![Dest(s)].guard = s.prop.visible] ELSE mem

WriteBody(c) ==
    /\ cn[c].pc \in BodyPcs
    /\ Served(c)
    /\ mem' = BodyWritten(cn[c])
    /\ cn' = [cn EXCEPT ![c].pc = CasOf[cn[c].pc]]
    /\ UNCHANGED <<cursor, target, hung, netVars>>

(* td_commit_slot_at returns; won is TRUE when it returns 0 with the       *)
(* observed epoch equal to the one compared with.  No caller tells a lost  *)
(* CAS from a failed request, applied or not.                              *)
CommitReturns(c, won) ==
    /\ \/ /\ cn[c].pc \in CasPcs
          /\ Served(c)
          /\ won = CasWins(cn[c])
          /\ mem' = CasApplied(cn[c])
          /\ UNCHANGED netVars
       \/ /\ won = FALSE
          /\ Severed(c)
          /\ \/ mem' = mem
             \/ /\ Served(c)
                /\ mem' = IF cn[c].pc \in CasPcs THEN CasApplied(cn[c])
                                                ELSE BodyWritten(cn[c])
    /\ UNCHANGED <<cursor, target, hung>>

-----------------------------------------------------------------------------
(* Client commands.                                                        *)

(* td_cluster_init: a session with every memory node.                      *)
Connect(c) ==
    /\ cn[c].pc = "off"
    /\ link' = [link EXCEPT ![c] = [n \in Nodes |-> TRUE]]
    /\ cn' = [cn EXCEPT ![c] = [Off EXCEPT !.pc = "idle", !.ops = cn[c].ops]]
    /\ UNCHANGED <<mnVars, faults>>

(* quit: td_cluster_close.                                                 *)
Quit(c) ==
    /\ cn[c].pc = "idle"
    /\ link' = [link EXCEPT ![c] = [n \in Nodes |-> FALSE]]
    /\ cn' = [cn EXCEPT ![c] = [Off EXCEPT !.ops = cn[c].ops]]
    /\ UNCHANGED <<mnVars, faults>>

(* td_cluster_execute up to the first request.                             *)
Begin(c, o) ==
    /\ cn[c].pc = "idle"
    /\ cn[c].ops < MaxOps
    /\ LET s == [Off EXCEPT !.op = o, !.ops = cn[c].ops + 1]
       IN  cn' = [cn EXCEPT ![c] = CASE o.kind = "read" -> Probe(s, "read")
                                     [] o.kind = "evict" -> EvictFrom(s, 0)
                                     [] OTHER -> Probe(s, "write")]
    /\ UNCHANGED <<mnVars, netVars>>

ReadPrime(c) ==
    /\ cn[c].pc = "read"
    /\ \E r \in ProbeResults(c) :
          /\ ProbeReturns(c, r)
          /\ LET s == [cn[c] EXCEPT !.prime = r]
             IN  cn' = [cn EXCEPT ![c] = IF ~r.ok THEN Finish(s, Error)
                                         ELSE IF CacheOn THEN Probe(s, "readCache")
                                         ELSE ReadPrimeSlot(s)]
    /\ UNCHANGED mnVars

(* A failed probe of CACHE is a miss.                                      *)
ReadCache(c) ==
    /\ cn[c].pc = "readCache"
    /\ \E r \in ProbeResults(c) :
          /\ ProbeReturns(c, r)
          /\ cn' = [cn EXCEPT ![c] = IF r.ok /\ CacheConsistent(cn[c], r)
                                     THEN Finish(cn[c], Reply("value", r.slot.data, 0))
                                     ELSE ReadPrimeSlot(cn[c])]
    /\ UNCHANGED mnVars

WritePrime(c) ==
    /\ cn[c].pc = "write"
    /\ \E r \in ProbeResults(c) :
          /\ ProbeReturns(c, r)
          /\ r.slot.guard < MaxEpoch
          /\ cn' = [cn EXCEPT ![c] = IF WriteAllowed(cn[c], r)
                                     THEN BackupFrom(Propose(cn[c], r), 1)
                                     ELSE Finish(cn[c], Error)]
    /\ UNCHANGED mnVars

(* One backup that cannot be probed ends the command, whatever the backups *)
(* before it have accepted.                                                *)
BackupProbe(c) ==
    /\ cn[c].pc = "backup"
    /\ \E r \in ProbeResults(c) :
          /\ ProbeReturns(c, r)
          /\ cn' = [cn EXCEPT ![c] = IF r.ok THEN [@ EXCEPT !.pc = "backupBody", !.probe = r]
                                             ELSE Finish(@, Error)]
    /\ UNCHANGED mnVars

(* A lost vote records the tie-breaker of the slot as it was probed.       *)
BackupCommit(c) ==
    /\ cn[c].pc \in {"backupBody", "backupCas"}
    /\ \E won \in BOOLEAN :
          /\ CommitReturns(c, won)
          /\ LET s == cn[c]
                 vote == [success |-> won, tie |-> IF won THEN 0 ELSE s.probe.slot.tie]
             IN  cn' = [cn EXCEPT ![c] = BackupFrom([s EXCEPT !.votes[s.idx] = vote],
                                                    s.idx + 1)]

(* The wait ends: the primary has changed, or this was the last attempt.   *)
WaitOver(s, r) == \/ r.ok /\ (~r.found \/ r.slot.guard # s.prime.slot.guard)
                  \/ s.tries + 1 = WaitAttempts

(* td_wait_for_primary_change; its result is ignored.                      *)
Wait(c) ==
    /\ cn[c].pc = "wait"
    /\ \E r \in ProbeResults(c) :
          /\ ProbeReturns(c, r)
          /\ LET s == cn[c]
             IN  cn' = [cn EXCEPT ![c] = IF WaitOver(s, r) THEN Finish(s, Error)
                                         ELSE Probe([s EXCEPT !.tries = @ + 1], "wait")]
    /\ UNCHANGED mnVars

(* Mutant: the epoch the CAS observed is not compared.                     *)
PrimeCommit_AnyAnswer(c) ==
    /\ cn[c].pc \in {"primeBody", "primeCas"}
    /\ \E won \in BOOLEAN : CommitReturns(c, won)
    /\ cn' = [cn EXCEPT ![c] = RepairFrom(@, 1)]

PrimeCommit(c) ==
    /\ cn[c].pc \in {"primeBody", "primeCas"}
    /\ \E won \in BOOLEAN :
          /\ CommitReturns(c, won)
          /\ cn' = [cn EXCEPT ![c] = IF won THEN RepairFrom(@, 1) ELSE Finish(@, Error)]

RepairProbe(c) ==
    /\ cn[c].pc = "repair"
    /\ \E r \in ProbeResults(c) :
          /\ ProbeReturns(c, r)
          /\ cn' = [cn EXCEPT ![c] = IF r.ok THEN [@ EXCEPT !.pc = "repairBody", !.probe = r]
                                             ELSE RepairFrom(@, @.idx + 1)]
    /\ UNCHANGED mnVars

RepairCommit(c) ==
    /\ cn[c].pc \in {"repairBody", "repairCas"}
    /\ \E won \in BOOLEAN : CommitReturns(c, won)
    /\ cn' = [cn EXCEPT ![c] = RepairFrom(@, @.idx + 1)]

(* Mutant: an entry that is in the cache already stays as it is.           *)
RefreshProbe_InsertOnly(c) ==
    /\ cn[c].pc = "refresh"
    /\ \E r \in ProbeResults(c) :
          /\ ProbeReturns(c, r)
          /\ cn' = [cn EXCEPT ![c] = IF r.ok /\ ~r.found
                                     THEN [@ EXCEPT !.pc = "refreshBody", !.probe = r]
                                     ELSE Finish(@, Answer(@))]
    /\ UNCHANGED mnVars

RefreshProbe(c) ==
    /\ cn[c].pc = "refresh"
    /\ \E r \in ProbeResults(c) :
          /\ ProbeReturns(c, r)
          /\ cn' = [cn EXCEPT ![c] = IF r.ok THEN [@ EXCEPT !.pc = "refreshBody", !.probe = r]
                                             ELSE Finish(@, Answer(@))]
    /\ UNCHANGED mnVars

RefreshCommit(c) ==
    /\ cn[c].pc \in {"refreshBody", "refreshCas"}
    /\ \E won \in BOOLEAN : CommitReturns(c, won)
    /\ cn' = [cn EXCEPT ![c] = Finish(@, Answer(@))]

-----------------------------------------------------------------------------
(* Eviction: td_region_evict_if_needed, run by the eviction thread of a    *)
(* memory node and by the workers that serve evict commands.  The count of *)
(* used slots and the sweep are two critical sections.                     *)

CacheSlots(n) == 0 .. SlotCount[n]["cache"] - 1

UsedCache(n) == Cardinality({i \in CacheSlots(n) : /\ mem[<<n, "cache", i>>].valid
                                                   /\ ~Torn(mem[<<n, "cache", i>>])})

(* Mutant: the threshold is not looked at.                                 *)
EvictionDue_Always(n) == SlotCount[n]["cache"] > 0

EvictionDue(n) == /\ SlotCount[n]["cache"] > 0
                  /\ UsedCache(n) * 100 >= EvictPct * SlotCount[n]["cache"]

EvictTarget(n) == IF UsedCache(n) \div 4 = 0 THEN 1 ELSE UsedCache(n) \div 4

(* The eviction thread counts; a count below the threshold changes nothing.*)
ThreadCount(n) ==
    /\ target[n][Thread] = 0
    /\ ~hung[n]
    /\ EvictionDue(n)
    /\ target' = [target EXCEPT ![n][Thread] = EvictTarget(n)]
    /\ UNCHANGED <<mem, cursor, hung, netVars, cn>>

(* The worker of client c counts, and answers unless it goes on to sweep.  *)
EvictRequest(c) ==
    LET n == cn[c].idx
    IN  /\ cn[c].pc = "evict"
        /\ Served(c)
        /\ target[n][c] = 0
        /\ \/ /\ EvictionDue(n)
              /\ target' = [target EXCEPT ![n][c] = EvictTarget(n)]
              /\ cn' = [cn EXCEPT ![c].pc = "evictReply"]
           \/ /\ ~EvictionDue(n)
              /\ cn' = [cn EXCEPT ![c] = EvictFrom(@, n + 1)]
              /\ UNCHANGED target
        /\ UNCHANGED <<mem, cursor, hung, netVars>>

EvictAnswered(c) ==
    /\ cn[c].pc = "evictReply"
    /\ Served(c)
    /\ target[cn[c].idx][c] = 0
    /\ cn' = [cn EXCEPT ![c] = EvictFrom(@, @.idx + 1)]
    /\ UNCHANGED <<mnVars, netVars>>

EvictFails(c) ==
    /\ cn[c].pc \in EvictPcs
    /\ Severed(c)
    /\ cn' = [cn EXCEPT ![c] = Finish(@, Error)]
    /\ UNCHANGED mnVars

ValidCache(n) == {i \in CacheSlots(n) : mem[<<n, "cache", i>>].valid}

(* How far the sweep is from slot i when it starts.                        *)
Ahead(n, i) == (i + SlotCount[n]["cache"] - cursor[n]) % SlotCount[n]["cache"]

(* The slots a sweep clears before its target is met: the first valid ones *)
(* from the cursor on, torn or not.                                        *)
Victims(n, t) ==
    {i \in ValidCache(n) :
        Cardinality({j \in ValidCache(n) : Ahead(n, j) < Ahead(n, i)}) < t}

Cleared(n, victims) ==
    [a \in Addr |-> IF a[1] = n /\ a[2] = "cache" /\ a[3] \in victims
                    THEN EmptySlot ELSE mem[a]]

(* The sweep, one critical section.  With fewer valid slots than its       *)
(* target it never leaves the loop, nor the critical section.              *)
Sweep(n, e) ==
    LET victims == Victims(n, target[n][e])
        met == Cardinality(ValidCache(n)) >= target[n][e]
    IN  /\ target[n][e] > 0
        /\ ~hung[n]
        /\ mem' = Cleared(n, victims)
        /\ \/ /\ met
              /\ \E last \in victims :
                    /\ \A i \in victims : Ahead(n, i) <= Ahead(n, last)
                    /\ cursor' = [cursor EXCEPT ![n] = (last + 1) % SlotCount[n]["cache"]]
              /\ target' = [target EXCEPT ![n][e] = 0]
              /\ UNCHANGED hung
           \/ /\ ~met
              /\ hung' = [hung EXCEPT ![n] = TRUE]
              /\ UNCHANGED <<cursor, target>>
        /\ UNCHANGED <<netVars, cn>>

-----------------------------------------------------------------------------
(* Failures.                                                               *)

(* The client process dies, between two requests or with the last one      *)
(* applied; a process started in its place connects anew.  A request over  *)
(* a connection that is already broken can kill it too: the send raises    *)
(* SIGPIPE, and nothing handles that.                                      *)
Crash(c) ==
    /\ cn[c].pc \notin {"off", "idle"}
    /\ \/ faults < MaxFaults /\ faults' = faults + 1
       \/ ~link[c][Node(cn[c])] /\ UNCHANGED faults
    /\ link' = [link EXCEPT ![c] = [n \in Nodes |-> FALSE]]
    /\ cn' = [cn EXCEPT ![c] = [Off EXCEPT !.ops = cn[c].ops]]
    /\ UNCHANGED mnVars

(* A memory node restarts: td_region_open zeroes the region, file-backed   *)
(* or not, and no client reconnects a session by itself.                   *)
Restart(n) ==
    /\ faults < MaxFaults
    /\ faults' = faults + 1
    /\ mem' = [a \in Addr |-> IF a[1] = n THEN EmptySlot ELSE mem[a]]
    /\ cursor' = [cursor EXCEPT ![n] = 0]
    /\ target' = [target EXCEPT ![n] = [e \in Evictors |-> 0]]
    /\ hung' = [hung EXCEPT ![n] = FALSE]
    /\ link' = [c \in CN |-> [link[c] EXCEPT ![n] = FALSE]]
    /\ UNCHANGED cn

-----------------------------------------------------------------------------
Init ==
    /\ mem = [a \in Addr |-> EmptySlot]
    /\ cursor = [n \in Nodes |-> 0]
    /\ target = [n \in Nodes |-> [e \in Evictors |-> 0]]
    /\ hung = [n \in Nodes |-> FALSE]
    /\ link = [c \in CN |-> [n \in Nodes |-> FALSE]]
    /\ faults = 0
    /\ cn = [c \in CN |-> Off]

(* The steps of a command under way.                                       *)
CommandStep(c) ==
    \/ Scan(c) \/ WriteBody(c)
    \/ ReadPrime(c) \/ ReadCache(c)
    \/ WritePrime(c) \/ BackupProbe(c) \/ BackupCommit(c) \/ Wait(c)
    \/ PrimeCommit(c) \/ RepairProbe(c) \/ RepairCommit(c)
    \/ RefreshProbe(c) \/ RefreshCommit(c)
    \/ EvictRequest(c) \/ EvictAnswered(c) \/ EvictFails(c)

ClientNext(c) ==
    \/ Connect(c) \/ Quit(c) \/ Crash(c)
    \/ \E o \in {r \in Requests : r.kind \in OpKinds} : Begin(c, o)
    \/ CommandStep(c)

NodeNext(n) == ThreadCount(n) \/ Restart(n) \/ \E e \in Evictors : Sweep(n, e)

Next == (\E c \in CN : ClientNext(c)) \/ (\E n \in Nodes : NodeNext(n))

Spec == Init /\ [][Next]_vars

(* A command goes on while its requests can be served or fail at once, and *)
(* an evictor that has counted sweeps; no client has to issue a command    *)
(* and nothing has to break.                                               *)
Fairness == /\ \A c \in CN : WF_vars(CommandStep(c) /\ UNCHANGED faults)
            /\ \A n \in Nodes, e \in Evictors : WF_vars(Sweep(n, e))

FairSpec == Spec /\ Fairness

-----------------------------------------------------------------------------
(* Properties.                                                             *)

Slot == [guard : Epochs, visible : Epochs, hash : Nat, tie : 0 .. MaxTie,
         valid : BOOLEAN, tomb : BOOLEAN, data : Data]
ProbeRecord == [i : Nat, ok : BOOLEAN, at : Nat, slot : Slot, found : BOOLEAN]
Vote == [success : BOOLEAN, tie : 0 .. MaxTie]
Replies == [status : {"none", "error", "not_found", "value", "ok", "evicted"},
            val : Data, rule : 0 .. 3]
Process == [pc : Pcs, op : Requests \cup {NoOp}, probe : ProbeRecord,
            prime : ProbeRecord, prop : Slot, votes : [Backups -> Vote],
            idx : Nat, tries : Nat, reply : Replies, ops : 0 .. MaxOps]

(* Type invariant: every variable holds what the program can put there.    *)
TypeOK ==
    /\ mem \in [Addr -> Slot]
    /\ cursor \in [Nodes -> Nat]
    /\ target \in [Nodes -> [Evictors -> Nat]]
    /\ hung \in [Nodes -> BOOLEAN]
    /\ link \in [CN -> [Nodes -> BOOLEAN]]
    /\ faults \in 0 .. MaxFaults
    /\ cn \in [CN -> Process]

(* The command under way has chosen its PRIME slot and not yet given it up *)
(* (td_cluster_write_value between its first probe and the primary commit).*)
ProposingPcs == {"backup", "backupBody", "backupCas", "primeBody", "primeCas"}

(* The PRIME commit of the command under way has succeeded.                *)
Committed(s) == /\ s.op.kind \in {"write", "update", "delete"}
                /\ s.pc \in {"repair", "repairBody", "repairCas",
                             "refresh", "refreshBody", "refreshCas"}

PrimeDest(s) == <<td_primary_session(s.op.key), "prime", s.prime.at>>
PrimeUp(c) == link[c][td_primary_session(cn[c].op.key)]

(* The CAS of the guard epoch lets one writer through: of two commands     *)
(* whose primary commit succeeded, none took the same epoch of the same    *)
(* PRIME slot, however their probes and commits interleaved                *)
(* (td_commit_slot_at with compare = current_epoch).  A node that          *)
(* restarted begins its epochs anew, so the sessions must have survived.   *)
OneCommitPerEpoch ==
    \A c1, c2 \in CN :
        /\ c1 # c2
        /\ Committed(cn[c1]) /\ Committed(cn[c2])
        /\ PrimeUp(c1) /\ PrimeUp(c2)
        /\ PrimeDest(cn[c1]) = PrimeDest(cn[c2])
        => cn[c1].prop.visible # cn[c2].prop.visible

(* A PRIME slot is never more than one epoch ahead of its guard: a body    *)
(* that is written late belongs to the current epoch, the next one or a    *)
(* past one, never to an epoch nobody can commit (current_epoch + 1 in     *)
(* td_cluster_write_value, written by td_commit_slot_at).                  *)
VisibleAtMostOneAhead ==
    \A a \in AddrOf({"prime"}) : mem[a].visible <= mem[a].guard + 1

(* The guard epoch of a PRIME slot only advances by one, except when the   *)
(* node restarts: no delayed commit takes a slot back to an epoch readers  *)
(* have seen (td_region_cas64 against the epoch of the first probe).       *)
PrimeEpochStep ==
    [][\A a \in AddrOf({"prime"}) :
          \/ mem'[a].guard \in {mem[a].guard, mem[a].guard + 1}
          \/ mem'[a] = EmptySlot]_vars

(* Where a probe of hash that examines d slots first looks next.           *)
ChainAt(n, kind, hash, d) == <<n, kind, SlotIndex(n, kind, hash, d)>>

(* td_probe_slot stops at the first empty slot, so a record must never lie *)
(* beyond one: in PRIME and BACKUP every slot between the home slot of a   *)
(* record's hash and the record is occupied, whatever writers of other     *)
(* keys, dying clients and restarting nodes do.                            *)
ProbeChainIntact ==
    \A a \in AddrOf({"prime", "backup"}) :
        mem[a].valid =>
            \A d \in 0 .. SlotCount[a[1]][a[2]] - 1 :
                a = ChainAt(a[1], a[2], mem[a].hash, d) =>
                    \A d2 \in 0 .. d - 1 :
                        ~td_slot_is_empty(mem[ChainAt(a[1], a[2], mem[a].hash, d2)])

(* A client may still write to the slot at a: it is the candidate of its   *)
(* probe or of its command.                                                *)
Holds(c, a) ==
    LET s == cn[c]
    IN  \/ /\ s.pc \in ProbePcs \cup BodyPcs \cup CasPcs
           /\ s.pc \notin {"primeBody", "primeCas"}
           /\ s.probe.ok
           /\ a = <<Node(s), Kind(s), s.probe.at>>
        \/ s.pc \in ProposingPcs /\ a = PrimeDest(s)

Leaked(a) == Torn(mem[a]) /\ \A c \in CN : ~Holds(c, a)

(* td_probe_slot passes over a slot whose epochs differ, so a PRIME or     *)
(* BACKUP slot that is torn with no command left to finish it (its writer  *)
(* died, or its body came after another commit) is lost to every client:   *)
(* it is never chosen, read or repaired again, until the node restarts.    *)
LeakIsPermanent ==
    [][\A a \in AddrOf({"prime", "backup"}) :
          Leaked(a) => \/ mem'[a] = mem[a] /\ Leaked(a)'
                       \/ mem'[a] = EmptySlot]_vars

(* The cache never runs ahead of PRIME: an entry carries an epoch that a   *)
(* PRIME slot of the same node has reached, so no reader can validate a    *)
(* value before its commit (td_refresh_cache_best_effort after the primary *)
(* commit, or with the slot a read found).                                 *)
CacheNotAhead ==
    \A a \in AddrOf({"cache"}) :
        mem[a].valid => \E b \in AddrOf({"prime"}) :
                            b[1] = a[1] /\ mem[a].visible <= mem[b].guard

(* An evictor that has begun to clear slots finds as many as it counted    *)
(* and leaves the critical section (the loop of td_region_evict_if_needed).*)
EvictionReturns == \A n \in Nodes : ~hung[n]

(* Every command a client issues returns to the prompt, or its process     *)
(* dies: no command waits for ever on another one, on the primary to       *)
(* change, or on the region's lock.                                        *)
CommandsReturn ==
    \A c \in CN : cn[c].pc \notin {"off", "idle"} ~> cn[c].pc \in {"off", "idle"}

(* Of two writers that propose the same epoch of the same PRIME slot, at   *)
(* most one wins by its tie-breaker (rule 3 of td_evaluate_votes).         *)
OneTieBreakWinner ==
    \A c1, c2 \in CN :
        /\ c1 # c2
        /\ \A c \in {c1, c2} : cn[c].pc \in {"primeBody", "primeCas"} /\ Rule(cn[c]) = 3
        => \/ PrimeDest(cn[c1]) # PrimeDest(cn[c2])
           \/ cn[c1].prop.visible # cn[c2].prop.visible
=============================================================================
