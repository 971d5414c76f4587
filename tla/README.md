# tee-dist: TLA+ models, checks and proofs

tee-dist is a key-value store in which the client nodes (CN) do the work and the
memory nodes (MN) expose memory. A client hashes the key, probes slots on the
memory nodes, encrypts, proposes its slot to the backups, evaluates their votes
and commits on the primary with a compare-and-swap of the slot's guard epoch.
There is no coordinator and no log: what keeps concurrent clients apart is the
order of single requests to single slots. This directory models that protocol,
checks it with TLC on small instances and proves its central facts with TLAPS.

## Inventory

| part | source | state | operations |
| --- | --- | --- | --- |
| cluster client | `src/cluster.c` | sessions; the locals of the command under way (probes, proposal, votes) | read, write, update, delete, evict; probe, commit, wait, repair, cache refresh |
| client process | `src/cn_main.c` | one cluster | connect, commands one by one, quit |
| region | `src/layout.c`, `include/td_layout.h` | header (eviction cursor), PRIME, CACHE and BACKUP slots, one mutex | read bytes, write bytes, cas64, count cache usage, evict |
| memory node process | `src/mn_main.c` | the region, the eviction thread, the server | open (zeroes the region), eviction every 100 ms, stop |
| TCP transport | `src/transport_tcp.c` | a socket per session, a detached worker per connection | hello, read, write, cas, evict, close |
| RDMA transport | `src/transport_rdma.c` | queue pair, posted receives, completion queue | one-sided body read and write, control messages for the rest |
| slot crypto | `src/crypto.c` | keys | make a slot, decode a slot, tie-breaker |
| configuration | `src/config.c` | the configuration | load, parse sizes, divide memory into slots |
| helpers, benchmark | `src/common.c`, `benchmark/cn_bench.c` | none of the system's | hash, time, a single-threaded driver |

Interaction: a client calls a transport, the transport's peer on the memory node
(a worker thread per connection) acts on the shared region under its mutex; the
eviction thread and the workers that serve `evict` act on the same region. Two
clients interact through slots only.

What makes it hard, and what therefore has to be right:

* a commit is two requests, the body and the CAS, and anything may come between
  them: another commit, an eviction, a crash of the client, a restart of the node;
* a probe takes one request per slot, and what it returns is old when it is used;
* a lost answer looks like a lost race;
* votes are collected one backup at a time, against epochs of each backup's own;
* cache entries are recognised by epoch, and epochs belong to slots, which keys
  leave and enter;
* a region restarts empty under clients that remember its contents;
* the eviction counts in one critical section and clears in another;
* over RDMA the card moves a slot's body word by word, under no lock, and each
  side throws away completions it did not wait for;
* a memory node stops with its connection workers still running, and a peer that
  closed a socket can kill a process that writes to it.

`PROJECT.json` lists these as hazards, each at its line with its properties.

## Modules

| module | what it models |
| --- | --- |
| `Slots` | a slot, the tests on it, one step of `td_probe_slot`, `td_crypto_make_slot`, `td_evaluate_votes`: operators only |
| `Cluster` | clients, memory nodes, TCP sessions and failures: the state machine, fairness and properties |
| `KVStore` | what the store promises one client: an abstract map over hashes |
| `ClusterKV` | the refinement mapping from `Cluster` to `KVStore`, and agreement of replicas and cache between commands |
| `SlotAlloc` | the size of a node's memory (`td_parse_size_bytes`), its division into slots (`td_resolve_mn_slots`) and the layout that results |
| `NodeProcess` | the process of a memory node: main, eviction thread, workers, stop flag, region |
| `TcpServer`, `RdmaServer` | how requests and answers travel between a client and its worker, over sockets and over queue pairs |
| `MemNode` | `NodeProcess` composed with the transport the configuration names; fairness and properties |
| `CasRegister` | what a session's `cas64` promises: an atomic compare-and-swap, abstract |
| `RdmaSlot` | one slot over RDMA: bodies that land field by field, the mac, and the CAS of `CasRegister` |
| `ClusterInv` | the inductive invariants of `Cluster` |
| `ClusterProofs` | type correctness, and the lemmas on single steps it rests on |
| `ClusterEpochProofs` | the theorems on epochs |
| `ClusterChainProofs` | probe chains and torn slots of PRIME and BACKUP |
| `ClusterCacheProofs` | cache entries and the eviction thread |
| `ClusterKVProofs` | a client that is alone: replicas, cache, and the refinement of `KVStore` |
| `RdmaSlotProofs`, `MemNodeProofs`, `SlotAllocProofs` | the theorems on the modules they are named after |
| `MCCluster`, `MCClusterKV`, `MCSlotAlloc`, `MCRdmaSlot` | instances for TLC |

### How Cluster corresponds to the code

`mem[<<n, kind, i>>]` is slot `i` of a kind on node `n`; `cursor` is
`header.eviction_cursor`; `target[n][e]` is the local `target` of evictor `e`
between its count and its sweep; `hung[n]` says that an evictor spins with the
node's lock; `link[c][n]` says that the session is up; `cn[c]` is the client
process: `pc` names the request it is about to make, the other fields are the
variables of the command.

A step is one request together with the local code up to the next request. A
request is atomic because the worker serves it inside one critical section of
the region's mutex. Each request has two outcomes: it is served, or the session
is down or breaks (`Severed`), and then the node may have applied it or not
(`CommitReturns`). The code makes no difference between a lost CAS and a failed
request, and neither does the model.

| actions | code |
| --- | --- |
| `Connect`, `Begin`, `Quit` | `td_cluster_init`, `td_cluster_execute`, `td_cluster_close` |
| `Scan` and the probe part of the others | one fetch of `td_probe_slot` |
| `WriteBody` and the commit part of the others | `td_commit_slot_at` |
| `ReadPrime`, `ReadCache` | `td_cluster_read_value` |
| `WritePrime`, `BackupProbe`, `BackupCommit`, `PrimeCommit`, `RepairProbe`, `RepairCommit` | `td_cluster_write_value` |
| `Wait` | `td_wait_for_primary_change` |
| `RefreshProbe`, `RefreshCommit` | `td_refresh_cache_best_effort` |
| `EvictRequest`, `EvictAnswered`, `EvictFails` | the command `evict`, node after node |
| `ThreadCount`, `Sweep` | `td_region_evict_if_needed` |
| `Crash`, `Restart` | a client process dies; `td_region_open` zeroes a restarted node |

Abstractions. Value, length, iv, mac and ciphertext are one field `data`: over
TCP a body is written and read in one critical section, so the mac of a body
that is read always matches it and a decode never fails. `Tie` and `Hash` are
arbitrary functions (the runs choose the tie-breaker so that which of two values
is smaller depends on the epoch). `header.cache_usage` is written and never
read. Latency profiles and output formatting are left out. In `Cluster` a request
that a node applies long after its client saw the connection break is applied by
then or never; `MemNode` has the late ones. A slot counts as leaked in
`LeakIsPermanent` when no client that is still at work holds it: a late CAS of a
dead client could in fact complete it. A client that writes to a dead socket
is killed by SIGPIPE: `Crash` needs no failure of its own when the session is
broken already.

`MaxEpoch` bounds the epochs (a write that would exceed it is not issued; in all
runs `MaxOps` stops the clients first), `MaxOps` the commands of a client and
`MaxFaults` the failures, of every sort together. `WaitAttempts` is 2 in the
runs where the code has 50: the second attempt is the last, the first is not.

### KVStore

`KVStore` has a map, and each client at most one command under way that takes
effect in one step between submission and answer. A command is refused only
when its key has no value or its value is too long. Two keys with one 64-bit hash
are one key: nothing in a slot, the mac included, tells them apart, and the map
says so. `ClusterKV` reads the map
off the PRIME slots (`Settled` undoes a body whose CAS is still to come) and
`ImplementsKV` is the refinement. It is about one client: with several, the body
of a command that loses its race replaces what the winner committed, two contents
appear under one epoch, and the store is no map any more. And it is about a cache
that is not both evicted from and told of deletes: with both, one client alone
reads a value it has deleted (see the run `stale`).

### SlotAlloc

One behaviour per configuration: the written size, its rejection when it does
not fit a `size_t`, the rejection of counts, weighted shares rounded down,
left-over slots one at a time to the largest remainder, final checks. Counts are
modulo `2^Width`, as a `size_t` is; the runs use 7 bits and a kilobyte of 4
bytes, so that a gigabyte of 64 still fits a word once. A negative or zero
`replication` counts as 1, as in `td_config_load`.

### MemNode

`main`, `thread` and `worker[c]` are where the threads of the process are;
`stop` is `td_stop`; `word` stands for the region, a guard epoch that CAS
requests change; `mapped` ends with `td_region_close`; `cn[c]` is a client at
its session, `sent[c]` the message either side has under way. Over TCP a WRITE
is two sends and two receives: `sent` has its header and `body[c]` its bytes; over
RDMA a READ or WRITE of a slot never reaches the worker. The bytes lie behind the
guard epoch and leave `word` as it is. How much the cache
holds is left to `Cluster`; here an evictor has counted or not, and its count is
out of date once another has swept: from then on it may spin, with the lock
(`Spin`).

| actions | code |
| --- | --- |
| `Signal`, `ServerLoop`, `ServerFails`, `CloseRegion`, `Exit` | `td_signal_handler`, the server loop, `main` behind it |
| `ThreadLoop`, `Sweep`, `Spin` | `td_eviction_thread`, `td_region_evict_if_needed` |
| `WorkerLoop`, `Serve`, `ServeUnmapped` | `td_tcp_connection_main`, `td_rdma_server_conn_main` |
| `TcpConnect`, `TcpAccept`, `TcpCall`, `TcpSendBody`, `TcpTake`, `TcpTakeBody`, `TcpReply`, `TcpAnswered`, `TcpCallFails` | `td_tcp_client_connect`, accept, `td_tcp_exchange`, `td_recv_all`, `td_send_all` |
| `RdmaConnect`, `RdmaCall`, `SendDone`, `RdmaAnswered`, `RdmaTake`, `RdmaReply`, `AnswerSent`, `EmptyPoll` | `td_rdma_client_connect` with the accept path, `td_rdma_send_control`, `td_rdma_wait_response`, the poll of the worker |
| `AnswerDropped`, `RequestDropped` | the completions `td_rdma_poll_wc` takes and throws away |
| `Deliver`, `Acknowledge`, `TcpLost`, `RdmaLost`, `Kill` | external: cards, networks, the kernel |

The two transports share no state and one is chosen in `Init`. A request served
after `munmap` is refused by the bounds check (`region->mapped_bytes` is zeroed
too) or faults, depending on how far `td_region_close` is: `ServeUnmapped` has
both. `peer[c]` is what the worker's socket knows of the client's end. One that
was closed by its peer (`"fin"`) takes one more send; if that brings back a reset,
the next send raises SIGPIPE and the process is killed (`"pipe"`). A reset that
comes by itself (`"rst"`) is reported once, by the next call: a send fails with an
error and the worker leaves; a receive of the bytes of a WRITE fails and the worker
goes on to answer with an error, and that send raises SIGPIPE. With a reset, what
the worker still finds of the request is any prefix of header and bytes
(`TcpLost`). Over RDMA a client whose send cannot be delivered is told by its
completion (`RdmaCallFails`); one that waits for an answer is told nothing when
the worker leaves or the session breaks, since it reads no event, and polls on.
The server's look
at the stop flag and the accept that follows are one step: nothing between them
depends on what others do. `OtherCas` is the CAS of any client besides those in
`CN`, reduced to its effect.

`Cas` maps a node with its clients to `CasRegister`: a call is outstanding from
its request to its return, and for ever if it failed, since the worker may serve
it at any later time. `RdmaSlot` then uses `CasRegister` in place of the node, so
that what it shows of slots rests on what `mnode` shows of sessions.

### RdmaSlot

One PRIME slot and clients that probe, propose and commit on it without backups.
`body` is the slot but its guard epoch, which is the register's `word`. A read
or a write of the slot is a set `todo` of units still to be moved, in any order
and between any steps of others (`Transfer`). The mac is the tuple of the fields
it covers: it matches exactly when all of them come from one slot, as a mac that
is not forged does. The guard epoch is not covered, and the decode compares it
with the visible epoch instead. `made` records the slots that writers made, and
`mixed` whether the body may stem from two of them; neither is read by an action
except to update itself.

## Runs

| run | instance | shows |
| --- | --- | --- |
| `replicas` | 2 clients, 4 nodes, 3 backups, 1 key, 2 writes each | all four rules, waits, repairs: one commit per epoch, epochs advance by one, bodies at most one ahead |
| `chains` | 2 clients, 1 node, 3 keys of one chain, 3 slots, write and delete, 1 failure; cache on at the client, none on the node | no record behind an empty slot; a torn slot nobody holds is out of use until its node restarts |
| `cache` | 2 clients, 2 cache slots, read, write, evict, 1 failure | no cache entry ahead of PRIME |
| `live` | 2 clients, 2 nodes, 1 backup, cache, eviction thread, 1 failure; fairness | every command returns; a lone evictor leaves its loop; torn slots stay lost, on backups too |
| `seq` | 1 client, 2 nodes, 1 backup, cache, 3 keys in 2 slots of which two share a hash, all four commands, 5 of them, one value too long, an eviction threshold of 101 | refinement of `KVStore`; replicas agree between commands; a validated cache entry is the PRIME slot |
| `rdma` | 2 clients, 1 slot in 5 units, read, write, delete, 2 commands each, 1 failure | a value that is read was written as a whole; a lone writer leaves a slot that decodes; no epoch won twice |
| `mnode` | 1 client session in detail, 1 eviction thread, other clients' CAS, either transport, 1 request (CAS, READ, WRITE or EVICT) beside hello and close, 1 failure, stop; fairness | refinement of `CasRegister`; requests return, workers end, the node stops; what a stop and a peer's death can do |
| `alloc` | numbers to 63 in three units, 4-byte slots, small explicit counts | slots disjoint and inside; exact, fair division of what was asked for |
| `stale`, `tie`, `evict`, `allocwrap` | smallest instances | disagreements, below |

Why these bounds. A race on a slot needs two writers, and a third adds no new
pair; two commands per client let a late body meet a slot that has advanced.
Three backups is the smallest number with all of: all, a majority, a minority
that wins or loses by its tie-breaker. Three slots and three keys give a probe
chain with a middle that is deleted and reused. One failure suffices for each
of the ways a command can be cut short; two failures in one behaviour are
covered by the proofs (`MaxFaults` is arbitrary there), not by the runs. The
cache runs have as many slots as the sweep needs to leave some behind. In `seq` no
eviction is ever due, which a threshold above 100 brings about (`src/config.c:382`
accepts any number): with deletes and evictions together its properties are false,
as `stale` shows on its own instance, where three keys and three cache slots are
needed for it. With either one alone they are proved. Five commands
let a key be written, deleted, displaced, written elsewhere and read.

In `rdma` two clients suffice for a mixture (a reader and a writer, or two
writers), and two commands let the second find what the first left; hash, tie-breaker
and flags move as one unit, the visible epoch, the data and the mac each alone,
which is where a mixture differs. In `mnode` two clients in detail reach many
millions of states without anything new: sessions share nothing but the region,
the stop flag and main, so the second client is its effect on the region
(`OtherCas`) and the second evictor is the eviction thread. One request after the
hello is enough for a request to be dropped behind an answer that is not yet
acknowledged, and the close that follows is a third.

`cache` switches the deadlock check off because two evictors can hang the only
node (see `evict`); `alloc` because a configuration is resolved once; `rdma`
because clients stop after `MaxOps` commands; `mnode` because a node that has
been stopped does nothing more.

### Fairness

`live` assumes weak fairness of the next step of a command that has begun,
without failures (`CommandStep(c) /\ UNCHANGED faults`), and of the sweep of an
evictor that has counted. The first is the scheduler running a process whose
request is answered or fails at once, as it is over TCP (over RDMA a request may
hang, in the cases `RequestsReturn` of `MemNode` excepts); the second a thread that contends for a
mutex held for bounded times. No client has to issue a command, no failure has
to occur, the eviction thread need not begin a count. Fairness says nothing of
a node whose lock is held for ever: that is why `CommandsReturn` has to be
checked together with `EvictionReturns`.

`mnode` assumes weak fairness of main, of the eviction thread and of each
sweep, of a worker, of a client that has made a request, and of the cards of a
session that is connected: each is a thread or a device that is ready to go on.
A connection in the backlog is accepted while the server runs: `select` returns
for it, and nothing takes it away. Nobody has to send a request, nothing has to fail, no signal has
to arrive. What the code cannot promise is excepted by name in the properties:
`RequestsReturn` excepts a dropped completion, a client over RDMA whose worker left
or whose session broke before the answer (`Deserted`), and a hung evictor, `WorkersEnd`
the worker of a client that died over RDMA (its disconnect event is ignored),
`StopEnds` a hung evictor, which `pthread_join` waits for.

### Disagreements found

* `stale` (`src/cluster.c:328`): a client alone, without any failure, can read a
  value it has deleted. A sweep between the PRIME commit and the cache refresh of
  a delete opens a hole in front of the key's live entry; the refresh puts the
  tombstone there and the live entry stays behind it. Another key takes over the
  tombstone in PRIME, a second delete puts a new tombstone elsewhere, whose epoch
  starts again at 1, and another key takes over the tombstone in the cache. The
  live entry is now found, has the epoch of the tombstone in PRIME and passes the
  validation, which compares epochs only. The README says a tombstone reads as
  `not_found`. With two clients no eviction is needed: the body of a delete that
  loses its race replaces the committed write under the writer's epoch
  (`src/cluster.c:96`), and the writer's refresh brings its value into the cache.
* `tie` (`src/cluster.c:566`): the tie-breaker a loser compares with is that of
  the slot before the race, so two writers can both win by rule 3.
* `evict` (`src/layout.c:206`): the eviction thread and an `evict` command count
  the same slots; the second to sweep spins for ever with the lock held.
* `allocwrap` (`src/config.c:226`): explicit slot counts whose sum wraps are
  accepted, where the README promises a config error.

## Proofs

Twenty-one theorems, in eight modules; `PROJECT.json` lists them with the property
each one states. All constants are arbitrary under the named assumptions of the
module that declares them: any number of clients, nodes, slots per node and kind,
keys with any hashes (colliding ones too), commands, epochs, requests, failures,
any units of transfer, any width of a `size_t`. Each theorem on an invariant has the same
shape: an inductive invariant, a lemma that `Init` implies it, one lemma per action
that the action keeps it, and the property as a consequence. Every inductive
invariant was first checked with TLC as an invariant of the runs' instances.

### Cluster

* `TypeCorrect`: `Spec => []TypeOK`. `TypeOK` is not inductive: a request
  addresses a slot of the node of its key, so the invariant adds that a command
  that addresses a slot has a key and one that evicts a node (`WellFormed`,
  together `TypeInv`). The lemmas show for each local computation (`Finish`,
  `RepairFrom`, `BackupFrom`, ...) that it makes a well-formed process, then
  for each action that it preserves `TypeInv`.
* `OneWinnerPerEpoch`, `BodiesNeverRunAhead`, `EpochsNeverGoBack`. The
  invariant `EpochInv` says what a command knows while its session with the
  primary is up: the epoch it probed is not past the slot's guard, its proposal
  is one ahead of the epoch probed, and a committed proposal has been reached.
  A session that is up has seen no restart, which is the only step that takes
  an epoch back. A CAS that wins finds the guard at the probed epoch, so it
  advances by one, and no other command can have committed that epoch: its
  proposal would have been reached already. Late bodies carry the probed epoch
  plus one, at most one ahead of the guard. The statement about two commands
  thus follows from facts about each one alone and the slot they share.
* `NoRecordBehindEmptySlot`: `Spec => []ProbeChainIntact`, from `ChainInv`. A
  PRIME or BACKUP slot, once it is not empty, stays so until its node restarts,
  because every body that is written is valid with an epoch past zero
  (`CommandInv`). So what a probe has passed stays occupied while the session is
  up, the candidate it takes is reached from the home slot of the key
  (`Reached`), and a body written there, however late, lies behind no empty slot.
  A restart empties a whole region at once and cuts every session to it.
* `LeakedForGood`: `Spec => LeakIsPermanent`, an action property, from
  `CommandInv`: a torn slot is never taken as a candidate, so a slot that no
  command holds is held by none afterwards, and only holders write.
* `CacheNeverAhead`: `Spec => []CacheNotAhead`, from `CacheInv`: what a refresh
  carries has an epoch its PRIME slot has reached, by `EpochInv` for a command
  that committed and by the probe for a read, and guards of PRIME only grow until
  a restart, which empties the cache with them.
* `LoneEvictorReturns`: `Spec => []EvictionReturns`, if no client issues `evict`
  and the threshold is positive. `LoneInv` says that the thread's target is at most
  the number of valid cache slots: between its count and its sweep entries are
  only added. Both hypotheses are needed: with a second evictor the run `evict` shows a
  violation, and with a threshold of 0, which `src/config.c:382` accepts, even a
  lone evictor sets out to clear one slot of an empty cache and never finds it.

### ClusterKV

Four theorems about a client that is alone on the cluster and meets no failure
(`Alone`: `CN` has one member, `MaxFaults` is 0; eviction threads run, `evict` may be
issued, regions may be full, values too long). They rest on one invariant, `AloneInv`.

* It speaks of the records as the client means them: `Records` is the memory with a
  body whose CAS is still to come taken back. `Tidy` says of them that no slot is
  torn, that a hash has one record at most in a region, and that its chain leads to
  it. So a probe finds the record wherever it lies, and a probe that takes an empty
  slot or a tombstone has passed the whole chain (`Searching`, `Picked`): that is what
  makes the next commit keep `Tidy`. Without the second half a write could put a
  second record in front of the first.
* The commit of a client alone always wins (`CommitWins`), so its votes are
  unanimous and no wait or repair occurs (`Unopposed`). `Copies` counts the backups
  that are ahead of PRIME: those the loop has passed hold the proposal (`Pledged`),
  the others the record of PRIME.
* `CachesOlder`: a cache entry has a record of its hash in PRIME that is as new or
  newer, and equal to it when the epochs are; this is true while no key is deleted,
  since a key that is never deleted never leaves its PRIME slot.
* `MirrorInv` adds, for a threshold above 100, what holds of the cache when keys are
  deleted. No eviction is ever due then (`NoEvictionDue`: a cache has no more used
  slots than slots), so no cache slot becomes empty again. A hash has one entry at
  most and no empty slot in front of it (`EntriesTidy`), an entry that is not a
  tombstone is a record of PRIME (`Mirrors`), and the entry of the key whose commit has
  passed PRIME is excused until its refresh has rewritten it (`Pending`,
  `Refreshing`). With evictions the first of these fails: the refresh finds the
  hole in front of the entry and makes a second one.

The theorems:

* `BackupsAgreeWithPrime`: `Spec => []ReplicasAgree` if there is one backup at most.
  With two or more, a write of a new key that finds the second backup full fails with
  its copy in the first, so the hypothesis is needed.
* `ValuesOnEveryBackup`: `Spec => []ValuesCopied` for any number of backups: whenever
  the client rests, every backup of a key that has a value holds the very slot of PRIME.
* `CacheHitsAreCurrent`: `Spec => []CacheCoherent` if the client issues no delete, or
  the eviction threshold is above 100 (`src/config.c:382` accepts any). The run
  `stale`, with deletes and evictions, shows that one of the two is needed.
* `ClusterImplementsKV`: `Spec => ImplementsKV`, the refinement, with all commands if
  the cache is off or the threshold is above 100, and without deletes if the cache
  is on and evicted from. `StoreRight` says that the map is what the records of
  PRIME hold. A read takes effect when it examines the slot it stops at, a
  mutation at the CAS on PRIME, a refusal where it is decided; all other steps of
  the client, the node and the eviction thread leave the map alone.

### RdmaSlot

* `ReadsAuthentic`: `Spec => []AuthenticValue`. `SlotInv` says that every mac in
  the region, in a proposal or in a slot read so far is the mac of a slot some
  writer made, or none: a transfer moves whole macs. A slot that decodes has the
  mac of a made slot, which covers every field but the guard, and the decode
  compares the guard with the visible epoch: it is that slot (`DecodedWasMade`).
* `WinnersTakeDifferentEpochs`: `Spec => []WinnersDiffer`, from `WinInv`: an epoch
  that was won has been reached by the register, so a CAS that wins later wins a
  later one.
* `LoneWriterLeavesWholeBody`: `Spec => []LoneWritesDecode`, from `LoneInv`: what
  a writer that is alone has moved is in the region, unit by unit.

### MemNode

* `NodeImplementsCas`: `Spec => ImplementsCas`, the refinement of `CasRegister`.
  The invariant `CasInv` says that the one exchange of a session is in one place
  at most: request under way, received by the card, in the hands of the worker,
  answer under way, received by the client's card (`OneExchange`); that a request
  that has not been served is the client's call, and that an answer carries what
  its CAS has seen (`Contents`). Completions thrown away only take the exchange
  out of its place. Each action then is a step of the register or a stutter.
* `EvictorNeverUnmapped`, `AtMostOneAfterStop`: the order of join and unmapping
  (`EvictInv`), and that a worker that took a request behind the flag does not
  wait for another (`LateInv`).
* `DeathKillsOnlyInTransfer`: `Spec => DeathKillsInTransferOnly`, an action
  property about a node that is not shutting down: it dies of a client's death in
  the second send of a READ's answer, or in the error that answers a WRITE whose
  bytes a reset cut off, and nowhere else. `ResetInv`: a send would raise SIGPIPE
  only in a worker that is in one of these two places, or that has answered the
  last request of its client and will receive next.

### SlotAlloc

`SlotsFitRegion` and `SharesAreFair`: `Spec => []RegionFits` and
`Spec => []FairShares`, for explicit counts whose sum does not wrap
(`ManualCountsFit`; the run `allocwrap` shows that the code needs it and does not
check it). `AllocInv` follows the division: each weighted count is the exact
share rounded down with its remainder, or has traded a remainder that was not
zero for one more slot (`Rounded`). While slots are left over some remainder is not
zero (`SomeRemainder`): otherwise every count would be at least its share and
their sum all there is. So no bucket ever gets a slot it has not earned. A slot has at least 4
bytes, the largest weight, so the products of the division do not wrap
(`PartFits`); a size that passes the check of `td_parse_size_bytes` does not
either (`SizeFits`). The offset of a slot is then the header and the slots in
front (`OffsetIsRank`), no two have the same number in front (`RanksDiffer`), and
the last ends inside the memory (`NoWrap`).

### Assumptions

Beside types and bounds: `NilAssumption` (the value for nothing is no number and
no call, as a model value is) and `WordAssumption` (`2^Width` is a positive number, which the
provers do not know of exponentiation). TLC evaluates both in the runs.

### Only model-checked

* Liveness, and all that rests on `ENABLED`: `CommandsReturn`, `RequestsReturn`,
  `WorkersEnd`, `StopEnds`. Out of the prover's reach.
* What the runs `stale`, `tie`, `evict` and `allocwrap` refute.

## Not modelled

* Key derivation and the cipher: they hide values and decide nothing. The mac is
  modelled in `RdmaSlot`; over TCP it always matches.
* Over RDMA, a session that is refused (`rdma_reject`) leaves no state on either
  side, and is left out; so is a region that cards still reach after the
  unmapping, since the process exits right behind it. A composition of `RdmaSlot`
  with backups and cache would repeat `Cluster` with field-wise bodies and is out
  of TLC's reach; what changes is confined to one slot.
* Over RDMA a read that finds a tombstone, an empty slot or another hash answers
  without checking the mac. Nothing in the code or its documents says what such
  an answer means while a writer is at the slot, so no property does.
* A failed `malloc` in a worker, which answers READ and WRITE with an error (and
  leaves the bytes of the WRITE in the stream, to be taken for a header), and messages with a wrong magic or an unknown operation, which no client sends.
* Splitting of configuration lines, command lines and endpoints; trimming, hex
  and time helpers; profiling, printing and the benchmark, which drives the same
  calls from one thread.

## Plan

1. Done: `Slots`, `Cluster`, `KVStore`, `ClusterKV`, `SlotAlloc`, their runs; the
   type and epoch theorems; then the memory node with both transports and its
   shutdown (`MemNode`, refining `CasRegister`), slots over RDMA (`RdmaSlot`), and
   the parsing of sizes.
2. Done: the theorems on probe chains, torn slots, the cache and the eviction
   thread, on slots over RDMA, on the memory node with its refinement of
   `CasRegister`, and on the division of memory.
3. Done: for a client alone, agreement of replicas and cache and the refinement of
   `KVStore`.
