----------------------------- MODULE NodeProcess -----------------------------
(***************************************************************************)
(* The process of a memory node (src/mn_main.c): main with its server      *)
(* loop, the eviction thread, one worker thread per connection, the stop   *)
(* flag and the region they share, here one word of it.  What a worker     *)
(* does with a request is in this module; how requests and answers travel  *)
(* is in TcpServer and RdmaServer.                                         *)
(***************************************************************************)
EXTENDS Integers, Sequences, FiniteSets

CONSTANTS CN,         \* clients
          Nil,        \* no answer yet
          Thread,     \* the eviction thread
          OpKinds,    \* requests the clients make
          MaxWord,    \* bound: largest epoch a CAS puts into the word
          MaxOps,     \* bound: requests per client
          MaxFaults   \* bound: failures of connections, clients and the server

ASSUME ThreadAssumption == Thread \notin CN
ASSUME NilAssumption == Nil \notin Nat \cup [compare : Nat, swap : Nat]
ASSUME BoundsAssumption == MaxWord \in Nat /\ MaxOps \in Nat /\ MaxFaults \in Nat

VARIABLES main,    \* where main is, "exited" or "killed" at its end
          stop,    \* td_stop
          thread,  \* where the eviction thread is
          evict,   \* evict[e]: what evictor e is at in td_region_evict_if_needed
          hung,    \* an evictor spins with the region's lock held
          mapped,  \* the region is mapped
          word,    \* the guard epoch of a slot
          worker,  \* the worker of each connection
          cn,      \* the client of each connection
          sent,    \* sent[c][s]: the message side s has under way to the other
          faults,  \* failures so far
          seen,    \* history: what the last CAS of c found in the word
          late     \* history: requests the worker took after the stop flag was set

procVars == <<main, stop, thread>>
regionVars == <<evict, hung, mapped, word>>
histVars == <<seen, late>>
nodeVars == <<procVars, regionVars, worker, cn, sent, faults, histVars>>

Evictors == CN \cup {Thread}
Alive == main \notin {"exited", "killed"}

Sides == {"cn", "mn"}
Peer == [cn |-> "mn", mn |-> "cn"]

(* td_wire_msg_t; status is 0 unless the node could not serve the request. *)
Message(op, compare, swap, status) ==
    [op |-> op, compare |-> compare, swap |-> swap, status |-> status]
NoMessage == Message("none", 0, 0, 0)
NotSent == [msg |-> NoMessage, arrived |-> FALSE]
Sent(msg) == [msg |-> msg, arrived |-> FALSE]

NoWorker == [pc |-> "none", msg |-> NoMessage]

(* What a request brought: for a CAS, the word it found.                   *)
Outcome(status, found) == [status |-> status, found |-> found]

(* pc "send": the client is not done with sending its request; "answer":   *)
(* it waits for the answer; "dead": it has died or its session is of no    *)
(* use any more.                                                           *)
Off == [pc |-> "off", call |-> NoMessage, reply |-> Outcome("none", 0), ops |-> 0]
Busy == {"send", "answer"}
Failed(s) == [s EXCEPT !.pc = "dead", !.reply = Outcome("failed", 0)]

(* The requests of a client; a CAS proposes the next epoch, from the one   *)
(* its probe read, which may be old by now.                                *)
Requests == {Message("cas", e, e + 1, 0) : e \in 0 .. MaxWord - 1}
            \cup {Message(op, 0, 0, 0) : op \in {"read", "write", "evict", "close"}}

(* What the caller of the request makes of its answer.                     *)
Answered(s, msg) ==
    IF msg.status # 0 THEN Failed(s)
    ELSE IF s.call.op = "close" THEN [Off EXCEPT !.ops = s.ops]
    ELSE [s EXCEPT !.pc = "idle", !.call = NoMessage,
                   !.reply = Outcome(s.call.op, msg.compare)]

(* A client issues request msg and then waits at pc.                       *)
Calls(c, msg, pc) ==
    /\ cn[c].pc = "idle"
    /\ msg.op = "close" \/ (msg.op \in OpKinds /\ cn[c].ops < MaxOps)
    /\ cn' = [cn EXCEPT ![c] = [Off EXCEPT !.pc = pc, !.call = msg,
                                !.ops = IF msg.op = "close" THEN cn[c].ops
                                         ELSE cn[c].ops + 1]]
    /\ sent' = [sent EXCEPT ![c]["cn"] = Sent(msg)]

(* Its answer is taken.                                                    *)
Returns(c, msg) ==
    /\ cn' = [cn EXCEPT ![c] = Answered(@, msg)]
    /\ seen' = [seen EXCEPT ![c] = IF msg.status = 0 THEN Nil ELSE @]

Fault == faults < MaxFaults /\ faults' = faults + 1

-----------------------------------------------------------------------------
(* main.                                                                   *)

(* SIGINT or SIGTERM: td_signal_handler.                                   *)
Signal ==
    /\ Alive
    /\ ~stop
    /\ stop' = TRUE
    /\ UNCHANGED <<main, thread, regionVars, worker, cn, sent, faults, histVars>>

(* The head of the server loop sees the flag.  Between one look at it and  *)
(* the next the server waits for a connection and takes at most one.       *)
ServerLoop ==
    /\ main = "loop"
    /\ stop
    /\ main' = "join"
    /\ UNCHANGED <<stop, thread, regionVars, worker, cn, sent, faults, histVars>>

(* The server has taken a connection and is back at the head of its loop.  *)
Accepted == main = "loop" /\ main' = IF stop THEN "join" ELSE "loop"

(* The wait fails: the server returns an error, and main stops the node.   *)
ServerFails ==
    /\ main = "loop"
    /\ Fault
    /\ main' = "join"
    /\ stop' = TRUE
    /\ UNCHANGED <<thread, regionVars, worker, cn, sent, histVars>>

(* Mutant: main does not wait for the eviction thread.                     *)
Joined_Skip == TRUE

(* pthread_join of the eviction thread returns.                            *)
Joined == thread = "ended"

(* td_region_close, with the workers still running.                        *)
CloseRegion ==
    /\ main = "join"
    /\ Joined
    /\ main' = "closed"
    /\ mapped' = FALSE
    /\ UNCHANGED <<stop, thread, evict, hung, word, worker, cn, sent, faults, histVars>>

(* main returns and all threads end with it.                               *)
Exit ==
    /\ main = "closed"
    /\ main' = "exited"
    /\ thread' = "ended"
    /\ worker' = [c \in CN |-> NoWorker]
    /\ UNCHANGED <<stop, regionVars, cn, sent, faults, histVars>>

(* The operating system kills the process.                                 *)
Kill ==
    /\ main' = "killed"
    /\ thread' = "ended"
    /\ worker' = [c \in CN |-> NoWorker]

-----------------------------------------------------------------------------
(* Eviction, by the thread and by workers.  How many cache slots are in    *)
(* use is abstracted: an evictor whose count is older than another sweep   *)
(* may find fewer than it looks for, and then never leaves its loop.       *)

(* The evictor counts and is to sweep, or has nothing to do.               *)
Count(e) ==
    \/ evict' = [evict EXCEPT ![e] = "counted"]
    \/ UNCHANGED evict

Sweep(e) ==
    /\ evict[e] \in {"counted", "stale"}
    /\ Alive /\ mapped
    /\ ~hung
    /\ evict' = [x \in Evictors |-> IF x = e THEN "none"
                                    ELSE IF evict[x] = "counted" THEN "stale" ELSE evict[x]]
    /\ UNCHANGED <<procVars, hung, mapped, word, worker, cn, sent, faults, histVars>>

Spin(e) ==
    /\ evict[e] = "stale"
    /\ Alive /\ mapped
    /\ ~hung
    /\ hung' = TRUE
    /\ UNCHANGED <<procVars, evict, mapped, word, worker, cn, sent, faults, histVars>>

(* Mutant: the thread does not look at the flag.                           *)
ThreadStops_Never == FALSE

(* The head of the loop of td_eviction_thread.                             *)
ThreadStops == stop

(* The thread ends, or td_region_evict_if_needed counts; it is back here   *)
(* when it has swept and slept.                                            *)
ThreadLoop ==
    /\ thread = "loop"
    /\ evict[Thread] = "none"
    /\ \/ ThreadStops /\ thread' = "ended" /\ UNCHANGED evict
       \/ ~ThreadStops /\ ~hung /\ Count(Thread) /\ UNCHANGED thread
    /\ UNCHANGED <<main, stop, hung, mapped, word, worker, cn, sent, faults, histVars>>

-----------------------------------------------------------------------------
(* A worker serves the request it has received.                            *)

(* Mutant: the word is swapped whatever it holds.                          *)
td_region_cas64_Always(msg) == msg.swap

td_region_cas64(msg) == IF word = msg.compare THEN msg.swap ELSE word

(* The CAS of a client that is not in CN, of which only the effect is kept.*)
OtherCas ==
    /\ Alive /\ mapped
    /\ ~hung
    /\ word < MaxWord
    /\ word' = td_region_cas64(Message("cas", word, word + 1, 0))
    /\ UNCHANGED <<procVars, evict, hung, mapped, worker, cn, sent, faults, histVars>>

(* Mutant: the worker does not look at the flag.                           *)
WorkerStops_Never == FALSE

(* The head of the loop of td_tcp_connection_main and                      *)
(* td_rdma_server_conn_main.                                               *)
WorkerStops == stop

WorkerLoop(c) ==
    /\ worker[c].pc = "loop"
    /\ worker' = [worker EXCEPT ![c] = IF WorkerStops THEN NoWorker
                                       ELSE [@ EXCEPT !.pc = "recv"]]
    /\ UNCHANGED <<procVars, regionVars, cn, sent, faults, histVars>>

(* The worker takes request msg and goes on at pc.                         *)
Taken(c, msg, pc) ==
    /\ worker' = [worker EXCEPT ![c] = [pc |-> pc, msg |-> msg]]
    /\ late' = [late EXCEPT ![c] = IF stop THEN @ + 1 ELSE @]

Reply(c, compare, status) ==
    worker' = [worker EXCEPT ![c].pc = "reply",
                             ![c].msg = [@ EXCEPT !.compare = compare, !.status = status]]

(* A WRITE brings the body of a slot, which lies behind the word; HELLO,   *)
(* READ and CLOSE leave the region as it is.                               *)
Serve(c) ==
    LET msg == worker[c].msg
    IN  /\ worker[c].pc = "serve"
        /\ mapped
        /\ \/ /\ msg.op = "cas"
              /\ ~hung
              /\ word' = td_region_cas64(msg)
              /\ seen' = [seen EXCEPT ![c] = word]
              /\ Reply(c, word, 0)
              /\ UNCHANGED evict
           \/ /\ msg.op = "evict"
              /\ ~hung
              /\ Count(c)
              /\ Reply(c, 0, 0)
              /\ UNCHANGED <<word, seen>>
           \/ /\ msg.op \in {"hello", "read", "write", "close"}
              /\ ~hung \/ msg.op \in {"hello", "close"}
              /\ Reply(c, 0, 0)
              /\ UNCHANGED <<word, seen, evict>>
        /\ UNCHANGED <<procVars, hung, mapped, cn, sent, faults, late>>

(* The region is gone: the bounds check refuses the request, or the access *)
(* faults.  HELLO and EVICT go through the header and have no check.       *)
ServeUnmapped(c) ==
    LET msg == worker[c].msg
    IN  /\ worker[c].pc = "serve" \/ (worker[c].pc = "reply" /\ evict[c] # "none")
        /\ ~mapped
        /\ \/ /\ msg.op \in {"cas", "read", "write", "close"}
              /\ Reply(c, 0, IF msg.op = "close" THEN 0 ELSE 1)
              /\ UNCHANGED <<main, thread>>
           \/ msg.op # "close" /\ Kill
        /\ UNCHANGED <<stop, regionVars, cn, sent, faults, histVars>>

(* The answer may leave: an evict request answers after its sweep.         *)
Ready(c) == worker[c].pc = "reply" /\ evict[c] = "none"

-----------------------------------------------------------------------------
NodeInit ==
    /\ main = "loop"
    /\ stop = FALSE
    /\ thread = "loop"
    /\ evict = [e \in Evictors |-> "none"]
    /\ hung = FALSE
    /\ mapped = TRUE
    /\ word = 0
    /\ worker = [c \in CN |-> NoWorker]
    /\ cn = [c \in CN |-> Off]
    /\ sent = [c \in CN |-> [s \in Sides |-> NotSent]]
    /\ faults = 0
    /\ seen = [c \in CN |-> Nil]
    /\ late = [c \in CN |-> 0]

MainStep == ServerLoop \/ CloseRegion \/ Exit
ServeStep(c) == WorkerLoop(c) \/ Serve(c) \/ ServeUnmapped(c)
=============================================================================
