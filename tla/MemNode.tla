------------------------------- MODULE MemNode -------------------------------
(***************************************************************************)
(* A memory node with its clients, over the transport its configuration    *)
(* names: the process (NodeProcess) composed with one of the two servers.  *)
(***************************************************************************)
EXTENDS TcpServer, RdmaServer

VARIABLE transport  \* cfg.transport

vars == <<nodeVars, tcpVars, rdmaVars, transport>>

Init == /\ transport \in {"tcp", "rdma"}
        /\ NodeInit /\ TcpInit /\ RdmaInit

(* The steps of both transports, and those of the one in use.              *)
Both(A) == A /\ UNCHANGED <<tcpVars, rdmaVars, transport>>
OverTcp(A) == transport = "tcp" /\ A /\ UNCHANGED <<rdmaVars, transport>>
OverRdma(A) == transport = "rdma" /\ A /\ UNCHANGED <<tcpVars, transport>>

Next ==
    \/ Both(Signal \/ ServerFails \/ MainStep \/ ThreadLoop \/ OtherCas)
    \/ \E e \in Evictors : Both(Sweep(e) \/ Spin(e))
    \/ \E c \in CN : Both(ServeStep(c)) \/ OverTcp(TcpNext(c)) \/ OverRdma(RdmaNext(c))

Spec == Init /\ [][Next]_vars

(* Threads and processes that can go on do, and so do the cards of a       *)
(* session that is connected; a connection that waits is accepted.  Nobody *)
(* has to issue a request, and nothing has to fail.                        *)
Fairness ==
    /\ WF_vars(Both(MainStep))
    /\ WF_vars(Both(ThreadLoop))
    /\ \A e \in Evictors : WF_vars(Both(Sweep(e)))
    /\ \A c \in CN :
          /\ WF_vars(Both(ServeStep(c)) \/ OverTcp(TcpWorkerStep(c))
                                        \/ OverRdma(RdmaWorkerStep(c)))
          /\ WF_vars(OverTcp(TcpCallStep(c)) \/ OverRdma(RdmaCallStep(c)))
          /\ WF_vars(OverRdma(CardStep(c)))
          /\ WF_vars(OverTcp(TcpAccept(c) /\ UNCHANGED faults))

FairSpec == Spec /\ Fairness

-----------------------------------------------------------------------------
(* Properties.                                                             *)

(* The refinement mapping: a call is outstanding from its request to the   *)
(* return of its answer, and for ever when it failed.                      *)
CallOf(c) == IF cn[c].call.op = "cas"
             THEN [compare |-> cn[c].call.compare, swap |-> cn[c].call.swap] ELSE Nil

Cas == INSTANCE CasRegister WITH
           Callers <- CN, Words <- 0 .. MaxWord - 1, None <- Nil,
           req <- [c \in CN |-> CallOf(c)],
           failed <- {c \in CN : cn[c].pc = "dead"},
           ans <- [c \in CN |-> IF cn[c].reply.status = "cas" THEN cn[c].reply.found ELSE Nil]

(* A CAS over either transport is atomic: served once, between its request *)
(* and its answer, with the word it found in the answer, whatever          *)
(* completions are dropped, connections lost, clients dead, and while the  *)
(* node shuts down (td_tcp_client_cas, td_rdma_client_cas).                *)
ImplementsCas == Cas!CasSpec

(* The worker has gone, or the session is broken, and c waits for an       *)
(* answer over RDMA, where nothing tells it (td_rdma_wait_response).       *)
Deserted(c) == transport = "rdma" /\ cn[c].pc = "answer" /\ ~Connected(c)

(* A request returns, or its client dies, unless one of its messages was   *)
(* dropped from a completion queue (td_rdma_poll_wc), the worker left      *)
(* before it answered over RDMA, or an evictor holds the region's lock for *)
(* ever.                                                                   *)
RequestsReturn ==
    \A c \in CN : cn[c].pc \in Busy
                  ~> cn[c].pc \notin Busy \/ dropped[c] \/ Deserted(c) \/ hung

(* A client that has quit leaves no worker behind, and over TCP neither    *)
(* does one that died: td_tcp_connection_main and td_rdma_server_conn_main *)
(* leave their loop at TD_WIRE_CLOSE, and a socket tells of its peer's     *)
(* end.  Over RDMA nothing tells a worker that its client died.            *)
WorkersEnd ==
    \A c \in CN : \/ cn[c].pc = "off"
                  \/ cn[c].pc = "dead" /\ transport = "tcp"
                ~> worker[c].pc = "none" \/ hung

(* A node that is told to stop ends, whatever its clients do, unless an    *)
(* evictor spins: pthread_join then never returns.                         *)
StopEnds == stop ~> ~Alive \/ hung

(* The two places where td_send_all raises SIGPIPE: the second send of a   *)
(* READ's answer, when the first has brought back a reset, and the error   *)
(* that answers a WRITE whose bytes a reset cut off.                       *)
SendsToDead(c) ==
    /\ cn[c].pc = "dead"
    /\ \/ worker[c].pc = "payload" /\ worker[c].msg.op = "read"
       \/ worker[c].pc = "reply" /\ worker[c].msg.op = "write" /\ worker[c].msg.status # 0

(* A node that is not shutting down is killed by the death of a client in  *)
(* these two places only: HELLO, CAS, EVICT and CLOSE are one receive and  *)
(* one send, and a worker that has sent to a dead client receives next.    *)
DeathKillsInTransferOnly ==
    [][Alive /\ main' = "killed" /\ mapped => \E c \in CN : SendsToDead(c)]_vars

(* The eviction thread is never in a region that main has unmapped: main   *)
(* joins it before td_region_close.                                        *)
EvictorSafe == evict[Thread] # "none" => mapped

(* A detached worker looks at the flag before each request only, and may   *)
(* serve one, after it, with the region mapped or not; never two.          *)
OneRequestAfterStop == \A c \in CN : late[c] <= 1
=============================================================================
