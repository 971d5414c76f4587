----------------------------- MODULE RdmaServer -----------------------------
(***************************************************************************)
(* The control messages of sessions over RDMA (src/transport_rdma.c): CAS, *)
(* EVICT, HELLO and CLOSE are a message to the worker and one back.  Each  *)
(* side has one receive posted and one completion queue for what it sent   *)
(* and for what it received; it polls the queue for the completion it      *)
(* waits for, and any other one it takes from the queue is lost.           *)
(***************************************************************************)
EXTENDS NodeProcess

VARIABLES up,      \* up[c]: the queue pairs of c's session are connected
          cq,      \* cq[c][s]: completion queue of side s
          posted,  \* posted[c][s]: side s has a receive posted
          buf,     \* buf[c][s]: recv_msg of side s
          dropped  \* history: a message of c's session was lost in a queue

rdmaVars == <<up, cq, posted, buf, dropped>>

RdmaInit == /\ up = [c \in CN |-> FALSE]
            /\ cq = [c \in CN |-> [s \in Sides |-> << >>]]
            /\ posted = [c \in CN |-> [s \in Sides |-> FALSE]]
            /\ buf = [c \in CN |-> [s \in Sides |-> NoMessage]]
            /\ dropped = [c \in CN |-> FALSE]

(* A worker that ends destroys its queue pair.                             *)
Connected(c) == up[c] /\ worker[c].pc # "none"

(* The next completion of side s is wc; it leaves the queue.               *)
Polls(c, s, wc) == /\ cq[c][s] # << >>
                   /\ Head(cq[c][s]) = wc
                   /\ cq' = [cq EXCEPT ![c][s] = Tail(@)]

-----------------------------------------------------------------------------
(* The network cards (external).  A message is delivered when the receiver *)
(* has a receive posted, and acknowledged to its sender some time later.   *)

Deliver(c, s) ==
    /\ sent[c][s] # NotSent
    /\ ~sent[c][s].arrived
    /\ posted[c][Peer[s]]
    /\ Connected(c)
    /\ sent' = [sent EXCEPT ![c][s].arrived = TRUE]
    /\ buf' = [buf EXCEPT ![c][Peer[s]] = sent[c][s].msg]
    /\ posted' = [posted EXCEPT ![c][Peer[s]] = FALSE]
    /\ cq' = [cq EXCEPT ![c][Peer[s]] = Append(@, "RECV")]
    /\ UNCHANGED <<procVars, regionVars, worker, cn, faults, up, dropped, histVars>>

Acknowledge(c, s) ==
    /\ sent[c][s].arrived
    /\ Connected(c)
    /\ sent' = [sent EXCEPT ![c][s] = NotSent]
    /\ cq' = [cq EXCEPT ![c][s] = Append(@, "SEND")]
    /\ UNCHANGED <<procVars, regionVars, worker, cn, faults, up, posted, buf, dropped, histVars>>

-----------------------------------------------------------------------------
(* The client.                                                             *)

(* td_rdma_client_connect, and the accept path of td_rdma_server_run: both *)
(* sides post a receive, a worker starts, HELLO is sent.  A client comes   *)
(* back when the worker of its last session has gone.                      *)
RdmaConnect(c) ==
    /\ cn[c].pc = "off"
    /\ worker[c].pc = "none"
    /\ Accepted
    /\ worker' = [worker EXCEPT ![c].pc = "loop"]
    /\ up' = [up EXCEPT ![c] = TRUE]
    /\ cq' = [cq EXCEPT ![c] = [s \in Sides |-> << >>]]
    /\ posted' = [posted EXCEPT ![c] = [s \in Sides |-> TRUE]]
    /\ buf' = [buf EXCEPT ![c] = [s \in Sides |-> NoMessage]]
    /\ cn' = [cn EXCEPT ![c].pc = "send", ![c].call = Message("hello", 0, 0, 0)]
    /\ sent' = [sent EXCEPT ![c] = [cn |-> Sent(Message("hello", 0, 0, 0)), mn |-> NotSent]]
    /\ dropped' = [dropped EXCEPT ![c] = FALSE]
    /\ UNCHANGED <<stop, thread, regionVars, faults, histVars>>

(* td_rdma_client_cas and td_rdma_client_control up to the first poll.     *)
(* READ and WRITE are one-sided and pass the worker by.                    *)
RdmaCall(c, msg) ==
    /\ msg.op \notin {"read", "write"}
    /\ Calls(c, msg, "send")
    /\ UNCHANGED <<procVars, regionVars, worker, faults, rdmaVars, histVars>>

(* td_rdma_send_control returns.                                           *)
SendDone(c) ==
    /\ cn[c].pc = "send"
    /\ Polls(c, "cn", "SEND")
    /\ cn' = [cn EXCEPT ![c].pc = "answer"]
    /\ UNCHANGED <<procVars, regionVars, worker, sent, faults, up, posted, buf, dropped, histVars>>

(* td_rdma_poll_wc takes the answer from the queue while it waits for the  *)
(* completion of the request, and goes on polling.                         *)
AnswerDropped(c) ==
    /\ cn[c].pc = "send"
    /\ Polls(c, "cn", "RECV")
    /\ dropped' = [dropped EXCEPT ![c] = TRUE]
    /\ UNCHANGED <<procVars, regionVars, worker, cn, sent, faults, up, posted, buf, histVars>>

(* td_rdma_wait_response returns, with a new receive posted.               *)
RdmaAnswered(c) ==
    /\ cn[c].pc = "answer"
    /\ Polls(c, "cn", "RECV")
    /\ Returns(c, buf[c]["cn"])
    /\ posted' = [posted EXCEPT ![c]["cn"] = TRUE]
    /\ UNCHANGED <<procVars, regionVars, worker, sent, faults, up, buf, dropped, late>>

(* A request that cannot be delivered completes with an error.  A client   *)
(* that waits for its answer has nothing under way that could fail, and    *)
(* does not read the events of its session: it polls on.                   *)
RdmaCallFails(c) ==
    /\ cn[c].pc = "send"
    /\ cq[c]["cn"] = << >>
    /\ ~Connected(c)
    /\ cn' = [cn EXCEPT ![c] = Failed(@)]
    /\ UNCHANGED <<procVars, regionVars, worker, sent, faults, rdmaVars, histVars>>

-----------------------------------------------------------------------------
(* The worker: td_rdma_server_conn_main.                                   *)

(* Mutant: the receive is not posted again.                                *)
Repost_Never(c) == posted

(* The receive is posted again as soon as the request is copied.           *)
Repost(c) == [posted EXCEPT ![c]["mn"] = TRUE]

RdmaTake(c) ==
    /\ worker[c].pc = "recv"
    /\ Polls(c, "mn", "RECV")
    /\ Taken(c, buf[c]["mn"], "serve")
    /\ posted' = Repost(c)
    /\ UNCHANGED <<procVars, regionVars, cn, sent, faults, up, buf, dropped, seen>>

(* An empty queue: back to the head of the loop, where the flag is seen.   *)
EmptyPoll(c) ==
    /\ worker[c].pc = "recv"
    /\ cq[c]["mn"] = << >>
    /\ stop
    /\ worker' = [worker EXCEPT ![c].pc = "loop"]
    /\ UNCHANGED <<procVars, regionVars, cn, sent, faults, rdmaVars, histVars>>

(* The answer is posted.                                                   *)
RdmaReply(c) ==
    /\ Ready(c)
    /\ sent' = [sent EXCEPT ![c]["mn"] = Sent(worker[c].msg)]
    /\ worker' = [worker EXCEPT ![c].pc = "sent"]
    /\ UNCHANGED <<procVars, regionVars, cn, faults, rdmaVars, histVars>>

(* Mutant: the worker goes on after CLOSE.                                 *)
AfterAnswer_Loop(w) == [NoWorker EXCEPT !.pc = "loop"]

(* The worker has answered: after CLOSE it leaves its loop.                *)
AfterAnswer(w) == IF w.msg.op = "close" THEN NoWorker ELSE [NoWorker EXCEPT !.pc = "loop"]

AnswerSent(c) ==
    /\ worker[c].pc = "sent"
    /\ Polls(c, "mn", "SEND")
    /\ worker' = [worker EXCEPT ![c] = AfterAnswer(@)]
    /\ UNCHANGED <<procVars, regionVars, cn, sent, faults, up, posted, buf, dropped, histVars>>

(* The client's next request arrives before the acknowledgement of the     *)
(* last answer: td_rdma_poll_wc drops it.                                  *)
RequestDropped(c) ==
    /\ worker[c].pc = "sent"
    /\ Polls(c, "mn", "RECV")
    /\ dropped' = [dropped EXCEPT ![c] = TRUE]
    /\ UNCHANGED <<procVars, regionVars, worker, cn, sent, faults, up, posted, buf, histVars>>

(* The answer cannot be delivered: the worker leaves its loop.             *)
AnswerFails(c) ==
    /\ worker[c].pc = "sent"
    /\ cq[c]["mn"] = << >>
    /\ ~up[c]
    /\ worker' = [worker EXCEPT ![c] = NoWorker]
    /\ UNCHANGED <<procVars, regionVars, cn, sent, faults, rdmaVars, histVars>>

(* The session breaks, or the client dies; a worker that waits for         *)
(* requests is not told of either.                                         *)
RdmaLost(c) ==
    /\ cn[c].pc \in {"idle"} \cup Busy
    /\ up[c]
    /\ Fault
    /\ up' = [up EXCEPT ![c] = FALSE]
    /\ \/ UNCHANGED cn
       \/ cn' = [cn EXCEPT ![c] = Failed(@)]
    /\ UNCHANGED <<procVars, regionVars, worker, sent, cq, posted, buf, dropped, histVars>>

CardStep(c) == \E s \in Sides : Deliver(c, s) \/ Acknowledge(c, s)
RdmaWorkerStep(c) == RdmaTake(c) \/ EmptyPoll(c) \/ RdmaReply(c) \/ AnswerSent(c)
                     \/ RequestDropped(c) \/ AnswerFails(c)
RdmaCallStep(c) == SendDone(c) \/ AnswerDropped(c) \/ RdmaAnswered(c) \/ RdmaCallFails(c)
RdmaNext(c) == \/ RdmaConnect(c) \/ RdmaLost(c)
               \/ CardStep(c) \/ RdmaWorkerStep(c) \/ RdmaCallStep(c)
               \/ \E msg \in Requests : RdmaCall(c, msg)
=============================================================================
