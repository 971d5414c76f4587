------------------------------ MODULE TcpServer ------------------------------
(***************************************************************************)
(* Sessions over TCP (src/transport_tcp.c): the accept loop of             *)
(* td_tcp_server_run, the worker td_tcp_connection_main, and the client's  *)
(* side.  A socket delivers what was sent before it was closed; the first  *)
(* send to a peer that has closed succeeds and may bring back a reset.  A  *)
(* send after that reset, or after one that a receive has reported, raises *)
(* SIGPIPE, which nobody handles; a send that meets a reset nobody has     *)
(* seen yet fails and reports it.                                          *)
(***************************************************************************)
EXTENDS NodeProcess

VARIABLES conn,  \* conn[c]: "none", "backlog", "open" or "closed" at the node
          peer,  \* peer[c]: "open", or what the worker's socket has to tell of the
                 \* client's end: "fin", "rst", or "pipe": a send raises SIGPIPE
          body   \* body[c]: the bytes of c's WRITE are in the stream, behind its header

tcpVars == <<conn, peer, body>>

TcpInit == /\ conn = [c \in CN |-> "none"]
           /\ peer = [c \in CN |-> "open"]
           /\ body = [c \in CN |-> FALSE]

Listening == main = "loop"

(* td_tcp_client_connect: the kernel takes the connection before the       *)
(* server accepts it, and HELLO is sent.                                   *)
TcpConnect(c) ==
    /\ cn[c].pc = "off"
    /\ Listening
    /\ conn' = [conn EXCEPT ![c] = "backlog"]
    /\ peer' = [peer EXCEPT ![c] = "open"]
    /\ body' = [body EXCEPT ![c] = FALSE]
    /\ cn' = [cn EXCEPT ![c].pc = "answer", ![c].call = Message("hello", 0, 0, 0)]
    /\ sent' = [sent EXCEPT ![c]["cn"] = Sent(Message("hello", 0, 0, 0))]
    /\ UNCHANGED <<procVars, regionVars, worker, faults, histVars>>

(* accept: a worker is started, or the connection closed when none can be. *)
TcpAccept(c) ==
    /\ Accepted
    /\ conn[c] = "backlog"
    /\ \/ /\ conn' = [conn EXCEPT ![c] = "open"]
          /\ worker' = [worker EXCEPT ![c].pc = "loop"]
          /\ UNCHANGED faults
       \/ /\ Fault
          /\ conn' = [conn EXCEPT ![c] = "closed"]
          /\ UNCHANGED worker
    /\ UNCHANGED <<stop, thread, regionVars, cn, sent, peer, body, histVars>>

(* td_tcp_exchange up to the first send: that of the header.               *)
TcpCall(c, msg) ==
    /\ Calls(c, msg, IF msg.op = "write" THEN "send" ELSE "answer")
    /\ UNCHANGED <<procVars, regionVars, worker, faults, tcpVars, histVars>>

(* Its second send, of the bytes of a WRITE.                               *)
TcpSendBody(c) ==
    /\ cn[c].pc = "send"
    /\ cn' = [cn EXCEPT ![c].pc = "answer"]
    /\ body' = [body EXCEPT ![c] = TRUE]
    /\ UNCHANGED <<procVars, regionVars, worker, sent, faults, conn, peer, histVars>>

(* td_recv_all in the worker brings a request, or finds the stream ended;  *)
(* behind the header of a WRITE it goes on to the bytes.                   *)
TcpTake(c) ==
    /\ worker[c].pc = "recv"
    /\ \/ /\ sent[c]["cn"] # NotSent
          /\ Taken(c, sent[c]["cn"].msg, IF sent[c]["cn"].msg.op = "write" THEN "body"
                                         ELSE "serve")
          /\ sent' = [sent EXCEPT ![c]["cn"] = NotSent]
       \/ /\ sent[c]["cn"] = NotSent
          /\ peer[c] # "open"
          /\ worker' = [worker EXCEPT ![c] = NoWorker]
          /\ UNCHANGED <<sent, late>>
    /\ UNCHANGED <<procVars, regionVars, cn, faults, tcpVars, seen>>

(* td_recv_all of the bytes of a WRITE.  When the stream ends in front of  *)
(* them the answer is an error, sent to a client that has gone; a reset    *)
(* has been reported by then.                                              *)
TcpTakeBody(c) ==
    /\ worker[c].pc = "body"
    /\ \/ /\ body[c]
          /\ worker' = [worker EXCEPT ![c].pc = "serve"]
          /\ body' = [body EXCEPT ![c] = FALSE]
          /\ UNCHANGED peer
       \/ /\ ~body[c]
          /\ peer[c] # "open"
          /\ Reply(c, 0, 1)
          /\ peer' = [peer EXCEPT ![c] = IF @ = "rst" THEN "pipe" ELSE @]
          /\ UNCHANGED body
    /\ UNCHANGED <<procVars, regionVars, cn, sent, faults, conn, histVars>>

(* Mutant: every answer goes out in two parts.                             *)
AfterSend_Parts(w) ==
    IF w.pc = "reply" /\ w.msg.status = 0 THEN [w EXCEPT !.pc = "payload"]
    ELSE IF w.msg.op = "close" THEN NoWorker ELSE [NoWorker EXCEPT !.pc = "loop"]

(* The worker w has sent its answer; w has another part to send when a     *)
(* READ was served: the bytes.                                             *)
AfterSend(w) ==
    IF w.pc = "reply" /\ w.msg.op = "read" /\ w.msg.status = 0
    THEN [w EXCEPT !.pc = "payload"]
    ELSE IF w.msg.op = "close" THEN NoWorker ELSE [NoWorker EXCEPT !.pc = "loop"]

Whole(w) == AfterSend(w).pc # "payload"

(* td_send_all of the answer, or of the bytes that follow it.              *)
TcpReply(c) ==
    LET w == worker[c]
    IN  /\ Ready(c) \/ w.pc = "payload"
        /\ \/ /\ peer[c] = "open"
              /\ sent' = IF Whole(w) THEN [sent EXCEPT ![c]["mn"] = Sent(w.msg)] ELSE sent
              /\ worker' = [worker EXCEPT ![c] = AfterSend(w)]
              /\ UNCHANGED <<peer, main, thread>>
           \/ /\ peer[c] = "fin"
              /\ worker' = [worker EXCEPT ![c] = AfterSend(w)]
              /\ \E p \in {"fin", "pipe"} : peer' = [peer EXCEPT ![c] = p]
              /\ UNCHANGED <<sent, main, thread>>
           \/ /\ peer[c] = "pipe"
              /\ Kill
              /\ UNCHANGED <<peer, sent>>
           \/ /\ peer[c] = "rst"
              /\ worker' = [worker EXCEPT ![c] = NoWorker]
              /\ UNCHANGED <<peer, sent, main, thread>>
        /\ UNCHANGED <<stop, regionVars, cn, faults, conn, body, histVars>>

TcpAnswered(c) ==
    /\ cn[c].pc = "answer"
    /\ sent[c]["mn"] # NotSent
    /\ Returns(c, sent[c]["mn"].msg)
    /\ sent' = [sent EXCEPT ![c]["mn"] = NotSent]
    /\ UNCHANGED <<procVars, regionVars, worker, faults, tcpVars, late>>

(* The node's end of the connection is closed.                             *)
HungUp(c) == \/ conn[c] = "closed"
             \/ conn[c] = "open" /\ worker[c].pc = "none"
             \/ conn[c] = "backlog" /\ ~Listening

(* td_tcp_exchange fails, in a send or in a receive.                       *)
TcpCallFails(c) ==
    /\ cn[c].pc \in Busy
    /\ sent[c]["mn"] = NotSent
    /\ HungUp(c)
    /\ cn' = [cn EXCEPT ![c] = Failed(@)]
    /\ UNCHANGED <<procVars, regionVars, worker, sent, faults, tcpVars, histVars>>

(* The client dies, or the connection with it: the worker sees the end of  *)
(* the stream behind what was sent, or a reset behind what of it arrived.  *)
TcpLost(c) ==
    /\ cn[c].pc \in {"idle"} \cup Busy
    /\ Fault
    /\ cn' = [cn EXCEPT ![c] = Failed(@)]
    /\ \E p \in {"fin", "rst"} : peer' = [peer EXCEPT ![c] = p]
    /\ \/ /\ sent' = [sent EXCEPT ![c]["mn"] = NotSent]
          /\ UNCHANGED body
       \/ /\ peer'[c] = "rst"
          /\ \/ sent' = [sent EXCEPT ![c]["mn"] = NotSent]
             \/ sent' = [sent EXCEPT ![c] = [s \in Sides |-> NotSent]]
          /\ body' = [body EXCEPT ![c] = FALSE]
    /\ UNCHANGED <<procVars, regionVars, worker, conn, histVars>>

TcpWorkerStep(c) == TcpTake(c) \/ TcpTakeBody(c) \/ TcpReply(c)
TcpCallStep(c) == TcpSendBody(c) \/ TcpAnswered(c) \/ TcpCallFails(c)
TcpNext(c) == \/ TcpConnect(c) \/ TcpAccept(c) \/ TcpLost(c)
              \/ TcpWorkerStep(c) \/ TcpCallStep(c)
              \/ \E msg \in Requests : TcpCall(c, msg)
=============================================================================
