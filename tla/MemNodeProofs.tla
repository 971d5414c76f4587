---------------------------- MODULE MemNodeProofs ----------------------------
(***************************************************************************)
(* Proofs about a memory node and its clients, over either transport, for  *)
(* any number of clients, requests and failures.                           *)
(***************************************************************************)
EXTENDS MemNode, TLAPS

-----------------------------------------------------------------------------
(* The inductive invariants.                                               *)

(* The eviction thread ends between two sweeps, and the region is closed   *)
(* after it; a process that was killed does neither.                       *)
EvictInv ==
    /\ DOMAIN evict = Evictors
    /\ main = "closed" => ~mapped
    /\ ~mapped => thread = "ended" /\ evict[Thread] = "none"
    /\ thread = "ended" /\ main # "killed" => evict[Thread] = "none"

(* A worker that took a request after the flag was set does not wait for   *)
(* another one.                                                            *)
LateInv ==
    /\ DOMAIN late = CN
    /\ DOMAIN worker = CN
    /\ \A c \in CN : /\ DOMAIN worker[c] = {"pc", "msg"}
                     /\ \/ late[c] = 0
                        \/ late[c] = 1 /\ stop /\ worker[c].pc # "recv"

MsgFields == {"op", "compare", "swap", "status"}
Completions == {"SEND", "RECV"}
Holds(q, wc) == \E i \in 1 .. Len(q) : q[i] = wc
AtMostOnce(q, wc) == \A i, j \in 1 .. Len(q) : q[i] = wc /\ q[j] = wc => i = j

(* Where the one exchange of a session is: its request under way, received *)
(* by the card, or in the hands of the worker; its answer under way, or    *)
(* received by the card.                                                   *)
RequestOut(c) == sent[c]["cn"] # NotSent /\ ~sent[c]["cn"].arrived
RequestIn(c) == Holds(cq[c]["mn"], "RECV")
Serving(c) == worker[c].pc \in {"body", "serve", "reply", "payload"}
AnswerOut(c) == sent[c]["mn"] # NotSent /\ ~sent[c]["mn"].arrived
AnswerIn(c) == Holds(cq[c]["cn"], "RECV")

(* It is in one place at most, and nowhere when the client has no call.    *)
OneExchange(c) ==
    /\ RequestOut(c) => ~RequestIn(c) /\ ~Serving(c) /\ ~AnswerOut(c) /\ ~AnswerIn(c)
    /\ RequestIn(c) => ~Serving(c) /\ ~AnswerOut(c) /\ ~AnswerIn(c)
    /\ Serving(c) => ~AnswerOut(c) /\ ~AnswerIn(c)
    /\ AnswerOut(c) => ~AnswerIn(c)
    /\ cn[c].pc \in {"idle", "off"} => /\ ~RequestOut(c) /\ ~RequestIn(c) /\ ~Serving(c)
                                       /\ ~AnswerOut(c) /\ ~AnswerIn(c)

(* An answer without an error brings the word that a CAS has found.        *)
Answers(c, msg) ==
    msg.status = 0 /\ cn[c].call.op = "cas" => seen[c] # Nil /\ msg.compare = seen[c]

(* What is where: the call of the client, not served yet, or its answer.   *)
Contents(c) ==
    /\ RequestOut(c) => sent[c]["cn"].msg = cn[c].call
    /\ RequestIn(c) => buf[c]["mn"] = cn[c].call
    /\ worker[c].pc \in {"body", "serve"} => worker[c].msg = cn[c].call
    /\ RequestOut(c) \/ RequestIn(c) \/ worker[c].pc \in {"body", "serve"} => seen[c] = Nil
    /\ Serving(c) => worker[c].msg.op = cn[c].call.op /\ DOMAIN worker[c].msg = MsgFields
    /\ worker[c].pc \in {"reply", "payload"} => Answers(c, worker[c].msg)
    /\ AnswerOut(c) => Answers(c, sent[c]["mn"].msg)
    /\ AnswerIn(c) => Answers(c, buf[c]["cn"])

(* The client.                                                             *)
ClientInv(c) ==
    /\ DOMAIN cn[c] = {"pc", "call", "reply", "ops"}
    /\ DOMAIN cn[c].call = MsgFields
    /\ cn[c].call.op = "cas" => cn[c].call.compare \in Nat /\ cn[c].call.swap \in Nat
    /\ cn[c].pc \in {"idle", "off"} => cn[c].call.op = "none"
    /\ cn[c].reply.status = "cas" => cn[c].pc = "idle"
    /\ cn[c].call.op # "cas" => seen[c] = Nil

(* What the messages and the queues of a session are made of.              *)
Shape(c) ==
    /\ DOMAIN worker[c] = {"pc", "msg"}
    /\ DOMAIN sent[c] = Sides /\ DOMAIN cq[c] = Sides /\ DOMAIN buf[c] = Sides
    /\ \A s \in Sides : /\ DOMAIN sent[c][s] = {"msg", "arrived"}
                        /\ cq[c][s] \in Seq(Completions)
                        /\ AtMostOnce(cq[c][s], "RECV")
                        /\ transport = "tcp" => ~sent[c][s].arrived /\ cq[c][s] = << >>

SessionInv(c) == Shape(c) /\ ClientInv(c) /\ OneExchange(c) /\ Contents(c)

NodeShape ==
    /\ DOMAIN worker = CN /\ DOMAIN cn = CN /\ DOMAIN sent = CN /\ DOMAIN seen = CN
    /\ DOMAIN cq = CN /\ DOMAIN buf = CN
    /\ seen = [c \in CN |-> seen[c]]
    /\ word \in Nat

CasInv == NodeShape /\ \A c \in CN : SessionInv(c)

(* A send raises SIGPIPE only in a worker that has answered the client's   *)
(* last request, is about to send the bytes of a READ, or the error of a   *)
(* WRITE.                                                                  *)
ResetOK(c) ==
    /\ peer[c] # "open" => cn[c].pc = "dead" /\ transport = "tcp"
    /\ peer[c] = "pipe" => /\ ~RequestOut(c) /\ worker[c].pc \notin {"body", "serve"}
                           /\ worker[c].pc = "reply" => /\ worker[c].msg.op = "write"
                                                        /\ worker[c].msg.status = 1
    /\ worker[c].pc = "payload" => worker[c].msg.op = "read"
    /\ worker[c].pc = "body" => worker[c].msg.op = "write"

ResetInv == DOMAIN peer = CN /\ \A c \in CN : ResetOK(c)

-----------------------------------------------------------------------------
(* The eviction thread and the region.                                     *)

(* Every step keeps EvictInv.                                              *)
LEMMA EvictInvInductive == EvictInv /\ [Next]_vars => EvictInv'
<1> SUFFICES ASSUME EvictInv, [Next]_vars PROVE EvictInv'
  OBVIOUS
<1> USE DEF EvictInv
<1>1. CASE UNCHANGED <<evict, mapped, thread, main>>
  BY <1>1
<1>2. ASSUME UNCHANGED <<evict, mapped, thread>>, main' = "loop" \/ main' = "join",
             main # "killed"
      PROVE  EvictInv'
  BY <1>2
<1>3. ASSUME Kill, UNCHANGED regionVars PROVE EvictInv'
  BY <1>3 DEF Kill, regionVars
<1>4. ASSUME NEW c \in CN, Count(c), UNCHANGED <<mapped, thread, main>> PROVE EvictInv'
  BY <1>4, ThreadAssumption DEF Count, Evictors
<1>5. CASE Both(Signal \/ ServerFails \/ MainStep \/ ThreadLoop \/ OtherCas)
  <2>1. CASE Signal \/ OtherCas
    BY <1>1, <2>1 DEF Signal, OtherCas, procVars, regionVars
  <2>2. CASE ServerFails \/ ServerLoop
    BY <1>2, <2>2 DEF ServerFails, ServerLoop, regionVars
  <2>3. CASE CloseRegion
    BY <2>3 DEF CloseRegion, Joined
  <2>4. CASE Exit
    BY <2>4 DEF Exit, regionVars
  <2>5. CASE ThreadLoop
    BY <2>5, ThreadAssumption DEF ThreadLoop, Count, Evictors
  <2> QED
    BY <1>5, <2>1, <2>2, <2>3, <2>4, <2>5 DEF Both, MainStep
<1>6. ASSUME NEW e \in Evictors, Both(Sweep(e) \/ Spin(e)) PROVE EvictInv'
  <2>1. CASE Sweep(e)
    <3>1. Thread \in Evictors
      BY DEF Evictors
    <3> QED
      BY <2>1, <3>1 DEF Sweep, procVars
  <2>2. CASE Spin(e)
    BY <1>1, <2>2 DEF Spin, procVars
  <2> QED
    BY <1>6, <2>1, <2>2 DEF Both
<1>7. ASSUME NEW c \in CN, Both(ServeStep(c)) PROVE EvictInv'
  <2>1. CASE WorkerLoop(c)
    BY <1>1, <2>1 DEF WorkerLoop, procVars, regionVars
  <2>2. CASE Serve(c)
    BY <1>1, <1>4, <2>2 DEF Serve, procVars
  <2>3. CASE ServeUnmapped(c)
    BY <1>1, <1>3, <2>3 DEF ServeUnmapped, regionVars
  <2> QED
    BY <1>7, <2>1, <2>2, <2>3 DEF Both, ServeStep
<1>8. ASSUME NEW c \in CN, OverTcp(TcpNext(c)) PROVE EvictInv'
  <2>1. CASE TcpAccept(c)
    BY <1>2, <2>1 DEF TcpAccept, Accepted, regionVars
  <2>2. CASE TcpReply(c)
    BY <1>1, <1>3, <2>2 DEF TcpReply, regionVars
  <2>3. CASE TcpConnect(c) \/ TcpLost(c) \/ TcpTake(c) \/ TcpTakeBody(c) \/ TcpCallStep(c)
    BY <1>1, <2>3 DEF TcpConnect, TcpLost, TcpTake, TcpTakeBody, TcpCallStep, TcpSendBody,
                      TcpAnswered, TcpCallFails, procVars, regionVars
  <2>4. ASSUME NEW msg \in Requests, TcpCall(c, msg) PROVE EvictInv'
    BY <1>1, <2>4 DEF TcpCall, procVars, regionVars
  <2> QED
    BY <1>8, <2>1, <2>2, <2>3, <2>4 DEF OverTcp, TcpNext, TcpWorkerStep
<1>9. ASSUME NEW c \in CN, OverRdma(RdmaNext(c)) PROVE EvictInv'
  <2>1. CASE RdmaConnect(c)
    BY <1>2, <2>1 DEF RdmaConnect, Accepted, regionVars
  <2>2. CASE RdmaLost(c) \/ RdmaCallStep(c)
    BY <1>1, <2>2 DEF RdmaLost, RdmaCallStep, SendDone, AnswerDropped, RdmaAnswered,
                      RdmaCallFails, procVars, regionVars
  <2>3. CASE RdmaWorkerStep(c)
    BY <1>1, <2>3 DEF RdmaWorkerStep, RdmaTake, EmptyPoll, RdmaReply, AnswerSent,
                      RequestDropped, AnswerFails, procVars, regionVars
  <2>4. CASE CardStep(c)
    BY <1>1, <2>4 DEF CardStep, Deliver, Acknowledge, procVars, regionVars
  <2>5. ASSUME NEW msg \in Requests, RdmaCall(c, msg) PROVE EvictInv'
    BY <1>1, <2>5 DEF RdmaCall, procVars, regionVars
  <2> QED
    BY <1>9, <2>1, <2>2, <2>3, <2>4, <2>5 DEF OverRdma, RdmaNext
<1>10. CASE UNCHANGED vars
  BY <1>1, <1>10 DEF vars, nodeVars, procVars, regionVars
<1> QED
  BY <1>5, <1>6, <1>7, <1>8, <1>9, <1>10 DEF Next

(* The eviction thread is never in a region that main has unmapped: of all *)
(* threads of the node it is the one that main joins before                *)
(* td_region_close, and it looks at the flag between two sweeps only.      *)
THEOREM EvictorNeverUnmapped == Spec => []EvictorSafe
<1>1. Init => EvictInv
  BY DEF Init, NodeInit, EvictInv, Evictors
<1>2. EvictInv => EvictorSafe
  BY DEF EvictInv, EvictorSafe
<1> QED
  BY <1>1, <1>2, EvictInvInductive, PTL DEF Spec

-----------------------------------------------------------------------------
(* Requests that are taken after the flag is set.                          *)

(* Every step keeps LateInv.                                               *)
LEMMA LateInvInductive == LateInv /\ [Next]_vars => LateInv'
<1> SUFFICES ASSUME LateInv, [Next]_vars PROVE LateInv'
  OBVIOUS
<1>1. CASE UNCHANGED <<late, worker>> /\ (stop => stop')
  BY <1>1 DEF LateInv
<1>2. ASSUME NEW c \in CN, UNCHANGED <<late, stop>>, DOMAIN worker' = CN,
             DOMAIN worker'[c] = {"pc", "msg"}, worker'[c].pc # "recv", \A d \in CN : d # c => worker'[d] = worker[d]
      PROVE  LateInv'
  BY <1>2 DEF LateInv
<1>3. ASSUME worker' = [c \in CN |-> NoWorker], UNCHANGED <<late, stop>> PROVE LateInv'
  BY <1>3 DEF LateInv, NoWorker
<1>4. ASSUME NEW c \in CN, NEW msg, NEW pc, pc # "recv", worker[c].pc = "recv",
             Taken(c, msg, pc), stop' = stop
      PROVE  LateInv'
  BY <1>4 DEF LateInv, Taken
<1>5. CASE Both(Signal \/ ServerFails \/ MainStep \/ ThreadLoop \/ OtherCas)
  <2>1. CASE Signal \/ OtherCas \/ ServerFails \/ ServerLoop \/ CloseRegion \/ ThreadLoop
    BY <1>1, <2>1 DEF Signal, OtherCas, ServerFails, ServerLoop, CloseRegion, ThreadLoop,
                      procVars, histVars
  <2>2. CASE Exit
    BY <1>3, <2>2 DEF Exit, histVars
  <2> QED
    BY <1>5, <2>1, <2>2 DEF Both, MainStep
<1>6. ASSUME NEW e \in Evictors, Both(Sweep(e) \/ Spin(e)) PROVE LateInv'
  BY <1>1, <1>6 DEF Both, Sweep, Spin, procVars, histVars
<1>7. ASSUME NEW c \in CN, Both(ServeStep(c)) PROVE LateInv'
  <2>1. CASE WorkerLoop(c)
    <3>1. /\ worker' = [worker EXCEPT ![c] = IF stop THEN NoWorker
                                             ELSE [worker[c] EXCEPT !.pc = "recv"]]
          /\ UNCHANGED <<late, stop>>
      BY <2>1 DEF WorkerLoop, WorkerStops, procVars, histVars, LateInv
    <3>2. CASE stop
      BY <1>2, <3>1, <3>2 DEF LateInv, NoWorker
    <3>3. CASE ~stop
      BY <3>1, <3>3 DEF LateInv
    <3> QED
      BY <3>2, <3>3
  <2>2. ASSUME NEW compare, NEW status, Reply(c, compare, status), worker[c].pc # "recv",
               UNCHANGED <<late, stop>>
        PROVE  LateInv'
    BY <2>2 DEF Reply, LateInv
  <2>3. CASE Serve(c)
    BY <2>2, <2>3 DEF Serve, procVars
  <2>4. CASE ServeUnmapped(c)
    BY <1>3, <2>2, <2>4 DEF ServeUnmapped, Kill, histVars
  <2> QED
    BY <1>7, <2>1, <2>3, <2>4 DEF Both, ServeStep
<1>8. ASSUME NEW c \in CN, OverTcp(TcpNext(c)) PROVE LateInv'
  <2>1. CASE TcpAccept(c)
    BY <1>1, <1>2, <2>1 DEF TcpAccept, histVars, LateInv
  <2>2. CASE TcpReply(c)
    <3>1. AfterSend(worker[c]).pc # "recv" /\ DOMAIN AfterSend(worker[c]) = {"pc", "msg"}
      BY <2>2 DEF AfterSend, NoWorker, TcpReply, Ready, LateInv
    <3> QED
      BY <1>2, <1>3, <2>2, <3>1 DEF TcpReply, Kill, histVars, LateInv, NoWorker
  <2>3. CASE TcpTake(c)
    <3>1. (IF sent[c]["cn"].msg.op = "write" THEN "body" ELSE "serve") # "recv"
      OBVIOUS
    <3>2. CASE Taken(c, sent[c]["cn"].msg,
                     IF sent[c]["cn"].msg.op = "write" THEN "body" ELSE "serve")
      BY <1>4, <2>3, <3>1, <3>2 DEF TcpTake, procVars
    <3>3. CASE worker' = [worker EXCEPT ![c] = NoWorker] /\ UNCHANGED late
      BY <1>2, <2>3, <3>3 DEF TcpTake, procVars, LateInv, NoWorker
    <3> QED
      BY <2>3, <3>2, <3>3 DEF TcpTake
  <2>4. CASE TcpTakeBody(c)
    <3>1. UNCHANGED <<late, stop>> /\ worker[c].pc # "recv"
      BY <2>4 DEF TcpTakeBody, procVars, histVars
    <3>2. CASE worker' = [worker EXCEPT ![c].pc = "serve"]
      BY <1>2, <3>1, <3>2 DEF LateInv
    <3>3. CASE Reply(c, 0, 1)
      BY <1>2, <3>1, <3>3 DEF LateInv, Reply
    <3> QED
      BY <2>4, <3>2, <3>3 DEF TcpTakeBody
  <2>5. CASE TcpConnect(c) \/ TcpLost(c) \/ TcpCallStep(c)
    BY <1>1, <2>5 DEF TcpConnect, TcpLost, TcpCallStep, TcpSendBody, TcpAnswered, TcpCallFails,
                      procVars, histVars
  <2>6. ASSUME NEW msg \in Requests, TcpCall(c, msg) PROVE LateInv'
    BY <1>1, <2>6 DEF TcpCall, procVars, histVars
  <2> QED
    BY <1>8, <2>1, <2>2, <2>3, <2>4, <2>5, <2>6 DEF OverTcp, TcpNext, TcpWorkerStep
<1>9. ASSUME NEW c \in CN, OverRdma(RdmaNext(c)) PROVE LateInv'
  <2>1. CASE RdmaConnect(c)
    BY <1>2, <2>1 DEF RdmaConnect, histVars, LateInv
  <2>2. CASE RdmaLost(c) \/ RdmaCallStep(c)
    BY <1>1, <2>2 DEF RdmaLost, RdmaCallStep, SendDone, AnswerDropped, RdmaAnswered,
                      RdmaCallFails, procVars, histVars
  <2>3. CASE RdmaTake(c)
    <3>1. "serve" # "recv"
      OBVIOUS
    <3> QED
      BY <1>4, <2>3, <3>1 DEF RdmaTake, procVars
  <2>4. CASE EmptyPoll(c) \/ RdmaReply(c) \/ AnswerFails(c)
    BY <1>2, <2>4 DEF EmptyPoll, RdmaReply, AnswerFails, procVars, histVars, LateInv, NoWorker
  <2>5. CASE AnswerSent(c)
    BY <1>2, <2>5 DEF AnswerSent, AfterAnswer, procVars, histVars, LateInv, NoWorker
  <2>6. CASE RequestDropped(c)
    BY <1>1, <2>6 DEF RequestDropped, procVars, histVars
  <2>7. CASE CardStep(c)
    BY <1>1, <2>7 DEF CardStep, Deliver, Acknowledge, procVars, histVars
  <2>8. ASSUME NEW msg \in Requests, RdmaCall(c, msg) PROVE LateInv'
    BY <1>1, <2>8 DEF RdmaCall, procVars, histVars
  <2> QED
    BY <1>9, <2>1, <2>2, <2>3, <2>4, <2>5, <2>6, <2>7, <2>8
       DEF OverRdma, RdmaNext, RdmaWorkerStep
<1>10. CASE UNCHANGED vars
  BY <1>1, <1>10 DEF vars, nodeVars, procVars, histVars
<1> QED
  BY <1>5, <1>6, <1>7, <1>8, <1>9, <1>10 DEF Next

(* A detached worker serves at most one request after the stop flag was    *)
(* set, over either transport: the head of its loop is the only place      *)
(* where it looks at the flag, and it is there before every receive.       *)
THEOREM AtMostOneAfterStop == Spec => []OneRequestAfterStop
<1>1. Init => LateInv
  BY DEF Init, NodeInit, LateInv, NoWorker
<1>2. LateInv => OneRequestAfterStop
  BY DEF LateInv, OneRequestAfterStop
<1> QED
  BY <1>1, <1>2, LateInvInductive, PTL DEF Spec

-----------------------------------------------------------------------------
(* Completion queues.                                                      *)

(* A queue that is added to.                                               *)
LEMMA QueueAppend ==
  ASSUME NEW q \in Seq(Completions), NEW wc \in Completions, AtMostOnce(q, "RECV"),
         wc = "RECV" => ~Holds(q, "RECV")
  PROVE  /\ Append(q, wc) \in Seq(Completions)
         /\ AtMostOnce(Append(q, wc), "RECV")
         /\ wc = "SEND" /\ Holds(Append(q, wc), "RECV") => Holds(q, "RECV")
  BY DEF Completions, AtMostOnce, Holds

(* A queue whose first completion is taken.                                *)
LEMMA QueueTail ==
  ASSUME NEW q \in Seq(Completions), q # << >>, AtMostOnce(q, "RECV")
  PROVE  /\ Tail(q) \in Seq(Completions)
         /\ AtMostOnce(Tail(q), "RECV")
         /\ Holds(Tail(q), "RECV") => Holds(q, "RECV") /\ Head(q) # "RECV"
         /\ Head(q) = "RECV" => Holds(q, "RECV")
<1>1. Tail(q) \in Seq(Completions) /\ Len(q) \in Nat \ {0} /\ Len(Tail(q)) = Len(q) - 1
  OBVIOUS
<1>2. ASSUME NEW i \in 1 .. Len(Tail(q)) PROVE Tail(q)[i] = q[i + 1] /\ i + 1 \in 1 .. Len(q)
  BY <1>1
<1>3. Head(q) = q[1] /\ 1 \in 1 .. Len(q)
  BY <1>1
<1>4. AtMostOnce(Tail(q), "RECV")
  <2> SUFFICES ASSUME NEW i \in 1 .. Len(Tail(q)), NEW j \in 1 .. Len(Tail(q)),
                      Tail(q)[i] = "RECV", Tail(q)[j] = "RECV"
               PROVE  i = j
    BY DEF AtMostOnce
  <2>1. i + 1 = j + 1
    BY <1>2 DEF AtMostOnce
  <2> QED
    BY <1>1, <2>1
<1>5. ASSUME Holds(Tail(q), "RECV") PROVE Holds(q, "RECV") /\ Head(q) # "RECV"
  <2>1. PICK i \in 1 .. Len(Tail(q)) : Tail(q)[i] = "RECV"
    BY <1>5 DEF Holds
  <2>2. q[i + 1] = "RECV" /\ i + 1 \in 1 .. Len(q) /\ i + 1 # 1
    BY <1>1, <1>2, <2>1
  <2> QED
    BY <1>3, <2>2 DEF Holds, AtMostOnce
<1> QED
  BY <1>1, <1>3, <1>4, <1>5 DEF Holds

(* An empty queue.                                                         *)
LEMMA QueueEmpty ==
  << >> \in Seq(Completions) /\ AtMostOnce(<< >>, "RECV") /\ ~Holds(<< >>, "RECV")
  BY DEF AtMostOnce, Holds

-----------------------------------------------------------------------------
(* One exchange at a time, and what it carries: CasInv is inductive.       *)

(* The step touches no session but c.                                      *)
Only(c) ==
    /\ NodeShape'
    /\ transport' = transport
    /\ \A d \in CN \ {c} :
          /\ worker'[d] = worker[d] /\ cn'[d] = cn[d] /\ sent'[d] = sent[d]
          /\ seen'[d] = seen[d] /\ cq'[d] = cq[d] /\ buf'[d] = buf[d]

(* The session c takes a step, the others are as they were.                *)
LEMMA OneSession ==
  ASSUME CasInv, NEW c \in CN, Only(c), SessionInv(c)'
  PROVE  CasInv'
<1> SUFFICES ASSUME NEW d \in CN \ {c} PROVE SessionInv(d)'
  BY DEF CasInv, Only
<1>1. SessionInv(d)
  BY DEF CasInv
<1>2. /\ worker'[d] = worker[d] /\ cn'[d] = cn[d] /\ sent'[d] = sent[d]
      /\ seen'[d] = seen[d] /\ cq'[d] = cq[d] /\ buf'[d] = buf[d]
      /\ transport' = transport
  BY DEF Only
<1> QED
  BY <1>1, <1>2 DEF SessionInv, Shape, ClientInv, OneExchange, Contents, Answers,
        RequestOut, RequestIn, Serving, AnswerOut, AnswerIn

(* Nothing that CasInv speaks of changes but the word.                     *)
LEMMA NoSession ==
  ASSUME CasInv, word' \in Nat, UNCHANGED <<worker, cn, sent, seen, cq, buf, transport>>
  PROVE  CasInv'
  BY DEF CasInv, NodeShape, SessionInv, Shape, ClientInv, OneExchange, Contents, Answers,
        RequestOut, RequestIn, Serving, AnswerOut, AnswerIn

(* Workers end, or go to where they serve nothing.                         *)
LEMMA WorkersRest ==
  ASSUME CasInv, UNCHANGED <<word, cn, sent, seen, cq, buf, transport>>, DOMAIN worker' = CN,
         \A d \in CN : worker'[d] # worker[d] => /\ DOMAIN worker'[d] = {"pc", "msg"}
                                                 /\ ~Serving(d)'
  PROVE  CasInv'
<1>1. ASSUME NEW d \in CN PROVE SessionInv(d)'
  <2>1. SessionInv(d)
    BY DEF CasInv
  <2>2. CASE worker'[d] = worker[d]
    BY <2>1, <2>2 DEF SessionInv, Shape, ClientInv, OneExchange, Contents, Answers,
                      RequestOut, RequestIn, Serving, AnswerOut, AnswerIn
  <2>3. CASE worker'[d] # worker[d]
    BY <2>1, <2>3 DEF SessionInv, Shape, ClientInv, OneExchange, Contents, Answers,
                      RequestOut, RequestIn, Serving, AnswerOut, AnswerIn
  <2> QED
    BY <2>2, <2>3
<1> QED
  BY <1>1 DEF CasInv, NodeShape

(* A client issues a request, or sends HELLO on a new connection.          *)
LEMMA CallKeepsSession ==
  ASSUME NEW c \in CN, NEW msg, SessionInv(c), Shape(c)',
         cn[c].pc \in {"idle", "off"}, DOMAIN cn'[c] = {"pc", "call", "reply", "ops"},
         cn'[c].pc \in Busy, cn'[c].call = msg, cn'[c].reply.status # "cas",
         DOMAIN msg = MsgFields,
         msg.op = "cas" => msg.compare \in Nat /\ msg.swap \in Nat,
         sent'[c]["cn"] = Sent(msg), seen'[c] = seen[c],
         ~RequestIn(c)', ~Serving(c)', ~AnswerOut(c)', ~AnswerIn(c)'
  PROVE  SessionInv(c)'
<1>1. seen[c] = Nil
  BY DEF SessionInv, ClientInv
<1>2. ClientInv(c)'
  BY <1>1 DEF ClientInv, Busy
<1>3. OneExchange(c)'
  BY DEF OneExchange, Busy
<1>4. sent'[c]["cn"].msg = msg /\ ~Serving(c)'
  BY DEF Sent
<1>5. Contents(c)'
  BY <1>1, <1>4 DEF Contents, Serving
<1> QED
  BY <1>2, <1>3, <1>5 DEF SessionInv

(* A client takes an answer.                                               *)
LEMMA AnswerKeepsSession ==
  ASSUME NEW c \in CN, NEW msg, SessionInv(c), Shape(c)', cn[c].pc = "answer",
         cn'[c] = Answered(cn[c], msg),
         seen'[c] = IF msg.status = 0 THEN Nil ELSE seen[c],
         ~RequestOut(c)', ~RequestIn(c)', ~Serving(c)', ~AnswerOut(c)', ~AnswerIn(c)'
  PROVE  SessionInv(c)'
<1>1. ClientInv(c)
  BY DEF SessionInv
<1>2. ClientInv(c)'
  <2>1. CASE msg.status # 0
    <3>1. cn'[c] = [cn[c] EXCEPT !.pc = "dead", !.reply = Outcome("failed", 0)]
      BY <2>1 DEF Answered, Failed
    <3>2. /\ DOMAIN cn'[c] = {"pc", "call", "reply", "ops"} /\ cn'[c].pc = "dead"
          /\ cn'[c].call = cn[c].call /\ cn'[c].reply.status = "failed" /\ seen'[c] = seen[c]
      BY <1>1, <2>1, <3>1 DEF ClientInv, Outcome
    <3> QED
      BY <1>1, <3>2 DEF ClientInv
  <2>2. CASE msg.status = 0 /\ cn[c].call.op = "close"
    <3>1. cn'[c] = [Off EXCEPT !.ops = cn[c].ops]
      BY <2>2 DEF Answered
    <3>2. /\ DOMAIN cn'[c] = {"pc", "call", "reply", "ops"} /\ cn'[c].pc = "off"
          /\ cn'[c].call = NoMessage /\ cn'[c].reply.status = "none" /\ seen'[c] = Nil
      BY <2>2, <3>1 DEF Off, Outcome
    <3> QED
      BY <3>2 DEF ClientInv, NoMessage, Message, MsgFields
  <2>3. CASE msg.status = 0 /\ cn[c].call.op # "close"
    <3>1. cn'[c] = [cn[c] EXCEPT !.pc = "idle", !.call = NoMessage,
                                 !.reply = Outcome(cn[c].call.op, msg.compare)]
      BY <2>3 DEF Answered
    <3>2. /\ DOMAIN cn'[c] = {"pc", "call", "reply", "ops"} /\ cn'[c].pc = "idle"
          /\ cn'[c].call = NoMessage /\ seen'[c] = Nil
      BY <1>1, <2>3, <3>1 DEF ClientInv
    <3> QED
      BY <3>2 DEF ClientInv, NoMessage, Message, MsgFields
  <2> QED
    BY <2>1, <2>2, <2>3
<1>3. OneExchange(c)'
  BY DEF OneExchange
<1>4. Contents(c)'
  BY DEF Contents, Serving
<1> QED
  BY <1>2, <1>3, <1>4 DEF SessionInv

(* A client dies or gives its session up; what it has sent may be lost,    *)
(* and what was sent to it.                                                *)
LEMMA FailKeepsSession ==
  ASSUME NEW c \in CN, SessionInv(c), Shape(c)', cn'[c] = Failed(cn[c]),
         worker'[c] = worker[c], seen'[c] = seen[c], cq'[c] = cq[c], buf'[c] = buf[c],
         \A s \in Sides : sent'[c][s] \in {sent[c][s], NotSent}
  PROVE  SessionInv(c)'
<1>1. /\ DOMAIN cn'[c] = {"pc", "call", "reply", "ops"} /\ cn'[c].pc = "dead"
      /\ cn'[c].call = cn[c].call /\ cn'[c].reply.status = "failed"
  BY DEF SessionInv, ClientInv, Failed, Outcome
<1>2. ClientInv(c)'
  BY <1>1 DEF SessionInv, ClientInv
<1>3. /\ RequestOut(c)' => RequestOut(c) /\ sent'[c]["cn"] = sent[c]["cn"]
      /\ AnswerOut(c)' => AnswerOut(c) /\ sent'[c]["mn"] = sent[c]["mn"]
      /\ RequestIn(c)' = RequestIn(c) /\ AnswerIn(c)' = AnswerIn(c) /\ Serving(c)' = Serving(c)
  BY DEF RequestOut, AnswerOut, RequestIn, AnswerIn, Serving, Sides
<1>4. OneExchange(c)'
  BY <1>1, <1>3 DEF SessionInv, OneExchange
<1>5. Contents(c)'
  BY <1>1, <1>3 DEF SessionInv, Contents, Answers
<1> QED
  BY <1>2, <1>4, <1>5 DEF SessionInv

(* The worker takes the request.                                           *)
LEMMA TakeKeepsSession ==
  ASSUME NEW c \in CN, NEW msg, NEW pc \in {"body", "serve"},
         SessionInv(c), Shape(c)', Taken(c, msg, pc), DOMAIN worker = CN,
         msg = cn[c].call, seen[c] = Nil, cn[c].pc \notin {"idle", "off"},
         cn'[c] = cn[c], seen'[c] = seen[c],
         ~RequestOut(c)', ~RequestIn(c)', ~AnswerOut(c)', ~AnswerIn(c)'
  PROVE  SessionInv(c)'
<1>1. worker'[c].pc = pc /\ worker'[c].msg = msg
  BY DEF Taken
<1>2. ClientInv(c)'
  BY DEF SessionInv, ClientInv
<1>3. OneExchange(c)'
  BY DEF OneExchange
<1>4. Contents(c)'
  BY <1>1 DEF Contents, SessionInv, ClientInv
<1> QED
  BY <1>2, <1>3, <1>4 DEF SessionInv

(* The worker has its answer ready.                                        *)
LEMMA ReplyKeepsSession ==
  ASSUME NEW c \in CN, NEW compare, NEW status, SessionInv(c), DOMAIN worker = CN,
         Reply(c, compare, status), Serving(c),
         UNCHANGED <<cn, sent, cq, buf, transport>>,
         status = 0 /\ cn[c].call.op = "cas" => seen'[c] # Nil /\ compare = seen'[c],
         cn[c].call.op # "cas" => seen'[c] = seen[c]
  PROVE  SessionInv(c)'
<1>1. Shape(c) /\ ClientInv(c) /\ OneExchange(c) /\ Contents(c)
  BY DEF SessionInv
<1>2. DOMAIN worker[c] = {"pc", "msg"} /\ DOMAIN worker[c].msg = MsgFields
  BY <1>1 DEF Shape, Contents
<1>3. /\ DOMAIN worker'[c] = {"pc", "msg"} /\ DOMAIN worker'[c].msg = MsgFields
      /\ worker'[c].pc = "reply" /\ worker'[c].msg.op = worker[c].msg.op
      /\ worker'[c].msg.compare = compare /\ worker'[c].msg.status = status
  BY <1>2 DEF Reply, MsgFields
<1>4. /\ ~RequestOut(c) /\ ~RequestIn(c) /\ ~AnswerOut(c) /\ ~AnswerIn(c)
      /\ cn[c].pc \notin {"idle", "off"} /\ worker[c].msg.op = cn[c].call.op
  BY <1>1 DEF OneExchange, Contents
<1>5. ~RequestOut(c)' /\ ~RequestIn(c)' /\ ~AnswerOut(c)' /\ ~AnswerIn(c)'
  BY <1>4 DEF RequestOut, RequestIn, AnswerOut, AnswerIn
<1>6. Shape(c)'
  BY <1>1, <1>3 DEF Shape
<1>7. ClientInv(c)'
  BY <1>1 DEF ClientInv
<1>8. OneExchange(c)'
  BY <1>4, <1>5 DEF OneExchange
<1>9. Contents(c)'
  BY <1>3, <1>4, <1>5 DEF Contents, Answers
<1> QED
  BY <1>6, <1>7, <1>8, <1>9 DEF SessionInv

(* The steps of a worker that serves.                                      *)
LEMMA ServeStepKeepsCasInv ==
  ASSUME CasInv, NEW c \in CN, ServeStep(c), UNCHANGED <<cq, buf, transport>>
  PROVE  CasInv'
<1>1. NodeShape /\ SessionInv(c)
  BY DEF CasInv
<1>2. CASE WorkerLoop(c)
  <2>1. DOMAIN worker[c] = {"pc", "msg"}
    BY <1>1 DEF SessionInv, Shape
  <2>2. UNCHANGED <<word, cn, sent, seen>> /\ DOMAIN worker' = CN
    BY <1>1, <1>2 DEF WorkerLoop, regionVars, histVars, NodeShape
  <2>3. /\ DOMAIN worker'[c] = {"pc", "msg"} /\ worker'[c].pc \in {"none", "recv"}
        /\ \A d \in CN : d # c => worker'[d] = worker[d]
    BY <1>1, <1>2, <2>1 DEF WorkerLoop, NoWorker, NodeShape
  <2> QED
    BY <2>2, <2>3, WorkersRest DEF Serving
<1>3. ASSUME NEW compare, NEW status, Reply(c, compare, status), Serving(c),
             UNCHANGED <<cn, sent>>, word' \in Nat, seen' = [d \in CN |-> seen'[d]],
             \A d \in CN \ {c} : seen'[d] = seen[d],
             status = 0 /\ cn[c].call.op = "cas" => seen'[c] # Nil /\ compare = seen'[c],
             cn[c].call.op # "cas" => seen'[c] = seen[c]
      PROVE  CasInv'
  <2>1. SessionInv(c)'
    BY <1>1, <1>3, ReplyKeepsSession DEF NodeShape
  <2>2. Only(c)
    BY <1>1, <1>3 DEF Only, NodeShape, Reply
  <2> QED
    BY <2>1, <2>2, OneSession
<1>4. Contents(c) /\ ClientInv(c)
  BY <1>1 DEF SessionInv
<1>5. CASE Serve(c)
  <2>1. Serving(c) /\ worker[c].msg = cn[c].call /\ UNCHANGED <<cn, sent>>
    BY <1>4, <1>5 DEF Serve, Serving, Contents
  <2>2. CASE cn[c].call.op = "cas"
    <3>1. /\ word' = td_region_cas64(worker[c].msg) /\ seen' = [seen EXCEPT ![c] = word]
          /\ Reply(c, word, 0)
      BY <1>5, <2>1, <2>2 DEF Serve
    <3>2. word' \in Nat
      BY <1>1, <1>4, <2>1, <2>2, <3>1 DEF td_region_cas64, NodeShape, ClientInv
    <3>3. word # Nil
      BY <1>1, NilAssumption DEF NodeShape
    <3> QED
      BY <1>1, <1>3, <2>1, <2>2, <3>1, <3>2, <3>3 DEF NodeShape
  <2>3. CASE cn[c].call.op # "cas"
    <3>1. UNCHANGED <<word, seen>> /\ Reply(c, 0, 0)
      BY <1>5, <2>1, <2>3 DEF Serve
    <3> QED
      BY <1>1, <1>3, <2>1, <2>3, <3>1 DEF NodeShape
  <2> QED
    BY <2>2, <2>3
<1>6. CASE ServeUnmapped(c)
  <2>1. Serving(c) /\ worker[c].msg.op = cn[c].call.op /\ UNCHANGED <<word, cn, sent, seen>>
    BY <1>4, <1>6 DEF ServeUnmapped, Serving, Contents, regionVars, histVars
  <2>2. CASE Kill
    <3>1. worker' = [d \in CN |-> NoWorker]
      BY <2>2 DEF Kill
    <3> QED
      BY <2>1, <3>1, WorkersRest DEF NoWorker, Serving
  <2>3. CASE Reply(c, 0, IF worker[c].msg.op = "close" THEN 0 ELSE 1)
    BY <1>1, <1>3, <2>1, <2>3 DEF NodeShape
  <2> QED
    BY <1>6, <2>2, <2>3 DEF ServeUnmapped
<1> QED
  BY <1>2, <1>5, <1>6 DEF ServeStep

(* A request is a message, and that of a CAS compares and swaps numbers.   *)
LEMMA RequestShape ==
  ASSUME NEW msg \in Requests
  PROVE  /\ DOMAIN msg = MsgFields
         /\ msg.op = "cas" => msg.compare \in 0 .. MaxWord - 1 /\ msg.swap = msg.compare + 1
<1>1. CASE \E e \in 0 .. MaxWord - 1 : msg = Message("cas", e, e + 1, 0)
  BY <1>1 DEF Message, MsgFields
<1>2. CASE \E op \in {"read", "write", "evict", "close"} : msg = Message(op, 0, 0, 0)
  BY <1>2 DEF Message, MsgFields
<1> QED
  BY <1>1, <1>2 DEF Requests

(* A client that calls, over either transport.                             *)
LEMMA CallsKeepCasInv ==
  ASSUME CasInv, NEW c \in CN, NEW msg \in Requests, NEW pc \in Busy, Calls(c, msg, pc),
         UNCHANGED <<word, worker, seen, cq, buf, transport>>
  PROVE  CasInv'
<1>1. NodeShape /\ Shape(c) /\ OneExchange(c) /\ SessionInv(c)
  BY DEF CasInv, SessionInv
<1>2. /\ cn' = [cn EXCEPT ![c] = [Off EXCEPT !.pc = pc, !.call = msg,
                                  !.ops = IF msg.op = "close" THEN cn[c].ops
                                           ELSE cn[c].ops + 1]]
      /\ sent' = [sent EXCEPT ![c]["cn"] = Sent(msg)]
      /\ cn[c].pc = "idle"
  BY DEF Calls
<1>3. /\ DOMAIN cn'[c] = {"pc", "call", "reply", "ops"} /\ cn'[c].pc = pc
      /\ cn'[c].call = msg /\ cn'[c].reply.status # "cas"
  BY <1>1, <1>2 DEF Off, Outcome, NodeShape
<1>4. /\ DOMAIN sent'[c] = Sides /\ sent'[c]["cn"] = Sent(msg)
      /\ sent'[c]["mn"] = sent[c]["mn"]
  BY <1>1, <1>2 DEF NodeShape, Shape, Sides
<1>5. Shape(c)'
  BY <1>1, <1>4 DEF Shape, Sides, Sent
<1>6. ~RequestIn(c)' /\ ~Serving(c)' /\ ~AnswerOut(c)' /\ ~AnswerIn(c)'
  BY <1>1, <1>2, <1>4 DEF OneExchange, RequestIn, Serving, AnswerOut, AnswerIn
<1>7. /\ DOMAIN msg = MsgFields
      /\ msg.op = "cas" => msg.compare \in Nat /\ msg.swap \in Nat
  BY RequestShape
<1>8. SessionInv(c)'
  BY <1>1, <1>2, <1>3, <1>4, <1>5, <1>6, <1>7, CallKeepsSession
<1>9. Only(c)
  BY <1>1, <1>2 DEF Only, NodeShape
<1> QED
  BY <1>8, <1>9, OneSession

(* A step after which the exchange is where it was, or nowhere.            *)
LEMMA LessKeepsSession ==
  ASSUME NEW c \in CN, SessionInv(c), Shape(c)', ClientInv(c)',
         cn'[c].call = cn[c].call,
         cn'[c].pc \in {"idle", "off"} => cn[c].pc \in {"idle", "off"},
         seen'[c] = seen[c], buf'[c] = buf[c],
         RequestOut(c)' => RequestOut(c) /\ sent'[c]["cn"].msg = sent[c]["cn"].msg,
         AnswerOut(c)' => AnswerOut(c) /\ sent'[c]["mn"].msg = sent[c]["mn"].msg,
         RequestIn(c)' => RequestIn(c),
         AnswerIn(c)' => AnswerIn(c),
         Serving(c)' => Serving(c) /\ worker'[c] = worker[c]
  PROVE  SessionInv(c)'
<1>1. OneExchange(c)'
  BY DEF SessionInv, OneExchange
<1>2. worker'[c].pc \in {"body", "serve", "reply", "payload"} => worker'[c] = worker[c]
  BY DEF Serving
<1>3. Contents(c)'
  BY <1>2 DEF SessionInv, Contents, Answers
<1> QED
  BY <1>1, <1>3 DEF SessionInv

(* The steps over TCP.                                                     *)
LEMMA TcpKeepsCasInv ==
  ASSUME CasInv, NEW c \in CN, OverTcp(TcpNext(c))
  PROVE  CasInv'
<1>1. NodeShape /\ Shape(c) /\ ClientInv(c) /\ OneExchange(c) /\ Contents(c) /\ SessionInv(c)
  BY DEF CasInv, SessionInv
<1>2. UNCHANGED <<cq, buf, transport>> /\ transport = "tcp"
  BY DEF OverTcp, rdmaVars
<1>3. DOMAIN worker[c] = {"pc", "msg"} /\ DOMAIN sent[c] = Sides
  BY <1>1 DEF Shape
<1>4. CASE TcpConnect(c)
  <2> DEFINE hello == Message("hello", 0, 0, 0)
  <2>1. /\ cn' = [cn EXCEPT ![c].pc = "answer", ![c].call = hello]
        /\ sent' = [sent EXCEPT ![c]["cn"] = Sent(hello)]
        /\ cn[c].pc = "off" /\ UNCHANGED <<word, worker, seen>>
    BY <1>4 DEF TcpConnect, regionVars, histVars
  <2>2. DOMAIN hello = MsgFields /\ hello.op = "hello"
    BY DEF Message, MsgFields
  <2> HIDE DEF hello
  <2>3. /\ DOMAIN cn'[c] = {"pc", "call", "reply", "ops"} /\ cn'[c].pc = "answer"
        /\ cn'[c].call = hello /\ cn'[c].reply = cn[c].reply
    BY <1>1, <2>1 DEF NodeShape, ClientInv
  <2>4. /\ DOMAIN sent'[c] = Sides /\ sent'[c]["cn"] = Sent(hello)
        /\ sent'[c]["mn"] = sent[c]["mn"]
    BY <1>1, <1>3, <2>1 DEF NodeShape, Sides
  <2>5. Shape(c)'
    BY <1>1, <1>2, <2>1, <2>4 DEF Shape, Sides, Sent
  <2>6. ~RequestIn(c)' /\ ~Serving(c)' /\ ~AnswerOut(c)' /\ ~AnswerIn(c)'
    BY <1>1, <1>2, <2>1, <2>4 DEF OneExchange, RequestIn, Serving, AnswerOut, AnswerIn
  <2>7. cn'[c].reply.status # "cas"
    BY <1>1, <2>1, <2>3 DEF ClientInv
  <2>8. SessionInv(c)'
    BY <1>1, <2>1, <2>2, <2>3, <2>4, <2>5, <2>6, <2>7, CallKeepsSession DEF Busy
  <2>9. Only(c)
    BY <1>1, <1>2, <2>1 DEF Only, NodeShape
  <2> QED
    BY <2>8, <2>9, OneSession
<1>5. CASE TcpAccept(c)
  <2>1. UNCHANGED <<word, cn, sent, seen>> /\ DOMAIN worker' = CN
    BY <1>1, <1>5 DEF TcpAccept, regionVars, histVars, NodeShape
  <2>2. /\ \A d \in CN : d # c => worker'[d] = worker[d]
        /\ worker'[c] # worker[c] => DOMAIN worker'[c] = {"pc", "msg"} /\ worker'[c].pc = "loop"
    BY <1>1, <1>3, <1>5 DEF TcpAccept, NodeShape
  <2> QED
    BY <1>2, <2>1, <2>2, WorkersRest DEF Serving
<1>6. CASE TcpLost(c)
  <2>1. /\ UNCHANGED <<word, worker, seen>> /\ cn' = [cn EXCEPT ![c] = Failed(cn[c])]
        /\ \/ sent' = [sent EXCEPT ![c]["mn"] = NotSent]
           \/ sent' = [sent EXCEPT ![c] = [s \in Sides |-> NotSent]]
    BY <1>1, <1>6 DEF TcpLost, regionVars, histVars, NodeShape
  <2>2. /\ DOMAIN sent' = CN /\ DOMAIN sent'[c] = Sides
        /\ \A s \in Sides : sent'[c][s] \in {sent[c][s], NotSent}
        /\ \A d \in CN : d # c => sent'[d] = sent[d]
    BY <1>1, <1>3, <2>1 DEF NodeShape, Sides
  <2>3. Shape(c)'
    BY <1>1, <1>2, <2>1, <2>2 DEF Shape, NotSent
  <2>4. SessionInv(c)'
    BY <1>1, <1>2, <2>1, <2>2, <2>3, FailKeepsSession DEF NodeShape
  <2>5. Only(c)
    BY <1>1, <1>2, <2>1, <2>2 DEF Only, NodeShape
  <2> QED
    BY <2>4, <2>5, OneSession
<1>7. CASE TcpTake(c)
  <2> DEFINE pc == IF sent[c]["cn"].msg.op = "write" THEN "body" ELSE "serve"
  <2>1. UNCHANGED <<word, cn, seen>>
    BY <1>7 DEF TcpTake, regionVars
  <2>2. CASE /\ sent[c]["cn"] # NotSent
             /\ Taken(c, sent[c]["cn"].msg, pc)
             /\ sent' = [sent EXCEPT ![c]["cn"] = NotSent]
    <3>1. RequestOut(c)
      BY <1>1, <1>2, <2>2 DEF RequestOut, Shape, Sides
    <3>2. /\ sent[c]["cn"].msg = cn[c].call /\ seen[c] = Nil /\ cn[c].pc \notin {"idle", "off"}
          /\ ~RequestIn(c) /\ ~AnswerOut(c) /\ ~AnswerIn(c)
      BY <1>1, <3>1 DEF Contents, OneExchange
    <3>3. /\ DOMAIN sent' = CN /\ DOMAIN sent'[c] = Sides /\ sent'[c]["cn"] = NotSent
          /\ sent'[c]["mn"] = sent[c]["mn"]
          /\ \A d \in CN : d # c => sent'[d] = sent[d]
      BY <1>1, <1>3, <2>2 DEF NodeShape, Sides
    <3>4. /\ DOMAIN worker' = CN /\ DOMAIN worker'[c] = {"pc", "msg"}
          /\ \A d \in CN : d # c => worker'[d] = worker[d]
      BY <1>1, <2>2 DEF Taken, NodeShape
    <3>5. ~RequestOut(c)' /\ ~RequestIn(c)' /\ ~AnswerOut(c)' /\ ~AnswerIn(c)'
      BY <1>2, <3>2, <3>3 DEF RequestOut, RequestIn, AnswerOut, AnswerIn
    <3>6. Shape(c)'
      BY <1>1, <1>2, <3>3, <3>4 DEF Shape, Sides, NotSent
    <3>7. SessionInv(c)'
      <4>1. pc \in {"body", "serve"}
        OBVIOUS
      <4> HIDE DEF pc
      <4> QED
        BY <1>1, <2>1, <2>2, <3>2, <3>5, <3>6, <4>1, TakeKeepsSession DEF NodeShape
    <3>8. Only(c)
      BY <1>1, <1>2, <2>1, <3>3, <3>4 DEF Only, NodeShape
    <3> QED
      BY <3>7, <3>8, OneSession
  <2>3. CASE worker' = [worker EXCEPT ![c] = NoWorker] /\ UNCHANGED sent
    BY <1>1, <1>2, <2>1, <2>3, WorkersRest DEF NodeShape, NoWorker, Serving
  <2> QED
    BY <1>7, <2>2, <2>3 DEF TcpTake
<1>8. CASE TcpReply(c)
  <2> DEFINE w == worker[c]
  <2>1. w.pc \in {"reply", "payload"} /\ UNCHANGED <<word, cn, seen>>
    BY <1>8 DEF TcpReply, Ready, regionVars, histVars
  <2>2. /\ Serving(c) /\ Answers(c, w.msg) /\ cn[c].pc \notin {"idle", "off"}
        /\ ~RequestOut(c) /\ ~RequestIn(c) /\ ~AnswerOut(c) /\ ~AnswerIn(c)
        /\ w.msg.op = cn[c].call.op /\ DOMAIN w.msg = MsgFields
    BY <1>1, <2>1 DEF Serving, Contents, OneExchange
  <2>3. /\ DOMAIN AfterSend(w) = {"pc", "msg"}
        /\ Whole(w) => AfterSend(w).pc \in {"none", "loop"}
        /\ ~Whole(w) => AfterSend(w).pc = "payload" /\ AfterSend(w).msg = w.msg
    BY <1>3 DEF AfterSend, Whole, NoWorker
  <2>4. ASSUME worker' = [worker EXCEPT ![c] = AfterSend(w)], UNCHANGED sent PROVE CasInv'
    <3>1. CASE Whole(w)
      BY <1>1, <1>2, <2>1, <2>3, <2>4, <3>1, WorkersRest DEF NodeShape, Serving
    <3>2. CASE ~Whole(w)
      <4>1. /\ DOMAIN worker'[c] = {"pc", "msg"} /\ worker'[c].pc = "payload"
            /\ worker'[c].msg = w.msg
        BY <1>1, <2>3, <2>4, <3>2 DEF NodeShape
      <4>2. Only(c)
        BY <1>1, <1>2, <2>1, <2>4 DEF Only, NodeShape
      <4>3. ~RequestOut(c)' /\ ~RequestIn(c)' /\ ~AnswerOut(c)' /\ ~AnswerIn(c)'
        BY <1>2, <2>2, <2>4 DEF RequestOut, RequestIn, AnswerOut, AnswerIn
      <4>4. Shape(c)' /\ ClientInv(c)'
        BY <1>1, <1>2, <2>1, <2>4, <4>1 DEF Shape, ClientInv
      <4>5. OneExchange(c)'
        BY <2>1, <2>2, <4>3 DEF OneExchange
      <4>6. Contents(c)'
        BY <2>1, <2>2, <4>1, <4>3 DEF Contents, Answers
      <4> QED
        BY <4>2, <4>4, <4>5, <4>6, OneSession DEF SessionInv
    <3> QED
      BY <3>1, <3>2
  <2>5. ASSUME worker' = [worker EXCEPT ![c] = AfterSend(w)], Whole(w),
               sent' = [sent EXCEPT ![c]["mn"] = Sent(w.msg)]
        PROVE  CasInv'
    <3>1. /\ DOMAIN worker'[c] = {"pc", "msg"} /\ worker'[c].pc \in {"none", "loop"}
      BY <1>1, <2>3, <2>5 DEF NodeShape
    <3>2. /\ DOMAIN sent'[c] = Sides /\ sent'[c]["cn"] = sent[c]["cn"]
          /\ sent'[c]["mn"] = Sent(w.msg) /\ sent'[c]["mn"].msg = w.msg
      BY <1>1, <1>3, <2>5 DEF NodeShape, Sides, Sent
    <3>3. Only(c)
      BY <1>1, <1>2, <2>1, <2>5 DEF Only, NodeShape
    <3>4. ~RequestOut(c)' /\ ~RequestIn(c)' /\ ~Serving(c)' /\ ~AnswerIn(c)'
      BY <1>2, <2>2, <3>1, <3>2 DEF RequestOut, RequestIn, AnswerIn, Serving
    <3>5. Shape(c)' /\ ClientInv(c)'
      BY <1>1, <1>2, <2>1, <3>1, <3>2 DEF Shape, ClientInv, Sides, Sent
    <3>6. OneExchange(c)'
      BY <2>1, <2>2, <3>4 DEF OneExchange
    <3>7. Contents(c)'
      BY <2>1, <2>2, <3>1, <3>2, <3>4 DEF Contents, Answers
    <3> QED
      BY <3>3, <3>5, <3>6, <3>7, OneSession DEF SessionInv
  <2>6. ASSUME Kill, UNCHANGED sent PROVE CasInv'
    BY <1>2, <2>1, <2>6, WorkersRest DEF Kill, NoWorker, Serving
  <2>7. ASSUME worker' = [worker EXCEPT ![c] = NoWorker], UNCHANGED sent PROVE CasInv'
    BY <1>1, <1>2, <2>1, <2>7, WorkersRest DEF NodeShape, NoWorker, Serving
  <2> QED
    BY <1>8, <2>4, <2>5, <2>6, <2>7 DEF TcpReply
<1>9. CASE TcpAnswered(c)
  <2> DEFINE msg == sent[c]["mn"].msg
  <2>1. /\ UNCHANGED <<word, worker>> /\ cn[c].pc = "answer" /\ sent[c]["mn"] # NotSent
        /\ cn' = [cn EXCEPT ![c] = Answered(cn[c], msg)]
        /\ seen' = [seen EXCEPT ![c] = IF msg.status = 0 THEN Nil ELSE seen[c]]
        /\ sent' = [sent EXCEPT ![c]["mn"] = NotSent]
    BY <1>1, <1>9 DEF TcpAnswered, Returns, regionVars, NodeShape
  <2>2. AnswerOut(c)
    BY <1>1, <1>2, <2>1 DEF AnswerOut, Shape, Sides
  <2>3. ~RequestOut(c) /\ ~RequestIn(c) /\ ~Serving(c) /\ ~AnswerIn(c)
    BY <1>1, <2>2 DEF OneExchange
  <2>4. /\ DOMAIN sent'[c] = Sides /\ sent'[c]["cn"] = sent[c]["cn"]
        /\ sent'[c]["mn"] = NotSent
    BY <1>1, <1>3, <2>1 DEF NodeShape, Sides
  <2>5. /\ ~RequestOut(c)' /\ ~RequestIn(c)' /\ ~Serving(c)' /\ ~AnswerOut(c)'
        /\ ~AnswerIn(c)'
    BY <1>2, <2>1, <2>3, <2>4 DEF RequestOut, RequestIn, Serving, AnswerOut, AnswerIn
  <2>6. Shape(c)'
    BY <1>1, <1>2, <2>1, <2>4 DEF Shape, Sides, NotSent
  <2>7. SessionInv(c)'
    BY <1>1, <2>1, <2>5, <2>6, AnswerKeepsSession DEF NodeShape
  <2>8. Only(c)
    BY <1>1, <1>2, <2>1 DEF Only, NodeShape
  <2> QED
    BY <2>7, <2>8, OneSession
<1>10. CASE TcpCallFails(c)
  <2>1. UNCHANGED <<word, worker, sent, seen>> /\ cn' = [cn EXCEPT ![c] = Failed(cn[c])]
    BY <1>1, <1>10 DEF TcpCallFails, regionVars, histVars, NodeShape
  <2>2. Shape(c)'
    BY <1>1, <1>2, <2>1 DEF Shape
  <2>3. SessionInv(c)'
    BY <1>1, <1>2, <2>1, <2>2, FailKeepsSession DEF NodeShape
  <2>4. Only(c)
    BY <1>1, <1>2, <2>1 DEF Only, NodeShape
  <2> QED
    BY <2>3, <2>4, OneSession
<1>11. ASSUME NEW msg \in Requests, TcpCall(c, msg) PROVE CasInv'
  <2>1. (IF msg.op = "write" THEN "send" ELSE "answer") \in Busy
    BY DEF Busy
  <2> QED
    BY <1>2, <1>11, <2>1, CallsKeepCasInv DEF TcpCall, regionVars, histVars
<1>12. CASE TcpSendBody(c)
  <2>1. /\ UNCHANGED <<word, worker, sent, seen>> /\ DOMAIN cn' = CN
        /\ cn[c].pc = "send" /\ cn'[c].pc = "answer"
        /\ DOMAIN cn'[c] = DOMAIN cn[c] /\ cn'[c].call = cn[c].call
        /\ cn'[c].reply = cn[c].reply
        /\ \A d \in CN : d # c => cn'[d] = cn[d]
    BY <1>1, <1>12 DEF TcpSendBody, regionVars, histVars, NodeShape, ClientInv
  <2>2. Shape(c)' /\ ClientInv(c)'
    BY <1>1, <1>2, <2>1 DEF Shape, ClientInv
  <2>3. /\ RequestOut(c)' = RequestOut(c) /\ RequestIn(c)' = RequestIn(c)
        /\ Serving(c)' = Serving(c) /\ AnswerOut(c)' = AnswerOut(c)
        /\ AnswerIn(c)' = AnswerIn(c)
    BY <1>2, <2>1 DEF RequestOut, RequestIn, Serving, AnswerOut, AnswerIn
  <2>4. SessionInv(c)'
    BY <1>1, <1>2, <2>1, <2>2, <2>3, LessKeepsSession
  <2>5. Only(c)
    BY <1>1, <1>2, <2>1 DEF Only, NodeShape
  <2> QED
    BY <2>4, <2>5, OneSession
<1>13. CASE TcpTakeBody(c)
  <2>1. /\ worker[c].pc = "body" /\ Serving(c) /\ UNCHANGED <<word, cn, sent, seen>>
    BY <1>13 DEF TcpTakeBody, Serving, regionVars, histVars
  <2>2. /\ worker[c].msg = cn[c].call /\ seen[c] = Nil /\ cn[c].pc \notin {"idle", "off"}
        /\ DOMAIN worker[c].msg = MsgFields
        /\ ~RequestOut(c) /\ ~RequestIn(c) /\ ~AnswerOut(c) /\ ~AnswerIn(c)
    BY <1>1, <2>1 DEF Contents, OneExchange
  <2>3. CASE worker' = [worker EXCEPT ![c].pc = "serve"]
    <3>1. /\ DOMAIN worker' = CN /\ DOMAIN worker'[c] = {"pc", "msg"}
          /\ worker'[c].pc = "serve" /\ worker'[c].msg = worker[c].msg
          /\ \A d \in CN : d # c => worker'[d] = worker[d]
      BY <1>1, <1>3, <2>3 DEF NodeShape
    <3>2. Shape(c)' /\ ClientInv(c)'
      BY <1>1, <1>2, <2>1, <3>1 DEF Shape, ClientInv
    <3>3. ~RequestOut(c)' /\ ~RequestIn(c)' /\ ~AnswerOut(c)' /\ ~AnswerIn(c)'
      BY <1>2, <2>1, <2>2 DEF RequestOut, RequestIn, AnswerOut, AnswerIn
    <3>4. OneExchange(c)'
      BY <2>1, <2>2, <3>3 DEF OneExchange
    <3>5. Contents(c)'
      BY <2>1, <2>2, <3>1, <3>3 DEF Contents
    <3>6. Only(c)
      BY <1>1, <1>2, <2>1, <3>1 DEF Only, NodeShape
    <3> QED
      BY <3>2, <3>4, <3>5, <3>6, OneSession DEF SessionInv
  <2>4. CASE Reply(c, 0, 1)
    <3>1. SessionInv(c)'
      BY <1>1, <1>2, <2>1, <2>4, ReplyKeepsSession DEF NodeShape
    <3>2. Only(c)
      BY <1>1, <1>2, <2>1, <2>4 DEF Only, NodeShape, Reply
    <3> QED
      BY <3>1, <3>2, OneSession
  <2> QED
    BY <1>13, <2>3, <2>4 DEF TcpTakeBody
<1> QED
  BY <1>4, <1>5, <1>6, <1>7, <1>8, <1>9, <1>10, <1>11, <1>12, <1>13
     DEF OverTcp, TcpNext, TcpWorkerStep, TcpCallStep

(* A side of a session takes the first completion from its queue.          *)
LEMMA PollsShape ==
  ASSUME CasInv, NEW c \in CN, NEW s \in Sides, NEW wc, Polls(c, s, wc)
  PROVE  /\ DOMAIN cq' = CN /\ DOMAIN cq'[c] = Sides
         /\ \A d \in CN : d # c => cq'[d] = cq[d]
         /\ \A t \in Sides : /\ cq'[c][t] \in Seq(Completions)
                             /\ AtMostOnce(cq'[c][t], "RECV")
                             /\ transport # "tcp"
                             /\ Holds(cq'[c][t], "RECV") => Holds(cq[c][t], "RECV")
         /\ wc = "RECV" => Holds(cq[c][s], "RECV") /\ ~Holds(cq'[c][s], "RECV")
<1>1. NodeShape /\ Shape(c)
  BY DEF CasInv, SessionInv
<1>2. cq[c][s] # << >> /\ Head(cq[c][s]) = wc /\ cq' = [cq EXCEPT ![c][s] = Tail(cq[c][s])]
  BY <1>1 DEF Polls, NodeShape, Shape
<1>3. /\ Tail(cq[c][s]) \in Seq(Completions)
      /\ AtMostOnce(Tail(cq[c][s]), "RECV")
      /\ Holds(Tail(cq[c][s]), "RECV") => Holds(cq[c][s], "RECV") /\ Head(cq[c][s]) # "RECV"
      /\ Head(cq[c][s]) = "RECV" => Holds(cq[c][s], "RECV")
  BY <1>1, <1>2, QueueTail DEF Shape
<1>4. /\ DOMAIN cq' = CN /\ DOMAIN cq'[c] = Sides /\ cq'[c][s] = Tail(cq[c][s])
      /\ \A t \in Sides : t # s => cq'[c][t] = cq[c][t]
      /\ \A d \in CN : d # c => cq'[d] = cq[d]
  BY <1>1, <1>2 DEF NodeShape, Shape
<1>5. transport # "tcp"
  BY <1>1, <1>2 DEF Shape
<1>6. ASSUME NEW t \in Sides
      PROVE  /\ cq'[c][t] \in Seq(Completions)
             /\ AtMostOnce(cq'[c][t], "RECV")
             /\ Holds(cq'[c][t], "RECV") => Holds(cq[c][t], "RECV")
  <2>1. CASE t = s
    BY <1>3, <1>4, <2>1
  <2>2. CASE t # s
    BY <1>1, <1>4, <2>2 DEF Shape
  <2> QED
    BY <2>1, <2>2
<1> QED
  BY <1>2, <1>3, <1>4, <1>5, <1>6

(* The cards deliver a message.                                            *)
LEMMA DeliverKeepsCasInv ==
  ASSUME CasInv, NEW c \in CN, NEW s \in Sides, Deliver(c, s), transport = "rdma",
         transport' = transport
  PROVE  CasInv'
<1>1. NodeShape /\ Shape(c) /\ ClientInv(c) /\ OneExchange(c) /\ Contents(c) /\ SessionInv(c)
  BY DEF CasInv, SessionInv
<1> DEFINE p == Peer[s]
<1>2. p \in Sides /\ (s = "cn" => p = "mn") /\ (s = "mn" => p = "cn") /\ p # s
  BY DEF Peer, Sides
<1> HIDE DEF p
<1>3. /\ UNCHANGED <<word, worker, cn, seen>> /\ sent[c][s] # NotSent /\ ~sent[c][s].arrived
      /\ sent' = [sent EXCEPT ![c][s].arrived = TRUE]
      /\ buf' = [buf EXCEPT ![c][p] = sent[c][s].msg]
      /\ cq' = [cq EXCEPT ![c][p] = Append(cq[c][p], "RECV")]
  BY <1>1, <1>2 DEF Deliver, regionVars, histVars, NodeShape, Shape, p
<1>4. /\ DOMAIN sent'[c] = Sides /\ DOMAIN sent'[c][s] = {"msg", "arrived"}
      /\ sent'[c][s].arrived = TRUE /\ sent'[c][s].msg = sent[c][s].msg
      /\ sent'[c][p] = sent[c][p]
  BY <1>1, <1>2, <1>3 DEF NodeShape, Shape
<1>5. /\ DOMAIN buf'[c] = Sides /\ buf'[c][p] = sent[c][s].msg /\ buf'[c][s] = buf[c][s]
  BY <1>1, <1>2, <1>3 DEF NodeShape, Shape
<1>6. ~Holds(cq[c][p], "RECV")
  BY <1>1, <1>2, <1>3 DEF OneExchange, RequestOut, RequestIn, AnswerOut, AnswerIn, Sides
<1>7. Append(cq[c][p], "RECV") \in Seq(Completions) /\ AtMostOnce(Append(cq[c][p], "RECV"), "RECV")
  BY <1>1, <1>2, <1>6, QueueAppend DEF Shape, Completions
<1>8. /\ DOMAIN cq'[c] = Sides /\ cq'[c][p] = Append(cq[c][p], "RECV") /\ cq'[c][s] = cq[c][s]
  BY <1>1, <1>2, <1>3 DEF NodeShape, Shape
<1>9. Sides = {s, p}
  BY <1>2 DEF Sides
<1>10. Shape(c)'
  <2>1. ASSUME NEW t \in Sides
        PROVE  /\ DOMAIN sent'[c][t] = {"msg", "arrived"}
               /\ cq'[c][t] \in Seq(Completions)
               /\ AtMostOnce(cq'[c][t], "RECV")
    <3>1. CASE t = s
      BY <1>1, <1>4, <1>8, <3>1 DEF Shape
    <3>2. CASE t = p
      BY <1>1, <1>4, <1>7, <1>8, <3>2 DEF Shape
    <3> QED
      BY <1>9, <3>1, <3>2
  <2> QED
    BY <1>1, <1>3, <1>4, <1>5, <1>8, <2>1 DEF Shape
<1>11. ClientInv(c)'
  BY <1>1, <1>3 DEF ClientInv
<1>12. Only(c)
  BY <1>1, <1>3 DEF Only, NodeShape
<1>13. CASE s = "cn"
  <2>1. RequestOut(c) /\ sent[c]["cn"].msg = cn[c].call /\ seen[c] = Nil
    BY <1>1, <1>3, <1>13 DEF RequestOut, Contents
  <2>2. ~Serving(c) /\ ~AnswerOut(c) /\ ~AnswerIn(c) /\ cn[c].pc \notin {"idle", "off"}
    BY <1>1, <2>1 DEF OneExchange
  <2>3. ~RequestOut(c)' /\ ~Serving(c)' /\ ~AnswerOut(c)' /\ ~AnswerIn(c)'
    BY <1>2, <1>3, <1>4, <1>8, <1>13, <2>2
       DEF RequestOut, Serving, AnswerOut, AnswerIn
  <2>4. buf'[c]["mn"] = cn[c].call
    BY <1>2, <1>5, <1>13, <2>1
  <2>5. OneExchange(c)'
    BY <1>3, <2>2, <2>3 DEF OneExchange
  <2>6. Contents(c)'
    BY <1>3, <2>1, <2>3, <2>4 DEF Contents, Serving
  <2> QED
    BY <1>10, <1>11, <1>12, <2>5, <2>6, OneSession DEF SessionInv
<1>14. CASE s = "mn"
  <2>1. AnswerOut(c) /\ Answers(c, sent[c]["mn"].msg)
    BY <1>1, <1>3, <1>14 DEF AnswerOut, Contents
  <2>2. ~RequestOut(c) /\ ~RequestIn(c) /\ ~Serving(c) /\ cn[c].pc \notin {"idle", "off"}
    BY <1>1, <2>1 DEF OneExchange
  <2>3. ~RequestOut(c)' /\ ~RequestIn(c)' /\ ~Serving(c)' /\ ~AnswerOut(c)'
    BY <1>2, <1>3, <1>4, <1>8, <1>14, <2>2
       DEF RequestOut, RequestIn, Serving, AnswerOut
  <2>4. buf'[c]["cn"] = sent[c]["mn"].msg
    BY <1>2, <1>5, <1>14
  <2>5. OneExchange(c)'
    BY <1>3, <2>2, <2>3 DEF OneExchange
  <2>6. Contents(c)'
    BY <1>3, <2>1, <2>3, <2>4 DEF Contents, Serving, Answers
  <2> QED
    BY <1>10, <1>11, <1>12, <2>5, <2>6, OneSession DEF SessionInv
<1> QED
  BY <1>13, <1>14 DEF Sides

(* The cards acknowledge a message that has arrived.                       *)
LEMMA AcknowledgeKeepsCasInv ==
  ASSUME CasInv, NEW c \in CN, NEW s \in Sides, Acknowledge(c, s), transport = "rdma",
         transport' = transport
  PROVE  CasInv'
<1>1. NodeShape /\ Shape(c) /\ ClientInv(c) /\ SessionInv(c)
  BY DEF CasInv, SessionInv
<1>2. /\ UNCHANGED <<word, worker, cn, seen, buf>>
      /\ sent' = [sent EXCEPT ![c][s] = NotSent]
      /\ cq' = [cq EXCEPT ![c][s] = Append(cq[c][s], "SEND")]
  BY <1>1 DEF Acknowledge, regionVars, histVars, NodeShape, Shape
<1>3. /\ Append(cq[c][s], "SEND") \in Seq(Completions)
      /\ AtMostOnce(Append(cq[c][s], "SEND"), "RECV")
      /\ Holds(Append(cq[c][s], "SEND"), "RECV") => Holds(cq[c][s], "RECV")
  BY <1>1, QueueAppend DEF Shape, Completions
<1>4. /\ DOMAIN sent'[c] = Sides /\ DOMAIN cq'[c] = Sides
      /\ sent'[c][s] = NotSent /\ cq'[c][s] = Append(cq[c][s], "SEND")
      /\ \A t \in Sides : t # s => sent'[c][t] = sent[c][t] /\ cq'[c][t] = cq[c][t]
  BY <1>1, <1>2 DEF NodeShape, Shape
<1>5. ASSUME NEW t \in Sides
      PROVE  /\ sent'[c][t] \in {sent[c][t], NotSent}
             /\ cq'[c][t] \in Seq(Completions)
             /\ AtMostOnce(cq'[c][t], "RECV")
             /\ Holds(cq'[c][t], "RECV") => Holds(cq[c][t], "RECV")
  <2>1. CASE t = s
    BY <1>3, <1>4, <2>1
  <2>2. CASE t # s
    BY <1>1, <1>4, <2>2 DEF Shape
  <2> QED
    BY <2>1, <2>2
<1>6. Shape(c)'
  <2>1. \A t \in Sides : DOMAIN sent'[c][t] = {"msg", "arrived"}
    BY <1>1, <1>5 DEF Shape, NotSent
  <2> QED
    BY <1>1, <1>2, <1>4, <1>5, <2>1 DEF Shape
<1>7. ClientInv(c)'
  BY <1>1, <1>2 DEF ClientInv
<1>8. /\ RequestOut(c)' => RequestOut(c) /\ sent'[c]["cn"].msg = sent[c]["cn"].msg
      /\ AnswerOut(c)' => AnswerOut(c) /\ sent'[c]["mn"].msg = sent[c]["mn"].msg
  BY <1>5 DEF RequestOut, AnswerOut, Sides
<1>9. /\ RequestIn(c)' => RequestIn(c)
      /\ AnswerIn(c)' => AnswerIn(c)
      /\ Serving(c)' => Serving(c) /\ worker'[c] = worker[c]
  BY <1>2, <1>5 DEF RequestIn, AnswerIn, Serving, Sides
<1>10. SessionInv(c)'
  BY <1>1, <1>2, <1>6, <1>7, <1>8, <1>9, LessKeepsSession
<1>11. Only(c)
  BY <1>1, <1>2 DEF Only, NodeShape
<1> QED
  BY <1>10, <1>11, OneSession

(* A completion is polled, and neither the request nor the answer is taken *)
(* with it: the client or the worker goes on, or a message is lost.        *)
LEMMA PollKeepsCasInv ==
  ASSUME CasInv, NEW c \in CN, NEW s \in Sides, NEW wc, Polls(c, s, wc),
         UNCHANGED <<word, sent, seen, buf, transport>>,
         DOMAIN cn' = CN, \A d \in CN : d # c => cn'[d] = cn[d],
         DOMAIN cn'[c] = DOMAIN cn[c], cn'[c].call = cn[c].call, cn'[c].reply = cn[c].reply,
         cn'[c].pc # cn[c].pc => cn[c].pc \in Busy /\ cn'[c].pc = "answer",
         DOMAIN worker' = CN, \A d \in CN : d # c => worker'[d] = worker[d],
         worker'[c] # worker[c] => DOMAIN worker'[c] = {"pc", "msg"} /\ ~Serving(c)'
  PROVE  CasInv'
<1>1. NodeShape /\ Shape(c) /\ ClientInv(c) /\ SessionInv(c)
  BY DEF CasInv, SessionInv
<1>2. /\ DOMAIN cq' = CN /\ DOMAIN cq'[c] = Sides
      /\ \A d \in CN : d # c => cq'[d] = cq[d]
      /\ \A t \in Sides : /\ cq'[c][t] \in Seq(Completions)
                          /\ AtMostOnce(cq'[c][t], "RECV")
                          /\ transport # "tcp"
                          /\ Holds(cq'[c][t], "RECV") => Holds(cq[c][t], "RECV")
  BY PollsShape
<1>3. DOMAIN worker'[c] = {"pc", "msg"}
  BY <1>1 DEF Shape
<1>4. Shape(c)'
  BY <1>1, <1>2, <1>3 DEF Shape
<1>5. cn'[c].pc \in {"idle", "off"} => cn[c].pc \in {"idle", "off"}
  OBVIOUS
<1>6. ClientInv(c)'
  BY <1>1, <1>5 DEF ClientInv, Busy
<1>7. /\ RequestOut(c)' => RequestOut(c) /\ sent'[c]["cn"].msg = sent[c]["cn"].msg
      /\ AnswerOut(c)' => AnswerOut(c) /\ sent'[c]["mn"].msg = sent[c]["mn"].msg
  BY DEF RequestOut, AnswerOut
<1>8. RequestIn(c)' => RequestIn(c)
  BY <1>2 DEF RequestIn, Sides
<1>9. AnswerIn(c)' => AnswerIn(c)
  BY <1>2 DEF AnswerIn, Sides
<1>10. Serving(c)' => Serving(c) /\ worker'[c] = worker[c]
  BY DEF Serving
<1>11. SessionInv(c)'
  BY <1>1, <1>4, <1>5, <1>6, <1>7, <1>8, <1>9, <1>10, LessKeepsSession
<1>12. Only(c)
  BY <1>1, <1>2 DEF Only, NodeShape
<1> QED
  BY <1>11, <1>12, OneSession

(* The steps over RDMA.                                                    *)
LEMMA RdmaKeepsCasInv ==
  ASSUME CasInv, NEW c \in CN, OverRdma(RdmaNext(c))
  PROVE  CasInv'
<1>1. NodeShape /\ Shape(c) /\ ClientInv(c) /\ OneExchange(c) /\ Contents(c) /\ SessionInv(c)
  BY DEF CasInv, SessionInv
<1>2. transport' = transport /\ transport = "rdma"
  BY DEF OverRdma
<1>3. DOMAIN worker[c] = {"pc", "msg"} /\ DOMAIN sent[c] = Sides
  BY <1>1 DEF Shape
<1>4. CASE RdmaConnect(c)
  <2> DEFINE hello == Message("hello", 0, 0, 0)
  <2>1. /\ worker' = [worker EXCEPT ![c].pc = "loop"]
        /\ cq' = [cq EXCEPT ![c] = [s \in Sides |-> << >>]]
        /\ buf' = [buf EXCEPT ![c] = [s \in Sides |-> NoMessage]]
        /\ cn' = [cn EXCEPT ![c].pc = "send", ![c].call = hello]
        /\ sent' = [sent EXCEPT ![c] = [cn |-> Sent(hello), mn |-> NotSent]]
        /\ cn[c].pc = "off" /\ UNCHANGED <<word, seen>>
    BY <1>4 DEF RdmaConnect, regionVars, histVars
  <2>2. DOMAIN hello = MsgFields /\ hello.op = "hello"
    BY DEF Message, MsgFields
  <2> HIDE DEF hello
  <2>3. /\ DOMAIN cn'[c] = {"pc", "call", "reply", "ops"} /\ cn'[c].pc = "send"
        /\ cn'[c].call = hello /\ cn'[c].reply = cn[c].reply
    BY <1>1, <2>1 DEF NodeShape, ClientInv
  <2>4. /\ DOMAIN sent'[c] = Sides /\ sent'[c]["cn"] = Sent(hello) /\ sent'[c]["mn"] = NotSent
    BY <1>1, <2>1 DEF NodeShape, Sides
  <2>5. /\ DOMAIN cq'[c] = Sides /\ DOMAIN buf'[c] = Sides
        /\ cq'[c]["cn"] = << >> /\ cq'[c]["mn"] = << >>
    BY <1>1, <2>1 DEF NodeShape, Sides
  <2>6. DOMAIN worker'[c] = {"pc", "msg"} /\ worker'[c].pc = "loop"
    BY <1>1, <1>3, <2>1 DEF NodeShape
  <2>7. Shape(c)'
    <3>1. \A t \in Sides : DOMAIN sent'[c][t] = {"msg", "arrived"} /\ cq'[c][t] = << >>
      BY <2>4, <2>5 DEF Sides, Sent, NotSent
    <3>2. transport' # "tcp"
      BY <1>2
    <3> QED
      BY <2>4, <2>5, <2>6, <3>1, <3>2, QueueEmpty DEF Shape
  <2>8. ~RequestIn(c)' /\ ~Serving(c)' /\ ~AnswerOut(c)' /\ ~AnswerIn(c)'
    BY <2>4, <2>5, <2>6, QueueEmpty DEF RequestIn, Serving, AnswerOut, AnswerIn
  <2>9. cn'[c].reply.status # "cas"
    BY <1>1, <2>1, <2>3 DEF ClientInv
  <2>10. SessionInv(c)'
    BY <1>1, <2>1, <2>2, <2>3, <2>4, <2>7, <2>8, <2>9, CallKeepsSession DEF Busy
  <2>11. Only(c)
    BY <1>1, <1>2, <2>1 DEF Only, NodeShape
  <2> QED
    BY <2>10, <2>11, OneSession
<1>5. ASSUME cn' = [cn EXCEPT ![c] = Failed(cn[c])],
             UNCHANGED <<word, worker, sent, seen, cq, buf>>
      PROVE  CasInv'
  <2>1. Shape(c)'
    BY <1>1, <1>2, <1>5 DEF Shape
  <2>2. SessionInv(c)'
    BY <1>1, <1>5, <2>1, FailKeepsSession DEF NodeShape
  <2>3. Only(c)
    BY <1>1, <1>2, <1>5 DEF Only, NodeShape
  <2> QED
    BY <2>2, <2>3, OneSession
<1>6. CASE RdmaLost(c)
  <2>1. UNCHANGED <<word, worker, sent, seen, cq, buf>>
    BY <1>6 DEF RdmaLost, regionVars, histVars
  <2>2. CASE UNCHANGED cn
    BY <1>1, <1>2, <2>1, <2>2, NoSession DEF NodeShape
  <2>3. CASE cn' = [cn EXCEPT ![c] = Failed(cn[c])]
    BY <1>5, <2>1, <2>3
  <2> QED
    BY <1>1, <1>6, <2>2, <2>3 DEF RdmaLost, NodeShape
<1>7. CASE RdmaCallFails(c)
  BY <1>1, <1>5, <1>7 DEF RdmaCallFails, rdmaVars, regionVars, histVars, NodeShape
<1>8. CASE SendDone(c)
  <2>1. /\ Polls(c, "cn", "SEND") /\ UNCHANGED <<word, worker, sent, seen, buf>>
        /\ cn[c].pc \in Busy /\ DOMAIN cn' = CN /\ cn'[c].pc = "answer"
        /\ DOMAIN cn'[c] = DOMAIN cn[c] /\ cn'[c].call = cn[c].call
        /\ cn'[c].reply = cn[c].reply
        /\ \A d \in CN : d # c => cn'[d] = cn[d]
    BY <1>1, <1>8 DEF SendDone, regionVars, histVars, NodeShape, ClientInv, Busy
  <2>2. "cn" \in Sides
    BY DEF Sides
  <2> QED
    BY <1>1, <1>2, <2>1, <2>2, PollKeepsCasInv DEF NodeShape
<1>9. CASE AnswerDropped(c)
  <2>1. Polls(c, "cn", "RECV") /\ UNCHANGED <<word, worker, cn, sent, seen, buf>>
    BY <1>9 DEF AnswerDropped, regionVars, histVars
  <2>2. "cn" \in Sides
    BY DEF Sides
  <2> QED
    BY <1>1, <1>2, <2>1, <2>2, PollKeepsCasInv DEF NodeShape
<1>10. CASE RequestDropped(c)
  <2>1. Polls(c, "mn", "RECV") /\ UNCHANGED <<word, worker, cn, sent, seen, buf>>
    BY <1>10 DEF RequestDropped, regionVars, histVars
  <2>2. "mn" \in Sides
    BY DEF Sides
  <2> QED
    BY <1>1, <1>2, <2>1, <2>2, PollKeepsCasInv DEF NodeShape
<1>11. CASE AnswerSent(c)
  <2>1. /\ Polls(c, "mn", "SEND") /\ UNCHANGED <<word, cn, sent, seen, buf>>
        /\ worker' = [worker EXCEPT ![c] = AfterAnswer(worker[c])]
    BY <1>1, <1>11 DEF AnswerSent, regionVars, histVars, NodeShape
  <2>2. /\ DOMAIN AfterAnswer(worker[c]) = {"pc", "msg"}
        /\ AfterAnswer(worker[c]).pc \in {"none", "loop"}
    BY DEF AfterAnswer, NoWorker
  <2>3. /\ DOMAIN worker' = CN /\ \A d \in CN : d # c => worker'[d] = worker[d]
        /\ DOMAIN worker'[c] = {"pc", "msg"} /\ ~Serving(c)'
    BY <1>1, <2>1, <2>2 DEF NodeShape, Serving
  <2>4. "mn" \in Sides
    BY DEF Sides
  <2> QED
    BY <1>1, <1>2, <2>1, <2>3, <2>4, PollKeepsCasInv DEF NodeShape
<1>12. CASE EmptyPoll(c)
  <2>1. /\ UNCHANGED <<word, cn, sent, seen, cq, buf>> /\ DOMAIN worker' = CN
        /\ worker'[c].pc = "loop" /\ DOMAIN worker'[c] = {"pc", "msg"}
        /\ \A d \in CN : d # c => worker'[d] = worker[d]
    BY <1>1, <1>3, <1>12 DEF EmptyPoll, regionVars, histVars, rdmaVars, NodeShape
  <2> QED
    BY <1>2, <2>1, WorkersRest DEF Serving
<1>13. CASE AnswerFails(c)
  <2>1. /\ UNCHANGED <<word, cn, sent, seen, cq, buf>> /\ DOMAIN worker' = CN
        /\ worker'[c] = NoWorker /\ \A d \in CN : d # c => worker'[d] = worker[d]
    BY <1>1, <1>13 DEF AnswerFails, regionVars, histVars, rdmaVars, NodeShape
  <2> QED
    BY <1>2, <2>1, WorkersRest DEF Serving, NoWorker
<1>14. CASE RdmaTake(c)
  <2>1. /\ Polls(c, "mn", "RECV") /\ Taken(c, buf[c]["mn"], "serve")
        /\ UNCHANGED <<word, cn, sent, seen, buf>>
    BY <1>14 DEF RdmaTake, regionVars
  <2>2. "mn" \in Sides
    BY DEF Sides
  <2>3. /\ DOMAIN cq' = CN /\ DOMAIN cq'[c] = Sides
        /\ \A d \in CN : d # c => cq'[d] = cq[d]
        /\ \A t \in Sides : /\ cq'[c][t] \in Seq(Completions)
                            /\ AtMostOnce(cq'[c][t], "RECV")
                            /\ Holds(cq'[c][t], "RECV") => Holds(cq[c][t], "RECV")
        /\ Holds(cq[c]["mn"], "RECV") /\ ~Holds(cq'[c]["mn"], "RECV")
    BY <2>1, <2>2, PollsShape
  <2>4. RequestIn(c) /\ ~RequestIn(c)'
    BY <2>3 DEF RequestIn
  <2>5. /\ buf[c]["mn"] = cn[c].call /\ seen[c] = Nil /\ cn[c].pc \notin {"idle", "off"}
        /\ ~RequestOut(c) /\ ~AnswerOut(c) /\ ~AnswerIn(c)
    BY <1>1, <2>4 DEF Contents, OneExchange
  <2>6. ~RequestOut(c)' /\ ~AnswerOut(c)' /\ ~AnswerIn(c)'
    BY <2>1, <2>3, <2>5 DEF RequestOut, AnswerOut, AnswerIn, Sides
  <2>7. /\ DOMAIN worker' = CN /\ DOMAIN worker'[c] = {"pc", "msg"}
        /\ \A d \in CN : d # c => worker'[d] = worker[d]
    BY <1>1, <2>1 DEF Taken, NodeShape
  <2>8. Shape(c)'
    BY <1>1, <1>2, <2>1, <2>3, <2>7 DEF Shape
  <2>9. SessionInv(c)'
    BY <1>1, <2>1, <2>4, <2>5, <2>6, <2>8, TakeKeepsSession DEF NodeShape
  <2>10. Only(c)
    BY <1>1, <1>2, <2>1, <2>3, <2>7 DEF Only, NodeShape
  <2> QED
    BY <2>9, <2>10, OneSession
<1>15. CASE RdmaReply(c)
  <2>1. /\ worker[c].pc = "reply" /\ UNCHANGED <<word, cn, seen, cq, buf>>
        /\ sent' = [sent EXCEPT ![c]["mn"] = Sent(worker[c].msg)]
        /\ worker' = [worker EXCEPT ![c].pc = "sent"]
    BY <1>15 DEF RdmaReply, Ready, regionVars, histVars, rdmaVars
  <2>2. /\ Serving(c) /\ Answers(c, worker[c].msg) /\ cn[c].pc \notin {"idle", "off"}
        /\ ~RequestOut(c) /\ ~RequestIn(c) /\ ~AnswerOut(c) /\ ~AnswerIn(c)
    BY <1>1, <2>1 DEF Serving, Contents, OneExchange
  <2>3. DOMAIN worker'[c] = {"pc", "msg"} /\ worker'[c].pc = "sent"
    BY <1>1, <1>3, <2>1 DEF NodeShape
  <2>4. /\ DOMAIN sent'[c] = Sides /\ sent'[c]["cn"] = sent[c]["cn"]
        /\ sent'[c]["mn"] = Sent(worker[c].msg) /\ sent'[c]["mn"].msg = worker[c].msg
    BY <1>1, <1>3, <2>1 DEF NodeShape, Sides, Sent
  <2>5. ~RequestOut(c)' /\ ~RequestIn(c)' /\ ~Serving(c)' /\ ~AnswerIn(c)'
    BY <2>1, <2>2, <2>3, <2>4 DEF RequestOut, RequestIn, AnswerIn, Serving
  <2>6. Shape(c)' /\ ClientInv(c)'
    BY <1>1, <1>2, <2>1, <2>3, <2>4 DEF Shape, ClientInv, Sides, Sent
  <2>7. OneExchange(c)'
    BY <2>1, <2>2, <2>5 DEF OneExchange
  <2>8. Contents(c)'
    BY <2>1, <2>2, <2>3, <2>4, <2>5 DEF Contents, Answers
  <2>9. Only(c)
    BY <1>1, <1>2, <2>1 DEF Only, NodeShape
  <2> QED
    BY <2>6, <2>7, <2>8, <2>9, OneSession DEF SessionInv
<1>16. CASE RdmaAnswered(c)
  <2> DEFINE msg == buf[c]["cn"]
  <2>1. /\ Polls(c, "cn", "RECV") /\ UNCHANGED <<word, worker, sent, buf>>
        /\ cn[c].pc = "answer"
        /\ cn' = [cn EXCEPT ![c] = Answered(cn[c], msg)]
        /\ seen' = [seen EXCEPT ![c] = IF msg.status = 0 THEN Nil ELSE seen[c]]
    BY <1>1, <1>16 DEF RdmaAnswered, Returns, regionVars, NodeShape
  <2>2. "cn" \in Sides
    BY DEF Sides
  <2>3. /\ DOMAIN cq' = CN /\ DOMAIN cq'[c] = Sides
        /\ \A d \in CN : d # c => cq'[d] = cq[d]
        /\ \A t \in Sides : /\ cq'[c][t] \in Seq(Completions)
                            /\ AtMostOnce(cq'[c][t], "RECV")
                            /\ Holds(cq'[c][t], "RECV") => Holds(cq[c][t], "RECV")
        /\ Holds(cq[c]["cn"], "RECV") /\ ~Holds(cq'[c]["cn"], "RECV")
    BY <2>1, <2>2, PollsShape
  <2>4. AnswerIn(c) /\ ~AnswerIn(c)'
    BY <2>3 DEF AnswerIn
  <2>5. ~RequestOut(c) /\ ~RequestIn(c) /\ ~Serving(c) /\ ~AnswerOut(c)
    BY <1>1, <2>4 DEF OneExchange
  <2>6. ~RequestOut(c)' /\ ~RequestIn(c)' /\ ~Serving(c)' /\ ~AnswerOut(c)'
    BY <2>1, <2>3, <2>5 DEF RequestOut, RequestIn, Serving, AnswerOut, Sides
  <2>7. Shape(c)'
    BY <1>1, <1>2, <2>1, <2>3 DEF Shape
  <2>8. SessionInv(c)'
    BY <1>1, <2>1, <2>4, <2>6, <2>7, AnswerKeepsSession DEF NodeShape
  <2>9. Only(c)
    BY <1>1, <1>2, <2>1, <2>3 DEF Only, NodeShape
  <2> QED
    BY <2>8, <2>9, OneSession
<1>17. CASE CardStep(c)
  BY <1>2, <1>17, DeliverKeepsCasInv, AcknowledgeKeepsCasInv DEF CardStep
<1>18. ASSUME NEW msg \in Requests, RdmaCall(c, msg) PROVE CasInv'
  BY <1>2, <1>18, CallsKeepCasInv DEF RdmaCall, Busy, regionVars, histVars, rdmaVars
<1> QED
  BY <1>4, <1>6, <1>7, <1>8, <1>9, <1>10, <1>11, <1>12, <1>13, <1>14, <1>15, <1>16, <1>17, <1>18
     DEF OverRdma, RdmaNext, RdmaWorkerStep, RdmaCallStep

(* Every step keeps CasInv.                                                *)
LEMMA CasInvInductive == CasInv /\ [Next]_vars => CasInv'
<1> SUFFICES ASSUME CasInv, [Next]_vars PROVE CasInv'
  OBVIOUS
<1>1. NodeShape
  BY DEF CasInv
<1>2. CASE UNCHANGED vars
  BY <1>1, <1>2, NoSession DEF vars, nodeVars, regionVars, histVars, rdmaVars, NodeShape
<1>3. CASE Both(Signal \/ ServerFails \/ MainStep \/ ThreadLoop \/ OtherCas)
  <2>1. UNCHANGED <<cq, buf, transport>>
    BY <1>3 DEF Both, rdmaVars
  <2>2. CASE Signal \/ ServerFails \/ ServerLoop \/ CloseRegion \/ ThreadLoop
    BY <1>1, <2>1, <2>2, NoSession DEF Signal, ServerFails, ServerLoop, CloseRegion, ThreadLoop,
                                       regionVars, histVars, NodeShape
  <2>3. CASE OtherCas
    <3>1. word' = word + 1
      BY <1>1, <2>3 DEF OtherCas, td_region_cas64, Message, NodeShape
    <3> QED
      BY <1>1, <2>1, <2>3, <3>1, NoSession DEF OtherCas, histVars, NodeShape
  <2>4. CASE Exit
    BY <2>1, <2>4, WorkersRest DEF Exit, regionVars, histVars, NoWorker, Serving
  <2> QED
    BY <1>3, <2>2, <2>3, <2>4 DEF Both, MainStep
<1>4. ASSUME NEW e \in Evictors, Both(Sweep(e) \/ Spin(e)) PROVE CasInv'
  BY <1>1, <1>4, NoSession DEF Both, Sweep, Spin, histVars, rdmaVars, NodeShape
<1>5. ASSUME NEW c \in CN, Both(ServeStep(c)) PROVE CasInv'
  BY <1>5, ServeStepKeepsCasInv DEF Both, rdmaVars
<1> QED
  BY <1>2, <1>3, <1>4, <1>5, TcpKeepsCasInv, RdmaKeepsCasInv DEF Next

(* CasInv holds at the start.                                              *)
LEMMA InitCasInv == Init => CasInv
<1> SUFFICES ASSUME Init PROVE CasInv
  OBVIOUS
<1>1. NodeShape
  BY DEF Init, NodeInit, RdmaInit, NodeShape
<1>2. ASSUME NEW c \in CN PROVE SessionInv(c)
  <2>1. /\ worker[c] = NoWorker /\ cn[c] = Off /\ seen[c] = Nil
        /\ sent[c] = [s \in Sides |-> NotSent] /\ cq[c] = [s \in Sides |-> << >>]
        /\ buf[c] = [s \in Sides |-> NoMessage]
    BY DEF Init, NodeInit, RdmaInit
  <2>2. Shape(c)
    BY <2>1, QueueEmpty DEF Shape, NoWorker, NotSent
  <2>3. ClientInv(c)
    BY <2>1 DEF ClientInv, Off, NoMessage, Message, MsgFields, Outcome
  <2>4. ~RequestOut(c) /\ ~RequestIn(c) /\ ~Serving(c) /\ ~AnswerOut(c) /\ ~AnswerIn(c)
    BY <2>1, QueueEmpty DEF RequestOut, RequestIn, Serving, AnswerOut, AnswerIn, Sides, NoWorker
  <2>5. OneExchange(c) /\ Contents(c)
    BY <2>4 DEF OneExchange, Contents, Serving
  <2> QED
    BY <2>2, <2>3, <2>5 DEF SessionInv
<1> QED
  BY <1>1, <1>2 DEF CasInv

(* A session has one exchange at a time, and it carries what it should.    *)
LEMMA AlwaysCasInv == Spec => []CasInv
  BY InitCasInv, CasInvInductive, PTL DEF Spec

-----------------------------------------------------------------------------
(* Resets.                                                                 *)

(* No session is on its way to a worse state: sockets are as they were,    *)
(* the dead stay dead and send nothing, and a worker whose send would      *)
(* raise SIGPIPE takes nothing.                                            *)
LEMMA ResetInvKept ==
  ASSUME ResetInv, UNCHANGED <<peer, transport>>,
         \A d \in CN :
             /\ cn[d].pc = "dead" => cn'[d].pc = "dead"
             /\ cn[d].pc = "dead" /\ RequestOut(d)' => RequestOut(d)
             /\ \/ worker'[d] = worker[d]
                \/ worker'[d].pc \notin {"body", "serve", "reply", "payload"}
                \/ peer[d] # "pipe" /\ worker'[d].pc \in {"serve", "reply"}
                \/ peer[d] # "pipe" /\ worker'[d].pc = "body" /\ worker'[d].msg.op = "write"
                \/ /\ worker[d].pc = "reply" /\ worker'[d].pc = "reply"
                   /\ worker[d].msg.op = "write"
                      => worker'[d].msg.op = "write" /\ worker'[d].msg.status = 1
  PROVE  ResetInv'
<1>1. ASSUME NEW d \in CN PROVE ResetOK(d)'
  <2>1. ResetOK(d)
    BY DEF ResetInv
  <2> QED
    BY <2>1 DEF ResetOK
<1> QED
  BY <1>1 DEF ResetInv

(* Over RDMA there are no sockets.                                         *)
LEMMA RdmaKeepsResetInv ==
  ASSUME ResetInv, CasInv, NEW c \in CN, OverRdma(RdmaNext(c))
  PROVE  ResetInv'
<1>1. UNCHANGED <<peer, transport>> /\ transport = "rdma"
  BY DEF OverRdma, tcpVars
<1>2. NodeShape /\ DOMAIN worker[c] = {"pc", "msg"}
  BY DEF CasInv, SessionInv, Shape
<1>3. \A d \in CN : worker'[d] # worker[d] => worker'[d].pc \notin {"body", "payload"}
  <2>1. CASE RdmaConnect(c)
    BY <1>2, <2>1 DEF RdmaConnect, NodeShape
  <2>2. CASE RdmaLost(c) \/ RdmaCallStep(c) \/ CardStep(c)
    BY <2>2 DEF RdmaLost, RdmaCallStep, SendDone, AnswerDropped, RdmaAnswered, RdmaCallFails,
                CardStep, Deliver, Acknowledge
  <2>3. CASE RdmaTake(c)
    BY <1>2, <2>3 DEF RdmaTake, Taken, NodeShape
  <2>4. CASE EmptyPoll(c) \/ RdmaReply(c)
    BY <1>2, <2>4 DEF EmptyPoll, RdmaReply, NodeShape
  <2>5. CASE AnswerSent(c) \/ AnswerFails(c)
    <3>1. /\ AfterAnswer(worker[c]).pc \notin {"body", "payload"}
          /\ NoWorker.pc \notin {"body", "payload"}
      BY DEF AfterAnswer, NoWorker
    <3> QED
      BY <1>2, <2>5, <3>1 DEF AnswerSent, AnswerFails, NodeShape
  <2>6. CASE RequestDropped(c)
    BY <2>6 DEF RequestDropped
  <2>7. ASSUME NEW msg \in Requests, RdmaCall(c, msg) PROVE worker' = worker
    BY <2>7 DEF RdmaCall
  <2> QED
    BY <2>1, <2>2, <2>3, <2>4, <2>5, <2>6, <2>7 DEF OverRdma, RdmaNext, RdmaWorkerStep
<1>4. ASSUME NEW d \in CN PROVE ResetOK(d)'
  <2>1. ResetOK(d)
    BY DEF ResetInv
  <2>2. peer[d] = "open"
    BY <1>1, <2>1 DEF ResetOK
  <2> QED
    BY <1>1, <1>3, <2>1, <2>2 DEF ResetOK
<1> QED
  BY <1>1, <1>4 DEF ResetInv

(* A worker that serves.                                                   *)
LEMMA ServeStepKeepsResetInv ==
  ASSUME ResetInv, CasInv, NEW c \in CN, ServeStep(c), UNCHANGED <<peer, transport>>
  PROVE  ResetInv'
<1>1. NodeShape /\ DOMAIN worker[c] = {"pc", "msg"} /\ ResetOK(c)
  BY DEF CasInv, SessionInv, Shape, ResetInv
<1>2. UNCHANGED <<cn, sent>>
  BY DEF ServeStep, WorkerLoop, Serve, ServeUnmapped
<1>3. \A d \in CN : RequestOut(d)' => RequestOut(d)
  BY <1>2 DEF RequestOut
<1>4. ASSUME NEW compare, NEW status, Reply(c, compare, status),
             worker[c].pc \in {"serve", "reply"},
             worker[c].pc = "reply" /\ worker[c].msg.op = "write" => status = 1
      PROVE  ResetInv'
  <2>1. DOMAIN worker[c].msg = MsgFields
    BY <1>4 DEF CasInv, SessionInv, Contents, Serving
  <2>2. /\ worker'[c].pc = "reply" /\ \A d \in CN : d # c => worker'[d] = worker[d]
        /\ worker'[c].msg.op = worker[c].msg.op /\ worker'[c].msg.status = status
    BY <1>1, <1>4, <2>1 DEF Reply, NodeShape, MsgFields
  <2>3. worker[c].pc = "reply" \/ peer[c] # "pipe"
    BY <1>1, <1>4 DEF ResetOK
  <2> QED
    BY <1>2, <1>3, <1>4, <2>2, <2>3, ResetInvKept
<1>5. CASE WorkerLoop(c)
  <2>1. worker'[c].pc \in {"none", "recv"} /\ \A d \in CN : d # c => worker'[d] = worker[d]
    BY <1>1, <1>5 DEF WorkerLoop, NoWorker, NodeShape
  <2> QED
    BY <1>2, <1>3, <2>1, ResetInvKept
<1>6. CASE Serve(c)
  BY <1>4, <1>6 DEF Serve
<1>7. CASE ServeUnmapped(c)
  <2>1. ASSUME Kill PROVE ResetInv'
    <3>1. \A d \in CN : worker'[d].pc = "none"
      BY <2>1 DEF Kill, NoWorker
    <3> QED
      BY <1>2, <1>3, <3>1, ResetInvKept
  <2> QED
    BY <1>4, <1>7, <2>1 DEF ServeUnmapped
<1> QED
  BY <1>5, <1>6, <1>7 DEF ServeStep

(* The steps over TCP.                                                     *)
LEMMA TcpKeepsResetInv ==
  ASSUME ResetInv, CasInv, NEW c \in CN, OverTcp(TcpNext(c))
  PROVE  ResetInv'
<1>1. NodeShape /\ Shape(c) /\ OneExchange(c) /\ ClientInv(c) /\ DOMAIN worker[c] = {"pc", "msg"}
  BY DEF CasInv, SessionInv, Shape
<1>2. transport' = transport /\ transport = "tcp"
  BY DEF OverTcp
<1>3. ResetOK(c) /\ DOMAIN peer = CN
  BY DEF ResetInv
<1>4. ASSUME DOMAIN peer' = CN, ResetOK(c)',
             \A d \in CN : d # c => /\ peer'[d] = peer[d] /\ cn'[d] = cn[d]
                                    /\ sent'[d] = sent[d] /\ worker'[d] = worker[d]
      PROVE  ResetInv'
  <2>1. ASSUME NEW d \in CN, d # c PROVE ResetOK(d)'
    <3>1. ResetOK(d)
      BY DEF ResetInv
    <3> QED
      BY <1>2, <1>4, <2>1, <3>1 DEF ResetOK, RequestOut
  <2> QED
    BY <1>4, <2>1 DEF ResetInv
<1>5. CASE TcpConnect(c)
  <2>1. /\ worker' = worker /\ peer' = [peer EXCEPT ![c] = "open"]
        /\ \A d \in CN : d # c => cn'[d] = cn[d] /\ sent'[d] = sent[d]
    BY <1>1, <1>5 DEF TcpConnect, NodeShape
  <2>2. ResetOK(c)'
    BY <1>3, <2>1 DEF ResetOK
  <2> QED
    BY <1>3, <1>4, <2>1, <2>2
<1>6. CASE TcpAccept(c)
  <2>1. /\ UNCHANGED <<peer, cn, sent>> /\ \A d \in CN : d # c => worker'[d] = worker[d]
        /\ worker'[c] = worker[c] \/ worker'[c].pc = "loop"
    BY <1>1, <1>6 DEF TcpAccept, NodeShape
  <2>2. \A d \in CN : RequestOut(d)' => RequestOut(d)
    BY <2>1 DEF RequestOut
  <2> QED
    BY <1>2, <2>1, <2>2, ResetInvKept
<1>7. CASE TcpLost(c)
  <2>1. /\ worker' = worker /\ \A d \in CN : d # c => cn'[d] = cn[d] /\ sent'[d] = sent[d]
        /\ \E p \in {"fin", "rst"} : peer' = [peer EXCEPT ![c] = p]
        /\ cn'[c].pc = "dead"
    BY <1>1, <1>7 DEF TcpLost, NodeShape, Failed, ClientInv
  <2>2. ResetOK(c)'
    BY <1>2, <1>3, <2>1 DEF ResetOK
  <2> QED
    BY <1>3, <1>4, <2>1, <2>2
<1>8. CASE TcpTake(c)
  <2>1. UNCHANGED <<peer, cn>> /\ \A d \in CN : d # c => worker'[d] = worker[d]
    BY <1>1, <1>8 DEF TcpTake, Taken, tcpVars, NodeShape
  <2>2. \A d \in CN : RequestOut(d)' => RequestOut(d)
    <3>1. CASE sent' = [sent EXCEPT ![c]["cn"] = NotSent]
      <4>1. sent'[c]["cn"] = NotSent /\ \A d \in CN : d # c => sent'[d] = sent[d]
        BY <1>1, <3>1 DEF NodeShape, Shape, Sides
      <4> QED
        BY <4>1 DEF RequestOut
    <3>2. CASE UNCHANGED sent
      BY <3>2 DEF RequestOut
    <3> QED
      BY <1>8, <3>1, <3>2 DEF TcpTake
  <2> DEFINE pc == IF sent[c]["cn"].msg.op = "write" THEN "body" ELSE "serve"
  <2>3. \/ worker'[c].pc = "none"
        \/ peer[c] # "pipe" /\ worker'[c].pc = "serve"
        \/ peer[c] # "pipe" /\ worker'[c].pc = "body" /\ worker'[c].msg.op = "write"
    <3>1. CASE sent[c]["cn"] # NotSent /\ Taken(c, sent[c]["cn"].msg, pc)
      <4>1. RequestOut(c)
        BY <1>1, <1>2, <3>1 DEF RequestOut, Shape, Sides
      <4> QED
        BY <1>1, <1>3, <1>8, <3>1, <4>1 DEF TcpTake, Taken, NodeShape, ResetOK
    <3>2. CASE worker' = [worker EXCEPT ![c] = NoWorker]
      BY <1>1, <3>2 DEF NodeShape, NoWorker
    <3> QED
      BY <1>8, <3>1, <3>2 DEF TcpTake
  <2> QED
    BY <1>2, <2>1, <2>2, <2>3, ResetInvKept
<1>9. CASE TcpReply(c)
  <2> DEFINE w == worker[c]
  <2>1. w.pc \in {"reply", "payload"} /\ cn' = cn
    BY <1>9 DEF TcpReply, Ready
  <2>2. ~RequestOut(c)
    BY <1>1, <2>1 DEF OneExchange, Serving
  <2>3. /\ AfterSend(w).pc \in {"payload", "none", "loop"}
        /\ AfterSend(w).pc = "payload" => AfterSend(w).msg.op = "read"
    BY <1>1 DEF AfterSend, NoWorker
  <2>4. ASSUME worker' = [worker EXCEPT ![c] = AfterSend(w)], peer[c] = "open", UNCHANGED peer,
               \A d \in CN : d # c => sent'[d] = sent[d]
        PROVE  ResetInv'
    <3>1. ResetOK(c)'
      BY <1>1, <2>3, <2>4 DEF ResetOK, NodeShape
    <3> QED
      BY <1>1, <1>3, <1>4, <2>1, <2>4, <3>1 DEF NodeShape
  <2>5. ASSUME NEW p \in {"fin", "pipe"}, worker' = [worker EXCEPT ![c] = AfterSend(w)],
               peer[c] = "fin", peer' = [peer EXCEPT ![c] = p], UNCHANGED sent
        PROVE  ResetInv'
    <3>1. ~RequestOut(c)'
      BY <2>2, <2>5 DEF RequestOut
    <3>2. ResetOK(c)'
      BY <1>1, <1>2, <1>3, <2>1, <2>3, <2>5, <3>1 DEF ResetOK, NodeShape
    <3> QED
      BY <1>1, <1>3, <1>4, <2>1, <2>5, <3>2 DEF NodeShape
  <2>6. ASSUME \A d \in CN : worker'[d] = worker[d] \/ worker'[d].pc = "none",
               UNCHANGED <<sent, peer>>
        PROVE  ResetInv'
    <3>1. \A d \in CN : RequestOut(d)' => RequestOut(d)
      BY <2>6 DEF RequestOut
    <3> QED
      BY <1>2, <2>1, <2>6, <3>1, ResetInvKept
  <2>7. CASE peer[c] = "open"
    <3>1. /\ worker' = [worker EXCEPT ![c] = AfterSend(w)] /\ UNCHANGED peer
          /\ \A d \in CN : d # c => sent'[d] = sent[d]
      BY <1>1, <1>9, <2>7 DEF TcpReply, NodeShape
    <3> QED
      BY <2>4, <2>7, <3>1
  <2>8. CASE peer[c] = "fin"
    BY <1>9, <2>5, <2>8 DEF TcpReply
  <2>9. CASE peer[c] \in {"pipe", "rst"}
    <3>1. /\ \A d \in CN : worker'[d] = worker[d] \/ worker'[d].pc = "none"
          /\ UNCHANGED <<sent, peer>>
      BY <1>1, <1>9, <2>9 DEF TcpReply, Kill, NoWorker, NodeShape
    <3> QED
      BY <2>6, <3>1
  <2> QED
    BY <1>9, <2>7, <2>8, <2>9 DEF TcpReply
<1>10. CASE TcpCallStep(c)
  <2>1. /\ UNCHANGED <<peer, worker>> /\ cn[c].pc \in Busy
        /\ \A d \in CN : d # c => cn'[d] = cn[d] /\ sent'[d] = sent[d]
    BY <1>1, <1>10 DEF TcpCallStep, TcpSendBody, TcpAnswered, TcpCallFails, Returns, tcpVars,
                       NodeShape, Busy
  <2>2. \A d \in CN : d # c /\ RequestOut(d)' => RequestOut(d)
    BY <2>1 DEF RequestOut
  <2> QED
    BY <1>2, <2>1, <2>2, ResetInvKept DEF Busy
<1>11. ASSUME NEW msg \in Requests, TcpCall(c, msg) PROVE ResetInv'
  <2>1. /\ UNCHANGED <<peer, worker>> /\ cn[c].pc = "idle"
        /\ \A d \in CN : d # c => cn'[d] = cn[d] /\ sent'[d] = sent[d]
    BY <1>1, <1>11 DEF TcpCall, Calls, tcpVars, NodeShape
  <2>2. \A d \in CN : d # c /\ RequestOut(d)' => RequestOut(d)
    BY <2>1 DEF RequestOut
  <2> QED
    BY <1>2, <2>1, <2>2, ResetInvKept
<1>12. CASE TcpTakeBody(c)
  <2>1. /\ worker[c].pc = "body" /\ UNCHANGED <<cn, sent>> /\ worker[c].msg.op = "write"
        /\ peer[c] # "pipe"
    BY <1>3, <1>12 DEF TcpTakeBody, ResetOK
  <2>2. ~RequestOut(c) /\ DOMAIN worker[c].msg = MsgFields
    BY <1>1, <2>1 DEF OneExchange, Serving, CasInv, SessionInv, Contents
  <2>3. ~RequestOut(c)'
    BY <2>1, <2>2 DEF RequestOut
  <2>4. CASE worker' = [worker EXCEPT ![c].pc = "serve"] /\ UNCHANGED peer
    <3>1. worker'[c].pc = "serve" /\ \A d \in CN : d # c => worker'[d] = worker[d]
      BY <1>1, <2>4 DEF NodeShape
    <3>2. ResetOK(c)'
      BY <1>2, <1>3, <2>1, <2>4, <3>1 DEF ResetOK
    <3> QED
      BY <1>3, <1>4, <2>1, <2>4, <3>1, <3>2
  <2>5. CASE /\ Reply(c, 0, 1) /\ peer[c] # "open"
             /\ peer' = [peer EXCEPT ![c] = IF @ = "rst" THEN "pipe" ELSE @]
    <3>1. /\ worker'[c].pc = "reply" /\ \A d \in CN : d # c => worker'[d] = worker[d]
          /\ worker'[c].msg.op = "write" /\ worker'[c].msg.status = 1
      BY <1>1, <2>1, <2>2, <2>5 DEF Reply, NodeShape, MsgFields
    <3>2. DOMAIN peer' = CN /\ \A d \in CN : d # c => peer'[d] = peer[d]
      BY <1>3, <2>5
    <3>3. ResetOK(c)'
      BY <1>2, <1>3, <2>1, <2>3, <2>5, <3>1 DEF ResetOK
    <3> QED
      BY <1>4, <2>1, <3>1, <3>2, <3>3
  <2> QED
    BY <1>12, <2>4, <2>5 DEF TcpTakeBody
<1> QED
  BY <1>5, <1>6, <1>7, <1>8, <1>9, <1>10, <1>11, <1>12 DEF OverTcp, TcpNext, TcpWorkerStep

(* Every step keeps ResetInv.                                              *)
LEMMA ResetInvInductive == ResetInv /\ CasInv /\ [Next]_vars => ResetInv'
<1> SUFFICES ASSUME ResetInv, CasInv, [Next]_vars PROVE ResetInv'
  OBVIOUS
<1>1. ASSUME UNCHANGED <<peer, transport, cn, sent>>,
             worker' = worker \/ \A d \in CN : worker'[d].pc = "none"
      PROVE  ResetInv'
  <2>1. \A d \in CN : RequestOut(d)' => RequestOut(d)
    BY <1>1 DEF RequestOut
  <2> QED
    BY <1>1, <2>1, ResetInvKept
<1>2. CASE UNCHANGED vars
  BY <1>1, <1>2 DEF vars, nodeVars, tcpVars
<1>3. CASE Both(Signal \/ ServerFails \/ MainStep \/ ThreadLoop \/ OtherCas)
  <2>1. UNCHANGED <<peer, transport>>
    BY <1>3 DEF Both, tcpVars
  <2>2. CASE Signal \/ ServerFails \/ ServerLoop \/ CloseRegion \/ ThreadLoop \/ OtherCas
    BY <1>1, <2>1, <2>2 DEF Signal, ServerFails, ServerLoop, CloseRegion, ThreadLoop, OtherCas
  <2>3. CASE Exit
    BY <1>1, <2>1, <2>3 DEF Exit, NoWorker
  <2> QED
    BY <1>3, <2>2, <2>3 DEF Both, MainStep
<1>4. ASSUME NEW e \in Evictors, Both(Sweep(e) \/ Spin(e)) PROVE ResetInv'
  BY <1>1, <1>4 DEF Both, Sweep, Spin, tcpVars
<1>5. ASSUME NEW c \in CN, Both(ServeStep(c)) PROVE ResetInv'
  BY <1>5, ServeStepKeepsResetInv DEF Both, tcpVars
<1> QED
  BY <1>2, <1>3, <1>4, <1>5, TcpKeepsResetInv, RdmaKeepsResetInv DEF Next

(* The step that kills a node: a worker's access to the region that main   *)
(* has unmapped, or a send to a client whose reset is known.               *)
LEMMA WhoKills ==
  ASSUME ResetInv, Next, Alive, main' = "killed", mapped
  PROVE  \E c \in CN : SendsToDead(c)
<1>1. main # "killed"
  BY DEF Alive
<1>2. ASSUME NEW c \in CN, TcpReply(c)
      PROVE  SendsToDead(c)
  <2>1. ResetOK(c)
    BY DEF ResetInv
  <2>2. peer[c] = "pipe"
    BY <1>1, <1>2 DEF TcpReply
  <2> QED
    BY <1>2, <2>1, <2>2 DEF TcpReply, Ready, ResetOK, SendsToDead
<1>3. ASSUME NEW c \in CN, ServeStep(c) PROVE FALSE
  BY <1>1, <1>3 DEF ServeStep, WorkerLoop, Serve, ServeUnmapped, procVars
<1>4. ~Both(Signal \/ ServerFails \/ MainStep \/ ThreadLoop \/ OtherCas)
  BY <1>1 DEF Both, Signal, ServerFails, MainStep, ServerLoop, CloseRegion, Exit, ThreadLoop,
              OtherCas, procVars
<1>5. \A e \in Evictors : ~Both(Sweep(e) \/ Spin(e))
  BY <1>1 DEF Both, Sweep, Spin, procVars
<1>6. ASSUME NEW c \in CN, RdmaNext(c) PROVE FALSE
  <2>1. CASE RdmaConnect(c)
    BY <2>1 DEF RdmaConnect, Accepted
  <2>2. CASE ~RdmaConnect(c)
    BY <1>1, <1>6, <2>2 DEF RdmaNext, RdmaLost, CardStep, Deliver, Acknowledge, RdmaWorkerStep,
           RdmaTake, EmptyPoll, RdmaReply, AnswerSent, RequestDropped, AnswerFails,
           RdmaCallStep, SendDone, AnswerDropped, RdmaAnswered, RdmaCallFails, RdmaCall, procVars
  <2> QED
    BY <2>1, <2>2
<1>7. ASSUME NEW c \in CN, TcpNext(c) PROVE TcpReply(c)
  <2>1. ~TcpAccept(c)
    BY DEF TcpAccept, Accepted
  <2> QED
    BY <1>1, <1>7, <2>1 DEF TcpNext, TcpConnect, TcpLost, TcpWorkerStep, TcpTake,
           TcpTakeBody, TcpCallStep, TcpSendBody, TcpAnswered, TcpCallFails, TcpCall, procVars
<1> QED
  BY <1>2, <1>3, <1>4, <1>5, <1>6, <1>7 DEF Next, Both, OverTcp, OverRdma

(* A client's death kills a node that is not shutting down in two places   *)
(* only, whatever the other clients do: at the send of a READ's bytes,     *)
(* after a first send brought back a reset, and at the answer to a WRITE,  *)
(* after the receive of its bytes reported one (td_send_all raises         *)
(* SIGPIPE).  Elsewhere one send answers one request behind one receive,   *)
(* and the dead send no other.                                             *)
THEOREM DeathKillsOnlyInTransfer == Spec => DeathKillsInTransferOnly
<1>1. Init => ResetInv
  <2> SUFFICES ASSUME Init PROVE ResetInv
    OBVIOUS
  <2>1. \A c \in CN : peer[c] = "open" /\ worker[c].pc = "none"
    BY DEF Init, NodeInit, TcpInit, NoWorker
  <2> QED
    BY <2>1 DEF ResetInv, ResetOK, Init, TcpInit
<1>2. ResetInv /\ [Next]_vars =>
        [Alive /\ main' = "killed" /\ mapped => \E c \in CN : SendsToDead(c)]_vars
  BY WhoKills
<1> QED
  BY <1>1, <1>2, AlwaysCasInv, ResetInvInductive, PTL DEF Spec, DeathKillsInTransferOnly

-----------------------------------------------------------------------------
(* The node and its transports implement CasRegister.                      *)

(* What the caller of c was told last.                                     *)
AnsOf(c) == IF cn[c].reply.status = "cas" THEN cn[c].reply.found ELSE Nil

(* No call of CasRegister takes a step.                                    *)
LEMMA CasStutters ==
  ASSUME UNCHANGED <<word, seen>>,
         \A d \in CN : /\ CallOf(d)' = CallOf(d) /\ AnsOf(d)' = AnsOf(d)
                       /\ cn'[d].pc = "dead" <=> cn[d].pc = "dead"
  PROVE  UNCHANGED Cas!casVars
<1>1. [d \in CN |-> CallOf(d)]' = [d \in CN |-> CallOf(d)]
  OBVIOUS
<1>2. {d \in CN : cn[d].pc = "dead"}' = {d \in CN : cn[d].pc = "dead"}
  OBVIOUS
<1>3. [d \in CN |-> AnsOf(d)]' = [d \in CN |-> AnsOf(d)]
  OBVIOUS
<1> QED
  BY <1>1, <1>2, <1>3 DEF Cas!casVars, AnsOf

(* Steps that leave the clients alone.                                     *)
LEMMA SameClients ==
  ASSUME UNCHANGED <<word, seen, cn>>
  PROVE  UNCHANGED Cas!casVars
  BY CasStutters DEF CallOf, AnsOf

(* A client gives up its session.                                          *)
LEMMA FailIsFail ==
  ASSUME CasInv, NEW c \in CN, cn' = [cn EXCEPT ![c] = Failed(cn[c])], UNCHANGED <<word, seen>>
  PROVE  Cas!Fail(c)
<1>1. /\ cn'[c].pc = "dead" /\ cn'[c].call = cn[c].call /\ cn'[c].reply.status = "failed"
      /\ \A d \in CN : d # c => cn'[d] = cn[d]
  BY DEF CasInv, NodeShape, SessionInv, ClientInv, Failed, Outcome
<1>2. [d \in CN |-> CallOf(d)]' = [d \in CN |-> CallOf(d)]
  BY <1>1 DEF CallOf
<1>3. {d \in CN : cn[d].pc = "dead"}' = {d \in CN : cn[d].pc = "dead"} \cup {c}
  BY <1>1
<1>4. [d \in CN |-> AnsOf(d)]' = [[d \in CN |-> AnsOf(d)] EXCEPT ![c] = Nil]
  <2>1. \A d \in CN : AnsOf(d)' = IF d = c THEN Nil ELSE AnsOf(d)
    BY <1>1 DEF AnsOf
  <2> QED
    BY <2>1
<1> QED
  BY <1>2, <1>3, <1>4 DEF Cas!Fail, AnsOf

(* A client issues a request.                                              *)
LEMMA CallsIsInvoke ==
  ASSUME CasInv, NEW c \in CN, NEW msg \in Requests, NEW pc \in Busy, Calls(c, msg, pc),
         UNCHANGED <<word, seen>>
  PROVE  Cas!Invoke(c) \/ Cas!Forget(c)
<1>1. /\ cn'[c].pc = pc /\ cn'[c].call = msg /\ cn'[c].reply.status = "none"
      /\ cn[c].pc = "idle" /\ \A d \in CN : d # c => cn'[d] = cn[d]
  BY DEF Calls, CasInv, NodeShape, Off, Outcome
<1>2. cn[c].call.op = "none"
  BY <1>1 DEF CasInv, SessionInv, ClientInv
<1>3. {d \in CN : cn[d].pc = "dead"}' = {d \in CN : cn[d].pc = "dead"}
  BY <1>1 DEF Busy
<1>4. [d \in CN |-> AnsOf(d)]' = [[d \in CN |-> AnsOf(d)] EXCEPT ![c] = Nil]
  BY <1>1 DEF AnsOf
<1>5. CASE msg.op = "cas"
  <2>1. PICK e \in 0 .. MaxWord - 1 : msg.compare = e /\ msg.swap = e + 1
    BY <1>5, RequestShape
  <2>2. [d \in CN |-> CallOf(d)]' =
          [[d \in CN |-> CallOf(d)] EXCEPT ![c] = [compare |-> e, swap |-> e + 1]]
    BY <1>1, <1>5, <2>1 DEF CallOf
  <2>3. [d \in CN |-> CallOf(d)][c] = Nil
    BY <1>2 DEF CallOf
  <2>4. c \notin {d \in CN : cn[d].pc = "dead"}
    BY <1>1
  <2> QED
    BY <1>3, <1>4, <2>1, <2>2, <2>3, <2>4 DEF Cas!Invoke, AnsOf
<1>6. CASE msg.op # "cas"
  <2>1. [d \in CN |-> CallOf(d)]' = [d \in CN |-> CallOf(d)]
    BY <1>1, <1>2, <1>6 DEF CallOf
  <2> QED
    BY <1>3, <1>4, <2>1 DEF Cas!Forget, AnsOf
<1> QED
  BY <1>5, <1>6

(* A connection begins with HELLO.                                         *)
LEMMA HelloIsNone ==
  ASSUME CasInv, NEW c \in CN, cn[c].pc = "off", NEW pc \in Busy,
         cn' = [cn EXCEPT ![c].pc = pc, ![c].call = Message("hello", 0, 0, 0)],
         UNCHANGED <<word, seen>>
  PROVE  UNCHANGED Cas!casVars
<1>1. /\ cn'[c].pc = pc /\ cn'[c].call.op = "hello" /\ cn'[c].reply = cn[c].reply
      /\ \A d \in CN : d # c => cn'[d] = cn[d]
  BY DEF CasInv, NodeShape, SessionInv, ClientInv, Message
<1>2. cn[c].call.op = "none"
  BY DEF CasInv, SessionInv, ClientInv
<1>3. ASSUME NEW d \in CN
      PROVE  /\ CallOf(d)' = CallOf(d) /\ AnsOf(d)' = AnsOf(d)
             /\ cn'[d].pc = "dead" <=> cn[d].pc = "dead"
  <2>1. CASE d # c
    <3>1. cn'[d] = cn[d]
      BY <1>1, <2>1
    <3>2. CallOf(d)' = CallOf(d)
      BY <3>1 DEF CallOf
    <3>3. AnsOf(d)' = AnsOf(d)
      BY <3>1 DEF AnsOf
    <3> QED
      BY <3>1, <3>2, <3>3
  <2>2. CASE d = c
    <3>1. CallOf(c)' = Nil /\ CallOf(c) = Nil
      BY <1>1, <1>2 DEF CallOf
    <3>2. AnsOf(c)' = AnsOf(c)
      BY <1>1 DEF AnsOf
    <3>3. cn'[c].pc # "dead" /\ cn[c].pc # "dead"
      BY <1>1 DEF Busy
    <3> QED
      BY <2>2, <3>1, <3>2, <3>3
  <2> QED
    BY <2>1, <2>2
<1> QED
  BY <1>3, CasStutters

(* A client takes an answer.                                               *)
LEMMA AnsweredIsReturn ==
  ASSUME CasInv, NEW c \in CN, NEW msg, cn[c].pc = "answer", Returns(c, msg), word' = word,
         Answers(c, msg)
  PROVE  Cas!Return(c) \/ Cas!Fail(c) \/ UNCHANGED Cas!casVars
<1>1. NodeShape /\ ClientInv(c)
  BY DEF CasInv, SessionInv
<1>2. /\ cn' = [cn EXCEPT ![c] = Answered(cn[c], msg)]
      /\ seen' = [seen EXCEPT ![c] = IF msg.status = 0 THEN Nil ELSE seen[c]]
  BY <1>1 DEF Returns, NodeShape
<1>3. CASE msg.status # 0
  <2>1. cn' = [cn EXCEPT ![c] = Failed(cn[c])]
    BY <1>1, <1>2, <1>3 DEF Answered, NodeShape
  <2>2. seen' = [seen EXCEPT ![c] = seen[c]]
    BY <1>2, <1>3
  <2>3. seen' = seen
    BY <1>1, <2>2 DEF NodeShape
  <2> QED
    BY <2>1, <2>3, FailIsFail
<1>4. CASE msg.status = 0 /\ cn[c].call.op = "cas"
  <2>1. /\ cn'[c].pc = "idle" /\ cn'[c].call.op = "none" /\ cn'[c].reply.status = "cas"
        /\ cn'[c].reply.found = msg.compare /\ \A d \in CN : d # c => cn'[d] = cn[d]
    BY <1>1, <1>2, <1>4 DEF Answered, NodeShape, ClientInv, Outcome, NoMessage, Message
  <2>2. seen[c] # Nil /\ msg.compare = seen[c] /\ seen' = [seen EXCEPT ![c] = Nil]
    BY <1>2, <1>4 DEF Answers
  <2>3. [d \in CN |-> CallOf(d)]' = [[d \in CN |-> CallOf(d)] EXCEPT ![c] = Nil]
    BY <2>1 DEF CallOf
  <2>4. [d \in CN |-> CallOf(d)][c] # Nil
    BY <1>1, <1>4, NilAssumption DEF CallOf, ClientInv
  <2>5. {d \in CN : cn[d].pc = "dead"}' = {d \in CN : cn[d].pc = "dead"}
    BY <2>1
  <2>6. [d \in CN |-> AnsOf(d)]' = [[d \in CN |-> AnsOf(d)] EXCEPT ![c] = seen[c]]
    BY <2>1, <2>2 DEF AnsOf
  <2>7. c \notin {d \in CN : cn[d].pc = "dead"}
    OBVIOUS
  <2> QED
    BY <2>2, <2>3, <2>4, <2>5, <2>6, <2>7 DEF Cas!Return, AnsOf
<1>5. CASE msg.status = 0 /\ cn[c].call.op # "cas"
  <2>1. seen[c] = Nil
    BY <1>1, <1>5 DEF ClientInv
  <2>2. seen' = seen
    <3>1. seen' = [seen EXCEPT ![c] = seen[c]]
      BY <1>2, <1>5, <2>1
    <3> QED
      BY <1>1, <3>1 DEF NodeShape
  <2>3. /\ cn'[c].pc \in {"idle", "off"} /\ cn'[c].call.op = "none"
        /\ cn'[c].reply.status # "cas" /\ \A d \in CN : d # c => cn'[d] = cn[d]
    <3>1. CASE cn[c].call.op = "close"
      BY <1>1, <1>2, <1>5, <3>1 DEF Answered, NodeShape, Off, Outcome, NoMessage, Message
    <3>2. CASE cn[c].call.op # "close"
      BY <1>1, <1>2, <1>5, <3>2 DEF Answered, NodeShape, ClientInv, Outcome, NoMessage, Message
    <3> QED
      BY <3>1, <3>2
  <2>4. cn[c].reply.status # "cas"
    BY <1>1 DEF ClientInv
  <2> QED
    BY <1>5, <2>2, <2>3, <2>4, CasStutters DEF CallOf, AnsOf
<1> QED
  BY <1>3, <1>4, <1>5

(* The worker serves a CAS.                                                *)
LEMMA ServeIsTakeEffect ==
  ASSUME CasInv, NEW c \in CN, Serve(c)
  PROVE  Cas!TakeEffect(c) \/ UNCHANGED Cas!casVars
<1>1. NodeShape /\ ClientInv(c) /\ Contents(c)
  BY DEF CasInv, SessionInv
<1>2. worker[c].msg = cn[c].call /\ seen[c] = Nil /\ UNCHANGED cn
  BY <1>1 DEF Serve, Contents
<1>3. CASE cn[c].call.op = "cas"
  <2>1. word' = td_region_cas64(cn[c].call) /\ seen' = [seen EXCEPT ![c] = word]
    BY <1>2, <1>3 DEF Serve
  <2>2. [d \in CN |-> CallOf(d)][c] = [compare |-> cn[c].call.compare, swap |-> cn[c].call.swap]
    BY <1>3 DEF CallOf
  <2>3. [d \in CN |-> CallOf(d)][c] # Nil
    BY <1>1, <1>3, <2>2, NilAssumption DEF ClientInv
  <2>4. /\ [d \in CN |-> CallOf(d)]' = [d \in CN |-> CallOf(d)]
        /\ {d \in CN : cn[d].pc = "dead"}' = {d \in CN : cn[d].pc = "dead"}
        /\ [d \in CN |-> AnsOf(d)]' = [d \in CN |-> AnsOf(d)]
    BY <1>2 DEF CallOf, AnsOf
  <2>5. word' = IF word = [d \in CN |-> CallOf(d)][c].compare
                THEN [d \in CN |-> CallOf(d)][c].swap ELSE word
    BY <2>1, <2>2 DEF td_region_cas64
  <2> QED
    BY <1>2, <2>1, <2>3, <2>4, <2>5 DEF Cas!TakeEffect, AnsOf
<1>4. CASE cn[c].call.op # "cas"
  BY <1>2, <1>4, SameClients DEF Serve
<1> QED
  BY <1>3, <1>4

(* The request of a client has been sent.                                  *)
LEMMA SentIsNone ==
  ASSUME CasInv, NEW c \in CN, cn[c].pc = "send", cn' = [cn EXCEPT ![c].pc = "answer"],
         UNCHANGED <<word, seen>>
  PROVE  UNCHANGED Cas!casVars
<1>1. /\ cn'[c].pc = "answer" /\ cn'[c].call = cn[c].call /\ cn'[c].reply = cn[c].reply
      /\ \A d \in CN : d # c => cn'[d] = cn[d]
  BY DEF CasInv, NodeShape, SessionInv, ClientInv
<1>2. ASSUME NEW d \in CN
      PROVE  /\ CallOf(d)' = CallOf(d) /\ AnsOf(d)' = AnsOf(d)
             /\ cn'[d].pc = "dead" <=> cn[d].pc = "dead"
  <2>1. /\ cn'[d].call = cn[d].call /\ cn'[d].reply = cn[d].reply
        /\ cn'[d].pc = "dead" <=> cn[d].pc = "dead"
    BY <1>1
  <2> QED
    BY <2>1 DEF CallOf, AnsOf
<1> QED
  BY <1>2, CasStutters

(* Every step of the node, its clients and the network is one of           *)
(* CasRegister, or none.                                                   *)
LEMMA StepIsCasStep ==
  CasInv /\ [Next]_vars => [Cas!CasNext]_(Cas!casVars)
<1> SUFFICES ASSUME CasInv, [Next]_vars PROVE Cas!CasNext \/ UNCHANGED Cas!casVars
  OBVIOUS
<1> DEFINE Goal == Cas!CasNext \/ UNCHANGED Cas!casVars
<1>1. NodeShape /\ \A c \in CN : ClientInv(c) /\ Contents(c) /\ Shape(c)
  BY DEF CasInv, SessionInv
<1>2. ASSUME NEW c \in CN,
             \/ Cas!Invoke(c) \/ Cas!TakeEffect(c) \/ Cas!Return(c) \/ Cas!Fail(c)
             \/ Cas!Forget(c) \/ UNCHANGED Cas!casVars
      PROVE  Goal
  BY <1>2 DEF Cas!CasNext
<1>3. CASE UNCHANGED vars
  BY <1>3, SameClients DEF vars, nodeVars, regionVars, histVars
<1>4. CASE Both(Signal \/ ServerFails \/ MainStep \/ ThreadLoop \/ OtherCas)
  <2>1. CASE Signal \/ ServerFails \/ MainStep \/ ThreadLoop
    BY <2>1, SameClients DEF Signal, ServerFails, MainStep, ServerLoop, CloseRegion, Exit,
                             ThreadLoop, regionVars, histVars
  <2>2. CASE OtherCas
    <3>1. word' = word + 1 /\ UNCHANGED <<cn, seen>>
      BY <1>1, <2>2 DEF OtherCas, td_region_cas64, Message, NodeShape, histVars
    <3>2. /\ [d \in CN |-> CallOf(d)]' = [d \in CN |-> CallOf(d)]
          /\ {d \in CN : cn[d].pc = "dead"}' = {d \in CN : cn[d].pc = "dead"}
          /\ [d \in CN |-> AnsOf(d)]' = [d \in CN |-> AnsOf(d)]
      BY <3>1 DEF CallOf, AnsOf
    <3>3. Cas!Other
      BY <3>1, <3>2 DEF Cas!Other, AnsOf
    <3> QED
      BY <3>3 DEF Cas!CasNext
  <2> QED
    BY <1>4, <2>1, <2>2 DEF Both
<1>5. ASSUME NEW e \in Evictors, Both(Sweep(e) \/ Spin(e)) PROVE Goal
  BY <1>5, SameClients DEF Both, Sweep, Spin, histVars
<1>6. ASSUME NEW c \in CN, Both(ServeStep(c)) PROVE Goal
  <2>1. CASE WorkerLoop(c) \/ ServeUnmapped(c)
    BY <2>1, SameClients DEF WorkerLoop, ServeUnmapped, regionVars, histVars
  <2>2. CASE Serve(c)
    BY <1>2, <2>2, ServeIsTakeEffect
  <2> QED
    BY <1>6, <2>1, <2>2 DEF Both, ServeStep
<1>7. ASSUME NEW c \in CN, OverTcp(TcpNext(c)) PROVE Goal
  <2>1. CASE TcpConnect(c)
    BY <2>1, HelloIsNone DEF TcpConnect, Busy, regionVars, histVars
  <2>2. CASE TcpAccept(c) \/ TcpTake(c) \/ TcpTakeBody(c) \/ TcpReply(c)
    BY <2>2, SameClients DEF TcpAccept, TcpTake, TcpTakeBody, TcpReply, regionVars, histVars
  <2>3. CASE TcpLost(c) \/ TcpCallFails(c)
    <3>1. cn' = [cn EXCEPT ![c] = Failed(cn[c])] /\ UNCHANGED <<word, seen>>
      BY <1>1, <2>3 DEF TcpLost, TcpCallFails, regionVars, histVars, NodeShape
    <3> QED
      BY <1>2, <3>1, FailIsFail
  <2>4. CASE TcpAnswered(c)
    <3>1. AnswerOut(c)
      BY <1>1, <1>7, <2>4 DEF TcpAnswered, AnswerOut, OverTcp, Shape, Sides
    <3>2. Answers(c, sent[c]["mn"].msg)
      BY <1>1, <3>1 DEF Contents
    <3>3. Returns(c, sent[c]["mn"].msg) /\ word' = word /\ cn[c].pc = "answer"
      BY <2>4 DEF TcpAnswered, regionVars
    <3> QED
      BY <1>2, <3>2, <3>3, AnsweredIsReturn
  <2>5. ASSUME NEW msg \in Requests, TcpCall(c, msg) PROVE Goal
    <3>1. (IF msg.op = "write" THEN "send" ELSE "answer") \in Busy
      BY DEF Busy
    <3> QED
      BY <1>2, <2>5, <3>1, CallsIsInvoke DEF TcpCall, regionVars, histVars
  <2>6. CASE TcpSendBody(c)
    BY <1>1, <2>6, SentIsNone DEF TcpSendBody, regionVars, histVars
  <2> QED
    BY <1>7, <2>1, <2>2, <2>3, <2>4, <2>5, <2>6 DEF OverTcp, TcpNext, TcpWorkerStep, TcpCallStep
<1>8. ASSUME NEW c \in CN, OverRdma(RdmaNext(c)) PROVE Goal
  <2>1. CASE RdmaConnect(c)
    BY <2>1, HelloIsNone DEF RdmaConnect, Busy, regionVars, histVars
  <2>2. CASE AnswerDropped(c) \/ RdmaWorkerStep(c) \/ CardStep(c)
    BY <2>2, SameClients DEF AnswerDropped, RdmaWorkerStep, RdmaTake, EmptyPoll, RdmaReply,
         AnswerSent, RequestDropped, AnswerFails, CardStep, Deliver, Acknowledge,
         regionVars, histVars
  <2>3. CASE SendDone(c)
    BY <1>1, <2>3, SentIsNone DEF SendDone, regionVars, histVars
  <2>4. CASE RdmaLost(c)
    <3>1. /\ UNCHANGED <<word, seen>>
          /\ cn' = cn \/ cn' = [cn EXCEPT ![c] = Failed(cn[c])]
      BY <1>1, <2>4 DEF RdmaLost, regionVars, histVars, NodeShape
    <3> QED
      BY <1>2, <3>1, FailIsFail, SameClients
  <2>5. CASE RdmaCallFails(c)
    <3>1. cn' = [cn EXCEPT ![c] = Failed(cn[c])] /\ UNCHANGED <<word, seen>>
      BY <1>1, <2>5 DEF RdmaCallFails, regionVars, histVars, NodeShape
    <3> QED
      BY <1>2, <3>1, FailIsFail
  <2>6. CASE RdmaAnswered(c)
    <3>1. Polls(c, "cn", "RECV") /\ "cn" \in Sides
      BY <2>6 DEF RdmaAnswered, Sides
    <3>2. AnswerIn(c)
      BY <3>1, PollsShape DEF AnswerIn
    <3>3. Answers(c, buf[c]["cn"])
      BY <1>1, <3>2 DEF Contents
    <3>4. Returns(c, buf[c]["cn"]) /\ word' = word /\ cn[c].pc = "answer"
      BY <2>6 DEF RdmaAnswered, regionVars
    <3> QED
      BY <1>2, <3>3, <3>4, AnsweredIsReturn
  <2>7. ASSUME NEW msg \in Requests, RdmaCall(c, msg) PROVE Goal
    BY <1>2, <2>7, CallsIsInvoke DEF RdmaCall, Busy, regionVars, histVars
  <2> QED
    BY <1>8, <2>1, <2>2, <2>3, <2>4, <2>5, <2>6, <2>7 DEF OverRdma, RdmaNext, RdmaCallStep
<1> QED
  BY <1>3, <1>4, <1>5, <1>6, <1>7, <1>8 DEF Next

(* A CAS over either transport is atomic, for any number of clients: it    *)
(* takes effect once, between its request and its answer, and the answer   *)
(* brings the word it found (td_tcp_client_cas, td_rdma_client_cas),       *)
(* whatever completions are dropped, sessions lost and clients dead.  The  *)
(* invariant is that a session has one exchange at a time.                 *)
THEOREM NodeImplementsCas == Spec => ImplementsCas
<1>1. Init => Cas!CasInit
  <2> SUFFICES ASSUME Init PROVE Cas!CasInit
    OBVIOUS
  <2>1. \A c \in CN : cn[c].pc = "off" /\ cn[c].call.op = "none" /\ cn[c].reply.status = "none"
    BY DEF Init, NodeInit, Off, NoMessage, Message, Outcome
  <2>2. \A c \in CN : CallOf(c) = Nil /\ AnsOf(c) = Nil
    BY <2>1 DEF CallOf, AnsOf
  <2>3. word = 0 /\ seen = [c \in CN |-> Nil]
    BY DEF Init, NodeInit
  <2>4. /\ [d \in CN |-> CallOf(d)] = [d \in CN |-> Nil]
        /\ {d \in CN : cn[d].pc = "dead"} = {}
        /\ [d \in CN |-> AnsOf(d)] = [d \in CN |-> Nil]
    BY <2>1, <2>2
  <2> QED
    BY <2>3, <2>4 DEF Cas!CasInit, AnsOf
<1> QED
  BY <1>1, AlwaysCasInv, StepIsCasStep, PTL DEF Spec, ImplementsCas, Cas!CasSpec
=============================================================================
