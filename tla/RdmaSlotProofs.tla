--------------------------- MODULE RdmaSlotProofs ---------------------------
(***************************************************************************)
(* Proofs of what one-sided transfers, the mac and the CAS make of a slot  *)
(* over RDMA, for any number of clients, values, units of transfer,        *)
(* commands and failures.                                                  *)
(***************************************************************************)
EXTENDS RdmaSlot, TLAPS

BodyFields == Fields \ {"guard"}
ClientFields == {"pc", "op", "todo", "got", "prop", "alone", "reply", "ops"}

(* g is a function on the fields D.                                        *)
On(g, D) == g = [f \in D |-> g[f]]

-----------------------------------------------------------------------------
(* The inductive invariants.                                               *)

(* A slot that a writer made belongs together.                             *)
MadeWhole ==
    \A m \in made : /\ On(m, Fields)
                    /\ m.visible \in Nat
                    /\ m.guard = m.visible
                    /\ m.mac = td_crypto_mac(m)

(* The macs there are when the slots of M have been made: theirs, or none. *)
Macs(M) == {NoMac} \cup {m.mac : m \in M}

(* What a client holds, whatever the others do.                            *)
ClientOK(s, M) ==
    /\ DOMAIN s = ClientFields
    /\ On(s.got, Fields)
    /\ s.got.guard \in Nat
    /\ s.got.mac \in Macs(M)
    /\ s.pc = "read" => s.todo \subseteq Units
    /\ s.pc = "write" => s.todo \subseteq BodyUnits
    /\ s.pc \in {"write", "cas"} => s.prop \in M /\ s.prop.visible = s.got.guard + 1
    /\ s.pc \in Busy => s.reply.status = "none"
    /\ s.reply.status = "value" => s.got \in M
    /\ s.reply.status = "ok" => s.prop.visible \in Nat

(* The call of a client at its CAS.                                        *)
CallOK(c) ==
    /\ req[c] = None => seen[c] = None
    /\ req[c] # None => req[c].compare \in Nat /\ req[c].swap = req[c].compare + 1
    /\ cn[c].pc = "cas" => req[c].compare = cn[c].got.guard

SlotInv ==
    /\ word \in Nat
    /\ DOMAIN req = Callers /\ DOMAIN seen = Callers /\ DOMAIN cn = Callers
    /\ On(body, BodyFields)
    /\ body.mac \in Macs(made)
    /\ MadeWhole
    /\ \A c \in Callers : ClientOK(cn[c], made) /\ CallOK(c)

(* The CAS of c has found the epoch it compared with, or c has been told.  *)
Winning(c) ==
    \/ cn[c].reply.status = "ok"
    \/ cn[c].pc = "cas" /\ seen[c] # None /\ seen[c] = cn[c].got.guard

(* An epoch that was won has been reached, and is won by nobody else.      *)
WinInv ==
    /\ \A c \in Callers : Winning(c) => cn[c].prop.visible <= word
    /\ \A c, d \in Callers : c # d /\ Winning(c) /\ Winning(d)
                             => cn[c].prop.visible # cn[d].prop.visible

(* What a writer that is alone has moved is in the region.                 *)
LoneInv ==
    /\ LoneWritesDecode
    /\ \A c \in Callers :
          cn[c].pc = "write" /\ cn[c].alone =>
              /\ \A d \in Callers \ {c} : cn[d].pc # "write"
              /\ \A u \in BodyUnits \ cn[c].todo : \A f \in u : body[f] = cn[c].prop[f]

-----------------------------------------------------------------------------
(* Operators.                                                              *)

(* A proposal is whole and one epoch ahead of what was read.               *)
LEMMA ProposalWhole ==
  ASSUME NEW s, s.got.guard \in Nat
  PROVE  LET p == Proposal(s)
         IN  /\ On(p, Fields)
             /\ p.visible = s.got.guard + 1
             /\ p.guard = p.visible
             /\ p.mac = td_crypto_mac(p)
  BY DEF Proposal, WithMac, td_crypto_make_slot, td_crypto_mac, On, Fields

(* The slot of a fresh region.                                             *)
LEMMA ZeroSlotShape ==
  On(ZeroSlot, Fields) /\ ZeroSlot.guard = 0 /\ ZeroSlot.visible = 0 /\ ZeroSlot.mac = NoMac
  BY DEF ZeroSlot, WithMac, EmptySlot, On, Fields

(* Idle, and what Finish makes.                                            *)
LEMMA FinishShape ==
  ASSUME NEW s, NEW r
  PROVE  LET t == Finish(s, r)
         IN  /\ DOMAIN t = ClientFields
             /\ t.pc = "idle"
             /\ t.reply = r
             /\ t.got = IF r.status = "value" THEN s.got ELSE ZeroSlot
             /\ t.prop = IF r.status = "ok" THEN s.prop ELSE ZeroSlot
  BY DEF Finish, Idle, ClientFields

(* A slot whose mac is right and that was made by nobody does not exist.   *)
LEMMA DecodedWasMade ==
  ASSUME MadeWhole, NEW g, On(g, Fields), g.mac \in Macs(made), td_crypto_decode_slot(g)
  PROVE  g \in made
<1>1. g.mac = td_crypto_mac(g) /\ g.guard = g.visible
  BY DEF td_crypto_decode_slot, Torn
<1>2. g.mac # NoMac
  BY <1>1 DEF td_crypto_mac, NoMac
<1>3. PICK m \in made : g.mac = m.mac
  BY <1>2 DEF Macs
<1>4. td_crypto_mac(g) = td_crypto_mac(m) /\ m.guard = m.visible /\ On(m, Fields)
  BY <1>1, <1>3 DEF MadeWhole
<1>5. /\ g.visible = m.visible /\ g.hash = m.hash /\ g.tie = m.tie
      /\ g.valid = m.valid /\ g.tomb = m.tomb /\ g.data = m.data
  BY <1>4 DEF td_crypto_mac
<1>6. \A f \in Fields : g[f] = m[f]
  BY <1>1, <1>3, <1>4, <1>5 DEF Fields
<1>7. g = m
  BY <1>4, <1>6 DEF On
<1> QED
  BY <1>7

(* More slots that were made take nothing from what a client holds.        *)
LEMMA ClientGrows ==
  ASSUME NEW s, NEW M, NEW N, M \subseteq N, ClientOK(s, M)
  PROVE  ClientOK(s, N)
<1>1. Macs(M) \subseteq Macs(N)
  BY DEF Macs
<1> QED
  BY <1>1 DEF ClientOK

(* A client that is done holds what its answer is about, or nothing.       *)
LEMMA FinishOK ==
  ASSUME NEW s, NEW r, NEW M, ClientOK(s, M),
         r.status = "value" => s.got \in M,
         r.status = "ok" => s.prop.visible \in Nat
  PROVE  ClientOK(Finish(s, r), M)
<1> DEFINE t == Finish(s, r)
<1>1. /\ DOMAIN t = ClientFields
      /\ t.pc = "idle"
      /\ t.reply = r
      /\ t.got = IF r.status = "value" THEN s.got ELSE ZeroSlot
      /\ t.prop = IF r.status = "ok" THEN s.prop ELSE ZeroSlot
  BY FinishShape
<1>2. On(t.got, Fields) /\ t.got.guard \in Nat /\ t.got.mac \in Macs(M)
  BY <1>1, ZeroSlotShape DEF ClientOK, Macs
<1> HIDE DEF t
<1>3. ClientOK(t, M)
  BY <1>1, <1>2 DEF ClientOK, Busy
<1> QED
  BY <1>3 DEF t

(* The client c alone takes a step, which makes of it s.                   *)
LEMMA StepOfOne ==
  ASSUME SlotInv, NEW c \in Callers, NEW s, cn' = [cn EXCEPT ![c] = s],
         ClientOK(s, made'), made \subseteq made', MadeWhole',
         word' \in Nat, DOMAIN req' = Callers, DOMAIN seen' = Callers,
         On(body', BodyFields), body'.mac \in Macs(made'),
         \A d \in Callers : CallOK(d)'
  PROVE  SlotInv'
<1>1. DOMAIN cn' = Callers
  BY DEF SlotInv
<1>2. ASSUME NEW d \in Callers PROVE ClientOK(cn'[d], made')
  <2>1. CASE d = c
    BY <2>1 DEF SlotInv
  <2>2. CASE d # c
    BY <2>2, ClientGrows DEF SlotInv
  <2> QED
    BY <2>1, <2>2
<1> QED
  BY <1>1, <1>2 DEF SlotInv

-----------------------------------------------------------------------------
(* SlotInv is inductive: one lemma per action.                             *)

(* The read of a command is posted.                                        *)
LEMMA BeginSlotInv ==
  ASSUME SlotInv, NEW c \in Callers, NEW o, Begin(c, o)
  PROVE  SlotInv'
<1> DEFINE s == [Idle EXCEPT !.pc = "read", !.op = o, !.todo = Units, !.ops = cn[c].ops + 1]
<1>1. /\ DOMAIN s = ClientFields
      /\ s.pc = "read" /\ s.todo = Units /\ s.got = ZeroSlot
      /\ s.reply.status = "none"
  BY DEF Idle, ClientFields, Reply
<1>2. On(s.got, Fields) /\ s.got.guard \in Nat /\ s.got.mac \in Macs(made)
  BY <1>1, ZeroSlotShape DEF Macs
<1>3. cn' = [cn EXCEPT ![c] = s] /\ UNCHANGED <<word, req, seen, body, made>>
  BY DEF Begin, Forget, histVars
<1> HIDE DEF s
<1>4. ClientOK(s, made)
  BY <1>1, <1>2 DEF ClientOK, Busy
<1>5. ASSUME NEW d \in Callers PROVE CallOK(d)'
  BY <1>1, <1>3 DEF SlotInv, CallOK
<1> QED
  BY <1>3, <1>4, <1>5, StepOfOne DEF SlotInv, MadeWhole

(* A unit is moved: what it brings of a mac is the mac of the region, or   *)
(* that of a slot someone made.                                            *)
LEMMA TransferSlotInv ==
  ASSUME SlotInv, NEW c \in Callers, NEW u \in Units, Transfer(c, u)
  PROVE  SlotInv'
<1>1. UNCHANGED <<word, req, seen, made>>
  BY DEF Transfer, casVars, histVars
<1>2. ClientOK(cn[c], made)
  BY DEF SlotInv
<1>3. CASE cn[c].pc = "read"
  <2> DEFINE g == Overlay(cn[c].got, Slot, u)
             s == [cn[c] EXCEPT !.todo = @ \ {u}, !.got = g]
  <2>1. cn' = [cn EXCEPT ![c] = s] /\ body' = body
    BY <1>3 DEF Transfer, SlotInv
  <2>2. On(g, Fields) /\ g.guard \in Nat /\ g.mac \in Macs(made)
    BY <1>2 DEF Overlay, Slot, On, Fields, BodyFields, SlotInv, ClientOK
  <2> HIDE DEF g
  <2>3. /\ DOMAIN s = ClientFields /\ s.got = g /\ s.todo \subseteq cn[c].todo
        /\ s.pc = cn[c].pc /\ s.reply = cn[c].reply
    BY <1>2 DEF ClientOK, ClientFields
  <2> HIDE DEF s
  <2>4. ClientOK(s, made)
    BY <1>2, <1>3, <2>2, <2>3 DEF ClientOK, Busy
  <2>5. ASSUME NEW d \in Callers PROVE CallOK(d)'
    BY <1>1, <1>3, <2>1, <2>3 DEF SlotInv, CallOK
  <2> QED
    BY <1>1, <2>1, <2>4, <2>5, StepOfOne DEF SlotInv, MadeWhole
<1>4. CASE cn[c].pc = "write"
  <2> DEFINE s == [cn[c] EXCEPT !.todo = @ \ {u}]
  <2>1. cn' = [cn EXCEPT ![c] = s] /\ body' = Overlay(body, cn[c].prop, u)
    BY <1>4 DEF Transfer, SlotInv
  <2>2. cn[c].prop \in made
    BY <1>2, <1>4 DEF ClientOK
  <2>3. On(body', BodyFields) /\ body'.mac \in Macs(made)
    BY <2>1, <2>2 DEF Overlay, On, BodyFields, Fields, SlotInv, Macs
  <2>4. /\ DOMAIN s = ClientFields /\ s.got = cn[c].got /\ s.todo \subseteq cn[c].todo
        /\ s.pc = cn[c].pc /\ s.reply = cn[c].reply /\ s.prop = cn[c].prop
    BY <1>2 DEF ClientOK, ClientFields
  <2> HIDE DEF s
  <2>5. ClientOK(s, made)
    BY <1>2, <2>4 DEF ClientOK, Busy
  <2>6. ASSUME NEW d \in Callers PROVE CallOK(d)'
    BY <1>1, <1>4, <2>1, <2>4 DEF SlotInv, CallOK
  <2> QED
    BY <1>1, <2>1, <2>3, <2>5, <2>6, StepOfOne DEF SlotInv, MadeWhole
<1> QED
  BY <1>3, <1>4 DEF Transfer

(* A client ends its command or dies with reply r, its call as it is.      *)
LEMMA EndSlotInv ==
  ASSUME SlotInv, NEW c \in Callers, NEW s,
         ClientOK(s, made), s.pc # "cas",
         cn' = [cn EXCEPT ![c] = s], UNCHANGED <<word, req, seen, body, made>>
  PROVE  SlotInv'
<1>1. ASSUME NEW d \in Callers PROVE CallOK(d)'
  BY DEF SlotInv, CallOK
<1> QED
  BY <1>1, StepOfOne DEF SlotInv, MadeWhole

(* A read answers with a value only when the slot it has read decodes.     *)
LEMMA ReadReturnsSlotInv ==
  ASSUME SlotInv, NEW c \in Callers, ReadReturns(c)
  PROVE  SlotInv'
<1> DEFINE r == ReadAnswer(cn[c])
           s == Finish(cn[c], r)
<1>1. ClientOK(cn[c], made) /\ MadeWhole
  BY DEF SlotInv
<1>2. /\ r.status = "value" => td_crypto_decode_slot(cn[c].got)
      /\ r.status # "ok"
  BY DEF ReadAnswer, Reply, Error
<1>3. r.status = "value" => cn[c].got \in made
  BY <1>1, <1>2, DecodedWasMade DEF ClientOK
<1>4. cn' = [cn EXCEPT ![c] = s] /\ UNCHANGED <<word, req, seen, body, made>>
  BY DEF ReadReturns, SlotInv, casVars, histVars
<1> HIDE DEF r
<1>5. ClientOK(s, made) /\ s.pc = "idle"
  BY <1>1, <1>2, <1>3, FinishOK, FinishShape
<1> QED
  BY <1>4, <1>5, EndSlotInv

(* A write is refused.                                                     *)
LEMMA RefusedSlotInv ==
  ASSUME SlotInv, NEW c \in Callers, Refused(c)
  PROVE  SlotInv'
<1>1. /\ cn' = [cn EXCEPT ![c] = Finish(cn[c], Error)]
      /\ UNCHANGED <<word, req, seen, body, made>>
  BY DEF Refused, SlotInv, casVars, histVars
<1>2. Error.status = "error"
  BY DEF Error, Reply
<1>3. ClientOK(Finish(cn[c], Error), made) /\ Finish(cn[c], Error).pc = "idle"
  BY <1>2, FinishOK, FinishShape DEF SlotInv
<1> QED
  BY <1>1, <1>3, EndSlotInv

(* A proposal joins the slots that were made.                              *)
LEMMA ProposeSlotInv ==
  ASSUME SlotInv, NEW c \in Callers, Propose(c)
  PROVE  SlotInv'
<1> DEFINE p == Proposal(cn[c])
           g == [ZeroSlot EXCEPT !.guard = cn[c].got.guard]
<1>1. \A d \in Callers : ClientOK(cn[d], made)
  BY DEF SlotInv
<1>2. /\ On(p, Fields) /\ p.visible = cn[c].got.guard + 1 /\ p.guard = p.visible
      /\ p.mac = td_crypto_mac(p)
  BY <1>1, ProposalWhole DEF ClientOK
<1>3. made' = made \cup {p} /\ UNCHANGED <<word, req, seen, body>> /\ cn[c].pc = "read"
  BY DEF Propose, Completed, casVars
<1> HIDE DEF p
<1>4. MadeWhole'
  <2>1. p.visible \in Nat
    BY <1>1, <1>2 DEF ClientOK
  <2> QED
    BY <1>2, <1>3, <2>1 DEF SlotInv, MadeWhole
<1>5. Macs(made) \subseteq Macs(made')
  BY <1>3 DEF Macs
<1>6. On(g, Fields) /\ g.guard \in Nat /\ g.mac \in Macs(made')
  BY <1>1, ZeroSlotShape DEF On, Fields, Macs, ClientOK
<1> HIDE DEF g
<1>7. /\ DOMAIN cn' = Callers
      /\ DOMAIN cn'[c] = ClientFields
      /\ cn'[c].pc = "write" /\ cn'[c].todo = BodyUnits /\ cn'[c].prop = p
      /\ cn'[c].got = g /\ cn'[c].reply = cn[c].reply
  BY <1>1 DEF Propose, ClientOK, ClientFields, p, g
<1>8. g.guard = cn[c].got.guard
  BY ZeroSlotShape DEF g, On, Fields
<1>9. ASSUME NEW d \in Callers PROVE ClientOK(cn'[d], made') /\ CallOK(d)'
  <2>1. CASE d = c
    <3>1. ClientOK(cn'[c], made')
      BY <1>1, <1>2, <1>3, <1>6, <1>7, <1>8 DEF ClientOK, Busy
    <3>2. CallOK(c)'
      BY <1>3, <1>7 DEF CallOK, SlotInv
    <3> QED
      BY <2>1, <3>1, <3>2
  <2>2. CASE d # c
    <3>1. cn'[d] = [cn[d] EXCEPT !.alone = FALSE]
      BY <2>2 DEF Propose
    <3>2. /\ DOMAIN cn'[d] = ClientFields
          /\ cn'[d].pc = cn[d].pc /\ cn'[d].todo = cn[d].todo /\ cn'[d].got = cn[d].got
          /\ cn'[d].prop = cn[d].prop /\ cn'[d].reply = cn[d].reply
      BY <1>1, <3>1 DEF ClientOK, ClientFields
    <3>3. ClientOK(cn[d], made')
      BY <1>1, <1>3, ClientGrows
    <3>4. ClientOK(cn'[d], made')
      BY <3>2, <3>3 DEF ClientOK
    <3>5. CallOK(d)'
      BY <1>3, <3>2 DEF CallOK, SlotInv
    <3> QED
      BY <3>4, <3>5
  <2> QED
    BY <2>1, <2>2
<1> QED
  BY <1>3, <1>4, <1>5, <1>7, <1>9 DEF SlotInv

(* The CAS of a proposal compares with the epoch the proposal is made on.  *)
LEMMA SendCasSlotInv ==
  ASSUME SlotInv, NEW c \in Callers, SendCas(c)
  PROVE  SlotInv'
<1> DEFINE s == [cn[c] EXCEPT !.pc = "cas"]
<1>1. ClientOK(cn[c], made) /\ cn[c].pc = "write"
  BY DEF SlotInv, SendCas, Completed
<1>2. cn' = [cn EXCEPT ![c] = s] /\ UNCHANGED <<word, seen, body, made>>
  BY DEF SendCas, Invoke, SlotInv
<1>3. PICK e \in Words : req' = [req EXCEPT ![c] = [compare |-> e, swap |-> e + 1]]
  BY DEF SendCas, Invoke
<1>4. /\ req'[c] = [compare |-> e, swap |-> e + 1] /\ e = cn[c].got.guard
      /\ req[c] = None /\ DOMAIN req' = Callers
      /\ \A d \in Callers : d # c => req'[d] = req[d]
  BY <1>3 DEF SendCas, Invoke, SlotInv
<1>5. /\ DOMAIN s = ClientFields /\ s.pc = "cas"
      /\ s.got = cn[c].got /\ s.prop = cn[c].prop /\ s.reply = cn[c].reply
  BY <1>1 DEF ClientOK, ClientFields
<1> HIDE DEF s
<1>6. ClientOK(s, made)
  BY <1>1, <1>5 DEF ClientOK, Busy
<1>7. ASSUME NEW d \in Callers PROVE CallOK(d)'
  BY <1>1, <1>2, <1>4, <1>5 DEF CallOK, SlotInv, ClientOK
<1> QED
  BY <1>2, <1>4, <1>6, <1>7, StepOfOne DEF SlotInv, MadeWhole

(* The word stays, or goes on by one.                                      *)
LEMMA ServeCasSlotInv ==
  ASSUME SlotInv, NEW c \in Callers, ServeCas(c)
  PROVE  SlotInv'
<1>1. /\ UNCHANGED <<req, body, cn, made>>
      /\ req[c] # None
      /\ seen' = [seen EXCEPT ![c] = word]
      /\ word' = IF word = req[c].compare THEN req[c].swap ELSE word
  BY DEF ServeCas, TakeEffect, histVars
<1>2. word' \in Nat
  BY <1>1 DEF SlotInv, CallOK
<1>3. ASSUME NEW d \in Callers PROVE CallOK(d)'
  BY <1>1 DEF SlotInv, CallOK
<1> QED
  BY <1>1, <1>2, <1>3 DEF SlotInv, MadeWhole

(* The answer to the CAS ends the command.                                 *)
LEMMA CasReturnsSlotInv ==
  ASSUME SlotInv, NEW c \in Callers, CasReturns(c)
  PROVE  SlotInv'
<1> DEFINE r == IF CommitWon(cn[c], seen[c]) THEN Reply("ok", Nil) ELSE Error
           s == Finish(cn[c], r)
<1>1. ClientOK(cn[c], made) /\ cn[c].pc = "cas"
  BY DEF SlotInv, CasReturns
<1>2. r.status \in {"ok", "error"}
  BY DEF Reply, Error
<1>3. /\ cn' = [cn EXCEPT ![c] = s] /\ UNCHANGED <<word, body, made>>
      /\ req' = [req EXCEPT ![c] = None] /\ seen' = [seen EXCEPT ![c] = None]
  BY DEF CasReturns, Return, SlotInv, histVars
<1> HIDE DEF r
<1>4. ClientOK(s, made) /\ s.pc = "idle"
  <2>1. cn[c].prop.visible \in Nat
    BY <1>1 DEF ClientOK, SlotInv, MadeWhole
  <2> QED
    BY <1>1, <1>2, <2>1, FinishOK, FinishShape
<1> HIDE DEF s
<1>5. ASSUME NEW d \in Callers PROVE CallOK(d)'
  BY <1>3, <1>4 DEF SlotInv, CallOK
<1> QED
  BY <1>3, <1>4, <1>5, StepOfOne DEF SlotInv, MadeWhole

(* A client that breaks keeps nothing but its call.                        *)
LEMMA BreakSlotInv ==
  ASSUME SlotInv, NEW c \in Callers, Break(c)
  PROVE  SlotInv'
<1> DEFINE t == Finish(cn[c], Error)
           s == [t EXCEPT !.pc = "dead"]
<1>1. Error.status = "error"
  BY DEF Error, Reply
<1>2. ClientOK(t, made) /\ t.pc = "idle" /\ t.reply = Error
  BY <1>1, FinishOK, FinishShape DEF SlotInv
<1>3. cn' = [cn EXCEPT ![c] = s] /\ UNCHANGED <<word, req, seen, body, made>>
  BY DEF Break, Fail, SlotInv
<1> HIDE DEF t
<1>4. /\ DOMAIN s = ClientFields /\ s.pc = "dead" /\ s.reply = t.reply
      /\ s.got = t.got /\ s.prop = t.prop
  BY <1>2 DEF ClientOK, ClientFields
<1> HIDE DEF s
<1>5. ClientOK(s, made)
  BY <1>1, <1>2, <1>4 DEF ClientOK, Busy
<1> QED
  BY <1>3, <1>4, <1>5, EndSlotInv

(* SlotInv holds at the start.                                             *)
LEMMA InitSlotInv == Init => SlotInv
<1> SUFFICES ASSUME Init PROVE SlotInv
  OBVIOUS
<1>1. /\ word = 0 /\ made = {} /\ cn = [c \in Callers |-> Idle]
      /\ req = [c \in Callers |-> None] /\ seen = [c \in Callers |-> None]
      /\ body = [f \in Fields \ {"guard"} |-> ZeroSlot[f]]
  BY DEF Init, CasInit
<1>2. On(body, BodyFields) /\ body.mac \in Macs(made)
  BY <1>1, ZeroSlotShape DEF On, BodyFields, Fields, Macs
<1>3. /\ DOMAIN Idle = ClientFields
      /\ Idle.pc = "idle" /\ Idle.got = ZeroSlot /\ Idle.reply.status = "none"
  BY DEF Idle, ClientFields, Reply
<1>4. ClientOK(Idle, made)
  BY <1>3, ZeroSlotShape DEF ClientOK, Macs, Busy
<1> QED
  BY <1>1, <1>2, <1>3, <1>4 DEF SlotInv, MadeWhole, CallOK

(* Every step keeps SlotInv.                                               *)
LEMMA SlotInvInductive == SlotInv /\ [Next]_vars => SlotInv'
<1> SUFFICES ASSUME SlotInv, [Next]_vars PROVE SlotInv'
  OBVIOUS
<1>1. CASE UNCHANGED vars
  BY <1>1 DEF vars, casVars, histVars, SlotInv, MadeWhole, CallOK
<1>2. ASSUME NEW c \in Callers, NEW o \in Requests, Begin(c, o) PROVE SlotInv'
  BY <1>2, BeginSlotInv
<1>3. ASSUME NEW c \in Callers, NEW u \in Units, Transfer(c, u) PROVE SlotInv'
  BY <1>3, TransferSlotInv
<1>4. ASSUME NEW c \in Callers, ReadReturns(c) PROVE SlotInv'
  BY <1>4, ReadReturnsSlotInv
<1>5. ASSUME NEW c \in Callers, Refused(c) PROVE SlotInv'
  BY <1>5, RefusedSlotInv
<1>6. ASSUME NEW c \in Callers, Propose(c) PROVE SlotInv'
  BY <1>6, ProposeSlotInv
<1>7. ASSUME NEW c \in Callers, SendCas(c) PROVE SlotInv'
  BY <1>7, SendCasSlotInv
<1>8. ASSUME NEW c \in Callers, ServeCas(c) PROVE SlotInv'
  BY <1>8, ServeCasSlotInv
<1>9. ASSUME NEW c \in Callers, CasReturns(c) PROVE SlotInv'
  BY <1>9, CasReturnsSlotInv
<1>10. ASSUME NEW c \in Callers, Break(c) PROVE SlotInv'
  BY <1>10, BreakSlotInv
<1> QED
  BY <1>1, <1>2, <1>3, <1>4, <1>5, <1>6, <1>7, <1>8, <1>9, <1>10 DEF Next

(* What clients hold and what the region holds keeps to SlotInv.           *)
LEMMA AlwaysSlotInv == Spec => []SlotInv
  BY InitSlotInv, SlotInvInductive, PTL DEF Spec

(* A value that a read over RDMA returns comes from a slot that one writer *)
(* made, whole: whatever the card moved while others wrote, the comparison *)
(* of the mac in td_crypto_decode_slot lets no mixture through.            *)
THEOREM ReadsAuthentic == Spec => []AuthenticValue
<1>1. SlotInv => AuthenticValue
  BY DEF SlotInv, ClientOK, AuthenticValue
<1> QED
  BY <1>1, AlwaysSlotInv, PTL

-----------------------------------------------------------------------------
(* No two winners of an epoch.                                             *)

(* A client that wins after a step in which the word stays was winning     *)
(* with the same proposal before.                                          *)
LEMMA WinInvKept ==
  ASSUME WinInv, word' = word,
         \A d \in Callers : Winning(d)' => Winning(d) /\ cn'[d].prop = cn[d].prop
  PROVE  WinInv'
  BY DEF WinInv

(* A step of c after which c is idle, dead or at another request than its  *)
(* CAS, and was told nothing.                                              *)
LEMMA WinInvOther ==
  ASSUME WinInv, SlotInv, NEW c \in Callers, NEW s, cn' = [cn EXCEPT ![c] = s],
         s.pc # "cas", s.reply.status # "ok", UNCHANGED <<word, seen>>
  PROVE  WinInv'
<1>1. ASSUME NEW d \in Callers, Winning(d)'
      PROVE  Winning(d) /\ cn'[d].prop = cn[d].prop
  BY <1>1 DEF Winning, SlotInv
<1> QED
  BY <1>1, WinInvKept

(* The CAS that wins puts the word to the epoch of its proposal, which is  *)
(* ahead of all that were won before; one that loses wins nothing.         *)
LEMMA ServeCasWinInv ==
  ASSUME WinInv, SlotInv, NEW c \in Callers, ServeCas(c)
  PROVE  WinInv'
<1>1. /\ cn' = cn /\ req[c] # None /\ seen[c] = None
      /\ seen' = [seen EXCEPT ![c] = word]
      /\ word' = IF word = req[c].compare THEN req[c].swap ELSE word
  BY DEF ServeCas, TakeEffect
<1>2. word \in Nat /\ word' \in Nat /\ word <= word'
  BY <1>1 DEF SlotInv, CallOK
<1>3. \A d \in Callers : ClientOK(cn[d], made) /\ CallOK(d)
  BY DEF SlotInv
<1>4. ASSUME NEW d \in Callers, d # c, Winning(d)'
      PROVE  Winning(d) /\ cn'[d].prop = cn[d].prop
  BY <1>1, <1>4 DEF Winning, SlotInv
<1>5. ASSUME NEW d \in Callers PROVE Winning(d) => cn[d].prop.visible \in Nat
  BY <1>3 DEF Winning, ClientOK, SlotInv, MadeWhole
<1>6. CASE Winning(c)' /\ ~Winning(c)
  <2>1. cn[c].pc = "cas" /\ word = cn[c].got.guard
    BY <1>1, <1>6 DEF Winning, SlotInv
  <2>2. word' = word + 1 /\ cn[c].prop.visible = word + 1
    BY <1>1, <1>3, <2>1 DEF CallOK, ClientOK
  <2>3. ASSUME NEW d \in Callers, d # c, Winning(d)'
        PROVE  cn'[d].prop.visible <= word /\ cn'[d].prop.visible \in Nat
    BY <1>4, <1>5, <2>3 DEF WinInv
  <2>4. ASSUME NEW d \in Callers, Winning(d)' PROVE cn'[d].prop.visible <= word'
    BY <1>1, <1>2, <2>2, <2>3, <2>4
  <2>5. ASSUME NEW d \in Callers, NEW e \in Callers, d # e, Winning(d)', Winning(e)'
        PROVE  cn'[d].prop.visible # cn'[e].prop.visible
    <3>1. CASE d # c /\ e # c
      BY <1>4, <2>5, <3>1 DEF WinInv
    <3>2. CASE d = c \/ e = c
      BY <1>1, <1>2, <2>2, <2>3, <2>5, <3>2
    <3> QED
      BY <3>1, <3>2
  <2> QED
    BY <2>4, <2>5 DEF WinInv
<1>7. CASE Winning(c)' => Winning(c)
  <2>1. ASSUME NEW d \in Callers, Winning(d)'
        PROVE  Winning(d) /\ cn'[d].prop = cn[d].prop
    BY <1>1, <1>4, <1>7, <2>1
  <2>2. ASSUME NEW d \in Callers, Winning(d)' PROVE cn'[d].prop.visible <= word'
    BY <1>2, <1>5, <2>1, <2>2 DEF WinInv
  <2> QED
    BY <2>1, <2>2 DEF WinInv
<1> QED
  BY <1>6, <1>7

(* Only a client whose CAS found the epoch it compared with is told ok.    *)
LEMMA CasReturnsWinInv ==
  ASSUME WinInv, SlotInv, NEW c \in Callers, CasReturns(c)
  PROVE  WinInv'
<1> DEFINE r == IF CommitWon(cn[c], seen[c]) THEN Reply("ok", Nil) ELSE Error
           s == Finish(cn[c], r)
<1>1. /\ cn' = [cn EXCEPT ![c] = s] /\ word' = word /\ cn[c].pc = "cas"
      /\ seen' = [seen EXCEPT ![c] = None] /\ seen[c] # None
  BY DEF CasReturns, Return, SlotInv
<1>2. r.status = "ok" => Winning(c)
  BY <1>1 DEF Reply, Error, CommitWon, Winning
<1> HIDE DEF r
<1>3. s.reply = r /\ s.pc = "idle" /\ (r.status = "ok" => s.prop = cn[c].prop)
  BY FinishShape
<1> HIDE DEF s
<1>4. ASSUME NEW d \in Callers, Winning(d)'
      PROVE  Winning(d) /\ cn'[d].prop = cn[d].prop
  <2>1. CASE d = c
    BY <1>1, <1>2, <1>3, <1>4, <2>1 DEF Winning, SlotInv
  <2>2. CASE d # c
    BY <1>1, <1>4, <2>2 DEF Winning, SlotInv
  <2> QED
    BY <2>1, <2>2
<1> QED
  BY <1>1, <1>4, WinInvKept

(* Every step keeps WinInv.                                                *)
LEMMA WinInvInductive == WinInv /\ SlotInv /\ [Next]_vars => WinInv'
<1> SUFFICES ASSUME WinInv, SlotInv, [Next]_vars PROVE WinInv'
  OBVIOUS
<1>1. CASE UNCHANGED vars
  BY <1>1, WinInvKept DEF vars, casVars, Winning
<1>2. ASSUME NEW c \in Callers, NEW o \in Requests, Begin(c, o) PROVE WinInv'
  <2> DEFINE s == [Idle EXCEPT !.pc = "read", !.op = o, !.todo = Units, !.ops = cn[c].ops + 1]
  <2>1. cn' = [cn EXCEPT ![c] = s] /\ UNCHANGED <<word, seen>>
    BY <1>2 DEF Begin, Forget
  <2>2. s.pc = "read" /\ s.reply.status = "none"
    BY DEF Idle, Reply
  <2> HIDE DEF s
  <2> QED
    BY <2>1, <2>2, WinInvOther
<1>3. ASSUME NEW c \in Callers, NEW u \in Units, Transfer(c, u) PROVE WinInv'
  <2>1. /\ UNCHANGED <<word, seen>> /\ cn[c].pc \in {"read", "write"}
        /\ \A d \in Callers : d # c => cn'[d] = cn[d]
        /\ cn'[c].pc = cn[c].pc /\ cn'[c].reply = cn[c].reply /\ cn'[c].prop = cn[c].prop
    BY <1>3 DEF Transfer, SlotInv, ClientOK, ClientFields, casVars
  <2> QED
    BY <2>1, WinInvKept DEF Winning
<1>4. ASSUME NEW c \in Callers, ReadReturns(c) PROVE WinInv'
  <2> DEFINE s == Finish(cn[c], ReadAnswer(cn[c]))
  <2>1. cn' = [cn EXCEPT ![c] = s] /\ UNCHANGED <<word, seen>>
    BY <1>4 DEF ReadReturns, SlotInv, casVars
  <2>2. ReadAnswer(cn[c]).status # "ok"
    BY DEF ReadAnswer, Reply, Error
  <2>3. s.pc = "idle" /\ s.reply.status # "ok"
    BY <2>2, FinishShape
  <2> HIDE DEF s
  <2> QED
    BY <2>1, <2>3, WinInvOther
<1>5. ASSUME NEW c \in Callers, Refused(c) PROVE WinInv'
  <2> DEFINE s == Finish(cn[c], Error)
  <2>1. cn' = [cn EXCEPT ![c] = s] /\ UNCHANGED <<word, seen>>
    BY <1>5 DEF Refused, SlotInv, casVars
  <2>2. s.pc = "idle" /\ s.reply.status # "ok"
    BY FinishShape DEF Error, Reply
  <2> HIDE DEF s
  <2> QED
    BY <2>1, <2>2, WinInvOther
<1>6. ASSUME NEW c \in Callers, Propose(c) PROVE WinInv'
  <2>1. /\ UNCHANGED <<word, seen>> /\ cn[c].reply.status = "none"
        /\ cn'[c].pc = "write" /\ cn'[c].reply = cn[c].reply
        /\ \A d \in Callers : d # c => /\ cn'[d].pc = cn[d].pc
                                       /\ cn'[d].reply = cn[d].reply
                                       /\ cn'[d].got = cn[d].got
                                       /\ cn'[d].prop = cn[d].prop
    BY <1>6 DEF Propose, Completed, SlotInv, ClientOK, ClientFields, casVars, Busy
  <2> QED
    BY <2>1, WinInvKept DEF Winning
<1>7. ASSUME NEW c \in Callers, SendCas(c) PROVE WinInv'
  <2>1. /\ UNCHANGED <<word, seen>> /\ cn[c].pc = "write" /\ seen[c] = None
        /\ cn'[c].reply = cn[c].reply /\ cn[c].reply.status = "none"
        /\ \A d \in Callers : d # c => cn'[d] = cn[d]
    BY <1>7 DEF SendCas, Invoke, Completed, SlotInv, ClientOK, CallOK, ClientFields, Busy
  <2> QED
    BY <2>1, WinInvKept DEF Winning
<1>8. ASSUME NEW c \in Callers, ServeCas(c) PROVE WinInv'
  BY <1>8, ServeCasWinInv
<1>9. ASSUME NEW c \in Callers, CasReturns(c) PROVE WinInv'
  BY <1>9, CasReturnsWinInv
<1>10. ASSUME NEW c \in Callers, Break(c) PROVE WinInv'
  <2> DEFINE t == Finish(cn[c], Error)
             s == [t EXCEPT !.pc = "dead"]
  <2>1. cn' = [cn EXCEPT ![c] = s] /\ UNCHANGED <<word, seen>>
    BY <1>10 DEF Break, Fail, SlotInv
  <2>2. t.reply.status # "ok" /\ DOMAIN t = ClientFields
    BY FinishShape DEF Error, Reply
  <2> HIDE DEF t
  <2>3. s.pc = "dead" /\ s.reply.status # "ok"
    BY <2>2 DEF ClientFields
  <2> HIDE DEF s
  <2> QED
    BY <2>1, <2>3, WinInvOther
<1> QED
  BY <1>1, <1>2, <1>3, <1>4, <1>5, <1>6, <1>7, <1>8, <1>9, <1>10 DEF Next

(* Of the writers over RDMA that are told ok no two have taken the same    *)
(* epoch, whatever their bodies have done to each other, and with CAS of   *)
(* dead clients served late (td_commit_slot_at).                           *)
THEOREM WinnersTakeDifferentEpochs == Spec => []WinnersDiffer
<1>1. Init => WinInv
  BY DEF Init, CasInit, WinInv, Winning, Idle, Reply
<1>2. WinInv => WinnersDiffer
  BY DEF WinInv, Winning, WinnersDiffer
<1> QED
  BY <1>1, <1>2, AlwaysSlotInv, WinInvInductive, PTL DEF Spec

-----------------------------------------------------------------------------
(* A writer that is alone leaves a body that decodes.                      *)

(* The units of the body are all of the slot but its guard epoch.          *)
LEMMA BodyUnitsCover == UNION BodyUnits = BodyFields
  BY UnitsAssumption DEF BodyUnits, BodyFields

(* LoneInv speaks of the body, of mixed, and of who writes what.           *)
LEMMA LoneInvKept ==
  ASSUME LoneInv, UNCHANGED <<body, mixed>>,
         \A d \in Callers : cn[d].pc = "write" <=> cn'[d].pc = "write",
         \A d \in Callers : cn'[d].pc = "write" =>
             /\ cn'[d].alone => cn[d].alone
             /\ cn'[d].todo = cn[d].todo /\ cn'[d].prop = cn[d].prop
  PROVE  LoneInv'
<1>1. LoneWritesDecode'
  BY DEF LoneInv, LoneWritesDecode, td_crypto_mac
<1> QED
  BY <1>1 DEF LoneInv

(* A step of c from and to something else than a write of the body.        *)
LEMMA LoneInvOther ==
  ASSUME LoneInv, SlotInv, NEW c \in Callers, NEW s, cn' = [cn EXCEPT ![c] = s],
         s.pc # "write", cn[c].pc # "write", UNCHANGED <<body, mixed>>
  PROVE  LoneInv'
<1>1. \A d \in Callers : cn[d].pc = "write" <=> cn'[d].pc = "write"
  BY DEF SlotInv
<1>2. \A d \in Callers : cn'[d].pc = "write" => cn'[d] = cn[d]
  BY DEF SlotInv
<1> QED
  BY <1>1, <1>2, LoneInvKept

(* A unit of a body lands.                                                 *)
LEMMA TransferLoneInv ==
  ASSUME LoneInv, SlotInv, NEW c \in Callers, NEW u \in Units, Transfer(c, u)
  PROVE  LoneInv'
<1>1. ClientOK(cn[c], made) /\ mixed' = mixed
  BY DEF SlotInv, Transfer, histVars
<1>2. CASE cn[c].pc = "read"
  <2>1. /\ body' = body /\ cn'[c].pc = "read"
        /\ \A d \in Callers : d # c => cn'[d] = cn[d]
    BY <1>1, <1>2 DEF Transfer, SlotInv, ClientOK, ClientFields
  <2>2. \A d \in Callers : cn'[d].pc = "write" => cn'[d] = cn[d]
    BY <2>1
  <2>3. \A d \in Callers : cn[d].pc = "write" <=> cn'[d].pc = "write"
    BY <1>2, <2>1
  <2> QED
    BY <1>1, <2>1, <2>2, <2>3, LoneInvKept
<1>3. CASE cn[c].pc = "write"
  <2>1. /\ body' = Overlay(body, cn[c].prop, u)
        /\ cn'[c].pc = "write" /\ cn'[c].alone = cn[c].alone /\ cn'[c].prop = cn[c].prop
        /\ cn'[c].todo = cn[c].todo \ {u}
        /\ \A d \in Callers : d # c => cn'[d] = cn[d]
    BY <1>1, <1>3 DEF Transfer, SlotInv, ClientOK, ClientFields
  <2>2. LoneWritesDecode'
    BY <2>1 DEF LoneWritesDecode
  <2>3. ASSUME NEW d \in Callers, cn'[d].pc = "write", cn'[d].alone
        PROVE  /\ \A e \in Callers \ {d} : cn'[e].pc # "write"
               /\ \A w \in BodyUnits \ cn'[d].todo : \A f \in w : body'[f] = cn'[d].prop[f]
    <3>1. d = c
      BY <1>3, <2>1, <2>3 DEF LoneInv
    <3>2. \A e \in Callers \ {c} : cn'[e].pc # "write"
      BY <1>3, <2>1, <2>3, <3>1 DEF LoneInv
    <3>3. \A w \in BodyUnits \ cn[c].todo : \A f \in w : body[f] = cn[c].prop[f]
      BY <1>3, <2>1, <2>3, <3>1 DEF LoneInv
    <3>4. DOMAIN body = BodyFields
      BY DEF SlotInv, On
    <3>5. ASSUME NEW w \in BodyUnits \ cn'[c].todo, NEW f \in w
          PROVE  body'[f] = cn'[c].prop[f]
      <4>1. f \in BodyFields
        BY BodyUnitsCover
      <4>2. body'[f] = IF f \in u THEN cn[c].prop[f] ELSE body[f]
        BY <2>1, <3>4, <4>1 DEF Overlay
      <4>3. w = u \/ w \in BodyUnits \ cn[c].todo
        BY <2>1
      <4> QED
        BY <2>1, <3>3, <4>2, <4>3
    <3> QED
      BY <3>1, <3>2, <3>5
  <2> QED
    BY <2>2, <2>3 DEF LoneInv
<1> QED
  BY <1>2, <1>3 DEF Transfer

(* A writer begins: it is alone when nobody else is at it, and the others  *)
(* are so no more.                                                         *)
LEMMA ProposeLoneInv ==
  ASSUME LoneInv, SlotInv, NEW c \in Callers, Propose(c)
  PROVE  LoneInv'
<1>1. /\ cn'[c].pc = "write" /\ cn'[c].todo = BodyUnits
      /\ cn'[c].alone => \A d \in Callers : cn[d].pc # "write"
      /\ \A d \in Callers : d # c => cn'[d].pc = cn[d].pc /\ ~cn'[d].alone
  BY DEF Propose, SlotInv, ClientOK, ClientFields
<1>2. LoneWritesDecode'
  BY <1>1 DEF LoneWritesDecode
<1> QED
  BY <1>1, <1>2 DEF LoneInv

(* The body of a lone writer has landed: it is its proposal.               *)
LEMMA SendCasLoneInv ==
  ASSUME LoneInv, SlotInv, NEW c \in Callers, SendCas(c)
  PROVE  LoneInv'
<1>1. /\ cn[c].pc = "write" /\ cn[c].todo = {} /\ mixed' = ~cn[c].alone /\ body' = body
      /\ cn'[c].pc = "cas" /\ \A d \in Callers : d # c => cn'[d] = cn[d]
  BY DEF SendCas, Completed, SlotInv, ClientOK, ClientFields
<1>2. LoneWritesDecode'
  <2>1. CASE cn[c].alone
    <3>1. \A u \in BodyUnits : \A f \in u : body[f] = cn[c].prop[f]
      BY <1>1, <2>1 DEF LoneInv
    <3>2. \A f \in BodyFields : body[f] = cn[c].prop[f]
      BY <3>1, BodyUnitsCover
    <3>3. cn[c].prop.mac = td_crypto_mac(cn[c].prop)
      BY <1>1 DEF SlotInv, ClientOK, MadeWhole
    <3>4. body.mac = td_crypto_mac(body)
      BY <3>2, <3>3 DEF td_crypto_mac, BodyFields, Fields
    <3> QED
      BY <1>1, <3>4 DEF LoneWritesDecode, td_crypto_mac
  <2>2. CASE ~cn[c].alone
    BY <1>1, <2>2 DEF LoneWritesDecode
  <2> QED
    BY <2>1, <2>2
<1>3. ASSUME NEW d \in Callers, cn'[d].pc = "write", cn'[d].alone
      PROVE  /\ \A e \in Callers \ {d} : cn'[e].pc # "write"
             /\ \A w \in BodyUnits \ cn'[d].todo : \A f \in w : body'[f] = cn'[d].prop[f]
  BY <1>1, <1>3 DEF LoneInv
<1> QED
  BY <1>2, <1>3 DEF LoneInv

(* A writer that breaks leaves a body that may be a mixture.               *)
LEMMA BreakLoneInv ==
  ASSUME LoneInv, SlotInv, NEW c \in Callers, Break(c)
  PROVE  LoneInv'
<1>1. /\ cn'[c].pc = "dead" /\ body' = body /\ mixed' = (mixed \/ cn[c].pc = "write")
      /\ \A d \in Callers : d # c => cn'[d] = cn[d]
  <2> DEFINE t == Finish(cn[c], Error)
  <2>1. DOMAIN t = ClientFields
    BY FinishShape
  <2>2. cn' = [cn EXCEPT ![c] = [t EXCEPT !.pc = "dead"]]
    BY DEF Break, SlotInv
  <2> HIDE DEF t
  <2> QED
    BY <2>1, <2>2 DEF Break, SlotInv, ClientFields
<1>2. LoneWritesDecode'
  BY <1>1 DEF LoneInv, LoneWritesDecode, td_crypto_mac
<1>3. ASSUME NEW d \in Callers, cn'[d].pc = "write", cn'[d].alone
      PROVE  /\ \A e \in Callers \ {d} : cn'[e].pc # "write"
             /\ \A w \in BodyUnits \ cn'[d].todo : \A f \in w : body'[f] = cn'[d].prop[f]
  BY <1>1, <1>3 DEF LoneInv
<1> QED
  BY <1>2, <1>3 DEF LoneInv

(* Every step keeps LoneInv.                                               *)
LEMMA LoneInvInductive == LoneInv /\ SlotInv /\ [Next]_vars => LoneInv'
<1> SUFFICES ASSUME LoneInv, SlotInv, [Next]_vars PROVE LoneInv'
  OBVIOUS
<1>1. CASE UNCHANGED vars
  BY <1>1, LoneInvKept DEF vars, histVars
<1>2. ASSUME NEW c \in Callers, NEW o \in Requests, Begin(c, o) PROVE LoneInv'
  <2> DEFINE s == [Idle EXCEPT !.pc = "read", !.op = o, !.todo = Units, !.ops = cn[c].ops + 1]
  <2>1. cn' = [cn EXCEPT ![c] = s] /\ UNCHANGED <<body, mixed>> /\ cn[c].pc = "idle"
    BY <1>2 DEF Begin, histVars
  <2>2. s.pc = "read"
    BY DEF Idle
  <2> HIDE DEF s
  <2> QED
    BY <2>1, <2>2, LoneInvOther
<1>3. ASSUME NEW c \in Callers, NEW u \in Units, Transfer(c, u) PROVE LoneInv'
  BY <1>3, TransferLoneInv
<1>4. ASSUME NEW c \in Callers, NEW r, cn' = [cn EXCEPT ![c] = Finish(cn[c], r)],
             cn[c].pc # "write", UNCHANGED <<body, mixed>>
      PROVE  LoneInv'
  <2> DEFINE s == Finish(cn[c], r)
  <2>1. s.pc = "idle"
    BY FinishShape
  <2> HIDE DEF s
  <2>2. cn' = [cn EXCEPT ![c] = s]
    BY <1>4 DEF s
  <2> QED
    BY <1>4, <2>1, <2>2, LoneInvOther
<1>5. ASSUME NEW c \in Callers, ReadReturns(c) PROVE LoneInv'
  BY <1>4, <1>5 DEF ReadReturns, Completed, SlotInv, histVars
<1>6. ASSUME NEW c \in Callers, Refused(c) PROVE LoneInv'
  BY <1>4, <1>6 DEF Refused, Completed, SlotInv, histVars
<1>7. ASSUME NEW c \in Callers, Propose(c) PROVE LoneInv'
  BY <1>7, ProposeLoneInv
<1>8. ASSUME NEW c \in Callers, SendCas(c) PROVE LoneInv'
  BY <1>8, SendCasLoneInv
<1>9. ASSUME NEW c \in Callers, ServeCas(c) PROVE LoneInv'
  BY <1>9, LoneInvKept DEF ServeCas, histVars
<1>10. ASSUME NEW c \in Callers, CasReturns(c) PROVE LoneInv'
  BY <1>4, <1>10 DEF CasReturns, SlotInv, histVars
<1>11. ASSUME NEW c \in Callers, Break(c) PROVE LoneInv'
  BY <1>11, BreakLoneInv
<1> QED
  BY <1>1, <1>2, <1>3, <1>5, <1>6, <1>7, <1>8, <1>9, <1>10, <1>11 DEF Next

(* A slot over RDMA that does not decode is the work of two writers at     *)
(* once or of one that failed: a writer that is alone leaves a body whose  *)
(* words all come from its proposal when td_rdma_client_write returns,     *)
(* however the card orders them.                                           *)
THEOREM LoneWriterLeavesWholeBody == Spec => []LoneWritesDecode
<1>1. Init => LoneInv
  <2> SUFFICES ASSUME Init PROVE LoneInv
    OBVIOUS
  <2>1. body.visible = 0
    BY ZeroSlotShape DEF Init, Fields
  <2>2. \A c \in Callers : cn[c].pc = "idle"
    BY DEF Init, Idle
  <2> QED
    BY <2>1, <2>2 DEF LoneInv, LoneWritesDecode
<1>2. LoneInv => LoneWritesDecode
  BY DEF LoneInv
<1> QED
  BY <1>1, <1>2, AlwaysSlotInv, LoneInvInductive, PTL DEF Spec
=============================================================================
