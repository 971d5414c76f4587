------------------------------ MODULE RdmaSlot ------------------------------
(***************************************************************************)
(* Clients on one PRIME slot over RDMA, without backups and cache: what    *)
(* one-sided reads and writes of a slot (src/transport_rdma.c), its mac    *)
(* (src/crypto.c) and the CAS of its guard epoch make of each other.       *)
(*                                                                         *)
(* The card of the memory node serves a read or a write of a slot word by  *)
(* word, under no lock.  The CAS goes through a worker thread, and is the  *)
(* CasRegister that MemNode is shown to implement: it may be served after  *)
(* its client has died.                                                    *)
(***************************************************************************)
EXTENDS Slots, CasRegister

CONSTANTS Key, Hash,  \* the key the clients use, and its hash
          Values,     \* values they write
          OpKinds,    \* commands they issue
          Units,      \* the fields of a slot that reach memory together
          MaxOps,     \* bound: commands per client
          MaxFaults   \* bound: sessions that break, clients that die

Fields == {"guard", "visible", "hash", "tie", "valid", "tomb", "data", "mac"}

(* The CAS is on the guard epoch alone, and the body begins behind it.     *)
ASSUME UnitsAssumption == /\ UNION Units = Fields
                          /\ {"guard"} \in Units
                          /\ \A u, w \in Units : u = w \/ u \cap w = {}
ASSUME KeyAssumption == Hash \in Nat \ {0} /\ Nil \notin Values
ASSUME BoundsAssumption == MaxOps \in Nat /\ MaxFaults \in Nat

VARIABLES body,    \* the slot in the region, but for its guard epoch: word
          cn,      \* state of each client
          faults,  \* failures so far
          made,    \* history: the slots writers have made
          mixed    \* history: the body may be a mixture of two

histVars == <<made, mixed>>
vars == <<casVars, body, cn, faults, histVars>>

-----------------------------------------------------------------------------
(* Slots and their mac.                                                    *)

(* What td_crypto_mac covers: everything but the guard epoch.              *)
td_crypto_mac(s) == <<s.visible, s.hash, s.tie, s.valid, s.tomb, s.data>>

WithMac(s, mac) == [f \in Fields |-> IF f = "mac" THEN mac ELSE s[f]]
NoMac == << >>  \* the zeroes of a fresh region, which are the mac of nothing
ZeroSlot == WithMac(EmptySlot, NoMac)

(* The fields of u taken from slot b, the others from a.                   *)
Overlay(a, b, u) == [f \in DOMAIN a |-> IF f \in u THEN b[f] ELSE a[f]]

(* The slot as it is in the region.                                        *)
Slot == [f \in Fields |-> IF f = "guard" THEN word ELSE body[f]]

(* Mutant: the mac is not compared.                                        *)
td_crypto_decode_slot_NoMac(s) == ~Torn(s) /\ s.valid

(* The slot can be decoded.                                                *)
td_crypto_decode_slot(s) == ~Torn(s) /\ s.mac = td_crypto_mac(s) /\ s.valid

(* Mutant: the length of the body is too short.                            *)
BodyUnits_Short == Units \ {{"guard"}, {"mac"}}

(* td_commit_slot_at writes everything behind the guard epoch.             *)
BodyUnits == Units \ {{"guard"}}

-----------------------------------------------------------------------------
(* Clients.                                                                *)

Reply(status, val) == [status |-> status, val |-> val]
Error == Reply("error", Nil)
NoOp == [kind |-> "none", val |-> Nil]
Requests == [kind : OpKinds \cap {"read", "delete"}, val : {Nil}]
            \cup [kind : OpKinds \cap {"write"}, val : Values]

(* pc "read", "write": the one-sided request the client polls for; todo    *)
(* are the units that have not been moved yet.  alone: no other client has *)
(* written the body since this one began to.                               *)
Idle == [pc |-> "idle", op |-> NoOp, todo |-> {}, got |-> ZeroSlot, prop |-> ZeroSlot,
         alone |-> FALSE, reply |-> Reply("none", Nil), ops |-> 0]
Busy == {"read", "write", "cas"}

(* The slot a client has read or made matters no more when it has failed.  *)
Finish(s, reply) ==
    [Idle EXCEPT !.reply = reply, !.ops = s.ops,
                 !.got = IF reply.status = "value" THEN s.got ELSE ZeroSlot,
                 !.prop = IF reply.status = "ok" THEN s.prop ELSE ZeroSlot]

(* td_probe_slot of the one slot there is.                                 *)
Probed(s) == Examine(ProbeStart, 0, s.got, Hash)

(* td_cluster_read_value.                                                  *)
ReadAnswer(s) ==
    IF ~Probed(s).ok THEN Error
    ELSE IF ~td_slot_present(s.got, Hash) THEN Reply("not_found", Nil)
    ELSE IF td_crypto_decode_slot(s.got) THEN Reply("value", s.got.data)
    ELSE Error

Proposal(s) ==
    LET p == td_crypto_make_slot(Key, Hash, s.op.val, s.op.kind = "delete", s.got.guard + 1)
    IN  WithMac(p, td_crypto_mac(p))

(* The command reads the slot: td_rdma_client_read.                        *)
Begin(c, o) ==
    /\ cn[c].pc = "idle"
    /\ cn[c].ops < MaxOps
    /\ cn' = [cn EXCEPT ![c] = [Idle EXCEPT !.pc = "read", !.op = o, !.todo = Units,
                                            !.ops = cn[c].ops + 1]]
    /\ Forget(c)
    /\ UNCHANGED <<body, faults, histVars>>

(* The card (external) moves a unit of the slot.                           *)
Transfer(c, u) ==
    /\ u \in cn[c].todo
    /\ \/ /\ cn[c].pc = "read"
          /\ cn' = [cn EXCEPT ![c].todo = @ \ {u}, ![c].got = Overlay(@, Slot, u)]
          /\ UNCHANGED body
       \/ /\ cn[c].pc = "write"
          /\ cn' = [cn EXCEPT ![c].todo = @ \ {u}]
          /\ body' = Overlay(body, cn[c].prop, u)
    /\ UNCHANGED <<casVars, faults, histVars>>

(* The client polls the completion of the request.                         *)
Completed(c, pc) == cn[c].pc = pc /\ cn[c].todo = {}

ReadReturns(c) ==
    /\ Completed(c, "read")
    /\ cn[c].op.kind = "read"
    /\ cn' = [cn EXCEPT ![c] = Finish(@, ReadAnswer(@))]
    /\ UNCHANGED <<casVars, body, faults, histVars>>

(* td_cluster_write_value has no slot to use, or goes on to the body of    *)
(* its proposal: td_rdma_client_write.                                     *)
Refused(c) ==
    /\ Completed(c, "read")
    /\ cn[c].op.kind # "read"
    /\ ~Probed(cn[c]).ok
    /\ cn' = [cn EXCEPT ![c] = Finish(@, Error)]
    /\ UNCHANGED <<casVars, body, faults, histVars>>

Propose(c) ==
    LET p == Proposal(cn[c])
        alone == \A d \in Callers : cn[d].pc # "write"
    IN  /\ Completed(c, "read")
        /\ cn[c].op.kind # "read"
        /\ Probed(cn[c]).ok
        /\ cn' = [d \in Callers |->
                    IF d = c THEN [cn[d] EXCEPT !.pc = "write", !.todo = BodyUnits, !.prop = p,
                                                !.got = [ZeroSlot EXCEPT !.guard = cn[d].got.guard],
                                                !.alone = alone]
                             ELSE [cn[d] EXCEPT !.alone = FALSE]]
        /\ made' = made \cup {p}
        /\ UNCHANGED <<casVars, body, faults, mixed>>

(* The body has landed: the CAS of td_commit_slot_at is sent.              *)
SendCas(c) ==
    /\ Completed(c, "write")
    /\ Invoke(c)
    /\ req'[c].compare = cn[c].got.guard
    /\ cn' = [cn EXCEPT ![c].pc = "cas"]
    /\ mixed' = ~cn[c].alone
    /\ UNCHANGED <<body, faults, made>>

(* The worker of c serves its CAS, c being alive or not.                   *)
ServeCas(c) == TakeEffect(c) /\ UNCHANGED <<body, cn, faults, histVars>>

(* Mutant: any answer to the CAS counts as won.                            *)
CommitWon_Always(s, observed) == TRUE

CommitWon(s, observed) == observed = s.got.guard

CasReturns(c) ==
    /\ cn[c].pc = "cas"
    /\ Return(c)
    /\ cn' = [cn EXCEPT ![c] = Finish(@, IF CommitWon(@, seen[c]) THEN Reply("ok", Nil)
                                                                  ELSE Error)]
    /\ UNCHANGED <<body, faults, histVars>>

(* The client dies, or its session breaks and its requests fail from then  *)
(* on.  A body it was writing stays as it is, in part.                     *)
Break(c) ==
    /\ cn[c].pc \in Busy
    /\ faults < MaxFaults
    /\ faults' = faults + 1
    /\ Fail(c)
    /\ cn' = [cn EXCEPT ![c] = [Finish(@, Error) EXCEPT !.pc = "dead"]]
    /\ mixed' = (mixed \/ cn[c].pc = "write")
    /\ UNCHANGED <<body, made>>

-----------------------------------------------------------------------------
Init ==
    /\ CasInit
    /\ body = [f \in Fields \ {"guard"} |-> ZeroSlot[f]]
    /\ cn = [c \in Callers |-> Idle]
    /\ faults = 0
    /\ made = {}
    /\ mixed = FALSE

Next == \E c \in Callers :
            \/ \E o \in Requests : Begin(c, o)
            \/ \E u \in Units : Transfer(c, u)
            \/ ReadReturns(c) \/ Refused(c) \/ Propose(c)
            \/ SendCas(c) \/ ServeCas(c) \/ CasReturns(c) \/ Break(c)

Spec == Init /\ [][Next]_vars

-----------------------------------------------------------------------------
(* Properties.                                                             *)

(* A value that a read returns comes from a slot one writer made: what the *)
(* card read while bodies and CAS changed the slot is returned only when   *)
(* all its words belong together (the mac in td_crypto_decode_slot).       *)
AuthenticValue ==
    \A c \in Callers : cn[c].reply.status = "value" => cn[c].got \in made

(* A slot that does not decode is the work of two writers at once or of    *)
(* one that failed in the middle of its body, and the next writer that is  *)
(* alone repairs it: its one-sided write replaces all words of the body    *)
(* before td_rdma_client_write returns.                                    *)
LoneWritesDecode ==
    /\ ~mixed
    /\ \A c \in Callers : cn[c].pc # "write"
    => body.visible = 0 \/ body.mac = td_crypto_mac(body)

(* Of two writers told ok no two took the same epoch, with bodies written  *)
(* over each other and CAS of dead clients served late.                    *)
WinnersDiffer ==
    \A c, d \in Callers :
        /\ c # d
        /\ cn[c].reply.status = "ok"
        /\ cn[d].reply.status = "ok"
        => cn[c].prop.visible # cn[d].prop.visible
=============================================================================
