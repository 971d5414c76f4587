------------------------------- MODULE KVStore -------------------------------
(***************************************************************************)
(* What the key-value store promises its clients (README.md, the paths of  *)
(* read, write, update and delete): one map from keys to values on which   *)
(* every command acts in one step between its request and its answer.      *)
(* Keys with the same 64-bit hash are one key to the store.                *)
(***************************************************************************)
CONSTANTS Clients, Keys, Hash, Values, TooLong, Nil, NoRequest

VARIABLES store,  \* store[k] is the value of k, Nil when there is none
          req,    \* the command each client has under way
          done,   \* whether it has taken effect
          ans     \* the last answer each client got

kvVars == <<store, req, done, ans>>

Answer(status, val) == [status |-> status, val |-> val]
NoAnswer == Answer("none", Nil)

Mutations == {"write", "update", "delete"}

(* A mutation takes effect; an update only on a key that has a value.      *)
Effect(c) ==
    /\ req[c].kind \in Mutations
    /\ ~done[c]
    /\ req[c].val \notin TooLong
    /\ req[c].kind = "update" => store[req[c].key] # Nil
    /\ store' = [k \in Keys |-> IF Hash[k] = Hash[req[c].key] THEN req[c].val ELSE store[k]]

Return(c, a) == /\ req' = [req EXCEPT ![c] = NoRequest]
                /\ done' = [done EXCEPT ![c] = FALSE]
                /\ ans' = [ans EXCEPT ![c] = a]

Submit(c) ==
    /\ req[c] = NoRequest
    /\ \E kind \in Mutations \cup {"read"}, k \in Keys, v \in Values \cup {Nil} :
          req' = [req EXCEPT ![c] = [kind |-> kind, key |-> k, val |-> v]]
    /\ ans' = [ans EXCEPT ![c] = NoAnswer]
    /\ UNCHANGED <<store, done>>

TakeEffect(c) ==
    /\ done' = [done EXCEPT ![c] = TRUE]
    /\ UNCHANGED <<req, ans>>
    /\ Effect(c)

(* ok, of a mutation that has taken effect or does so now.                 *)
Acknowledge(c) ==
    /\ Return(c, Answer("ok", Nil))
    /\ \/ Effect(c)
       \/ req[c].kind \in Mutations /\ done[c] /\ UNCHANGED store

ReadReturns(c) ==
    /\ req[c].kind = "read"
    /\ LET v == store[req[c].key]
       IN  Return(c, IF v = Nil THEN Answer("not_found", Nil) ELSE Answer("value", v))
    /\ UNCHANGED store

(* error, without effect: the key has no value (there may be no room for   *)
(* it, or the command is an update), or the value is too long.             *)
Refuse(c) ==
    /\ req[c] # NoRequest
    /\ ~done[c]
    /\ Return(c, Answer("error", Nil))
    /\ store[req[c].key] = Nil \/ req[c].val \in TooLong
    /\ UNCHANGED store

(* The client process ends between commands.                               *)
Leave(c) == /\ req[c] = NoRequest
            /\ ans' = [ans EXCEPT ![c] = NoAnswer]
            /\ UNCHANGED <<store, req, done>>

Init == /\ store = [k \in Keys |-> Nil]
        /\ req = [c \in Clients |-> NoRequest]
        /\ done = [c \in Clients |-> FALSE]
        /\ ans = [c \in Clients |-> NoAnswer]

Next == \E c \in Clients :
            \/ Submit(c) \/ TakeEffect(c) \/ Acknowledge(c) \/ ReadReturns(c)
            \/ Refuse(c) \/ Leave(c)

Spec == Init /\ [][Next]_kvVars
=============================================================================
