----------------------------- MODULE CasRegister -----------------------------
(***************************************************************************)
(* What session->cas64 promises its callers: a compare-and-swap of one     *)
(* word that takes effect once, between the call and its return, and       *)
(* brings back the word it found.  A call that fails may have taken        *)
(* effect, may yet do so, or never; its caller makes no other.             *)
(***************************************************************************)
EXTENDS Naturals

CONSTANTS Callers, Words, None

VARIABLES word,   \* the word
          req,    \* the call of each caller: [compare, swap], or None
          seen,   \* what it found, None before it takes effect
          failed, \* callers whose call failed
          ans     \* what the last call returned, or None

casVars == <<word, req, seen, failed, ans>>

Invoke(c) ==
    /\ req[c] = None
    /\ c \notin failed
    /\ \E e \in Words : req' = [req EXCEPT ![c] = [compare |-> e, swap |-> e + 1]]
    /\ ans' = [ans EXCEPT ![c] = None]
    /\ UNCHANGED <<word, seen, failed>>

TakeEffect(c) ==
    /\ req[c] # None
    /\ seen[c] = None
    /\ seen' = [seen EXCEPT ![c] = word]
    /\ word' = IF word = req[c].compare THEN req[c].swap ELSE word
    /\ UNCHANGED <<req, failed, ans>>

Return(c) ==
    /\ req[c] # None
    /\ c \notin failed
    /\ seen[c] # None
    /\ ans' = [ans EXCEPT ![c] = seen[c]]
    /\ seen' = [seen EXCEPT ![c] = None]
    /\ req' = [req EXCEPT ![c] = None]
    /\ UNCHANGED <<word, failed>>

Fail(c) ==
    /\ failed' = failed \cup {c}
    /\ ans' = [ans EXCEPT ![c] = None]
    /\ UNCHANGED <<word, req, seen>>

(* A caller that is not watched swaps the word.                            *)
Other ==
    /\ word' = word + 1
    /\ UNCHANGED <<req, seen, failed, ans>>

(* The caller does something else.                                         *)
Forget(c) ==
    /\ ans' = [ans EXCEPT ![c] = None]
    /\ UNCHANGED <<word, req, seen, failed>>

CasInit == /\ word = 0
           /\ req = [c \in Callers |-> None]
           /\ seen = [c \in Callers |-> None]
           /\ failed = {}
           /\ ans = [c \in Callers |-> None]

CasNext == Other \/ \E c \in Callers : Invoke(c) \/ TakeEffect(c) \/ Return(c) \/ Fail(c) \/ Forget(c)

CasSpec == CasInit /\ [][CasNext]_casVars
=============================================================================
