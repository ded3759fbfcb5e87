----------------------------- MODULE AtomicStore -----------------------------
(***************************************************************************)
(* What the callers of the database adapter may rely on.  The effect of a  *)
(* transaction appears in the database all at once or never, and is there  *)
(* when its promise resolves; once the promise has been rejected nothing   *)
(* of it appears any more.  A single statement appears at once too, but    *)
(* may be acknowledged before it does.                                     *)
(***************************************************************************)
EXTENDS Naturals

CONSTANTS
  Tx, Single,        \* transactions; statements outside any
  Statements         \* statements of a transaction

VARIABLES
  store,    \* the statements whose effect is durable
  answer    \* what the caller was told

vars == <<store, answer>>

Activity == Tx \cup Single
Effect(a) == IF a \in Tx THEN {a} \X (1..Statements) ELSE {<<a, 1>>}

Init == store = {} /\ answer = [a \in Activity |-> "none"]

\* The activities of S take effect together.
Take(S) ==
  /\ \A a \in S : /\ answer[a] # "rejected" /\ Effect(a) \cap store = {}
                  /\ a \in Tx => answer[a] = "none"
  /\ store' = store \cup UNION {Effect(a) : a \in S}

Tell(a, r) ==
  /\ answer[a] = "none" /\ answer' = [answer EXCEPT ![a] = r]
  /\ a \in Tx /\ r = "resolved" => Effect(a) \subseteq store'

Next ==
  /\ \/ \E S \in SUBSET Activity : Take(S)
     \/ UNCHANGED store
  /\ \/ \E a \in Activity, r \in {"resolved", "rejected"} : Tell(a, r)
     \/ UNCHANGED answer

Spec == Init /\ [][Next]_vars
=============================================================================
