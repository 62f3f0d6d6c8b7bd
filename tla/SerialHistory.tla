---------------------------- MODULE SerialHistory ----------------------------
(***************************************************************************)
(* What the workspace repository promises its writers: the accepted        *)
(* operations have one order, each takes effect on the state that all      *)
(* earlier ones left, and none takes effect twice.                         *)
(***************************************************************************)
EXTENDS Naturals, Sequences

CONSTANT Keys  \* idempotency keys of operations

VARIABLE history  \* the operations that took effect, each with its base state

Init == history = <<>>

Applied == {history[n].key : n \in DOMAIN history}

\* The base of an operation is the number of operations before it.
Apply(key) ==
    /\ key \notin Applied
    /\ history' = Append(history, [key |-> key, base |-> Len(history)])

Next == \E key \in Keys : Apply(key)

Spec == Init /\ [][Next]_history
=============================================================================
