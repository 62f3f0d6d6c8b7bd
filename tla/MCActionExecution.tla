-------------------------- MODULE MCActionExecution --------------------------
(* The bounds for the runs of ActionExecution.                             *)
EXTENDS ActionExecution, FiniteSets

First == CHOOSE a \in Actions : TRUE
Begun(a) == Cardinality({n \in Attempts : calls[a][n] # "none"})

\* Of the second injection and the restart there is one.  A second action has one
\* attempt, beside at most two of the first, one after the other, and no interference.
OneByOne ==
    /\ execution[First] = "NOT_STARTED" => current = First
    /\ epoch + restarts <= 2
    /\ \A a \in Actions \ {First} : current = a =>
         /\ epoch = 1 /\ restarts = 0
         /\ Begun(a) <= 1 /\ Begun(First) <= 2
         /\ Begun(First) = 2 => calls[First][1] \in {"ended", "refused", "failed"}
=============================================================================
