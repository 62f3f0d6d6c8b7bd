------------------------------ MODULE RecordedRun ------------------------------
(***************************************************************************)
(* What the demo's ledger promises of a run to whoever reads it: a run is  *)
(* reserved, then started, then grows by one event at a time; the topology *)
(* is bound at most once; the run ends at most once and never grows after. *)
(* It may also stop growing without an end.                                *)
(***************************************************************************)
EXTENDS Naturals, Sequences

CONSTANT Runs

VARIABLE log  \* the events of each run, in the order of the ledger

Endings == {"recovered", "stopped", "failed"}
Kinds == {"reserved", "started", "bound", "work"} \cup Endings

Happened(kinds, s) == \E n \in DOMAIN s : s[n] \in kinds
Ended(r) == Happened(Endings, log[r])

\* The events that may come after the events s.
Following(s) ==
    IF s = <<>> THEN {"reserved"}
    ELSE IF ~Happened({"started"}, s) THEN {"started"}
    ELSE IF Happened(Endings, s) THEN {}
    ELSE {"work"} \cup Endings \cup (IF Happened({"bound"}, s) THEN {} ELSE {"bound"})

Grow(r, kind) ==
    /\ kind \in Following(log[r])
    /\ log' = [log EXCEPT ![r] = Append(@, kind)]

Init == log = [r \in Runs |-> <<>>]
Next == \E r \in Runs, kind \in Kinds : Grow(r, kind)
Spec == Init /\ [][Next]_log
=============================================================================
