----------------------------- MODULE MCRunViewer -----------------------------
(* The bound for the run of RunViewer.                                     *)
EXTENDS RunViewer

\* The runs are interchangeable, so one of them may be started first.
First == CHOOSE r \in Runs : TRUE

\* One run with a failure or a gesture of the user; or two short ones, of which the
\* second is only started after the first bound its topology, while nothing fails
\* nor does the user interfere.
OneOrTwoRuns ==
    /\ failures + gestures <= 1
    /\ (\E r \in Runs \ {First} : log[r] # <<>>) =>
        /\ Bound(log[First]) /\ Len(log[First]) <= 4 /\ failures = 0 /\ active # None
        /\ Cardinality(tab.hydrates) <= 2 /\ gestures = 0 /\ tab.late = {}
        /\ \A r \in Runs : ~Happened({"work"}, log[r]) /\ (Over(log[r]) => Bound(log[r]))
=============================================================================
