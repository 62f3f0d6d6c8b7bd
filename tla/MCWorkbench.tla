----------------------------- MODULE MCWorkbench -----------------------------
(* The bounds for the runs of Workbench.                                   *)
EXTENDS Workbench

First == CHOOSE c \in Cases : TRUE

\* The user does three things, or fewer while the network fails; a page that is only
\* opened sees one commit more.  The second incident has one commit, and none when
\* the network fails.
Bounded ==
    /\ tab.url \in {None, First} \/ gestures > 0
    /\ gestures + failures <= 3
    /\ commits[First] = MaxCommits => gestures + failures <= 1
    /\ \A c \in Cases \ {First} :
         commits[c] <= 2 /\ (failures > 0 => commits[c] = 1)
=============================================================================
