--------------------------- MODULE MCWorkflowStore ---------------------------
(* Symmetry and the constraint for the runs of WorkflowStore.              *)
EXTENDS WorkflowStore, FiniteSets, TLC

\* Updates, snapshots, and the keys and contents of commands are each
\* interchangeable.
Symmetry ==
    Permutations(Updates) \cup Permutations(Syncs) \cup Permutations(CommandKeys)
        \cup Permutations(Contents)

\* At most one activity has to be repeated.
OneRepeated == Cardinality({x \in Writers : attempt[x] > 1}) <= 1
=============================================================================
