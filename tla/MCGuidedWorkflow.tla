-------------------------- MODULE MCGuidedWorkflow --------------------------
(* Model values, symmetry and bounds for the runs of GuidedWorkflow.       *)
EXTENDS GuidedWorkflow, TLC

\* Fingerprints are only compared with each other: the temporal run and the
\* runs with one fingerprint do not use it.
Symmetry == Permutations(Premises)

\* Seven runs of one attempt, or two attempts of the shortest successful
\* length, six runs and then four.
TwoAttempts ==
    LET RunsOf(n) == Cardinality({i \in DOMAIN projection.runs : projection.runs[i].attempt = n})
    IN  projection.attempt = 2 => RunsOf(1) <= 6 /\ RunsOf(1) + RunsOf(2) <= 10
=============================================================================
