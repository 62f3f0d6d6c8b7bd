------------------------------ MODULE MCOwnerGate ----------------------------
(* OwnerGate for TLC.  What complicates a run - a crash or a refused append, a*)
(* lock, a verification, a second run, which counts twice - adds up to at most*)
(* MaxTroubles in one behaviour, and to one less in its last instant.         *)
EXTENDS OwnerGate

CONSTANT MaxTroubles

Troubles ==
    faults + Cardinality(Locks)
      + Cardinality({i \in DOMAIN ledger : ledger[i].type = "verified"})
      + 2 * (IF LatestRun + starting.checked + starting.applied > 1 THEN 1 ELSE 0)

Bounded == Troubles <= (IF now = MaxNow THEN MaxTroubles - 1 ELSE MaxTroubles)
=============================================================================
