----------------------------- MODULE RunReadModel -----------------------------
(***************************************************************************)
(* What the server projects from a run's events and what the browser reads *)
(* out of the events it knows (known: their places in the ledger).  The    *)
(* browser's events carry the server's projection of the run as it was at  *)
(* the event, so that of the newest known one is what the browser goes by. *)
(***************************************************************************)
EXTENDS Naturals, Sequences

Endings == {"recovered", "stopped", "failed"}

Newest(places) == IF places = {} THEN 0 ELSE CHOOSE n \in places : \A m \in places : m <= n

Places(events, upTo, types) == {n \in DOMAIN events : n <= upTo /\ events[n].type \in types}
Seen(events, upTo, types) == Places(events, upTo, types) # {}

-----------------------------------------------------------------------------
(* The server's projections, of the events up to a place.                  *)

StateOf(events, upTo) ==
    LET ending == Newest(Places(events, upTo, Endings))
    IN  IF ending = 0 THEN "running"
        ELSE IF events[ending].type = "stopped" THEN "needs_human" ELSE events[ending].type

Bound(events, upTo) == Seen(events, upTo, {"topology.bound"})

\* canonicalRunTopology: the newest verification counts if the run recovered.
TopologyVerified(events, upTo) ==
    LET verification == Newest(Places(events, upTo, {"verification.completed"}))
    IN  StateOf(events, upTo) = "recovered" /\ verification > 0 /\ events[verification].passed

\* workspaceProjection: which workspaces may be opened.
ViewDiagnosis(events, upTo) == Seen(events, upTo, {"incident.opened"})
OpenRecoveryConsole(events, upTo) == Seen(events, upTo, {"plan.proposed", "repair.executed"})
CompareRecovery(events, upTo) ==
    /\ StateOf(events, upTo) = "recovered"
    /\ Seen(events, upTo, {"verification.completed"}) /\ Seen(events, upTo, {"repair.executed"})

-----------------------------------------------------------------------------
(* The browser's readings.                                                 *)

Unread == [planned |-> 0, authorized |-> 0, repaired |-> 0, passed |-> FALSE, failed |-> FALSE]

\* Seeded fault: an event counts for what went before it, whatever caused it.
ReadEventUnlinked(s, n, event) ==
    CASE event.type \in {"plan.proposed", "plan.replanned"} ->
            [s EXCEPT !.planned = n, !.authorized = 0, !.repaired = 0]
      [] event.type = "authority.decided" /\ s.planned # 0 -> [s EXCEPT !.authorized = n, !.repaired = 0]
      [] event.type = "repair.executed" /\ s.authorized # 0 -> [s EXCEPT !.repaired = n]
      [] event.type = "verification.completed" /\ s.repaired # 0 ->
            [s EXCEPT !.passed = event.passed, !.failed = ~event.passed]
      [] OTHER -> s

\* One event more: a plan, and what is chained to it link by link.
ReadEvent(s, n, event) ==
    CASE event.type \in {"plan.proposed", "plan.replanned"} ->
            [s EXCEPT !.planned = n, !.authorized = 0, !.repaired = 0]
      [] event.type = "authority.decided" /\ s.planned # 0 /\ event.parent = s.planned ->
            [s EXCEPT !.authorized = n, !.repaired = 0]
      [] event.type = "repair.executed" /\ s.authorized # 0 /\ event.parent = s.authorized ->
            [s EXCEPT !.repaired = n]
      [] event.type = "verification.completed" /\ s.repaired # 0 /\ event.parent = s.repaired ->
            [s EXCEPT !.passed = event.passed, !.failed = ~event.passed]
      [] OTHER -> s

\* What has been read at each place, of the known events up to it.
Readings(events, known) ==
    LET read[n \in 0..Len(events)] ==
            IF n = 0 THEN Unread
            ELSE IF n \in known THEN ReadEvent(read[n - 1], n, events[n]) ELSE read[n - 1]
    IN  read

\* incidentWorkflowEvidence, of the known events.
WorkflowEvidence(events, known) ==
    LET end == Readings(events, known)[Len(events)]
    IN  [authorityGranted |-> end.authorized # 0, repairExecuted |-> end.repaired # 0,
         verificationPassed |-> end.passed, verificationFailed |-> end.failed]

\* incidentVerificationProjection: four sources have to agree on a passed run.
VerificationShown(events, known) ==
    LET newest == Newest(known \cap DOMAIN events)
    IN  /\ StateOf(events, newest) = "recovered" /\ CompareRecovery(events, newest)
        /\ WorkflowEvidence(events, known).verificationPassed
        /\ TopologyVerified(events, newest)

\* canonicalIncidentWorkspaceStage.
WorkspaceStage(events, known) ==
    LET newest == Newest(known \cap DOMAIN events)
        evidence == WorkflowEvidence(events, known)
        state == StateOf(events, newest)
    IN  IF \/ evidence.verificationPassed /\ (state = "recovered" \/ TopologyVerified(events, newest))
           \/ evidence.verificationFailed
        THEN "verify"
        ELSE IF evidence.authorityGranted \/ evidence.repairExecuted THEN "execute"
        ELSE IF state \in {"needs_human", "failed"} THEN "investigate"
        ELSE IF (\E n \in known \cap DOMAIN events : events[n].type = "plan.proposed")
                    \/ OpenRecoveryConsole(events, newest) THEN "decide"
        ELSE "investigate"
=============================================================================
