------------------------------- MODULE FaultLoop -------------------------------
(***************************************************************************)
(* The demo's fault-to-recovery loop (LocalFaultLoop).  A start reserves   *)
(* an idempotency key in the append-only ledger and launches one run: a    *)
(* fault is injected into an in-memory fixture, four agents are called in  *)
(* turn, the fault is repaired, the repair is verified, and a repair that  *)
(* does not hold is rolled back and tried once more.  Every step is an     *)
(* event of the ledger.  The process may die between any two events; a     *)
(* later start with the same key closes a run whose lease has passed.      *)
(*                                                                         *)
(* The process has one thread: other requests are served only while every  *)
(* run waits for something, so a run's events between two waits are seen   *)
(* together or, if the process dies, are cut short anywhere.               *)
(***************************************************************************)
EXTENDS Naturals, Sequences, FiniteSets

CONSTANTS
    Keys,         \* idempotency keys; a key names the run it reserved
    MaxAttempts,  \* MAX_REMEDIATION_ATTEMPTS
    MaxLosses     \* bound: restarts of the process and failures of the ledger

ASSUME AttemptsAssumption == MaxAttempts \in Nat \ {0}
ASSUME LossesAssumption == MaxLosses \in Nat

VARIABLES
    ledger,   \* the events of each run
    exec,     \* the execution of each run in the process
    expired,  \* the runs whose lease has passed
    losses    \* executions lost so far

vars == <<ledger, exec, expired, losses>>

Roles == {"observer", "orchestrator", "investigator", "evaluator"}
Cases == {"positive", "negative"}
Terminal == {"recovered", "stopped", "failed"}

-----------------------------------------------------------------------------
(* The course of a run.  The name of a role stands for a call of its       *)
(* model, any other name for the event that is recorded.                   *)

PositiveScript ==
    << "baseline.captured", "fault.injected", "topology.bound", "observer",
       "incident.opened", "observer.detected", "handoff.recorded", "orchestrator",
       "orchestrator.routed", "handoff.recorded", "investigator",
       "hypothesis.proposed", "handoff.recorded", "evaluator",
       "evaluation.rejected", "hypothesis.accepted", "evaluation.accepted",
       "plan.proposed", "authority.decided", "repair.executed", "verification.completed" >>

\* An anomaly without evidence of its cause: nobody repairs anything.
NegativeScript ==
    << "evidence.recorded", "topology.bound", "observer",
       "incident.opened", "observer.detected", "handoff.recorded", "orchestrator",
       "handoff.recorded", "investigator", "hypothesis.proposed", "handoff.recorded",
       "evaluator", "evaluation.rejected", "authority.decided", "stopped" >>

\* A repair that did not hold is rolled back; the second attempt is investigated,
\* evaluated, planned and authorized again.
RetryScript ==
    << "repair.rolled_back", "handoff.recorded", "investigator", "handoff.recorded", "evaluator",
       "plan.replanned", "authority.decided", "repair.executed", "verification.completed" >>

Types ==
    { "reserved", "run.started", "interrupted", "baseline.captured", "fault.injected",
      "evidence.recorded", "topology.bound", "role.working", "role.response", "incident.opened",
      "observer.detected", "handoff.recorded", "orchestrator.routed", "hypothesis.proposed",
      "hypothesis.accepted", "evaluation.rejected", "evaluation.accepted", "plan.proposed",
      "plan.replanned", "authority.decided", "repair.executed", "verification.completed",
      "repair.rolled_back" } \cup Terminal

Script(case) == IF case = "positive" THEN PositiveScript ELSE NegativeScript

AfterVerification(passed, attempt) ==
    IF passed THEN <<"recovered">>
    ELSE IF attempt = MaxAttempts THEN <<"repair.rolled_back", "stopped">> ELSE RetryScript

-----------------------------------------------------------------------------
(* The ledger and the executions.                                          *)

\* parent is the place of the event that caused this one, 0 if there is none.
Event(type, parent, passed) == [type |-> type, parent |-> parent, passed |-> passed]

TypesOf(events) == {events[n].type : n \in DOMAIN events}
Reserved(k) == ledger[k] # <<>>
Started(k) == "run.started" \in TypesOf(ledger[k])
\* Seeded fault: a run whose repair was rolled back counts as ended.
FinalOrRolledBack(k) == TypesOf(ledger[k]) \cap (Terminal \cup {"repair.rolled_back"}) # {}
Final(k) == TypesOf(ledger[k]) \cap Terminal # {}
Last(k) == Len(ledger[k])

Gone == [at |-> "gone", case |-> "negative", todo |-> <<>>, parent |-> 0,
         attempt |-> 0, faulted |-> FALSE, failing |-> 0]

Executing(k) == exec[k].at # "gone"
Doing(k, types) ==
    exec[k].at = "running" /\ exec[k].todo # <<>> /\ Head(exec[k].todo) \in types

\* The run waits: for the event loop, the topology, a capability or an answer.
Waits(k) == exec[k].at \in {"gone", "launched", "answering"} \/ Doing(k, Roles)
Turn == \A k \in Keys : Waits(k)

Record(k, type, parent, passed) ==
    ledger' = [ledger EXCEPT ![k] = Append(@, Event(type, parent, passed))]

Go(k, e) == exec' = [exec EXCEPT ![k] = e]

\* What is left to do once the first of it has been recorded.
Done(k) == [exec[k] EXCEPT !.todo = Tail(@), !.parent = Last(k) + 1]

Init ==
    /\ ledger = [k \in Keys |-> <<>>]
    /\ exec = [k \in Keys |-> Gone]
    /\ expired = {}
    /\ losses = 0

-----------------------------------------------------------------------------
(* Starting.                                                               *)

\* A fresh key.  failing: how many verifications the fixture lets fail.
Reserve(k, case, failing) ==
    /\ Turn /\ ~Reserved(k)
    /\ Record(k, "reserved", 0, FALSE)
    /\ Go(k, [Gone EXCEPT !.at = "reserving", !.case = case, !.failing = failing])
    /\ UNCHANGED <<expired, losses>>

Launch(k) ==
    /\ exec[k].at = "reserving"
    /\ Record(k, "run.started", Last(k), FALSE)
    /\ Go(k, [exec[k] EXCEPT !.at = "launched", !.todo = Script(exec[k].case)])
    /\ UNCHANGED <<expired, losses>>

\* Seeded fault: the lease alone decides, whether or not the run goes on.
ReconcileByLease(k) ==
    /\ Turn /\ Started(k) /\ ~Final(k) /\ k \in expired
    /\ Record(k, "failed", Last(k), FALSE)
    /\ UNCHANGED <<exec, expired, losses>>

\* Seeded fault: an interrupted run is executed once more.
ReconcileByResuming(k) ==
    /\ Turn /\ Started(k) /\ ~Final(k) /\ ~Executing(k) /\ k \in expired
    /\ Record(k, "interrupted", Last(k), FALSE)
    /\ Go(k, [Gone EXCEPT !.at = "running", !.todo = PositiveScript])
    /\ UNCHANGED <<expired, losses>>

\* The key again.  A run that is over or under way is left alone, and so is one
\* whose lease has not passed.  A reservation without a started run is an error.
Reconcile(k) ==
    /\ Turn /\ Started(k) /\ ~Final(k) /\ ~Executing(k) /\ k \in expired
    /\ Record(k, "interrupted", Last(k), FALSE)
    /\ Go(k, [Gone EXCEPT !.at = "interrupting"])
    /\ UNCHANGED <<expired, losses>>

Interrupt(k) ==
    /\ exec[k].at = "interrupting"
    /\ Record(k, "failed", Last(k), FALSE)
    /\ Go(k, Gone)
    /\ UNCHANGED <<expired, losses>>

-----------------------------------------------------------------------------
(* Executing.                                                              *)

\* A run that cannot go on is closed by the step that noticed, once.
Fail(k) ==
    /\ Record(k, "failed", exec[k].parent, FALSE)
    /\ Go(k, Gone)

\* The topology provider answers or does not.
BindTopology(k) ==
    /\ exec[k].at = "launched"
    /\ \/ Go(k, [exec[k] EXCEPT !.at = "running"]) /\ UNCHANGED ledger
       \/ Fail(k)
    /\ UNCHANGED <<expired, losses>>

\* An event that follows from the one before it.
Advance(k) ==
    /\ exec[k].at = "running" /\ exec[k].todo # <<>>
    /\ Head(exec[k].todo) \notin Roles \cup Terminal
           \cup {"repair.executed", "verification.completed", "repair.rolled_back"}
    /\ Record(k, Head(exec[k].todo), exec[k].parent, FALSE)
    /\ Go(k, [Done(k) EXCEPT !.faulted = @ \/ Head(exec[k].todo) = "fault.injected"])
    /\ UNCHANGED <<expired, losses>>

\* The provider is available, and the role goes to work; or the run fails.
CallRole(k) ==
    /\ Doing(k, Roles)
    /\ \/ /\ Record(k, "role.working", exec[k].parent, FALSE)
          /\ Go(k, [exec[k] EXCEPT !.at = "answering", !.parent = Last(k) + 1])
       \/ Fail(k)
    /\ UNCHANGED <<expired, losses>>

\* The model answers something that can be shown; or the run fails.
RoleAnswers(k) ==
    /\ exec[k].at = "answering"
    /\ \/ /\ Record(k, "role.response", exec[k].parent, FALSE)
          /\ Go(k, [Done(k) EXCEPT !.at = "running"])
       \/ Fail(k)
    /\ UNCHANGED <<expired, losses>>

\* Seeded fault: a second repair hangs on the plan, past its own authority.
RepairUnderPlan(k) ==
    /\ Doing(k, {"repair.executed"})
    /\ Record(k, "repair.executed", exec[k].parent - (IF exec[k].attempt > 0 THEN 1 ELSE 0), FALSE)
    /\ Go(k, [Done(k) EXCEPT !.faulted = FALSE, !.attempt = @ + 1])
    /\ UNCHANGED <<expired, losses>>

\* FixtureSimulator.repair refuses to repair what is not broken.
Repair(k) ==
    /\ Doing(k, {"repair.executed"})
    /\ IF exec[k].faulted
       THEN /\ Record(k, "repair.executed", exec[k].parent, FALSE)
            /\ Go(k, [Done(k) EXCEPT !.faulted = FALSE, !.attempt = @ + 1])
       ELSE Fail(k)
    /\ UNCHANGED <<expired, losses>>

\* Seeded fault: the first failure is put down to the fixture.
VerifyLeniently(k) ==
    /\ Doing(k, {"verification.completed"})
    /\ LET passed == ~exec[k].faulted /\ exec[k].failing <= 1
       IN  /\ Record(k, "verification.completed", exec[k].parent, ~exec[k].faulted /\ exec[k].failing = 0)
           /\ Go(k, [Done(k) EXCEPT !.failing = IF @ > 0 THEN @ - 1 ELSE 0,
                         !.todo = AfterVerification(passed, exec[k].attempt)])
    /\ UNCHANGED <<expired, losses>>

Verify(k) ==
    /\ Doing(k, {"verification.completed"})
    /\ LET passed == ~exec[k].faulted /\ exec[k].failing = 0
       IN  /\ Record(k, "verification.completed", exec[k].parent, passed)
           /\ Go(k, [Done(k) EXCEPT !.failing = IF @ > 0 THEN @ - 1 ELSE 0,
                         !.todo = AfterVerification(passed, exec[k].attempt)])
    /\ UNCHANGED <<expired, losses>>

RollBack(k) ==
    /\ Doing(k, {"repair.rolled_back"})
    /\ Record(k, "repair.rolled_back", exec[k].parent, FALSE)
    /\ Go(k, [Done(k) EXCEPT !.faulted = TRUE])
    /\ UNCHANGED <<expired, losses>>

\* recovered or stopped: the run is over.
Finish(k) ==
    /\ Doing(k, Terminal)
    /\ Record(k, Head(exec[k].todo), exec[k].parent, FALSE)
    /\ Go(k, Gone)
    /\ UNCHANGED <<expired, losses>>

-----------------------------------------------------------------------------
(* Losses.                                                                 *)

\* The ledger refuses an event.  An execution then records that it failed, unless
\* that is refused too; a start or a closing is simply broken off.
LedgerFails(k) ==
    /\ Executing(k) /\ losses < MaxLosses
    /\ \/ Go(k, Gone) /\ UNCHANGED ledger
       \/ exec[k].at \notin {"reserving", "interrupting"} /\ Fail(k)
    /\ losses' = losses + 1
    /\ UNCHANGED expired

\* Every execution and every fixture was in the memory of the process.
Restart ==
    /\ losses < MaxLosses
    /\ exec' = [k \in Keys |-> Gone]
    /\ losses' = losses + 1
    /\ UNCHANGED <<ledger, expired>>

LeaseExpires(k) ==
    /\ Reserved(k) /\ k \notin expired
    /\ expired' = expired \cup {k}
    /\ UNCHANGED <<ledger, exec, losses>>

Execute(k) ==
    \/ Launch(k) \/ BindTopology(k) \/ Advance(k) \/ CallRole(k) \/ RoleAnswers(k)
    \/ Repair(k) \/ Verify(k) \/ RollBack(k) \/ Finish(k) \/ Interrupt(k)

Next ==
    \/ \E k \in Keys :
        \/ \E case \in Cases, failing \in 0..MaxAttempts : Reserve(k, case, failing)
        \/ Reconcile(k)
        \/ Execute(k)
        \/ LedgerFails(k)
        \/ LeaseExpires(k)
    \/ Restart

Spec == Init /\ [][Next]_vars

\* The event loop gets round to every run, a provider answers or is timed out,
\* leases pass, and someone asks for the same key again.
Fairness ==
    \A k \in Keys : WF_vars(Execute(k)) /\ WF_vars(LeaseExpires(k)) /\ SF_vars(Reconcile(k))

FairSpec == Spec /\ Fairness

-----------------------------------------------------------------------------
(* Properties.                                                             *)

View == INSTANCE RunReadModel

Executions ==
    [at : {"gone", "reserving", "launched", "running", "answering", "interrupting"},
     case : Cases, todo : Seq(Types \cup Roles), parent : Nat, attempt : 0..MaxAttempts,
     faulted : BOOLEAN, failing : 0..MaxAttempts]

\* The ledger and the executions have their types.
TypeOK ==
    /\ ledger \in [Keys -> Seq([type : Types, parent : Nat, passed : BOOLEAN])]
    /\ exec \in [Keys -> Executions]
    /\ expired \subseteq Keys
    /\ losses \in 0..MaxLosses

Count(k, type) == Cardinality({n \in DOMAIN ledger[k] : ledger[k][n].type = type})

\* However often a key is used again, and whenever the process died in between, the
\* key's run was started once, injected its fault once, was repaired no more often
\* than it may be, and no repair came on top of one that still stood.
OneRunPerKey ==
    \A k \in Keys :
        /\ Count(k, "run.started") <= 1 /\ Count(k, "fault.injected") <= 1
        /\ Count(k, "repair.executed") <= MaxAttempts
        /\ Count(k, "repair.executed") <= Count(k, "repair.rolled_back") + 1

\* A run that recovered was repaired, its last verification passed, and that
\* verification was of its last repair, which nobody rolled back.
RecoveredIsVerified ==
    \A k \in Keys : "recovered" \in TypesOf(ledger[k]) =>
        LET verified == ledger[k][Last(k) - 1]
        IN  /\ verified.type = "verification.completed" /\ verified.passed
            /\ ledger[k][verified.parent].type = "repair.executed"
            /\ \A n \in verified.parent + 1..Last(k) :
                   ledger[k][n].type \notin {"repair.executed", "repair.rolled_back"}

\* Whoever reads the whole run finds every link of its chain of authority: each
\* repair and each verification that was recorded is recognized as one, the
\* newest verification decides, and only a recovered run is shown as such.
WholeRunIsRecognized ==
    Turn => \A k \in Keys :
        LET evidence == View!WorkflowEvidence(ledger[k], DOMAIN ledger[k])
            newest(types) == View!Newest({n \in DOMAIN ledger[k] : ledger[k][n].type \in types})
            plan == newest({"plan.proposed", "plan.replanned"})
            verification == newest({"verification.completed"})
        IN  /\ evidence.repairExecuted <=> newest({"repair.executed"}) > plan
            /\ evidence.authorityGranted <=> plan > 0 /\ newest({"authority.decided"}) > plan
            /\ evidence.verificationPassed <=> verification > 0 /\ ledger[k][verification].passed
            /\ evidence.verificationFailed <=> verification > 0 /\ ~ledger[k][verification].passed
            /\ View!VerificationShown(ledger[k], DOMAIN ledger[k]) <=> "recovered" \in TypesOf(ledger[k])

\* A reader who missed some events in the middle, or has not seen the last ones,
\* never takes a chain for whole whose links it does not know: what it takes for
\* verified or authorized, it saw planned, authorized, repaired and verified.
GapsFailClosed ==
    Turn => \A k \in Keys : \A a, b \in 1..Last(k) + 1 : a < b =>
        LET known == 1..a \cup b..Last(k)
            evidence == View!WorkflowEvidence(ledger[k], known)
            Cause(n) == ledger[k][n].parent
            KnownAs(type) == {n \in known \cap DOMAIN ledger[k] : ledger[k][n].type = type}
            authorized == {n \in KnownAs("authority.decided") : Cause(n) \in known}
            repaired == {n \in KnownAs("repair.executed") : Cause(n) \in authorized}
        IN  /\ evidence.authorityGranted => authorized # {}
            /\ evidence.repairExecuted => repaired # {}
            /\ evidence.verificationPassed =>
                   \E n \in KnownAs("verification.completed") : Cause(n) \in repaired /\ ledger[k][n].passed

Abstract(event) ==
    IF event.type \in Terminal THEN event.type
    ELSE CASE event.type = "reserved" -> "reserved"
           [] event.type = "run.started" -> "started"
           [] event.type = "topology.bound" -> "bound"
           [] OTHER -> "work"

Recorded == INSTANCE RecordedRun
    WITH Runs <- Keys, log <- [k \in Keys |-> [n \in DOMAIN ledger[k] |-> Abstract(ledger[k][n])]]

\* Every run is a recorded run: it starts once, binds its topology at most once,
\* ends at most once, and nothing is ever appended to it afterwards.
KeepsRecordedRun == Recorded!Spec

\* A run that was started ends, even if its execution was lost: a later start with
\* the same key closes it.
StartedRunsEnd == \A k \in Keys : Started(k) ~> TypesOf(ledger[k]) \cap Terminal # {}

\* The contract says of an interrupted reservation what the code does only of an
\* interrupted run: that after its lease a start with the same key closes it.
ReservationsEnd == \A k \in Keys : Reserved(k) ~> TypesOf(ledger[k]) \cap Terminal # {}
=============================================================================
