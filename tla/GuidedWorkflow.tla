--------------------------- MODULE GuidedWorkflow ---------------------------
(***************************************************************************)
(* The guided incident workflow: operator commands, realtime telemetry and *)
(* the Temporal activities act on one stored projection in any order.      *)
(*                                                                         *)
(* A coordinator method reads the projection, computes the next one and    *)
(* commits it by compare-and-swap, so a method is one step here.  An       *)
(* activity is not: between its commits every other actor may act, and a   *)
(* crashed worker may leave the remaining ones out.  What an activity      *)
(* still has to do is mostly readable off the projection; the one thing    *)
(* that is not is a rollback in flight, which rollbacks keeps.             *)
(***************************************************************************)
EXTENDS GuidedProjection

VARIABLES
    projection,  \* the stored IncidentProjectionV3
    rollbacks    \* RESPOND runs whose action a VERIFY activity is rolling back

vars == <<projection, rollbacks>>

Init ==
    /\ \E premise \in Premises, qualified \in BOOLEAN :
          projection = Bootstrap(premise, qualified)
    /\ rollbacks = {}

-----------------------------------------------------------------------------
(* Telemetry and the operator's commands.                                  *)

Sync ==
    /\ \E premise \in Premises, live, qualified \in BOOLEAN :
          SyncRealtime(projection, premise, live, qualified, projection')
    /\ UNCHANGED rollbacks

Advance == AdvanceStage(projection, projection') /\ UNCHANGED rollbacks

Invalidate == InvalidateDecision(projection, projection') /\ UNCHANGED rollbacks

Complete == CompleteIncident(projection, projection') /\ UNCHANGED rollbacks

Rerun ==
    /\ \E target \in Stages : RerunStage(projection, target, projection')
    /\ UNCHANGED rollbacks

Branch ==
    /\ \E target \in Stages : BranchAttempt(projection, target, projection')
    /\ UNCHANGED rollbacks

OperatorEscalate == Escalate(projection, projection') /\ UNCHANGED rollbacks

Approve == ApproveAction(projection, projection') /\ UNCHANGED rollbacks

Reject == RejectAction(projection, projection') /\ UNCHANGED rollbacks

-----------------------------------------------------------------------------
(* The stage and agent activities.                                         *)

\* The operator starts a stage's own agent; run_stage starts the others, the
\* critic after the evidence worker and the investigator have succeeded.
RunAgent ==
    /\ \E role \in Roles :
          /\ role = "CRITIC" =>
                {"EVIDENCE_WORKER", "INVESTIGATOR"} \subseteq Current(projection).roles
          /\ StartAgent(projection, role, projection')
    /\ UNCHANGED rollbacks

\* The evidence worker succeeds after its query did.
AgentAnswers ==
    /\ \E agent \in projection.agents, succeeded \in BOOLEAN :
          /\ succeeded /\ agent.role = "EVIDENCE_WORKER" => Current(projection).queried
          /\ FinishAgent(projection, agent, succeeded, projection')
    /\ UNCHANGED rollbacks

Query == RecordEvidenceQuery(projection, projection') /\ UNCHANGED rollbacks

TriageDone == SucceedTriage(projection, projection') /\ UNCHANGED rollbacks

InvestigateDone == SucceedInvestigate(projection, projection') /\ UNCHANGED rollbacks

DecideDone ==
    /\ \E premise \in Premises : SucceedDecide(projection, premise, projection')
    /\ UNCHANGED rollbacks

AnalysisFailed == FailAnalysis(projection, projection') /\ UNCHANGED rollbacks

Propose == AddAction(projection, projection') /\ UNCHANGED rollbacks

VerifyDone == SucceedVerify(projection, projection') /\ UNCHANGED rollbacks

\* run_stage commits the failed verification, then calls the rollback port.
VerifyFailed ==
    /\ FailVerify(projection, projection')
    /\ rollbacks' = rollbacks \cup {projection.receipt}

\* The port has answered, or failed, and its outcome is recorded.
RollbackRecorded ==
    /\ \E r \in rollbacks, succeeded \in BOOLEAN :
          /\ RecordRollback(projection, r, succeeded, projection')
          /\ rollbacks' = rollbacks \ {r}

\* The worker dies, or its commit is refused: the retried activity finds a
\* VERIFY run that is not RUNNING and returns without rolling back.
RollbackLost ==
    /\ \E r \in rollbacks : rollbacks' = rollbacks \ {r}
    /\ UNCHANGED projection

-----------------------------------------------------------------------------
(* The action activity.                                                    *)

ExecutionStarted == MarkExecutionStarted(projection, projection') /\ UNCHANGED rollbacks

ExecutionRecorded ==
    /\ \E result \in {"SUCCEEDED", "FAILED", "NEEDS_HUMAN"} :
          RecordExecution(projection, result, projection')
    /\ UNCHANGED rollbacks

RespondDone == SucceedRespond(projection, projection') /\ UNCHANGED rollbacks

RespondFailed == FailRespond(projection, projection') /\ UNCHANGED rollbacks

Next ==
    \/ Sync
    \/ Advance
    \/ Invalidate
    \/ Complete
    \/ Rerun
    \/ Branch
    \/ OperatorEscalate
    \/ Approve
    \/ Reject
    \/ RunAgent
    \/ AgentAnswers
    \/ Query
    \/ TriageDone
    \/ InvestigateDone
    \/ DecideDone
    \/ AnalysisFailed
    \/ Propose
    \/ ExecutionStarted
    \/ ExecutionRecorded
    \/ RespondDone
    \/ RespondFailed
    \/ VerifyDone
    \/ VerifyFailed
    \/ RollbackRecorded
    \/ RollbackLost

Spec == Init /\ [][Next]_vars

(***************************************************************************)
(* Fairness for the one liveness question asked here: a rollback call that *)
(* was not lost is eventually answered and its outcome recorded, because   *)
(* Temporal keeps the activity running until it returns.                   *)
(***************************************************************************)
FairSpec == Spec /\ WF_vars(RollbackRecorded)

-----------------------------------------------------------------------------
(* Invariants.                                                             *)

\* Every field of the projection has its type (the models' field validators).
TypeOK ==
    /\ projection \in Projection
    /\ rollbacks \subseteq DOMAIN projection.runs

(***************************************************************************)
(* There is always exactly one live run of the current stage and it is the *)
(* run created last.  The coordinator looks for the live run of the stage  *)
(* while the activities take stage_runs[-1]: they must agree, and no live  *)
(* run may lie beyond the current stage.                                   *)
(***************************************************************************)
CurrentRunIsLast ==
    /\ CurrentRuns(projection) = {Len(projection.runs)}
    /\ \A i \in LiveRuns(projection) : projection.runs[i].stage <= projection.stage

FirstStage(p) ==
    LET first == CHOOSE i \in AttemptRuns(p) : \A j \in AttemptRuns(p) : i <= j
    IN  p.runs[first].stage

(***************************************************************************)
(* Whatever reruns, failures and escalations came before, each stage from  *)
(* the one the attempt started at up to the current one has exactly one    *)
(* live run, SUCCEEDED: no failed stage is ever skipped.                   *)
(***************************************************************************)
NoSkippedStage ==
    \A s \in FirstStage(projection)..(projection.stage - 1) :
        \E i \in LiveRuns(projection) :
            /\ {j \in LiveRuns(projection) : projection.runs[j].stage = s} = {i}
            /\ projection.runs[i].status = "SUCCEEDED"

\* The executions after which the external system may have been mutated.
Crossed(run) == run.action.execution \in {"SUCCEEDED", "NEEDS_HUMAN", "ROLLED_BACK"}

(***************************************************************************)
(* An action that crossed the external boundary was approved, and stands   *)
(* at the end of a chain inside its own attempt: a DECIDE run that         *)
(* succeeded with exactly the decision the action carries, after an        *)
(* INVESTIGATE run with its three independent agents and an evidence query.*)
(***************************************************************************)
ExecutionRestsOnEvidence ==
    \A i \in DOMAIN projection.runs : Crossed(projection.runs[i]) =>
        /\ projection.runs[i].action.approval = "APPROVED"
        /\ \E d, n \in DOMAIN projection.runs :
              /\ n < d /\ d < i
              /\ projection.runs[n].attempt = projection.runs[i].attempt
              /\ projection.runs[n].stage = INVESTIGATE
              /\ projection.runs[n].status = "SUCCEEDED"
              /\ projection.runs[n].roles = AgentRoles(INVESTIGATE)
              /\ projection.runs[n].queried
              /\ projection.runs[d].attempt = projection.runs[i].attempt
              /\ projection.runs[d].stage = DECIDE
              /\ projection.runs[d].status = "SUCCEEDED"
              /\ projection.runs[d].decision = projection.runs[i].action.decision

(***************************************************************************)
(* An attempt crosses the boundary at most once, and the current attempt's *)
(* action_receipt_id names exactly the action that did: a rerun that lost  *)
(* it would let the same attempt execute again.                            *)
(***************************************************************************)
OneBoundaryPerAttempt ==
    /\ \A i, j \in DOMAIN projection.runs :
          /\ Crossed(projection.runs[i]) /\ Crossed(projection.runs[j])
          /\ projection.runs[i].attempt = projection.runs[j].attempt
          => i = j
    /\ \A i \in AttemptRuns(projection) :
          Crossed(projection.runs[i]) <=> projection.receipt = i

(***************************************************************************)
(* From RESPOND on the workflow rests on the decision in force: a live,    *)
(* SUCCEEDED DECIDE run of this attempt has the projection's decision      *)
(* revision, and an action proposed by the current run carries it, so no   *)
(* rerun strands a RESPOND run whose action can never be authorized.       *)
(***************************************************************************)
DecisionInForce ==
    projection.stage \in {RESPOND, VERIFY} =>
        /\ \E d \in LiveDecisions(projection) :
              projection.runs[d].decision = projection.decision
        /\ LET action == projection.runs[Len(projection.runs)].action
           IN  action = NoAction \/ action.decision = projection.decision

(***************************************************************************)
(* A resolved incident was repaired: the receipt of its last attempt is a  *)
(* success that was verified and neither rolled back nor being rolled      *)
(* back, whatever activities were still running when it was completed.     *)
(***************************************************************************)
ResolvedOnlyAfterRepair ==
    projection.lifecycle = "RESOLVED" =>
        /\ projection.status = "COMPLETED"
        /\ projection.stage = VERIFY
        /\ CurrentStatus(projection) = "SUCCEEDED"
        /\ projection.receipt \in DOMAIN projection.runs
        /\ projection.runs[projection.receipt].action.execution = "SUCCEEDED"
        /\ projection.receipt \notin rollbacks

(***************************************************************************)
(* At most one agent runs, and it belongs to the current run: commands     *)
(* that move the workflow on never leave an agent behind whose late answer *)
(* would be dropped and whose RUNNING state would never end.               *)
(***************************************************************************)
AgentsOnCurrentRun ==
    \A a, b \in projection.agents : a = b /\ a.run = Len(projection.runs)

\* The attempt waits for a human exactly when its current run does.
StoppedTogether ==
    projection.status = "NEEDS_HUMAN" <=> CurrentStatus(projection) = "NEEDS_HUMAN"

(***************************************************************************)
(* An open incident always offers a command that would be accepted, the    *)
(* limits on runs and attempts apart.                                      *)
(***************************************************************************)
AlwaysACommand ==
    Open(projection) =>
        \/ /\ MayNext(projection)
           /\ projection.stage = RESPOND => Executed(projection)
        \/ /\ MayComplete(projection)
           /\ \E i \in DOMAIN projection.runs : HasReceipt(projection.runs[i].action)
        \/ MayEscalate(projection)
        \/ MayRetry(projection) /\ ~Executed(projection)
        \/ \E s \in Stages : MayRerun(projection, s) /\ s <= projection.stage

-----------------------------------------------------------------------------
(* Action properties.                                                      *)

(***************************************************************************)
(* What a superseded run, or any run of a superseded attempt, recorded is  *)
(* never changed, whatever completes late; only the outcome of an          *)
(* execution begun before may still be added to its action.                *)
(***************************************************************************)
HistoryFrozen ==
    [][\A i \in DOMAIN projection.runs :
          \/ projection.runs[i].status = "SUPERSEDED"
          \/ projection.runs[i].attempt < projection.attempt
          => projection'.runs[i] =
                [projection.runs[i] EXCEPT
                    !.action.execution = projection'.runs[i].action.execution]]_vars

-----------------------------------------------------------------------------
(* The abstract specification.                                             *)

Contract == INSTANCE WorkflowContract WITH
    attempt <- projection.attempt,
    stage <- projection.stage,
    state <- IF CurrentStatus(projection) \in {"RUNNING", "SUCCEEDED"}
             THEN CurrentStatus(projection) ELSE "STOPPED",
    executed <- Executed(projection),
    closed <- ~Open(projection)

(***************************************************************************)
(* The workflow implements its contract: every step of an operator, of     *)
(* telemetry or of an activity is a step of WorkflowContract, seen through *)
(* the current attempt, or changes nothing the contract speaks of.         *)
(***************************************************************************)
KeepsContract == Contract!Spec

-----------------------------------------------------------------------------
(* Claims of the repository that the code does not keep.                   *)

(***************************************************************************)
(* "Expose concrete diagnostic branch targets so a client cannot render a  *)
(* dead-end generic Rerun button": a DECIDE run can only succeed on an     *)
(* INVESTIGATE run of its own attempt, so an attempt in DECIDE has one.    *)
(***************************************************************************)
DecideIsInvestigated ==
    projection.stage = DECIDE =>
        \E i \in LiveRuns(projection) : projection.runs[i].stage = INVESTIGATE

(***************************************************************************)
(* "The original approval, receipt, and verification remain immutable":    *)
(* no record of a superseded attempt changes.                              *)
(***************************************************************************)
SupersededAttemptsImmutable ==
    [][\A i \in DOMAIN projection.runs :
          projection.runs[i].attempt < projection.attempt
          => projection'.runs[i] = projection.runs[i]]_vars

(***************************************************************************)
(* "so no retry can issue a second execution key": in an attempt, no       *)
(* execution starts while that of an earlier action has an unknown outcome.*)
(***************************************************************************)
NoSecondExecution ==
    \A i, j \in DOMAIN projection.runs :
        /\ i < j
        /\ projection.runs[i].attempt = projection.runs[j].attempt
        /\ projection.runs[i].action.execution = "RUNNING"
        => projection.runs[j].action.execution = "NOT_STARTED"

(***************************************************************************)
(* "failed verification rolls back or stops at NEEDS_HUMAN": a failed      *)
(* VERIFY run does not stay the current, failed run for ever.              *)
(***************************************************************************)
FailedVerification == projection.stage = VERIFY /\ CurrentStatus(projection) = "FAILED"
FailedVerificationStops == FailedVerification ~> ~FailedVerification
=============================================================================
