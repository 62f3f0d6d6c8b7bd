-------------------------- MODULE GuidedProjection --------------------------
(***************************************************************************)
(* The V3 incident projection (IncidentProjectionV3) and the transitions   *)
(* that the guided-workflow coordinator computes on it, as pure relations  *)
(* Op(p, q): from projection p the coordinator may commit projection q.    *)
(* The module has no variable of its own: GuidedWorkflow applies the       *)
(* relations to the stored projection, and a module about the repository's *)
(* compare-and-swap can apply them to a snapshot read earlier.             *)
(*                                                                         *)
(* Kept of the projection: the current attempt, its stage runs and those   *)
(* of the attempts it superseded, the response actions, the RUNNING        *)
(* agents, the premise fingerprint, the decision revision and lifecycle    *)
(* state.  Revisions other than the decision's, audit records, events,     *)
(* texts and timestamps are not kept: no guard of the coordinator reads    *)
(* them except the revision checks of the commit.                          *)
(***************************************************************************)
EXTENDS Naturals, Sequences, FiniteSets

CONSTANTS
    Premises,      \* the premise fingerprints telemetry can produce
    NoPremise,     \* the fingerprint of a run without a decision
    MaxStageRuns,  \* stage runs of one attempt (64 in the code)
    MaxAttempts    \* attempts of one incident (1 + 31 in the code)

ASSUME PremisesAssumption == Premises # {} /\ NoPremise \notin Premises
ASSUME LimitsAssumption == MaxStageRuns \in Nat \ {0} /\ MaxAttempts \in Nat \ {0}

\* WORKFLOW_STAGE_ORDER_V3: a stage is its place in the order.
DETECT == 1
TRIAGE == 2
INVESTIGATE == 3
DECIDE == 4
RESPOND == 5
VERIFY == 6
Stages == DETECT..VERIFY

\* Roles an agent run may have in a stage (start_agent_run).
AgentRoles(stage) ==
    CASE stage = TRIAGE -> {"TRIAGE", "OBSERVER"}
      [] stage = INVESTIGATE -> {"EVIDENCE_WORKER", "INVESTIGATOR", "CRITIC"}
      [] stage = DECIDE -> {"EVALUATOR"}
      [] OTHER -> {}
Roles == {"TRIAGE", "OBSERVER", "EVIDENCE_WORKER", "INVESTIGATOR", "CRITIC", "EVALUATOR"}

(***************************************************************************)
(* A response action belongs to the RESPOND run that proposed it: its id   *)
(* is derived from that run's id, so a run has at most one.  The action    *)
(* has a receipt exactly when its execution is terminal.                   *)
(***************************************************************************)
Action == [decision: Nat,
           approval: {"NONE", "PENDING", "APPROVED", "REJECTED"},
           execution: {"NOT_STARTED", "RUNNING", "SUCCEEDED", "FAILED",
                       "NEEDS_HUMAN", "ROLLED_BACK"}]
NoAction == [decision |-> 0, approval |-> "NONE", execution |-> "NOT_STARTED"]
HasReceipt(a) == a.execution \notin {"NOT_STARTED", "RUNNING"}

(***************************************************************************)
(* A stage run.  For an INVESTIGATE run, roles are those of its agents     *)
(* that succeeded and queried says it has a SUCCEEDED evidence query; for  *)
(* a DECIDE run, decision and premise are the revision of the action       *)
(* candidate and the fingerprint in its output; for a RESPOND run, action  *)
(* is the action it proposed.                                              *)
(***************************************************************************)
StageRun == [attempt: Nat \ {0}, stage: Stages,
             status: {"RUNNING", "SUCCEEDED", "FAILED", "NEEDS_HUMAN", "SUPERSEDED"},
             failure: {"NONE", "REVALIDATION_REQUIRED", "OTHER"},
             roles: SUBSET AgentRoles(INVESTIGATE), queried: BOOLEAN,
             decision: Nat, premise: Premises \cup {NoPremise},
             action: Action]

NewRun(attempt, stage) ==
    [attempt |-> attempt, stage |-> stage, status |-> "RUNNING", failure |-> "NONE",
     roles |-> {}, queried |-> FALSE, decision |-> 0, premise |-> NoPremise,
     action |-> NoAction]

(***************************************************************************)
(* The projection.  runs lists the stage runs of every attempt in the      *)
(* order they were created; receipt is 0, or the RESPOND run whose action  *)
(* receipt is the attempt's action_receipt_id; agents are the RUNNING      *)
(* agent runs.                                                             *)
(***************************************************************************)
Projection == [attempt: Nat \ {0}, stage: Stages,
               status: {"ACTIVE", "NEEDS_HUMAN", "COMPLETED"},
               receipt: Nat, runs: Seq(StageRun),
               agents: SUBSET [run: Nat \ {0}, role: Roles],
               premise: Premises, decision: Nat \ {0},
               lifecycle: {"ACTIVE", "DEGRADED", "AWAITING_OWNER", "EXECUTING",
                           "MONITORING", "NEEDS_HUMAN", "RESOLVED"}]

\* bootstrap_projection_v3: attempt 1 in DETECT, already succeeded when the
\* telemetry at hand qualifies as an incident signal.
Bootstrap(premise, qualified) ==
    [attempt |-> 1, stage |-> DETECT, status |-> "ACTIVE", receipt |-> 0,
     runs |-> <<[NewRun(1, DETECT) EXCEPT
                    !.status = IF qualified THEN "SUCCEEDED" ELSE "RUNNING"]>>,
     agents |-> {}, premise |-> premise, decision |-> 1,
     lifecycle |-> IF qualified THEN "ACTIVE" ELSE "DEGRADED"]

-----------------------------------------------------------------------------
(* The current run and the authority of commands.                          *)

AttemptRuns(p) == {i \in DOMAIN p.runs : p.runs[i].attempt = p.attempt}
LiveRuns(p) == {i \in AttemptRuns(p) : p.runs[i].status # "SUPERSEDED"}

\* Seeded fault: superseded runs are not filtered out.
CurrentRunsWithHistory(p) == {i \in AttemptRuns(p) : p.runs[i].stage = p.stage}

CurrentRuns(p) == {i \in LiveRuns(p) : p.runs[i].stage = p.stage}
CurrentRun(p) == CHOOSE i \in CurrentRuns(p) : TRUE
Current(p) == p.runs[CurrentRun(p)]
CurrentStatus(p) == Current(p).status

Executed(p) == p.receipt # 0
Open(p) == p.status # "COMPLETED"
AgentBusy(p) == \E a \in p.agents : a.run = CurrentRun(p)

\* Seeded fault: running agents do not withhold the other commands.
IdleWithAgents(p) == Open(p)

Idle(p) == Open(p) /\ ~AgentBusy(p)

MayBranchTo == {INVESTIGATE, DECIDE}

CandidateRerunStages(p) ==
    IF Executed(p) THEN MayBranchTo
    ELSE {s \in Stages :
            /\ s <= p.stage
            /\ \/ /\ s = DECIDE /\ p.stage = DECIDE
                  /\ CurrentStatus(p) = "FAILED"
                  /\ Current(p).failure = "REVALIDATION_REQUIRED"
               \/ /\ s = p.stage => CurrentStatus(p) = "SUCCEEDED"
                  /\ \E i \in AttemptRuns(p) :
                        /\ p.runs[i].stage = s
                        /\ p.runs[i].status \in {"SUCCEEDED", "SUPERSEDED"}}

\* Seeded faults: NEXT after a failure, NEXT after VERIFY, no RETRY for a human.
MayNextAfterFailure(p) ==
    Idle(p) /\ CurrentStatus(p) \in {"SUCCEEDED", "FAILED"} /\ p.stage # VERIFY
MayNextAfterVerify(p) == Idle(p) /\ CurrentStatus(p) = "SUCCEEDED"
MayRetryFailedOnly(p) ==
    /\ Idle(p) /\ ~Executed(p)
    /\ CurrentStatus(p) = "FAILED" /\ p.stage # VERIFY
    /\ Current(p).failure # "REVALIDATION_REQUIRED"

MayNext(p) == Idle(p) /\ CurrentStatus(p) = "SUCCEEDED" /\ p.stage # VERIFY
MayComplete(p) == Idle(p) /\ CurrentStatus(p) = "SUCCEEDED" /\ p.stage = VERIFY
MayEscalate(p) ==
    /\ Open(p)
    /\ \/ AgentBusy(p)
       \/ CurrentStatus(p) = "RUNNING"
       \/ CurrentStatus(p) = "FAILED" /\ (Executed(p) \/ p.stage # VERIFY)
MayRetry(p) ==
    /\ Idle(p) /\ ~Executed(p)
    /\ \/ CurrentStatus(p) = "NEEDS_HUMAN"
       \/ /\ CurrentStatus(p) = "FAILED" /\ p.stage # VERIFY
          /\ Current(p).failure # "REVALIDATION_REQUIRED"
MayRerun(p, target) == Idle(p) /\ target \in CandidateRerunStages(p)
MayStartAgent(p) ==
    /\ Idle(p)
    /\ \/ CurrentStatus(p) = "RUNNING" /\ p.stage \in {TRIAGE, INVESTIGATE, DECIDE}
       \/ CurrentStatus(p) = "SUCCEEDED" /\ p.stage = INVESTIGATE
MayDecideAction(p) ==
    /\ Idle(p) /\ p.stage = RESPOND
    /\ CurrentStatus(p) \in {"RUNNING", "SUCCEEDED"}
    /\ Current(p).action.approval = "PENDING"

-----------------------------------------------------------------------------
(* Telemetry.                                                              *)

(***************************************************************************)
(* sync_realtime: new telemetry replaces the premise fingerprint, moves    *)
(* the lifecycle between ACTIVE and DEGRADED only, and completes a running *)
(* DETECT.  live: there are current signals and a live connector, which a  *)
(* qualified incident signal implies.                                      *)
(***************************************************************************)
SyncRealtime(p, premise, live, qualified, q) ==
    /\ Open(p)
    /\ qualified => live
    /\ q = [p EXCEPT
              !.premise = premise,
              !.lifecycle = IF @ \notin {"ACTIVE", "DEGRADED"} THEN @
                            ELSE IF live THEN "ACTIVE" ELSE "DEGRADED",
              !.runs[CurrentRun(p)].status =
                  IF qualified /\ p.stage = DETECT /\ @ = "RUNNING"
                  THEN "SUCCEEDED" ELSE @]

-----------------------------------------------------------------------------
(* Operator commands.                                                      *)

DecisionStale(p) ==
    /\ p.stage = DECIDE
    /\ \/ Current(p).premise # p.premise
       \/ Current(p).decision # p.decision

\* advance, NEXT on a decision whose premises changed.
InvalidateDecision(p, q) ==
    /\ MayNext(p)
    /\ DecisionStale(p)
    /\ q = [p EXCEPT
              !.runs[CurrentRun(p)] = [@ EXCEPT !.status = "FAILED", !.failure = "REVALIDATION_REQUIRED"],
              !.lifecycle = "DEGRADED"]

RoomForRun(p) == Cardinality(AttemptRuns(p)) < MaxStageRuns

LifecycleAt(stage) ==
    CASE stage = RESPOND -> "AWAITING_OWNER"
      [] stage = VERIFY -> "MONITORING"
      [] OTHER -> "ACTIVE"

\* advance, NEXT: the following stage starts.
AdvanceStage(p, q) ==
    /\ MayNext(p)
    /\ ~DecisionStale(p)
    /\ p.stage = RESPOND => Executed(p)
    /\ RoomForRun(p)
    /\ q = [p EXCEPT
              !.stage = @ + 1,
              !.runs = Append(@, NewRun(p.attempt, p.stage + 1)),
              !.lifecycle = LifecycleAt(p.stage + 1)]

\* advance, COMPLETE_INCIDENT: the final report needs a recorded receipt.
CompleteIncident(p, q) ==
    /\ MayComplete(p)
    /\ \E i \in DOMAIN p.runs : HasReceipt(p.runs[i].action)
    /\ q = [p EXCEPT !.status = "COMPLETED", !.lifecycle = "RESOLVED"]

\* Seeded fault: a rerun of RESPOND also takes a new decision revision.
NextDecisionFromRespond(p, target) ==
    IF target <= RESPOND THEN p.decision + 1 ELSE p.decision
NextDecision(p, target) == IF target <= DECIDE THEN p.decision + 1 ELSE p.decision

\* A superseded run is history: of what it recorded the model keeps the
\* action, whose execution may still be in flight, and drops the output and
\* the agents, which no guard reads again.
Supersede(run) ==
    [NewRun(run.attempt, run.stage) EXCEPT !.status = "SUPERSEDED", !.action = run.action]

\* Seeded fault: the target stage's own run is not given up.
LaterRuns(p, target) == {i \in LiveRuns(p) : p.runs[i].stage > target}

\* The live runs a rerun from target gives up.
Affected(p, target) == {i \in LiveRuns(p) : p.runs[i].stage >= target}

StopAgents(p, runs) == {a \in p.agents : a.run \notin runs}

(***************************************************************************)
(* rerun before an action crossed the external boundary: the same attempt  *)
(* goes back to target.  RETRY authorizes the current stage, RERUN the     *)
(* candidate stages.  A new VERIFY run would be rejected: rerun sets no    *)
(* verification deadline.                                                  *)
(***************************************************************************)
RerunStage(p, target, q) ==
    /\ ~Executed(p)
    /\ target # VERIFY
    /\ target <= p.stage
    /\ MayRerun(p, target) \/ (MayRetry(p) /\ target = p.stage)
    /\ RoomForRun(p)
    /\ q = [p EXCEPT
              !.stage = target,
              !.status = "ACTIVE",
              !.receipt = 0,
              !.runs = Append([i \in DOMAIN @ |->
                                 IF i \in Affected(p, target)
                                 THEN Supersede(@[i]) ELSE @[i]],
                              NewRun(p.attempt, target)),
              !.agents = StopAgents(p, Affected(p, target)),
              !.decision = NextDecision(p, target),
              !.lifecycle = "ACTIVE"]

(***************************************************************************)
(* rerun after the boundary: a child attempt starts at a diagnostic stage  *)
(* and only the parent's current run is superseded.                        *)
(***************************************************************************)
BranchAttempt(p, target, q) ==
    /\ Executed(p)
    /\ target \notin {RESPOND, VERIFY}
    /\ target <= p.stage
    /\ MayRerun(p, target)
    /\ p.attempt < MaxAttempts
    /\ q = [p EXCEPT
              !.attempt = @ + 1,
              !.stage = target,
              !.status = "ACTIVE",
              !.receipt = 0,
              !.runs = Append([p.runs EXCEPT ![CurrentRun(p)] = Supersede(@)],
                              NewRun(p.attempt + 1, target)),
              !.agents = StopAgents(p, Affected(p, target) \cup {CurrentRun(p)}),
              !.decision = NextDecision(p, target),
              !.lifecycle = "ACTIVE"]

\* escalate: the current run and the attempt wait for a human.
Escalate(p, q) ==
    /\ MayEscalate(p)
    /\ q = [p EXCEPT
              !.status = "NEEDS_HUMAN",
              !.runs[CurrentRun(p)] = [@ EXCEPT !.status = "NEEDS_HUMAN", !.failure = "OTHER"],
              !.agents = StopAgents(p, {CurrentRun(p)}),
              !.lifecycle = "NEEDS_HUMAN"]

-----------------------------------------------------------------------------
(* Agents and evidence.                                                    *)

\* start_agent_run, by the operator or by the stage activity.
StartAgent(p, role, q) ==
    /\ MayStartAgent(p)
    /\ role \in AgentRoles(p.stage)
    /\ q = [p EXCEPT !.agents = @ \cup {[run |-> CurrentRun(p), role |-> role]}]

\* update_agent_run to a terminal state: a late answer for another run than
\* the current one changes nothing.
FinishAgent(p, agent, succeeded, q) ==
    /\ agent \in p.agents
    /\ agent.run = CurrentRun(p)
    /\ q = [p EXCEPT
              !.agents = @ \ {agent},
              !.runs[agent.run].roles =
                  IF succeeded /\ p.stage = INVESTIGATE THEN @ \cup {agent.role} ELSE @]

\* record_evidence_query with a SUCCEEDED result of the run's evidence worker.
RecordEvidenceQuery(p, q) ==
    /\ p.stage = INVESTIGATE
    /\ CurrentStatus(p) = "RUNNING"
    /\ \/ [run |-> CurrentRun(p), role |-> "EVIDENCE_WORKER"] \in p.agents
       \/ "EVIDENCE_WORKER" \in Current(p).roles
    /\ q = [p EXCEPT !.runs[CurrentRun(p)].queried = TRUE]

-----------------------------------------------------------------------------
(* Stage completion (complete_current_stage), as the activities call it.   *)

SetCurrent(p, status) == [p EXCEPT !.runs[CurrentRun(p)].status = status]

SucceedTriage(p, q) ==
    /\ p.stage = TRIAGE /\ CurrentStatus(p) = "RUNNING"
    /\ q = SetCurrent(p, "SUCCEEDED")

\* Seeded fault: the critic is not required.
EvidenceGateNoCritic(run) == {"EVIDENCE_WORKER", "INVESTIGATOR"} \subseteq run.roles /\ run.queried

\* INVESTIGATE needs its three independent agents and an evidence query.
EvidenceGate(run) == AgentRoles(INVESTIGATE) \subseteq run.roles /\ run.queried

SucceedInvestigate(p, q) ==
    /\ p.stage = INVESTIGATE /\ CurrentStatus(p) = "RUNNING"
    /\ EvidenceGate(Current(p))
    /\ q = SetCurrent(p, "SUCCEEDED")

(***************************************************************************)
(* The root cause must be a hypothesis of a succeeded INVESTIGATE run of   *)
(* the current attempt, and the premise the output was computed from must  *)
(* still be the projection's.                                              *)
(***************************************************************************)
SucceedDecide(p, premise, q) ==
    /\ p.stage = DECIDE /\ CurrentStatus(p) = "RUNNING"
    /\ \E i \in AttemptRuns(p) :
          p.runs[i].stage = INVESTIGATE /\ p.runs[i].status = "SUCCEEDED"
    /\ premise = p.premise
    /\ q = [p EXCEPT
              !.runs[CurrentRun(p)] = [@ EXCEPT !.status = "SUCCEEDED",
                                                !.decision = p.decision + 1,
                                                !.premise = premise],
              !.decision = @ + 1]

\* Seeded fault: any receipt that crossed the boundary completes RESPOND.
SucceedRespondOnReceipt(p, q) ==
    /\ p.stage = RESPOND /\ CurrentStatus(p) = "RUNNING"
    /\ HasReceipt(Current(p).action)
    /\ Executed(p)
    /\ q = SetCurrent(p, "SUCCEEDED")

\* execute_action completes RESPOND after recording a SUCCEEDED receipt.
SucceedRespond(p, q) ==
    /\ p.stage = RESPOND /\ CurrentStatus(p) = "RUNNING"
    /\ Current(p).action.execution = "SUCCEEDED"
    /\ Executed(p)
    /\ q = SetCurrent(p, "SUCCEEDED")

\* run_stage completes VERIFY on evidence observed after the receipt.
SucceedVerify(p, q) ==
    /\ p.stage = VERIFY /\ CurrentStatus(p) = "RUNNING"
    /\ Executed(p)
    /\ HasReceipt(p.runs[p.receipt].action)
    /\ q = SetCurrent(p, "SUCCEEDED")

FailCurrent(p, q) ==
    /\ CurrentStatus(p) = "RUNNING"
    /\ q = [p EXCEPT
              !.runs[CurrentRun(p)] = [@ EXCEPT !.status = "FAILED", !.failure = "OTHER"],
              !.lifecycle = "DEGRADED"]

\* A provider, an evidence gate or the action preflight failed.
FailAnalysis(p, q) ==
    /\ p.stage \in {TRIAGE, INVESTIGATE, DECIDE}
    /\ FailCurrent(p, q)

\* execute_action after recording a FAILED or ambiguous receipt.
FailRespond(p, q) ==
    /\ p.stage = RESPOND
    /\ Current(p).action.execution \in {"FAILED", "NEEDS_HUMAN"}
    /\ FailCurrent(p, q)

\* run_stage when the verification window expired.
FailVerify(p, q) ==
    /\ p.stage = VERIFY
    /\ Executed(p)
    /\ FailCurrent(p, q)

-----------------------------------------------------------------------------
(* The response action.                                                    *)

WithApproval(run, approval) == [run EXCEPT !.action = [@ EXCEPT !.approval = approval]]
WithExecution(run, execution) == [run EXCEPT !.action = [@ EXCEPT !.execution = execution]]

LiveDecisions(p) ==
    {i \in AttemptRuns(p) : p.runs[i].stage = DECIDE /\ p.runs[i].status = "SUCCEEDED"}

\* add_action, by the RESPOND activity, with the candidate of the last DECIDE.
AddAction(p, q) ==
    /\ p.stage = RESPOND
    /\ Current(p).action = NoAction
    /\ \E i \in LiveDecisions(p) :
          /\ \A j \in LiveDecisions(p) : j <= i
          /\ p.runs[i].decision = p.decision
          /\ q = [p EXCEPT !.runs[CurrentRun(p)].action =
                      [decision |-> p.runs[i].decision, approval |-> "PENDING",
                       execution |-> "NOT_STARTED"]]

\* approve_action: the owner decides a pending action of the current run.
ApproveAction(p, q) ==
    /\ MayDecideAction(p)
    /\ Current(p).action.decision = p.decision
    /\ q = [p EXCEPT !.runs[CurrentRun(p)] = WithApproval(@, "APPROVED")]

RejectAction(p, q) ==
    /\ MayDecideAction(p)
    /\ Current(p).action.decision = p.decision
    /\ q = [p EXCEPT
              !.runs[CurrentRun(p)] =
                  WithApproval([@ EXCEPT !.status = "FAILED", !.failure = "OTHER"], "REJECTED"),
              !.lifecycle = "DEGRADED"]

\* mark_action_execution_started, before the external call; execute_action
\* has checked that the decision is current.
MarkExecutionStarted(p, q) ==
    /\ p.stage = RESPOND
    /\ Current(p).action.approval = "APPROVED"
    /\ Current(p).action.execution = "NOT_STARTED"
    /\ Current(p).action.decision = p.decision
    /\ q = [p EXCEPT
              !.runs[CurrentRun(p)] = WithExecution(@, "RUNNING"),
              !.lifecycle = "EXECUTING"]

\* Seeded fault: an ambiguous receipt does not cross the boundary.
BoundaryOnSuccess(result) == result = "SUCCEEDED"

\* The external system was mutated, or may have been.
BoundaryCrossed(result) == result \in {"SUCCEEDED", "NEEDS_HUMAN"}

(***************************************************************************)
(* record_action_execution: SUCCEEDED and NEEDS_HUMAN (the adapter could   *)
(* not prove whether it mutated) cross the attempt's irreversible boundary.*)
(* The status of the run is not checked: an escalated run still takes the  *)
(* receipt.  execute_action has marked the execution started before.       *)
(***************************************************************************)
RecordExecution(p, result, q) ==
    /\ p.stage = RESPOND
    /\ Current(p).action.approval = "APPROVED"
    /\ Current(p).action.execution = "RUNNING"
    /\ q = [p EXCEPT
              !.runs[CurrentRun(p)] = WithExecution(@, result),
              !.receipt = IF BoundaryCrossed(result) THEN CurrentRun(p) ELSE 0,
              !.lifecycle = IF result = "SUCCEEDED" THEN "EXECUTING" ELSE "NEEDS_HUMAN"]

(***************************************************************************)
(* record_action_rollback_outcome for the action of RESPOND run r: the run *)
(* that stops is the current one, whichever it is; a completed attempt     *)
(* cannot go back to NEEDS_HUMAN.                                          *)
(***************************************************************************)
RecordRollback(p, r, succeeded, q) ==
    /\ r \in DOMAIN p.runs
    /\ p.runs[r].action.execution = "SUCCEEDED"
    /\ Open(p)
    /\ LET outcome == IF succeeded THEN "ROLLED_BACK" ELSE "NEEDS_HUMAN"
           undone == [p.runs EXCEPT ![r] = WithExecution(@, outcome)]
       IN  q = [p EXCEPT
                  !.status = "NEEDS_HUMAN",
                  !.runs = [undone EXCEPT ![CurrentRun(p)] =
                               [@ EXCEPT !.status = "NEEDS_HUMAN", !.failure = "OTHER"]],
                  !.lifecycle = "NEEDS_HUMAN"]
=============================================================================
