------------------------ MODULE GuidedWorkflowProofs ------------------------
(***************************************************************************)
(* Proofs about GuidedWorkflow for every set of premises and every limit   *)
(* on stage runs and attempts.                                             *)
(***************************************************************************)
EXTENDS GuidedWorkflow, SequenceTheorems, TLAPS

-----------------------------------------------------------------------------
(* The inductive invariant, on a projection.                               *)

Last(p) == p.runs[Len(p.runs)]

\* The last run is the live run of the current stage, and the only one; no
\* run belongs to a later attempt.
WellPlaced(p) ==
    /\ Len(p.runs) > 0
    /\ Last(p).attempt = p.attempt
    /\ Last(p).stage = p.stage
    /\ Last(p).status # "SUPERSEDED"
    /\ \A i \in DOMAIN p.runs : p.runs[i].attempt <= p.attempt
    /\ \A i \in DOMAIN p.runs :
          /\ p.runs[i].attempt = p.attempt
          /\ p.runs[i].status # "SUPERSEDED"
          /\ i # Len(p.runs)
          => p.runs[i].stage < p.stage

\* The attempt's receipt names its one action that crossed the boundary; it
\* is there from the end of RESPOND on, and never while the outcome of the
\* current run's action is unknown.
Bounded(p) ==
    /\ p.receipt \in 0..Len(p.runs)
    /\ \A i \in DOMAIN p.runs : p.runs[i].attempt = p.attempt =>
          (Crossed(p.runs[i]) <=> p.receipt = i)
    /\ \A i, j \in DOMAIN p.runs :
          Crossed(p.runs[i]) /\ Crossed(p.runs[j]) /\ p.runs[i].attempt = p.runs[j].attempt
          => i = j
    /\ p.stage < RESPOND => p.receipt = 0
    /\ p.stage = RESPOND => p.receipt \in {0, Len(p.runs)}
    /\ p.stage = VERIFY => p.receipt # 0
    /\ p.stage = RESPOND /\ Last(p).status = "SUCCEEDED" => HasReceipt(Last(p).action)

\* At most one agent runs, in a role of the current stage.
Attended(p) ==
    /\ \A a \in p.agents : a.run = Len(p.runs) /\ a.role \in AgentRoles(p.stage)
    /\ \A a, b \in p.agents : a = b

\* The attempt waits for a human with its run, and is completed after it.
Halted(p) ==
    /\ p.status = "NEEDS_HUMAN" <=> Last(p).status = "NEEDS_HUMAN"
    /\ p.status = "COMPLETED" => p.stage = VERIFY /\ Last(p).status = "SUCCEEDED"

Inv(p) ==
    /\ p \in Projection
    /\ WellPlaced(p)
    /\ Bounded(p)
    /\ Attended(p)
    /\ Halted(p)

\* What a step from p to q keeps: the invariant, and the runs there are.
Kept(p, q) == Inv(q) /\ Len(p.runs) <= Len(q.runs)

-----------------------------------------------------------------------------
(* The current run.                                                        *)

\* The coordinator's current run of a well-placed projection is its last run.
LEMMA CurrentIsLast ==
    ASSUME NEW p \in Projection, WellPlaced(p)
    PROVE  /\ Len(p.runs) \in DOMAIN p.runs
           /\ CurrentRuns(p) = {Len(p.runs)}
           /\ CurrentRun(p) = Len(p.runs)
           /\ Current(p) = Last(p)
           /\ CurrentStatus(p) = Last(p).status
           /\ \A i \in LiveRuns(p) : p.runs[i].stage <= p.stage
<1>1. p.runs \in Seq(StageRun) /\ p.attempt \in Nat /\ p.stage \in Nat
  BY DEF Projection, Stages, DETECT, VERIFY
<1>2. Len(p.runs) \in DOMAIN p.runs
  BY <1>1 DEF WellPlaced
<1>3. ASSUME NEW i \in DOMAIN p.runs PROVE p.runs[i].stage \in Nat
  <2>1. p.runs[i] \in StageRun BY <1>1
  <2> QED BY <2>1 DEF StageRun, Stages, DETECT, VERIFY
<1>4. CurrentRuns(p) = {Len(p.runs)}
  BY <1>1, <1>2, <1>3 DEF CurrentRuns, LiveRuns, AttemptRuns, WellPlaced, Last
<1>5. CurrentRun(p) = Len(p.runs)
  BY <1>4 DEF CurrentRun
<1>6. \A i \in LiveRuns(p) : p.runs[i].stage <= p.stage
  BY <1>1, <1>2, <1>3 DEF LiveRuns, AttemptRuns, WellPlaced, Last
<1> QED
  BY <1>2, <1>4, <1>5, <1>6 DEF Current, CurrentStatus, Last

\* What the proofs below use of the current run.
LEMMA InvCurrent ==
    ASSUME NEW p, Inv(p)
    PROVE  /\ p \in Projection
           /\ p.runs \in Seq(StageRun)
           /\ Len(p.runs) \in DOMAIN p.runs
           /\ Len(p.runs) \in Nat \ {0}
           /\ Last(p) \in StageRun
           /\ Last(p).attempt = p.attempt
           /\ Last(p).stage = p.stage
           /\ Last(p).status # "SUPERSEDED"
           /\ CurrentRun(p) = Len(p.runs)
           /\ Current(p) = Last(p)
           /\ CurrentStatus(p) = Last(p).status
<1>1. p \in Projection /\ WellPlaced(p)
  BY DEF Inv
<1>2. p.runs \in Seq(StageRun) /\ Len(p.runs) \in DOMAIN p.runs
  BY <1>1, CurrentIsLast DEF Projection
<1>3. Last(p) \in StageRun
  BY <1>2 DEF Last
<1> QED BY <1>1, <1>2, <1>3, CurrentIsLast DEF WellPlaced

\* Replacing one run of a projection.
LEMMA ReplaceRun ==
    ASSUME NEW runs \in Seq(StageRun), NEW i \in DOMAIN runs, NEW r \in StageRun
    PROVE  /\ [runs EXCEPT ![i] = r] \in Seq(StageRun)
           /\ Len([runs EXCEPT ![i] = r]) = Len(runs)
           /\ DOMAIN [runs EXCEPT ![i] = r] = DOMAIN runs
           /\ [runs EXCEPT ![i] = r][i] = r
           /\ \A j \in DOMAIN runs : j # i => [runs EXCEPT ![i] = r][j] = runs[j]
BY ExceptSeq

\* A new run has the type of stage runs, and is live.
LEMMA NewRunType ==
    ASSUME NEW attempt \in Nat \ {0}, NEW stage \in Stages
    PROVE  /\ NewRun(attempt, stage) \in StageRun
           /\ NewRun(attempt, stage).attempt = attempt
           /\ NewRun(attempt, stage).stage = stage
           /\ NewRun(attempt, stage).status = "RUNNING"
           /\ NewRun(attempt, stage).action = NoAction
<1>1. NoAction \in Action BY DEF NoAction, Action
<1> QED BY <1>1 DEF NewRun, StageRun

\* bootstrap_projection_v3 establishes the invariant.
LEMMA BootstrapInv ==
    ASSUME NEW premise \in Premises, NEW qualified \in BOOLEAN
    PROVE  Inv(Bootstrap(premise, qualified))
<1> DEFINE run == [NewRun(1, DETECT) EXCEPT !.status = IF qualified THEN "SUCCEEDED" ELSE "RUNNING"]
<1>1. run \in StageRun /\ run.attempt = 1 /\ run.stage = DETECT /\ run.status # "SUPERSEDED"
  <2>1. DETECT \in Stages BY DEF Stages, DETECT, VERIFY
  <2> QED BY <2>1, NewRunType DEF StageRun
<1> DEFINE p == Bootstrap(premise, qualified)
<1>2. p.runs = <<run>> /\ p.attempt = 1 /\ p.stage = DETECT
  BY DEF Bootstrap
<1>3. p.runs \in Seq(StageRun) /\ Len(p.runs) = 1 /\ DOMAIN p.runs = {1} /\ p.runs[1] = run
  <2> HIDE DEF run
  <2> QED BY <1>1, <1>2
<1>4. p \in Projection
  <2> HIDE DEF run
  <2>1. <<run>> \in Seq(StageRun) BY <1>1
  <2> QED BY <2>1 DEF Bootstrap, Projection, Stages, DETECT, VERIFY, run
<1>5. p.receipt = 0 /\ p.agents = {} /\ p.status = "ACTIVE"
      /\ run.action = NoAction /\ run.status # "NEEDS_HUMAN"
  BY DEF Bootstrap, NewRun
<1>6. ~Crossed(run)
  BY <1>5 DEF Crossed, NoAction
<1> HIDE DEF run, p
<1>7. WellPlaced(p)
  BY <1>1, <1>2, <1>3 DEF WellPlaced, Last
<1>8. Bounded(p) /\ Attended(p) /\ Halted(p)
  BY <1>1, <1>2, <1>3, <1>5, <1>6
  DEF Bounded, Attended, Halted, Last, DETECT, RESPOND, VERIFY
<1>9. Inv(p)
  BY <1>4, <1>7, <1>8 DEF Inv
<1> QED BY <1>9 DEF p

-----------------------------------------------------------------------------
(* Steps that change the current run and leave it in its place.            *)

\* Replacing the last run by one of its place keeps the invariant.
LEMMA UpdateKeepsInv ==
    ASSUME NEW p, Inv(p), NEW r \in StageRun, NEW q \in Projection,
           r.attempt = p.attempt, r.stage = p.stage, r.status # "SUPERSEDED",
           q.runs = [p.runs EXCEPT ![Len(p.runs)] = r],
           q.attempt = p.attempt, q.stage = p.stage,
           \/ q.receipt = p.receipt
           \/ p.stage = RESPOND /\ p.receipt = 0 /\ q.receipt = Len(p.runs),
           Crossed(r) <=> q.receipt = Len(p.runs),
           p.stage = RESPOND /\ r.status = "SUCCEEDED" => HasReceipt(r.action),
           q.status = "NEEDS_HUMAN" <=> r.status = "NEEDS_HUMAN",
           q.status = "COMPLETED" => p.stage = VERIFY /\ r.status = "SUCCEEDED",
           Attended(q)
    PROVE  Inv(q)
<1> DEFINE n == Len(p.runs)
<1>1. p \in Projection /\ WellPlaced(p) /\ Bounded(p) /\ Attended(p) /\ Halted(p)
  BY DEF Inv
<1>2. n \in DOMAIN p.runs
  BY <1>1, CurrentIsLast
<1>3. p.runs \in Seq(StageRun)
  BY <1>1 DEF Projection
<1>4. /\ Len(q.runs) = n
      /\ DOMAIN q.runs = DOMAIN p.runs
      /\ q.runs[n] = r
      /\ \A j \in DOMAIN p.runs : j # n => q.runs[j] = p.runs[j]
  BY <1>2, <1>3, ReplaceRun
<1>5. n \in Nat /\ n > 0 /\ DOMAIN p.runs = 1..n
  BY <1>1, <1>3 DEF WellPlaced
<1>6. \A j \in DOMAIN p.runs : p.runs[j].attempt = q.runs[j].attempt
  BY <1>1, <1>4 DEF WellPlaced, Last
<1>7. WellPlaced(q)
  BY <1>1, <1>2, <1>4, <1>5, <1>6 DEF WellPlaced, Last
<1>8. Bounded(q)
  <2>1. q.receipt \in 0..n
    BY <1>1, <1>5 DEF Bounded
  <2>2. ASSUME NEW i \in DOMAIN q.runs, q.runs[i].attempt = q.attempt
        PROVE  Crossed(q.runs[i]) <=> q.receipt = i
    BY <1>1, <1>2, <1>4, <1>5, <1>6, <2>2 DEF Bounded, WellPlaced, Last
  <2>3. ASSUME NEW i \in DOMAIN q.runs, NEW j \in DOMAIN q.runs,
               Crossed(q.runs[i]), Crossed(q.runs[j]),
               q.runs[i].attempt = q.runs[j].attempt
        PROVE  i = j
    <3>1. CASE i # n /\ j # n
      BY <1>1, <1>4, <1>6, <2>3, <3>1 DEF Bounded
    <3>2. CASE i = n \/ j = n
      BY <1>1, <1>2, <1>4, <1>6, <2>2, <2>3, <3>2 DEF WellPlaced, Last
    <3> QED BY <3>1, <3>2
  <2>4. /\ q.stage < RESPOND => q.receipt = 0
        /\ q.stage = RESPOND => q.receipt \in {0, Len(q.runs)}
        /\ q.stage = VERIFY => q.receipt # 0
    BY <1>1, <1>4, <1>5 DEF Bounded, RESPOND, VERIFY
  <2>5. q.stage = RESPOND /\ Last(q).status = "SUCCEEDED" => HasReceipt(Last(q).action)
    BY <1>4 DEF Last
  <2> QED BY <1>4, <2>1, <2>2, <2>3, <2>4, <2>5 DEF Bounded
<1>9. Halted(q)
  BY <1>4 DEF Halted, Last
<1> QED BY <1>7, <1>8, <1>9 DEF Inv

\* The form of such a step: run r takes the place of the current run.
Updated(p, r, status, receipt, agents, premise, decision, lifecycle) ==
    [p EXCEPT !.runs = [@ EXCEPT ![Len(p.runs)] = r],
              !.status = status, !.receipt = receipt, !.agents = agents,
              !.premise = premise, !.decision = decision, !.lifecycle = lifecycle]

Statuses == {"ACTIVE", "NEEDS_HUMAN", "COMPLETED"}
Lifecycles == {"ACTIVE", "DEGRADED", "AWAITING_OWNER", "EXECUTING",
               "MONITORING", "NEEDS_HUMAN", "RESOLVED"}

\* The same, for a projection whose other fields change as well.
LEMMA UpdatedKeepsInv ==
    ASSUME NEW p, Inv(p), NEW r \in StageRun,
           r.attempt = p.attempt, r.stage = p.stage, r.status # "SUPERSEDED",
           p.stage = RESPOND /\ r.status = "SUCCEEDED" => HasReceipt(r.action),
           NEW status \in Statuses, status = "NEEDS_HUMAN" <=> r.status = "NEEDS_HUMAN",
           status = "COMPLETED" => p.stage = VERIFY /\ r.status = "SUCCEEDED",
           NEW receipt,
           \/ receipt = p.receipt /\ (Crossed(r) <=> Crossed(Last(p)))
           \/ /\ p.stage = RESPOND /\ p.receipt = 0
              /\ receipt = Len(p.runs) /\ Crossed(r),
           NEW agents,
           \/ agents \subseteq p.agents
           \/ \E role \in Roles \cap AgentRoles(p.stage) :
                 agents = {[run |-> Len(p.runs), role |-> role]},
           NEW premise \in Premises, NEW decision \in Nat \ {0}, NEW lifecycle \in Lifecycles
    PROVE  Kept(p, Updated(p, r, status, receipt, agents, premise, decision, lifecycle))
<1> DEFINE runs == [p.runs EXCEPT ![Len(p.runs)] = r]
           q == Updated(p, r, status, receipt, agents, premise, decision, lifecycle)
<1>1. /\ p \in Projection /\ p.runs \in Seq(StageRun)
      /\ Len(p.runs) \in DOMAIN p.runs /\ Len(p.runs) \in Nat \ {0}
      /\ Bounded(p) /\ Attended(p) /\ Last(p).attempt = p.attempt
  BY InvCurrent DEF Inv
<1>2. runs \in Seq(StageRun) /\ Len(runs) = Len(p.runs)
  BY <1>1, ReplaceRun
<1>3. receipt \in Nat
  BY <1>1 DEF Bounded
<1>4. agents \subseteq [run: Nat \ {0}, role: Roles]
  BY <1>1 DEF Projection
<1>5. q \in Projection
  BY <1>1, <1>2, <1>3, <1>4 DEF Updated, Projection, Statuses, Lifecycles
<1>6. /\ q.runs = runs /\ q.attempt = p.attempt /\ q.stage = p.stage
      /\ q.receipt = receipt /\ q.status = status /\ q.agents = agents
  BY <1>1 DEF Updated, Projection
<1>7. Crossed(r) <=> q.receipt = Len(p.runs)
  BY <1>1, <1>6 DEF Bounded, Last
<1>8. Attended(q)
  BY <1>1, <1>2, <1>6 DEF Attended
<1> HIDE DEF q
<1>9. Inv(q)
  BY <1>5, <1>6, <1>7, <1>8, UpdateKeepsInv
<1>10. Kept(p, q)
  BY <1>1, <1>2, <1>6, <1>9 DEF Kept
<1> QED BY <1>10 DEF q

\* Most of them only give the current run an outcome.
RunStatuses == {"RUNNING", "SUCCEEDED", "FAILED", "NEEDS_HUMAN"}
Failures == {"NONE", "REVALIDATION_REQUIRED", "OTHER"}
WithOutcome(p, status, failure) == [Last(p) EXCEPT !.status = status, !.failure = failure]

\* A step that gives the current run a new status keeps the invariant.
LEMMA OutcomeKeepsInv ==
    ASSUME NEW p, Inv(p), NEW runStatus \in RunStatuses, NEW failure \in Failures,
           p.stage = RESPOND /\ runStatus = "SUCCEEDED"
               => Last(p).status = "SUCCEEDED" \/ HasReceipt(Last(p).action),
           NEW status \in Statuses, status = "NEEDS_HUMAN" <=> runStatus = "NEEDS_HUMAN",
           status = "COMPLETED" => p.stage = VERIFY /\ runStatus = "SUCCEEDED",
           NEW agents, agents \subseteq p.agents,
           NEW premise \in Premises, NEW decision \in Nat \ {0}, NEW lifecycle \in Lifecycles
    PROVE  Kept(p, Updated(p, WithOutcome(p, runStatus, failure), status, p.receipt, agents,
                       premise, decision, lifecycle))
<1> DEFINE r == WithOutcome(p, runStatus, failure)
<1>1. /\ r \in StageRun /\ r.attempt = p.attempt /\ r.stage = p.stage
      /\ r.status = runStatus /\ r.action = Last(p).action
  BY InvCurrent DEF WithOutcome, StageRun, RunStatuses, Failures
<1>2. r.status # "SUPERSEDED"
  BY <1>1 DEF RunStatuses
<1>3. p.stage = RESPOND /\ r.status = "SUCCEEDED" => HasReceipt(r.action)
  BY <1>1 DEF Inv, Bounded
<1>4. Crossed(r) <=> Crossed(Last(p))
  BY <1>1 DEF Crossed
<1>5. /\ status = "NEEDS_HUMAN" <=> r.status = "NEEDS_HUMAN"
      /\ status = "COMPLETED" => p.stage = VERIFY /\ r.status = "SUCCEEDED"
  BY <1>1
<1> HIDE DEF r
<1>6. Kept(p, Updated(p, r, status, p.receipt, agents, premise, decision, lifecycle))
  BY <1>1, <1>2, <1>3, <1>4, <1>5, UpdatedKeepsInv
<1> QED BY <1>6 DEF r

\* The fields of a projection that such a step leaves alone.
LEMMA InvFields ==
    ASSUME NEW p, Inv(p)
    PROVE  /\ Last(p).status \in RunStatuses /\ Last(p).failure \in Failures
           /\ p.status \in Statuses /\ p.decision \in Nat \ {0}
           /\ p.premise \in Premises /\ p.lifecycle \in Lifecycles
           /\ p.status = "NEEDS_HUMAN" <=> Last(p).status = "NEEDS_HUMAN"
           /\ p.status = "COMPLETED" => p.stage = VERIFY /\ Last(p).status = "SUCCEEDED"
<1>1. Last(p) \in StageRun /\ p \in Projection /\ Last(p).status # "SUPERSEDED"
  BY InvCurrent
<1>2. Last(p).status \in RunStatuses /\ Last(p).failure \in Failures
  BY <1>1 DEF StageRun, RunStatuses, Failures
<1>3. /\ p.status \in Statuses /\ p.decision \in Nat \ {0}
      /\ p.premise \in Premises /\ p.lifecycle \in Lifecycles
  BY <1>1 DEF Projection, Statuses, Lifecycles
<1>4. /\ p.status = "NEEDS_HUMAN" <=> Last(p).status = "NEEDS_HUMAN"
      /\ p.status = "COMPLETED" => p.stage = VERIFY /\ Last(p).status = "SUCCEEDED"
  BY DEF Inv, Halted
<1> QED BY <1>2, <1>3, <1>4

-----------------------------------------------------------------------------
(* Each relation of GuidedProjection keeps the invariant.                  *)

\* sync_realtime keeps the invariant.
LEMMA SyncKeepsInv ==
    ASSUME NEW p, Inv(p), NEW q, NEW premise \in Premises,
           NEW live \in BOOLEAN, NEW qualified \in BOOLEAN,
           SyncRealtime(p, premise, live, qualified, q)
    PROVE  Kept(p, q)
<1> DEFINE completes == qualified /\ p.stage = DETECT /\ Last(p).status = "RUNNING"
           status == IF completes THEN "SUCCEEDED" ELSE Last(p).status
           lifecycle == IF p.lifecycle \notin {"ACTIVE", "DEGRADED"} THEN p.lifecycle
                        ELSE IF live THEN "ACTIVE" ELSE "DEGRADED"
<1>1. /\ status \in RunStatuses /\ lifecycle \in Lifecycles
      /\ p.stage = RESPOND /\ status = "SUCCEEDED" => Last(p).status = "SUCCEEDED"
      /\ p.status = "NEEDS_HUMAN" <=> status = "NEEDS_HUMAN"
  BY InvFields DEF RunStatuses, Lifecycles, DETECT, RESPOND
<1>2. q = Updated(p, WithOutcome(p, status, Last(p).failure), p.status, p.receipt,
                  p.agents, premise, p.decision, lifecycle)
  <2>1. WithOutcome(p, status, Last(p).failure) = [Last(p) EXCEPT !.status = status]
    BY InvCurrent DEF WithOutcome, StageRun
  <2> QED BY <2>1, InvCurrent DEF SyncRealtime, Updated, Projection, Last
<1> QED BY <1>1, <1>2, InvFields, OutcomeKeepsInv

\* A stale decision fails its run and nothing else.
LEMMA InvalidateKeepsInv ==
    ASSUME NEW p, Inv(p), NEW q, InvalidateDecision(p, q)
    PROVE  Kept(p, q)
<1>1. q = Updated(p, WithOutcome(p, "FAILED", "REVALIDATION_REQUIRED"), p.status, p.receipt,
                  p.agents, p.premise, p.decision, "DEGRADED")
  BY InvCurrent DEF InvalidateDecision, Updated, WithOutcome, Projection, Last
<1>2. p.status = "ACTIVE"
  BY InvCurrent, InvFields DEF InvalidateDecision, MayNext, Idle, Open, Statuses
<1> QED BY <1>1, <1>2, InvFields, OutcomeKeepsInv DEF RunStatuses, Failures, Lifecycles

\* An incident is completed from a SUCCEEDED VERIFY run.
LEMMA CompleteKeepsInv ==
    ASSUME NEW p, Inv(p), NEW q, CompleteIncident(p, q)
    PROVE  Kept(p, q)
<1>1. q = Updated(p, WithOutcome(p, "SUCCEEDED", Last(p).failure), "COMPLETED", p.receipt,
                  p.agents, p.premise, p.decision, "RESOLVED")
  <2>1. WithOutcome(p, "SUCCEEDED", Last(p).failure) = Last(p)
    BY InvCurrent DEF WithOutcome, StageRun, CompleteIncident, MayComplete
  <2>2. [p.runs EXCEPT ![Len(p.runs)] = Last(p)] = p.runs
    BY InvCurrent DEF Last
  <2> QED BY <2>1, <2>2, InvCurrent DEF CompleteIncident, Updated, Projection
<1>2. p.stage = VERIFY /\ p.stage # RESPOND
  BY DEF CompleteIncident, MayComplete, RESPOND, VERIFY
<1> QED BY <1>1, <1>2, InvFields, OutcomeKeepsInv DEF RunStatuses, Statuses, Lifecycles

\* escalate stops the run, its agents and the attempt together.
LEMMA EscalateKeepsInv ==
    ASSUME NEW p, Inv(p), NEW q, Escalate(p, q)
    PROVE  Kept(p, q)
<1>1. q = Updated(p, WithOutcome(p, "NEEDS_HUMAN", "OTHER"), "NEEDS_HUMAN", p.receipt,
                  StopAgents(p, {Len(p.runs)}), p.premise, p.decision, "NEEDS_HUMAN")
  BY InvCurrent DEF Escalate, Updated, WithOutcome, Projection, Last
<1>2. StopAgents(p, {Len(p.runs)}) \subseteq p.agents
  BY DEF StopAgents
<1> QED
  BY <1>1, <1>2, InvFields, OutcomeKeepsInv DEF RunStatuses, Failures, Statuses, Lifecycles

\* The completions that only set the current run's status.
LEMMA SetCurrentKeepsInv ==
    ASSUME NEW p, Inv(p), CurrentStatus(p) = "RUNNING",
           p.stage = RESPOND => HasReceipt(Current(p).action)
    PROVE  Kept(p, SetCurrent(p, "SUCCEEDED"))
<1>1. SetCurrent(p, "SUCCEEDED")
        = Updated(p, WithOutcome(p, "SUCCEEDED", Last(p).failure), p.status, p.receipt,
                  p.agents, p.premise, p.decision, p.lifecycle)
  <2>1. WithOutcome(p, "SUCCEEDED", Last(p).failure) = [Last(p) EXCEPT !.status = "SUCCEEDED"]
    BY InvCurrent DEF WithOutcome, StageRun
  <2> QED BY <2>1, InvCurrent DEF SetCurrent, Updated, Projection, Last
<1>2. p.status = "ACTIVE"
  BY InvCurrent, InvFields DEF Statuses
<1>3. p.stage = RESPOND => HasReceipt(Last(p).action)
  BY InvCurrent
<1>4. /\ "SUCCEEDED" \in RunStatuses /\ (p.status = "NEEDS_HUMAN" <=> "SUCCEEDED" = "NEEDS_HUMAN")
      /\ p.status # "COMPLETED"
  BY <1>2 DEF RunStatuses
<1>5. /\ Last(p).failure \in Failures /\ p.status \in Statuses /\ p.decision \in Nat \ {0}
      /\ p.premise \in Premises /\ p.lifecycle \in Lifecycles
  BY InvFields
<1> QED BY <1>1, <1>3, <1>4, <1>5, OutcomeKeepsInv

\* complete_current_stage with success, DECIDE apart.
LEMMA SucceedKeepsInv ==
    ASSUME NEW p, Inv(p), NEW q,
           \/ SucceedTriage(p, q) \/ SucceedInvestigate(p, q)
           \/ SucceedRespond(p, q) \/ SucceedVerify(p, q)
    PROVE  Kept(p, q)
BY SetCurrentKeepsInv
DEF SucceedTriage, SucceedInvestigate, SucceedRespond, SucceedVerify,
    HasReceipt, TRIAGE, INVESTIGATE, RESPOND, VERIFY

\* complete_current_stage without success.
LEMMA FailKeepsInv ==
    ASSUME NEW p, Inv(p), NEW q, FailCurrent(p, q)
    PROVE  Kept(p, q)
<1>1. q = Updated(p, WithOutcome(p, "FAILED", "OTHER"), p.status, p.receipt,
                  p.agents, p.premise, p.decision, "DEGRADED")
  BY InvCurrent DEF FailCurrent, Updated, WithOutcome, Projection, Last
<1>2. p.status = "ACTIVE"
  BY InvCurrent, InvFields DEF FailCurrent, Statuses
<1> QED BY <1>1, <1>2, InvFields, OutcomeKeepsInv DEF RunStatuses, Failures, Lifecycles

\* Agents and evidence.

\* start_agent_run adds the only agent, in a role of the stage.
LEMMA StartAgentKeepsInv ==
    ASSUME NEW p, Inv(p), NEW q, NEW role \in Roles, StartAgent(p, role, q)
    PROVE  Kept(p, q)
<1> DEFINE agent == [run |-> Len(p.runs), role |-> role]
<1>1. p.agents = {}
  <2>1. \A a \in p.agents : a.run = Len(p.runs)
    BY DEF Inv, Attended
  <2> QED BY <2>1, InvCurrent DEF StartAgent, MayStartAgent, Idle, AgentBusy
<1>2. q = Updated(p, Last(p), p.status, p.receipt, {agent}, p.premise, p.decision, p.lifecycle)
  <2>1. [p.runs EXCEPT ![Len(p.runs)] = Last(p)] = p.runs
    BY InvCurrent DEF Last
  <2>2. p \in Projection /\ q = [p EXCEPT !.agents = p.agents \cup {agent}]
    BY InvCurrent DEF StartAgent
  <2>3. p.agents \cup {agent} = {agent}
    BY <1>1
  <2> QED BY <2>1, <2>2, <2>3 DEF Updated, Projection
<1>3. role \in Roles \cap AgentRoles(p.stage)
  BY DEF StartAgent
<1>4. p.stage = RESPOND /\ Last(p).status = "SUCCEEDED" => HasReceipt(Last(p).action)
  BY DEF Inv, Bounded
<1> QED BY <1>2, <1>3, <1>4, InvCurrent, InvFields, UpdatedKeepsInv

\* update_agent_run removes it.
LEMMA FinishAgentKeepsInv ==
    ASSUME NEW p, Inv(p), NEW q, NEW agent, NEW succeeded \in BOOLEAN,
           FinishAgent(p, agent, succeeded, q)
    PROVE  Kept(p, q)
<1> DEFINE roles == IF succeeded /\ p.stage = INVESTIGATE
                    THEN Last(p).roles \cup {agent.role} ELSE Last(p).roles
           r == [Last(p) EXCEPT !.roles = roles]
<1>1. p.stage = INVESTIGATE => agent.role \in AgentRoles(INVESTIGATE)
  BY DEF FinishAgent, Inv, Attended
<1>2. /\ r \in StageRun /\ r.attempt = p.attempt /\ r.stage = p.stage
      /\ r.status = Last(p).status /\ r.action = Last(p).action
      /\ r.status # "SUPERSEDED"
  BY <1>1, InvCurrent DEF StageRun
<1>3. q = Updated(p, r, p.status, p.receipt, p.agents \ {agent},
                  p.premise, p.decision, p.lifecycle)
  BY InvCurrent DEF FinishAgent, Updated, Projection, Last
<1>4. p.stage = RESPOND /\ r.status = "SUCCEEDED" => HasReceipt(r.action)
  BY <1>2 DEF Inv, Bounded
<1>5. (Crossed(r) <=> Crossed(Last(p))) /\ (p.status = "NEEDS_HUMAN" <=> r.status = "NEEDS_HUMAN")
  BY <1>2, InvFields DEF Crossed
<1> HIDE DEF r
<1> QED BY <1>2, <1>3, <1>4, <1>5, InvFields, UpdatedKeepsInv

\* record_evidence_query marks the current run.
LEMMA QueryKeepsInv ==
    ASSUME NEW p, Inv(p), NEW q, RecordEvidenceQuery(p, q)
    PROVE  Kept(p, q)
<1> DEFINE r == [Last(p) EXCEPT !.queried = TRUE]
<1>1. /\ r \in StageRun /\ r.attempt = p.attempt /\ r.stage = p.stage
      /\ r.status = Last(p).status /\ r.action = Last(p).action
      /\ r.status # "SUPERSEDED"
  BY InvCurrent DEF StageRun
<1>2. q = Updated(p, r, p.status, p.receipt, p.agents, p.premise, p.decision, p.lifecycle)
  BY InvCurrent DEF RecordEvidenceQuery, Updated, Projection, Last
<1>3. p.stage = RESPOND /\ r.status = "SUCCEEDED" => HasReceipt(r.action)
  BY <1>1 DEF Inv, Bounded
<1>4. (Crossed(r) <=> Crossed(Last(p))) /\ (p.status = "NEEDS_HUMAN" <=> r.status = "NEEDS_HUMAN")
  BY <1>1, InvFields DEF Crossed
<1> HIDE DEF r
<1> QED BY <1>1, <1>2, <1>3, <1>4, InvFields, UpdatedKeepsInv

\* complete_current_stage with success in DECIDE.
LEMMA DecideKeepsInv ==
    ASSUME NEW p, Inv(p), NEW q, NEW premise \in Premises, SucceedDecide(p, premise, q)
    PROVE  Kept(p, q)
<1> DEFINE r == [Last(p) EXCEPT !.status = "SUCCEEDED", !.decision = p.decision + 1,
                                !.premise = premise]
<1>1. /\ r \in StageRun /\ r.attempt = p.attempt /\ r.stage = p.stage
      /\ r.status = "SUCCEEDED" /\ r.action = Last(p).action
  <2>1. p.decision + 1 \in Nat
    BY InvFields
  <2>2. Last(p) \in StageRun /\ Last(p).attempt = p.attempt /\ Last(p).stage = p.stage
    BY InvCurrent
  <2> QED BY <2>1, <2>2 DEF StageRun
<1>2. q = Updated(p, r, p.status, p.receipt, p.agents, p.premise, p.decision + 1, p.lifecycle)
  BY InvCurrent DEF SucceedDecide, Updated, Projection, Last
<1>3. p.stage # RESPOND /\ p.status # "NEEDS_HUMAN"
  BY InvCurrent, InvFields DEF SucceedDecide, DECIDE, RESPOND
<1>4. Crossed(r) <=> Crossed(Last(p))
  BY <1>1 DEF Crossed
<1>5. p.decision + 1 \in Nat \ {0}
  BY InvFields
<1> HIDE DEF r
<1> QED BY <1>1, <1>2, <1>3, <1>4, <1>5, InvFields, UpdatedKeepsInv

\* The response action.

Approvals == {"NONE", "PENDING", "APPROVED", "REJECTED"}
Executions == {"NOT_STARTED", "RUNNING", "SUCCEEDED", "FAILED", "NEEDS_HUMAN", "ROLLED_BACK"}

\* A run whose action is decided keeps its type and its place.
LEMMA WithApprovalRun ==
    ASSUME NEW run \in StageRun, NEW approval \in Approvals
    PROVE  LET r == WithApproval(run, approval)
           IN  /\ r \in StageRun /\ r.attempt = run.attempt /\ r.stage = run.stage
               /\ r.status = run.status /\ r.action.execution = run.action.execution
<1>1. run.action \in Action
  BY DEF StageRun
<1>2. [run.action EXCEPT !.approval = approval] \in Action
  BY <1>1 DEF Action, Approvals
<1>3. [run.action EXCEPT !.approval = approval].execution = run.action.execution
  BY <1>1 DEF Action
<1> QED BY <1>2, <1>3 DEF StageRun, WithApproval

\* A run whose action is executed keeps its type and its place.
LEMMA WithExecutionRun ==
    ASSUME NEW run \in StageRun, NEW execution \in Executions
    PROVE  LET r == WithExecution(run, execution)
           IN  /\ r \in StageRun /\ r.attempt = run.attempt /\ r.stage = run.stage
               /\ r.status = run.status /\ r.action.execution = execution
<1>1. run.action \in Action
  BY DEF StageRun
<1>2. [run.action EXCEPT !.execution = execution] \in Action
  BY <1>1 DEF Action, Executions
<1>3. [run.action EXCEPT !.execution = execution].execution = execution
  BY <1>1 DEF Action
<1> QED BY <1>2, <1>3 DEF StageRun, WithExecution

\* add_action gives the current RESPOND run its action.
LEMMA AddActionKeepsInv ==
    ASSUME NEW p, Inv(p), NEW q, AddAction(p, q)
    PROVE  Kept(p, q)
<1> PICK i \in LiveDecisions(p) :
        q = [p EXCEPT !.runs[CurrentRun(p)].action =
                [decision |-> p.runs[i].decision, approval |-> "PENDING",
                 execution |-> "NOT_STARTED"]]
  BY DEF AddAction
<1> DEFINE action == [decision |-> p.runs[i].decision, approval |-> "PENDING",
                      execution |-> "NOT_STARTED"]
           r == [Last(p) EXCEPT !.action = action]
<1>1. action \in Action
  <2>1. p.runs[i] \in StageRun
    BY InvCurrent DEF LiveDecisions, AttemptRuns
  <2> QED BY <2>1 DEF StageRun, Action
<1>2. /\ r \in StageRun /\ r.attempt = p.attempt /\ r.stage = p.stage
      /\ r.status = Last(p).status /\ r.status # "SUPERSEDED"
      /\ r.action.execution = "NOT_STARTED"
  BY <1>1, InvCurrent DEF StageRun
<1>3. q = Updated(p, r, p.status, p.receipt, p.agents, p.premise, p.decision, p.lifecycle)
  BY InvCurrent DEF Updated, Projection, Last
<1>4. Crossed(r) <=> Crossed(Last(p))
  BY <1>2, InvCurrent DEF AddAction, NoAction, Crossed
<1>5. p.status = "NEEDS_HUMAN" <=> r.status = "NEEDS_HUMAN"
  BY <1>2, InvFields
<1>6. r.status # "SUCCEEDED"
  BY <1>2, InvCurrent DEF AddAction, NoAction, HasReceipt, Inv, Bounded
<1> HIDE DEF r
<1>7. Kept(p, Updated(p, r, p.status, p.receipt, p.agents, p.premise, p.decision, p.lifecycle))
  BY <1>2, <1>4, <1>5, <1>6, InvFields, UpdatedKeepsInv
<1> QED BY <1>3, <1>7

\* approve_action, approving.
LEMMA ApproveKeepsInv ==
    ASSUME NEW p, Inv(p), NEW q, ApproveAction(p, q)
    PROVE  Kept(p, q)
<1> DEFINE r == WithApproval(Last(p), "APPROVED")
<1>1. /\ r \in StageRun /\ r.attempt = p.attempt /\ r.stage = p.stage
      /\ r.status = Last(p).status /\ r.status # "SUPERSEDED"
      /\ r.action.execution = Last(p).action.execution
  BY InvCurrent, WithApprovalRun DEF Approvals
<1>2. q = Updated(p, r, p.status, p.receipt, p.agents, p.premise, p.decision, p.lifecycle)
  BY InvCurrent DEF ApproveAction, Updated, Projection, Last
<1>3. p.stage = RESPOND /\ r.status = "SUCCEEDED" => HasReceipt(r.action)
  BY <1>1 DEF Inv, Bounded, HasReceipt
<1>4. (Crossed(r) <=> Crossed(Last(p))) /\ (p.status = "NEEDS_HUMAN" <=> r.status = "NEEDS_HUMAN")
  BY <1>1, InvFields DEF Crossed
<1> HIDE DEF r
<1> QED BY <1>1, <1>2, <1>3, <1>4, InvFields, UpdatedKeepsInv

\* approve_action, rejecting: the RESPOND run fails with its action.
LEMMA RejectKeepsInv ==
    ASSUME NEW p, Inv(p), NEW q, RejectAction(p, q)
    PROVE  Kept(p, q)
<1> DEFINE run == WithOutcome(p, "FAILED", "OTHER")
           r == WithApproval(run, "REJECTED")
<1>1. /\ r \in StageRun /\ r.attempt = p.attempt /\ r.stage = p.stage
      /\ r.status = "FAILED"
      /\ r.action.execution = Last(p).action.execution
  <2>1. /\ run \in StageRun /\ run.attempt = p.attempt /\ run.stage = p.stage
        /\ run.status = "FAILED" /\ run.action = Last(p).action
    BY InvCurrent DEF WithOutcome, StageRun
  <2> HIDE DEF run
  <2> QED BY <2>1, WithApprovalRun DEF Approvals
<1>2. q = Updated(p, r, p.status, p.receipt, p.agents, p.premise, p.decision, "DEGRADED")
  BY InvCurrent DEF RejectAction, Updated, Projection, Last, WithOutcome
<1>3. p.status = "ACTIVE"
  BY InvCurrent, InvFields DEF RejectAction, MayDecideAction, Idle, Open, Statuses
<1>4. Crossed(r) <=> Crossed(Last(p))
  BY <1>1 DEF Crossed
<1> HIDE DEF r
<1> QED BY <1>1, <1>2, <1>3, <1>4, InvFields, UpdatedKeepsInv DEF Lifecycles

\* mark_action_execution_started.
LEMMA MarkKeepsInv ==
    ASSUME NEW p, Inv(p), NEW q, MarkExecutionStarted(p, q)
    PROVE  Kept(p, q)
<1> DEFINE r == WithExecution(Last(p), "RUNNING")
<1>1. /\ r \in StageRun /\ r.attempt = p.attempt /\ r.stage = p.stage
      /\ r.status = Last(p).status /\ r.status # "SUPERSEDED"
      /\ r.action.execution = "RUNNING"
  BY InvCurrent, WithExecutionRun DEF Executions
<1>2. q = Updated(p, r, p.status, p.receipt, p.agents, p.premise, p.decision, "EXECUTING")
  BY InvCurrent DEF MarkExecutionStarted, Updated, Projection, Last
<1>3. Last(p).action.execution = "NOT_STARTED"
  BY InvCurrent DEF MarkExecutionStarted
<1>4. (Crossed(r) <=> Crossed(Last(p))) /\ (p.status = "NEEDS_HUMAN" <=> r.status = "NEEDS_HUMAN")
  BY <1>1, <1>3, InvFields DEF Crossed
<1>5. r.status # "SUCCEEDED"
  BY <1>1, <1>3 DEF MarkExecutionStarted, HasReceipt, Inv, Bounded
<1> HIDE DEF r
<1> QED BY <1>1, <1>2, <1>4, <1>5, InvFields, UpdatedKeepsInv DEF Lifecycles

\* record_action_execution crosses the boundary at most once.
LEMMA RecordExecutionKeepsInv ==
    ASSUME NEW p, Inv(p), NEW q, NEW result \in {"SUCCEEDED", "FAILED", "NEEDS_HUMAN"},
           RecordExecution(p, result, q)
    PROVE  Kept(p, q)
<1> DEFINE r == WithExecution(Last(p), result)
           receipt == IF BoundaryCrossed(result) THEN Len(p.runs) ELSE 0
           lifecycle == IF result = "SUCCEEDED" THEN "EXECUTING" ELSE "NEEDS_HUMAN"
<1>1. /\ r \in StageRun /\ r.attempt = p.attempt /\ r.stage = p.stage
      /\ r.status = Last(p).status /\ r.status # "SUPERSEDED"
      /\ r.action.execution = result
  BY InvCurrent, WithExecutionRun DEF Executions
<1>2. q = Updated(p, r, p.status, receipt, p.agents, p.premise, p.decision, lifecycle)
  BY InvCurrent DEF RecordExecution, Updated, Projection, Last
<1>3. p.stage = RESPOND /\ Last(p).action.execution = "RUNNING"
  BY InvCurrent DEF RecordExecution
<1>4. p.receipt = 0 /\ ~Crossed(Last(p))
  <2>1. ~Crossed(Last(p))
    BY <1>3 DEF Crossed
  <2> QED BY <1>3, <2>1, InvCurrent DEF Inv, Bounded, Last
<1>5. Crossed(r) <=> BoundaryCrossed(result)
  BY <1>1 DEF Crossed, BoundaryCrossed
<1>6. HasReceipt(r.action) /\ lifecycle \in Lifecycles
      /\ (p.status = "NEEDS_HUMAN" <=> r.status = "NEEDS_HUMAN")
  BY <1>1, InvFields DEF HasReceipt, Lifecycles
<1>7. \/ receipt = p.receipt /\ (Crossed(r) <=> Crossed(Last(p)))
      \/ p.stage = RESPOND /\ p.receipt = 0 /\ receipt = Len(p.runs) /\ Crossed(r)
  BY <1>3, <1>4, <1>5
<1>8. p.status = "COMPLETED" => p.stage = VERIFY /\ r.status = "SUCCEEDED"
  BY <1>1, InvFields
<1> HIDE DEF r, receipt, lifecycle
<1> QED BY <1>1, <1>2, <1>6, <1>7, <1>8, InvFields, UpdatedKeepsInv

\* The run that stops may be the one rolled back, or a later one.
LEMMA RollbackKeepsInv ==
    ASSUME NEW p, Inv(p), NEW q, NEW i, NEW succeeded \in BOOLEAN,
           RecordRollback(p, i, succeeded, q)
    PROVE  Kept(p, q)
<1> DEFINE outcome == IF succeeded THEN "ROLLED_BACK" ELSE "NEEDS_HUMAN"
           n == Len(p.runs)
           s == WithExecution(p.runs[i], outcome)
           back == [p.runs EXCEPT ![i] = s]
           r == [back[n] EXCEPT !.status = "NEEDS_HUMAN", !.failure = "OTHER"]
           runs == [back EXCEPT ![n] = r]
<1>1. /\ p \in Projection /\ p.runs \in Seq(StageRun) /\ n \in DOMAIN p.runs
      /\ CurrentRun(p) = n /\ n \in Nat /\ i \in DOMAIN p.runs /\ p.runs[i] \in StageRun
      /\ Crossed(p.runs[i])
  BY InvCurrent DEF RecordRollback, Crossed
<1>2. /\ s \in StageRun /\ s.attempt = p.runs[i].attempt /\ s.stage = p.runs[i].stage
      /\ s.status = p.runs[i].status /\ s.action.execution = outcome
  BY <1>1, WithExecutionRun DEF Executions
<1>3. /\ back \in Seq(StageRun) /\ DOMAIN back = DOMAIN p.runs /\ Len(back) = n
      /\ \A j \in DOMAIN p.runs :
            /\ back[j] \in StageRun
            /\ back[j].attempt = p.runs[j].attempt /\ back[j].stage = p.runs[j].stage
            /\ back[j].status = p.runs[j].status /\ (Crossed(back[j]) <=> Crossed(p.runs[j]))
  <2> HIDE DEF s
  <2>1. /\ back \in Seq(StageRun) /\ DOMAIN back = DOMAIN p.runs /\ Len(back) = n
        /\ back[i] = s /\ \A j \in DOMAIN p.runs : j # i => back[j] = p.runs[j]
    BY <1>1, <1>2, ReplaceRun
  <2>2. Crossed(s)
    BY <1>2 DEF Crossed
  <2> QED BY <1>1, <1>2, <2>1, <2>2
<1> HIDE DEF back
<1>4. /\ r \in StageRun /\ r.attempt = back[n].attempt /\ r.stage = back[n].stage
      /\ r.status = "NEEDS_HUMAN" /\ r.action = back[n].action
  BY <1>1, <1>3 DEF StageRun
<1>5. /\ runs \in Seq(StageRun) /\ DOMAIN runs = DOMAIN p.runs /\ Len(runs) = n
      /\ runs[n].status = "NEEDS_HUMAN"
      /\ \A j \in DOMAIN p.runs :
            /\ runs[j].attempt = p.runs[j].attempt /\ runs[j].stage = p.runs[j].stage
            /\ runs[j].status # "SUPERSEDED" => j = n \/ p.runs[j].status # "SUPERSEDED"
            /\ (Crossed(runs[j]) <=> Crossed(p.runs[j]))
  <2> HIDE DEF r
  <2>1. /\ runs \in Seq(StageRun) /\ DOMAIN runs = DOMAIN back /\ Len(runs) = Len(back)
        /\ runs[n] = r /\ \A j \in DOMAIN back : j # n => runs[j] = back[j]
    BY <1>1, <1>3, <1>4, ReplaceRun
  <2>2. Crossed(r) <=> Crossed(back[n])
    BY <1>4 DEF Crossed
  <2> QED BY <1>1, <1>3, <1>4, <2>1, <2>2
<1> HIDE DEF r, runs
<1>6. q = [p EXCEPT !.status = "NEEDS_HUMAN", !.runs = runs, !.lifecycle = "NEEDS_HUMAN"]
  BY <1>1 DEF RecordRollback, runs, r, back
<1>7. q \in Projection /\ q.runs = runs /\ q.attempt = p.attempt /\ q.stage = p.stage
      /\ q.receipt = p.receipt /\ q.status = "NEEDS_HUMAN" /\ q.agents = p.agents
  BY <1>1, <1>5, <1>6 DEF Projection
<1>8. WellPlaced(q)
  BY <1>1, <1>5, <1>7 DEF Inv, WellPlaced, Last
<1>9. Bounded(q)
  <2>1. Last(q).status # "SUCCEEDED"
    BY <1>5, <1>7 DEF Last
  <2> QED BY <1>1, <1>5, <1>7, <2>1 DEF Inv, Bounded
<1>10. Attended(q) /\ Halted(q)
  BY <1>5, <1>7 DEF Inv, Attended, Halted, Last
<1> QED BY <1>1, <1>5, <1>7, <1>8, <1>9, <1>10 DEF Inv, Kept

-----------------------------------------------------------------------------
(* Steps that start a run.                                                 *)

\* A command that needs an idle run finds no agent at all.
LEMMA IdleHasNoAgents ==
    ASSUME NEW p, Inv(p), Idle(p)
    PROVE  p.agents = {}
<1>1. \A a \in p.agents : a.run = Len(p.runs)
  BY DEF Inv, Attended
<1> QED BY <1>1, InvCurrent DEF Idle, AgentBusy

\* The runs before the new one keep their place and their actions; old is
\* what becomes of them.
Started(p, old, attempt, stage, status, receipt, decision, lifecycle) ==
    [p EXCEPT !.attempt = attempt, !.stage = stage, !.status = status,
              !.receipt = receipt, !.runs = Append(old, NewRun(attempt, stage)),
              !.agents = {}, !.decision = decision, !.lifecycle = lifecycle]

\* Appending a new run of a stage at or after all live ones keeps the invariant.
LEMMA StartedKeepsInv ==
    ASSUME NEW p, Inv(p), NEW old \in Seq(StageRun), Len(old) = Len(p.runs),
           \A i \in DOMAIN p.runs :
              /\ old[i].attempt = p.runs[i].attempt
              /\ Crossed(old[i]) <=> Crossed(p.runs[i]),
           NEW attempt, NEW stage \in Stages, NEW receipt,
           \/ /\ attempt = p.attempt /\ receipt = p.receipt
              /\ stage = VERIFY <=> receipt # 0
              /\ \A i \in DOMAIN p.runs :
                    old[i].attempt = attempt /\ old[i].status # "SUPERSEDED"
                    => old[i].stage < stage
           \/ attempt = p.attempt + 1 /\ receipt = 0 /\ stage < RESPOND,
           NEW status \in Statuses, status = "ACTIVE",
           NEW decision \in Nat \ {0}, NEW lifecycle \in Lifecycles
    PROVE  Kept(p, Started(p, old, attempt, stage, status, receipt, decision, lifecycle))
<1> DEFINE n == Len(p.runs)
           new == NewRun(attempt, stage)
           runs == Append(old, new)
           q == Started(p, old, attempt, stage, status, receipt, decision, lifecycle)
<1>1. /\ p \in Projection /\ p.runs \in Seq(StageRun) /\ n \in Nat \ {0}
      /\ DOMAIN p.runs = 1..n /\ p.attempt \in Nat \ {0}
      /\ WellPlaced(p) /\ Bounded(p)
  BY InvCurrent DEF Inv, Projection
<1>2. attempt \in Nat \ {0} /\ receipt \in 0..n /\ p.attempt <= attempt
  BY <1>1 DEF Bounded
<1>3. /\ new \in StageRun /\ new.attempt = attempt /\ new.stage = stage
      /\ new.status = "RUNNING" /\ new.action = NoAction
  BY <1>2, NewRunType
<1>4. ~Crossed(new)
  BY <1>3 DEF Crossed, NoAction
<1> HIDE DEF new
<1>5. /\ runs \in Seq(StageRun) /\ Len(runs) = n + 1 /\ DOMAIN runs = 1..(n + 1)
      /\ runs[n + 1] = new /\ \A i \in 1..n : runs[i] = old[i]
  BY <1>1, <1>3
<1> HIDE DEF runs
<1>6. q \in Projection /\ q.runs = runs /\ q.attempt = attempt /\ q.stage = stage
      /\ q.receipt = receipt /\ q.status = status /\ q.agents = {}
  <2>1. q = [p EXCEPT !.attempt = attempt, !.stage = stage, !.status = status,
                      !.receipt = receipt, !.runs = runs, !.agents = {},
                      !.decision = decision, !.lifecycle = lifecycle]
    BY DEF Started, runs, new
  <2> HIDE DEF q
  <2>2. /\ q.runs = runs /\ q.attempt = attempt /\ q.stage = stage
        /\ q.receipt = receipt /\ q.status = status /\ q.agents = {}
    BY <1>1, <2>1 DEF Projection
  <2>3. q \in Projection
    <3>1. receipt \in Nat
      BY <1>1, <1>2
    <3>2. p \in Projection /\ attempt \in Nat \ {0} /\ runs \in Seq(StageRun)
      BY <1>1, <1>2, <1>5
    <3> QED BY <2>1, <3>1, <3>2 DEF Projection, Statuses, Lifecycles
  <2> QED BY <2>2, <2>3
<1> HIDE DEF q
<1>7. WellPlaced(q)
  <2>1. ASSUME NEW i \in 1..n PROVE q.runs[i].attempt <= p.attempt /\ q.runs[i].attempt \in Nat
    <3>1. old[i] \in StageRun /\ q.runs[i] = old[i]
      BY <1>1, <1>5, <1>6
    <3> QED BY <1>1, <3>1 DEF WellPlaced, StageRun
  <2>2. ASSUME NEW i \in DOMAIN q.runs PROVE q.runs[i].attempt <= q.attempt
    <3>1. CASE i = n + 1
      BY <1>2, <1>3, <1>5, <1>6, <3>1
    <3>2. CASE i \in 1..n
      BY <1>1, <1>2, <1>6, <2>1, <3>2
    <3> QED BY <1>1, <1>5, <1>6, <3>1, <3>2
  <2>3. ASSUME NEW i \in DOMAIN q.runs, q.runs[i].attempt = q.attempt,
               q.runs[i].status # "SUPERSEDED", i # Len(q.runs)
        PROVE  q.runs[i].stage < q.stage
    BY <1>1, <1>2, <1>5, <1>6, <2>1, <2>3
  <2> QED BY <1>1, <1>3, <1>5, <1>6, <2>2, <2>3 DEF WellPlaced, Last
<1>8. Bounded(q)
  <2>1. ASSUME NEW i \in 1..n
        PROVE  /\ q.runs[i].attempt = p.runs[i].attempt
               /\ q.runs[i].attempt <= p.attempt /\ q.runs[i].attempt \in Nat
               /\ Crossed(q.runs[i]) <=> Crossed(p.runs[i])
    <3>1. old[i] \in StageRun /\ q.runs[i] = old[i]
      BY <1>1, <1>5, <1>6
    <3> QED BY <1>1, <3>1 DEF WellPlaced, StageRun
  <2>2. ~Crossed(q.runs[n + 1]) /\ q.runs[n + 1].attempt = attempt
    BY <1>3, <1>4, <1>5, <1>6
  <2>3. ASSUME NEW i \in DOMAIN q.runs, q.runs[i].attempt = q.attempt
        PROVE  Crossed(q.runs[i]) <=> q.receipt = i
    BY <1>1, <1>2, <1>5, <1>6, <2>1, <2>2, <2>3 DEF Bounded
  <2>4. ASSUME NEW i \in DOMAIN q.runs, NEW j \in DOMAIN q.runs,
               Crossed(q.runs[i]), Crossed(q.runs[j]), q.runs[i].attempt = q.runs[j].attempt
        PROVE  i = j
    <3>1. i \in 1..n /\ j \in 1..n
      BY <1>1, <1>5, <1>6, <2>2, <2>4
    <3> QED BY <1>1, <2>1, <2>4, <3>1 DEF Bounded
  <2>5. /\ q.stage < RESPOND => q.receipt = 0
        /\ q.stage = RESPOND => q.receipt = 0
        /\ q.stage = VERIFY => q.receipt # 0
    BY <1>6 DEF RESPOND, VERIFY
  <2>6. Last(q).status # "SUCCEEDED"
    BY <1>3, <1>5, <1>6 DEF Last
  <2> QED BY <1>1, <1>2, <1>5, <1>6, <2>3, <2>4, <2>5, <2>6 DEF Bounded
<1>9. Attended(q) /\ Halted(q)
  BY <1>3, <1>5, <1>6 DEF Attended, Halted, Last
<1>10. Kept(p, q)
  BY <1>1, <1>5, <1>6, <1>7, <1>8, <1>9 DEF Inv, Kept
<1> QED BY <1>10 DEF q

\* advance starts the following stage.
LEMMA AdvanceKeepsInv ==
    ASSUME NEW p, Inv(p), NEW q, AdvanceStage(p, q)
    PROVE  Kept(p, q)
<1> DEFINE lifecycle == LifecycleAt(p.stage + 1)
<1>1. /\ p \in Projection /\ p.runs \in Seq(StageRun) /\ p.agents = {}
      /\ p.stage \in Stages /\ p.stage # VERIFY /\ p.status \in Statuses
      /\ Last(p).status = "SUCCEEDED" /\ Len(p.runs) \in DOMAIN p.runs
  BY InvCurrent, InvFields, IdleHasNoAgents DEF AdvanceStage, MayNext, Projection
<1>2. p.stage + 1 \in Stages /\ p.stage \in Nat
  BY <1>1 DEF Stages, DETECT, VERIFY
<1>3. q = Started(p, p.runs, p.attempt, p.stage + 1, p.status, p.receipt, p.decision, lifecycle)
  BY <1>1 DEF AdvanceStage, Started, Projection
<1>4. (p.stage + 1 = VERIFY) <=> (p.receipt # 0)
  <2>1. CASE p.stage = RESPOND
    BY <2>1 DEF AdvanceStage, Executed, RESPOND, VERIFY
  <2>2. CASE p.stage < RESPOND
    BY <1>2, <2>2 DEF Inv, Bounded, RESPOND, VERIFY
  <2>3. p.stage = RESPOND \/ p.stage < RESPOND
    BY <1>1 DEF Stages, DETECT, RESPOND, VERIFY
  <2> QED BY <2>1, <2>2, <2>3
<1>5. ASSUME NEW i \in DOMAIN p.runs, p.runs[i].attempt = p.attempt, p.runs[i].status # "SUPERSEDED"
      PROVE  p.runs[i].stage < p.stage + 1
  <2>1. p.runs[i] \in StageRun
    BY <1>1
  <2>2. p.runs[i].stage \in Nat
    BY <2>1 DEF StageRun, Stages, DETECT, VERIFY
  <2> QED BY <1>1, <1>2, <1>5, <2>2 DEF Inv, WellPlaced, Last
<1>6. p.status = "ACTIVE"
  BY <1>1, InvFields DEF AdvanceStage, MayNext, Idle, Open, Statuses
<1>7. lifecycle \in Lifecycles
  BY DEF LifecycleAt, Lifecycles
<1> HIDE DEF lifecycle
<1> QED BY <1>1, <1>2, <1>3, <1>4, <1>5, <1>6, <1>7, InvFields, StartedKeepsInv

\* A superseded run keeps its place and its action.
LEMMA SupersedeRun ==
    ASSUME NEW run \in StageRun
    PROVE  /\ Supersede(run) \in StageRun
           /\ Supersede(run).attempt = run.attempt /\ Supersede(run).stage = run.stage
           /\ Supersede(run).status = "SUPERSEDED"
           /\ Crossed(Supersede(run)) <=> Crossed(run)
<1>1. run.attempt \in Nat \ {0} /\ run.stage \in Stages /\ run.action \in Action
  BY DEF StageRun
<1>2. /\ NewRun(run.attempt, run.stage) \in StageRun
      /\ NewRun(run.attempt, run.stage).attempt = run.attempt
      /\ NewRun(run.attempt, run.stage).stage = run.stage
  BY <1>1, NewRunType
<1>3. /\ Supersede(run) \in StageRun
      /\ Supersede(run).attempt = run.attempt /\ Supersede(run).stage = run.stage
      /\ Supersede(run).status = "SUPERSEDED" /\ Supersede(run).action = run.action
  BY <1>1, <1>2 DEF Supersede, StageRun
<1> QED BY <1>3 DEF Crossed

\* rerun before the boundary.
LEMMA RerunKeepsInv ==
    ASSUME NEW p, Inv(p), NEW q, NEW target \in Stages, RerunStage(p, target, q)
    PROVE  Kept(p, q)
<1> DEFINE old == [i \in DOMAIN p.runs |-> IF i \in Affected(p, target)
                                           THEN Supersede(p.runs[i]) ELSE p.runs[i]]
           decision == NextDecision(p, target)
<1>1. /\ p \in Projection /\ p.runs \in Seq(StageRun) /\ p.agents = {}
      /\ p.receipt = 0 /\ target # VERIFY
  BY InvCurrent, IdleHasNoAgents DEF RerunStage, MayRerun, MayRetry, Executed
<1>2. /\ old \in Seq(StageRun) /\ Len(old) = Len(p.runs)
      /\ \A i \in DOMAIN p.runs :
            /\ old[i].attempt = p.runs[i].attempt
            /\ Crossed(old[i]) <=> Crossed(p.runs[i])
            /\ old[i].attempt = p.attempt /\ old[i].status # "SUPERSEDED"
               => old[i].stage < target
  <2>1. ASSUME NEW i \in DOMAIN p.runs PROVE p.runs[i] \in StageRun
    BY <1>1
  <2>2. ASSUME NEW i \in DOMAIN p.runs
        PROVE  /\ old[i] \in StageRun
               /\ old[i].attempt = p.runs[i].attempt
               /\ Crossed(old[i]) <=> Crossed(p.runs[i])
    BY <2>1, SupersedeRun
  <2>3. ASSUME NEW i \in DOMAIN p.runs, old[i].attempt = p.attempt, old[i].status # "SUPERSEDED"
        PROVE  old[i].stage < target
    <3>1. old[i] = p.runs[i] /\ i \notin Affected(p, target)
      BY <2>1, <2>3, SupersedeRun
    <3>2. i \in LiveRuns(p)
      BY <2>3, <3>1 DEF LiveRuns, AttemptRuns
    <3>3. p.runs[i].stage \in Nat /\ target \in Nat
      BY <2>1 DEF StageRun, Stages, DETECT, VERIFY
    <3> QED BY <3>1, <3>2, <3>3 DEF Affected
  <2>4. old \in Seq(StageRun) /\ Len(old) = Len(p.runs)
    <3>1. DOMAIN p.runs = 1..Len(p.runs) /\ Len(p.runs) \in Nat
      BY <1>1
    <3>2. DOMAIN old = 1..Len(p.runs)
      BY <3>1
    <3>3. old \in [1..Len(p.runs) -> StageRun]
      BY <2>2, <3>1
    <3> HIDE DEF old
    <3>4. old \in Seq(StageRun)
      BY <3>1, <3>3, SeqDef
    <3> QED BY <3>1, <3>2, <3>4, LenProperties
  <2> QED BY <2>2, <2>3, <2>4
<1> HIDE DEF old
<1>3. q = Started(p, old, p.attempt, target, "ACTIVE", p.receipt, decision, "ACTIVE")
  BY <1>1 DEF RerunStage, Started, StopAgents, Projection, old
<1>4. decision \in Nat \ {0} /\ "ACTIVE" \in Statuses /\ "ACTIVE" \in Lifecycles
  BY InvFields DEF NextDecision, Statuses, Lifecycles
<1> HIDE DEF decision
<1> QED BY <1>1, <1>2, <1>3, <1>4, StartedKeepsInv

\* rerun after the boundary.
LEMMA BranchKeepsInv ==
    ASSUME NEW p, Inv(p), NEW q, NEW target \in Stages, BranchAttempt(p, target, q)
    PROVE  Kept(p, q)
<1> DEFINE n == Len(p.runs)
           old == [p.runs EXCEPT ![n] = Supersede(p.runs[n])]
           decision == NextDecision(p, target)
<1>1. /\ p \in Projection /\ p.runs \in Seq(StageRun) /\ p.agents = {}
      /\ n \in DOMAIN p.runs /\ CurrentRun(p) = n /\ p.runs[n] \in StageRun
  BY InvCurrent, IdleHasNoAgents DEF BranchAttempt, MayRerun, Last
<1>2. /\ old \in Seq(StageRun) /\ Len(old) = Len(p.runs)
      /\ \A i \in DOMAIN p.runs :
            /\ old[i].attempt = p.runs[i].attempt
            /\ Crossed(old[i]) <=> Crossed(p.runs[i])
  <2>1. /\ Supersede(p.runs[n]) \in StageRun
        /\ Supersede(p.runs[n]).attempt = p.runs[n].attempt
        /\ Crossed(Supersede(p.runs[n])) <=> Crossed(p.runs[n])
    BY <1>1, SupersedeRun
  <2>2. /\ old \in Seq(StageRun) /\ Len(old) = Len(p.runs) /\ old[n] = Supersede(p.runs[n])
        /\ \A i \in DOMAIN p.runs : i # n => old[i] = p.runs[i]
    BY <1>1, <2>1, ReplaceRun
  <2> QED BY <2>1, <2>2
<1> HIDE DEF old
<1>3. q = Started(p, old, p.attempt + 1, target, "ACTIVE", 0, decision, "ACTIVE")
  <2>1. StopAgents(p, Affected(p, target) \cup {CurrentRun(p)}) = {}
    BY <1>1 DEF StopAgents
  <2>2. old = [p.runs EXCEPT ![CurrentRun(p)] = Supersede(@)]
    BY <1>1 DEF old
  <2> QED BY <2>1, <2>2 DEF BranchAttempt, Started
<1>4. decision \in Nat \ {0} /\ "ACTIVE" \in Statuses /\ "ACTIVE" \in Lifecycles
  BY InvFields DEF NextDecision, Statuses, Lifecycles
<1>5. target < RESPOND
  BY DEF BranchAttempt, Stages, DETECT, RESPOND, VERIFY
<1> HIDE DEF decision
<1> QED BY <1>1, <1>2, <1>3, <1>4, <1>5, StartedKeepsInv

-----------------------------------------------------------------------------
(* The specification.                                                      *)

IInv == Inv(projection) /\ rollbacks \subseteq DOMAIN projection.runs

\* The initial states satisfy the inductive invariant.
LEMMA InitIInv == Init => IInv
BY BootstrapInv DEF Init, IInv

\* Every step either leaves the projection alone or keeps its invariant.
LEMMA NextKept ==
    ASSUME Inv(projection), Next
    PROVE  projection' = projection \/ Kept(projection, projection')
<1>1. CASE Sync
  BY <1>1, SyncKeepsInv DEF Sync
<1>2. CASE Advance
  BY <1>2, AdvanceKeepsInv DEF Advance
<1>3. CASE Invalidate
  BY <1>3, InvalidateKeepsInv DEF Invalidate
<1>4. CASE Complete
  BY <1>4, CompleteKeepsInv DEF Complete
<1>5. CASE Rerun
  BY <1>5, RerunKeepsInv DEF Rerun
<1>6. CASE Branch
  BY <1>6, BranchKeepsInv DEF Branch
<1>7. CASE OperatorEscalate
  BY <1>7, EscalateKeepsInv DEF OperatorEscalate
<1>8. CASE Approve
  BY <1>8, ApproveKeepsInv DEF Approve
<1>9. CASE Reject
  BY <1>9, RejectKeepsInv DEF Reject
<1>10. CASE RunAgent
  BY <1>10, StartAgentKeepsInv DEF RunAgent
<1>11. CASE AgentAnswers
  BY <1>11, FinishAgentKeepsInv DEF AgentAnswers
<1>12. CASE Query
  BY <1>12, QueryKeepsInv DEF Query
<1>13. CASE TriageDone \/ InvestigateDone \/ RespondDone \/ VerifyDone
  BY <1>13, SucceedKeepsInv DEF TriageDone, InvestigateDone, RespondDone, VerifyDone
<1>14. CASE DecideDone
  BY <1>14, DecideKeepsInv DEF DecideDone
<1>15. CASE AnalysisFailed \/ RespondFailed \/ VerifyFailed
  BY <1>15, FailKeepsInv
  DEF AnalysisFailed, RespondFailed, VerifyFailed, FailAnalysis, FailRespond, FailVerify
<1>16. CASE Propose
  BY <1>16, AddActionKeepsInv DEF Propose
<1>17. CASE ExecutionStarted
  BY <1>17, MarkKeepsInv DEF ExecutionStarted
<1>18. CASE ExecutionRecorded
  BY <1>18, RecordExecutionKeepsInv DEF ExecutionRecorded
<1>19. CASE RollbackRecorded
  BY <1>19, RollbackKeepsInv DEF RollbackRecorded
<1>20. CASE RollbackLost
  BY <1>20 DEF RollbackLost
<1> QED
  BY <1>1, <1>2, <1>3, <1>4, <1>5, <1>6, <1>7, <1>8, <1>9, <1>10, <1>11, <1>12, <1>13,
     <1>14, <1>15, <1>16, <1>17, <1>18, <1>19, <1>20 DEF Next

\* A rollback is only ever asked for the receipt of the attempt.
LEMMA NextRollbacks ==
    ASSUME Next
    PROVE  \/ rollbacks' \subseteq rollbacks
           \/ /\ projection.receipt # 0
              /\ rollbacks' = rollbacks \cup {projection.receipt}
BY DEF Next, Sync, Advance, Invalidate, Complete, Rerun, Branch, OperatorEscalate, Approve,
       Reject, RunAgent, AgentAnswers, Query, TriageDone, InvestigateDone, RespondDone,
       VerifyDone, DecideDone, AnalysisFailed, RespondFailed, VerifyFailed, FailVerify,
       Executed, Propose, ExecutionStarted, ExecutionRecorded, RollbackRecorded, RollbackLost

\* Every step keeps the inductive invariant.
LEMMA NextIInv ==
    IInv /\ [Next]_vars => IInv'
<1> SUFFICES ASSUME IInv, [Next]_vars PROVE IInv'
  OBVIOUS
<1>1. CASE UNCHANGED vars
  BY <1>1 DEF IInv, vars
<1>2. CASE Next
  <2>1. Inv(projection') /\ Len(projection.runs) <= Len(projection'.runs)
    <3>1. projection' = projection \/ Kept(projection, projection')
      BY <1>2, NextKept DEF IInv
    <3>2. Len(projection.runs) \in Nat
      BY InvCurrent DEF IInv
    <3> QED BY <3>1, <3>2 DEF Kept, IInv
  <2>2. /\ DOMAIN projection.runs = 1..Len(projection.runs)
        /\ DOMAIN projection'.runs = 1..Len(projection'.runs)
        /\ Len(projection.runs) \in Nat /\ Len(projection'.runs) \in Nat
    BY <2>1, InvCurrent, LenProperties DEF IInv
  <2>3. rollbacks' \subseteq DOMAIN projection.runs
    BY <1>2, <2>2, NextRollbacks DEF IInv, Inv, Bounded
  <2> QED BY <2>1, <2>2, <2>3 DEF IInv
<1> QED BY <1>1, <1>2

(***************************************************************************)
(* The invariant the other theorems follow from: the last run is the one   *)
(* live run of the current stage, agents and stop states belong to it, and *)
(* the receipt names the attempt's only execution.                         *)
(***************************************************************************)
THEOREM InductiveInvariant == Spec => []IInv
<1> QED BY InitIInv, NextIInv, PTL DEF Spec

(***************************************************************************)
(* Whatever operators, telemetry and activities do, in any order, the      *)
(* stored projection is well formed (the validators of                     *)
(* IncidentProjectionV3 accept it) and only runs of it are rolled back.    *)
(***************************************************************************)
THEOREM TypeCorrect == Spec => []TypeOK
<1>1. IInv => TypeOK
  BY DEF IInv, Inv, TypeOK
<1> QED BY <1>1, InductiveInvariant, PTL

(***************************************************************************)
(* The coordinator's current run (the one live run of the stage) and the   *)
(* activities' (stage_runs[-1]) are always the same run.                   *)
(***************************************************************************)
THEOREM CurrentRunAgreed == Spec => []CurrentRunIsLast
<1>1. IInv => CurrentRunIsLast
  BY CurrentIsLast DEF IInv, Inv, CurrentRunIsLast
<1> QED BY <1>1, InductiveInvariant, PTL

(***************************************************************************)
(* No attempt crosses the external boundary twice, and the receipt that    *)
(* withholds RETRY from the attempt is never lost.                         *)
(***************************************************************************)
THEOREM ExecutedAtMostOnce == Spec => []OneBoundaryPerAttempt
<1>1. IInv => OneBoundaryPerAttempt
  BY DEF IInv, Inv, Bounded, OneBoundaryPerAttempt, AttemptRuns
<1> QED BY <1>1, InductiveInvariant, PTL

\* No command leaves an agent RUNNING on a run the workflow has left.
THEOREM AgentsFollowTheRun == Spec => []AgentsOnCurrentRun
<1>1. IInv => AgentsOnCurrentRun
  BY DEF IInv, Inv, Attended, AgentsOnCurrentRun
<1> QED BY <1>1, InductiveInvariant, PTL

\* The attempt and its current run wait for a human together.
THEOREM StopTogether == Spec => []StoppedTogether
<1>1. IInv => StoppedTogether
  BY InvCurrent, InvFields DEF IInv, StoppedTogether
<1> QED BY <1>1, InductiveInvariant, PTL

-----------------------------------------------------------------------------
(***************************************************************************)
(* The refinement: GuidedWorkflow implements WorkflowContract.             *)
(***************************************************************************)

\* The contract's state of projection p.
State(p) == IF CurrentStatus(p) \in {"RUNNING", "SUCCEEDED"} THEN CurrentStatus(p) ELSE "STOPPED"

\* A step that the contract does not see, and one that only ends the stage.
InPlace(p, q) ==
    /\ q.attempt = p.attempt /\ q.stage = p.stage
    /\ Executed(q) <=> Executed(p)
    /\ Open(q) <=> Open(p)
Unseen(p, q) == InPlace(p, q) /\ State(q) = State(p)
Ends(p, q, state) == Open(p) /\ InPlace(p, q) /\ State(q) = state

-----------------------------------------------------------------------------
(* What the contract sees of each relation.                                *)

\* The status of a replaced current run.
LEMMA ReplacedStatus ==
    ASSUME NEW p, Inv(p), NEW q, Inv(q), NEW r,
           q.runs = [p.runs EXCEPT ![Len(p.runs)] = r]
    PROVE  CurrentStatus(q) = r.status
<1>1. p.runs \in Seq(StageRun) /\ Len(p.runs) \in DOMAIN p.runs
  BY InvCurrent
<1>2. Len(q.runs) = Len(p.runs)
  <2>1. q.runs \in Seq(StageRun) /\ Len(q.runs) \in Nat /\ Len(p.runs) \in Nat
    BY InvCurrent
  <2>2. DOMAIN q.runs = DOMAIN p.runs
    OBVIOUS
  <2>3. DOMAIN q.runs = 1..Len(q.runs) /\ DOMAIN p.runs = 1..Len(p.runs)
    BY <1>1, <2>1, LenProperties
  <2> QED BY <1>1, <2>1, <2>2, <2>3
<1> QED BY <1>1, <1>2, InvCurrent DEF Last

\* A completed incident has passed VERIFY.
LEMMA ClosedIsVerified ==
    ASSUME NEW p, Inv(p), ~Open(p)
    PROVE  p.stage = VERIFY /\ CurrentStatus(p) = "SUCCEEDED"
BY InvCurrent, InvFields DEF Open

\* A stale decision stops the stage.
LEMMA InvalidateView ==
    ASSUME NEW p, Inv(p), NEW q, Inv(q), InvalidateDecision(p, q)
    PROVE  Ends(p, q, "STOPPED")
<1> DEFINE r == [Last(p) EXCEPT !.status = "FAILED", !.failure = "REVALIDATION_REQUIRED"]
<1>1. /\ q.runs = [p.runs EXCEPT ![Len(p.runs)] = r]
      /\ q.attempt = p.attempt /\ q.stage = p.stage
      /\ q.receipt = p.receipt /\ q.status = p.status
  <2>1. p \in Projection /\ CurrentRun(p) = Len(p.runs)
    BY InvCurrent
  <2> QED BY <2>1 DEF InvalidateDecision, Projection, Last
<1>2. r.status = "FAILED"
  BY InvCurrent DEF StageRun
<1>3. Open(p)
  BY DEF InvalidateDecision, MayNext, Idle
<1> HIDE DEF r
<1>4. CurrentStatus(q) = "FAILED"
  BY <1>1, <1>2, ReplacedStatus
<1> QED BY <1>1, <1>3, <1>4 DEF Ends, InPlace, State, Executed, Open

\* A failed completion stops the stage.
LEMMA FailView ==
    ASSUME NEW p, Inv(p), NEW q, Inv(q), FailCurrent(p, q)
    PROVE  Ends(p, q, "STOPPED")
<1> DEFINE r == [Last(p) EXCEPT !.status = "FAILED", !.failure = "OTHER"]
<1>1. /\ q.runs = [p.runs EXCEPT ![Len(p.runs)] = r]
      /\ q.attempt = p.attempt /\ q.stage = p.stage
      /\ q.receipt = p.receipt /\ q.status = p.status
  <2>1. p \in Projection /\ CurrentRun(p) = Len(p.runs)
    BY InvCurrent
  <2> QED BY <2>1 DEF FailCurrent, Projection, Last
<1>2. r.status = "FAILED"
  BY InvCurrent DEF StageRun
<1>3. Open(p)
  BY ClosedIsVerified DEF FailCurrent
<1> HIDE DEF r
<1>4. CurrentStatus(q) = "FAILED"
  BY <1>1, <1>2, ReplacedStatus
<1> QED BY <1>1, <1>3, <1>4 DEF Ends, InPlace, State, Executed, Open

\* A rejection stops the stage.
LEMMA RejectView ==
    ASSUME NEW p, Inv(p), NEW q, Inv(q), RejectAction(p, q)
    PROVE  Ends(p, q, "STOPPED")
<1> DEFINE r == WithApproval([Last(p) EXCEPT !.status = "FAILED", !.failure = "OTHER"], "REJECTED")
<1>1. /\ q.runs = [p.runs EXCEPT ![Len(p.runs)] = r]
      /\ q.attempt = p.attempt /\ q.stage = p.stage
      /\ q.receipt = p.receipt /\ q.status = p.status
  <2>1. p \in Projection /\ CurrentRun(p) = Len(p.runs)
    BY InvCurrent
  <2> QED BY <2>1 DEF RejectAction, Projection, Last
<1>2. r.status = "FAILED"
  BY InvCurrent DEF StageRun, WithApproval
<1>3. Open(p)
  BY DEF RejectAction, MayDecideAction, Idle
<1> HIDE DEF r
<1>4. CurrentStatus(q) = "FAILED"
  BY <1>1, <1>2, ReplacedStatus
<1> QED BY <1>1, <1>3, <1>4 DEF Ends, InPlace, State, Executed, Open

\* A decision finishes the stage.
LEMMA DecideView ==
    ASSUME NEW p, Inv(p), NEW q, Inv(q), NEW premise, SucceedDecide(p, premise, q)
    PROVE  Ends(p, q, "SUCCEEDED")
<1> DEFINE r == [Last(p) EXCEPT !.status = "SUCCEEDED", !.decision = p.decision + 1,
                                !.premise = premise]
<1>1. /\ q.runs = [p.runs EXCEPT ![Len(p.runs)] = r]
      /\ q.attempt = p.attempt /\ q.stage = p.stage
      /\ q.receipt = p.receipt /\ q.status = p.status
  <2>1. p \in Projection /\ CurrentRun(p) = Len(p.runs)
    BY InvCurrent
  <2> QED BY <2>1 DEF SucceedDecide, Projection, Last
<1>2. r.status = "SUCCEEDED"
  BY InvCurrent DEF StageRun
<1>3. Open(p)
  BY ClosedIsVerified DEF SucceedDecide
<1> HIDE DEF r
<1>4. CurrentStatus(q) = "SUCCEEDED"
  BY <1>1, <1>2, ReplacedStatus
<1> QED BY <1>1, <1>3, <1>4 DEF Ends, InPlace, State, Executed, Open

\* A successful completion finishes the stage.
LEMMA SucceedView ==
    ASSUME NEW p, Inv(p), NEW q, Inv(q), CurrentStatus(p) = "RUNNING", q = SetCurrent(p, "SUCCEEDED")
    PROVE  Ends(p, q, "SUCCEEDED")
<1> DEFINE r == [Last(p) EXCEPT !.status = "SUCCEEDED"]
<1>1. /\ q.runs = [p.runs EXCEPT ![Len(p.runs)] = r]
      /\ q.attempt = p.attempt /\ q.stage = p.stage
      /\ q.receipt = p.receipt /\ q.status = p.status
  <2>1. p \in Projection /\ CurrentRun(p) = Len(p.runs)
    BY InvCurrent
  <2> QED BY <2>1 DEF SetCurrent, Projection, Last
<1>2. r.status = "SUCCEEDED"
  BY InvCurrent DEF StageRun
<1>3. Open(p)
  BY ClosedIsVerified
<1> HIDE DEF r
<1>4. CurrentStatus(q) = "SUCCEEDED"
  BY <1>1, <1>2, ReplacedStatus
<1> QED BY <1>1, <1>3, <1>4 DEF Ends, InPlace, State, Executed, Open

\* An escalation stops the stage.
LEMMA EscalateView ==
    ASSUME NEW p, Inv(p), NEW q, Inv(q), Escalate(p, q)
    PROVE  Ends(p, q, "STOPPED")
<1> DEFINE r == [Last(p) EXCEPT !.status = "NEEDS_HUMAN", !.failure = "OTHER"]
<1>1. /\ q.runs = [p.runs EXCEPT ![Len(p.runs)] = r]
      /\ q.attempt = p.attempt /\ q.stage = p.stage
      /\ q.receipt = p.receipt /\ q.status = "NEEDS_HUMAN"
  <2>1. p \in Projection /\ CurrentRun(p) = Len(p.runs)
    BY InvCurrent
  <2> QED BY <2>1 DEF Escalate, Projection, Last
<1>2. r.status = "NEEDS_HUMAN"
  BY InvCurrent DEF StageRun
<1>3. Open(p) /\ Open(q)
  BY <1>1 DEF Escalate, MayEscalate, Open
<1> HIDE DEF r
<1>4. CurrentStatus(q) = "NEEDS_HUMAN"
  BY <1>1, <1>2, ReplacedStatus
<1> QED BY <1>1, <1>3, <1>4 DEF Ends, InPlace, State, Executed

\* A rollback outcome stops the stage, whichever run it belongs to.
LEMMA RollbackView ==
    ASSUME NEW p, Inv(p), NEW q, Inv(q), NEW i, NEW succeeded, RecordRollback(p, i, succeeded, q)
    PROVE  Ends(p, q, "STOPPED")
<1>1. /\ q.attempt = p.attempt /\ q.stage = p.stage
      /\ q.receipt = p.receipt /\ q.status = "NEEDS_HUMAN"
  BY InvCurrent DEF RecordRollback, Projection
<1>2. Open(p) /\ Open(q)
  BY <1>1 DEF RecordRollback, Open
<1>3. CurrentStatus(q) = "NEEDS_HUMAN"
  BY <1>1, InvCurrent, InvFields
<1> QED BY <1>1, <1>2, <1>3 DEF Ends, InPlace, State, Executed

\* Agents, evidence and the decisions on an action are not seen.
LEMMA FinishAgentView ==
    ASSUME NEW p, Inv(p), NEW q, Inv(q), NEW agent, NEW succeeded, FinishAgent(p, agent, succeeded, q)
    PROVE  Unseen(p, q)
<1> DEFINE r == [Last(p) EXCEPT !.roles = IF succeeded /\ p.stage = INVESTIGATE
                                         THEN @ \cup {agent.role} ELSE @]
<1>1. /\ q.runs = [p.runs EXCEPT ![Len(p.runs)] = r]
      /\ q.attempt = p.attempt /\ q.stage = p.stage
      /\ q.receipt = p.receipt /\ q.status = p.status
  <2>1. p \in Projection /\ CurrentRun(p) = Len(p.runs)
    BY InvCurrent
  <2> QED BY <2>1 DEF FinishAgent, Projection, Last
<1>2. r.status = Last(p).status
  BY InvCurrent DEF StageRun
<1> HIDE DEF r
<1>3. CurrentStatus(q) = CurrentStatus(p)
  BY <1>1, <1>2, ReplacedStatus, InvCurrent
<1> QED BY <1>1, <1>3 DEF Unseen, InPlace, State, Executed, Open

\* An evidence query is not seen.
LEMMA QueryView ==
    ASSUME NEW p, Inv(p), NEW q, Inv(q), RecordEvidenceQuery(p, q)
    PROVE  Unseen(p, q)
<1> DEFINE r == [Last(p) EXCEPT !.queried = TRUE]
<1>1. /\ q.runs = [p.runs EXCEPT ![Len(p.runs)] = r]
      /\ q.attempt = p.attempt /\ q.stage = p.stage
      /\ q.receipt = p.receipt /\ q.status = p.status
  <2>1. p \in Projection /\ CurrentRun(p) = Len(p.runs)
    BY InvCurrent
  <2> QED BY <2>1 DEF RecordEvidenceQuery, Projection, Last
<1>2. r.status = Last(p).status
  BY InvCurrent DEF StageRun
<1> HIDE DEF r
<1>3. CurrentStatus(q) = CurrentStatus(p)
  BY <1>1, <1>2, ReplacedStatus, InvCurrent
<1> QED BY <1>1, <1>3 DEF Unseen, InPlace, State, Executed, Open

\* An approval is not seen.
LEMMA ApproveView ==
    ASSUME NEW p, Inv(p), NEW q, Inv(q), ApproveAction(p, q)
    PROVE  Unseen(p, q)
<1> DEFINE r == WithApproval(Last(p), "APPROVED")
<1>1. /\ q.runs = [p.runs EXCEPT ![Len(p.runs)] = r]
      /\ q.attempt = p.attempt /\ q.stage = p.stage
      /\ q.receipt = p.receipt /\ q.status = p.status
  <2>1. p \in Projection /\ CurrentRun(p) = Len(p.runs)
    BY InvCurrent
  <2> QED BY <2>1 DEF ApproveAction, Projection, Last
<1>2. r.status = Last(p).status
  BY InvCurrent DEF StageRun, WithApproval
<1> HIDE DEF r
<1>3. CurrentStatus(q) = CurrentStatus(p)
  BY <1>1, <1>2, ReplacedStatus, InvCurrent
<1> QED BY <1>1, <1>3 DEF Unseen, InPlace, State, Executed, Open

\* The start of an execution is not seen.
LEMMA MarkView ==
    ASSUME NEW p, Inv(p), NEW q, Inv(q), MarkExecutionStarted(p, q)
    PROVE  Unseen(p, q)
<1> DEFINE r == WithExecution(Last(p), "RUNNING")
<1>1. /\ q.runs = [p.runs EXCEPT ![Len(p.runs)] = r]
      /\ q.attempt = p.attempt /\ q.stage = p.stage
      /\ q.receipt = p.receipt /\ q.status = p.status
  <2>1. p \in Projection /\ CurrentRun(p) = Len(p.runs)
    BY InvCurrent
  <2> QED BY <2>1 DEF MarkExecutionStarted, Projection, Last
<1>2. r.status = Last(p).status
  BY InvCurrent DEF StageRun, WithExecution
<1> HIDE DEF r
<1>3. CurrentStatus(q) = CurrentStatus(p)
  BY <1>1, <1>2, ReplacedStatus, InvCurrent
<1> QED BY <1>1, <1>3 DEF Unseen, InPlace, State, Executed, Open

\* An agent started is not seen.
LEMMA StartAgentView ==
    ASSUME NEW p, Inv(p), NEW q, Inv(q), NEW role, StartAgent(p, role, q)
    PROVE  Unseen(p, q)
<1>1. /\ q.runs = p.runs /\ q.attempt = p.attempt /\ q.stage = p.stage
      /\ q.receipt = p.receipt /\ q.status = p.status
  BY InvCurrent DEF StartAgent, Projection
<1>2. CurrentStatus(q) = CurrentStatus(p)
  <2>1. CurrentStatus(q) = Last(q).status /\ CurrentStatus(p) = Last(p).status
    BY InvCurrent
  <2> QED BY <1>1, <2>1 DEF Last
<1> QED BY <1>1, <1>2 DEF Unseen, InPlace, State, Executed, Open

\* A proposed action is not seen.
LEMMA AddActionView ==
    ASSUME NEW p, Inv(p), NEW q, Inv(q), AddAction(p, q)
    PROVE  Unseen(p, q)
<1>0. PICK action : q = [p EXCEPT !.runs[CurrentRun(p)].action = action]
  BY DEF AddAction
<1> DEFINE r == [Last(p) EXCEPT !.action = action]
<1>1. /\ q.runs = [p.runs EXCEPT ![Len(p.runs)] = r]
      /\ q.attempt = p.attempt /\ q.stage = p.stage
      /\ q.receipt = p.receipt /\ q.status = p.status
  <2>1. p \in Projection /\ CurrentRun(p) = Len(p.runs)
    BY InvCurrent
  <2> QED BY <1>0, <2>1 DEF Projection, Last
<1>2. r.status = Last(p).status
  BY InvCurrent DEF StageRun
<1> HIDE DEF r
<1>3. CurrentStatus(q) = CurrentStatus(p)
  <2>1. CurrentStatus(q) = r.status
    BY <1>1, ReplacedStatus
  <2>2. CurrentStatus(p) = Last(p).status
    BY InvCurrent
  <2> QED BY <1>2, <2>1, <2>2
<1> QED BY <1>1, <1>3 DEF Unseen, InPlace, State, Executed, Open

\* Telemetry can only complete a running DETECT.
LEMMA SyncView ==
    ASSUME NEW p, Inv(p), NEW q, Inv(q), NEW premise, NEW live, NEW qualified,
           SyncRealtime(p, premise, live, qualified, q)
    PROVE  \/ Unseen(p, q)
           \/ p.stage = DETECT /\ State(p) = "RUNNING" /\ Ends(p, q, "SUCCEEDED")
<1> DEFINE status == IF qualified /\ p.stage = DETECT /\ Last(p).status = "RUNNING"
                     THEN "SUCCEEDED" ELSE Last(p).status
           r == [Last(p) EXCEPT !.status = status]
<1>1. /\ q.runs = [p.runs EXCEPT ![Len(p.runs)] = r]
      /\ q.attempt = p.attempt /\ q.stage = p.stage
      /\ q.receipt = p.receipt /\ q.status = p.status
  <2>1. p \in Projection /\ CurrentRun(p) = Len(p.runs)
    BY InvCurrent
  <2> QED BY <2>1 DEF SyncRealtime, Projection, Last
<1>2. r.status = status
  BY InvCurrent DEF StageRun
<1> HIDE DEF r
<1>3. CurrentStatus(q) = status /\ CurrentStatus(p) = Last(p).status
  BY <1>1, <1>2, ReplacedStatus, InvCurrent
<1>4. Open(p)
  BY DEF SyncRealtime
<1> QED BY <1>1, <1>3, <1>4 DEF Unseen, Ends, InPlace, State, Executed, Open

\* A FAILED receipt is not seen; any other crosses the boundary.
LEMMA RecordExecutionView ==
    ASSUME NEW p, Inv(p), NEW q, Inv(q), NEW result, RecordExecution(p, result, q)
    PROVE  \/ Unseen(p, q)
           \/ /\ Open(p) /\ Open(q) /\ p.stage = RESPOND
              /\ State(p) # "SUCCEEDED" /\ ~Executed(p) /\ Executed(q)
              /\ q.attempt = p.attempt /\ q.stage = p.stage /\ State(q) = State(p)
<1> DEFINE r == WithExecution(Last(p), result)
<1>1. /\ q.runs = [p.runs EXCEPT ![Len(p.runs)] = r]
      /\ q.attempt = p.attempt /\ q.stage = p.stage /\ q.status = p.status
      /\ q.receipt = IF BoundaryCrossed(result) THEN Len(p.runs) ELSE 0
  <2>1. p \in Projection /\ CurrentRun(p) = Len(p.runs)
    BY InvCurrent
  <2> QED BY <2>1 DEF RecordExecution, Projection, Last
<1>2. r.status = Last(p).status
  BY InvCurrent DEF WithExecution, StageRun
<1> HIDE DEF r
<1>3. State(q) = State(p)
  BY <1>1, <1>2, ReplacedStatus, InvCurrent DEF State
<1>4. p.stage = RESPOND /\ Last(p).action.execution = "RUNNING" /\ Len(p.runs) # 0
  BY InvCurrent DEF RecordExecution
<1>5. ~Executed(p) /\ State(p) # "SUCCEEDED"
  <2>1. ~Crossed(Last(p)) /\ ~HasReceipt(Last(p).action)
    BY <1>4 DEF Crossed, HasReceipt
  <2> QED BY <1>4, <2>1, InvCurrent DEF Inv, Bounded, Last, Executed, State
<1>6. Open(p) /\ Open(q)
  BY <1>1, <1>4, ClosedIsVerified DEF Open, RESPOND, VERIFY
<1> QED BY <1>1, <1>3, <1>4, <1>5, <1>6 DEF Unseen, InPlace, Executed, Open

\* The relations that start a run.

\* A run that has just started is the current one.
LEMMA StartedView ==
    ASSUME NEW p, NEW q, Inv(q), NEW old \in Seq(StageRun), NEW attempt, NEW stage, NEW status,
           NEW receipt, NEW decision, NEW lifecycle, p \in Projection,
           attempt \in Nat \ {0}, stage \in Stages,
           q = Started(p, old, attempt, stage, status, receipt, decision, lifecycle)
    PROVE  /\ q.attempt = attempt /\ q.stage = stage /\ q.status = status
           /\ q.receipt = receipt /\ CurrentStatus(q) = "RUNNING"
<1> DEFINE new == NewRun(attempt, stage)
<1>1. /\ q.attempt = attempt /\ q.stage = stage /\ q.status = status
      /\ q.receipt = receipt /\ q.runs = Append(old, new)
  BY DEF Started, Projection
<1>2. new \in StageRun /\ new.status = "RUNNING"
  BY NewRunType
<1> HIDE DEF new
<1>3. Last(q) = new
  BY <1>1, <1>2 DEF Last
<1> QED BY <1>1, <1>2, <1>3, InvCurrent

\* NEXT moves to the following stage.
LEMMA AdvanceView ==
    ASSUME NEW p, Inv(p), NEW q, Inv(q), AdvanceStage(p, q)
    PROVE  /\ Open(p) /\ Open(q) /\ State(p) = "SUCCEEDED" /\ p.stage < VERIFY
           /\ q.attempt = p.attempt /\ q.stage = p.stage + 1 /\ State(q) = "RUNNING"
           /\ Executed(q) <=> Executed(p)
<1>1. /\ p \in Projection /\ p.runs \in Seq(StageRun) /\ p.agents = {}
      /\ p.attempt \in Nat \ {0} /\ p.stage \in Stages /\ p.stage # VERIFY
      /\ Open(p) /\ CurrentStatus(p) = "SUCCEEDED"
  BY InvCurrent, IdleHasNoAgents DEF AdvanceStage, MayNext, Idle, Projection
<1>2. p.stage + 1 \in Stages /\ p.stage < VERIFY
  BY <1>1 DEF Stages, DETECT, VERIFY
<1>3. q = Started(p, p.runs, p.attempt, p.stage + 1, p.status, p.receipt, p.decision,
                  LifecycleAt(p.stage + 1))
  BY <1>1 DEF AdvanceStage, Started, Projection
<1>4. /\ q.attempt = p.attempt /\ q.stage = p.stage + 1 /\ q.status = p.status
      /\ q.receipt = p.receipt /\ CurrentStatus(q) = "RUNNING"
  BY <1>1, <1>2, <1>3, StartedView
<1> QED BY <1>1, <1>2, <1>4 DEF State, Executed, Open

\* A rerun before the boundary goes back in the same attempt.
LEMMA RerunView ==
    ASSUME NEW p, Inv(p), NEW q, Inv(q), NEW target \in Stages, RerunStage(p, target, q)
    PROVE  /\ Open(p) /\ Open(q) /\ ~Executed(p) /\ ~Executed(q)
           /\ q.attempt = p.attempt /\ q.stage \in 1..p.stage /\ q.stage # VERIFY
           /\ State(q) = "RUNNING"
<1>1. /\ q.attempt = p.attempt /\ q.stage = target /\ q.status = "ACTIVE" /\ q.receipt = 0
      /\ Last(q) = NewRun(p.attempt, target)
  <2> DEFINE old == [i \in DOMAIN p.runs |-> IF i \in Affected(p, target)
                                             THEN Supersede(p.runs[i]) ELSE p.runs[i]]
             new == NewRun(p.attempt, target)
  <2>1. p \in Projection /\ p.runs \in Seq(StageRun)
    BY InvCurrent
  <2>2. /\ q.attempt = p.attempt /\ q.stage = target /\ q.status = "ACTIVE" /\ q.receipt = 0
        /\ q.runs = Append(old, new)
    BY <2>1 DEF RerunStage, Projection
  <2>3. old \in Seq(StageRun)
    <3>1. ASSUME NEW i \in DOMAIN p.runs PROVE p.runs[i] \in StageRun
      BY <2>1
    <3>2. ASSUME NEW i \in DOMAIN p.runs PROVE old[i] \in StageRun
      BY <3>1, SupersedeRun
    <3>3. DOMAIN p.runs = 1..Len(p.runs) /\ Len(p.runs) \in Nat
      BY <2>1
    <3>4. old \in [1..Len(p.runs) -> StageRun]
      BY <3>2, <3>3
    <3> QED BY <3>3, <3>4, SeqDef
  <2>4. new \in StageRun
    BY <2>1, NewRunType DEF Projection
  <2> HIDE DEF old, new
  <2>5. Last(q) = new
    BY <2>2, <2>3, <2>4 DEF Last
  <2> QED BY <2>2, <2>5 DEF new
<1>2. CurrentStatus(q) = "RUNNING"
  BY <1>1, InvCurrent DEF NewRun
<1>3. Open(p) /\ ~Executed(p) /\ target <= p.stage /\ target # VERIFY
  BY DEF RerunStage, MayRerun, MayRetry, Idle
<1>4. target \in 1..p.stage
  <2>1. target \in Nat /\ target >= 1 /\ p.stage \in Nat
    BY InvCurrent DEF Projection, Stages, DETECT, VERIFY
  <2> QED BY <1>3, <2>1
<1> QED BY <1>1, <1>2, <1>3, <1>4 DEF State, Executed, Open

\* A rerun after the boundary branches off.
LEMMA BranchView ==
    ASSUME NEW p, Inv(p), NEW q, Inv(q), NEW target \in Stages, BranchAttempt(p, target, q)
    PROVE  /\ Open(p) /\ Open(q) /\ Executed(p) /\ ~Executed(q)
           /\ q.attempt = p.attempt + 1 /\ q.stage \in {INVESTIGATE, DECIDE}
           /\ State(q) = "RUNNING"
<1> DEFINE old == [p.runs EXCEPT ![Len(p.runs)] = Supersede(p.runs[Len(p.runs)])]
           new == NewRun(p.attempt + 1, target)
<1>1. /\ p \in Projection /\ p.runs \in Seq(StageRun) /\ CurrentRun(p) = Len(p.runs)
      /\ Len(p.runs) \in DOMAIN p.runs /\ p.runs[Len(p.runs)] \in StageRun
      /\ p.attempt \in Nat \ {0}
  BY InvCurrent DEF Projection, Last
<1>2. /\ q.attempt = p.attempt + 1 /\ q.stage = target /\ q.status = "ACTIVE"
      /\ q.receipt = 0 /\ q.runs = Append(old, new)
  BY <1>1 DEF BranchAttempt, Projection
<1>3. old \in Seq(StageRun)
  <2>1. Supersede(p.runs[Len(p.runs)]) \in StageRun
    BY <1>1, SupersedeRun
  <2> QED BY <1>1, <2>1, ReplaceRun
<1>4. new \in StageRun /\ new.status = "RUNNING"
  BY <1>1, NewRunType
<1> HIDE DEF old, new
<1>5. Last(q) = new
  BY <1>2, <1>3, <1>4 DEF Last
<1>6. CurrentStatus(q) = "RUNNING"
  BY <1>4, <1>5, InvCurrent
<1>7. Open(p) /\ Executed(p) /\ target \in {INVESTIGATE, DECIDE}
  BY DEF BranchAttempt, MayRerun, Idle, CandidateRerunStages, MayBranchTo
<1> QED BY <1>2, <1>6, <1>7 DEF State, Executed, Open

\* COMPLETE_INCIDENT closes a verified, executed attempt.
LEMMA CompleteView ==
    ASSUME NEW p, Inv(p), NEW q, Inv(q), CompleteIncident(p, q)
    PROVE  /\ Open(p) /\ ~Open(q) /\ p.stage = VERIFY /\ State(p) = "SUCCEEDED"
           /\ Executed(p) /\ Executed(q) /\ State(q) = State(p)
           /\ q.attempt = p.attempt /\ q.stage = p.stage
<1>1. /\ q.runs = p.runs /\ q.attempt = p.attempt /\ q.stage = p.stage
      /\ q.receipt = p.receipt /\ q.status = "COMPLETED"
  BY InvCurrent DEF CompleteIncident, Projection
<1>2. Open(p) /\ p.stage = VERIFY /\ CurrentStatus(p) = "SUCCEEDED"
  BY DEF CompleteIncident, MayComplete, Idle
<1>3. CurrentStatus(q) = CurrentStatus(p)
  <2>1. CurrentStatus(q) = Last(q).status /\ CurrentStatus(p) = Last(p).status
    BY InvCurrent
  <2> QED BY <1>1, <2>1 DEF Last
<1>4. Executed(p)
  BY <1>2 DEF Inv, Bounded, Executed
<1> QED BY <1>1, <1>2, <1>3, <1>4 DEF State, Executed, Open
-----------------------------------------------------------------------------
(* Steps of the workflow as steps of the contract.                         *)

\* The initial states are starts of the contract.
LEMMA StartsContract ==
    ASSUME Init
    PROVE  Contract!Start
<1> PICK premise \in Premises, qualified \in BOOLEAN : projection = Bootstrap(premise, qualified)
  BY DEF Init
<1>1. Inv(projection)
  BY BootstrapInv
<1>2. /\ projection.attempt = 1 /\ projection.stage = DETECT /\ projection.receipt = 0
      /\ projection.status = "ACTIVE"
      /\ Last(projection).status \in {"RUNNING", "SUCCEEDED"}
  BY DEF Bootstrap, Last, NewRun
<1>3. CurrentStatus(projection) = Last(projection).status
  BY <1>1, InvCurrent
<1> QED BY <1>2, <1>3 DEF Contract!Start, Executed, Open, DETECT

\* A step the contract does not see is a stutter of it.
LEMMA UnseenStutters ==
    ASSUME Unseen(projection, projection')
    PROVE  UNCHANGED Contract!contractVars
BY DEF Unseen, InPlace, State, Executed, Open, Contract!contractVars

\* Stopping a stage is a move of the contract.
LEMMA StopsContract ==
    ASSUME Ends(projection, projection', "STOPPED")
    PROVE  Contract!Move
BY DEF Ends, InPlace, State, Executed, Open, Contract!Move, Contract!Stop

\* So is finishing one, behind the boundary where it must be.
LEMMA FinishesContract ==
    ASSUME Ends(projection, projection', "SUCCEEDED"), State(projection) = "RUNNING",
           projection.stage >= 5 => Executed(projection)
    PROVE  Contract!Move
BY DEF Ends, InPlace, State, Executed, Open, Contract!Move, Contract!Finish

\* Every step of the workflow, with the invariant before and after it.
LEMMA MovesContract ==
    ASSUME IInv, IInv', [Next]_vars
    PROVE  [Contract!Move]_(Contract!contractVars)
<1> DEFINE p == projection
           q == projection'
           Allowed == Contract!Move \/ UNCHANGED Contract!contractVars
<1>1. Inv(p) /\ Inv(q)
  BY DEF IInv
<1>2. CASE UNCHANGED vars
  BY <1>2 DEF vars, Contract!contractVars, CurrentStatus, Current, CurrentRun, CurrentRuns,
              LiveRuns, AttemptRuns, Executed, Open
<1>3. CASE Sync
  <2>1. PICK premise \in Premises, live \in BOOLEAN, qualified \in BOOLEAN :
            SyncRealtime(p, premise, live, qualified, q)
    BY <1>3 DEF Sync
  <2>2. \/ Unseen(p, q)
        \/ p.stage = DETECT /\ State(p) = "RUNNING" /\ Ends(p, q, "SUCCEEDED")
    BY <1>1, <2>1, SyncView
  <2> QED BY <2>2, UnseenStutters, FinishesContract DEF DETECT
<1>4. CASE Advance
  <2>1. AdvanceStage(p, q)
    BY <1>4 DEF Advance
  <2>2. /\ Open(p) /\ Open(q) /\ State(p) = "SUCCEEDED" /\ p.stage < VERIFY
        /\ q.attempt = p.attempt /\ q.stage = p.stage + 1 /\ State(q) = "RUNNING"
        /\ Executed(q) <=> Executed(p)
    BY <1>1, <2>1, AdvanceView
  <2> QED BY <2>2 DEF Contract!Move, Contract!NextStage, State, Executed, Open, VERIFY
<1>5. CASE Invalidate \/ OperatorEscalate \/ Reject
  <2>1. InvalidateDecision(p, q) \/ Escalate(p, q) \/ RejectAction(p, q)
    BY <1>5 DEF Invalidate, OperatorEscalate, Reject
  <2>2. Ends(p, q, "STOPPED")
    BY <1>1, <2>1, InvalidateView, EscalateView, RejectView
  <2> QED BY <2>2, StopsContract
<1>6. CASE AnalysisFailed \/ RespondFailed \/ VerifyFailed
  <2>1. FailCurrent(p, q)
    BY <1>6 DEF AnalysisFailed, RespondFailed, VerifyFailed, FailAnalysis, FailRespond, FailVerify
  <2> QED BY <1>1, <2>1, FailView, StopsContract
<1>7. CASE RollbackRecorded
  <2>1. PICK r \in rollbacks, succeeded \in BOOLEAN : RecordRollback(p, r, succeeded, q)
    BY <1>7 DEF RollbackRecorded
  <2> QED BY <1>1, <2>1, RollbackView, StopsContract
<1>8. CASE RollbackLost
  <2>1. q = p
    BY <1>8 DEF RollbackLost
  <2> QED BY <2>1, UnseenStutters DEF Unseen, InPlace
<1>9. CASE Complete
  <2>1. CompleteIncident(p, q)
    BY <1>9 DEF Complete
  <2>2. /\ Open(p) /\ ~Open(q) /\ p.stage = VERIFY /\ State(p) = "SUCCEEDED"
        /\ Executed(p) /\ Executed(q) /\ State(q) = State(p)
        /\ q.attempt = p.attempt /\ q.stage = p.stage
    BY <1>1, <2>1, CompleteView
  <2> QED BY <2>2 DEF Contract!Move, Contract!Close, State, Executed, Open, VERIFY
<1>10. CASE Rerun
  <2>1. PICK target \in Stages : RerunStage(p, target, q)
    BY <1>10 DEF Rerun
  <2>2. /\ Open(p) /\ Open(q) /\ ~Executed(p) /\ ~Executed(q)
        /\ q.attempt = p.attempt /\ q.stage \in 1..p.stage /\ q.stage # VERIFY
        /\ State(q) = "RUNNING"
    BY <1>1, <2>1, RerunView
  <2> QED BY <2>2 DEF Contract!Move, Contract!GoBack, State, Executed, Open, VERIFY
<1>11. CASE Branch
  <2>1. PICK target \in Stages : BranchAttempt(p, target, q)
    BY <1>11 DEF Branch
  <2>2. /\ Open(p) /\ Open(q) /\ Executed(p) /\ ~Executed(q)
        /\ q.attempt = p.attempt + 1 /\ q.stage \in {INVESTIGATE, DECIDE}
        /\ State(q) = "RUNNING"
    BY <1>1, <2>1, BranchView
  <2> QED BY <2>2 DEF Contract!Move, Contract!BranchOff, State, Executed, Open, INVESTIGATE, DECIDE
<1>12. CASE Approve \/ Query \/ Propose \/ ExecutionStarted
  <2>1. \/ ApproveAction(p, q) \/ RecordEvidenceQuery(p, q)
        \/ AddAction(p, q) \/ MarkExecutionStarted(p, q)
    BY <1>12 DEF Approve, Query, Propose, ExecutionStarted
  <2> QED BY <1>1, <2>1, ApproveView, QueryView, AddActionView, MarkView, UnseenStutters
<1>13. CASE RunAgent
  <2>1. PICK role \in Roles : StartAgent(p, role, q)
    BY <1>13 DEF RunAgent
  <2> QED BY <1>1, <2>1, StartAgentView, UnseenStutters
<1>14. CASE AgentAnswers
  <2>1. PICK agent \in p.agents, succeeded \in BOOLEAN : FinishAgent(p, agent, succeeded, q)
    BY <1>14 DEF AgentAnswers
  <2> QED BY <1>1, <2>1, FinishAgentView, UnseenStutters
<1>15. CASE TriageDone \/ InvestigateDone \/ RespondDone \/ VerifyDone
  <2>1. SucceedTriage(p, q) \/ SucceedInvestigate(p, q) \/ SucceedRespond(p, q) \/ SucceedVerify(p, q)
    BY <1>15 DEF TriageDone, InvestigateDone, RespondDone, VerifyDone
  <2>2. /\ CurrentStatus(p) = "RUNNING" /\ q = SetCurrent(p, "SUCCEEDED")
        /\ p.stage >= 5 => Executed(p)
    BY <2>1 DEF SucceedTriage, SucceedInvestigate, SucceedRespond, SucceedVerify,
                TRIAGE, INVESTIGATE
  <2>3. Ends(p, q, "SUCCEEDED")
    BY <1>1, <2>2, SucceedView
  <2> QED BY <2>2, <2>3, FinishesContract DEF State
<1>16. CASE DecideDone
  <2>1. PICK premise \in Premises : SucceedDecide(p, premise, q)
    BY <1>16 DEF DecideDone
  <2>2. Ends(p, q, "SUCCEEDED") /\ State(p) = "RUNNING" /\ p.stage = DECIDE
    BY <1>1, <2>1, DecideView DEF SucceedDecide, State
  <2> QED BY <2>2, FinishesContract DEF DECIDE
<1>17. CASE ExecutionRecorded
  <2>1. PICK result \in {"SUCCEEDED", "FAILED", "NEEDS_HUMAN"} : RecordExecution(p, result, q)
    BY <1>17 DEF ExecutionRecorded
  <2>2. \/ Unseen(p, q)
        \/ /\ Open(p) /\ Open(q) /\ p.stage = RESPOND
           /\ State(p) # "SUCCEEDED" /\ ~Executed(p) /\ Executed(q)
           /\ q.attempt = p.attempt /\ q.stage = p.stage /\ State(q) = State(p)
    BY <1>1, <2>1, RecordExecutionView
  <2> QED
    BY <2>2, UnseenStutters DEF Contract!Move, Contract!Cross, State, Executed, Open, RESPOND
<1> QED BY <1>2, <1>3, <1>4, <1>5, <1>6, <1>7, <1>8, <1>9, <1>10, <1>11, <1>12, <1>13, <1>14,
           <1>15, <1>16, <1>17 DEF Next

(***************************************************************************)
(* The guided workflow implements its contract: the initial states are     *)
(* starts of it and every step is one of its moves or a stutter.           *)
(***************************************************************************)
THEOREM ContractKept == Spec => KeepsContract
<1> QED BY StartsContract, MovesContract, InductiveInvariant, PTL DEF Spec, KeepsContract, Contract!Spec

-----------------------------------------------------------------------------
(* What the runs of a projection p record of the past: which stages were   *)
(* passed, on which decision and evidence an execution rests, and when an  *)
(* incident may be closed.                                                 *)

Done(run, stage) == run.stage = stage /\ run.status = "SUCCEEDED"

\* The live runs of the attempt are one per stage from its first one on, and
\* all but the last have succeeded.
Ordered(p) ==
    /\ \E f \in AttemptRuns(p) :
          /\ \A j \in AttemptRuns(p) : f <= j /\ p.runs[f].stage <= p.runs[j].stage
          /\ \A s \in p.runs[f].stage..(p.stage - 1) :
                \E i \in LiveRuns(p) : p.runs[i].stage = s
    /\ \A i, j \in LiveRuns(p) : p.runs[i].stage = p.runs[j].stage => i = j
    /\ \A i \in LiveRuns(p) : i # Len(p.runs) => p.runs[i].status = "SUCCEEDED"

Evidenced(run) == run.roles = AgentRoles(INVESTIGATE) /\ run.queried

\* A succeeded investigation has its evidence, and a live decision follows one.
Grounded(p) ==
    /\ \A i \in AttemptRuns(p) : Done(p.runs[i], INVESTIGATE) => Evidenced(p.runs[i])
    /\ \A d \in AttemptRuns(p) : Done(p.runs[d], DECIDE) =>
          \E i \in AttemptRuns(p) : i < d /\ Done(p.runs[i], INVESTIGATE)

\* From RESPOND on, the decision in force is that of a live DECIDE run, and
\* the current run's action carries it.
InForce(p) ==
    p.stage >= RESPOND =>
        /\ \E d \in AttemptRuns(p) : Done(p.runs[d], DECIDE) /\ p.runs[d].decision = p.decision
        /\ Last(p).action = NoAction \/ Last(p).action.decision = p.decision

\* Run i stands at the end of a chain of evidence and decision.
Rests(runs, i) ==
    \E d, n \in DOMAIN runs :
        /\ n < d /\ d < i
        /\ runs[n].attempt = runs[i].attempt
        /\ Done(runs[n], INVESTIGATE) /\ Evidenced(runs[n])
        /\ runs[d].attempt = runs[i].attempt
        /\ Done(runs[d], DECIDE)
        /\ runs[d].decision = runs[i].action.decision

\* What was executed had been approved; what crossed the boundary rests on a
\* chain, and is never given up while it is the attempt's.
Authorized(p) ==
    /\ \A i \in DOMAIN p.runs :
          p.runs[i].action.execution # "NOT_STARTED" => p.runs[i].action.approval = "APPROVED"
    /\ \A i \in DOMAIN p.runs : Crossed(p.runs[i]) => Rests(p.runs, i)

Going == {"RUNNING", "SUCCEEDED"}

\* VERIFY runs, or has succeeded, over a receipt that stands, and an incident
\* is resolved by completing it.
Standing(p) ==
    /\ p.receipt # 0 => p.runs[p.receipt].attempt = p.attempt
    /\ Done(Last(p), RESPOND) => Last(p).action.execution = "SUCCEEDED"
    /\ p.stage = VERIFY /\ Last(p).status \in Going =>
          p.runs[p.receipt].action.execution = "SUCCEEDED"
    /\ p.lifecycle = "RESOLVED" => p.status = "COMPLETED"

\* An action of the attempt is rolled back only after its VERIFY run failed.
UndoneLate(p, undoing) ==
    \A i \in undoing : p.runs[i].attempt = p.attempt =>
        p.stage = VERIFY /\ Last(p).status \notin Going

Past(p) == Ordered(p) /\ Grounded(p) /\ InForce(p) /\ Authorized(p) /\ Standing(p)

-----------------------------------------------------------------------------
(* Runs and their types.                                                   *)

\* The runs of a well-formed projection, with their types.
LEMMA InvRuns ==
    ASSUME NEW p, Inv(p)
    PROVE  /\ Len(p.runs) \in Nat \ {0} /\ DOMAIN p.runs = 1..Len(p.runs)
           /\ p.stage \in 1..6 /\ p.attempt \in Nat \ {0}
           /\ \A i \in DOMAIN p.runs :
                 /\ p.runs[i] \in StageRun
                 /\ p.runs[i].attempt \in Nat \ {0} /\ p.runs[i].stage \in 1..6
                 /\ p.runs[i].action \in Action
<1>1. p.runs \in Seq(StageRun) /\ Len(p.runs) \in Nat \ {0} /\ p \in Projection
  BY InvCurrent
<1>2. DOMAIN p.runs = 1..Len(p.runs)
  BY <1>1
<1>3. p.stage \in 1..6 /\ p.attempt \in Nat \ {0}
  BY <1>1 DEF Projection, Stages, DETECT, VERIFY
<1>4. \A i \in DOMAIN p.runs : p.runs[i] \in StageRun
  BY <1>1
<1> QED BY <1>1, <1>2, <1>3, <1>4 DEF StageRun, Stages, DETECT, VERIFY

\* Every live run but the last is of an earlier stage.
LEMMA LiveBefore ==
    ASSUME NEW p, Inv(p), NEW i \in LiveRuns(p), i # Len(p.runs)
    PROVE  p.runs[i].stage < p.stage
<1>1. i \in DOMAIN p.runs /\ p.runs[i].attempt = p.attempt /\ p.runs[i].status # "SUPERSEDED"
  BY DEF LiveRuns, AttemptRuns
<1> QED BY <1>1 DEF Inv, WellPlaced

\* The last run is live.
LEMMA LastIsLive ==
    ASSUME NEW p, Inv(p)
    PROVE  Len(p.runs) \in LiveRuns(p)
BY InvCurrent DEF LiveRuns, AttemptRuns, Last

-----------------------------------------------------------------------------
(* Steps that stay at the current run.                                     *)

\* A rollback's outcome may be all that is added to a run of the past.
Revised(old, new) ==
    \/ new = old
    \/ /\ old.action.execution = "SUCCEEDED"
       /\ \E outcome \in {"ROLLED_BACK", "NEEDS_HUMAN"} : new = WithExecution(old, outcome)

\* What becomes of the current run is accounted for: a success by what it
\* rests on, and an action by the decision and the approval it carries.
Accounted(p, q, r) ==
    /\ r.status \in Going => Last(p).status \in Going
    /\ Done(r, INVESTIGATE) => Evidenced(r)
    /\ Done(r, DECIDE) => \/ Done(Last(p), DECIDE)
                          \/ \E i \in AttemptRuns(p) : Done(p.runs[i], INVESTIGATE)
    /\ Done(r, RESPOND) => r.action.execution = "SUCCEEDED"
    /\ p.stage >= RESPOND => r.action = NoAction \/ r.action.decision = p.decision
    /\ r.action.execution # "NOT_STARTED" => r.action.approval = "APPROVED"
    /\ p.stage = VERIFY /\ r.status \in Going => r.action = Last(p).action
    /\ p.stage >= RESPOND => q.decision = p.decision
    /\ q.receipt = p.receipt \/ (p.stage = RESPOND /\ q.receipt = Len(p.runs))
    /\ q.lifecycle = "RESOLVED" => q.status = "COMPLETED"

\* Only the current run changes, but for a rollback that stops it.
Touched(p, q) ==
    /\ q.attempt = p.attempt /\ q.stage = p.stage /\ Len(q.runs) = Len(p.runs)
    /\ \A i \in DOMAIN p.runs : i # Len(p.runs) =>
          /\ Revised(p.runs[i], q.runs[i])
          /\ Last(q).status \in Going => q.runs[i] = p.runs[i]
    /\ Accounted(p, q, Last(q))

\* A revised run keeps everything but the outcome of its execution.
LEMMA RevisedKeeps ==
    ASSUME NEW old \in StageRun, NEW new, Revised(old, new)
    PROVE  /\ new.attempt = old.attempt /\ new.stage = old.stage /\ new.status = old.status
           /\ new.roles = old.roles /\ new.queried = old.queried /\ new.decision = old.decision
           /\ new.action.decision = old.action.decision
           /\ new.action.approval = old.action.approval
           /\ Crossed(new) <=> Crossed(old)
           /\ new.action.execution = "NOT_STARTED" <=> old.action.execution = "NOT_STARTED"
<1>1. CASE new = old
  BY <1>1
<1>2. ASSUME NEW outcome \in {"ROLLED_BACK", "NEEDS_HUMAN"},
             old.action.execution = "SUCCEEDED", new = WithExecution(old, outcome)
      PROVE  /\ new.attempt = old.attempt /\ new.stage = old.stage /\ new.status = old.status
             /\ new.roles = old.roles /\ new.queried = old.queried /\ new.decision = old.decision
             /\ new.action.decision = old.action.decision
             /\ new.action.approval = old.action.approval
             /\ new.action.execution = outcome
  BY <1>2 DEF WithExecution, StageRun, Action
<1> QED BY <1>1, <1>2 DEF Revised, Crossed

\* The attempt's runs and its live ones stay the same.
LEMMA TouchedRuns ==
    ASSUME NEW p, Inv(p), NEW q, Inv(q), Touched(p, q)
    PROVE  /\ DOMAIN q.runs = DOMAIN p.runs
           /\ AttemptRuns(q) = AttemptRuns(p) /\ LiveRuns(q) = LiveRuns(p)
           /\ \A i \in DOMAIN p.runs : q.runs[i].attempt = p.runs[i].attempt
           /\ \A i \in DOMAIN p.runs : q.runs[i].stage = p.runs[i].stage
           /\ \A i \in DOMAIN p.runs : i # Len(p.runs) =>
                 /\ q.runs[i].status = p.runs[i].status
                 /\ q.runs[i].roles = p.runs[i].roles /\ q.runs[i].queried = p.runs[i].queried
                 /\ q.runs[i].decision = p.runs[i].decision
                 /\ q.runs[i].action.decision = p.runs[i].action.decision
                 /\ q.runs[i].action.approval = p.runs[i].action.approval
                 /\ Crossed(q.runs[i]) <=> Crossed(p.runs[i])
                 /\ q.runs[i].action.execution = "NOT_STARTED"
                    <=> p.runs[i].action.execution = "NOT_STARTED"
<1>1. DOMAIN q.runs = DOMAIN p.runs /\ Len(p.runs) \in DOMAIN p.runs
  BY InvRuns, InvCurrent DEF Touched, Accounted
<1>2. ASSUME NEW i \in DOMAIN p.runs, i # Len(p.runs)
      PROVE  /\ q.runs[i].attempt = p.runs[i].attempt /\ q.runs[i].stage = p.runs[i].stage
             /\ q.runs[i].status = p.runs[i].status
             /\ q.runs[i].roles = p.runs[i].roles /\ q.runs[i].queried = p.runs[i].queried
             /\ q.runs[i].decision = p.runs[i].decision
             /\ q.runs[i].action.decision = p.runs[i].action.decision
             /\ q.runs[i].action.approval = p.runs[i].action.approval
             /\ Crossed(q.runs[i]) <=> Crossed(p.runs[i])
             /\ q.runs[i].action.execution = "NOT_STARTED"
                <=> p.runs[i].action.execution = "NOT_STARTED"
  <2>1. p.runs[i] \in StageRun
    BY InvRuns
  <2>2. Revised(p.runs[i], q.runs[i])
    BY <1>2 DEF Touched, Accounted
  <2> QED BY <2>1, <2>2, RevisedKeeps
<1>3. /\ q.runs[Len(p.runs)].attempt = p.runs[Len(p.runs)].attempt
      /\ q.runs[Len(p.runs)].stage = p.runs[Len(p.runs)].stage
      /\ q.runs[Len(p.runs)].status # "SUPERSEDED"
      /\ p.runs[Len(p.runs)].status # "SUPERSEDED"
  BY InvCurrent DEF Touched, Accounted, Last
<1>4. AttemptRuns(q) = AttemptRuns(p)
  BY <1>1, <1>2, <1>3 DEF AttemptRuns, Touched
<1>5. LiveRuns(q) = LiveRuns(p)
  BY <1>1, <1>2, <1>3, <1>4 DEF LiveRuns, AttemptRuns
<1>6. /\ \A i \in DOMAIN p.runs : q.runs[i].attempt = p.runs[i].attempt
      /\ \A i \in DOMAIN p.runs : q.runs[i].stage = p.runs[i].stage
  BY <1>2, <1>3
<1> QED BY <1>1, <1>2, <1>4, <1>5, <1>6

\* The stages stay passed.
LEMMA TouchedOrdered ==
    ASSUME NEW p, Inv(p), NEW q, Inv(q), Touched(p, q), Ordered(p)
    PROVE  Ordered(q)
<1>1. /\ AttemptRuns(q) = AttemptRuns(p) /\ LiveRuns(q) = LiveRuns(p)
      /\ \A i \in DOMAIN p.runs : q.runs[i].stage = p.runs[i].stage
      /\ \A i \in DOMAIN p.runs : i # Len(p.runs) => q.runs[i].status = p.runs[i].status
  BY TouchedRuns
<1>2. Len(q.runs) = Len(p.runs) /\ q.stage = p.stage
  BY DEF Touched, Accounted
<1>3. LiveRuns(p) \subseteq DOMAIN p.runs /\ AttemptRuns(p) \subseteq DOMAIN p.runs
  BY DEF LiveRuns, AttemptRuns
<1>4. \A i \in LiveRuns(q) : i # Len(q.runs) => q.runs[i].status = "SUCCEEDED"
  BY <1>1, <1>2, <1>3 DEF Ordered
<1>5. \A i, j \in LiveRuns(q) : q.runs[i].stage = q.runs[j].stage => i = j
  BY <1>1, <1>3 DEF Ordered
<1>6. PICK f \in AttemptRuns(p) :
          /\ \A j \in AttemptRuns(p) : f <= j /\ p.runs[f].stage <= p.runs[j].stage
          /\ \A s \in p.runs[f].stage..(p.stage - 1) :
                \E i \in LiveRuns(p) : p.runs[i].stage = s
  BY DEF Ordered
<1>7. \A j \in AttemptRuns(q) : f <= j /\ q.runs[f].stage <= q.runs[j].stage
  BY <1>1, <1>3, <1>6
<1>8. \A s \in q.runs[f].stage..(q.stage - 1) : \E i \in LiveRuns(q) : q.runs[i].stage = s
  BY <1>1, <1>2, <1>3, <1>6
<1> QED BY <1>1, <1>4, <1>5, <1>6, <1>7, <1>8 DEF Ordered

\* A run of the past succeeded exactly if it has before.
LEMMA TouchedDone ==
    ASSUME NEW p, Inv(p), NEW q, Inv(q), Touched(p, q),
           NEW i \in DOMAIN p.runs, i # Len(p.runs), NEW stage
    PROVE  Done(q.runs[i], stage) <=> Done(p.runs[i], stage)
BY TouchedRuns DEF Done

\* Evidence and decisions stay what they rest on.
LEMMA TouchedGrounded ==
    ASSUME NEW p, Inv(p), NEW q, Inv(q), Touched(p, q), Grounded(p)
    PROVE  Grounded(q)
<1> DEFINE n == Len(p.runs)
<1>1. AttemptRuns(q) = AttemptRuns(p) /\ AttemptRuns(p) \subseteq 1..n
  BY TouchedRuns, InvRuns DEF AttemptRuns
<1>2. \A i \in AttemptRuns(p), stage \in Stages :
         i # n => (Done(q.runs[i], stage) <=> Done(p.runs[i], stage))
  BY TouchedDone DEF AttemptRuns
<1>3. Last(q) = q.runs[n] /\ Last(p) = p.runs[n] /\ n \in Nat /\ Last(q).stage = Last(p).stage
  BY InvRuns, InvCurrent DEF Last, Touched
<1>4. INVESTIGATE \in Stages /\ DECIDE \in Stages /\ INVESTIGATE # DECIDE
  BY DEF Stages, DETECT, INVESTIGATE, DECIDE, VERIFY
<1>5. ASSUME NEW i \in AttemptRuns(q), Done(q.runs[i], INVESTIGATE)
      PROVE  Evidenced(q.runs[i])
  <2>1. CASE i = n
    BY <1>3, <1>5, <2>1 DEF Touched, Accounted
  <2>2. CASE i # n
    <3>1. Evidenced(p.runs[i])
      BY <1>1, <1>2, <1>4, <1>5, <2>2 DEF Grounded
    <3>2. i \in DOMAIN p.runs
      BY <1>1 DEF AttemptRuns
    <3>3. q.runs[i].roles = p.runs[i].roles /\ q.runs[i].queried = p.runs[i].queried
      BY <2>2, <3>2, TouchedRuns
    <3> QED BY <3>1, <3>3 DEF Evidenced
  <2> QED BY <2>1, <2>2
<1>6. ASSUME NEW d \in AttemptRuns(q), Done(q.runs[d], DECIDE)
      PROVE  \E i \in AttemptRuns(q) : i < d /\ Done(q.runs[i], INVESTIGATE)
  <2>1. PICK i \in AttemptRuns(p) : (i < d \/ d = n) /\ Done(p.runs[i], INVESTIGATE)
    <3>1. CASE Done(p.runs[d], DECIDE)
      BY <1>1, <3>1 DEF Grounded
    <3>2. CASE ~Done(p.runs[d], DECIDE)
      BY <1>1, <1>2, <1>3, <1>4, <1>6, <3>2 DEF Touched, Accounted
    <3> QED BY <3>1, <3>2
  <2>2. i # n /\ i < d
    <3>1. CASE d = n
      <4>1. p.runs[n].stage = DECIDE
        BY <1>3, <1>6, <3>1 DEF Done
      <4>2. i # n
        BY <1>4, <2>1, <4>1 DEF Done
      <4> QED BY <1>1, <1>3, <3>1, <4>2
    <3>2. CASE d # n
      BY <1>1, <1>3, <2>1, <3>2
    <3> QED BY <3>1, <3>2
  <2>3. Done(q.runs[i], INVESTIGATE)
    BY <1>2, <1>4, <2>1, <2>2
  <2> QED BY <1>1, <2>2, <2>3
<1> QED BY <1>5, <1>6 DEF Grounded

\* The decision in force stays so from RESPOND on.
LEMMA TouchedInForce ==
    ASSUME NEW p, Inv(p), NEW q, Inv(q), Touched(p, q), InForce(p)
    PROVE  InForce(q)
<1> SUFFICES ASSUME q.stage >= RESPOND
             PROVE  /\ \E d \in AttemptRuns(q) :
                          Done(q.runs[d], DECIDE) /\ q.runs[d].decision = q.decision
                    /\ Last(q).action = NoAction \/ Last(q).action.decision = q.decision
  BY DEF InForce
<1>1. p.stage >= RESPOND /\ q.decision = p.decision
  BY DEF Touched, Accounted
<1>2. PICK d \in AttemptRuns(p) : Done(p.runs[d], DECIDE) /\ p.runs[d].decision = p.decision
  BY <1>1 DEF InForce
<1>3. d # Len(p.runs)
  BY <1>1, <1>2, InvCurrent DEF Done, Last, DECIDE, RESPOND
<1>4. d \in AttemptRuns(q) /\ Done(q.runs[d], DECIDE) /\ q.runs[d].decision = p.decision
  <2>1. d \in DOMAIN p.runs
    BY DEF AttemptRuns
  <2>2. AttemptRuns(q) = AttemptRuns(p) /\ q.runs[d].decision = p.runs[d].decision
    BY <1>3, <2>1, TouchedRuns
  <2>3. Done(q.runs[d], DECIDE)
    BY <1>2, <1>3, <2>1, TouchedDone
  <2> QED BY <1>2, <2>2, <2>3
<1>5. Last(q).action = NoAction \/ Last(q).action.decision = q.decision
  BY <1>1 DEF Touched, Accounted
<1> QED BY <1>1, <1>4, <1>5

\* A run that crossed the boundary is of RESPOND and stands behind it.
LEMMA CrossedRests ==
    ASSUME NEW p, Inv(p), Grounded(p), InForce(p), Crossed(Last(p))
    PROVE  Rests(p.runs, Len(p.runs))
<1> DEFINE n == Len(p.runs)
<1>1. Last(p) = p.runs[n] /\ n \in DOMAIN p.runs /\ p.runs[n].attempt = p.attempt
  BY InvCurrent DEF Last
<1>2. p.stage >= RESPOND
  <2>1. p.receipt = n /\ n # 0
    BY <1>1, InvRuns DEF Inv, Bounded
  <2> QED BY <2>1, InvRuns DEF Inv, Bounded, RESPOND
<1>3. Last(p).action # NoAction
  BY DEF Crossed, NoAction
<1>4. PICK d \in AttemptRuns(p) : Done(p.runs[d], DECIDE) /\ p.runs[d].decision = p.decision
  BY <1>2 DEF InForce
<1>5. PICK i \in AttemptRuns(p) : i < d /\ Done(p.runs[i], INVESTIGATE)
  BY <1>4 DEF Grounded
<1>6. Last(p).action.decision = p.runs[d].decision
  BY <1>2, <1>3, <1>4 DEF InForce
<1>7. Evidenced(p.runs[i])
  BY <1>5 DEF Grounded
<1>8. d < n
  <2>1. d # n
    BY <1>1, <1>2, <1>4, InvCurrent DEF Done, DECIDE, RESPOND
  <2>2. d \in 1..n /\ n \in Nat
    BY InvRuns DEF AttemptRuns
  <2> QED BY <2>1, <2>2
<1>9. /\ i \in DOMAIN p.runs /\ p.runs[i].attempt = p.attempt
      /\ d \in DOMAIN p.runs /\ p.runs[d].attempt = p.attempt
  BY DEF AttemptRuns
<1> QED BY <1>1, <1>4, <1>5, <1>6, <1>7, <1>8, <1>9 DEF Rests

\* What has crossed the boundary stays authorized.
LEMMA TouchedAuthorized ==
    ASSUME NEW p, Inv(p), NEW q, Inv(q), Touched(p, q),
           Authorized(p), Grounded(q), InForce(q)
    PROVE  Authorized(q)
<1> DEFINE n == Len(p.runs)
<1>1. /\ DOMAIN q.runs = DOMAIN p.runs /\ Len(q.runs) = n /\ DOMAIN p.runs = 1..n
      /\ n \in Nat /\ Last(q) = q.runs[n]
  BY TouchedRuns, InvRuns DEF Touched, Accounted, Last
<1>2. ASSUME NEW i \in DOMAIN q.runs, q.runs[i].action.execution # "NOT_STARTED"
      PROVE  q.runs[i].action.approval = "APPROVED"
  <2>1. CASE i = n
    BY <1>1, <1>2, <2>1 DEF Touched, Accounted
  <2>2. CASE i # n
    BY <1>1, <1>2, <2>2, TouchedRuns DEF Authorized
  <2> QED BY <2>1, <2>2
<1>3. ASSUME NEW i \in DOMAIN q.runs, Crossed(q.runs[i])
      PROVE  Rests(q.runs, i)
  <2>1. CASE i = n
    BY <1>1, <1>3, <2>1, CrossedRests
  <2>2. CASE i # n
    <3>1. Rests(p.runs, i)
      BY <1>1, <1>3, <2>2, TouchedRuns DEF Authorized
    <3>2. PICK d, m \in DOMAIN p.runs :
            /\ m < d /\ d < i
            /\ p.runs[m].attempt = p.runs[i].attempt
            /\ Done(p.runs[m], INVESTIGATE) /\ Evidenced(p.runs[m])
            /\ p.runs[d].attempt = p.runs[i].attempt
            /\ Done(p.runs[d], DECIDE)
            /\ p.runs[d].decision = p.runs[i].action.decision
      BY <3>1 DEF Rests
    <3>3. m # n /\ d # n
      BY <1>1, <3>2
    <3>4. Done(q.runs[m], INVESTIGATE) /\ Done(q.runs[d], DECIDE)
      BY <3>2, <3>3, TouchedDone
    <3>5. /\ q.runs[m].attempt = p.runs[m].attempt /\ q.runs[d].attempt = p.runs[d].attempt
          /\ q.runs[i].attempt = p.runs[i].attempt
          /\ q.runs[m].roles = p.runs[m].roles /\ q.runs[m].queried = p.runs[m].queried
          /\ q.runs[d].decision = p.runs[d].decision
          /\ q.runs[i].action.decision = p.runs[i].action.decision
      BY <1>1, <2>2, <3>3, TouchedRuns
    <3>6. Evidenced(q.runs[m])
      BY <3>2, <3>5 DEF Evidenced
    <3> QED BY <1>1, <3>2, <3>4, <3>5, <3>6 DEF Rests
  <2> QED BY <2>1, <2>2
<1> QED BY <1>2, <1>3 DEF Authorized

\* A receipt that stands is only taken back by stopping the current run.
LEMMA TouchedStanding ==
    ASSUME NEW p, Inv(p), NEW q, Inv(q), Touched(p, q), Standing(p)
    PROVE  Standing(q)
<1> DEFINE n == Len(p.runs)
<1>1. /\ DOMAIN q.runs = DOMAIN p.runs /\ Len(q.runs) = n /\ DOMAIN p.runs = 1..n
      /\ n \in Nat \ {0} /\ Last(q) = q.runs[n] /\ Last(p) = p.runs[n]
      /\ q.attempt = p.attempt /\ q.stage = p.stage
  BY TouchedRuns, InvRuns DEF Touched, Last
<1>2. p.receipt \in 0..n /\ q.receipt \in 0..n
  BY <1>1 DEF Inv, Bounded
<1>3. q.receipt # 0 => q.runs[q.receipt].attempt = q.attempt
  <2>1. CASE q.receipt = p.receipt
    BY <1>1, <1>2, <2>1, TouchedRuns DEF Standing
  <2>2. CASE q.receipt = n
    BY <1>1, <2>2, InvCurrent
  <2> QED BY <2>1, <2>2 DEF Touched, Accounted
<1>4. Done(Last(q), RESPOND) => Last(q).action.execution = "SUCCEEDED"
  BY DEF Touched, Accounted
<1>5. ASSUME q.stage = VERIFY, Last(q).status \in Going
      PROVE  q.runs[q.receipt].action.execution = "SUCCEEDED"
  <2>1. q.receipt = p.receipt /\ p.receipt \in DOMAIN p.runs
    BY <1>1, <1>2, <1>5 DEF Touched, Accounted, Inv, Bounded, RESPOND, VERIFY
  <2>2. p.runs[p.receipt].action.execution = "SUCCEEDED"
    BY <1>1, <1>5 DEF Touched, Accounted, Standing
  <2>3. q.runs[p.receipt].action = p.runs[p.receipt].action
    BY <1>1, <1>5, <2>1 DEF Touched, Accounted
  <2> QED BY <2>1, <2>2, <2>3
<1>6. q.lifecycle = "RESOLVED" => q.status = "COMPLETED"
  BY DEF Touched, Accounted
<1> QED BY <1>3, <1>4, <1>5, <1>6 DEF Standing

\* A step that stays at the current run keeps what the past says.
LEMMA TouchedKeepsPast ==
    ASSUME NEW p, Inv(p), NEW q, Inv(q), Touched(p, q), Past(p)
    PROVE  Past(q)
BY TouchedOrdered, TouchedGrounded, TouchedInForce, TouchedAuthorized, TouchedStanding DEF Past

-----------------------------------------------------------------------------
(* Each relation that stays at the current run.                            *)

\* The form of most of them: run r takes the place of the current run.
LEMMA CurrentTouched ==
    ASSUME NEW p, Inv(p), NEW q, Inv(q), NEW r,
           q.runs = [p.runs EXCEPT ![Len(p.runs)] = r],
           q.attempt = p.attempt, q.stage = p.stage, Accounted(p, q, r)
    PROVE  Touched(p, q)
<1>1. /\ DOMAIN q.runs = DOMAIN p.runs /\ Len(p.runs) \in DOMAIN p.runs
      /\ DOMAIN p.runs = 1..Len(p.runs) /\ DOMAIN q.runs = 1..Len(q.runs)
      /\ Len(p.runs) \in Nat /\ Len(q.runs) \in Nat
  BY InvRuns, InvCurrent
<1>2. Len(q.runs) = Len(p.runs)
  BY <1>1
<1>3. Last(q) = r /\ \A i \in DOMAIN p.runs : i # Len(p.runs) => q.runs[i] = p.runs[i]
  BY <1>1, <1>2 DEF Last
<1> QED BY <1>2, <1>3 DEF Touched, Revised

\* What the current run says of itself before the step.
LEMMA CurrentAccounted ==
    ASSUME NEW p, Inv(p), Past(p)
    PROVE  /\ Done(Last(p), INVESTIGATE) => Evidenced(Last(p))
           /\ Done(Last(p), RESPOND) => Last(p).action.execution = "SUCCEEDED"
           /\ p.stage >= RESPOND => Last(p).action = NoAction \/ Last(p).action.decision = p.decision
           /\ Last(p).action.execution # "NOT_STARTED" => Last(p).action.approval = "APPROVED"
           /\ p.lifecycle = "RESOLVED" => p.status = "COMPLETED"
<1>1. Len(p.runs) \in AttemptRuns(p) /\ Len(p.runs) \in DOMAIN p.runs /\ Last(p) = p.runs[Len(p.runs)]
  BY InvCurrent DEF AttemptRuns, Last
<1> QED BY <1>1 DEF Past, Grounded, Standing, InForce, Authorized

\* A failed or escalated run, whatever it was.
LEMMA StopTouches ==
    ASSUME NEW p, Inv(p), Past(p), NEW q, Inv(q),
           NEW status \in {"FAILED", "NEEDS_HUMAN"}, NEW failure,
           q.runs = [p.runs EXCEPT ![Len(p.runs)] =
                        [Last(p) EXCEPT !.status = status, !.failure = failure]],
           q.attempt = p.attempt, q.stage = p.stage, q.decision = p.decision,
           q.receipt = p.receipt, q.lifecycle # "RESOLVED"
    PROVE  Touched(p, q)
<1> DEFINE r == [Last(p) EXCEPT !.status = status, !.failure = failure]
<1>1. r.status = status /\ r.action = Last(p).action
  BY InvCurrent DEF StageRun
<1>2. status \notin Going /\ status # "SUCCEEDED"
  BY DEF Going
<1> HIDE DEF r
<1>3. Accounted(p, q, r)
  BY <1>1, <1>2, CurrentAccounted DEF Accounted, Done
<1> QED BY <1>3, CurrentTouched DEF r

\* A stale decision fails its run.
LEMMA InvalidateTouches ==
    ASSUME NEW p, Inv(p), Past(p), NEW q, Inv(q), InvalidateDecision(p, q)
    PROVE  Touched(p, q)
<1>1. p \in Projection /\ CurrentRun(p) = Len(p.runs)
  BY InvCurrent
<1>2. /\ q.runs = [p.runs EXCEPT ![Len(p.runs)] =
                     [Last(p) EXCEPT !.status = "FAILED", !.failure = "REVALIDATION_REQUIRED"]]
      /\ q.attempt = p.attempt /\ q.stage = p.stage /\ q.decision = p.decision
      /\ q.receipt = p.receipt /\ q.lifecycle # "RESOLVED"
  BY <1>1 DEF InvalidateDecision, Projection, Last
<1> QED BY <1>2, StopTouches

\* A stage activity that failed.
LEMMA FailTouches ==
    ASSUME NEW p, Inv(p), Past(p), NEW q, Inv(q), FailCurrent(p, q)
    PROVE  Touched(p, q)
<1>1. p \in Projection /\ CurrentRun(p) = Len(p.runs)
  BY InvCurrent
<1>2. /\ q.runs = [p.runs EXCEPT ![Len(p.runs)] =
                     [Last(p) EXCEPT !.status = "FAILED", !.failure = "OTHER"]]
      /\ q.attempt = p.attempt /\ q.stage = p.stage /\ q.decision = p.decision
      /\ q.receipt = p.receipt /\ q.lifecycle # "RESOLVED"
  BY <1>1 DEF FailCurrent, Projection, Last
<1> QED BY <1>2, StopTouches

\* escalate.
LEMMA EscalateTouches ==
    ASSUME NEW p, Inv(p), Past(p), NEW q, Inv(q), Escalate(p, q)
    PROVE  Touched(p, q)
<1>1. p \in Projection /\ CurrentRun(p) = Len(p.runs)
  BY InvCurrent
<1>2. /\ q.runs = [p.runs EXCEPT ![Len(p.runs)] =
                     [Last(p) EXCEPT !.status = "NEEDS_HUMAN", !.failure = "OTHER"]]
      /\ q.attempt = p.attempt /\ q.stage = p.stage /\ q.decision = p.decision
      /\ q.receipt = p.receipt /\ q.lifecycle # "RESOLVED"
  BY <1>1 DEF Escalate, Projection, Last
<1> QED BY <1>2, StopTouches

\* complete_current_stage with success, DECIDE apart.
LEMMA SucceedTouches ==
    ASSUME NEW p, Inv(p), Past(p), NEW q, Inv(q),
           q = SetCurrent(p, "SUCCEEDED"), CurrentStatus(p) = "RUNNING",
           p.stage # DECIDE,
           p.stage = INVESTIGATE => EvidenceGate(Current(p)),
           p.stage = RESPOND => Current(p).action.execution = "SUCCEEDED"
    PROVE  Touched(p, q)
<1> DEFINE r == [Last(p) EXCEPT !.status = "SUCCEEDED"]
<1>1. /\ p \in Projection /\ CurrentRun(p) = Len(p.runs) /\ Current(p) = Last(p)
      /\ Last(p) \in StageRun /\ Last(p).stage = p.stage /\ Last(p).status = "RUNNING"
  BY InvCurrent
<1>2. /\ q.runs = [p.runs EXCEPT ![Len(p.runs)] = r]
      /\ q.attempt = p.attempt /\ q.stage = p.stage /\ q.decision = p.decision
      /\ q.receipt = p.receipt /\ q.lifecycle = p.lifecycle /\ q.status = p.status
  BY <1>1 DEF SetCurrent, Projection, Last
<1>3. /\ r.status = "SUCCEEDED" /\ r.action = Last(p).action /\ r.stage = p.stage
      /\ r.roles = Last(p).roles /\ r.queried = Last(p).queried
      /\ r.roles \subseteq AgentRoles(INVESTIGATE)
  BY <1>1 DEF StageRun
<1> HIDE DEF r
<1>4. Done(r, INVESTIGATE) => Evidenced(r)
  BY <1>1, <1>3 DEF Done, EvidenceGate, Evidenced
<1>5. Accounted(p, q, r)
  BY <1>1, <1>2, <1>3, <1>4, CurrentAccounted DEF Accounted, Done, Going
<1> QED BY <1>2, <1>5, CurrentTouched

\* complete_current_stage with success in DECIDE.
LEMMA DecideTouches ==
    ASSUME NEW p, Inv(p), Past(p), NEW q, Inv(q), NEW premise, SucceedDecide(p, premise, q)
    PROVE  Touched(p, q)
<1> DEFINE r == [Last(p) EXCEPT !.status = "SUCCEEDED", !.decision = p.decision + 1,
                                !.premise = premise]
<1>1. /\ p \in Projection /\ CurrentRun(p) = Len(p.runs) /\ p.stage = DECIDE
      /\ Last(p) \in StageRun /\ Last(p).stage = p.stage /\ Last(p).status = "RUNNING"
  BY InvCurrent DEF SucceedDecide
<1>2. /\ q.runs = [p.runs EXCEPT ![Len(p.runs)] = r]
      /\ q.attempt = p.attempt /\ q.stage = p.stage
      /\ q.receipt = p.receipt /\ q.lifecycle = p.lifecycle /\ q.status = p.status
  BY <1>1 DEF SucceedDecide, Projection, Last
<1>3. r.status = "SUCCEEDED" /\ r.action = Last(p).action /\ r.stage = p.stage
  BY <1>1 DEF StageRun
<1> HIDE DEF r
<1>4. \E i \in AttemptRuns(p) : Done(p.runs[i], INVESTIGATE)
  BY DEF SucceedDecide, Done
<1>5. Accounted(p, q, r)
  BY <1>1, <1>2, <1>3, <1>4, CurrentAccounted
  DEF Accounted, Done, Going, INVESTIGATE, DECIDE, RESPOND, VERIFY
<1> QED BY <1>2, <1>5, CurrentTouched

\* sync_realtime.
LEMMA SyncTouches ==
    ASSUME NEW p, Inv(p), Past(p), NEW q, Inv(q), NEW premise, NEW live, NEW qualified,
           SyncRealtime(p, premise, live, qualified, q)
    PROVE  Touched(p, q)
<1> DEFINE status == IF qualified /\ p.stage = DETECT /\ Last(p).status = "RUNNING"
                     THEN "SUCCEEDED" ELSE Last(p).status
           r == [Last(p) EXCEPT !.status = status]
<1>1. /\ p \in Projection /\ CurrentRun(p) = Len(p.runs)
      /\ Last(p) \in StageRun /\ Last(p).stage = p.stage
  BY InvCurrent
<1>2. /\ q.runs = [p.runs EXCEPT ![Len(p.runs)] = r]
      /\ q.attempt = p.attempt /\ q.stage = p.stage /\ q.decision = p.decision
      /\ q.receipt = p.receipt /\ q.status = p.status
      /\ q.lifecycle = "RESOLVED" => p.lifecycle = "RESOLVED"
  BY <1>1 DEF SyncRealtime, Projection, Last
<1>3. /\ r.status = status /\ r.action = Last(p).action /\ r.stage = p.stage
      /\ r.roles = Last(p).roles /\ r.queried = Last(p).queried
  BY <1>1 DEF StageRun
<1>4. \/ r.status = Last(p).status
      \/ p.stage = DETECT /\ Last(p).status = "RUNNING" /\ r.status = "SUCCEEDED"
  BY <1>3
<1> HIDE DEF r, status
<1>5. Accounted(p, q, r)
  BY <1>1, <1>2, <1>3, <1>4, CurrentAccounted
  DEF Accounted, Done, Evidenced, Going, DETECT, INVESTIGATE, DECIDE, RESPOND, VERIFY
<1> QED BY <1>2, <1>5, CurrentTouched

\* COMPLETE_INCIDENT.
LEMMA CompleteTouches ==
    ASSUME NEW p, Inv(p), Past(p), NEW q, Inv(q), CompleteIncident(p, q)
    PROVE  Touched(p, q)
<1>1. /\ p \in Projection /\ Last(p).stage = p.stage /\ Last(p) = p.runs[Len(p.runs)]
      /\ Len(p.runs) \in DOMAIN p.runs /\ p.runs \in Seq(StageRun)
  BY InvCurrent DEF Last
<1>2. /\ q.runs = p.runs /\ q.attempt = p.attempt /\ q.stage = p.stage
      /\ q.decision = p.decision /\ q.receipt = p.receipt /\ q.status = "COMPLETED"
  BY <1>1 DEF CompleteIncident, Projection
<1>3. q.runs = [p.runs EXCEPT ![Len(p.runs)] = Last(p)]
  BY <1>1, <1>2
<1>4. Accounted(p, q, Last(p))
  BY <1>2, CurrentAccounted DEF Accounted
<1> QED BY <1>2, <1>3, <1>4, CurrentTouched

\* start_agent_run leaves the runs alone.
LEMMA StartAgentTouches ==
    ASSUME NEW p, Inv(p), Past(p), NEW q, Inv(q), NEW role, StartAgent(p, role, q)
    PROVE  Touched(p, q)
<1>1. /\ p \in Projection /\ Len(p.runs) \in DOMAIN p.runs /\ p.runs \in Seq(StageRun)
      /\ Last(p) = p.runs[Len(p.runs)]
  BY InvCurrent DEF Last
<1>2. /\ q.runs = p.runs
      /\ q.attempt = p.attempt /\ q.stage = p.stage /\ q.decision = p.decision
      /\ q.receipt = p.receipt /\ q.lifecycle = p.lifecycle /\ q.status = p.status
  BY <1>1 DEF StartAgent, Projection
<1>3. q.runs = [p.runs EXCEPT ![Len(p.runs)] = Last(p)]
  BY <1>1, <1>2
<1>4. Accounted(p, q, Last(p))
  BY <1>2, CurrentAccounted DEF Accounted
<1> QED BY <1>2, <1>3, <1>4, CurrentTouched

\* update_agent_run: an investigation that has all its roles gains none.
LEMMA FinishAgentTouches ==
    ASSUME NEW p, Inv(p), Past(p), NEW q, Inv(q), NEW agent, NEW succeeded,
           FinishAgent(p, agent, succeeded, q)
    PROVE  Touched(p, q)
<1> DEFINE roles == IF succeeded /\ p.stage = INVESTIGATE
                    THEN Last(p).roles \cup {agent.role} ELSE Last(p).roles
           r == [Last(p) EXCEPT !.roles = roles]
<1>1. /\ p \in Projection /\ CurrentRun(p) = Len(p.runs) /\ Current(p) = Last(p)
      /\ Last(p) \in StageRun /\ Last(p).stage = p.stage /\ Last(p).action \in Action
  BY InvCurrent DEF StageRun
<1>2. /\ q.runs = [p.runs EXCEPT ![Len(p.runs)] = r]
      /\ q.attempt = p.attempt /\ q.stage = p.stage /\ q.decision = p.decision
      /\ q.receipt = p.receipt /\ q.lifecycle = p.lifecycle /\ q.status = p.status
  BY <1>1 DEF FinishAgent, Projection, Last
<1>3. /\ r.status = Last(p).status /\ r.action = Last(p).action /\ r.stage = p.stage
      /\ r.roles = roles /\ r.queried = Last(p).queried
  BY <1>1 DEF StageRun
<1>4. Evidenced(Last(p)) /\ p.stage = INVESTIGATE => Evidenced(r)
  <2>1. agent.role \in AgentRoles(p.stage)
    BY DEF FinishAgent, Inv, Attended
  <2> QED BY <1>3, <2>1 DEF Evidenced
<1> HIDE DEF r, roles
<1>5. Accounted(p, q, r)
  BY <1>1, <1>2, <1>3, <1>4, CurrentAccounted DEF Accounted, Done
<1> QED BY <1>2, <1>5, CurrentTouched

\* record_evidence_query, on a run that has not ended.
LEMMA QueryTouches ==
    ASSUME NEW p, Inv(p), Past(p), NEW q, Inv(q), RecordEvidenceQuery(p, q)
    PROVE  Touched(p, q)
<1> DEFINE r == [Last(p) EXCEPT !.queried = TRUE]
<1>1. /\ p \in Projection /\ CurrentRun(p) = Len(p.runs) /\ Current(p) = Last(p)
      /\ Last(p) \in StageRun /\ Last(p).stage = p.stage /\ Last(p).action \in Action
  BY InvCurrent DEF StageRun
<1>2. /\ q.runs = [p.runs EXCEPT ![Len(p.runs)] = r]
      /\ q.attempt = p.attempt /\ q.stage = p.stage /\ q.decision = p.decision
      /\ q.receipt = p.receipt /\ q.lifecycle = p.lifecycle /\ q.status = p.status
  BY <1>1 DEF RecordEvidenceQuery, Projection, Last
<1>3. r.status = Last(p).status /\ r.action = Last(p).action /\ r.stage = p.stage
  BY <1>1 DEF StageRun
<1>4. Last(p).status = "RUNNING"
  BY InvCurrent DEF RecordEvidenceQuery
<1> HIDE DEF r
<1>5. Accounted(p, q, r)
  BY <1>1, <1>2, <1>3, <1>4, CurrentAccounted DEF Accounted, Done
<1> QED BY <1>2, <1>5, CurrentTouched

\* The response action.

\* A run of RESPOND whose action is decided or executed.
LEMMA ActionTouches ==
    ASSUME NEW p, Inv(p), Past(p), NEW q, Inv(q), NEW r, p.stage = RESPOND,
           q.runs = [p.runs EXCEPT ![Len(p.runs)] = r],
           q.attempt = p.attempt, q.stage = p.stage, q.decision = p.decision,
           q.receipt = p.receipt \/ q.receipt = Len(p.runs), q.lifecycle # "RESOLVED",
           r.stage = p.stage, r.status \in Going => Last(p).status \in Going,
           r.status = "SUCCEEDED" => r.action.execution = "SUCCEEDED",
           r.action.decision = p.decision,
           r.action.execution # "NOT_STARTED" => r.action.approval = "APPROVED"
    PROVE  Touched(p, q)
<1>1. Accounted(p, q, r)
  BY DEF Accounted, Done, INVESTIGATE, DECIDE, RESPOND, VERIFY
<1> QED BY <1>1, CurrentTouched

\* An action in RESPOND carries the decision in force, a stage that has
\* succeeded a success, and no incident is resolved there.
LEMMA InRespond ==
    ASSUME NEW p, Inv(p), Past(p), p.stage = RESPOND
    PROVE  /\ Last(p).action # NoAction => Last(p).action.decision = p.decision
           /\ Last(p).status = "SUCCEEDED" => Last(p).action.execution = "SUCCEEDED"
           /\ p.lifecycle # "RESOLVED"
<1>1. p.lifecycle # "RESOLVED"
  BY CurrentAccounted, InvFields DEF RESPOND, VERIFY
<1>2. RESPOND >= RESPOND /\ Last(p).stage = p.stage
  BY InvCurrent DEF RESPOND
<1> QED BY <1>1, <1>2, CurrentAccounted DEF Done

\* add_action proposes the decision in force.
LEMMA AddActionTouches ==
    ASSUME NEW p, Inv(p), Past(p), NEW q, Inv(q), AddAction(p, q)
    PROVE  Touched(p, q)
<1> PICK i \in LiveDecisions(p) :
        /\ p.runs[i].decision = p.decision
        /\ q = [p EXCEPT !.runs[CurrentRun(p)].action =
                [decision |-> p.runs[i].decision, approval |-> "PENDING",
                 execution |-> "NOT_STARTED"]]
  BY DEF AddAction
<1> DEFINE action == [decision |-> p.runs[i].decision, approval |-> "PENDING",
                      execution |-> "NOT_STARTED"]
           r == [Last(p) EXCEPT !.action = action]
<1>1. /\ p \in Projection /\ CurrentRun(p) = Len(p.runs) /\ Current(p) = Last(p)
      /\ Last(p) \in StageRun /\ Last(p).stage = p.stage /\ Last(p).action \in Action
  BY InvCurrent DEF StageRun
<1>2. /\ q.runs = [p.runs EXCEPT ![Len(p.runs)] = r]
      /\ q.attempt = p.attempt /\ q.stage = p.stage /\ q.decision = p.decision
      /\ q.receipt = p.receipt /\ q.lifecycle = p.lifecycle /\ q.status = p.status
  BY <1>1 DEF Projection, Last
<1>3. r.status = Last(p).status /\ r.stage = p.stage /\ r.action = action
  BY <1>1 DEF StageRun
<1>4. p.stage = RESPOND /\ Last(p).action = NoAction
  BY <1>1 DEF AddAction
<1>5. r.status # "SUCCEEDED" /\ p.lifecycle # "RESOLVED"
  BY <1>3, <1>4, InRespond DEF NoAction
<1>6. r.action.decision = p.decision /\ r.action.execution = "NOT_STARTED"
  BY <1>3
<1> HIDE DEF r, action
<1> QED BY <1>2, <1>3, <1>4, <1>5, <1>6, ActionTouches

\* approve_action, approving.
LEMMA ApproveTouches ==
    ASSUME NEW p, Inv(p), Past(p), NEW q, Inv(q), ApproveAction(p, q)
    PROVE  Touched(p, q)
<1> DEFINE r == WithApproval(Last(p), "APPROVED")
<1>1. /\ p \in Projection /\ CurrentRun(p) = Len(p.runs) /\ Current(p) = Last(p)
      /\ Last(p) \in StageRun /\ Last(p).stage = p.stage /\ Last(p).action \in Action
  BY InvCurrent DEF StageRun
<1>2. /\ q.runs = [p.runs EXCEPT ![Len(p.runs)] = r]
      /\ q.attempt = p.attempt /\ q.stage = p.stage /\ q.decision = p.decision
      /\ q.receipt = p.receipt /\ q.lifecycle = p.lifecycle /\ q.status = p.status
  BY <1>1 DEF ApproveAction, Projection, Last
<1>3. /\ r.status = Last(p).status /\ r.stage = p.stage
      /\ r.action.decision = Last(p).action.decision /\ r.action.approval = "APPROVED"
      /\ r.action.execution = Last(p).action.execution
  BY <1>1 DEF WithApproval, StageRun, Action
<1>4. p.stage = RESPOND /\ Last(p).action.decision = p.decision
  BY <1>1 DEF ApproveAction, MayDecideAction
<1> HIDE DEF r
<1> QED BY <1>2, <1>3, <1>4, InRespond, ActionTouches

\* approve_action, rejecting an action that was never started.
LEMMA RejectTouches ==
    ASSUME NEW p, Inv(p), Past(p), NEW q, Inv(q), RejectAction(p, q)
    PROVE  Touched(p, q)
<1> DEFINE run == [Last(p) EXCEPT !.status = "FAILED", !.failure = "OTHER"]
           r == WithApproval(run, "REJECTED")
<1>1. /\ p \in Projection /\ CurrentRun(p) = Len(p.runs) /\ Current(p) = Last(p)
      /\ Last(p) \in StageRun /\ Last(p).stage = p.stage /\ Last(p).action \in Action
  BY InvCurrent DEF StageRun
<1>2. /\ q.runs = [p.runs EXCEPT ![Len(p.runs)] = r]
      /\ q.attempt = p.attempt /\ q.stage = p.stage /\ q.decision = p.decision
      /\ q.receipt = p.receipt /\ q.lifecycle # "RESOLVED"
  BY <1>1 DEF RejectAction, Projection, Last
<1>3. /\ r.status = "FAILED" /\ r.stage = p.stage
      /\ r.action.decision = Last(p).action.decision
      /\ r.action.execution = Last(p).action.execution
  BY <1>1 DEF WithApproval, StageRun, Action
<1>4. /\ p.stage = RESPOND /\ Last(p).action.decision = p.decision
      /\ Last(p).action.approval = "PENDING"
  BY <1>1 DEF RejectAction, MayDecideAction
<1>5. Last(p).action.execution = "NOT_STARTED"
  BY <1>4, CurrentAccounted
<1>6. "FAILED" \notin Going
  BY DEF Going
<1> HIDE DEF r
<1> QED BY <1>2, <1>3, <1>4, <1>5, <1>6, ActionTouches

\* mark_action_execution_started.
LEMMA MarkTouches ==
    ASSUME NEW p, Inv(p), Past(p), NEW q, Inv(q), MarkExecutionStarted(p, q)
    PROVE  Touched(p, q)
<1> DEFINE r == WithExecution(Last(p), "RUNNING")
<1>1. /\ p \in Projection /\ CurrentRun(p) = Len(p.runs) /\ Current(p) = Last(p)
      /\ Last(p) \in StageRun /\ Last(p).stage = p.stage /\ Last(p).action \in Action
  BY InvCurrent DEF StageRun
<1>2. /\ q.runs = [p.runs EXCEPT ![Len(p.runs)] = r]
      /\ q.attempt = p.attempt /\ q.stage = p.stage /\ q.decision = p.decision
      /\ q.receipt = p.receipt /\ q.lifecycle # "RESOLVED"
  BY <1>1 DEF MarkExecutionStarted, Projection, Last
<1>3. /\ r.status = Last(p).status /\ r.stage = p.stage
      /\ r.action.decision = Last(p).action.decision
      /\ r.action.approval = Last(p).action.approval
  BY <1>1 DEF WithExecution, StageRun, Action
<1>4. /\ p.stage = RESPOND /\ Last(p).action.decision = p.decision
      /\ Last(p).action.approval = "APPROVED" /\ Last(p).action.execution = "NOT_STARTED"
  BY <1>1 DEF MarkExecutionStarted
<1>5. r.status # "SUCCEEDED"
  BY <1>3, <1>4, InRespond
<1> HIDE DEF r
<1> QED BY <1>2, <1>3, <1>4, <1>5, ActionTouches

\* record_action_execution, which is the only one to set the receipt.
LEMMA RecordTouches ==
    ASSUME NEW p, Inv(p), Past(p), NEW q, Inv(q), NEW result, RecordExecution(p, result, q)
    PROVE  Touched(p, q)
<1> DEFINE r == WithExecution(Last(p), result)
<1>1. /\ p \in Projection /\ CurrentRun(p) = Len(p.runs) /\ Current(p) = Last(p)
      /\ Last(p) \in StageRun /\ Last(p).stage = p.stage /\ Last(p).action \in Action
  BY InvCurrent DEF StageRun
<1>2. /\ q.runs = [p.runs EXCEPT ![Len(p.runs)] = r]
      /\ q.attempt = p.attempt /\ q.stage = p.stage /\ q.decision = p.decision
      /\ q.receipt \in {0, Len(p.runs)} /\ q.lifecycle # "RESOLVED"
  BY <1>1 DEF RecordExecution, Projection, Last
<1>3. /\ r.status = Last(p).status /\ r.stage = p.stage
      /\ r.action.decision = Last(p).action.decision
      /\ r.action.approval = Last(p).action.approval
  BY <1>1 DEF WithExecution, StageRun, Action
<1>4. /\ p.stage = RESPOND /\ Last(p).action.approval = "APPROVED"
      /\ Last(p).action.execution = "RUNNING"
  BY <1>1 DEF RecordExecution
<1>5. r.status # "SUCCEEDED" /\ Last(p).action.decision = p.decision
  BY <1>3, <1>4, InRespond DEF NoAction
<1>6. p.receipt = 0
  <2>1. Last(p) = p.runs[Len(p.runs)] /\ Len(p.runs) \in DOMAIN p.runs /\ Last(p).attempt = p.attempt
    BY InvCurrent DEF Last
  <2> QED BY <1>4, <2>1 DEF Inv, Bounded, Crossed
<1> HIDE DEF r
<1> QED BY <1>2, <1>3, <1>4, <1>5, <1>6, ActionTouches

\* record_action_rollback_outcome: the run rolled back may be of the past,
\* and the one that stops is the current one.
LEMMA RollbackTouches ==
    ASSUME NEW p, Inv(p), Past(p), NEW q, Inv(q), NEW i, NEW succeeded \in BOOLEAN,
           RecordRollback(p, i, succeeded, q)
    PROVE  Touched(p, q)
<1> DEFINE n == Len(p.runs)
           outcome == IF succeeded THEN "ROLLED_BACK" ELSE "NEEDS_HUMAN"
           back == [p.runs EXCEPT ![i] = WithExecution(p.runs[i], outcome)]
           r == [back[n] EXCEPT !.status = "NEEDS_HUMAN", !.failure = "OTHER"]
<1>1. /\ p \in Projection /\ p.runs \in Seq(StageRun) /\ n \in DOMAIN p.runs
      /\ CurrentRun(p) = n /\ i \in DOMAIN p.runs /\ p.runs[i].action.execution = "SUCCEEDED"
      /\ Last(p) = p.runs[n] /\ Last(p).stage = p.stage
      /\ \A j \in DOMAIN p.runs : p.runs[j] \in StageRun /\ p.runs[j].action \in Action
  BY InvCurrent, InvRuns DEF RecordRollback, Last
<1>2. /\ q.attempt = p.attempt /\ q.stage = p.stage /\ q.decision = p.decision
      /\ q.receipt = p.receipt /\ q.lifecycle = "NEEDS_HUMAN"
      /\ q.runs = [back EXCEPT ![n] = r]
  BY <1>1 DEF RecordRollback, Projection
<1>3. \A j \in DOMAIN p.runs :
         back[j] = IF j = i THEN WithExecution(p.runs[j], outcome) ELSE p.runs[j]
  BY <1>1
<1>4. outcome \in {"ROLLED_BACK", "NEEDS_HUMAN"}
  OBVIOUS
<1>5. /\ back[n].action.decision = Last(p).action.decision
      /\ back[n].action.approval = Last(p).action.approval
      /\ \/ back[n].action = Last(p).action
         \/ Last(p).action.execution = "SUCCEEDED" /\ back[n].action.execution = outcome
  BY <1>1, <1>3 DEF WithExecution, StageRun, Action
<1>6. DOMAIN back = DOMAIN p.runs /\ back \in Seq(StageRun)
  <2>1. WithExecution(p.runs[i], outcome) \in StageRun
    BY <1>1, <1>4, WithExecutionRun DEF Executions
  <2> QED BY <1>1, <2>1, ReplaceRun
<1>7. back[n].stage = p.stage
  BY <1>1, <1>3 DEF WithExecution, StageRun
<1> HIDE DEF back, outcome
<1>8. r.status = "NEEDS_HUMAN" /\ r.action = back[n].action /\ r.stage = p.stage
  <2>1. back[n] \in StageRun
    BY <1>1, <1>6
  <2> QED BY <1>7, <2>1 DEF StageRun
<1> HIDE DEF r
<1>9. /\ Len(q.runs) = n /\ Last(q) = r
      /\ \A j \in DOMAIN p.runs : j # n => q.runs[j] = back[j]
  <2>1. DOMAIN q.runs = DOMAIN p.runs
    BY <1>2, <1>6
  <2>2. Len(q.runs) = n
    BY <2>1, InvRuns
  <2> QED BY <1>1, <1>2, <1>6, <2>2 DEF Last
<1>10. \A j \in DOMAIN p.runs : j # n => Revised(p.runs[j], q.runs[j])
  BY <1>1, <1>3, <1>4, <1>9 DEF Revised
<1>11. "NEEDS_HUMAN" \notin Going
  BY DEF Going
<1>12. r.action = NoAction \/ r.action.decision = p.decision \/ ~(p.stage >= RESPOND)
  BY <1>5, <1>8, CurrentAccounted DEF NoAction
<1>13. r.action.execution # "NOT_STARTED" => r.action.approval = "APPROVED"
  BY <1>5, <1>8, CurrentAccounted
<1>14. Accounted(p, q, r)
  BY <1>2, <1>8, <1>11, <1>12, <1>13 DEF Accounted, Done
<1> QED BY <1>2, <1>8, <1>9, <1>10, <1>11, <1>14 DEF Touched

-----------------------------------------------------------------------------
(* Steps that start a run.                                                 *)

\* A new run is started and the live runs in gone are given up.
Begins(p, q, gone) ==
    /\ Len(q.runs) = Len(p.runs) + 1
    /\ Last(q) = NewRun(q.attempt, q.stage)
    /\ q.status = "ACTIVE" /\ q.lifecycle # "RESOLVED"
    /\ gone \subseteq LiveRuns(p)
    /\ \A i \in DOMAIN p.runs :
          q.runs[i] = IF i \in gone THEN Supersede(p.runs[i]) ELSE p.runs[i]

\* The same attempt goes on at a stage that those before it have reached.
Continues(p, q) ==
    /\ Begins(p, q, Affected(p, q.stage))
    /\ q.attempt = p.attempt /\ q.receipt = p.receipt /\ q.stage <= p.stage + 1
    /\ \E j \in AttemptRuns(p) : p.runs[j].stage <= q.stage
    /\ \A i \in LiveRuns(p) : p.runs[i].stage < q.stage => p.runs[i].status = "SUCCEEDED"
    /\ p.receipt = 0 \/ Affected(p, q.stage) = {}
    /\ q.stage >= RESPOND => q.decision = p.decision
    /\ q.stage = RESPOND /\ p.stage = DECIDE => Last(p).decision = p.decision
    /\ q.stage = VERIFY => p.stage = RESPOND /\ Done(Last(p), RESPOND) /\ p.receipt # 0

\* A child attempt.
BranchesOff(p, q) ==
    /\ Begins(p, q, {Len(p.runs)})
    /\ q.attempt = p.attempt + 1 /\ q.stage < RESPOND

\* The runs after a run has started.
LEMMA BegunRuns ==
    ASSUME NEW p, Inv(p), NEW q, Inv(q), NEW gone, Begins(p, q, gone)
    PROVE  /\ DOMAIN q.runs = DOMAIN p.runs \cup {Len(q.runs)} /\ Len(q.runs) \notin DOMAIN p.runs
           /\ DOMAIN p.runs = 1..Len(p.runs) /\ Len(p.runs) \in Nat \ {0}
           /\ \A i \in DOMAIN p.runs :
                 /\ q.runs[i].attempt = p.runs[i].attempt /\ q.runs[i].stage = p.runs[i].stage
                 /\ q.runs[i].action = p.runs[i].action
                 /\ i \notin gone => q.runs[i] = p.runs[i]
                 /\ i \in gone => q.runs[i].status = "SUPERSEDED"
           /\ Last(q) = q.runs[Len(q.runs)] /\ Last(q).stage = q.stage
           /\ Last(q).attempt = q.attempt /\ Last(q).status = "RUNNING"
           /\ Last(q).action = NoAction
<1>1. /\ DOMAIN p.runs = 1..Len(p.runs) /\ DOMAIN q.runs = 1..Len(q.runs)
      /\ Len(p.runs) \in Nat \ {0} /\ Len(q.runs) = Len(p.runs) + 1
  BY InvRuns DEF Begins
<1>2. DOMAIN q.runs = DOMAIN p.runs \cup {Len(q.runs)} /\ Len(q.runs) \notin DOMAIN p.runs
  BY <1>1
<1>3. /\ Last(q).stage = q.stage /\ Last(q).attempt = q.attempt
      /\ Last(q).status = "RUNNING" /\ Last(q).action = NoAction
  BY DEF Begins, NewRun
<1>4. ASSUME NEW i \in DOMAIN p.runs
      PROVE  /\ q.runs[i].attempt = p.runs[i].attempt /\ q.runs[i].stage = p.runs[i].stage
             /\ q.runs[i].action = p.runs[i].action
             /\ i \notin gone => q.runs[i] = p.runs[i]
             /\ i \in gone => q.runs[i].status = "SUPERSEDED"
  <2>1. q.runs[i] = IF i \in gone THEN Supersede(p.runs[i]) ELSE p.runs[i]
    BY DEF Begins
  <2> QED BY <2>1 DEF Supersede, NewRun
<1> QED BY <1>1, <1>2, <1>3, <1>4 DEF Last

\* The runs of an attempt that goes on.
LEMMA ContinuedRuns ==
    ASSUME NEW p, Inv(p), NEW q, Inv(q), Continues(p, q)
    PROVE  /\ AttemptRuns(q) = AttemptRuns(p) \cup {Len(q.runs)}
           /\ \A i \in LiveRuns(q) : i # Len(q.runs) =>
                 i \in LiveRuns(p) /\ p.runs[i].stage < q.stage
           /\ \A i \in AttemptRuns(p) : p.runs[i].stage < q.stage => q.runs[i] = p.runs[i]
<1> DEFINE gone == Affected(p, q.stage)
<1>1. /\ DOMAIN q.runs = DOMAIN p.runs \cup {Len(q.runs)} /\ Len(q.runs) \notin DOMAIN p.runs
      /\ \A i \in DOMAIN p.runs :
            /\ q.runs[i].attempt = p.runs[i].attempt
            /\ i \notin gone => q.runs[i] = p.runs[i]
            /\ i \in gone => q.runs[i].status = "SUPERSEDED"
      /\ q.runs[Len(q.runs)].attempt = q.attempt
      /\ q.attempt = p.attempt
  BY BegunRuns DEF Continues
<1>2. AttemptRuns(q) = AttemptRuns(p) \cup {Len(q.runs)}
  BY <1>1 DEF AttemptRuns
<1>3. q.stage \in Nat /\ \A i \in DOMAIN p.runs : p.runs[i].stage \in Nat
  BY InvRuns
<1>4. ASSUME NEW i \in LiveRuns(q), i # Len(q.runs)
      PROVE  i \in LiveRuns(p) /\ p.runs[i].stage < q.stage
  <2>1. i \in AttemptRuns(p) /\ i \in DOMAIN p.runs /\ q.runs[i].status # "SUPERSEDED"
    BY <1>2, <1>4 DEF LiveRuns, AttemptRuns
  <2>2. i \notin gone /\ q.runs[i] = p.runs[i]
    BY <1>1, <2>1
  <2>3. i \in LiveRuns(p)
    BY <2>1, <2>2 DEF LiveRuns
  <2> QED BY <1>3, <2>1, <2>2, <2>3 DEF Affected
<1>5. ASSUME NEW i \in AttemptRuns(p), p.runs[i].stage < q.stage
      PROVE  q.runs[i] = p.runs[i]
  <2>1. i \notin gone /\ i \in DOMAIN p.runs
    BY <1>3, <1>5 DEF Affected, AttemptRuns
  <2> QED BY <1>1, <2>1
<1> QED BY <1>2, <1>4, <1>5

\* The stages before the new run's have been passed.
LEMMA ContinuedOrdered ==
    ASSUME NEW p, Inv(p), NEW q, Inv(q), Continues(p, q), Ordered(p)
    PROVE  Ordered(q)
<1> DEFINE n == Len(p.runs)
<1>1. /\ Len(q.runs) = n + 1 /\ DOMAIN p.runs = 1..n /\ n \in Nat \ {0}
      /\ AttemptRuns(p) \subseteq DOMAIN p.runs /\ LiveRuns(p) \subseteq AttemptRuns(p)
      /\ q.runs[n + 1].stage = q.stage
      /\ \A i \in DOMAIN p.runs : q.runs[i].stage = p.runs[i].stage
  <2>1. Begins(p, q, Affected(p, q.stage))
    BY DEF Continues
  <2>2. Len(q.runs) = n + 1
    BY <2>1 DEF Begins
  <2> QED BY <2>1, <2>2, BegunRuns DEF AttemptRuns, LiveRuns
<1>2. /\ p.stage \in Nat /\ q.stage \in Nat /\ q.stage <= p.stage + 1
      /\ \A i \in DOMAIN p.runs : p.runs[i].stage \in Nat
  <2>1. q.stage <= p.stage + 1
    BY DEF Continues
  <2>2. p.stage \in Nat /\ q.stage \in Nat /\ \A i \in DOMAIN p.runs : p.runs[i].stage \in Nat
    BY InvRuns
  <2> QED BY <2>1, <2>2
<1>3. n + 1 \in LiveRuns(q)
  BY <1>1, LastIsLive
<1>4. ASSUME NEW i \in LiveRuns(q), i # Len(q.runs)
      PROVE  q.runs[i].status = "SUCCEEDED"
  <2>1. i \in LiveRuns(p) /\ p.runs[i].stage < q.stage
    BY <1>4, ContinuedRuns
  <2>2. q.runs[i] = p.runs[i] /\ p.runs[i].status = "SUCCEEDED"
    BY <1>1, <2>1, ContinuedRuns DEF Continues
  <2> QED BY <2>2
<1>5. ASSUME NEW i \in LiveRuns(q), NEW j \in LiveRuns(q), q.runs[i].stage = q.runs[j].stage
      PROVE  i = j
  <2>1. \A k \in LiveRuns(q) : k # n + 1 =>
           k \in LiveRuns(p) /\ p.runs[k].stage < q.stage /\ q.runs[k].stage = p.runs[k].stage
    BY <1>1, ContinuedRuns
  <2>2. CASE i = n + 1 \/ j = n + 1
    <3>1. \A k \in LiveRuns(q) : k # n + 1 => q.runs[k].stage # q.stage
      BY <1>1, <1>2, <2>1
    <3> QED BY <1>1, <1>5, <2>2, <3>1
  <2>3. CASE i # n + 1 /\ j # n + 1
    BY <1>5, <2>1, <2>3 DEF Ordered
  <2> QED BY <2>2, <2>3
<1>6. PICK f \in AttemptRuns(p) :
          /\ \A j \in AttemptRuns(p) : f <= j /\ p.runs[f].stage <= p.runs[j].stage
          /\ \A s \in p.runs[f].stage..(p.stage - 1) :
                \E i \in LiveRuns(p) : p.runs[i].stage = s
  BY DEF Ordered
<1>7. f \in AttemptRuns(q) /\ q.runs[f].stage = p.runs[f].stage /\ f \in 1..n
  BY <1>1, ContinuedRuns
<1>8. \A j \in AttemptRuns(q) : f <= j /\ q.runs[f].stage <= q.runs[j].stage
  <2>1. p.runs[f].stage <= q.stage
    <3>1. PICK j \in AttemptRuns(p) : p.runs[j].stage <= q.stage
      BY DEF Continues
    <3>2. p.runs[f].stage \in Nat /\ p.runs[j].stage \in Nat /\ p.runs[f].stage <= p.runs[j].stage
      BY <1>1, <1>2, <1>6
    <3> QED BY <1>2, <3>1, <3>2
  <2>2. \A j \in AttemptRuns(p) : f <= j /\ q.runs[f].stage <= q.runs[j].stage
    BY <1>1, <1>6, <1>7
  <2>3. f <= n + 1 /\ q.runs[f].stage <= q.runs[n + 1].stage
    BY <1>1, <1>7, <2>1
  <2> QED BY <1>1, <2>2, <2>3, ContinuedRuns
<1>9. ASSUME NEW s \in q.runs[f].stage..(q.stage - 1)
      PROVE  \E i \in LiveRuns(q) : q.runs[i].stage = s
  <2>1. s \in Nat /\ s < q.stage /\ p.runs[f].stage <= s
    BY <1>1, <1>2, <1>7
  <2>2. PICK i \in LiveRuns(p) : p.runs[i].stage = s
    <3>1. CASE s < p.stage
      <4>1. s \in p.runs[f].stage..(p.stage - 1)
        BY <1>1, <1>2, <1>7, <2>1, <3>1
      <4> QED BY <1>6, <4>1
    <3>2. CASE s = p.stage
      BY <3>2, LastIsLive, InvCurrent DEF Last
    <3> QED BY <1>2, <2>1, <3>1, <3>2
  <2>3. q.runs[i] = p.runs[i] /\ i \in AttemptRuns(q)
    BY <1>1, <2>1, <2>2, ContinuedRuns
  <2>4. i \in LiveRuns(q)
    BY <2>3 DEF LiveRuns
  <2> QED BY <2>2, <2>3, <2>4
<1> QED BY <1>4, <1>5, <1>7, <1>8, <1>9 DEF Ordered

\* The runs that are not given up stay what they rest on.
LEMMA ContinuedGrounded ==
    ASSUME NEW p, Inv(p), NEW q, Inv(q), Continues(p, q), Grounded(p)
    PROVE  Grounded(q)
<1>1. /\ Last(q) = q.runs[Len(q.runs)] /\ Last(q).status = "RUNNING"
      /\ Len(q.runs) \notin DOMAIN p.runs
      /\ \A i \in DOMAIN p.runs :
            /\ i \notin Affected(p, q.stage) => q.runs[i] = p.runs[i]
            /\ i \in Affected(p, q.stage) => q.runs[i].status = "SUPERSEDED"
  BY BegunRuns DEF Continues
<1>2. ASSUME NEW i \in AttemptRuns(q), NEW stage, Done(q.runs[i], stage)
      PROVE  /\ i \in AttemptRuns(p) /\ q.runs[i] = p.runs[i] /\ i \notin Affected(p, q.stage)
  <2>1. i # Len(q.runs)
    BY <1>1, <1>2 DEF Done
  <2>2. i \in AttemptRuns(p)
    BY <2>1, ContinuedRuns
  <2> QED BY <1>1, <1>2, <2>2 DEF Done, AttemptRuns
<1>3. \A i \in AttemptRuns(q) : Done(q.runs[i], INVESTIGATE) => Evidenced(q.runs[i])
  BY <1>2 DEF Grounded
<1>4. ASSUME NEW d \in AttemptRuns(q), Done(q.runs[d], DECIDE)
      PROVE  \E i \in AttemptRuns(q) : i < d /\ Done(q.runs[i], INVESTIGATE)
  <2>1. d \in AttemptRuns(p) /\ Done(p.runs[d], DECIDE) /\ d \notin Affected(p, q.stage)
    BY <1>2, <1>4
  <2>2. DECIDE < q.stage
    <3>1. d \in LiveRuns(p) /\ p.runs[d].stage = DECIDE
      BY <2>1 DEF LiveRuns, Done
    <3>2. q.stage \in Nat
      BY InvRuns
    <3> QED BY <2>1, <3>1, <3>2 DEF Affected, DECIDE
  <2>3. PICK i \in AttemptRuns(p) : i < d /\ Done(p.runs[i], INVESTIGATE)
    BY <2>1 DEF Grounded
  <2>4. p.runs[i].stage < q.stage
    <3>1. q.stage \in Nat
      BY InvRuns
    <3> QED BY <2>2, <2>3, <3>1 DEF Done, INVESTIGATE, DECIDE
  <2>5. i \in AttemptRuns(q) /\ q.runs[i] = p.runs[i]
    BY <2>4, ContinuedRuns
  <2> QED BY <2>3, <2>5
<1> QED BY <1>3, <1>4 DEF Grounded

\* RESPOND starts on the decision that DECIDE ended with.
LEMMA ContinuedInForce ==
    ASSUME NEW p, Inv(p), NEW q, Inv(q), Continues(p, q), InForce(p)
    PROVE  InForce(q)
<1> SUFFICES ASSUME q.stage >= RESPOND
             PROVE  /\ \E d \in AttemptRuns(q) :
                          Done(q.runs[d], DECIDE) /\ q.runs[d].decision = q.decision
                    /\ Last(q).action = NoAction \/ Last(q).action.decision = q.decision
  BY DEF InForce
<1>1. Last(q).action = NoAction
  BY BegunRuns DEF Continues
<1>2. q.decision = p.decision /\ q.stage <= p.stage + 1
  BY DEF Continues
<1>3. q.stage \in 1..6 /\ p.stage \in 1..6
  BY InvRuns
<1>4. PICK d \in AttemptRuns(p) : Done(p.runs[d], DECIDE) /\ p.runs[d].decision = p.decision
  <2>1. CASE p.stage >= RESPOND
    BY <2>1 DEF InForce
  <2>2. CASE ~(p.stage >= RESPOND)
    <3>1. p.stage = DECIDE /\ q.stage = RESPOND
      BY <1>2, <1>3, <2>2 DEF DECIDE, RESPOND
    <3>2. Last(p).decision = p.decision
      BY <3>1 DEF Continues
    <3>3. Last(p) = p.runs[Len(p.runs)] /\ Len(p.runs) \in LiveRuns(p) /\ Last(p).stage = DECIDE
      BY <3>1, InvCurrent, LastIsLive DEF Last
    <3>4. DECIDE < q.stage
      BY <3>1 DEF DECIDE, RESPOND
    <3>5. Last(p).status = "SUCCEEDED"
      BY <3>3, <3>4 DEF Continues
    <3> QED BY <3>2, <3>3, <3>5 DEF LiveRuns, Done
  <2> QED BY <2>1, <2>2
<1>5. p.runs[d].stage < q.stage
  BY <1>3, <1>4 DEF Done, DECIDE, RESPOND
<1>6. d \in AttemptRuns(q) /\ q.runs[d] = p.runs[d]
  BY <1>5, ContinuedRuns
<1> QED BY <1>1, <1>2, <1>4, <1>6

\* What has crossed the boundary keeps what it rests on.
LEMMA BegunAuthorized ==
    ASSUME NEW p, Inv(p), NEW q, Inv(q), NEW gone, Begins(p, q, gone), Authorized(p),
           p.receipt = 0 \/ gone \subseteq {Len(p.runs)}
    PROVE  Authorized(q)
<1> DEFINE n == Len(p.runs)
<1>1. /\ DOMAIN q.runs = DOMAIN p.runs \cup {Len(q.runs)} /\ DOMAIN p.runs = 1..n /\ n \in Nat
      /\ \A i \in DOMAIN p.runs :
            /\ q.runs[i].attempt = p.runs[i].attempt
            /\ q.runs[i].action = p.runs[i].action
            /\ i \notin gone => q.runs[i] = p.runs[i]
      /\ q.runs[Len(q.runs)].action = NoAction
  BY BegunRuns
<1>2. ASSUME NEW i \in DOMAIN q.runs, q.runs[i].action.execution # "NOT_STARTED"
      PROVE  q.runs[i].action.approval = "APPROVED"
  <2>1. i \in DOMAIN p.runs
    BY <1>1, <1>2 DEF NoAction
  <2> QED BY <1>1, <1>2, <2>1 DEF Authorized
<1>3. ASSUME NEW i \in DOMAIN q.runs, Crossed(q.runs[i])
      PROVE  Rests(q.runs, i)
  <2>1. i \in DOMAIN p.runs
    BY <1>1, <1>3 DEF NoAction, Crossed
  <2>2. Crossed(p.runs[i])
    BY <1>1, <1>3, <2>1 DEF Crossed
  <2>3. PICK d, m \in DOMAIN p.runs :
          /\ m < d /\ d < i
          /\ p.runs[m].attempt = p.runs[i].attempt
          /\ Done(p.runs[m], INVESTIGATE) /\ Evidenced(p.runs[m])
          /\ p.runs[d].attempt = p.runs[i].attempt
          /\ Done(p.runs[d], DECIDE)
          /\ p.runs[d].decision = p.runs[i].action.decision
    BY <2>1, <2>2 DEF Authorized, Rests
  <2>4. d \notin gone /\ m \notin gone
    <3>1. CASE p.receipt = 0
      <4>1. p.runs[i].attempt # p.attempt
        BY <1>1, <2>1, <2>2, <3>1 DEF Inv, Bounded
      <4>2. gone \subseteq AttemptRuns(p)
        BY DEF Begins, LiveRuns
      <4> QED BY <2>3, <4>1, <4>2 DEF AttemptRuns
    <3>2. CASE gone \subseteq {n}
      BY <1>1, <2>1, <2>3, <3>2
    <3> QED BY <3>1, <3>2
  <2>5. q.runs[d] = p.runs[d] /\ q.runs[m] = p.runs[m]
    BY <1>1, <2>4
  <2>6. q.runs[i].attempt = p.runs[i].attempt /\ q.runs[i].action = p.runs[i].action
    BY <1>1, <2>1
  <2> QED BY <1>1, <2>3, <2>5, <2>6 DEF Rests
<1> QED BY <1>2, <1>3 DEF Authorized

\* VERIFY starts over a receipt that records a success.
LEMMA ContinuedStanding ==
    ASSUME NEW p, Inv(p), NEW q, Inv(q), Continues(p, q), Standing(p)
    PROVE  Standing(q)
<1> DEFINE n == Len(p.runs)
<1>1. /\ DOMAIN p.runs = 1..n /\ n \in Nat /\ q.receipt = p.receipt /\ q.attempt = p.attempt
      /\ \A i \in DOMAIN p.runs :
            q.runs[i].attempt = p.runs[i].attempt /\ q.runs[i].action = p.runs[i].action
      /\ Last(q).status = "RUNNING" /\ q.lifecycle # "RESOLVED"
  <2>1. Begins(p, q, Affected(p, q.stage)) /\ q.receipt = p.receipt /\ q.attempt = p.attempt
    BY DEF Continues
  <2>2. q.lifecycle # "RESOLVED"
    BY <2>1 DEF Begins
  <2> QED BY <2>1, <2>2, BegunRuns
<1>2. p.receipt \in 0..n
  BY DEF Inv, Bounded
<1>3. q.receipt # 0 => q.runs[q.receipt].attempt = q.attempt
  BY <1>1, <1>2 DEF Standing
<1>4. ASSUME q.stage = VERIFY
      PROVE  q.runs[q.receipt].action.execution = "SUCCEEDED"
  <2>1. p.stage = RESPOND /\ Done(Last(p), RESPOND) /\ p.receipt # 0
    BY <1>4 DEF Continues
  <2>2. p.receipt = n /\ Last(p) = p.runs[n]
    BY <2>1 DEF Inv, Bounded, Last
  <2>3. Last(p).action.execution = "SUCCEEDED"
    BY <2>1 DEF Standing
  <2> QED BY <1>1, <1>2, <2>1, <2>2, <2>3
<1> QED BY <1>1, <1>3, <1>4 DEF Standing, Done

\* An attempt that goes on keeps what the past says.
LEMMA ContinuesKeepsPast ==
    ASSUME NEW p, Inv(p), NEW q, Inv(q), Continues(p, q), Past(p)
    PROVE  Past(q)
<1>1. Authorized(q)
  <2>1. Begins(p, q, Affected(p, q.stage)) /\ (p.receipt = 0 \/ Affected(p, q.stage) = {})
    BY DEF Continues
  <2> QED BY <2>1, BegunAuthorized DEF Past
<1> QED BY <1>1, ContinuedOrdered, ContinuedGrounded, ContinuedInForce, ContinuedStanding DEF Past

\* A child attempt has no past yet, and leaves its parent's alone.
LEMMA BranchKeepsPast ==
    ASSUME NEW p, Inv(p), NEW q, Inv(q), BranchesOff(p, q), Past(p)
    PROVE  Past(q)
<1> DEFINE n == Len(p.runs)
<1>1. Begins(p, q, {n}) /\ q.attempt = p.attempt + 1 /\ q.stage < RESPOND
  BY DEF BranchesOff
<1>2. /\ DOMAIN q.runs = DOMAIN p.runs \cup {Len(q.runs)}
      /\ \A i \in DOMAIN p.runs : q.runs[i].attempt = p.runs[i].attempt
      /\ Last(q) = q.runs[Len(q.runs)] /\ Last(q).stage = q.stage
      /\ Last(q).attempt = q.attempt /\ Last(q).status = "RUNNING"
  BY <1>1, BegunRuns
<1>3. /\ p.attempt \in Nat /\ \A i \in DOMAIN p.runs : p.runs[i].attempt \in Nat
      /\ \A i \in DOMAIN p.runs : p.runs[i].attempt <= p.attempt
      /\ q.stage \in 1..6 /\ Len(q.runs) \in Nat
  BY InvRuns DEF Inv, WellPlaced
<1>4. \A i \in DOMAIN p.runs : p.runs[i].attempt # q.attempt
  BY <1>1, <1>3
<1>5. AttemptRuns(q) = {Len(q.runs)}
  BY <1>2, <1>4 DEF AttemptRuns
<1>6. Ordered(q)
  BY <1>2, <1>3, <1>5 DEF Ordered, LiveRuns
<1>7. Grounded(q)
  BY <1>2, <1>5 DEF Grounded, Done
<1>8. InForce(q)
  BY <1>1, <1>3 DEF InForce, RESPOND
<1>9. Authorized(q)
  BY <1>1, BegunAuthorized DEF Past
<1>10. Standing(q)
  <2>1. q.receipt = 0 /\ q.stage # VERIFY
    BY <1>1, <1>3 DEF Inv, Bounded, RESPOND, VERIFY
  <2>2. q.lifecycle # "RESOLVED"
    BY <1>1 DEF Begins
  <2> QED BY <1>2, <2>1, <2>2 DEF Standing, Done
<1> QED BY <1>6, <1>7, <1>8, <1>9, <1>10 DEF Past

\* The form of these steps: a new run is appended.
LEMMA AppendedBegins ==
    ASSUME NEW p, Inv(p), NEW q, Inv(q), NEW old \in Seq(StageRun), NEW gone,
           Len(old) = Len(p.runs), gone \subseteq LiveRuns(p),
           \A i \in DOMAIN p.runs :
              old[i] = IF i \in gone THEN Supersede(p.runs[i]) ELSE p.runs[i],
           q.runs = Append(old, NewRun(q.attempt, q.stage)),
           q.status = "ACTIVE", q.lifecycle # "RESOLVED"
    PROVE  Begins(p, q, gone)
<1> DEFINE n == Len(p.runs)
           new == NewRun(q.attempt, q.stage)
<1>1. DOMAIN p.runs = 1..n /\ n \in Nat
  BY InvRuns
<1>2. new \in StageRun
  BY InvCurrent, NewRunType DEF Projection
<1> HIDE DEF new
<1>3. q.runs = Append(old, new)
  BY DEF new
<1>4. Len(q.runs) = n + 1 /\ q.runs[n + 1] = new /\ \A i \in 1..n : q.runs[i] = old[i]
  BY <1>1, <1>2, <1>3
<1> QED BY <1>1, <1>4 DEF Begins, Last, new

\* NEXT goes on to the following stage.
LEMMA AdvanceContinues ==
    ASSUME NEW p, Inv(p), Past(p), NEW q, Inv(q), AdvanceStage(p, q)
    PROVE  Continues(p, q)
<1>1. /\ p \in Projection /\ p.runs \in Seq(StageRun) /\ CurrentStatus(p) = Last(p).status
      /\ Current(p) = Last(p) /\ Last(p) = p.runs[Len(p.runs)] /\ Last(p).stage = p.stage
      /\ p.stage \in 1..6
  BY InvCurrent, InvRuns DEF Last
<1>2. /\ Last(p).status = "SUCCEEDED" /\ p.stage # VERIFY
      /\ p.stage = RESPOND => p.receipt # 0
      /\ p.stage = DECIDE => Last(p).decision = p.decision
  BY <1>1 DEF AdvanceStage, MayNext, Executed, DecisionStale
<1>3. /\ q.attempt = p.attempt /\ q.stage = p.stage + 1 /\ q.receipt = p.receipt
      /\ q.decision = p.decision /\ q.status = p.status
      /\ q.runs = Append(p.runs, NewRun(p.attempt, p.stage + 1))
      /\ q.lifecycle = LifecycleAt(p.stage + 1)
  BY <1>1 DEF AdvanceStage, Projection
<1>4. p.status = "ACTIVE" /\ q.lifecycle # "RESOLVED" /\ q.status = "ACTIVE"
  <2>1. p.status # "COMPLETED"
    BY DEF AdvanceStage, MayNext, Idle, Open
  <2>2. p.status = "ACTIVE"
    BY <1>2, <2>1, InvFields DEF Statuses
  <2>3. LifecycleAt(p.stage + 1) # "RESOLVED"
    BY DEF LifecycleAt
  <2> QED BY <1>3, <2>2, <2>3
<1>5. \A i \in LiveRuns(p) : p.runs[i].stage <= p.stage /\ p.runs[i].stage \in 1..6
  <2>1. \A i \in LiveRuns(p) : p.runs[i].stage <= p.stage
    BY <1>1, CurrentIsLast DEF Inv
  <2> QED BY <2>1, InvRuns DEF LiveRuns, AttemptRuns
<1>6. Affected(p, q.stage) = {}
  BY <1>1, <1>3, <1>5 DEF Affected
<1>7. Begins(p, q, {})
  BY <1>1, <1>3, <1>4, AppendedBegins
<1>8. Len(p.runs) \in AttemptRuns(p)
  BY LastIsLive DEF LiveRuns
<1>9. q.stage <= p.stage + 1 /\ p.runs[Len(p.runs)].stage <= q.stage
  BY <1>1, <1>3
<1>10. q.stage = VERIFY => p.stage = RESPOND /\ Done(Last(p), RESPOND) /\ p.receipt # 0
  BY <1>1, <1>2, <1>3 DEF Done, RESPOND, VERIFY
<1>11. q.stage = RESPOND /\ p.stage = DECIDE => Last(p).decision = p.decision
  BY <1>2
<1>12. \A i \in LiveRuns(p) : p.runs[i].status = "SUCCEEDED"
  BY <1>1, <1>2 DEF Past, Ordered
<1> QED
  BY <1>3, <1>6, <1>7, <1>8, <1>9, <1>10, <1>11, <1>12 DEF Continues

\* RETRY and RERUN go on at a stage the attempt has had.
LEMMA RerunContinues ==
    ASSUME NEW p, Inv(p), Past(p), NEW q, Inv(q), NEW target \in Stages, RerunStage(p, target, q)
    PROVE  Continues(p, q)
<1> DEFINE gone == Affected(p, target)
           old == [i \in DOMAIN p.runs |-> IF i \in gone THEN Supersede(p.runs[i]) ELSE p.runs[i]]
<1>1. /\ p \in Projection /\ p.runs \in Seq(StageRun)
      /\ Last(p) = p.runs[Len(p.runs)] /\ Last(p).stage = p.stage
      /\ p.stage \in 1..6 /\ target \in 1..6
      /\ \A i \in DOMAIN p.runs : p.runs[i] \in StageRun /\ p.runs[i].stage \in 1..6
      /\ DOMAIN p.runs = 1..Len(p.runs) /\ Len(p.runs) \in Nat
  BY InvCurrent, InvRuns DEF Last, Stages, DETECT, VERIFY
<1>2. p.receipt = 0 /\ target # VERIFY /\ target <= p.stage
  BY DEF RerunStage, Executed
<1>3. /\ q.attempt = p.attempt /\ q.stage = target /\ q.receipt = 0
      /\ q.decision = NextDecision(p, target) /\ q.status = "ACTIVE" /\ q.lifecycle = "ACTIVE"
      /\ q.runs = Append(old, NewRun(p.attempt, target))
  BY <1>1 DEF RerunStage, Projection
<1>4. old \in Seq(StageRun) /\ Len(old) = Len(p.runs)
  <2>1. \A i \in DOMAIN p.runs : old[i] \in StageRun
    BY <1>1, SupersedeRun
  <2>2. old \in [1..Len(p.runs) -> StageRun] /\ DOMAIN old = 1..Len(p.runs)
    BY <1>1, <2>1
  <2> HIDE DEF old
  <2>3. old \in Seq(StageRun)
    BY <1>1, <2>2, SeqDef
  <2> QED BY <1>1, <2>2, <2>3, LenProperties
<1>5. gone \subseteq LiveRuns(p)
  BY DEF Affected
<1>6. \A i \in DOMAIN p.runs : old[i] = IF i \in gone THEN Supersede(p.runs[i]) ELSE p.runs[i]
  OBVIOUS
<1> HIDE DEF old
<1>7. Begins(p, q, gone)
  <2> HIDE DEF gone
  <2> QED BY <1>3, <1>4, <1>5, <1>6, AppendedBegins
<1>8. \E j \in AttemptRuns(p) : p.runs[j].stage <= target
  <2>1. CASE target = p.stage
    BY <1>1, <2>1, LastIsLive DEF LiveRuns
  <2>2. CASE target # p.stage
    <3>1. target \in CandidateRerunStages(p)
      BY <2>2 DEF RerunStage, MayRerun
    <3>2. \E j \in AttemptRuns(p) : p.runs[j].stage = target
      BY <1>2, <2>2, <3>1 DEF CandidateRerunStages, Executed
    <3> QED BY <1>1, <3>2
  <2> QED BY <2>1, <2>2
<1>9. ASSUME NEW i \in LiveRuns(p), p.runs[i].stage < target
      PROVE  p.runs[i].status = "SUCCEEDED"
  <2>1. i # Len(p.runs)
    BY <1>1, <1>2, <1>9
  <2> QED BY <2>1 DEF Past, Ordered
<1>10. target >= RESPOND => NextDecision(p, target) = p.decision
  BY <1>1 DEF NextDecision, DECIDE, RESPOND
<1>11. ~(target = RESPOND /\ p.stage = DECIDE) /\ target <= p.stage + 1
  BY <1>1, <1>2 DEF DECIDE, RESPOND
<1> HIDE DEF gone
<1> QED
  BY <1>2, <1>3, <1>7, <1>8, <1>9, <1>10, <1>11 DEF Continues, gone

\* RERUN after the boundary.
LEMMA BranchBranches ==
    ASSUME NEW p, Inv(p), NEW q, Inv(q), NEW target \in Stages, BranchAttempt(p, target, q)
    PROVE  BranchesOff(p, q)
<1> DEFINE n == Len(p.runs)
           old == [p.runs EXCEPT ![n] = Supersede(p.runs[n])]
<1>1. /\ p \in Projection /\ p.runs \in Seq(StageRun) /\ CurrentRun(p) = n
      /\ n \in DOMAIN p.runs /\ p.runs[n] \in StageRun
  BY InvCurrent DEF Last
<1>2. /\ q.attempt = p.attempt + 1 /\ q.stage = target /\ q.status = "ACTIVE"
      /\ q.lifecycle = "ACTIVE" /\ q.runs = Append(old, NewRun(p.attempt + 1, target))
  BY <1>1 DEF BranchAttempt, Projection
<1>3. old \in Seq(StageRun) /\ Len(old) = n
  <2>1. Supersede(p.runs[n]) \in StageRun
    BY <1>1, SupersedeRun
  <2> QED BY <1>1, <2>1, ReplaceRun
<1>4. \A i \in DOMAIN p.runs : old[i] = IF i \in {n} THEN Supersede(p.runs[i]) ELSE p.runs[i]
  BY <1>1
<1>5. {n} \subseteq LiveRuns(p)
  BY LastIsLive
<1>6. target < RESPOND
  BY DEF BranchAttempt, Stages, DETECT, RESPOND, VERIFY
<1> HIDE DEF old
<1>7. Begins(p, q, {n})
  BY <1>2, <1>3, <1>4, <1>5, AppendedBegins
<1> QED BY <1>2, <1>6, <1>7 DEF BranchesOff

-----------------------------------------------------------------------------
(* The specification.                                                      *)

PastInv == IInv /\ Past(projection) /\ UndoneLate(projection, rollbacks)

\* A projection that has just been bootstrapped has one run and no past.
LEMMA BootstrapPast ==
    ASSUME NEW premise \in Premises, NEW qualified \in BOOLEAN
    PROVE  Past(Bootstrap(premise, qualified))
<1> DEFINE run == [NewRun(1, DETECT) EXCEPT !.status = IF qualified THEN "SUCCEEDED" ELSE "RUNNING"]
           p == Bootstrap(premise, qualified)
<1>1. /\ run.attempt = 1 /\ run.stage = DETECT /\ run.action = NoAction
      /\ run.status # "SUPERSEDED"
  BY DEF NewRun
<1>2. /\ p.runs = <<run>> /\ p.attempt = 1 /\ p.stage = DETECT /\ p.receipt = 0
      /\ p.lifecycle # "RESOLVED"
  BY DEF Bootstrap
<1> HIDE DEF run, p
<1>3. DOMAIN p.runs = {1} /\ p.runs[1] = run /\ Len(p.runs) = 1 /\ Last(p) = run
  BY <1>2 DEF Last
<1>4. AttemptRuns(p) = {1} /\ LiveRuns(p) = {1}
  BY <1>1, <1>2, <1>3 DEF AttemptRuns, LiveRuns
<1>5. Ordered(p)
  BY <1>1, <1>2, <1>3, <1>4 DEF Ordered, DETECT
<1>6. Grounded(p) /\ InForce(p)
  BY <1>1, <1>2, <1>3, <1>4
  DEF Grounded, InForce, Done, DETECT, INVESTIGATE, DECIDE, RESPOND
<1>7. Authorized(p)
  BY <1>1, <1>3 DEF Authorized, Crossed, NoAction
<1>8. Standing(p)
  BY <1>1, <1>2, <1>3 DEF Standing, Done, DETECT, RESPOND, VERIFY
<1>9. Past(p)
  BY <1>5, <1>6, <1>7, <1>8 DEF Past
<1> QED BY <1>9 DEF p

\* The three shapes of a step.
Moves(p, q) == Touched(p, q) \/ Continues(p, q) \/ BranchesOff(p, q)

\* Every step stays at the current run, goes on in the attempt, or branches off.
LEMMA NextMoves ==
    ASSUME Inv(projection), Inv(projection'), Past(projection), Next
    PROVE  projection' = projection \/ Moves(projection, projection')
<1>1. CASE Sync
  BY <1>1, SyncTouches DEF Sync, Moves
<1>2. CASE Advance
  BY <1>2, AdvanceContinues DEF Advance, Moves
<1>3. CASE Invalidate
  BY <1>3, InvalidateTouches DEF Invalidate, Moves
<1>4. CASE Complete
  BY <1>4, CompleteTouches DEF Complete, Moves
<1>5. CASE Rerun
  BY <1>5, RerunContinues DEF Rerun, Moves
<1>6. CASE Branch
  BY <1>6, BranchBranches DEF Branch, Moves
<1>7. CASE OperatorEscalate
  BY <1>7, EscalateTouches DEF OperatorEscalate, Moves
<1>8. CASE Approve
  BY <1>8, ApproveTouches DEF Approve, Moves
<1>9. CASE Reject
  BY <1>9, RejectTouches DEF Reject, Moves
<1>10. CASE RunAgent
  BY <1>10, StartAgentTouches DEF RunAgent, Moves
<1>11. CASE AgentAnswers
  BY <1>11, FinishAgentTouches DEF AgentAnswers, Moves
<1>12. CASE Query
  BY <1>12, QueryTouches DEF Query, Moves
<1>13. CASE TriageDone \/ InvestigateDone \/ RespondDone \/ VerifyDone
  BY <1>13, SucceedTouches
  DEF TriageDone, InvestigateDone, RespondDone, VerifyDone, SucceedTriage, SucceedInvestigate,
      SucceedRespond, SucceedVerify, TRIAGE, INVESTIGATE, DECIDE, RESPOND, VERIFY, Moves
<1>14. CASE DecideDone
  BY <1>14, DecideTouches DEF DecideDone, Moves
<1>15. CASE AnalysisFailed \/ RespondFailed \/ VerifyFailed
  BY <1>15, FailTouches
  DEF AnalysisFailed, RespondFailed, VerifyFailed, FailAnalysis, FailRespond, FailVerify, Moves
<1>16. CASE Propose
  BY <1>16, AddActionTouches DEF Propose, Moves
<1>17. CASE ExecutionStarted
  BY <1>17, MarkTouches DEF ExecutionStarted, Moves
<1>18. CASE ExecutionRecorded
  BY <1>18, RecordTouches DEF ExecutionRecorded, Moves
<1>19. CASE RollbackRecorded
  BY <1>19, RollbackTouches DEF RollbackRecorded, Moves
<1>20. CASE RollbackLost
  BY <1>20 DEF RollbackLost
<1> QED
  BY <1>1, <1>2, <1>3, <1>4, <1>5, <1>6, <1>7, <1>8, <1>9, <1>10, <1>11, <1>12, <1>13,
     <1>14, <1>15, <1>16, <1>17, <1>18, <1>19, <1>20 DEF Next

\* Such a step keeps the rollbacks in flight behind a failed VERIFY run.
LEMMA MovesKeepsUndoneLate ==
    ASSUME NEW p, Inv(p), NEW q, Inv(q), Past(p), Moves(p, q),
           NEW undoing, undoing \subseteq DOMAIN p.runs, UndoneLate(p, undoing)
    PROVE  UndoneLate(q, undoing)
<1> SUFFICES ASSUME NEW i \in undoing, q.runs[i].attempt = q.attempt
             PROVE  q.stage = VERIFY /\ Last(q).status \notin Going
  BY DEF UndoneLate
<1>1. i \in DOMAIN p.runs
  OBVIOUS
<1>2. CASE Touched(p, q)
  <2>1. p.runs[i].attempt = p.attempt /\ q.stage = p.stage
    BY <1>1, <1>2, TouchedRuns DEF Touched
  <2>2. p.stage = VERIFY /\ Last(p).status \notin Going
    BY <2>1 DEF UndoneLate
  <2> QED BY <1>2, <2>1, <2>2 DEF Touched, Accounted
<1>3. CASE Continues(p, q)
  <2>1. p.runs[i].attempt = p.attempt
    BY <1>1, <1>3, BegunRuns DEF Continues
  <2>2. p.stage = VERIFY /\ Last(p).status \notin Going
    BY <2>1 DEF UndoneLate
  <2>3. p.receipt # 0
    BY <2>2 DEF Inv, Bounded
  <2>4. Affected(p, q.stage) = {}
    BY <1>3, <2>3 DEF Continues
  <2>5. p.stage < q.stage
    <3>1. Len(p.runs) \in LiveRuns(p) /\ p.runs[Len(p.runs)].stage = p.stage
      BY LastIsLive, InvCurrent DEF Last
    <3>2. q.stage \in Nat /\ p.stage \in Nat
      BY InvRuns
    <3> QED BY <2>4, <3>1, <3>2 DEF Affected
  <2>6. q.stage \in 1..6
    BY InvRuns
  <2> QED BY <2>2, <2>5, <2>6 DEF VERIFY
<1>4. CASE BranchesOff(p, q)
  <2>1. q.runs[i].attempt = p.runs[i].attempt /\ q.attempt = p.attempt + 1
    BY <1>1, <1>4, BegunRuns DEF BranchesOff
  <2>2. p.runs[i].attempt <= p.attempt
    BY <1>1 DEF Inv, WellPlaced
  <2>3. p.attempt \in Nat /\ p.runs[i].attempt \in Nat
    BY <1>1, InvRuns
  <2>4. p.runs[i].attempt # p.attempt + 1
    BY <2>2, <2>3
  <2> QED BY <2>1, <2>4
<1> QED BY <1>2, <1>3, <1>4 DEF Moves

\* A rollback is only asked for by a VERIFY run that fails.
LEMMA NextUndoing ==
    ASSUME Next
    PROVE  rollbacks' \subseteq rollbacks \/ VerifyFailed
BY DEF Next, Sync, Advance, Invalidate, Complete, Rerun, Branch, OperatorEscalate, Approve,
       Reject, RunAgent, AgentAnswers, Query, TriageDone, InvestigateDone, RespondDone,
       VerifyDone, DecideDone, AnalysisFailed, RespondFailed,
       Propose, ExecutionStarted, ExecutionRecorded, RollbackRecorded, RollbackLost

\* The run that asks for it has failed.
LEMMA VerifyFailedStatus ==
    ASSUME Inv(projection), Inv(projection'), VerifyFailed
    PROVE  projection'.stage = VERIFY /\ Last(projection').status = "FAILED"
<1> DEFINE p == projection
           r == [Last(p) EXCEPT !.status = "FAILED", !.failure = "OTHER"]
<1>1. PICK q : q = projection'
  OBVIOUS
<1>2. /\ p \in Projection /\ CurrentRun(p) = Len(p.runs) /\ Last(p) \in StageRun
      /\ Len(p.runs) \in DOMAIN p.runs
  BY InvCurrent
<1>3. q.stage = VERIFY /\ q.runs = [p.runs EXCEPT ![Len(p.runs)] = r]
  BY <1>1, <1>2 DEF VerifyFailed, FailVerify, FailCurrent, Projection, Last
<1>4. Len(q.runs) = Len(p.runs)
  <2>1. DOMAIN q.runs = DOMAIN p.runs
    BY <1>3
  <2>2. /\ DOMAIN p.runs = 1..Len(p.runs) /\ DOMAIN q.runs = 1..Len(q.runs)
        /\ Len(p.runs) \in Nat /\ Len(q.runs) \in Nat
    BY <1>1, InvRuns
  <2> QED BY <2>1, <2>2
<1>5. Last(q) = r /\ r.status = "FAILED"
  BY <1>2, <1>3, <1>4 DEF Last, StageRun
<1> QED BY <1>1, <1>3, <1>5

\* The initial states satisfy the inductive invariant.
LEMMA InitPastInv == Init => PastInv
BY InitIInv, BootstrapPast DEF Init, PastInv, UndoneLate

\* Every step keeps the inductive invariant.
LEMMA NextPastInv == PastInv /\ [Next]_vars => PastInv'
<1> SUFFICES ASSUME PastInv, [Next]_vars PROVE PastInv'
  OBVIOUS
<1>1. CASE UNCHANGED vars
  BY <1>1 DEF PastInv, IInv, UndoneLate, vars
<1>2. CASE Next
  <2>1. /\ Inv(projection) /\ Inv(projection') /\ IInv' /\ Past(projection)
        /\ rollbacks \subseteq DOMAIN projection.runs /\ UndoneLate(projection, rollbacks)
    BY NextIInv DEF PastInv, IInv
  <2>2. projection' = projection \/ Moves(projection, projection')
    BY <1>2, <2>1, NextMoves
  <2>3. Past(projection')
    BY <2>1, <2>2, TouchedKeepsPast, ContinuesKeepsPast, BranchKeepsPast DEF Moves
  <2>4. UndoneLate(projection', rollbacks)
    BY <2>1, <2>2, MovesKeepsUndoneLate
  <2>5. UndoneLate(projection', rollbacks')
    <3>1. CASE rollbacks' \subseteq rollbacks
      BY <2>4, <3>1 DEF UndoneLate
    <3>2. CASE VerifyFailed
      <4>1. "FAILED" \notin Going
        BY DEF Going
      <4> QED BY <2>1, <3>2, <4>1, VerifyFailedStatus DEF UndoneLate
    <3> QED BY <1>2, <3>1, <3>2, NextUndoing
  <2> QED BY <2>1, <2>3, <2>5 DEF PastInv
<1> QED BY <1>1, <1>2

(***************************************************************************)
(* The second invariant the other theorems follow from: what the runs of   *)
(* the current attempt, and the actions that crossed the boundary in any   *)
(* attempt, rest on.                                                       *)
(***************************************************************************)
THEOREM PastInvariant == Spec => []PastInv
<1> QED BY InitPastInv, NextPastInv, PTL DEF Spec

\* The first stage is that of the attempt's first run.
LEMMA FirstStageIs ==
    ASSUME NEW p, Inv(p), NEW f \in AttemptRuns(p), \A j \in AttemptRuns(p) : f <= j
    PROVE  FirstStage(p) = p.runs[f].stage
<1> DEFINE first == CHOOSE i \in AttemptRuns(p) : \A j \in AttemptRuns(p) : i <= j
<1>1. first \in AttemptRuns(p) /\ \A j \in AttemptRuns(p) : first <= j
  OBVIOUS
<1>2. AttemptRuns(p) \subseteq Nat
  BY InvRuns DEF AttemptRuns
<1> HIDE DEF first
<1>3. first = f
  <2>1. first <= f /\ f <= first /\ first \in Nat /\ f \in Nat
    BY <1>1, <1>2
  <2> QED BY <2>1
<1> QED BY <1>3 DEF FirstStage, first

(***************************************************************************)
(* Whatever was retried, rerun, escalated or rolled back, every stage from *)
(* the attempt's first one to the one before the current has exactly one   *)
(* live run and it succeeded: advance and rerun never skip a failed stage. *)
(***************************************************************************)
THEOREM StagesPassed == Spec => []NoSkippedStage
<1>1. PastInv => NoSkippedStage
  <2> SUFFICES ASSUME PastInv,
                      NEW s \in FirstStage(projection)..(projection.stage - 1)
               PROVE  \E i \in LiveRuns(projection) :
                         /\ {j \in LiveRuns(projection) : projection.runs[j].stage = s} = {i}
                         /\ projection.runs[i].status = "SUCCEEDED"
    BY DEF NoSkippedStage
  <2> DEFINE p == projection
  <2>1. Inv(p) /\ Ordered(p)
    BY DEF PastInv, IInv, Past
  <2>2. PICK f \in AttemptRuns(p) :
            /\ \A j \in AttemptRuns(p) : f <= j /\ p.runs[f].stage <= p.runs[j].stage
            /\ \A t \in p.runs[f].stage..(p.stage - 1) :
                  \E i \in LiveRuns(p) : p.runs[i].stage = t
    BY <2>1 DEF Ordered
  <2>3. FirstStage(p) = p.runs[f].stage
    BY <2>1, <2>2, FirstStageIs
  <2>4. PICK i \in LiveRuns(p) : p.runs[i].stage = s
    BY <2>2, <2>3
  <2>5. i # Len(p.runs)
    <3>1. p.runs[Len(p.runs)].stage = p.stage /\ p.stage \in 1..6
      BY <2>1, InvCurrent, InvRuns DEF Last
    <3>2. p.runs[f].stage \in 1..6
      BY <2>1, InvRuns DEF AttemptRuns
    <3>3. s # p.stage
      BY <2>3, <3>1, <3>2
    <3> QED BY <2>4, <3>1, <3>3
  <2>6. p.runs[i].status = "SUCCEEDED"
    BY <2>1, <2>5 DEF Ordered
  <2>7. {j \in LiveRuns(p) : p.runs[j].stage = s} = {i}
    BY <2>1, <2>4 DEF Ordered
  <2> QED BY <2>6, <2>7
<1> QED BY <1>1, PastInvariant, PTL

(***************************************************************************)
(* Every action that may have changed the external system was approved and *)
(* stands on a decision of its own attempt, which stands on an             *)
(* investigation by three independent agents with an evidence query, none  *)
(* of which any later command or activity gave up.                         *)
(***************************************************************************)
THEOREM ExecutionsAreGrounded == Spec => []ExecutionRestsOnEvidence
<1>1. PastInv => ExecutionRestsOnEvidence
  <2> SUFFICES ASSUME PastInv, NEW i \in DOMAIN projection.runs, Crossed(projection.runs[i])
               PROVE  /\ projection.runs[i].action.approval = "APPROVED"
                      /\ Rests(projection.runs, i)
    BY DEF ExecutionRestsOnEvidence, Rests, Done, Evidenced
  <2>1. Authorized(projection)
    BY DEF PastInv, Past
  <2> QED BY <2>1 DEF Authorized, Crossed
<1> QED BY <1>1, PastInvariant, PTL

(***************************************************************************)
(* From RESPOND on, the decision in force is recorded by a live SUCCEEDED  *)
(* DECIDE run and carried by the action the current run proposed, so its   *)
(* approval and its execution are never refused for a stale decision.      *)
(***************************************************************************)
THEOREM RespondsToTheDecision == Spec => []DecisionInForce
<1>1. PastInv => DecisionInForce
  <2> SUFFICES ASSUME PastInv, projection.stage \in {RESPOND, VERIFY} PROVE DecisionInForce
    BY DEF DecisionInForce
  <2>1. InForce(projection) /\ projection.stage >= RESPOND
    BY DEF PastInv, Past, RESPOND, VERIFY
  <2> QED BY <2>1 DEF InForce, DecisionInForce, LiveDecisions, Done, Last
<1> QED BY <1>1, PastInvariant, PTL

(***************************************************************************)
(* An incident is resolved only over the recorded success of its last      *)
(* attempt's action, verified, and with no rollback of it under way.       *)
(***************************************************************************)
THEOREM ResolvedIsRepaired == Spec => []ResolvedOnlyAfterRepair
<1>1. PastInv => ResolvedOnlyAfterRepair
  <2> SUFFICES ASSUME PastInv, projection.lifecycle = "RESOLVED"
               PROVE  ResolvedOnlyAfterRepair
    BY DEF ResolvedOnlyAfterRepair
  <2> DEFINE p == projection
  <2>1. Inv(p) /\ Standing(p) /\ UndoneLate(p, rollbacks)
    BY DEF PastInv, IInv, Past
  <2>2. p.status = "COMPLETED"
    BY <2>1 DEF Standing
  <2>3. p.stage = VERIFY /\ Last(p).status = "SUCCEEDED" /\ CurrentStatus(p) = Last(p).status
    BY <2>1, <2>2, InvFields, InvCurrent
  <2>4. p.receipt \in DOMAIN p.runs
    BY <2>1, <2>3, InvRuns DEF Inv, Bounded
  <2>5. "SUCCEEDED" \in Going
    BY DEF Going
  <2>6. p.runs[p.receipt].action.execution = "SUCCEEDED"
    BY <2>1, <2>3, <2>5 DEF Standing
  <2>7. p.receipt \notin rollbacks
    <3>1. p.receipt # 0
      BY <2>4, <2>1, InvRuns
    <3>2. p.runs[p.receipt].attempt = p.attempt
      BY <2>1, <3>1 DEF Standing
    <3> QED BY <2>1, <2>3, <2>5, <3>2 DEF UndoneLate
  <2> QED BY <2>2, <2>3, <2>4, <2>6, <2>7 DEF ResolvedOnlyAfterRepair
<1> QED BY <1>1, PastInvariant, PTL

(***************************************************************************)
(* An incident that is not completed is never stuck: in every state one of *)
(* NEXT, COMPLETE, ESCALATE, RETRY and RERUN is accepted, the limits on    *)
(* runs and attempts apart.                                                *)
(***************************************************************************)
THEOREM NeverStuck == Spec => []AlwaysACommand
<1>1. PastInv => AlwaysACommand
  <2> SUFFICES ASSUME PastInv, Open(projection) PROVE AlwaysACommand
    BY DEF AlwaysACommand
  <2> DEFINE p == projection
  <2>1. Inv(p) /\ Standing(p)
    BY DEF PastInv, IInv, Past
  <2>2. CurrentStatus(p) = Last(p).status /\ Last(p).stage = p.stage /\ p.stage \in 1..6
    BY <2>1, InvCurrent, InvRuns
  <2>3. CASE AgentBusy(p) \/ CurrentStatus(p) = "RUNNING"
    BY <2>3 DEF AlwaysACommand, MayEscalate
  <2>4. CASE Idle(p) /\ CurrentStatus(p) = "SUCCEEDED"
    <3>1. CASE p.stage = VERIFY
      <4>1. p.receipt \in DOMAIN p.runs
        BY <2>1, <3>1, InvRuns DEF Inv, Bounded
      <4>2. p.runs[p.receipt].action.execution = "SUCCEEDED"
        BY <2>1, <2>2, <2>4, <3>1 DEF Standing, Going
      <4>3. \E i \in DOMAIN p.runs : HasReceipt(p.runs[i].action)
        BY <4>1, <4>2 DEF HasReceipt
      <4> QED BY <2>4, <3>1, <4>3 DEF AlwaysACommand, MayComplete
    <3>2. CASE p.stage = RESPOND
      <4>1. Last(p).action.execution = "SUCCEEDED"
        BY <2>1, <2>2, <2>4, <3>2 DEF Standing, Done
      <4>2. /\ Len(p.runs) \in DOMAIN p.runs /\ Last(p) = p.runs[Len(p.runs)]
            /\ Last(p).attempt = p.attempt /\ Len(p.runs) # 0
        BY <2>1, InvCurrent DEF Last
      <4>3. p.receipt = Len(p.runs)
        BY <2>1, <4>1, <4>2 DEF Inv, Bounded, Crossed
      <4>4. Executed(p)
        BY <4>2, <4>3 DEF Executed
      <4> QED BY <2>4, <3>2, <4>4 DEF AlwaysACommand, MayNext, RESPOND, VERIFY
    <3>3. CASE p.stage \notin {RESPOND, VERIFY}
      BY <2>4, <3>3 DEF AlwaysACommand, MayNext
    <3> QED BY <3>1, <3>2, <3>3
  <2>5. CASE CurrentStatus(p) = "FAILED"
    BY <2>1, <2>5 DEF AlwaysACommand, MayEscalate, Executed, Inv, Bounded
  <2>6. CASE Idle(p) /\ CurrentStatus(p) = "NEEDS_HUMAN"
    <3>1. CASE Executed(p)
      <4>1. p.stage >= RESPOND
        BY <2>1, <2>2, <3>1 DEF Executed, Inv, Bounded, RESPOND
      <4>2. INVESTIGATE \in Stages /\ INVESTIGATE <= p.stage
        BY <2>2, <4>1 DEF Stages, DETECT, INVESTIGATE, RESPOND, VERIFY
      <4>3. MayRerun(p, INVESTIGATE)
        BY <2>6, <3>1 DEF MayRerun, CandidateRerunStages, MayBranchTo
      <4> QED BY <4>2, <4>3 DEF AlwaysACommand
    <3>2. CASE ~Executed(p)
      BY <2>6, <3>2 DEF AlwaysACommand, MayRetry
    <3> QED BY <3>1, <3>2
  <2> QED
    BY <2>1, <2>2, <2>3, <2>4, <2>5, <2>6, InvFields DEF Idle, RunStatuses
<1> QED BY <1>1, PastInvariant, PTL

\* A run whose execution's outcome is all that changes.
LEMMA RevisedFrozen ==
    ASSUME NEW old \in StageRun, NEW new, Revised(old, new)
    PROVE  new = [old EXCEPT !.action.execution = new.action.execution]
<1>1. old.action \in Action
  BY DEF StageRun
<1>2. CASE new = old
  <2>1. [old.action EXCEPT !.execution = old.action.execution] = old.action
    BY <1>1 DEF Action
  <2>2. [old EXCEPT !.action = old.action] = old
    BY DEF StageRun
  <2> QED BY <1>2, <2>1, <2>2
<1>3. ASSUME NEW outcome, new = WithExecution(old, outcome)
      PROVE  new = [old EXCEPT !.action.execution = new.action.execution]
  <2>1. new.action.execution = outcome
    BY <1>1, <1>3 DEF WithExecution, StageRun, Action
  <2> QED BY <1>3, <2>1 DEF WithExecution
<1> QED BY <1>2, <1>3 DEF Revised

\* No step changes a run that was given up or belongs to an earlier attempt.
LEMMA MovesFreezes ==
    ASSUME NEW p, Inv(p), NEW q, Inv(q), Moves(p, q), NEW i \in DOMAIN p.runs,
           p.runs[i].status = "SUPERSEDED" \/ p.runs[i].attempt < p.attempt
    PROVE  q.runs[i] = [p.runs[i] EXCEPT !.action.execution = q.runs[i].action.execution]
<1>1. p.runs[i] \in StageRun /\ i \notin LiveRuns(p)
  <2>1. p.runs[i] \in StageRun /\ p.attempt \in Nat /\ p.runs[i].attempt \in Nat
    BY InvRuns
  <2> QED BY <2>1 DEF LiveRuns, AttemptRuns
<1>2. Revised(p.runs[i], q.runs[i])
  <2>1. CASE Touched(p, q)
    <3>1. i # Len(p.runs)
      BY <1>1, LastIsLive
    <3> QED BY <2>1, <3>1 DEF Touched
  <2>2. ASSUME NEW gone, Begins(p, q, gone) PROVE Revised(p.runs[i], q.runs[i])
    BY <1>1, <2>2 DEF Begins, Revised
  <2> QED BY <2>1, <2>2 DEF Moves, Continues, BranchesOff
<1> QED BY <1>1, <1>2, RevisedFrozen

(***************************************************************************)
(* History is never rewritten: a late answer, a rollback or a rerun may    *)
(* add the outcome of an execution to a superseded run, or to a run of a   *)
(* superseded attempt, and nothing else.                                   *)
(***************************************************************************)
THEOREM HistoryStays == Spec => HistoryFrozen
<1> DEFINE Frozen ==
      \A i \in DOMAIN projection.runs :
          \/ projection.runs[i].status = "SUPERSEDED"
          \/ projection.runs[i].attempt < projection.attempt
          => projection'.runs[i] =
                [projection.runs[i] EXCEPT
                    !.action.execution = projection'.runs[i].action.execution]
<1>1. PastInv /\ PastInv' /\ [Next]_vars => [Frozen]_vars
  <2> SUFFICES ASSUME PastInv, PastInv', Next PROVE Frozen
    OBVIOUS
  <2>1. Inv(projection) /\ Inv(projection') /\ Past(projection)
    BY DEF PastInv, IInv
  <2>2. CASE Moves(projection, projection')
    BY <2>1, <2>2, MovesFreezes
  <2>3. CASE projection' = projection
    <3>1. \A i \in DOMAIN projection.runs : projection.runs[i] \in StageRun
      BY <2>1, InvRuns
    <3> QED BY <2>3, <3>1, RevisedFrozen DEF Revised
  <2> QED BY <2>1, <2>2, <2>3, NextMoves
<1> QED BY <1>1, PastInvariant, PTL DEF Spec, HistoryFrozen
=============================================================================
