# FlowPulse: formal specification

TLA+ models of FlowPulse's incident workflow, its local demonstrations and the pages
that follow them, the TLC configurations that check them on small instances, and machine-checked (TLAPS) proofs of their main
safety properties for every value of the constants.  Everything is translated from the
source; `PROJECT.json` maps each definition to the lines it models, lists the
runs, the seeded faults each property must detect, the hazards the code is
exposed to, and the findings.

## 1. The system

FlowPulse guides an operator through an incident in six stages, DETECT, TRIAGE,
INVESTIGATE, DECIDE, RESPOND and VERIFY.  A Python control plane stores the
incident as one *projection*, a Temporal workflow and its activities advance it,
and a Node process runs the agents and executes approved actions.  The Node process also
drives two incidents of its own beside that workflow, the *fault loop* (a fault injected
into a fixture and repaired by four agents) and the *development incident* (a diagnosis
behind an owner's gate), and serves the pages that show all of them.

| component | state it keeps | operations | interacts with |
|---|---|---|---|
| Guided coordinator (`workspace_v3_guided.py`, `workspace_v3_models.py`) | the projection: attempts, stage runs, agents, actions, premise, decision and workflow revisions, lifecycle | `bootstrap`, `sync_realtime`, `advance`, `rerun`, `escalate`, `start_agent_run`, `update_agent_run`, `record_evidence_query`, `complete_current_stage`, `add_action`, `decide_action`, `mark_action_execution_started`, `record_action_execution`, `record_action_rollback_outcome` | commits through the repository |
| Guided activities (`workspace_v3_runtime.py`) | none between commits | `run_stage`, `run_existing_agent`, `execute_action`; HTTP bridge to Node | coordinator, bridge, Temporal retries |
| Workspace repository (`workspace_repository.py`, `postgres.py`) | projection, events, receipts per idempotency key, snapshots | `initialize`, transition commit, sync commit, rollover | compare-and-swap for all writers |
| Incident workflow (`workspace_workflow.py`) | Temporal history: command dispatch, verification window, freshness timers, rollover counters | updates, signals, timers, continue-as-new | schedules the activities |
| Action executor (`server.mjs`, `development-adapter.mjs`, `ledger.mjs`) | running requests in memory, append-only ledger; outside: fault flag, Checkout container | execute, safe rollback, preflight | called by `execute_action` under an execution key |
| Realtime ingestion (`realtime_*.py`) | connector state, outbox, leases, schedules | claim, deliver, acknowledge, expire | feeds telemetry to the workflow |
| OTLP spool (`otel_spool.py`) | segment files and cursors | append, rotate, read | realtime ingestion |
| V2 workspace workflow, V1 diagnosis workflow | their own projections | kept for running executions | repository, Temporal |
| HTTP API, authorization, configuration | authorization replay records, stream cursors | command endpoints, event stream | workflow, repository |
| Model providers, conversation | none | external calls | called by the activities |
| Fault loop (`local-fault-loop.mjs`) | the run's events in an append-only ledger; the executions in memory | `start` (reserve, launch, reconcile), the steps of the positive and the negative run, verification, rollback and retry | read by the run viewer |
| Run viewer (`public/app.js`, `public/twin-state.mjs`) | the selected run, what is known of it, its stream, timers and topology requests | state read, hydration, stream, reconnect, pinned retry, navigation | fault loop's ledger over HTTP and server-sent events |
| V3 console: incident page (`public/incident-workbench-controller-v3.mjs`, `incident-workspace-v3.mjs`, `control-plane-v3-client.mjs`) | the incident shown, its series, the event cursor, the pending command | `activate`, `deactivate`, `refresh`, `subscribe`, `execute`, the clock | control plane's API and event stream |
| V3 console: live page (`public/live-v3.mjs`) | the list of open incidents and a graph of each | hydrate, follow the live log, refresh graphs, retry | live snapshot and live log |
| Owner's gate (`server.mjs`, `development-runtime.mjs`, `incident-projection.mjs`, `projection-canonical-validator.mjs`, `ledger.mjs`) | authority events in the ledger; snapshots, receipts and investigations in memory; the fault flag | case, investigate, approve, verify, and what the page shows of a run | rollback port, other processes' locks |
| Agent team chat (`agent-team-chat.mjs`, `agent-team-provider.mjs`, `node-investigation-plane.mjs`) | a conversation's records in the ledger; open submissions in memory | `submit`, tools, answers | providers, collector's files, the page's panel |
| Node agent control, harness and policy | agents and their cancellation | actions, contracts of stages | models |
| Scripts, migrations, fixtures | none | start-up | |

What makes it correct, and hard:

- *Coordinator.*  Operator commands, telemetry, agents, the stage activity and the
  action activity each read the projection, compute and commit, in any order.
  No interleaving may skip a stage, execute an unapproved or stale decision,
  execute twice in an attempt, revive work that was stopped, or leave the incident without a command that
  helps.  Reruns supersede runs, post-action reruns branch into a child attempt,
  and late answers arrive for runs that are gone.
- *Activities.*  A worker may die between any two commits; Temporal then repeats
  the activity from the start, which must recognise what was done.
- *Executor.*  The repair is two external effects, a flag write and a container
  recreation.  Node may crash between them, answers may be lost, and a retried
  request has to find out from the ledger what already happened.
- *Repository.*  Lost updates, repeated and reordered commands, lost responses.
- *Temporal workflow.*  Reused receipts, timers racing late telemetry, rollover with
  calls in flight.
- *Fault loop.*  A start is repeated, after a crash too, and must find its run or close
  it; a repair counts only once its verification passed; what the ledger says must let a
  browser tell a whole run from one with a gap.
- *Pages.*  Reads, streams, timers and the user's clicks overlap, and every answer may be
  of an older moment, or of an incident that is no longer shown.  A page must come to show
  what is so, or say that it cannot.
- *Owner's gate.*  The ledger survives a crash and the snapshots do not; each append is a
  transaction of its own; another process may lock the repair at any moment; the page
  must not offer an approval that would be refused.
- *Chat.*  A submission asks for room and for its key once, and then awaits the collector, the
  provider and the model while others go on; every path must fit the room and end in an answer.
- *Realtime.*  Leases that expire, duplicates, reordering, freshness deadlines.

## 2. Modules

| module | models | built on |
|---|---|---|
| `GuidedProjection` | the projection as data, and each coordinator method as a relation between the projection before and after | |
| `GuidedWorkflow` | the actors that call those methods; the properties | `GuidedProjection`, `WorkflowContract` |
| `WorkflowContract` | what the workflow promises: the order of stages, stopping, at most one boundary per attempt, closing | |
| `MCGuidedWorkflow` | symmetry and the bound of two attempts | `GuidedWorkflow` |
| `GuidedWorkflowProofs` | theorems | `GuidedWorkflow`, `WorkflowContract` |
| `ActionExecution` | `execute_action`, the executor, its ledger, the flag and the container | |
| `MCActionExecution` | the bound of two actions | `ActionExecution` |
| `ActionExecutionProofs` | theorems | `ActionExecution` |
| `WorkflowStore` | the repository's commits and those who race for them: commands, persisted answers, telemetry syncs; the dispatch of a command | `SerialHistory` |
| `SerialHistory` | what the repository promises: one order of the accepted operations, nothing lost, nothing twice | |
| `MCWorkflowStore` | symmetry and a constraint | `WorkflowStore` |
| `WorkflowStoreProofs` | theorems | `WorkflowStore` |
| `RecordedRun` | what the record of a run promises: it grows in the order of the contract and nothing follows its end | |
| `RunReadModel` | how the browser reads a run's events: state, stage, verification, gaps | |
| `FaultLoop` | the fault loop, with crashes, failing appends and repeated starts | `RunReadModel`, `RecordedRun` |
| `FaultLoopProofs` | theorems | `FaultLoop` |
| `RunViewer`, `MCRunViewer` | a browser tab that follows runs; its bounds | `RecordedRun` |
| `RunViewerProofs` | theorems | `RunViewer` |
| `Console` | what both pages of the console share: incidents, the user, the network | |
| `Workbench`, `MCWorkbench` | the incident page of the console; its bounds | `Console` |
| `LiveList`, `MCLiveList` | the live page of the console; its bounds | `Console` |
| `ConsoleProofs` | theorems about both pages | `Workbench`, `LiveList` |
| `OwnerGate`, `MCOwnerGate` | a development incident from its case to its verified rollback; its bounds | |
| `OwnerGateProofs` | theorems | `OwnerGate` |
| `TeamChat`, `MCTeamChat` | the agent team's chat; its bound | |
| `TeamChatProofs` | theorems | `TeamChat` |

### The guided workflow

`projection` has `attempt`, `stage`, `status` (of the attempt), `lifecycle`, `premise`,
`decision` (the decision revision), `receipt` (the run whose action set
`action_executed`), `agents` (the RUNNING ones) and `runs`: every stage run ever
made, of all attempts, in the order of creation.  A run carries its attempt,
stage, status, failure code, the agents that succeeded in it (`roles`), whether
its evidence query did, and its action.  The coordinator's `_current_run` is
the live run of the current stage, the activities' `stage_runs[-1]` the last one; that
both are the same is an invariant, not an assumption.

| actions | code |
|---|---|
| `Sync` | `sync_realtime` |
| `Advance`, `Invalidate`, `Complete` | the three outcomes of `advance`: the next stage, a DECIDE whose premise is stale, COMPLETE_INCIDENT |
| `Rerun`, `Branch` | `rerun` (RETRY and RERUN_FROM_STAGE) inside the attempt, and into a child attempt |
| `OperatorEscalate`, `Approve`, `Reject` | `escalate`, `decide_action` |
| `RunAgent`, `AgentAnswers`, `Query` | `start_agent_run`, `update_agent_run`, `record_evidence_query` |
| `TriageDone`, `InvestigateDone`, `DecideDone`, `AnalysisFailed`, `Propose` | the commits of `run_stage` in the first three stages and the proposal of the action in RESPOND |
| `ExecutionStarted`, `ExecutionRecorded`, `RespondDone`, `RespondFailed` | the commits of `execute_action` |
| `VerifyDone`, `VerifyFailed`, `RollbackRecorded`, `RollbackLost` | the commits of `run_stage` in VERIFY, and its death between two of them |

A coordinator method is one step because the repository refuses a commit whose
expected revision has passed, and the callers then read again.  An activity is
not: each of its commits is a step, and that it never takes the next one is a
behaviour of the model, which is how crashes enter.  What an activity still has to do
follows from the projection, except a rollback whose VERIFY run is
already failed; `rollbacks` keeps those.

### The execution of an action

`ActionExecution` takes the execution apart below the level of `GuidedWorkflow`.
`execution` and `current` are the projection's side; `calls[a][n]` is where attempt
`n` of action `a`'s activity is (`begin`, `call`, `wait`, then the reply, then the
receipt it is about to store, and at last `ended`, `failed`, which Temporal retries,
or `refused`, which it does not: a `PolicyViolation` is not retryable);
`handlers[a]` is the executor's running request, which dies with Node; `started` and
`completed` are the ledger, which does not; `flag`, `checkout` (a generation
number), `running` are the outside world, and `orphans` recreations the container
engine continues although Node gave up on them. `wrote`, `epoch`, `restarts` and
`disturbed` are history and bounds.

`Claim`, `AlreadyRecorded`, `Prepare`, `Record`, `RecordedBefore`, `RacesLost`,
`AnswerBreaks`, `Obsolete`, `Unavailable` are `execute_action` with the coordinator
methods it calls. Reading the projection (`Prepare`) and storing the receipt
(`Record`) are two steps, between which another attempt may store its own; the
receipt may also lose its races for good, or the answer break off while it is read;
`Request`, `ReadFlag`, `Recover`, `PreconditionChanged`, `Start`, `WriteFlag`,
`Recreate`, `Check`, `HandlerFails` are `reuseGuidedRequest`,
`guidedActionExecution` and `executeApprovedRollback`, cut at every `await`.
`WorkerDies`, `CallLost`, `NodeCrashes`, `OrphanRecreates`, `InjectFault`,
`CheckoutStops` and `CheckoutRestarts` are the failures. Temporal gives up on an
attempt by a timeout as well, so attempts of one activity may overlap.

### The store

`WorkflowStore` justifies that `GuidedWorkflow` takes a coordinator method as one step, and
looks at what that leaves out.  `log` holds the commits in order, whose number gives the
projection revision, `workflow` is the workflow revision.  The content of the
projection is left out; what matters is which projection a commit was computed from
(`base`).  Writers are updates (an operator's command in a workflow update, whose
`request` has a key, a content and the revision the operator saw), internal operations (what an
agent, a stage or an executor answered) and syncs; `pc` says where each one's
activity is, `read` which revisions it read, `attempt` and `tries` how often it was repeated by
Temporal and rebased by `_persist_with_rebase`; `started` are the updates that went on
to schedule the stage's activity.

`Submit`, `Arrive` begin; `Look`, `Read`, `Check` and `Recheck` are what the coordinator
reads from the repository, each a transaction of its own; `Commit`, `CommitStored`
and `CommitRefused` are the outcomes of the committing transaction, which holds the incident's
advisory lock; `Answer` is the workflow after the activity; `WorkerDies` ends an
attempt anywhere, before or after its commit.  A client that repeats a request is a second
update with the same key and content.

### The fault loop and those who read it

`FaultLoop` keeps what the code keeps: `ledger[k]`, the events of the run that key `k`
reserved, and `exec[k]`, the execution in the process, as the events still to be recorded
(`todo`, taken from the scripts of `#runPositive` and the negative run), which a crash
loses.  `Reserve`, `Launch` are `start` and `#launch`; `Reconcile`, `Interrupt` are
`#reconcileExisting` after the lease; `BindTopology`, `Advance`, `CallRole`,
`RoleAnswers`, `Repair`, `Verify`, `RollBack`, `Finish`, `Fail` are the steps of a run;
`LedgerFails` and `Restart` are what may befall it.  The process has one thread: `Turn`
lets another request in only while every run waits for something.

`RecordedRun` is the abstract run; `FaultLoop` implements it (`KeepsRecordedRun`), and
`RunViewer` extends it, so the viewer is checked against every run that keeps that promise.
`RunReadModel` holds the readers `deriveRunState`, `deriveWorkflowEvidence` and their
helpers as operators on a list of events; `WholeRunIsRecognized` and `GapsFailClosed`
apply them to the runs that `FaultLoop` records, whole and with any one event missing.

`RunViewer` has the server's active run, one `tab` and its requests: `read` is the newest
`refresh`, `late` the superseded ones that still settle a topology key, `hydrates` the
projections asked for by `hydrateSharedRun`, `stream`, `timer` and `retry` the event
source and the two timers.  An operator on the tab stands for each function of `app.js`,
an action for each callback, in any order.  `refused` is the run whose state the server refused last,
`broken` a page whose script failed while it was loaded.

### The console

In `Workbench` an incident is the number of its commits, and a version is what a read
found at some commit.  `load` is the pass of `TrailingRefreshV3` with the two reads of
`loadCoherentIncidentV3` (at most three times, until series and projection agree);
`posts` are commands in flight, each `own` while the page still waits for it;
`landing` is the live snapshot that chooses an incident for a page opened without one.
`Enter`, `Open`, `Leave`, `Retry`, `Click` are the user; `Commit`, `Accept`, `Refuse` the
server; `Arrive`, `ReadAgain`, `Unstable`, `EventArrives`, `LandingAnswers`,
`PostAnswered`, `Timeout` the controller's callbacks; `ReadFails`, `LandingFails`,
`PostFails`, `StreamFails`, `StreamResets` the network.  `astray` remembers that a
receipt was given to another incident's page or given up by the clock (section 5).

`LiveList` has the live log, the adapter (`page`), its hydration (`loop`, with its worker
pool) and the graphs being read (`reads`).  `ActivateList`, `DeactivateList`, `RetryNow`,
`RetryTimer`, `SnapshotArrives`, `SnapshotFails`, `GraphArrives`, `GraphFails`,
`LiveEventArrives`, `LiveStreamFails`, `LiveStreamResets` are its methods and callbacks, named
apart from those of `Workbench` so that the proofs can speak of both pages;
`LiveStreamSlips` is an event that is delivered twice or is missing, which the adapter has
to notice by its sequence number.

### The owner's gate

`OwnerGate` numbers the runs in the order of their start.  `ledger` holds the authority
events (`accepted`, `gate`, `decision`, `proposal`, `request`, `approval`, `attempt`,
`executed`, `verified`) and the locks of other processes, and survives; `memory` (`snapshot`,
`bound`, `inv`, `cpu`, `rolling`, `verifying`) does not.  A request handler runs
without interruption from one `await` to the next, but every append inside it is its own
transaction: `cpu` is that synchronous stretch, and each step of it an action, between
which only a crash, a failed append, the rollback's own effect or another process's lock
may fall.  An append inserts its row and reads it back through a second connection; `Refused` is
either of them failing, so that the row (`StageWrites`) may be there although the handler threw.
`cpu.offer` remembers of an approval how long the ledger was when it was given, if the page offered it then.

| actions | code |
|---|---|
| `Preflight`, `ApplyCase`, `StartRun`, `Reset` | `POST /api/development/case` cut at its awaits, `POST /api/reset` |
| `Investigate`, `Freeze`, `Confirm`, `NotConfirmed` | `singleFlightDevelopmentInvestigation`, with the evidence or the model as a choice |
| `Accept`, `PassGate`, `Classify` | the events of a confirmed investigation |
| `Check`, `Decide`, `Propose`, `RequestApproval` | `advanceAutonomyAfterDiagnosis` |
| `Approve`, `ReadLocks`, `Claim`, `Attempt` | `POST /api/development/approve`, `claimCanonicalDevelopmentApproval`, `atomicApprovalClaim`, `executeCanonicalDevelopmentApproval` |
| `Restore`, `Executed`, `RollbackFails` | the rollback port |
| `Verify`, `Verified` | `POST /api/development/verify` |
| `Tick`, `LockArrives`, `Refused`, `Crash` | the rest of the world |

`Supported`, `Decision`, `Claimable` are the guards of the authority; `Presentable`,
`StrictChain`, `Canonical`, `Shown` are what the page makes of the ledger on every read.

### The agent team's chat

`TeamChat` follows one conversation.  `count` is the number of its records, `messages` has
an entry for each message received (its key, whether its context fitted, its answers, and the
submission and life of the process that received it), `subs` the open submissions: `reading` while the
context is read from the collector, `preflight` while the provider is asked whether it is there, `model` while
the model works.  `live` says whether reading the context takes I/O, which is the case only of a live run.  What
a submission writes between two awaits is one step, `Store`, in which the process may die
after any of the records.

| actions | code |
|---|---|
| `Submit` | `submit` up to its preflight, on captured evidence |
| `ReadContext`, `ContextRead` | the same on live evidence, before and after `contextForRun` |
| `Prepared` | context, seeded tool, summary, working; or a refusal, or an unavailable provider |
| `Answered`, `Failed`, `ToolsAsked` | the model's answer, its failure or cancellation, its requests within and past the budgets |

`Returned` and `Admitted` are the outcomes of the checks: refused or answered from the ledger, or received.

## 3. Runs

| run | question | bounds |
|---|---|---|
| `guided_workflow` | Does every interleaving, within an attempt and across a post-action branch with rollbacks in flight, keep the workflow well formed, never without a command, and within `WorkflowContract`? | 2 premises; 7 stage runs of one attempt, or 6 and 4 of two |
| `action_execution` | Are receipts true, nothing repeated and the claim answered under every crash and loss, also when a second execution overlaps the first? | 3 attempts (the code's number), a second injection or a restart; a second action with one attempt beside two of the first |
| `workflow_store` | Do commands, persisted answers and telemetry keep one serial history, with true receipts, under races, repetition and dying workers? | 2 updates, 1 rebased operation, 1 sync, 2 keys, 2 contents, 2 attempts, 3 tries (the code's number) |
| `fault_loop` | Is a key one run that starts, injects and ends at most once, over crashes, failing appends and repeated starts, and does the browser read its record for what it is? | 1 key, 2 attempts (the code's number), 2 losses |
| `run_viewer` | Does a tab show all of the run it follows once that run has ended, and never mix two runs? | 1 run with a failure or a gesture, or 2 runs; 4 events each |
| `workbench` | Does the incident page come to show the incident as it is, whatever overlaps, and never wait for a command for ever? | 2 incidents, 4 commits, 3 gestures, 1 failure |
| `live_list` | Does the live page come to list the open incidents, each with its own graph? | 2 incidents, 1 worker, 4 events, 3 gestures and failures |
| `owner_gate` | Does a rollback rest on the whole chain of authority, does no approval pass a lock, and does an approval that the page offers end with the rollback called? | 2 runs, 3 instants, 2 locks, 2 faults, 1 recorded verification, two of these troubles together, one in the last instant |
| `team_chat` | Is a message answered once and in the end, and does a conversation stay within what the page reads? | 2 submissions at once, 2 messages, or 1 and a crash; 19 records at first, and the code's limits |
| `second_execution`, `failed_but_mutated`, `stage_not_started` | counterexamples to what the repository says (section 5) | as above, the smallest that shows it |

Why the bounds are enough.  An attempt needs six runs from DETECT to VERIFY; with
seven, any one of them can be retried, or an earlier stage rerun, before VERIFY is
reached, and shorter attempts can go back more often.  A child attempt started by a branch
to INVESTIGATE reaches VERIFY again within four runs after the six of its parent, and a rollback
of the parent can answer at any time.  Two
premises are one that a decision was made on and one that replaced it, and are
symmetric.  In `ActionExecution` the interesting cases are a key that meets its
own past (three attempts) and two keys that meet (two actions); a second
injection of the fault and one restart by itself are each enough to contradict a
receipt.  The second action has one attempt, and none of the interference: its safety
properties are proved for every number of both.
In `WorkflowStore` two updates are a command and its repetition, two commands under one
key, or two commands that race; the other two writers give a third
and fourth commit to lose a race to, which is as many as an operation may lose.  At most one
of the four activities is repeated (`OneRepeated`), once.
In `FaultLoop` keys meet only in the process, whose turn-taking is in the guards; two losses
are a crash and another while the first is being mended.  A run of `RunViewer` needs
its reservation, its start, the bound topology and its end; the second run is only started
once the first is bound, and then nothing else interferes.  In `Workbench` three gestures
open an incident, leave it and open another, or send two commands; projection and series
disagree three times only with four commits.  In `LiveList` one worker makes the second graph
wait for the first; four events are two incidents that open, change and close.  In `OwnerGate` a
snapshot is fresh for two instants of three, so that it ages before, between or after
the steps of a chain; a crash after a crash, a lock after a crash, or a second run that takes over
`latest` are pairs of troubles.  Its properties are also proved for every bound.  In `TeamChat`
19 records leave room for a first submission of any length, and for a second only after a
short one, so both sides of the budget occur; `ReadableAlone` and `AnsweredOnce` are proved for
every bound.  The
constraints of the `MC` modules
only cut behaviours off at a step that no fairness condition names (a gesture, a failure,
a commit, a start), so a liveness property is judged on behaviours that are complete; in `TeamChat` a
context that was read may be refused wherever it would bring a third message.

CHECK_DEADLOCK is FALSE where the system may stop: a completed incident, an
execution whose attempts are used up, writers that all have their answer, a run that
ended, a page whose reads and events have all arrived, a development incident that ran out of instants, a chat nobody writes to.

Fairness.  `GuidedWorkflow` assumes only that a rollback call that was not
lost is recorded (`WF(RollbackRecorded)`): Temporal keeps the activity until it returns.
`ActionExecution` assumes weak fairness of each attempt's own steps (a worker that lives
goes on), of `NextAttempt` (Temporal's retry policy), of `CallLost` (the bridge has
a timeout) and of each request's own steps (every external call of the executor
has a timeout, so it ends, if only with an error).  Nothing is assumed of
crashes, of the operator or of the outside world.  `ExecutionAnswered` needs it: a claimed
execution gets its receipt unless the operator
gives up the run, the last attempt fails as well, or an attempt is refused for good
because its receipt lost all its races; the code really leaves these open.
`FaultLoop` assumes that the event loop gets round to every run and that a provider answers
or is timed out (`WF(Execute)`), that time passes (`WF(LeaseExpires)`), and that someone
asks for the same key again whenever it can be reconciled (`SF(Reconcile)`): nothing else closes an interrupted
run, so `StartedRunsEnd` is about runs somebody asks for.
The pages assume that a request is answered or fails, that what
was sent arrives, that the browser goes on opening a stream it was not refused, and that timers fire.
Nothing is assumed of commands, which may never be answered: `PendingEnds` rests on the page's
clock alone.  `TeamChat` assumes that reads of the collector's files end, and that
a provider answers or is timed out (`runChild` stops a command after at most 120 s, the API is aborted
after 60 s).  `WorkflowStore` and `OwnerGate` need no fairness.

## 4. What is proved

For any nonempty set of premises, any positive numbers of runs and attempts
(`PremisesAssumption`, `LimitsAssumption`):

- `GuidedWorkflowProofs!InductiveInvariant`.  The properties are not inductive:
  that the last run is the current one needs to know where live runs
  may be and what a rerun supersedes; that an attempt executes once needs to know
  that nothing crosses the boundary outside the current run, and that a VERIFY run
  follows the action's run.  The invariant `IInv` states, for the
  projection, that it is well placed (the last run is the live run of the current
  stage, every other live run of the attempt is of an earlier one), bounded (the
  receipt names the attempt's only crossing, which does not exist before RESPOND and
  does in VERIFY), attended (at most one agent, on the last run, in a role of the
  stage) and halted (attempt and run stop together).  The proof has one lemma
  per relation of `GuidedProjection`; most go through `UpdatedKeepsInv`, which
  says what a change of only the current run has to respect.
- From it `TypeCorrect`, `CurrentRunAgreed`, `ExecutedAtMostOnce`, `AgentsFollowTheRun`,
  `StopTogether`.
- `ContractKept`: `GuidedWorkflow` implements `WorkflowContract`, step
  by step, under the refinement mapping of `GuidedWorkflow!Contract`.
- `PastInvariant`.  What a projection says of its past needs a second invariant on top of `IInv`.  `PastInv` says
  that the live runs of an attempt are one per stage from the first on, all done but the last
  (`Ordered`); that a done INVESTIGATE has its evidence and a live DECIDE comes after one (`Grounded`); that
  the decision in force from RESPOND on is a live DECIDE's and the proposed action's (`InForce`); that
  whatever crossed the boundary was approved and stands on such a chain, also in attempts that were left
  (`Authorized`), and its VERIFY on the action's success (`Standing`); and that a rollback under way belongs to a
  VERIFY that neither runs nor succeeded (`UndoneLate`).  The last is what lets an incident close: no rollback can be under way
  over a VERIFY that succeeded.
- From it `StagesPassed`, `ExecutionsAreGrounded`, `RespondsToTheDecision`, `ResolvedIsRepaired`,
  `NeverStuck` and the action property `HistoryStays`: with these every property of the run is proved.

For any nonempty set of actions, any number of attempts and any bounds
(`ActionsAssumption`, `AttemptsAssumption`, `BoundsAssumption`):

- `ActionExecutionProofs!ExecutionInvariant`: a request mutates only after its started
  event, a completed event implies a recreation since, success is only copied
  from one (`Truth`); a request about to write has not written under this
  injection (`Written`); and while nobody else interferes, refusals precede the start
  (`Undisturbed`).
- From it `ExecutionTyped`, `SuccessProved`, `FailureIsClean`, `WrittenOnce`,
  `FirstReceiptStands`.

For any sets of writers, keys and contents, any number of attempts and tries
(`WritersAssumption`, `LimitsAssumption`):

- `WorkflowStoreProofs!StoreInvariant`.  That a command is applied as its operator saw
  the incident is not inductive: between validation and commit it rests on what was read still
  being what was validated (`Validated`), and afterwards on the command not changing once
  it was sent (`Authored`).  That races are real needs that a projection revision stands for
  one projection (`Snapshots`) and that a rebase reads again (`Races`).  `MoveKeepsInv` says what
  every step other than a commit has to respect; a commit has a lemma of its own.
- From it `StoreTyped`, `AcceptedIsCommitted`, `CommandsAppliedAsSeen`, `RacesCounted`, and
  `HistorySerial`: `WorkflowStore` implements `SerialHistory`.

For any set of keys and any numbers of attempts and losses (`AttemptsAssumption`,
`LossesAssumption`):

- `FaultLoopProofs!Invariance`: what is recorded of a run says where its execution is, and
  the other way round.  `CourseInv` says that what an execution has still to do completes
  what is recorded to a course of the contract, `PlaceInv` where the turning points of that course
  are, `LedgerInv` what a run without an execution can have recorded.
- From it `TypesKept`, `OneRun`, `RecoveryIsVerified`, and `LoopIsRecorded`: `FaultLoop`
  implements `RecordedRun`.
- `FaultLoopProofs!ReadingsInvariance`, for what a reader makes of a run, adds two facts: what the reader has
  come to know of a whole run is what was recorded last (`ReadInv`), and every event that its execution has still
  to record is caused by what the reader then expects (`Linked`).  `WorkflowEvidence` reads a list of events by a recursive
  function; that the function exists and what it is at every event is proved by the first event at
  which it would not hold (`EveryNumber`, `ReadingsExist`), since a set of numbers without a least one is empty.
- From it `WholeRunRead`.  `GapsReadClosed` rests on a fact about every reading of every list of events: a mark is
  only set at a known event whose causes are known as well (`ReadingIsGrounded`, `KnowledgeIsClosed`).

For any numbers of runs, instants, locks, faults and verifications, and any age of a snapshot
(`BoundsAssumption`):

- `OwnerGateProofs!Invariance`.  That a rollback rests on a chain is not inductive: between two
  events of it anything may happen.  `ChainInv` says what the ledger owes to every event that is in
  it (the later one follows the earlier one, on the same snapshot), `GateInv` why a gate is
  not passed twice (an investigation that could pass it began without one), `StretchInv` what a
  stretch relies on at each of its stages, `LockInv` that no lock among those read stops the claim.  Every step
  appends an event that it may append or leaves the ledger alone (`LedgerStep`, `May`), and one
  lemma (`ChainAppend`) shows that such an append keeps every chain; `StretchStep` and `GateStep`
  go through the actions.  `OfferInv` says what an approval given on the page's offer can count on at
  each of its stages: its evidence supports it when it is checked, nobody has approved before its claim or
  attempted before its attempt, and a lock that touches its contract came after the offer.
- From it `RepairRestsOnChain`, `LocksStopApprovals`, `GatesPassOnce` and the action property
  `OfferedApprovalsAreTaken` (by `OfferEnds`, with a case for each stage at which the request may end):
  all four properties of the run.

For any keys, bodies and tools, any number of submissions and crashes, and any limits with
`7 + 2 * MaxCalls <= Reserve <= MaxRecords` (`LimitsAssumption`, which the code's 4, 18 and 48 meet):

- `TeamChatProofs!Invariance`.  That the room asked for is enough is not inductive: `AloneInv`
  says how much of it is used at each await (at most 2 records before the preflight, 5 and two
  per tool result before the model).  `SlotInv` says whose message a submission is about to answer and that,
  while it reads, it received nothing, so that its late lookup misses only messages of others.
  `StoreKeeps` says what anything stored must respect, with the crash inside it.
- From it `RoomIsEnough` and `OneAnswer`.

For any sets of runs and any numbers of events, failures, gestures and retries:

- `RunViewerProofs!ViewerInvariant`.  That the page's full projection does not reach beyond the events it
  knows needs that the newest of them exists and that nothing on its way to the page, neither an answer
  nor a hydration, is ahead of its run (`Behind`), whichever run is selected when it arrives; that callbacks are
  of the selected run needs to know of which run each is (`OfSelected`).  Each helper of the tab has
  a lemma that it keeps a tab well formed, and a run that grows leaves what was behind it behind.
- From it `NothingAhead`, `OneRunShown` and `NothingLeftBehind`: both safety properties of the run.

For any nonempty set of incidents and any numbers of commits, failures and gestures
(`WorkbenchAssumption`; `None` is not an incident, a version or a pass, as in the code `null` is none):

- `ConsoleProofs!PageInvariant`.  That a page at rest is current is about what is still to come
  before that.  `PageInv` says that a page either shows what it knows or reports an error, or that
  something that will repair or report it is on its way (`ShowsOrTells`); that a page knows no commit
  that there was not (`NotAhead`); that the pass which will be the last one is of the page's incident and reads no less than
  what the page knows, which is why an event or a receipt that meets a running pass must have it go
  round again (`PassOfPage`, `PassReaches`); and that a loop whose failure nobody would report serves
  a command that is still waiting (`SilentOwned`).  The last fails after a receipt that went to another
  incident's page or was given up while it was read, which `astray` records and the property excludes.
- From it `PagesTyped` and `CurrentWhenAtRest`, the safety property of the run.

For any set of incidents, any nonzero number of workers and any numbers of events, failures and gestures
(`LiveListAssumption`; `None` is not an incident, a snapshot or a stream):

- `ConsoleProofs!ListInvariant`.  That the list at rest is the server's rests on what the log is: each
  event bears the number of its commit, and nothing follows an incident's resolution (`LogInv`).  A snapshot,
  shown or on its way, is what was listed at its place in the log (`Faithful`), a page's stream is not ahead of
  its snapshot unless an event is still to be told, which shows the gap (`StreamInv`), and a hidden page
  shows nothing (`HiddenInv`).  That the graphs are the server's needs both directions: a shown graph
  was committed and is of a listed incident (`ShownInv`), and one older than its incident in the list is being read,
  will be, or could not be read (`Due`).  `Due` is only inductive together with `AnswersInv`: an answer that counts is as
  new as the list says, or the pass reads the incident once more, so that no answer an event
  has overtaken can settle what is due.
- From it `ListIsServers` (`ListAtRest`, the safety property of the run), `ListTyped` (`LiveTypeOK`) and
  `GraphsListed` (`GraphsAreListed`).

`StopTogether`, `RacesCounted`, `ExecutionTyped`, `StoreTyped`, `TypesKept`, `NothingAhead`, `PagesTyped`, `ListTyped` and
`GraphsListed` are proved and not run.

Only model-checked: liveness.  It (`ExecutionAnswered`, `StartedRunsEnd`, `EndIsShown`, `CatchesUp`, `PendingEnds`,
`ListCatchesUp`, `MessagesAnswered`) is out of the prover's reach and stays with TLC.  No module of the project
declares a recursive operator.

## 5. Findings

Three claims of comments and design documents do not hold of the code and have a run whose
counterexample shows it, with the quotation in `PROJECT.json`.

1. `second_execution`: escalating RESPOND while its execution is in flight and then
   retrying starts a second execution under a new key.
2. `failed_but_mutated`: a postcondition that fails after flag and container were
   changed, or a successful answer that breaks off while it is read, is recorded
   FAILED, which leaves the external boundary open.  The trace shows the second.
3. `stage_not_started`: when the worker dies after the dispatch committed, the repeated
   activity gets the stored receipt as a reused one, and the workflow takes its own
   command for a duplicate: nobody starts the stage.  The converse exists as well: two
   deliveries of a command that both pass the lookup get the stored receipt without the
   mark, and both start the stage.
Other behaviours of the code that the models show, without a run of their own.  Where a
property is named, it is a definition of the module; TLC refutes it.

- *Guided workflow.*  `DecideIsInvestigated`: after an executed action, DECIDE is offered as a branch
  target, but a DECIDE run needs an INVESTIGATE run of its own attempt, so the child
  attempt's DECIDE never succeeds.  `SupersededAttemptsImmutable`: a rollback that answers after
  a branch rewrites the superseded attempt's action and stops the child's current run.
  `FailedVerificationStops`: a worker that dies between failing VERIFY and recording
  the rollback leaves VERIFY failed, with neither rollback nor a human asked.
- *Fault loop.*  `ReservationsEnd`: a crash between the reservation and `run.started` leaves a key
  that no later start closes or runs, where the contract says an expired reservation is
  safely terminalized as `failed` (`docs/architecture/local-fault-to-recovery-loop-contract.md:49`).
- *Run viewer.*  `SelectedEndIsShown`: an answer for the page's state from before the run bound its topology,
  arriving after the first events of the run, takes the run away from the page, which ignores everything of
  it from then on; the plan says that reload, stream and retry preserve the pinned run
  (`docs/superpowers/plans/2026-07-25-agent-led-incident-workspace-implementation.md:434`).  `GraphIsShown`: a keyed topology read superseded by a keyless one that fails leaves
  the page without the run's topology; its tracker believes the key in flight.  A page loaded without a
  `run_id` in a session that has a shared run selects this run before the variables of its stream are initialized
  (`app.js:180`): the script ends with a ReferenceError, and so does every reload of that address.
- *Incident page.*  `KeepsFollowing`: a read that fails after a rehydration, or a stream the server
  refuses, leaves the page frozen, without a stream and without a button to retry; the
  live page keeps the same dead stream.  `SeriesOfShown`: a page opened without an incident that the
  operator moved meanwhile takes the incident of the late live snapshot, and keeps the other's series.
  A command's late receipt is taken by the page of another incident, whose next event it then hides.  A
  command that the clock gave up while its refresh was running lets that refresh
  fail without saying so.
- *Live page.*  A graph whose read failed is read again only with the incident's next event.
- *Owner's gate.*  A restart loses the snapshots, so a run that waits at its gate can never be approved, and a
  new investigation of it ends blocked.  The page shows a run as not actionable once its snapshot is five
  minutes old, and once its verification was recorded.  A crash between
  approval and attempt, or between attempt and record, is a dead end.  So is an attempt whose row was
  written and could not be read back (`ledger.mjs:105`): the request fails without having called the
  rollback, no later one may call it, and the page shows the run as executing.  An investigation
  cut short between its evaluation and its gate and then repeated leaves two
  accepted evaluations, after which the authority refuses the run for ever.  An investigation that failed and
  is then repeated with success leaves the run shown as blocked although its gate waits, because `stateFor`
  looks at the last outcome.  With a model key the page never
  shows the gate, though an approval works.  A crash between applying the case and starting its run leaves the
  flag on, and every later start refused.  `approve`, `verify` and `investigate` address the latest run whatever page is
  shown, so that an older run which is still shown as waiting offers an approval that goes to another run
  (`OffersAreTaken` speaks of the latest run for this reason); a reset hides a run that waits; a repeated `verify` records twice.

- *Chat.*  Two submissions of a live run with one key are both received, and the provider is called for
  both, where the contract says that a repeated key returns the recorded result
  (`docs/architecture/agent-team-chat-backend-contract.md:86`): the lookup uses what was read
  before the context was awaited.  The room for 18 records is checked and not reserved, and all tabs of a run share a
  conversation, so overlapping submissions can take it past 48 records; the page then rejects it for
  good.  The projection's revision is checked before the key is looked up, so a retry after it moved
  is refused.  A context that is too large, or a crash, leaves a received message at work for ever, and
  its key returns that.

## 6. Abstractions

- Stages are the numbers 1 to 6; premises, actions and generations of the container are
  model values or counters.  Identifiers, texts, times, hashes, evidence and facts
  are left out; what a provider answers is a nondeterministic choice.
- Hypotheses, mentions, stage progress and audit records are not modelled: no
  guard reads them.  Of the size limits those on stage runs and
  attempts are.
- `GuidedWorkflow` records one outcome per execution.  `ActionExecution` shows that attempts
  which overlap may report different ones, of which the first stored stands; the later
  attempt's completion of RESPOND goes by its own (`workspace_v3_guided.py:2389`),
  and is not modelled.
- In `WorkflowStore` a validation may refuse any command (the stage may not allow it); an
  attempt that Temporal gave up on is dead, and does not go on beside its successor.
  Reads are from the primary: there is no stale replica.
- In `GuidedWorkflow` a VERIFY run may succeed or fail at any time: the timer and
  the samples it judges are not modelled.
- In `FaultLoop` the events that no reader tells apart share a type; `evidence.recorded` and the tools'
  events are folded into the step they belong to.  Four agents are called in the code's order;
  what they answer is left out.
- In `RunViewer` a state read that the server refuses for good (an HTTP status other than 408, 429 and 5xx)
  ends all retries of its run, and the page asks the user to retry; `refused` remembers the run until the
  state is asked for again, and `EndIsShown` does not promise its end meanwhile.  Why the server refuses is not modelled.
- In `RunViewer` `DemoReset` lets the server forget its active run at any time, which is more than the
  demo's own reset does.  Rendering and the conversation are left out.
- In `Workbench` and `LiveList` each commit is one event and one revision; a snapshot lists all open incidents (the server's
  limit of 100 is left out), and a resolved incident changes no more.  Panels, the agent portal and the clock's
  display are left out.
- In `OwnerGate` a snapshot is named by its instant, and time passes only between stretches.  The lock that
  a database trigger inserts inside the claim's own transaction is left out, and so are locks that touch
  neither incident nor contract, rejected hypotheses, and appends that fail while a run is being started.  The
  contents of evidence, plans and receipts are left out: an event rests on another one, or on a snapshot, or
  it does not.
- In `TeamChat` a refused append is left out, and so are wording, citations and the panel; an envelope is told apart
  by whether it asks for authority, is handed to another role, and names a component that role may read.  Messages with
  one key but of two submissions are two entries, although the ledger gives both one identifier.
- In `ActionExecution` a flag write takes effect before its request gives up on it;
  a write that reaches the flag service later still is not considered.  The V3
  safe-rollback endpoint is not modelled yet.  Signatures, schema
  and manifest checks, and fingerprints of requests are left out: worker and
  executor agree on them.  `NewRun` stands for all ways to a new RESPOND run; that
  behind the boundary the fault flag was seen on is DECIDE's preflight.

## 7. Not modelled, and what comes next

Not modelled because they keep no protocol state: prompts, provider adapters, rendering, start-up
scripts, migrations and fixtures, request validation and routing.  Not modelled yet, in the order that
would add most:

1. `StageRuntime`: `run_stage` as a process with a program counter, the commits it
   does not rebase, its retries and the agents an operator starts beside it; what completes
   RESPOND after overlapping attempts; composed with `WorkflowStore`'s dispatch.
2. `VerifyWindow`: the deadline, the samples and the last check of VERIFY.
3. `RealtimeDispatch`: outbox, leases, scheduler, freshness deadlines, and the
   order in which snapshots reach the projection.
4. `Rollover`: continue-as-new with updates, timers and connector commands in
   flight.
5. The replay's own approval and its steps; the chat's panel with its stream, and agent control's
   cancellations.
6. The safe-rollback port next to `ActionExecution`; the OTLP spool; the event
   stream's cursor; authorization replay; the V2 page and its reducer; the V1 gate.
