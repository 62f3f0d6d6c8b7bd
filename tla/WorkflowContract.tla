--------------------------- MODULE WorkflowContract ---------------------------
(***************************************************************************)
(* What the guided workflow promises its operator, with nothing of how it  *)
(* keeps the promise: an attempt goes through the stages one at a time and *)
(* only from a stage that succeeded; it crosses the external boundary at   *)
(* most once, in RESPOND; before that it may go back, afterwards only a    *)
(* new attempt can, and only to a diagnostic stage; an incident is closed  *)
(* after an executed and verified response, and then nothing happens.      *)
(*                                                                         *)
(* Stages are numbered as WORKFLOW_STAGE_ORDER_V3 orders them.             *)
(***************************************************************************)
EXTENDS Naturals

VARIABLES
    attempt,   \* number of the current attempt
    stage,     \* its stage, from DETECT (1) to VERIFY (6)
    state,     \* "RUNNING", "SUCCEEDED", or "STOPPED": failed or escalated
    executed,  \* the attempt has crossed the external boundary
    closed     \* the incident is resolved

contractVars == <<attempt, stage, state, executed, closed>>

Start ==
    /\ attempt = 1 /\ stage = 1
    /\ state \in {"RUNNING", "SUCCEEDED"}
    /\ ~executed /\ ~closed

\* RESPOND and VERIFY succeed only behind the boundary.
Finish ==
    /\ ~closed /\ state = "RUNNING"
    /\ stage >= 5 => executed
    /\ state' = "SUCCEEDED"
    /\ UNCHANGED <<attempt, stage, executed, closed>>

Stop ==
    /\ ~closed
    /\ state' = "STOPPED"
    /\ UNCHANGED <<attempt, stage, executed, closed>>

NextStage ==
    /\ ~closed /\ state = "SUCCEEDED" /\ stage < 6
    /\ stage' = stage + 1 /\ state' = "RUNNING"
    /\ UNCHANGED <<attempt, executed, closed>>

Cross ==
    /\ ~closed /\ stage = 5 /\ state # "SUCCEEDED" /\ ~executed
    /\ executed' = TRUE
    /\ UNCHANGED <<attempt, stage, state, closed>>

GoBack ==
    /\ ~closed /\ ~executed
    /\ stage' \in 1..stage /\ stage' # 6
    /\ state' = "RUNNING"
    /\ UNCHANGED <<attempt, executed, closed>>

BranchOff ==
    /\ ~closed /\ executed
    /\ attempt' = attempt + 1
    /\ stage' \in {3, 4}
    /\ state' = "RUNNING" /\ executed' = FALSE
    /\ UNCHANGED closed

Close ==
    /\ ~closed /\ stage = 6 /\ state = "SUCCEEDED" /\ executed
    /\ closed' = TRUE
    /\ UNCHANGED <<attempt, stage, state, executed>>

Move ==
    \/ Finish
    \/ Stop
    \/ NextStage
    \/ Cross
    \/ GoBack
    \/ BranchOff
    \/ Close

Spec == Start /\ [][Move]_contractVars
=============================================================================
