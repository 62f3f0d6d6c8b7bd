--------------------------- MODULE ActionExecution ---------------------------
(***************************************************************************)
(* The execution of an approved response action: a Temporal activity of at *)
(* most MaxAttempts attempts (execute_action) claims the action in the     *)
(* projection, calls the Node executor under the action's execution key    *)
(* and records the receipt.  The executor turns the fault flag off and     *)
(* recreates the Checkout container, two external effects, and keeps an    *)
(* append-only ledger to find out after a crash how far it came.           *)
(*                                                                         *)
(* An action has one execution key, so the module names both by the        *)
(* action.  A worker that died, or that Temporal gave up on but that still *)
(* runs, may overlap the next attempt; Node may crash at any point, and    *)
(* the container engine finish afterwards what it was told to do; the flag *)
(* and the container also change by themselves.  The ledger's claimed      *)
(* event is left out: nothing reads it.                                    *)
(***************************************************************************)
EXTENDS Naturals

CONSTANTS
    Actions,       \* the actions of the incident's RESPOND runs
    MaxAttempts,   \* attempts of an activity (GUIDED_ACTIVITY_MAX_ATTEMPTS)
    MaxEpochs,     \* bound on how often the fault is injected
    MaxRestarts    \* bound on restarts of Checkout by itself

ASSUME ActionsAssumption == Actions # {}
ASSUME AttemptsAssumption == MaxAttempts \in Nat \ {0}
ASSUME BoundsAssumption == MaxEpochs \in Nat \ {0} /\ MaxRestarts \in Nat

Attempts == 1..MaxAttempts

VARIABLES
    execution,   \* execution_state of each action in the projection
    current,     \* the action of the current RESPOND run
    calls,       \* calls[a][n]: how far attempt n of a's activity is
    handlers,    \* the executor's running request for a key, in Node's memory
    started,     \* ledger: Checkout's generation when a's execution started, or 0
    completed,   \* ledger: the keys with a completed event
    flag,        \* the fault flag, "on" or "off"
    checkout,    \* generation of the Checkout container
    running,     \* whether that container runs
    orphans,     \* keys whose recreation goes on without a handler
    epoch,       \* number of the fault injection the system is in
    wrote,       \* history: the epoch in which a key last wrote the flag, or 0
    restarts,    \* restarts of Checkout by itself
    disturbed    \* history: flag, container or an answer met interference

projectionVars == <<execution, current>>
ledgerVars == <<started, completed>>
systemVars == <<flag, checkout, running, orphans, epoch, wrote>>
worldVars == <<restarts, disturbed>>
vars == <<projectionVars, calls, handlers, ledgerVars, systemVars, worldVars>>

Receipts == {"SUCCEEDED", "FAILED", "NEEDS_HUMAN"}
Replies == {"success", "rejected", "human", "unavailable", "garbled"}

Init ==
    /\ execution = [a \in Actions |-> "NOT_STARTED"]
    /\ current \in Actions
    /\ calls = [a \in Actions |-> [n \in Attempts |-> "none"]]
    /\ handlers = [a \in Actions |-> "idle"]
    /\ started = [a \in Actions |-> 0] /\ completed = {}
    /\ flag = "on" /\ checkout = 1 /\ running = TRUE /\ orphans = {}
    /\ epoch = 1 /\ wrote = [a \in Actions |-> 0]
    /\ restarts = 0 /\ disturbed = FALSE

SetCall(a, n, state) == calls' = [calls EXCEPT ![a][n] = state]

-----------------------------------------------------------------------------
(* The workflow: approval, retries, and the operator moving on.            *)

\* The owner approves the action of the current run: its activity starts.
Approve(a) ==
    /\ current = a
    /\ calls[a][1] = "none"
    /\ SetCall(a, 1, "begin")
    /\ UNCHANGED <<projectionVars, handlers, ledgerVars, systemVars, worldVars>>

(***************************************************************************)
(* A RETRY or a rerun leads to a RESPOND run with an action of its own.    *)
(* Behind the external boundary the way leads through DECIDE, whose        *)
(* preflight requires the fault flag to be on.                             *)
(***************************************************************************)
NewRun(a) ==
    /\ a # current
    /\ calls[a][1] = "none"
    /\ execution[current] \in {"SUCCEEDED", "NEEDS_HUMAN"} => flag = "on"
    /\ current' = a
    /\ UNCHANGED <<execution, calls, handlers, ledgerVars, systemVars, worldVars>>

\* Seeded fault: an attempt that raised is not retried.
RetryableOnTimeout(call) == call \notin {"none", "ended", "refused", "failed"}

\* A PolicyViolation is not retried, other errors and timeouts are.
Retryable(call) == call \notin {"none", "ended", "refused"}

\* Temporal starts the next attempt when the last one failed or timed out; in
\* the latter case the last one may still be running.
NextAttempt(a, n) ==
    /\ n > 1
    /\ calls[a][n] = "none"
    /\ Retryable(calls[a][n - 1])
    /\ SetCall(a, n, "begin")
    /\ UNCHANGED <<projectionVars, handlers, ledgerVars, systemVars, worldVars>>

-----------------------------------------------------------------------------
(* The activity, execute_action.                                           *)

\* mark_action_execution_started, a no-op when an earlier attempt did it.
Claim(a, n) ==
    /\ calls[a][n] = "begin"
    /\ current = a
    /\ execution[a] \in {"NOT_STARTED", "RUNNING"}
    /\ execution' = [execution EXCEPT ![a] = "RUNNING"]
    /\ SetCall(a, n, "call")
    /\ UNCHANGED <<current, handlers, ledgerVars, systemVars, worldVars>>

\* An earlier attempt has recorded the receipt.
AlreadyRecorded(a, n) ==
    /\ calls[a][n] = "begin"
    /\ current = a
    /\ execution[a] \in Receipts
    /\ SetCall(a, n, "ended")
    /\ UNCHANGED <<projectionVars, handlers, ledgerVars, systemVars, worldVars>>

\* Seeded fault: the executor's refusal is copied into the receipt.
ReceiptOfReply(reply) ==
    CASE reply = "rejected" -> "REJECTED"
      [] reply = "success" -> "SUCCEEDED"
      [] OTHER -> "NEEDS_HUMAN"

\* Seeded fault: only a lost answer is ambiguous, not a failed reconciliation.
ReceiptWithoutReconciliation(reply) ==
    CASE reply = "success" -> "SUCCEEDED"
      [] reply = "unavailable" -> "NEEDS_HUMAN"
      [] OTHER -> "FAILED"

\* A refusal, or an answer that cannot be read, is FAILED; an unknown outcome,
\* or one that the executor could not reconcile, needs a human.
Receipt(reply) ==
    CASE reply = "success" -> "SUCCEEDED"
      [] reply \in {"rejected", "garbled"} -> "FAILED"
      [] OTHER -> "NEEDS_HUMAN"

\* Only the last attempt turns an unavailable executor into a receipt.
HasOutcome(a, n) == calls[a][n] \in Replies /\ (calls[a][n] = "unavailable" => n = MaxAttempts)

\* record_action_execution reads a projection without a receipt.
Prepare(a, n) ==
    /\ HasOutcome(a, n)
    /\ current = a
    /\ execution[a] = "RUNNING"
    /\ SetCall(a, n, Receipt(calls[a][n]))
    /\ UNCHANGED <<projectionVars, handlers, ledgerVars, systemVars, worldVars>>

\* It reads one with a receipt, which it accepts if it is the same, down to its
\* timestamps.
RecordedBefore(a, n) ==
    /\ HasOutcome(a, n)
    /\ current = a
    /\ execution[a] \in Receipts
    /\ \/ SetCall(a, n, "refused")
       \/ execution[a] = Receipt(calls[a][n]) /\ SetCall(a, n, "ended")
    /\ UNCHANGED <<projectionVars, handlers, ledgerVars, systemVars, worldVars>>

\* Seeded fault: the commit does not look for its key.
RecordableAgain(a) == TRUE

\* No receipt was stored under the commit's key, which all receipts share.
Recordable(a) == execution[a] = "RUNNING"

(***************************************************************************)
(* The receipt is committed.  One that was stored since the projection was *)
(* read passes for this one: the attempt goes on with its own outcome and  *)
(* completes the RESPOND run accordingly.                                  *)
(***************************************************************************)
Record(a, n) ==
    /\ calls[a][n] \in Receipts
    /\ current = a
    /\ execution' = [execution EXCEPT ![a] = IF Recordable(a) THEN calls[a][n] ELSE @]
    /\ SetCall(a, n, "ended")
    /\ UNCHANGED <<current, handlers, ledgerVars, systemVars, worldVars>>

\* The run is not the current one any more: the activity raises.
Obsolete(a, n) ==
    /\ HasOutcome(a, n) \/ calls[a][n] \in {"begin"} \cup Receipts
    /\ current # a
    /\ SetCall(a, n, "refused")
    /\ UNCHANGED <<projectionVars, handlers, ledgerVars, systemVars, worldVars>>

\* A commit loses its race against other writers of the projection three times
\* (_persist_with_rebase).
RacesLost(a, n) ==
    /\ current = a
    /\ \/ calls[a][n] = "begin" /\ execution[a] = "NOT_STARTED"
       \/ calls[a][n] \in Receipts /\ Recordable(a)
    /\ SetCall(a, n, "refused")
    /\ UNCHANGED <<projectionVars, handlers, ledgerVars, systemVars, worldVars>>

\* An attempt before the last one raises and leaves it to the next.
Unavailable(a, n) ==
    /\ calls[a][n] = "unavailable"
    /\ n < MaxAttempts
    /\ SetCall(a, n, "failed")
    /\ UNCHANGED <<projectionVars, handlers, ledgerVars, systemVars, worldVars>>

WorkerDies(a, n) ==
    /\ calls[a][n] \notin {"none", "ended", "refused", "failed"}
    /\ SetCall(a, n, "failed")
    /\ UNCHANGED <<projectionVars, handlers, ledgerVars, systemVars, worldVars>>

-----------------------------------------------------------------------------
(* The executor (reuseGuidedRequest, guidedActionExecution).               *)

\* A key's completed event answers at once; a running request is joined.
Request(a, n) ==
    /\ calls[a][n] = "call"
    /\ SetCall(a, n, IF a \in completed THEN "success" ELSE "wait")
    /\ handlers' = [handlers EXCEPT ![a] =
                        IF @ = "idle" /\ a \notin completed THEN "reading" ELSE @]
    /\ UNCHANGED <<projectionVars, ledgerVars, systemVars, worldVars>>

\* The bridge's timeout, or a connection that broke.
CallLost(a, n) ==
    /\ calls[a][n] \in {"call", "wait"}
    /\ SetCall(a, n, "unavailable")
    /\ UNCHANGED <<projectionVars, handlers, ledgerVars, systemVars, worldVars>>

\* The body of an answer breaks off, which is not one of the errors that count
\* as a lost answer; of a refusal only the status is left.
AnswerBreaks(a, n) ==
    /\ calls[a][n] \in {"success", "human"}
    /\ SetCall(a, n, "garbled")
    /\ disturbed' = TRUE
    /\ UNCHANGED <<projectionVars, handlers, ledgerVars, systemVars, restarts>>

Move(a, from, to) == handlers[a] = from /\ handlers' = [handlers EXCEPT ![a] = to]

\* The request ends and everyone who waits for it gets the reply.
Answered(a, reply) ==
    /\ calls' = [calls EXCEPT ![a] = [n \in Attempts |-> IF @[n] = "wait" THEN reply ELSE @[n]]]
    /\ handlers' = [handlers EXCEPT ![a] = "idle"]

Succeed(a) ==
    /\ completed' = completed \cup {a}
    /\ Answered(a, "success")
    /\ UNCHANGED started

Refuse(a, reply) == Answered(a, reply) /\ UNCHANGED ledgerVars

ReadFlag(a) ==
    /\ Move(a, "reading", IF flag = "on" THEN "sawOn" ELSE "sawOff")
    /\ UNCHANGED <<projectionVars, calls, ledgerVars, systemVars, worldVars>>

\* Seeded fault: the recreation is inferred from the flag write.
FlagWriteProves(a) == started[a] # 0

\* A newer, running container than when the execution started.
CheckoutRecreated(a) == running /\ checkout > started[a]

\* Seeded fault: without a proof the mutation is repeated.
RecoverByRepeating(a) ==
    /\ handlers[a] = "sawOff"
    /\ started[a] # 0
    /\ IF CheckoutRecreated(a) THEN Succeed(a)
       ELSE Move(a, "sawOff", "executing") /\ UNCHANGED <<calls, ledgerVars>>
    /\ UNCHANGED <<projectionVars, systemVars, worldVars>>

\* The flag is off and an earlier request had started: succeed only if the
\* recreation is proved, and never mutate again.
Recover(a) ==
    /\ handlers[a] = "sawOff"
    /\ started[a] # 0
    /\ IF CheckoutRecreated(a) THEN Succeed(a) ELSE Refuse(a, "human")
    /\ UNCHANGED <<projectionVars, systemVars, worldVars>>

\* The flag is off although nothing was started.
PreconditionChanged(a) ==
    /\ handlers[a] = "sawOff"
    /\ started[a] = 0
    /\ Refuse(a, "rejected")
    /\ UNCHANGED <<projectionVars, systemVars, worldVars>>

\* The started event, with the identity of the container before, is appended
\* unless an earlier request did.
Start(a) ==
    /\ Move(a, "sawOn", "executing")
    /\ started' = [started EXCEPT ![a] = IF @ = 0 THEN checkout ELSE @]
    /\ UNCHANGED <<projectionVars, calls, completed, systemVars, worldVars>>

WriteFlag(a) ==
    /\ Move(a, "executing", "flagged")
    /\ flag' = "off"
    /\ wrote' = [wrote EXCEPT ![a] = epoch]
    /\ UNCHANGED <<projectionVars, calls, ledgerVars, checkout, running, orphans, epoch, worldVars>>

Recreate(a) ==
    /\ Move(a, "flagged", "recreated")
    /\ checkout' = checkout + 1 /\ running' = TRUE
    /\ UNCHANGED <<projectionVars, calls, ledgerVars, flag, orphans, epoch, wrote, worldVars>>

\* The postcondition is read back.
Check(a) ==
    /\ handlers[a] = "recreated"
    /\ IF flag = "off" /\ CheckoutRecreated(a) THEN Succeed(a) ELSE Refuse(a, "rejected")
    /\ UNCHANGED <<projectionVars, systemVars, worldVars>>

\* A read, the write, the recreation or the probe after it fails: a generic
\* 5xx.  A recreation that timed out may still go through.
HandlerFails(a) ==
    /\ handlers[a] # "idle"
    /\ Refuse(a, "unavailable")
    /\ orphans' \in {orphans} \cup
                    (IF handlers[a] = "flagged" THEN {orphans \cup {a}} ELSE {})
    /\ UNCHANGED <<projectionVars, flag, checkout, running, epoch, wrote, worldVars>>

\* Every request in memory is lost, with the connections that waited for it.
NodeCrashes ==
    /\ \E a \in Actions : handlers[a] # "idle"
    /\ handlers' = [a \in Actions |-> "idle"]
    /\ calls' = [a \in Actions |-> [n \in Attempts |->
                    IF calls[a][n] = "wait" THEN "unavailable" ELSE calls[a][n]]]
    /\ \E left \in SUBSET {a \in Actions : handlers[a] = "flagged"} :
          orphans' = orphans \cup left
    /\ UNCHANGED <<projectionVars, ledgerVars, flag, checkout, running, epoch, wrote, worldVars>>

OrphanRecreates(a) ==
    /\ a \in orphans
    /\ checkout' = checkout + 1 /\ running' = TRUE
    /\ orphans' = orphans \ {a}
    /\ UNCHANGED <<projectionVars, calls, handlers, ledgerVars, flag, epoch, wrote, worldVars>>

-----------------------------------------------------------------------------
(* The system under repair.                                                *)

\* applyDevelopmentCase: the demonstration's fault is injected again.
InjectFault ==
    /\ flag = "off"
    /\ epoch < MaxEpochs
    /\ flag' = "on" /\ epoch' = epoch + 1 /\ disturbed' = TRUE
    /\ UNCHANGED <<projectionVars, calls, handlers, ledgerVars, checkout, running, orphans, wrote,
                   restarts>>

CheckoutStops ==
    /\ running
    /\ running' = FALSE /\ disturbed' = TRUE
    /\ UNCHANGED <<projectionVars, calls, handlers, ledgerVars, flag, checkout, orphans, epoch,
                   wrote, restarts>>

CheckoutRestarts ==
    /\ restarts < MaxRestarts
    /\ checkout' = checkout + 1 /\ running' = TRUE
    /\ restarts' = restarts + 1 /\ disturbed' = TRUE
    /\ UNCHANGED <<projectionVars, calls, handlers, ledgerVars, flag, orphans, epoch, wrote>>

-----------------------------------------------------------------------------

ActivityStep(a, n) ==
    \/ Claim(a, n)
    \/ AlreadyRecorded(a, n)
    \/ Prepare(a, n)
    \/ Record(a, n)
    \/ RecordedBefore(a, n)
    \/ Obsolete(a, n)
    \/ Unavailable(a, n)
    \/ Request(a, n)

HandlerStep(a) ==
    \/ ReadFlag(a)
    \/ Recover(a)
    \/ PreconditionChanged(a)
    \/ Start(a)
    \/ WriteFlag(a)
    \/ Recreate(a)
    \/ Check(a)
    \/ HandlerFails(a)

Next ==
    \/ \E a \in Actions : Approve(a) \/ NewRun(a) \/ HandlerStep(a) \/ OrphanRecreates(a)
    \/ \E a \in Actions, n \in Attempts :
          \/ NextAttempt(a, n)
          \/ ActivityStep(a, n)
          \/ RacesLost(a, n)
          \/ WorkerDies(a, n)
          \/ CallLost(a, n)
          \/ AnswerBreaks(a, n)
    \/ NodeCrashes
    \/ InjectFault
    \/ CheckoutStops
    \/ CheckoutRestarts

Spec == Init /\ [][Next]_vars

(***************************************************************************)
(* Temporal retries an attempt that failed or timed out; a worker that     *)
(* lives goes on; an executor that lives ends its request, if only with an *)
(* error, because each of its external calls has a timeout.  Nothing is    *)
(* assumed of crashes, of the operator or of the system under repair.      *)
(***************************************************************************)
Fairness ==
    /\ \A a \in Actions : WF_vars(HandlerStep(a))
    /\ \A a \in Actions, n \in Attempts :
          WF_vars(NextAttempt(a, n)) /\ WF_vars(ActivityStep(a, n)) /\ WF_vars(CallLost(a, n))

FairSpec == Spec /\ Fairness

-----------------------------------------------------------------------------
(* Properties.                                                             *)

CallStates ==
    {"none", "begin", "call", "wait", "ended", "refused", "failed"} \cup Replies \cup Receipts
HandlerStates == {"idle", "reading", "sawOn", "sawOff", "executing", "flagged", "recreated"}

\* Every variable has its type; in particular a receipt has one of the three
\* statuses that record_action_execution is given.
TypeOK ==
    /\ execution \in [Actions -> {"NOT_STARTED", "RUNNING"} \cup Receipts]
    /\ current \in Actions
    /\ calls \in [Actions -> [Attempts -> CallStates]]
    /\ handlers \in [Actions -> HandlerStates]
    /\ started \in [Actions -> Nat] /\ completed \subseteq Actions
    /\ flag \in {"on", "off"} /\ checkout \in Nat \ {0} /\ running \in BOOLEAN
    /\ orphans \subseteq Actions /\ epoch \in Nat \ {0} /\ wrote \in [Actions -> Nat]
    /\ restarts \in Nat /\ disturbed \in BOOLEAN

(***************************************************************************)
(* A SUCCEEDED receipt is never made up: the execution had started and     *)
(* Checkout has been recreated since, whatever crashed in between and      *)
(* whichever attempt or recovery claims the success.                       *)
(***************************************************************************)
SuccessIsReal ==
    \A a \in Actions : execution[a] = "SUCCEEDED" =>
        a \in completed /\ started[a] # 0 /\ checkout > started[a]

(***************************************************************************)
(* A key whose write turned the flag off never writes it again, through    *)
(* any number of retries, crashes and recoveries, unless the fault was     *)
(* injected anew.                                                          *)
(***************************************************************************)
NeverRepeated ==
    [][\A a \in Actions :
          handlers[a] = "executing" /\ handlers'[a] = "flagged" => wrote[a] # epoch]_vars

(***************************************************************************)
(* The first receipt of an action stands: attempts that overlap, or that   *)
(* answer after Temporal gave up on them, never replace it.                *)
(***************************************************************************)
ReceiptFinal ==
    [][\A a \in Actions : execution[a] \in Receipts => execution'[a] = execution[a]]_vars

(***************************************************************************)
(* As long as nobody else touches flag and container and answers arrive    *)
(* whole or not at all, FAILED, which allows a retry under a new key, is   *)
(* recorded only for a key that never wrote.                               *)
(***************************************************************************)
FailedIsUntouched ==
    \A a \in Actions : execution[a] = "FAILED" /\ ~disturbed => wrote[a] = 0

\* No attempt is left: the last one failed, or the latest may not be retried.
GivenUp(a) ==
    \E n \in Attempts :
        /\ calls[a][n] \in {"refused", "failed"}
        /\ IF n = MaxAttempts THEN TRUE
           ELSE calls[a][n] = "refused" /\ calls[a][n + 1] = "none"

(***************************************************************************)
(* A claimed execution gets its receipt, unless the operator gives up the  *)
(* run, the last attempt is lost as well, or the receipt loses its races.  *)
(***************************************************************************)
ExecutionAnswered ==
    \A a \in Actions :
        execution[a] = "RUNNING" ~>
            \/ execution[a] \in Receipts
            \/ current # a
            \/ GivenUp(a)

(***************************************************************************)
(* "An ambiguous or completed external mutation is an irreversible         *)
(* boundary": an action whose key mutated the system is never FAILED, the  *)
(* one receipt that does not cross the boundary.                           *)
(***************************************************************************)
FailedMeansUnmutated ==
    \A a \in Actions : execution[a] = "FAILED" => wrote[a] = 0
=============================================================================
