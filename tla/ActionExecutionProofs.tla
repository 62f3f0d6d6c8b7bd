------------------------ MODULE ActionExecutionProofs ------------------------
(***************************************************************************)
(* The safety properties of ActionExecution, for any set of actions, any   *)
(* number of attempts and any bounds.                                      *)
(*                                                                         *)
(* None of them is inductive.  That a receipt is true rests on what the    *)
(* ledger says of an execution while its request runs and after it is      *)
(* completed (Truth), that nothing is repeated on what a request has read  *)
(* before it writes (Written), and that a refusal means an untouched       *)
(* system on what the flag and the container must look like at each step   *)
(* of a request when nobody else changes them (Undisturbed).               *)
(***************************************************************************)
EXTENDS ActionExecution, TLAPS

\* A request mutates only after its started event, which names no generation
\* of the container that does not exist yet.
Begun ==
    \A a \in Actions :
        /\ started[a] <= checkout
        /\ handlers[a] \in {"executing", "flagged", "recreated"} => started[a] # 0

\* A completed event has a started one, and a recreation since.
Proved == \A a \in completed : started[a] # 0 /\ checkout > started[a]

ClaimsSuccess(a) == execution[a] = "SUCCEEDED" \/ \E n \in Attempts : calls[a][n] \in {"success", "SUCCEEDED"}

\* Who says that the execution succeeded has it from a completed event.
Claimed == \A a \in Actions : ClaimsSuccess(a) => a \in completed

Truth == Begun /\ Proved /\ Claimed

\* A write holds until the fault is injected anew, and no request that is
\* about to write wrote before under the same injection.
Written ==
    \A a \in Actions :
        /\ wrote[a] <= epoch
        /\ wrote[a] = epoch => flag = "off" /\ handlers[a] \notin {"sawOn", "executing"}

Refused(a) == execution[a] = "FAILED" \/ \E n \in Attempts : calls[a][n] \in {"rejected", "garbled", "FAILED"}

\* What a request relies on if nobody else touches flag and container: its
\* postcondition cannot fail, and it is refused only before it starts.
Clean(a) ==
    /\ wrote[a] # 0 => flag = "off" /\ started[a] # 0
    /\ handlers[a] \in {"sawOff", "flagged", "recreated"} => flag = "off"
    /\ handlers[a] = "recreated" => checkout > started[a]
    /\ Refused(a) => /\ wrote[a] = 0 /\ started[a] = 0 /\ flag = "off"
                     /\ handlers[a] \in {"idle", "reading", "sawOff"}

Undisturbed == ~disturbed => running /\ \A a \in Actions : Clean(a)

Inv == TypeOK /\ Truth /\ Written /\ Undisturbed

-----------------------------------------------------------------------------
(* Every step keeps each part of the invariant.                            *)

\* The initial states satisfy it: nothing was called and nothing written.
LEMMA InitHasInv == Init => Inv
<1> SUFFICES ASSUME Init PROVE Inv
  OBVIOUS
<1> USE BoundsAssumption DEF Init
<1>1. TypeOK
  <2>1. /\ execution \in [Actions -> {"NOT_STARTED", "RUNNING"} \cup Receipts]
        /\ calls \in [Actions -> [Attempts -> CallStates]]
        /\ handlers \in [Actions -> HandlerStates]
    BY DEF CallStates, HandlerStates
  <2>2. started \in [Actions -> Nat] /\ wrote \in [Actions -> Nat]
    OBVIOUS
  <2>3. running \in BOOLEAN /\ disturbed \in BOOLEAN
    OBVIOUS
  <2>4. /\ checkout \in Nat \ {0} /\ epoch \in Nat \ {0} /\ restarts \in Nat
        /\ completed \subseteq Actions /\ orphans \subseteq Actions
        /\ current \in Actions /\ flag \in {"on", "off"}
    OBVIOUS
  <2> QED BY <2>1, <2>2, <2>3, <2>4 DEF TypeOK
<1>2. Truth
  BY DEF Truth, Begun, Proved, Claimed, ClaimsSuccess
<1>3. Written
  <2> SUFFICES ASSUME NEW a \in Actions
               PROVE  wrote[a] <= epoch /\ wrote[a] # epoch
    BY DEF Written
  <2>1. wrote[a] = 0 /\ epoch = 1
    OBVIOUS
  <2> HIDE DEF Init
  <2> QED BY <2>1
<1>4. Undisturbed
  BY DEF Undisturbed, Clean, Refused
<1> QED BY <1>1, <1>2, <1>3, <1>4 DEF Inv

\* The end of a request leaves its handler idle and its callers answered.
LEMMA AnswerTyped ==
    ASSUME TypeOK, NEW a \in Actions, NEW reply \in Replies, Answered(a, reply)
    PROVE  /\ calls' \in [Actions -> [Attempts -> CallStates]]
           /\ handlers' \in [Actions -> HandlerStates]
  BY DEF TypeOK, Answered, CallStates, HandlerStates

\* Only its callers get the reply, and only its handler stops.
LEMMA AnswerReaches ==
    ASSUME TypeOK, NEW a \in Actions, NEW reply \in Replies, Answered(a, reply)
    PROVE  /\ \A b \in Actions, n \in Attempts :
                  calls'[b][n] = calls[b][n] \/ (b = a /\ calls'[b][n] = reply)
           /\ \A b \in Actions : handlers'[b] = IF b = a THEN "idle" ELSE handlers[b]
  BY DEF TypeOK, Answered

\* An answer that does not claim success changes nothing that Truth speaks of.
LEMMA StillTrue ==
    ASSUME TypeOK, Truth, NEW a \in Actions, NEW reply \in Replies, reply # "success",
           Answered(a, reply), UNCHANGED <<execution, ledgerVars, checkout>>
    PROVE  Truth'
<1>1. Begun'
  BY AnswerReaches DEF Truth, Begun, ledgerVars
<1>2. Proved'
  BY DEF Truth, Proved, ledgerVars
<1>3. ASSUME NEW b \in Actions, ClaimsSuccess(b)'
      PROVE  ClaimsSuccess(b)
  <2>1. CASE execution'[b] = "SUCCEEDED"
    BY <2>1 DEF ClaimsSuccess
  <2>2. CASE \E n \in Attempts : calls'[b][n] \in {"success", "SUCCEEDED"}
    BY <2>2, AnswerReaches DEF ClaimsSuccess, Replies
  <2> QED BY <1>3, <2>1, <2>2 DEF ClaimsSuccess
<1>4. Claimed'
  BY <1>3 DEF Truth, Claimed, ledgerVars
<1> QED BY <1>1, <1>2, <1>4 DEF Truth

\* A step of an activity touches nothing that Clean speaks of but its reply.
LEMMA StillClean ==
    ASSUME Undisturbed, UNCHANGED <<handlers, ledgerVars, systemVars, worldVars>>,
           \A a \in Actions : Refused(a)' => Refused(a)
    PROVE  Undisturbed'
<1>1. \A a \in Actions : Clean(a) => Clean(a)'
  BY DEF Clean, ledgerVars, systemVars
<1> QED BY <1>1 DEF Undisturbed, systemVars, worldVars

\* Every handler, reply and receipt stays among the ones the code knows.
LEMMA StepKeepsTypes ==
    ASSUME TypeOK, [Next]_vars
    PROVE  TypeOK'
<1> USE DEF TypeOK, Receipts, CallStates, HandlerStates, Attempts,
            projectionVars, ledgerVars, systemVars, worldVars
<1>1. CASE UNCHANGED vars
  BY <1>1 DEF vars
<1>2. ASSUME NEW a \in Actions, Approve(a)
      PROVE  TypeOK'
  BY <1>2 DEF Approve, SetCall
<1>3. ASSUME NEW a \in Actions, NewRun(a)
      PROVE  TypeOK'
  BY <1>3 DEF NewRun
<1>4. ASSUME NEW a \in Actions, OrphanRecreates(a)
      PROVE  TypeOK'
  BY <1>4 DEF OrphanRecreates
<1>5. ASSUME NEW a \in Actions, ReadFlag(a)
      PROVE  TypeOK'
  BY <1>5 DEF ReadFlag, Move
<1>6. ASSUME NEW a \in Actions, Recover(a)
      PROVE  TypeOK'
  <2>1. \E reply \in Replies : Answered(a, reply)
    BY <1>6 DEF Recover, Succeed, Refuse, Replies
  <2>2. completed' \subseteq Actions /\ started' = started
    BY <1>6 DEF Recover, Succeed, Refuse
  <2>3. UNCHANGED <<projectionVars, systemVars, worldVars>>
    BY <1>6 DEF Recover
  <2> QED BY <2>1, <2>2, <2>3, AnswerTyped
<1>7. ASSUME NEW a \in Actions, PreconditionChanged(a)
      PROVE  TypeOK'
  BY <1>7, AnswerTyped DEF PreconditionChanged, Refuse, Replies
<1>8. ASSUME NEW a \in Actions, Start(a)
      PROVE  TypeOK'
  BY <1>8 DEF Start, Move
<1>9. ASSUME NEW a \in Actions, WriteFlag(a)
      PROVE  TypeOK'
  BY <1>9 DEF WriteFlag, Move
<1>10. ASSUME NEW a \in Actions, Recreate(a)
      PROVE  TypeOK'
  BY <1>10 DEF Recreate, Move
<1>11. ASSUME NEW a \in Actions, Check(a)
      PROVE  TypeOK'
  <2>1. \E reply \in Replies : Answered(a, reply)
    BY <1>11 DEF Check, Succeed, Refuse, Replies
  <2>2. completed' \subseteq Actions /\ started' = started
    BY <1>11 DEF Check, Succeed, Refuse
  <2>3. UNCHANGED <<projectionVars, systemVars, worldVars>>
    BY <1>11 DEF Check
  <2> QED BY <2>1, <2>2, <2>3, AnswerTyped
<1>12. ASSUME NEW a \in Actions, HandlerFails(a)
      PROVE  TypeOK'
  BY <1>12, AnswerTyped DEF HandlerFails, Refuse, Replies
<1>13. ASSUME NEW a \in Actions, NEW n \in Attempts, NextAttempt(a, n)
      PROVE  TypeOK'
  BY <1>13 DEF NextAttempt, SetCall
<1>14. ASSUME NEW a \in Actions, NEW n \in Attempts, WorkerDies(a, n)
      PROVE  TypeOK'
  BY <1>14 DEF WorkerDies, SetCall
<1>15. ASSUME NEW a \in Actions, NEW n \in Attempts, CallLost(a, n)
      PROVE  TypeOK'
  BY <1>15 DEF CallLost, SetCall, Replies
<1>16. ASSUME NEW a \in Actions, NEW n \in Attempts, Claim(a, n)
      PROVE  TypeOK'
  BY <1>16 DEF Claim, SetCall
<1>17. ASSUME NEW a \in Actions, NEW n \in Attempts, AlreadyRecorded(a, n)
      PROVE  TypeOK'
  BY <1>17 DEF AlreadyRecorded, SetCall
<1>18. ASSUME NEW a \in Actions, NEW n \in Attempts, Prepare(a, n)
      PROVE  TypeOK'
  BY <1>18 DEF Prepare, SetCall, Receipt, Receipts, HasOutcome, Replies
<1>19. ASSUME NEW a \in Actions, NEW n \in Attempts, Record(a, n)
      PROVE  TypeOK'
  BY <1>19 DEF Record, SetCall, Receipts, Recordable
<1>20. ASSUME NEW a \in Actions, NEW n \in Attempts, RecordedBefore(a, n)
      PROVE  TypeOK'
  <2>1. \E state \in {"refused", "ended"} : SetCall(a, n, state)
    BY <1>20 DEF RecordedBefore
  <2> QED BY <1>20, <2>1 DEF RecordedBefore, SetCall
<1>21. ASSUME NEW a \in Actions, NEW n \in Attempts, Obsolete(a, n)
      PROVE  TypeOK'
  BY <1>21 DEF Obsolete, SetCall
<1>22. ASSUME NEW a \in Actions, NEW n \in Attempts, Unavailable(a, n)
      PROVE  TypeOK'
  BY <1>22 DEF Unavailable, SetCall
<1>23. ASSUME NEW a \in Actions, NEW n \in Attempts, Request(a, n)
      PROVE  TypeOK'
  BY <1>23 DEF Request, SetCall, Replies
<1>24. ASSUME NEW a \in Actions, NEW n \in Attempts, RacesLost(a, n)
      PROVE  TypeOK'
  BY <1>24 DEF RacesLost, SetCall
<1>25. ASSUME NEW a \in Actions, NEW n \in Attempts, AnswerBreaks(a, n)
      PROVE  TypeOK'
  BY <1>25 DEF AnswerBreaks, SetCall, Replies
<1>26. CASE NodeCrashes
  BY <1>26 DEF NodeCrashes, Replies
<1>27. CASE InjectFault
  BY <1>27 DEF InjectFault
<1>28. CASE CheckoutStops
  BY <1>28 DEF CheckoutStops
<1>29. CASE CheckoutRestarts
  BY <1>29 DEF CheckoutRestarts
<1> QED BY <1>1, <1>2, <1>3, <1>4, <1>5, <1>6, <1>7, <1>8, <1>9, <1>10, <1>11,
           <1>12, <1>13, <1>14, <1>15, <1>16, <1>17, <1>18, <1>19, <1>20, <1>21,
           <1>22, <1>23, <1>24, <1>25, <1>26, <1>27, <1>28, <1>29
        DEF Next, ActivityStep, HandlerStep

\* A completed event is appended only when the ledger and the container prove
\* the recreation, and success is only ever copied from it.
LEMMA StepKeepsTruth ==
    ASSUME TypeOK, Truth, [Next]_vars
    PROVE  Truth'
<1> USE DEF TypeOK, Truth, Begun, Proved, Claimed, ClaimsSuccess, CallStates, HandlerStates,
            projectionVars, ledgerVars, systemVars, worldVars
<1>1. CASE UNCHANGED vars
  BY <1>1 DEF vars
<1>2. ASSUME NEW a \in Actions, Approve(a)
      PROVE  Truth'
  BY <1>2 DEF Approve, SetCall
<1>3. ASSUME NEW a \in Actions, NewRun(a)
      PROVE  Truth'
  BY <1>3 DEF NewRun
<1>4. ASSUME NEW a \in Actions, OrphanRecreates(a)
      PROVE  Truth'
  BY <1>4 DEF OrphanRecreates
<1>5. ASSUME NEW a \in Actions, ReadFlag(a)
      PROVE  Truth'
  BY <1>5 DEF ReadFlag, Move
<1>6. ASSUME NEW a \in Actions, Recover(a)
      PROVE  Truth'
  <2>1. UNCHANGED <<projectionVars, systemVars, worldVars>> /\ handlers[a] = "sawOff"
    BY <1>6 DEF Recover
  <2>2. CASE CheckoutRecreated(a)
    <3>1. Answered(a, "success") /\ completed' = completed \cup {a} /\ UNCHANGED started
      BY <1>6, <2>2 DEF Recover, Succeed
    <3>2. started[a] # 0
      BY <1>6, <2>1 DEF Recover
    <3> QED BY <2>1, <2>2, <3>1, <3>2, AnswerReaches DEF CheckoutRecreated, Replies
  <2>3. CASE ~CheckoutRecreated(a)
    <3>1. Answered(a, "human") /\ UNCHANGED <<started, completed>>
      BY <1>6, <2>3 DEF Recover, Refuse
    <3> QED BY <2>1, <2>3, <3>1, StillTrue DEF Replies
  <2> QED BY <2>2, <2>3
<1>7. ASSUME NEW a \in Actions, PreconditionChanged(a)
      PROVE  Truth'
  BY <1>7, StillTrue DEF PreconditionChanged, Refuse, Replies
<1>8. ASSUME NEW a \in Actions, Start(a)
      PROVE  Truth'
  BY <1>8 DEF Start, Move
<1>9. ASSUME NEW a \in Actions, WriteFlag(a)
      PROVE  Truth'
  BY <1>9 DEF WriteFlag, Move
<1>10. ASSUME NEW a \in Actions, Recreate(a)
      PROVE  Truth'
  BY <1>10 DEF Recreate, Move
<1>11. ASSUME NEW a \in Actions, Check(a)
      PROVE  Truth'
  <2>1. UNCHANGED <<projectionVars, systemVars, worldVars>> /\ handlers[a] = "recreated"
    BY <1>11 DEF Check
  <2>2. CASE flag = "off" /\ CheckoutRecreated(a)
    <3>1. Answered(a, "success") /\ completed' = completed \cup {a} /\ UNCHANGED started
      BY <1>11, <2>2 DEF Check, Succeed
    <3>2. started[a] # 0
      BY <1>11, <2>1 DEF Check
    <3> QED BY <2>1, <2>2, <3>1, <3>2, AnswerReaches DEF CheckoutRecreated, Replies
  <2>3. CASE ~(flag = "off" /\ CheckoutRecreated(a))
    <3>1. Answered(a, "rejected") /\ UNCHANGED <<started, completed>>
      BY <1>11, <2>3 DEF Check, Refuse
    <3> QED BY <2>1, <2>3, <3>1, StillTrue DEF Replies
  <2> QED BY <2>2, <2>3
<1>12. ASSUME NEW a \in Actions, HandlerFails(a)
      PROVE  Truth'
  BY <1>12, StillTrue DEF HandlerFails, Refuse, Replies
<1>13. ASSUME NEW a \in Actions, NEW n \in Attempts, NextAttempt(a, n)
      PROVE  Truth'
  BY <1>13 DEF NextAttempt, SetCall
<1>14. ASSUME NEW a \in Actions, NEW n \in Attempts, WorkerDies(a, n)
      PROVE  Truth'
  BY <1>14 DEF WorkerDies, SetCall
<1>15. ASSUME NEW a \in Actions, NEW n \in Attempts, CallLost(a, n)
      PROVE  Truth'
  BY <1>15 DEF CallLost, SetCall, Replies
<1>16. ASSUME NEW a \in Actions, NEW n \in Attempts, Claim(a, n)
      PROVE  Truth'
  BY <1>16 DEF Claim, SetCall
<1>17. ASSUME NEW a \in Actions, NEW n \in Attempts, AlreadyRecorded(a, n)
      PROVE  Truth'
  BY <1>17 DEF AlreadyRecorded, SetCall
<1>18. ASSUME NEW a \in Actions, NEW n \in Attempts, Prepare(a, n)
      PROVE  Truth'
  BY <1>18 DEF Prepare, SetCall, Receipt, Receipts, HasOutcome, Replies
<1>19. ASSUME NEW a \in Actions, NEW n \in Attempts, Record(a, n)
      PROVE  Truth'
  BY <1>19 DEF Record, SetCall, Receipts, Recordable
<1>20. ASSUME NEW a \in Actions, NEW n \in Attempts, RecordedBefore(a, n)
      PROVE  Truth'
  BY <1>20 DEF RecordedBefore, SetCall
<1>21. ASSUME NEW a \in Actions, NEW n \in Attempts, Obsolete(a, n)
      PROVE  Truth'
  BY <1>21 DEF Obsolete, SetCall
<1>22. ASSUME NEW a \in Actions, NEW n \in Attempts, Unavailable(a, n)
      PROVE  Truth'
  BY <1>22 DEF Unavailable, SetCall
<1>23. ASSUME NEW a \in Actions, NEW n \in Attempts, Request(a, n)
      PROVE  Truth'
  BY <1>23 DEF Request, SetCall, Replies
<1>24. ASSUME NEW a \in Actions, NEW n \in Attempts, RacesLost(a, n)
      PROVE  Truth'
  BY <1>24 DEF RacesLost, SetCall
<1>25. ASSUME NEW a \in Actions, NEW n \in Attempts, AnswerBreaks(a, n)
      PROVE  Truth'
  BY <1>25 DEF AnswerBreaks, SetCall, Replies
<1>26. CASE NodeCrashes
  BY <1>26 DEF NodeCrashes, Replies
<1>27. CASE InjectFault
  BY <1>27 DEF InjectFault
<1>28. CASE CheckoutStops
  BY <1>28 DEF CheckoutStops
<1>29. CASE CheckoutRestarts
  BY <1>29 DEF CheckoutRestarts
<1> QED BY <1>1, <1>2, <1>3, <1>4, <1>5, <1>6, <1>7, <1>8, <1>9, <1>10, <1>11,
           <1>12, <1>13, <1>14, <1>15, <1>16, <1>17, <1>18, <1>19, <1>20, <1>21,
           <1>22, <1>23, <1>24, <1>25, <1>26, <1>27, <1>28, <1>29
        DEF Next, ActivityStep, HandlerStep

\* Only a request that read the flag on may write it, and the flag goes on
\* only with a new injection.
LEMMA StepKeepsWritten ==
    ASSUME TypeOK, Written, [Next]_vars
    PROVE  Written'
<1> USE DEF TypeOK, Written, HandlerStates,
            projectionVars, ledgerVars, systemVars, worldVars
<1>1. CASE UNCHANGED vars
  BY <1>1 DEF vars
<1>2. ASSUME NEW a \in Actions, Approve(a)
      PROVE  Written'
  BY <1>2 DEF Approve, SetCall
<1>3. ASSUME NEW a \in Actions, NewRun(a)
      PROVE  Written'
  BY <1>3 DEF NewRun
<1>4. ASSUME NEW a \in Actions, OrphanRecreates(a)
      PROVE  Written'
  BY <1>4 DEF OrphanRecreates
<1>5. ASSUME NEW a \in Actions, ReadFlag(a)
      PROVE  Written'
  BY <1>5 DEF ReadFlag, Move
<1>6. ASSUME NEW a \in Actions, Recover(a)
      PROVE  Written'
  BY <1>6 DEF Recover, Succeed, Refuse, Answered, Replies, CheckoutRecreated
<1>7. ASSUME NEW a \in Actions, PreconditionChanged(a)
      PROVE  Written'
  BY <1>7 DEF PreconditionChanged, Refuse, Answered, Replies
<1>8. ASSUME NEW a \in Actions, Start(a)
      PROVE  Written'
  BY <1>8 DEF Start, Move
<1>9. ASSUME NEW a \in Actions, WriteFlag(a)
      PROVE  Written'
  BY <1>9 DEF WriteFlag, Move
<1>10. ASSUME NEW a \in Actions, Recreate(a)
      PROVE  Written'
  BY <1>10 DEF Recreate, Move
<1>11. ASSUME NEW a \in Actions, Check(a)
      PROVE  Written'
  BY <1>11 DEF Check, Succeed, Refuse, Answered, Replies, CheckoutRecreated
<1>12. ASSUME NEW a \in Actions, HandlerFails(a)
      PROVE  Written'
  BY <1>12 DEF HandlerFails, Refuse, Answered, Replies
<1>13. ASSUME NEW a \in Actions, NEW n \in Attempts, NextAttempt(a, n)
      PROVE  Written'
  BY <1>13 DEF NextAttempt, SetCall
<1>14. ASSUME NEW a \in Actions, NEW n \in Attempts, WorkerDies(a, n)
      PROVE  Written'
  BY <1>14 DEF WorkerDies, SetCall
<1>15. ASSUME NEW a \in Actions, NEW n \in Attempts, CallLost(a, n)
      PROVE  Written'
  BY <1>15 DEF CallLost, SetCall, Replies
<1>16. ASSUME NEW a \in Actions, NEW n \in Attempts, Claim(a, n)
      PROVE  Written'
  BY <1>16 DEF Claim, SetCall
<1>17. ASSUME NEW a \in Actions, NEW n \in Attempts, AlreadyRecorded(a, n)
      PROVE  Written'
  BY <1>17 DEF AlreadyRecorded, SetCall
<1>18. ASSUME NEW a \in Actions, NEW n \in Attempts, Prepare(a, n)
      PROVE  Written'
  BY <1>18 DEF Prepare, SetCall, Receipt, Receipts, HasOutcome, Replies
<1>19. ASSUME NEW a \in Actions, NEW n \in Attempts, Record(a, n)
      PROVE  Written'
  BY <1>19 DEF Record, SetCall, Receipts, Recordable
<1>20. ASSUME NEW a \in Actions, NEW n \in Attempts, RecordedBefore(a, n)
      PROVE  Written'
  BY <1>20 DEF RecordedBefore, SetCall
<1>21. ASSUME NEW a \in Actions, NEW n \in Attempts, Obsolete(a, n)
      PROVE  Written'
  BY <1>21 DEF Obsolete, SetCall
<1>22. ASSUME NEW a \in Actions, NEW n \in Attempts, Unavailable(a, n)
      PROVE  Written'
  BY <1>22 DEF Unavailable, SetCall
<1>23. ASSUME NEW a \in Actions, NEW n \in Attempts, Request(a, n)
      PROVE  Written'
  BY <1>23 DEF Request, SetCall, Replies
<1>24. ASSUME NEW a \in Actions, NEW n \in Attempts, RacesLost(a, n)
      PROVE  Written'
  BY <1>24 DEF RacesLost, SetCall
<1>25. ASSUME NEW a \in Actions, NEW n \in Attempts, AnswerBreaks(a, n)
      PROVE  Written'
  BY <1>25 DEF AnswerBreaks, SetCall, Replies
<1>26. CASE NodeCrashes
  BY <1>26 DEF NodeCrashes, Replies
<1>27. CASE InjectFault
  BY <1>27 DEF InjectFault
<1>28. CASE CheckoutStops
  BY <1>28 DEF CheckoutStops
<1>29. CASE CheckoutRestarts
  BY <1>29 DEF CheckoutRestarts
<1> QED BY <1>1, <1>2, <1>3, <1>4, <1>5, <1>6, <1>7, <1>8, <1>9, <1>10, <1>11,
           <1>12, <1>13, <1>14, <1>15, <1>16, <1>17, <1>18, <1>19, <1>20, <1>21,
           <1>22, <1>23, <1>24, <1>25, <1>26, <1>27, <1>28, <1>29
        DEF Next, ActivityStep, HandlerStep

\* While flag and container are left alone every refusal precedes the start.
LEMMA StepKeepsClean ==
    ASSUME TypeOK, Truth, Undisturbed, [Next]_vars
    PROVE  Undisturbed'
<1> USE DEF TypeOK, Truth, Begun, Undisturbed, Clean, Refused, CallStates,
            HandlerStates,
            projectionVars, ledgerVars, systemVars, worldVars
<1>1. CASE UNCHANGED vars
  BY <1>1 DEF vars
<1>2. ASSUME NEW a \in Actions, Approve(a)
      PROVE  Undisturbed'
  BY <1>2 DEF Approve, SetCall
<1>3. ASSUME NEW a \in Actions, NewRun(a)
      PROVE  Undisturbed'
  BY <1>3 DEF NewRun
<1>4. ASSUME NEW a \in Actions, OrphanRecreates(a)
      PROVE  Undisturbed'
  BY <1>4 DEF OrphanRecreates
<1>5. ASSUME NEW a \in Actions, ReadFlag(a)
      PROVE  Undisturbed'
  BY <1>5 DEF ReadFlag, Move
<1>6. ASSUME NEW a \in Actions, Recover(a)
      PROVE  Undisturbed'
  <2>1. UNCHANGED <<projectionVars, systemVars, worldVars>> /\ handlers[a] = "sawOff"
    BY <1>6 DEF Recover
  <2>2. CASE CheckoutRecreated(a)
    <3>1. Answered(a, "success") /\ completed' = completed \cup {a} /\ UNCHANGED started
      BY <1>6, <2>2 DEF Recover, Succeed
    <3>2. started[a] # 0
      BY <1>6, <2>1 DEF Recover
    <3> QED BY <2>1, <2>2, <3>1, <3>2, AnswerReaches DEF CheckoutRecreated, Replies
  <2>3. CASE ~CheckoutRecreated(a)
    <3>1. Answered(a, "human") /\ UNCHANGED <<started, completed>>
      BY <1>6, <2>3 DEF Recover, Refuse
    <3> QED BY <2>1, <2>3, <3>1, AnswerReaches DEF CheckoutRecreated, Replies
  <2> QED BY <2>2, <2>3
<1>7. ASSUME NEW a \in Actions, PreconditionChanged(a)
      PROVE  Undisturbed'
  BY <1>7 DEF PreconditionChanged, Refuse, Answered, Replies
<1>8. ASSUME NEW a \in Actions, Start(a)
      PROVE  Undisturbed'
  BY <1>8 DEF Start, Move
<1>9. ASSUME NEW a \in Actions, WriteFlag(a)
      PROVE  Undisturbed'
  BY <1>9 DEF WriteFlag, Move
<1>10. ASSUME NEW a \in Actions, Recreate(a)
      PROVE  Undisturbed'
  BY <1>10 DEF Recreate, Move
<1>11. ASSUME NEW a \in Actions, Check(a)
      PROVE  Undisturbed'
  <2>1. UNCHANGED <<projectionVars, systemVars, worldVars>> /\ handlers[a] = "recreated"
    BY <1>11 DEF Check
  <2>2. CASE flag = "off" /\ CheckoutRecreated(a)
    <3>1. Answered(a, "success") /\ completed' = completed \cup {a} /\ UNCHANGED started
      BY <1>11, <2>2 DEF Check, Succeed
    <3>2. started[a] # 0
      BY <1>11, <2>1 DEF Check
    <3> QED BY <2>1, <2>2, <3>1, <3>2, AnswerReaches DEF CheckoutRecreated, Replies
  <2>3. CASE ~(flag = "off" /\ CheckoutRecreated(a))
    <3>1. Answered(a, "rejected") /\ UNCHANGED <<started, completed>>
      BY <1>11, <2>3 DEF Check, Refuse
    <3> QED BY <2>1, <2>3, <3>1, AnswerReaches DEF CheckoutRecreated, Replies
  <2> QED BY <2>2, <2>3
<1>12. ASSUME NEW a \in Actions, HandlerFails(a)
      PROVE  Undisturbed'
  BY <1>12 DEF HandlerFails, Refuse, Answered, Replies
<1>13. ASSUME NEW a \in Actions, NEW n \in Attempts, NextAttempt(a, n)
      PROVE  Undisturbed'
  <2>1. \A b \in Actions : Refused(b)' => Refused(b)
    BY <1>13 DEF NextAttempt, SetCall
  <2> QED BY <1>13, <2>1, StillClean DEF NextAttempt
<1>14. ASSUME NEW a \in Actions, NEW n \in Attempts, WorkerDies(a, n)
      PROVE  Undisturbed'
  <2>1. \A b \in Actions : Refused(b)' => Refused(b)
    BY <1>14 DEF WorkerDies, SetCall
  <2> QED BY <1>14, <2>1, StillClean DEF WorkerDies
<1>15. ASSUME NEW a \in Actions, NEW n \in Attempts, CallLost(a, n)
      PROVE  Undisturbed'
  <2>1. \A b \in Actions : Refused(b)' => Refused(b)
    BY <1>15 DEF CallLost, SetCall, Replies
  <2> QED BY <1>15, <2>1, StillClean DEF CallLost
<1>16. ASSUME NEW a \in Actions, NEW n \in Attempts, Claim(a, n)
      PROVE  Undisturbed'
  <2>1. \A b \in Actions : Refused(b)' => Refused(b)
    BY <1>16 DEF Claim, SetCall
  <2> QED BY <1>16, <2>1, StillClean DEF Claim
<1>17. ASSUME NEW a \in Actions, NEW n \in Attempts, AlreadyRecorded(a, n)
      PROVE  Undisturbed'
  <2>1. \A b \in Actions : Refused(b)' => Refused(b)
    BY <1>17 DEF AlreadyRecorded, SetCall
  <2> QED BY <1>17, <2>1, StillClean DEF AlreadyRecorded
<1>18. ASSUME NEW a \in Actions, NEW n \in Attempts, Prepare(a, n)
      PROVE  Undisturbed'
  <2>1. \A b \in Actions : Refused(b)' => Refused(b)
    BY <1>18 DEF Prepare, SetCall, Receipt, Receipts, HasOutcome, Replies
  <2> QED BY <1>18, <2>1, StillClean DEF Prepare
<1>19. ASSUME NEW a \in Actions, NEW n \in Attempts, Record(a, n)
      PROVE  Undisturbed'
  <2>1. \A b \in Actions : Refused(b)' => Refused(b)
    BY <1>19 DEF Record, SetCall, Receipts, Recordable
  <2> QED BY <1>19, <2>1, StillClean DEF Record
<1>20. ASSUME NEW a \in Actions, NEW n \in Attempts, RecordedBefore(a, n)
      PROVE  Undisturbed'
  <2>1. UNCHANGED <<projectionVars, handlers, ledgerVars, systemVars, worldVars>>
    BY <1>20 DEF RecordedBefore
  <2>2. \E state \in {"refused", "ended"} : calls' = [calls EXCEPT ![a][n] = state]
    BY <1>20 DEF RecordedBefore, SetCall
  <2>3. \A b \in Actions : Refused(b)' => Refused(b)
    BY <2>1, <2>2
  <2> QED BY <2>1, <2>3, StillClean
<1>21. ASSUME NEW a \in Actions, NEW n \in Attempts, Obsolete(a, n)
      PROVE  Undisturbed'
  <2>1. \A b \in Actions : Refused(b)' => Refused(b)
    BY <1>21 DEF Obsolete, SetCall
  <2> QED BY <1>21, <2>1, StillClean DEF Obsolete
<1>22. ASSUME NEW a \in Actions, NEW n \in Attempts, Unavailable(a, n)
      PROVE  Undisturbed'
  <2>1. \A b \in Actions : Refused(b)' => Refused(b)
    BY <1>22 DEF Unavailable, SetCall
  <2> QED BY <1>22, <2>1, StillClean DEF Unavailable
<1>23. ASSUME NEW a \in Actions, NEW n \in Attempts, Request(a, n)
      PROVE  Undisturbed'
  BY <1>23 DEF Request, SetCall, Replies
<1>24. ASSUME NEW a \in Actions, NEW n \in Attempts, RacesLost(a, n)
      PROVE  Undisturbed'
  <2>1. \A b \in Actions : Refused(b)' => Refused(b)
    BY <1>24 DEF RacesLost, SetCall
  <2> QED BY <1>24, <2>1, StillClean DEF RacesLost
<1>25. ASSUME NEW a \in Actions, NEW n \in Attempts, AnswerBreaks(a, n)
      PROVE  Undisturbed'
  BY <1>25 DEF AnswerBreaks, SetCall, Replies
<1>26. CASE NodeCrashes
  BY <1>26 DEF NodeCrashes, Replies
<1>27. CASE InjectFault
  BY <1>27 DEF InjectFault
<1>28. CASE CheckoutStops
  BY <1>28 DEF CheckoutStops
<1>29. CASE CheckoutRestarts
  BY <1>29 DEF CheckoutRestarts
<1> QED BY <1>1, <1>2, <1>3, <1>4, <1>5, <1>6, <1>7, <1>8, <1>9, <1>10, <1>11,
           <1>12, <1>13, <1>14, <1>15, <1>16, <1>17, <1>18, <1>19, <1>20, <1>21,
           <1>22, <1>23, <1>24, <1>25, <1>26, <1>27, <1>28, <1>29
        DEF Next, ActivityStep, HandlerStep

-----------------------------------------------------------------------------
(* The properties.                                                         *)

\* The invariant holds in every reachable state.
THEOREM ExecutionInvariant == Spec => []Inv
<1>1. Inv /\ [Next]_vars => Inv'
  BY StepKeepsTypes, StepKeepsTruth, StepKeepsWritten, StepKeepsClean DEF Inv
<1> QED BY <1>1, InitHasInv, PTL DEF Spec

\* Every reachable state is well typed (TypeOK): executor and worker only ever
\* produce the replies and receipts that the next one knows.
THEOREM ExecutionTyped == Spec => []TypeOK
<1>1. Inv => TypeOK
  BY DEF Inv
<1> QED BY <1>1, ExecutionInvariant, PTL

\* A SUCCEEDED receipt is never made up (SuccessIsReal), whatever crashed
\* and whichever attempt recorded it.
THEOREM SuccessProved == Spec => []SuccessIsReal
<1>1. Inv => SuccessIsReal
  BY DEF Inv, Truth, Claimed, ClaimsSuccess, Proved, SuccessIsReal
<1> QED BY <1>1, ExecutionInvariant, PTL

\* Without outside interference a FAILED execution never wrote the flag
\* (FailedIsUntouched).
THEOREM FailureIsClean == Spec => []FailedIsUntouched
<1>1. Inv => FailedIsUntouched
  BY DEF Inv, Undisturbed, Clean, Refused, FailedIsUntouched
<1> QED BY <1>1, ExecutionInvariant, PTL

\* A key writes the flag at most once per injection of the fault
\* (NeverRepeated), through retries, crashes and recoveries.
THEOREM WrittenOnce == Spec => NeverRepeated
<1>1. Inv => \A a \in Actions : handlers[a] = "executing" => wrote[a] # epoch
  BY DEF Inv, Written
<1>2. Inv /\ [Next]_vars
      => [\A a \in Actions :
             handlers[a] = "executing" /\ handlers'[a] = "flagged" => wrote[a] # epoch]_vars
  BY <1>1
<1> QED BY <1>2, ExecutionInvariant, PTL DEF Spec, NeverRepeated

\* The first receipt of an action stands (ReceiptFinal), however many attempts
\* answer after it.
THEOREM FirstReceiptStands == Spec => ReceiptFinal
<1>1. ASSUME TypeOK, Next, NEW b \in Actions, execution[b] \in Receipts
      PROVE  execution'[b] = execution[b]
  <2>1. ASSUME NEW a \in Actions, NEW n \in Attempts, Claim(a, n)
        PROVE  execution'[b] = execution[b]
    BY <1>1, <2>1 DEF Claim, TypeOK, Receipts
  <2>2. ASSUME NEW a \in Actions, NEW n \in Attempts, Record(a, n)
        PROVE  execution'[b] = execution[b]
    BY <1>1, <2>2 DEF Record, Recordable, TypeOK, Receipts
  <2>3. CASE UNCHANGED execution
    BY <2>3
  <2>4. \/ UNCHANGED execution
        \/ \E a \in Actions, n \in Attempts : Claim(a, n) \/ Record(a, n)
    BY <1>1 DEF Next, ActivityStep, HandlerStep, projectionVars, Approve, NewRun, OrphanRecreates,
                ReadFlag, Recover, PreconditionChanged, Start, WriteFlag, Recreate, Check,
                HandlerFails, NextAttempt, WorkerDies, CallLost, RacesLost, AnswerBreaks,
                AlreadyRecorded, Prepare, RecordedBefore,
                Obsolete, Unavailable, Request, NodeCrashes, InjectFault, CheckoutStops,
                CheckoutRestarts
  <2> QED BY <2>1, <2>2, <2>3, <2>4
<1>2. Inv /\ [Next]_vars
      => [\A a \in Actions : execution[a] \in Receipts => execution'[a] = execution[a]]_vars
  BY <1>1 DEF Inv
<1> QED BY <1>2, ExecutionInvariant, PTL DEF Spec, ReceiptFinal
=============================================================================
