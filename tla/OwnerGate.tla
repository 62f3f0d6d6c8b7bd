------------------------------ MODULE OwnerGate ------------------------------
(* The owner's gate of a local development incident in the Node server:       *)
(* start of the case, investigation, the authority that turns an accepted     *)
(* diagnosis into a decision and a request for approval, the owner's          *)
(* approval, the rollback it allows, its verification, and what the page      *)
(* shows of the run (src/src/server.mjs, development-runtime.mjs,             *)
(* incident-projection.mjs, projection-canonical-validator.mjs).              *)
(*                                                                            *)
(* The ledger survives the server; the frozen snapshots and the receipts that *)
(* bind a decision to them live in its memory.  A request handler runs        *)
(* without interruption from one await to the next, but every append inside   *)
(* it is its own transaction, so a crash, a refused append or another         *)
(* process's lock falls between any two of them.                              *)
EXTENDS Integers, Sequences, FiniteSets

CONSTANTS MaxRuns,    \* runs started
          MaxAge,     \* age at which a snapshot no longer supports a decision
          MaxNow,     \* last instant of the clock
          MaxLocks,   \* locks other processes append
          MaxFaults,  \* crashes of the server and refused appends
          MaxChecks   \* recorded verifications of a run

ASSUME BoundsAssumption ==
    /\ {MaxRuns, MaxAge, MaxNow} \subseteq Nat \ {0}
    /\ {MaxLocks, MaxFaults, MaxChecks} \subseteq Nat

VARIABLES
    ledger,     \* the authority events and locks, in the order of their sequence
    modes,      \* the mode of every run started, in order: runs are numbered
    outcome,    \* the last outcome classified of a run
    now,        \* the clock
    flag,       \* the variant of the fault flag in the shop: "on" is the fault
    key,        \* the process has a model key: the model investigates
    starting,   \* cases past their preflight, and cases applied with no run yet
    snapshot,   \* the instant a run's snapshot was frozen, 0 for none in memory
    bound,      \* runs whose decision receipt this process has issued
    inv,        \* the investigation in flight of a run (developmentInvestigations)
    cpu,        \* the synchronous stretch in progress
    rolling,    \* the rollback in flight of a run
    verifying,  \* verifications in flight
    calls,      \* how often the rollback of a run was called (history)
    faults      \* crashes and refused appends so far

memory == <<snapshot, bound, inv, cpu, rolling, verifying>>
vars == <<ledger, modes, outcome, now, flag, key, starting, memory, calls, faults>>

Run == 1 .. MaxRuns
Idle == [at |-> "idle"]

(* A lock names this incident's contract, is of this incident and unreadable, *)
(* or is of another contract of this incident.  Locks that touch neither have *)
(* no effect and are left out.                                                *)
LockKinds == {"exact", "malformed", "other"}

-----------------------------------------------------------------------------
(* Reading the ledger.                                                        *)

Events(r, type) == {i \in DOMAIN ledger : ledger[i].type = type /\ ledger[i].run = r}
Has(r, type) == Events(r, type) # {}
Lone(r, type) == Cardinality(Events(r, type)) = 1
Locks == {i \in DOMAIN ledger : ledger[i].type = "lock"}
LatestRun == Len(modes)
IsCase(r) == r \in DOMAIN modes /\ modes[r] = "development"

(* appendIfAbsent: an event whose identifier is taken is not written again.   *)
AppendIfAbsent(e) ==
    ledger' = IF \E i \in DOMAIN ledger : [ledger[i] EXCEPT !.at = e.at] = e
              THEN ledger ELSE Append(ledger, e)

(* Of the instants of recording, two are ever compared with the snapshot's.   *)
Event(type, r, snap, what) ==
    [type |-> type, run |-> r, snap |-> snap, what |-> what,
     at |-> IF type \in {"accepted", "approval"} THEN now ELSE 0]

-----------------------------------------------------------------------------
(* The authority: what a decision must rest on.                               *)

\* Seeded fault: a snapshot supports a decision for ever.
SupportedForEver(r) ==
    /\ snapshot[r] # 0
    /\ Lone(r, "accepted") /\ Lone(r, "gate")
    /\ \A a \in Events(r, "accepted"), g \in Events(r, "gate") :
          a < g /\ snapshot[r] <= ledger[a].at /\ ledger[g].snap = snapshot[r]

(* The snapshot in memory is the one the only gate froze, was frozen before   *)
(* the only accepted evaluation and is still fresh.  Two snapshots of a run   *)
(* never agree in content and instant, so the instant names the snapshot.     *)
Supported(r) ==
    /\ snapshot[r] # 0
    /\ Lone(r, "accepted") /\ Lone(r, "gate")
    /\ \A a \in Events(r, "accepted"), g \in Events(r, "gate") :
          /\ a < g
          /\ snapshot[r] <= ledger[a].at
          /\ ledger[g].snap = snapshot[r]
    /\ now - snapshot[r] < MaxAge

(* readAuthorityLocks stops at the first lock that is not another contract's: *)
(* one that names this contract blocks, an unreadable one ends the request.   *)
FirstTouching(kind) ==
    \E i \in Locks : /\ ledger[i].what = kind
                    /\ \A j \in Locks : j < i => ledger[j].what = "other"

LocksClear == \A i \in Locks : ledger[i].what = "other"

(* A decision is named by what it decides on: run, snapshot, gate and the     *)
(* first lock that names the contract.                                        *)
Decision(r) == Event("decision", r, snapshot[r],
                     IF FirstTouching("exact") THEN "non_actionable" ELSE "human_review_required")

-----------------------------------------------------------------------------
(* What the page shows of a run: the chain is verified again on every read.   *)

AuthorityTypes == {"decision", "proposal", "request", "approval", "attempt",
                   "executed", "verified"}

Follows(r, later, earlier) ==
    \A i \in Events(r, later) : \E j \in Events(r, earlier) : j < i

(* The investigation the page can show: one accepted evaluation and one gate, *)
(* in this order and of the strict shapes.                                    *)
Presentable(r) ==
    /\ \A type \in {"accepted", "gate"} : Cardinality(Events(r, type)) <= 1
    /\ \A a \in Events(r, "accepted") : ledger[a].what = "evaluator"
    /\ Follows(r, "gate", "accepted")

(* The links, the order and the shapes of a chain: every event follows the one*)
(* it rests on, and a recorded verification never has the shape asked of it.  *)
StrictChain(r) ==
    /\ Presentable(r)
    /\ Follows(r, "decision", "gate")
    /\ Follows(r, "proposal", "decision") /\ Follows(r, "request", "proposal")
    /\ Follows(r, "approval", "request") /\ Follows(r, "attempt", "approval")
    /\ Follows(r, "executed", "attempt")
    /\ ~Has(r, "verified")

\* Seeded fault: the page does not look at the locks, nor at what has begun.
CanonicalUnlocked(r) ==
    /\ Lone(r, "decision") /\ IsCase(r) /\ Supported(r) /\ r \in bound
    /\ \E d \in Events(r, "decision") : ledger[d].what = "human_review_required"
    /\ Lone(r, "proposal") /\ Lone(r, "request") /\ ~Has(r, "verified")

Canonical(r) ==
    /\ Lone(r, "decision") /\ IsCase(r)
    /\ Supported(r)
    /\ r \in bound
    /\ LocksClear
    /\ \E d \in Events(r, "decision") :
          /\ ledger[d].what = "human_review_required"
          /\ ledger[d].snap = snapshot[r]
    /\ Lone(r, "proposal") /\ Lone(r, "request")
    /\ \A type \in {"approval", "attempt", "executed"} : Cardinality(Events(r, type)) <= 1
    /\ StrictChain(r)

Shown(r) ==
    IF \/ ~Presentable(r)
       \/ ~Canonical(r) /\ \E type \in AuthorityTypes : Has(r, type)
    THEN "non_actionable"
    ELSE IF outcome[r] = "blocked" THEN "blocked"
    ELSE IF ~Canonical(r) THEN "investigating"
    ELSE IF Has(r, "attempt") \/ Has(r, "executed") THEN "executing"
    ELSE IF Has(r, "approval") THEN "approved"
    ELSE "waiting_for_owner"

-----------------------------------------------------------------------------
Init ==
    /\ ledger = <<>>
    /\ modes = <<>>
    /\ outcome = [r \in Run |-> "none"]
    /\ now = 0
    /\ flag = "off"
    /\ key \in BOOLEAN
    /\ starting = [checked |-> 0, applied |-> 0]
    /\ snapshot = [r \in Run |-> 0]
    /\ bound = {}
    /\ inv = [r \in Run |-> "none"]
    /\ cpu = Idle
    /\ rolling = [r \in Run |-> "none"]
    /\ verifying = {}
    /\ calls = [r \in Run |-> 0]
    /\ faults = 0

(* POST /api/development/case: the preflight wants the flag off.              *)
Preflight ==
    /\ cpu = Idle /\ flag = "off"
    /\ LatestRun + starting.checked + starting.applied < MaxRuns
    /\ starting' = [starting EXCEPT !.checked = @ + 1]
    /\ UNCHANGED <<ledger, modes, outcome, now, flag, key, memory, calls, faults>>

(* applyDevelopmentCase turns the flag on; it does not look at it again.      *)
ApplyCase ==
    /\ cpu = Idle /\ starting.checked > 0
    /\ starting' = [checked |-> starting.checked - 1, applied |-> starting.applied + 1]
    /\ flag' = "on"
    /\ UNCHANGED <<ledger, modes, outcome, now, key, memory, calls, faults>>

(* The case is applied: its run starts and becomes the latest.                *)
StartRun ==
    /\ cpu = Idle /\ starting.applied > 0
    /\ starting' = [starting EXCEPT !.applied = @ - 1]
    /\ modes' = Append(modes, "development")
    /\ UNCHANGED <<ledger, outcome, now, flag, key, memory, calls, faults>>

(* POST /api/reset starts a replay run, which becomes the latest.             *)
Reset ==
    /\ cpu = Idle
    /\ LatestRun + starting.checked + starting.applied < MaxRuns
    /\ modes' = Append(modes, "replay")
    /\ UNCHANGED <<ledger, outcome, now, flag, key, starting, memory, calls, faults>>

-----------------------------------------------------------------------------
(* Investigation: one in flight per run; a second request joins it.           *)

(* An approval remembers the length of the ledger when it was given while the *)
(* page offered it, 0 when the page did not (history).                        *)
Stretch(r, at, from) == [at |-> at, run |-> r, from |-> from, seen |-> 0, offer |-> 0]

\* Seeded fault: the gate of an earlier investigation is not looked for.
InvestigateAgain(r) ==
    /\ cpu = Idle
    /\ r = LatestRun /\ IsCase(r)
    /\ inv[r] = "none"
    /\ inv' = [inv EXCEPT ![r] = IF snapshot[r] = 0 THEN "freezing" ELSE "reading"]
    /\ UNCHANGED <<ledger, modes, outcome, now, flag, key, starting, snapshot, bound,
                   cpu, rolling, verifying, calls, faults>>

Investigate(r) ==
    /\ cpu = Idle
    /\ r = LatestRun /\ IsCase(r)
    /\ inv[r] = "none"
    /\ IF snapshot[r] = 0
       THEN /\ inv' = [inv EXCEPT ![r] = IF Has(r, "gate") THEN "freezing_again" ELSE "freezing"]
            /\ UNCHANGED cpu
       ELSE IF Has(r, "gate")
       THEN /\ inv' = [inv EXCEPT ![r] = "deciding"]
            /\ cpu' = Stretch(r, "check", "investigate")
       ELSE /\ inv' = [inv EXCEPT ![r] = "reading"]
            /\ UNCHANGED cpu
    /\ UNCHANGED <<ledger, modes, outcome, now, flag, key, starting, snapshot,
                   bound, rolling, verifying, calls, faults>>

(* freezeLiveEvidence takes time: the snapshot is of a later instant than     *)
(* anything recorded before it.                                               *)
Freeze(r) ==
    /\ cpu = Idle
    /\ inv[r] \in {"freezing", "freezing_again"}
    /\ now < MaxNow
    /\ now' = now + 1
    /\ snapshot' = [snapshot EXCEPT ![r] = now + 1]
    /\ IF inv[r] = "freezing"
       THEN inv' = [inv EXCEPT ![r] = "reading"] /\ UNCHANGED cpu
       ELSE /\ inv' = [inv EXCEPT ![r] = "deciding"]
            /\ cpu' = Stretch(r, "check", "investigate")
    /\ UNCHANGED <<ledger, modes, outcome, flag, key, starting, bound, rolling,
                   verifying, calls, faults>>

(* The evidence, or the model, supports the diagnosis: its events follow.     *)
Confirm(r) ==
    /\ cpu = Idle
    /\ inv[r] = "reading"
    /\ inv' = [inv EXCEPT ![r] = "deciding"]
    /\ cpu' = Stretch(r, "accept", "investigate")
    /\ UNCHANGED <<ledger, modes, outcome, now, flag, key, starting, snapshot,
                   bound, rolling, verifying, calls, faults>>

(* The snapshot cannot be frozen, or the evidence or the model is refused.    *)
NotConfirmed(r) ==
    /\ cpu = Idle
    /\ inv[r] \in {"freezing", "freezing_again", "reading"}
    /\ inv' = [inv EXCEPT ![r] = "none"]
    /\ outcome' = [outcome EXCEPT ![r] = "blocked"]
    /\ UNCHANGED <<ledger, modes, now, flag, key, starting, snapshot, bound, cpu,
                   rolling, verifying, calls, faults>>

-----------------------------------------------------------------------------
(* The stretches.  Each step is one transaction on the ledger.                *)

GoOn(at) == cpu' = [cpu EXCEPT !.at = at] /\ UNCHANGED <<outcome, inv>>

(* The stretch ends; a failed investigation is recorded as blocked.           *)
End(ok) ==
    /\ cpu' = Idle
    /\ IF cpu.from = "investigate"
       THEN /\ inv' = [inv EXCEPT ![cpu.run] = "none"]
            /\ outcome' = IF ok THEN outcome ELSE [outcome EXCEPT ![cpu.run] = "blocked"]
       ELSE UNCHANGED <<inv, outcome>>

StretchKeeps == UNCHANGED <<modes, now, flag, key, starting, snapshot, verifying>>

\* Seeded fault: only the locks read before the claim count.
ClaimableAsRead(r, seen) == ~Has(r, "approval")

(* One approval per run, and none past a lock newer than those read: it may   *)
(* touch this contract in a way only a full reading could tell.               *)
Claimable(r, seen) == ~Has(r, "approval") /\ \A i \in Locks : i <= seen

(* What the stage in progress writes, in one transaction.                     *)
StageWrites ==
    LET r == cpu.run
        snap == snapshot[r]
    IN  \/ /\ cpu.at = "accept"
           /\ ledger' = Append(ledger, Event("accepted", r, 0,
                                             IF key THEN "live-evaluator" ELSE "evaluator"))
        \/ cpu.at = "gate" /\ ledger' = Append(ledger, Event("gate", r, snap, "passed"))
        \/ /\ cpu.at \in {"human_review_required", "non_actionable"}
           /\ AppendIfAbsent(Event("decision", r, snap, cpu.at))
        \/ cpu.at = "propose" /\ AppendIfAbsent(Event("proposal", r, snap, "owner_gate"))
        \/ cpu.at = "request" /\ AppendIfAbsent(Event("request", r, snap, "owner_gate"))
        \/ /\ cpu.at = "claim" /\ Claimable(r, cpu.seen)
           /\ ledger' = Append(ledger, Event("approval", r, snap, "owner"))
        \/ /\ cpu.at = "attempt" /\ ~Has(r, "attempt")
           /\ ledger' = Append(ledger, Event("attempt", r, snap, "rollback"))

Accept ==
    /\ cpu.at = "accept"
    /\ StageWrites
    /\ GoOn("gate")
    /\ StretchKeeps /\ UNCHANGED <<bound, rolling, calls, faults>>

PassGate ==
    /\ cpu.at = "gate"
    /\ StageWrites
    /\ GoOn(IF key THEN "classify" ELSE "check")
    /\ StretchKeeps /\ UNCHANGED <<bound, rolling, calls, faults>>

(* The model's investigator classifies its own gate as insufficient evidence. *)
Classify ==
    /\ cpu.at = "classify"
    /\ outcome' = [outcome EXCEPT ![cpu.run] = "blocked"]
    /\ cpu' = [cpu EXCEPT !.at = "check"]
    /\ StretchKeeps /\ UNCHANGED <<ledger, inv, bound, rolling, calls, faults>>

(* advanceAutonomyAfterDiagnosis: the prerequisites, the receipt, the locks.  *)
Check ==
    /\ cpu.at = "check"
    /\ bound' = IF Supported(cpu.run) THEN bound \cup {cpu.run} ELSE bound
    /\ IF Supported(cpu.run) /\ ~FirstTouching("malformed")
       THEN cpu' = [cpu EXCEPT !.at = Decision(cpu.run).what] /\ UNCHANGED <<outcome, inv>>
       ELSE End(FALSE)
    /\ StretchKeeps /\ UNCHANGED <<ledger, rolling, calls, faults>>

(* The decision as the locks were read: a lock that came since is not in it.  *)
Decide ==
    /\ cpu.at \in {"human_review_required", "non_actionable"}
    /\ StageWrites
    /\ IF cpu.at = "human_review_required" THEN GoOn("propose")
       ELSE End(cpu.from = "investigate")
    /\ StretchKeeps /\ UNCHANGED <<bound, rolling, calls, faults>>

Propose ==
    /\ cpu.at = "propose"
    /\ StageWrites
    /\ GoOn("request")
    /\ StretchKeeps /\ UNCHANGED <<bound, rolling, calls, faults>>

RequestApproval ==
    /\ cpu.at = "request"
    /\ StageWrites
    /\ IF cpu.from = "approve" THEN GoOn("locks") ELSE End(TRUE)
    /\ StretchKeeps /\ UNCHANGED <<bound, rolling, calls, faults>>

(* POST /api/development/approve: the latest run, whatever its mode or state. *)
Approve ==
    /\ cpu = Idle
    /\ LatestRun # 0
    /\ cpu' = [Stretch(LatestRun, "check", "approve") EXCEPT
                  !.offer = IF Shown(LatestRun) = "waiting_for_owner" THEN Len(ledger) ELSE 0]
    /\ UNCHANGED <<ledger, modes, outcome, now, flag, key, starting, snapshot,
                   bound, inv, rolling, verifying, calls, faults>>

(* claimCanonicalDevelopmentApproval reads the locks again.                   *)
ReadLocks ==
    /\ cpu.at = "locks"
    /\ IF LocksClear
       THEN /\ \E last \in Locks \cup {0} :
                 /\ \A i \in Locks : i <= last
                 /\ cpu' = [cpu EXCEPT !.at = "claim", !.seen = last]
            /\ UNCHANGED <<outcome, inv>>
       ELSE End(FALSE)
    /\ StretchKeeps /\ UNCHANGED <<ledger, bound, rolling, calls, faults>>

(* atomicApprovalClaim: one transaction.                                      *)
Claim ==
    /\ cpu.at = "claim"
    /\ IF Claimable(cpu.run, cpu.seen) THEN StageWrites /\ GoOn("attempt")
       ELSE End(FALSE) /\ UNCHANGED ledger
    /\ StretchKeeps /\ UNCHANGED <<bound, rolling, calls, faults>>

(* The attempt is the claim of the rollback: who has written it and read it   *)
(* back calls the rollback, with nothing in between to wait for.              *)
Attempt ==
    /\ cpu.at = "attempt"
    /\ IF Has(cpu.run, "attempt")
       THEN End(FALSE) /\ UNCHANGED <<ledger, rolling, calls>>
       ELSE /\ StageWrites
            /\ rolling' = [rolling EXCEPT ![cpu.run] = "called"]
            /\ calls' = [calls EXCEPT ![cpu.run] = @ + 1]
            /\ End(TRUE)
    /\ StretchKeeps /\ UNCHANGED <<bound, faults>>

-----------------------------------------------------------------------------
(* executeApprovedRollback: the flag is written, Checkout is recreated and    *)
(* exercised.  Nothing is recorded of a rollback that fails on the way.       *)

Restore(r) ==
    /\ rolling[r] = "called"
    /\ rolling' = [rolling EXCEPT ![r] = "restored"]
    /\ flag' = "off"
    /\ UNCHANGED <<ledger, modes, outcome, now, key, starting, snapshot, bound, inv,
                   cpu, verifying, calls, faults>>

Executed(r) ==
    /\ cpu = Idle
    /\ rolling[r] = "restored"
    /\ rolling' = [rolling EXCEPT ![r] = "none"]
    /\ \E i \in Events(r, "attempt") :
          AppendIfAbsent(Event("executed", r, ledger[i].snap, "rollback"))
    /\ UNCHANGED <<modes, outcome, now, flag, key, starting, snapshot, bound, inv, cpu,
                   verifying, calls, faults>>

RollbackFails(r) ==
    /\ cpu = Idle
    /\ rolling[r] # "none"
    /\ rolling' = [rolling EXCEPT ![r] = "none"]
    /\ UNCHANGED <<ledger, modes, outcome, now, flag, key, starting, snapshot, bound,
                   inv, cpu, verifying, calls, faults>>

(* POST /api/development/verify reads the flag and the telemetry, then        *)
(* records what it saw and classifies the outcome (a passed one only once its *)
(* capture is final, and the second of the two appends may fail); nothing     *)
(* keeps a second request from doing the same.                                *)
Verify(r) ==
    /\ cpu = Idle
    /\ r = LatestRun /\ IsCase(r) /\ Has(r, "executed")
    /\ Cardinality(Events(r, "verified")) < MaxChecks
    /\ \E saw \in IF flag = "off" THEN {"passed", "failed"} ELSE {"failed"} :
          verifying' = verifying \cup {[run |-> r, saw |-> saw]}
    /\ UNCHANGED <<ledger, modes, outcome, now, flag, key, starting, snapshot, bound,
                   inv, cpu, rolling, calls, faults>>

Verified(v) ==
    /\ cpu = Idle
    /\ v \in verifying
    /\ verifying' = verifying \ {v}
    /\ Cardinality(Events(v.run, "verified")) < MaxChecks
    /\ ledger' = Append(ledger, Event("verified", v.run, 0, v.saw))
    /\ \E class \in {outcome[v.run], "other"} \cup (IF v.saw = "failed" THEN {"blocked"} ELSE {}) :
          outcome' = [outcome EXCEPT ![v.run] = class]
    /\ UNCHANGED <<modes, now, flag, key, starting, snapshot, bound, inv, cpu, rolling,
                   calls, faults>>

-----------------------------------------------------------------------------
(* The rest of the world.                                                     *)

(* A stretch takes no time next to the age of a snapshot.                     *)
Tick == cpu = Idle /\ now < MaxNow /\ now' = now + 1
        /\ UNCHANGED <<ledger, modes, outcome, flag, key, starting, memory, calls, faults>>

(* Another process appends a lock, at any moment.                             *)
LockArrives(kind) ==
    /\ Cardinality(Locks) < MaxLocks
    /\ ledger' = Append(ledger, Event("lock", 0, 0, kind))
    /\ UNCHANGED <<modes, outcome, now, flag, key, starting, memory, calls, faults>>

(* The handler throws: what its stage writes is refused, or is written and    *)
(* cannot be read back, which is a second connection's business.  The record  *)
(* of a failed investigation is itself an append.                             *)
Refused ==
    /\ cpu # Idle /\ faults < MaxFaults
    /\ faults' = faults + 1
    /\ UNCHANGED ledger \/ StageWrites
    /\ End(TRUE) \/ End(FALSE)
    /\ StretchKeeps /\ UNCHANGED <<bound, rolling, calls>>

(* The server dies and starts again: the ledger and the shop are what is left.*)
Crash ==
    /\ faults < MaxFaults
    /\ faults' = faults + 1
    /\ key' \in BOOLEAN
    /\ starting' = [checked |-> 0, applied |-> 0]
    /\ snapshot' = [r \in Run |-> 0]
    /\ bound' = {}
    /\ inv' = [r \in Run |-> "none"]
    /\ cpu' = Idle
    /\ rolling' = [r \in Run |-> "none"]
    /\ verifying' = {}
    /\ UNCHANGED <<ledger, modes, outcome, now, flag, calls>>

Next ==
    \/ Preflight \/ ApplyCase \/ StartRun \/ Reset
    \/ \E r \in Run : \/ Investigate(r) \/ Freeze(r) \/ Confirm(r) \/ NotConfirmed(r)
                      \/ Restore(r) \/ Executed(r) \/ RollbackFails(r) \/ Verify(r)
    \/ Accept \/ PassGate \/ Classify \/ Check \/ Decide \/ Propose \/ RequestApproval
    \/ Approve \/ ReadLocks \/ Claim \/ Attempt
    \/ \E v \in verifying : Verified(v)
    \/ Tick
    \/ \E kind \in LockKinds : LockArrives(kind)
    \/ Refused \/ Crash

Spec == Init /\ [][Next]_vars

-----------------------------------------------------------------------------
(* Properties.                                                                *)

(* The rollback of a run is called at most once, and only on a full chain: a  *)
(* single accepted evaluation and gate, a decision on that gate's snapshot,   *)
(* its proposal and request, the owner's approval while the snapshot was      *)
(* fresh, and the attempt, in that order (server.mjs, validateAuthority-      *)
(* Prerequisites to executeCanonicalDevelopmentApproval).                     *)
RepairRests ==
    \A r \in Run : calls[r] # 0 =>
        /\ calls[r] = 1
        /\ \A type \in {"accepted", "gate", "approval", "attempt"} : Lone(r, type)
        /\ \E a \in Events(r, "accepted"), g \in Events(r, "gate"), d \in Events(r, "decision"),
              p \in Events(r, "proposal"), q \in Events(r, "request"),
              k \in Events(r, "approval"), t \in Events(r, "attempt") :
              /\ a < g /\ g < d /\ d < p /\ p < q /\ q < k /\ k < t
              /\ ledger[d].what = "human_review_required"
              /\ \A i \in {d, p, q, k, t} : ledger[i].snap = ledger[g].snap
              /\ ledger[k].at - ledger[g].snap < MaxAge

(* No approval follows a lock that names this incident's contract, or one     *)
(* that cannot be read, however late the lock came (atomicApprovalClaim).     *)
LockStops ==
    \A i \in Locks, k \in DOMAIN ledger :
        /\ ledger[k].type = "approval"
        /\ ledger[i].what \in {"exact", "malformed"}
        => k < i

(* A run's gate is passed once, whatever requests and restarts investigate it *)
(* again, and its evaluation is accepted once unless an investigation was cut *)
(* short (singleFlightDevelopmentInvestigation).                              *)
GatedOnce ==
    \A r \in Run : /\ Cardinality(Events(r, "gate")) <= 1
                   /\ Cardinality(Events(r, "accepted")) > 1 => faults > 0

(* An approval given while the page shows the latest run as waiting for its   *)
(* owner ends with the rollback called, whatever happens on the way through   *)
(* the checks, the claim and the attempt; unless the ledger or the server     *)
(* failed under it, a lock came that touches its contract, or any lock came   *)
(* between the reading of the locks and the claim (projectionAuthorityChain   *)
(* and stateFor against approveDevelopmentAfterAuthority).                    *)
OffersAreTaken ==
    [][ cpu.at # "idle" /\ cpu.from = "approve" /\ cpu.offer # 0 /\ cpu' = Idle =>
          \/ calls' = [calls EXCEPT ![cpu.run] = @ + 1]
          \/ faults' # faults
          \/ \E i \in Locks : i > cpu.offer /\ ledger[i].what # "other"
          \/ cpu.at = "claim" /\ \E i \in Locks : i > cpu.seen ]_vars
=============================================================================
