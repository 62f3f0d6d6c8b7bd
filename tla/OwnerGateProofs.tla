--------------------------- MODULE OwnerGateProofs ---------------------------
(* The safety properties of OwnerGate, for any number of runs, instants,      *)
(* locks, faults and verifications.                                           *)
(*                                                                            *)
(* The chain of authority is built one event at a time, and between two       *)
(* events anything may happen to the rest of the system.  The invariant says  *)
(* what the ledger already owes to every event in it (ChainInv), what keeps   *)
(* the gate from being passed twice (GateInv), what a stretch in progress may *)
(* rely on (StretchInv, LockInv), and what an approval that the page offered  *)
(* keeps of the offer until the rollback is called (OfferInv).                *)
EXTENDS OwnerGate, FiniteSetTheorems, TLAPS

Types == {"lock", "accepted", "gate"} \cup AuthorityTypes

Whats == {"exact", "malformed", "other", "evaluator", "live-evaluator", "passed", "failed",
          "human_review_required", "non_actionable", "owner_gate", "owner", "rollback"}

Entry == [type : Types, run : Nat, snap : Nat, what : Whats, at : Nat]

(* Where a stretch can be once the snapshot was found to support a decision.  *)
PastCheck == {"human_review_required", "non_actionable", "propose", "request",
              "locks", "claim", "attempt"}

Stages == {"accept", "gate", "classify", "check"} \cup PastCheck

Stretches ==
    [at : Stages, run : Run, from : {"investigate", "approve"}, seen : Nat, offer : Nat]

TypeInv ==
    /\ ledger \in Seq(Entry)
    /\ modes \in Seq({"development", "replay"})
    /\ now \in Nat
    /\ starting \in [checked : Nat, applied : Nat]
    /\ LatestRun + starting.checked + starting.applied <= MaxRuns
    /\ snapshot \in [Run -> Nat]
    /\ inv \in [Run -> {"none", "freezing", "freezing_again", "reading", "deciding"}]
    /\ cpu \in {Idle} \cup Stretches
    /\ rolling \in [Run -> {"none", "called", "restored"}]
    /\ verifying \subseteq [run : Run, saw : {"passed", "failed"}]
    /\ calls \in [Run -> Nat]
    /\ faults \in Nat

AtMostOne(S) == \A i, j \in S : i = j

(* What the later event of a chain owes to the earlier one.                   *)
RestsOn(r, later, earlier) ==
    \A i \in Events(r, later) : \E j \in Events(r, earlier) :
        j < i /\ ledger[j].snap = ledger[i].snap

ChainOf(r) ==
    /\ AtMostOne(Events(r, "approval")) /\ AtMostOne(Events(r, "attempt"))
    /\ RestsOn(r, "decision", "gate")
    /\ \A p \in Events(r, "proposal") : \E d \in Events(r, "decision") :
          d < p /\ ledger[d].snap = ledger[p].snap /\ ledger[d].what = "human_review_required"
    /\ RestsOn(r, "request", "proposal")
    /\ RestsOn(r, "approval", "request") /\ RestsOn(r, "attempt", "approval")
    /\ \A k \in Events(r, "approval") : ledger[k].at - ledger[k].snap < MaxAge
    /\ Has(r, "approval") =>
          \E a, g \in DOMAIN ledger :
              Events(r, "accepted") = {a} /\ Events(r, "gate") = {g} /\ a < g
    /\ calls[r] # 0 => calls[r] = 1 /\ Has(r, "attempt")

ChainInv ==
    /\ \A r \in Run : ChainOf(r)
    /\ \A i \in DOMAIN ledger : ledger[i].type \notin {"accepted", "approval"} => ledger[i].at = 0

GateOf(r) ==
    /\ AtMostOne(Events(r, "gate"))
    /\ inv[r] \in {"freezing", "reading"} => ~Has(r, "gate")
    /\ faults = 0 => /\ AtMostOne(Events(r, "accepted"))
                     /\ Has(r, "accepted") /\ ~Has(r, "gate") => cpu.at = "gate" /\ cpu.run = r

GateInv == \A r \in Run : GateOf(r)

(* An event of this decision is there, as the stretch needs it.               *)
There(type) == \E i \in Events(cpu.run, type) : ledger[i].snap = snapshot[cpu.run]

StretchInv ==
    cpu # Idle =>
        /\ cpu.from = "investigate" => inv[cpu.run] = "deciding"
        /\ cpu.at \in {"accept", "gate", "classify"} => cpu.from = "investigate"
        /\ cpu.at \in {"accept", "gate"} => ~Has(cpu.run, "gate")
        /\ cpu.at \in PastCheck => Supported(cpu.run)
        /\ cpu.at = "propose" =>
              \E d \in Events(cpu.run, "decision") :
                  /\ ledger[d].snap = snapshot[cpu.run]
                  /\ ledger[d].what = "human_review_required"
        /\ cpu.at = "request" => There("proposal")
        /\ cpu.at \in {"locks", "claim"} => There("request")
        /\ cpu.at = "attempt" => There("approval")

(* No lock among those read stops the claim.                                  *)
LockInv ==
    /\ cpu.at = "claim" =>
          /\ cpu.seen <= Len(ledger)
          /\ \A i \in Locks : i <= cpu.seen => ledger[i].what \notin {"exact", "malformed"}
    /\ LockStops

(* A lock that touches the contract came after the offer.                     *)
Touched == \E i \in Locks : i > cpu.offer /\ ledger[i].what # "other"

(* What an approval that was offered has not lost on its way.                 *)
OfferInv ==
    cpu # Idle /\ cpu.from = "approve" /\ cpu.offer # 0 =>
        /\ cpu.offer <= Len(ledger)
        /\ \A i \in Locks : i <= cpu.offer => ledger[i].what = "other"
        /\ ~Has(cpu.run, "attempt")
        /\ cpu.at # "attempt" => ~Has(cpu.run, "approval")
        /\ cpu.at = "check" => Supported(cpu.run)
        /\ cpu.at = "non_actionable" => Touched

Inv == TypeInv /\ ChainInv /\ GateInv /\ StretchInv /\ LockInv /\ OfferInv

-----------------------------------------------------------------------------
(* Reading the ledger.                                                        *)

(* What an append does to every reading of the ledger.                        *)
LEMMA Appended ==
    ASSUME ledger \in Seq(Entry), NEW e \in Entry, ledger' = Append(ledger, e)
    PROVE  /\ ledger' \in Seq(Entry)
           /\ Len(ledger') = Len(ledger) + 1
           /\ \A i \in DOMAIN ledger : i \in Nat /\ i < Len(ledger) + 1 /\ ledger'[i] = ledger[i]
           /\ ledger'[Len(ledger) + 1] = e
           /\ \A r, type : Events(r, type) \subseteq DOMAIN ledger
           /\ \A r, type : Events(r, type)' =
                 Events(r, type) \cup (IF e.type = type /\ e.run = r THEN {Len(ledger) + 1} ELSE {})
           /\ Locks' = Locks \cup (IF e.type = "lock" THEN {Len(ledger) + 1} ELSE {})
<1>. DEFINE n == Len(ledger) + 1
<1>1. n \in Nat /\ DOMAIN ledger = 1 .. Len(ledger) /\ DOMAIN ledger' = DOMAIN ledger \cup {n}
      /\ n \notin DOMAIN ledger
  OBVIOUS
<1>2. \A i \in DOMAIN ledger : i \in Nat /\ i < n /\ ledger'[i] = ledger[i]
  OBVIOUS
<1>3. ledger'[n] = e /\ Len(ledger') = n /\ ledger' \in Seq(Entry)
  OBVIOUS
<1>. HIDE DEF n
<1>4. \A r, type : Events(r, type)' =
           Events(r, type) \cup (IF e.type = type /\ e.run = r THEN {n} ELSE {})
  BY <1>1, <1>2, <1>3 DEF Events
<1>5. Locks' = Locks \cup (IF e.type = "lock" THEN {n} ELSE {})
  BY <1>1, <1>2, <1>3 DEF Locks
<1>6. \A r, type : Events(r, type) \subseteq DOMAIN ledger
  BY DEF Events
<1>. QED BY <1>2, <1>3, <1>4, <1>5, <1>6 DEF n

(* An append leaves the events of another type or run alone.                  *)
LEMMA NotOfThis ==
    ASSUME ledger \in Seq(Entry), NEW e \in Entry, ledger' = Append(ledger, e),
           NEW r, NEW type, e.type # type \/ e.run # r
    PROVE  Events(r, type)' = Events(r, type)
<1>1. Events(r, type)' =
          Events(r, type) \cup (IF e.type = type /\ e.run = r THEN {Len(ledger) + 1} ELSE {})
  BY Appended
<1>. QED BY <1>1

(* The other outcome of appendIfAbsent: the event is there already.           *)
LEMMA Absent ==
    ASSUME ledger \in Seq(Entry), NEW e \in Entry, AppendIfAbsent(e)
    PROVE  \/ ledger' = Append(ledger, e)
           \/ /\ ledger' = ledger
              /\ \E i \in Events(e.run, e.type) : ledger[i].snap = e.snap /\ ledger[i].what = e.what
<1>1. CASE \E i \in DOMAIN ledger : [ledger[i] EXCEPT !.at = e.at] = e
  <2>1. PICK i \in DOMAIN ledger : [ledger[i] EXCEPT !.at = e.at] = e
    BY <1>1
  <2>2. ledger[i] \in Entry
    BY <2>1
  <2>3. /\ ledger[i].type = e.type /\ ledger[i].run = e.run
        /\ ledger[i].snap = e.snap /\ ledger[i].what = e.what
    BY <2>1, <2>2 DEF Entry
  <2>. QED BY <1>1, <2>3 DEF AppendIfAbsent, Events
<1>2. CASE ~\E i \in DOMAIN ledger : [ledger[i] EXCEPT !.at = e.at] = e
  BY <1>2 DEF AppendIfAbsent
<1>. QED BY <1>1, <1>2

(* The number of events is one when there is one event.                       *)
LEMMA LoneIs ==
    ASSUME ledger \in Seq(Entry), NEW r, NEW type
    PROVE  Lone(r, type) <=> \E x : Events(r, type) = {x}
<1>1. IsFiniteSet(DOMAIN ledger)
  BY FS_Interval
<1>2. IsFiniteSet(Events(r, type))
  BY <1>1, FS_Subset DEF Events
<1>. QED BY <1>2, FS_Singleton DEF Lone

(* What a supported decision finds in the ledger.                             *)
LEMMA SupportedMeans ==
    ASSUME ledger \in Seq(Entry), NEW r, Supported(r)
    PROVE  /\ \E a, g : /\ Events(r, "accepted") = {a} /\ Events(r, "gate") = {g} /\ a < g
                        /\ ledger[g].snap = snapshot[r]
           /\ now - snapshot[r] < MaxAge
<1>1. /\ Lone(r, "accepted") /\ Lone(r, "gate") /\ now - snapshot[r] < MaxAge
      /\ \A a \in Events(r, "accepted"), g \in Events(r, "gate") : a < g /\ ledger[g].snap = snapshot[r]
  BY DEF Supported
<1>2. PICK a : Events(r, "accepted") = {a}
  BY <1>1, LoneIs
<1>3. PICK g : Events(r, "gate") = {g}
  BY <1>1, LoneIs
<1>4. a \in Events(r, "accepted") /\ g \in Events(r, "gate")
  BY <1>2, <1>3
<1>5. a < g /\ ledger[g].snap = snapshot[r]
  BY <1>1, <1>4
<1>. QED BY <1>1, <1>2, <1>3, <1>5

(* Only the two events it rests on, the snapshot and the clock matter.        *)
LEMMA SupportedKept ==
    ASSUME NEW r, Supported(r), snapshot'[r] = snapshot[r], now' = now,
           Events(r, "accepted")' = Events(r, "accepted"), Events(r, "gate")' = Events(r, "gate"),
           \A i \in Events(r, "accepted") \cup Events(r, "gate") : ledger'[i] = ledger[i]
    PROVE  Supported(r)'
BY DEF Supported, Lone

(* Events are entries of the ledger, and have the fields they are given.      *)
LEMMA EventTyped ==
    ASSUME now \in Nat
    PROVE  \A type \in Types, what \in Whats, r, snap \in Nat :
              /\ Event(type, r, snap, what) \in Entry
              /\ Event(type, r, snap, what).type = type /\ Event(type, r, snap, what).run = r
              /\ Event(type, r, snap, what).snap = snap /\ Event(type, r, snap, what).what = what
              /\ type = "approval" => Event(type, r, snap, what).at = now
              /\ type \notin {"accepted", "approval"} => Event(type, r, snap, what).at = 0
BY DEF Event, Entry

-----------------------------------------------------------------------------
(* Types.                                                                     *)

(* The initial states are well typed.                                         *)
LEMMA InitTyped == Init => TypeInv
BY BoundsAssumption DEF Init, TypeInv, LatestRun, Run, Idle

(* What the event of a run is made of.                                        *)
LEMMA Parts ==
    ASSUME ledger \in Seq(Entry), NEW e \in Entry, ledger' = ledger \/ AppendIfAbsent(e) \/ ledger' = Append(ledger, e)
    PROVE  ledger' \in Seq(Entry)
<1>1. CASE ledger' = ledger
  BY <1>1
<1>2. CASE ledger' = Append(ledger, e)
  BY <1>2
<1>3. CASE AppendIfAbsent(e)
  BY <1>3 DEF AppendIfAbsent
<1>. QED BY <1>1, <1>2, <1>3

(* A stretch that ends leaves a well typed investigation.                     *)
LEMMA EndTyped ==
    ASSUME TypeInv, cpu # Idle, NEW ok, End(ok)
    PROVE  /\ cpu' = Idle
           /\ inv' \in [Run -> {"none", "freezing", "freezing_again", "reading", "deciding"}]
BY DEF TypeInv, End

(* A stretch in progress and the next stage of it.                            *)
LEMMA StageTyped ==
    ASSUME TypeInv, cpu # Idle
    PROVE  /\ cpu \in Stretches
           /\ cpu.run \in Run /\ cpu.run \in Nat /\ cpu.at \in Stages /\ cpu.at # "idle"
           /\ \A at \in Stages : GoOn(at) =>
                  /\ cpu' \in Stretches
                  /\ cpu'.at = at /\ cpu'.run = cpu.run /\ cpu'.from = cpu.from
                  /\ cpu'.offer = cpu.offer /\ inv' = inv
<1>1. cpu \in Stretches
  BY DEF TypeInv
<1>2. cpu.run \in Run /\ cpu.run \in Nat /\ cpu.at \in Stages /\ cpu.at # "idle"
  BY <1>1, BoundsAssumption DEF Run, Stages, PastCheck, Stretches
<1>3. ASSUME NEW at \in Stages, GoOn(at)
      PROVE  /\ cpu' \in Stretches
             /\ cpu'.at = at /\ cpu'.run = cpu.run /\ cpu'.from = cpu.from
             /\ cpu'.offer = cpu.offer /\ inv' = inv
  BY <1>1, <1>3 DEF GoOn, Stretches
<1>. QED BY <1>1, <1>2, <1>3

(* A stage is reached only in a stretch.                                      *)
LEMMA InStretch ==
    ASSUME TypeInv, cpu.at # "idle"
    PROVE  cpu # Idle
BY DEF Idle

(* What is known of the event that a stage writes.                            *)
OfStage(e) ==
    /\ e.run = cpu.run
    /\ e.type \notin {"accepted", "approval"} => e.at = 0
    /\ e.type # "accepted" => e.snap = snapshot[cpu.run]
    /\ \/ cpu.at = "accept" /\ e.type = "accepted"
       \/ cpu.at = "gate" /\ e.type = "gate"
       \/ cpu.at \in {"human_review_required", "non_actionable"} /\ e.type = "decision"
       \/ cpu.at = "propose" /\ e.type = "proposal"
       \/ cpu.at = "request" /\ e.type = "request"
       \/ /\ cpu.at = "claim" /\ Claimable(cpu.run, cpu.seen)
          /\ e.type = "approval" /\ e.at = now
       \/ cpu.at = "attempt" /\ ~Has(cpu.run, "attempt") /\ e.type = "attempt"

(* A stage writes its event, unless it is there already.                      *)
LEMMA StageEvent ==
    ASSUME TypeInv, cpu # Idle, StageWrites
    PROVE  \E e \in Entry : /\ OfStage(e)
                             /\ \/ ledger' = Append(ledger, e)
                                \/ ledger' = ledger /\ e.type # "attempt"
<1>a. ledger \in Seq(Entry) /\ now \in Nat
  BY DEF TypeInv
<1>b. cpu.run \in Nat /\ snapshot[cpu.run] \in Nat /\ 0 \in Nat
  BY StageTyped DEF TypeInv
<1>c. /\ {"accepted", "gate", "decision", "proposal", "request", "approval", "attempt"} \subseteq Types
      /\ {"evaluator", "live-evaluator", "passed", "human_review_required", "non_actionable",
          "owner_gate", "owner", "rollback"} \subseteq Whats
  BY DEF Types, AuthorityTypes, Whats
<1>1. CASE cpu.at = "accept"
  <2>. DEFINE e == Event("accepted", cpu.run, 0, IF key THEN "live-evaluator" ELSE "evaluator")
  <2>1. (IF key THEN "live-evaluator" ELSE "evaluator") \in Whats
    BY <1>c
  <2>2. e \in Entry
    BY <1>a, <1>b, <1>c, <2>1, EventTyped
  <2>3. OfStage(e)
    BY <1>1 DEF Event, OfStage
  <2>4. ledger' = Append(ledger, e)
    BY <1>1 DEF StageWrites
  <2>. QED BY <2>2, <2>3, <2>4
<1>2. CASE cpu.at = "gate"
  <2>. DEFINE e == Event("gate", cpu.run, snapshot[cpu.run], "passed")
  <2>1. e \in Entry
    BY <1>a, <1>b, <1>c, EventTyped
  <2>2. OfStage(e)
    BY <1>2 DEF Event, OfStage
  <2>3. ledger' = Append(ledger, e)
    BY <1>2 DEF StageWrites
  <2>. QED BY <2>1, <2>2, <2>3
<1>3. CASE cpu.at \in {"human_review_required", "non_actionable"}
  <2>. DEFINE e == Event("decision", cpu.run, snapshot[cpu.run], cpu.at)
  <2>1. e \in Entry /\ e.type = "decision"
    <3>1. cpu.at \in Whats
      BY <1>3, <1>c
    <3>2. e \in Entry
      BY <1>a, <1>b, <1>c, <3>1, EventTyped
    <3>. QED BY <3>2 DEF Event
  <2>2. OfStage(e)
    BY <1>3 DEF Event, OfStage
  <2>3. AppendIfAbsent(e)
    BY <1>3 DEF StageWrites
  <2>. HIDE DEF e
  <2>. QED BY <1>a, <2>1, <2>2, <2>3, Absent
<1>4. CASE cpu.at = "propose"
  <2>. DEFINE e == Event("proposal", cpu.run, snapshot[cpu.run], "owner_gate")
  <2>1. e \in Entry /\ e.type = "proposal"
    <3>1. e \in Entry
      BY <1>a, <1>b, <1>c, EventTyped
    <3>. QED BY <3>1 DEF Event
  <2>2. OfStage(e)
    BY <1>4 DEF Event, OfStage
  <2>3. AppendIfAbsent(e)
    BY <1>4 DEF StageWrites
  <2>. HIDE DEF e
  <2>. QED BY <1>a, <2>1, <2>2, <2>3, Absent
<1>5. CASE cpu.at = "request"
  <2>. DEFINE e == Event("request", cpu.run, snapshot[cpu.run], "owner_gate")
  <2>1. e \in Entry /\ e.type = "request"
    <3>1. e \in Entry
      BY <1>a, <1>b, <1>c, EventTyped
    <3>. QED BY <3>1 DEF Event
  <2>2. OfStage(e)
    BY <1>5 DEF Event, OfStage
  <2>3. AppendIfAbsent(e)
    BY <1>5 DEF StageWrites
  <2>. HIDE DEF e
  <2>. QED BY <1>a, <2>1, <2>2, <2>3, Absent
<1>6. CASE cpu.at = "claim"
  <2>. DEFINE e == Event("approval", cpu.run, snapshot[cpu.run], "owner")
  <2>1. e \in Entry
    BY <1>a, <1>b, <1>c, EventTyped
  <2>2. Claimable(cpu.run, cpu.seen) /\ ledger' = Append(ledger, e)
    BY <1>6 DEF StageWrites
  <2>3. OfStage(e)
    BY <1>6, <2>2 DEF Event, OfStage
  <2>. QED BY <2>1, <2>2, <2>3
<1>7. CASE cpu.at = "attempt"
  <2>. DEFINE e == Event("attempt", cpu.run, snapshot[cpu.run], "rollback")
  <2>1. e \in Entry
    BY <1>a, <1>b, <1>c, EventTyped
  <2>2. ~Has(cpu.run, "attempt") /\ ledger' = Append(ledger, e)
    BY <1>7 DEF StageWrites
  <2>3. OfStage(e)
    BY <1>7, <2>2 DEF Event, OfStage
  <2>. QED BY <2>1, <2>2, <2>3
<1>. QED BY <1>1, <1>2, <1>3, <1>4, <1>5, <1>6, <1>7 DEF StageWrites

(* A stage leaves a well typed ledger.                                        *)
LEMMA StageWritesTyped ==
    ASSUME TypeInv, cpu # Idle, StageWrites
    PROVE  ledger' \in Seq(Entry)
BY StageEvent, Parts DEF TypeInv

(* Every step keeps the types.                                                *)
LEMMA StepTyped == TypeInv /\ [Next]_vars => TypeInv'
<1>. SUFFICES ASSUME TypeInv, [Next]_vars PROVE TypeInv'
  OBVIOUS
<1>a. ledger \in Seq(Entry) /\ now \in Nat /\ faults \in Nat /\ Run \subseteq Nat
  BY DEF TypeInv, Run
<1>b. /\ Len(modes) \in Nat /\ starting.checked \in Nat /\ starting.applied \in Nat /\ MaxRuns \in Nat
      /\ starting = [checked |-> starting.checked, applied |-> starting.applied]
      /\ Len(modes) + starting.checked + starting.applied <= MaxRuns
  BY BoundsAssumption DEF TypeInv, LatestRun
<1>1. CASE Preflight
  <2>1. starting' = [checked |-> starting.checked + 1, applied |-> starting.applied]
    BY <1>1, <1>b DEF Preflight
  <2>2. /\ starting' \in [checked : Nat, applied : Nat] /\ modes' = modes
        /\ Len(modes) + starting'.checked + starting'.applied <= MaxRuns
    BY <1>1, <1>b, <2>1 DEF Preflight, LatestRun
  <2>. QED BY <1>1, <2>2 DEF TypeInv, Preflight, memory, LatestRun
<1>2. CASE ApplyCase
  <2>1. starting' = [checked |-> starting.checked - 1, applied |-> starting.applied + 1]
        /\ starting.checked > 0 /\ modes' = modes
    BY <1>2 DEF ApplyCase
  <2>2. /\ starting' \in [checked : Nat, applied : Nat]
        /\ Len(modes) + starting'.checked + starting'.applied <= MaxRuns
    BY <1>b, <2>1
  <2>. QED BY <1>2, <2>1, <2>2 DEF TypeInv, ApplyCase, memory, LatestRun
<1>3. CASE StartRun
  <2>1. starting' = [checked |-> starting.checked, applied |-> starting.applied - 1]
        /\ starting.applied > 0
    BY <1>3, <1>b DEF StartRun
  <2>2. modes' \in Seq({"development", "replay"}) /\ Len(modes') = Len(modes) + 1
    <3>1. modes \in Seq({"development", "replay"}) /\ modes' = Append(modes, "development")
      BY <1>3 DEF StartRun, TypeInv
    <3>. QED BY <3>1
  <2>3. /\ starting' \in [checked : Nat, applied : Nat]
        /\ Len(modes') + starting'.checked + starting'.applied <= MaxRuns
    BY <1>b, <2>1, <2>2
  <2>. QED BY <1>3, <2>2, <2>3 DEF TypeInv, StartRun, memory, LatestRun
<1>4. CASE Reset
  <2>1. modes' \in Seq({"development", "replay"}) /\ Len(modes') = Len(modes) + 1
    BY <1>4 DEF Reset, TypeInv
  <2>. QED BY <1>4, <1>b, <2>1 DEF TypeInv, Reset, memory, LatestRun
<1>5. ASSUME NEW r \in Run, Investigate(r) PROVE TypeInv'
  <2>1. Stretch(r, "check", "investigate") \in Stretches
    BY DEF Stretch, Stages, Stretches
  <2>2. cpu' \in {Idle} \cup Stretches
        /\ inv' \in [Run -> {"none", "freezing", "freezing_again", "reading", "deciding"}]
    BY <1>5, <2>1 DEF TypeInv, Investigate
  <2>. QED BY <1>5, <2>2 DEF TypeInv, Investigate, LatestRun
<1>6. ASSUME NEW r \in Run, Freeze(r) PROVE TypeInv'
  <2>1. Stretch(r, "check", "investigate") \in Stretches
    BY DEF Stretch, Stages, Stretches
  <2>2. cpu' \in {Idle} \cup Stretches
        /\ inv' \in [Run -> {"none", "freezing", "freezing_again", "reading", "deciding"}]
    BY <1>6, <2>1 DEF TypeInv, Freeze
  <2>3. snapshot' \in [Run -> Nat] /\ now' \in Nat
    BY <1>6, <1>a DEF TypeInv, Freeze
  <2>. QED BY <1>6, <2>2, <2>3 DEF TypeInv, Freeze, LatestRun
<1>7. ASSUME NEW r \in Run, Confirm(r) PROVE TypeInv'
  BY <1>7 DEF TypeInv, Confirm, LatestRun, Stretch, Stretches, Stages
<1>8. ASSUME NEW r \in Run, NotConfirmed(r) PROVE TypeInv'
  BY <1>8 DEF TypeInv, NotConfirmed, LatestRun
<1>9. CASE Accept \/ PassGate
  <2>0. cpu # Idle
    BY <1>9 DEF Accept, PassGate, Idle
  <2>1. StageWrites /\ \E at \in Stages : GoOn(at)
    BY <1>9 DEF Accept, PassGate, Stages
  <2>. QED BY <1>9, <2>0, <2>1, StageTyped, StageWritesTyped
           DEF TypeInv, Accept, PassGate, StretchKeeps, LatestRun
<1>11. CASE Classify
  <2>1. cpu # Idle
    BY <1>11 DEF Classify, Idle
  <2>. QED BY <1>11, <2>1, StageTyped DEF TypeInv, Classify, StretchKeeps, LatestRun, Stages, Stretches
<1>12. CASE Check
  <2>1. cpu # Idle
    BY <1>12 DEF Check, Idle
  <2>2. Decision(cpu.run).what \in Stages
    BY DEF Decision, Event, Stages, PastCheck
  <2>3. cpu' \in {Idle} \cup Stretches
        /\ inv' \in [Run -> {"none", "freezing", "freezing_again", "reading", "deciding"}]
    <3>1. CASE cpu' = [cpu EXCEPT !.at = Decision(cpu.run).what] /\ inv' = inv
      BY <2>1, <2>2, <3>1, StageTyped DEF Stretches, TypeInv
    <3>2. CASE End(FALSE)
      BY <2>1, <3>2, EndTyped
    <3>. QED BY <1>12, <3>1, <3>2 DEF Check
  <2>. QED BY <1>12, <2>3 DEF TypeInv, Check, StretchKeeps, LatestRun
<1>13. CASE Decide
  <2>0. cpu # Idle
    BY <1>13 DEF Decide, Idle
  <2>3. ledger' \in Seq(Entry)
    BY <1>13, <2>0, StageWritesTyped DEF Decide
  <2>4. cpu' \in {Idle} \cup Stretches
        /\ inv' \in [Run -> {"none", "freezing", "freezing_again", "reading", "deciding"}]
    BY <1>13, <2>0, StageTyped, EndTyped DEF Decide, TypeInv, Stages, PastCheck
  <2>. QED BY <1>13, <2>3, <2>4 DEF TypeInv, Decide, StretchKeeps, LatestRun
<1>14. CASE Propose
  <2>1. cpu # Idle
    BY <1>14 DEF Propose, Idle
  <2>3. ledger' \in Seq(Entry)
    BY <1>14, <2>1, StageWritesTyped DEF Propose
  <2>. QED BY <1>14, <2>1, <2>3, StageTyped DEF TypeInv, Propose, StretchKeeps, LatestRun, Stages, PastCheck
<1>15. CASE RequestApproval
  <2>1. cpu # Idle
    BY <1>15 DEF RequestApproval, Idle
  <2>3. ledger' \in Seq(Entry)
    BY <1>15, <2>1, StageWritesTyped DEF RequestApproval
  <2>4. cpu' \in {Idle} \cup Stretches
        /\ inv' \in [Run -> {"none", "freezing", "freezing_again", "reading", "deciding"}]
    BY <1>15, <2>1, StageTyped, EndTyped DEF RequestApproval, TypeInv, Stages, PastCheck
  <2>. QED BY <1>15, <2>3, <2>4 DEF TypeInv, RequestApproval, StretchKeeps, LatestRun
<1>16. CASE Approve
  <2>1. LatestRun \in Run
    BY <1>16, <1>b DEF Approve, LatestRun, Run
  <2>2. Len(ledger) \in Nat
    BY <1>a
  <2>3. cpu' \in Stretches
    BY <1>16, <2>1, <2>2 DEF Approve, Stretch, Stretches, Stages
  <2>. QED BY <1>16, <2>3 DEF Approve, TypeInv, LatestRun
<1>17. CASE ReadLocks
  <2>1. cpu # Idle
    <3>1. cpu.at = "locks"
      BY <1>17 DEF ReadLocks
    <3>. QED BY <3>1, InStretch
  <2>2. CASE LocksClear
    <3>1. PICK last \in Locks \cup {0} : cpu' = [cpu EXCEPT !.at = "claim", !.seen = last]
      BY <1>17, <2>2 DEF ReadLocks
    <3>2. last \in Nat
      BY <1>a DEF Locks
    <3>3. cpu' \in Stretches
      BY <2>1, <3>1, <3>2, StageTyped DEF Stages, PastCheck, Stretches
    <3>. QED BY <1>17, <2>2, <3>3 DEF TypeInv, ReadLocks, StretchKeeps, LatestRun
  <2>3. CASE ~LocksClear
    BY <1>17, <2>1, <2>3, EndTyped DEF TypeInv, ReadLocks, StretchKeeps, LatestRun
  <2>. QED BY <2>2, <2>3
<1>18. CASE Claim
  <2>1. cpu # Idle
    BY <1>18 DEF Claim, Idle
  <2>3. ledger' \in Seq(Entry)
    BY <1>18, <1>a, <2>1, StageWritesTyped DEF Claim
  <2>4. cpu' \in {Idle} \cup Stretches
        /\ inv' \in [Run -> {"none", "freezing", "freezing_again", "reading", "deciding"}]
    BY <1>18, <2>1, StageTyped, EndTyped DEF Claim, TypeInv, Stages, PastCheck
  <2>. QED BY <1>18, <2>3, <2>4 DEF TypeInv, Claim, StretchKeeps, LatestRun
<1>19. CASE Attempt
  <2>1. cpu # Idle
    BY <1>19 DEF Attempt, Idle
  <2>3. ledger' \in Seq(Entry)
    BY <1>19, <1>a, <2>1, StageWritesTyped DEF Attempt
  <2>4. cpu' = Idle /\ inv' \in [Run -> {"none", "freezing", "freezing_again", "reading", "deciding"}]
    BY <1>19, <2>1, EndTyped DEF Attempt
  <2>5. /\ rolling' \in [Run -> {"none", "called", "restored"}] /\ calls' \in [Run -> Nat]
    <3>1. \/ rolling' = rolling /\ calls' = calls
          \/ /\ rolling' = [rolling EXCEPT ![cpu.run] = "called"]
             /\ calls' = [calls EXCEPT ![cpu.run] = @ + 1]
      BY <1>19 DEF Attempt
    <3>2. rolling \in [Run -> {"none", "called", "restored"}] /\ calls \in [Run -> Nat]
      BY DEF TypeInv
    <3>. QED BY <3>1, <3>2
  <2>. QED BY <1>19, <2>3, <2>4, <2>5 DEF TypeInv, Attempt, StretchKeeps, LatestRun
<1>20. ASSUME NEW r \in Run, Restore(r) PROVE TypeInv'
  BY <1>20 DEF TypeInv, Restore, LatestRun
<1>21. ASSUME NEW r \in Run, Executed(r) PROVE TypeInv'
  <2>1. PICK i \in Events(r, "attempt") : AppendIfAbsent(Event("executed", r, ledger[i].snap, "rollback"))
    BY <1>21 DEF Executed
  <2>2. ledger[i].snap \in Nat /\ r \in Nat
    <3>1. ledger[i] \in Entry
      BY <1>a, <2>1 DEF Events
    <3>. QED BY <1>a, <3>1 DEF Entry
  <2>3. Event("executed", r, ledger[i].snap, "rollback") \in Entry
    BY <1>a, <2>2, EventTyped DEF Types, AuthorityTypes, Whats
  <2>4. ledger' \in Seq(Entry)
    BY <1>a, <2>1, <2>3, Parts
  <2>. QED BY <1>21, <2>4 DEF TypeInv, Executed, LatestRun
<1>22. ASSUME NEW r \in Run, RollbackFails(r) PROVE TypeInv'
  BY <1>22 DEF TypeInv, RollbackFails, LatestRun
<1>23. ASSUME NEW r \in Run, Verify(r) PROVE TypeInv'
  BY <1>23 DEF TypeInv, Verify, LatestRun
<1>24. ASSUME NEW v \in verifying, Verified(v) PROVE TypeInv'
  <2>1. v.run \in Run /\ v.run \in Nat /\ v.saw \in {"passed", "failed"}
    BY <1>a DEF TypeInv
  <2>2. Event("verified", v.run, 0, v.saw) \in Entry
    BY <1>a, <2>1, EventTyped DEF Types, AuthorityTypes, Whats
  <2>3. ledger' \in Seq(Entry)
    BY <1>24, <1>a, <2>2 DEF Verified
  <2>. QED BY <1>24, <2>3 DEF TypeInv, Verified, LatestRun
<1>25. CASE Tick
  BY <1>25 DEF TypeInv, Tick, memory, LatestRun
<1>26. ASSUME NEW kind \in LockKinds, LockArrives(kind) PROVE TypeInv'
  <2>1. Event("lock", 0, 0, kind) \in Entry
    BY <1>a, EventTyped DEF LockKinds, Types, Whats
  <2>2. ledger' \in Seq(Entry)
    BY <1>26, <1>a, <2>1 DEF LockArrives
  <2>. QED BY <1>26, <2>2 DEF TypeInv, LockArrives, memory, LatestRun
<1>27. CASE Refused
  <2>1. cpu' = Idle /\ inv' \in [Run -> {"none", "freezing", "freezing_again", "reading", "deciding"}]
    BY <1>27, EndTyped DEF Refused
  <2>2. ledger' \in Seq(Entry)
    BY <1>27, <1>a, StageWritesTyped DEF Refused
  <2>. QED BY <1>27, <2>1, <2>2 DEF TypeInv, Refused, StretchKeeps, LatestRun
<1>28. CASE Crash
  BY <1>28, <1>a, <1>b DEF TypeInv, Crash, LatestRun
<1>29. CASE UNCHANGED vars
  BY <1>29 DEF TypeInv, vars, memory, LatestRun
<1>. QED
  BY <1>1, <1>2, <1>3, <1>4, <1>5, <1>6, <1>7, <1>8, <1>9, <1>11, <1>12, <1>13, <1>14,
     <1>15, <1>16, <1>17, <1>18, <1>19, <1>20, <1>21, <1>22, <1>23, <1>24, <1>25, <1>26, <1>27,
     <1>28, <1>29 DEF Next

-----------------------------------------------------------------------------
(* The chain of authority.                                                    *)

(* What the ledger owes to an event before it is appended.                    *)
Owed(e) ==
    /\ e.type \notin {"accepted", "approval"} => e.at = 0
    /\ e.type \in {"accepted", "gate"} => ~Has(e.run, "gate")
    /\ e.type = "decision" => \E g \in Events(e.run, "gate") : ledger[g].snap = e.snap
    /\ e.type = "proposal" => \E d \in Events(e.run, "decision") :
          ledger[d].snap = e.snap /\ ledger[d].what = "human_review_required"
    /\ e.type = "request" => \E p \in Events(e.run, "proposal") : ledger[p].snap = e.snap
    /\ e.type = "approval" =>
          /\ ~Has(e.run, "approval")
          /\ \E q \in Events(e.run, "request") : ledger[q].snap = e.snap
          /\ e.at - e.snap < MaxAge
          /\ \E a, g \in DOMAIN ledger :
                Events(e.run, "accepted") = {a} /\ Events(e.run, "gate") = {g} /\ a < g
          /\ \A i \in Locks : ledger[i].what \notin {"exact", "malformed"}
    /\ e.type = "attempt" =>
          /\ ~Has(e.run, "attempt")
          /\ \E k \in Events(e.run, "approval") : ledger[k].snap = e.snap

(* And what else the append does.                                             *)
May(e) ==
    /\ Owed(e)
    /\ \/ calls' = calls
       \/ e.type = "attempt" /\ calls' = [calls EXCEPT ![e.run] = @ + 1]

(* An append keeps every event on the one it rests on.                        *)
LEMMA RestsKept ==
    ASSUME ledger \in Seq(Entry), NEW e \in Entry, ledger' = Append(ledger, e),
           NEW r, NEW later, NEW earlier, RestsOn(r, later, earlier),
           e.type = later /\ e.run = r => \E j \in Events(r, earlier) : ledger[j].snap = e.snap
    PROVE  RestsOn(r, later, earlier)'
<1>. SUFFICES ASSUME NEW i \in Events(r, later)'
              PROVE  \E j \in Events(r, earlier)' : j < i /\ ledger'[j].snap = ledger'[i].snap
  BY DEF RestsOn
<1>1. \A j \in Events(r, earlier) :
          /\ j \in Events(r, earlier)' /\ ledger'[j] = ledger[j] /\ j < Len(ledger) + 1
  BY Appended
<1>2. CASE i \in Events(r, later)
  <2>1. PICK j \in Events(r, earlier) : j < i /\ ledger[j].snap = ledger[i].snap
    BY <1>2 DEF RestsOn
  <2>2. ledger'[i] = ledger[i]
    BY <1>2, Appended
  <2>. QED BY <1>1, <2>1, <2>2
<1>3. CASE i \notin Events(r, later)
  <2>1. i = Len(ledger) + 1 /\ e.type = later /\ e.run = r /\ ledger'[i] = e
    BY <1>3, Appended
  <2>2. PICK j \in Events(r, earlier) : ledger[j].snap = e.snap
    BY <2>1
  <2>. QED BY <1>1, <2>1, <2>2
<1>. QED BY <1>2, <1>3

(* At most one event of a type, when none is appended to one.                 *)
LEMMA OneKept ==
    ASSUME ledger \in Seq(Entry), NEW e \in Entry, ledger' = Append(ledger, e),
           NEW r, NEW type, AtMostOne(Events(r, type)),
           e.type = type /\ e.run = r => ~Has(r, type)
    PROVE  AtMostOne(Events(r, type))'
<1>1. Events(r, type)' =
          Events(r, type) \cup (IF e.type = type /\ e.run = r THEN {Len(ledger) + 1} ELSE {})
  BY Appended
<1>. QED BY <1>1 DEF AtMostOne, Has

(* An event that may be appended keeps every chain.                           *)
LEMMA ChainAppend ==
    ASSUME TypeInv, ChainInv, NEW e \in Entry, ledger' = Append(ledger, e), May(e)
    PROVE  ChainInv'
<1>0. ledger \in Seq(Entry) /\ calls \in [Run -> Nat]
  BY DEF TypeInv
<1>. DEFINE n == Len(ledger) + 1
<1>1. \A i \in DOMAIN ledger' : ledger'[i].type \notin {"accepted", "approval"} => ledger'[i].at = 0
  <2>1. DOMAIN ledger' = DOMAIN ledger \cup {n}
    BY <1>0, Appended
  <2>2. e.type \notin {"accepted", "approval"} => e.at = 0
    BY DEF May, Owed
  <2>. QED BY <1>0, <2>1, <2>2, Appended DEF ChainInv
<1>2. ASSUME NEW r \in Run PROVE ChainOf(r)'
  <2>0. ChainOf(r)
    BY DEF ChainInv
  <2>1. AtMostOne(Events(r, "approval"))' /\ AtMostOne(Events(r, "attempt"))'
    BY <1>0, <2>0, OneKept DEF ChainOf, May, Owed
  <2>2. RestsOn(r, "decision", "gate")'
    BY <1>0, <2>0, RestsKept DEF ChainOf, May, Owed
  <2>3. RestsOn(r, "request", "proposal")'
    BY <1>0, <2>0, RestsKept DEF ChainOf, May, Owed
  <2>4. RestsOn(r, "approval", "request")'
    BY <1>0, <2>0, RestsKept DEF ChainOf, May, Owed
  <2>5. RestsOn(r, "attempt", "approval")'
    BY <1>0, <2>0, RestsKept DEF ChainOf, May, Owed
  <2>6. ASSUME NEW p \in Events(r, "proposal")'
        PROVE  \E d \in Events(r, "decision")' :
                  d < p /\ ledger'[d].snap = ledger'[p].snap
                  /\ ledger'[d].what = "human_review_required"
    <3>1. \A d \in Events(r, "decision") :
              d \in Events(r, "decision")' /\ ledger'[d] = ledger[d] /\ d < n
      BY <1>0, Appended
    <3>2. CASE p \in Events(r, "proposal")
      <4>1. ledger'[p] = ledger[p]
        BY <1>0, <3>2, Appended
      <4>2. PICK d \in Events(r, "decision") :
                d < p /\ ledger[d].snap = ledger[p].snap /\ ledger[d].what = "human_review_required"
        BY <2>0, <3>2 DEF ChainOf
      <4>. QED BY <3>1, <4>1, <4>2
    <3>3. CASE p \notin Events(r, "proposal")
      <4>1. p = n /\ e.type = "proposal" /\ e.run = r /\ ledger'[p] = e
        BY <1>0, <3>3, Appended
      <4>2. PICK d \in Events(r, "decision") :
                ledger[d].snap = e.snap /\ ledger[d].what = "human_review_required"
        BY <4>1 DEF May, Owed
      <4>. QED BY <3>1, <4>1, <4>2
    <3>. QED BY <3>2, <3>3
  <2>7. ASSUME NEW k \in Events(r, "approval")' PROVE ledger'[k].at - ledger'[k].snap < MaxAge
    <3>1. CASE k \in Events(r, "approval")
      BY <1>0, <2>0, <3>1, Appended DEF ChainOf
    <3>2. CASE k \notin Events(r, "approval")
      <4>1. e.type = "approval" /\ ledger'[k] = e
        BY <1>0, <3>2, Appended
      <4>. QED BY <4>1 DEF May, Owed
    <3>. QED BY <3>1, <3>2
  <2>8. ASSUME Has(r, "approval")'
        PROVE  \E a, g \in DOMAIN ledger' :
                  Events(r, "accepted")' = {a} /\ Events(r, "gate")' = {g} /\ a < g
    <3>1. PICK a, g \in DOMAIN ledger :
              Events(r, "accepted") = {a} /\ Events(r, "gate") = {g} /\ a < g
      <4>1. CASE Has(r, "approval")
        BY <2>0, <4>1 DEF ChainOf
      <4>2. CASE ~Has(r, "approval")
        <5>1. e.type = "approval" /\ e.run = r
          BY <1>0, <2>8, <4>2, Appended DEF Has
        <5>. QED BY <5>1 DEF May, Owed
      <4>. QED BY <4>1, <4>2
    <3>2. Has(r, "gate")
      BY <3>1 DEF Has
    <3>3. ~(e.type \in {"accepted", "gate"} /\ e.run = r)
      BY <3>2 DEF May, Owed
    <3>4. Events(r, "accepted")' = {a} /\ Events(r, "gate")' = {g}
      BY <1>0, <3>1, <3>3, Appended
    <3>5. a \in DOMAIN ledger' /\ g \in DOMAIN ledger'
      BY <1>0, <3>1
    <3>. QED BY <3>1, <3>4, <3>5
  <2>9. calls'[r] # 0 => calls'[r] = 1 /\ Has(r, "attempt")'
    <3>1. calls[r] # 0 => calls[r] = 1 /\ Has(r, "attempt")
      BY <2>0 DEF ChainOf
    <3>2. Has(r, "attempt") => Has(r, "attempt")'
      BY <1>0, Appended DEF Has
    <3>3. CASE calls'[r] = calls[r]
      BY <3>1, <3>2, <3>3
    <3>4. CASE calls'[r] # calls[r]
      <4>1. e.type = "attempt" /\ e.run = r /\ calls' = [calls EXCEPT ![r] = @ + 1]
        BY <1>0, <3>4 DEF May
      <4>2. ~Has(r, "attempt")
        BY <4>1 DEF May, Owed
      <4>3. Has(r, "attempt")'
        BY <1>0, <4>1, Appended DEF Has
      <4>. QED BY <1>0, <3>1, <4>1, <4>2, <4>3
    <3>. QED BY <3>3, <3>4
  <2>. QED BY <2>1, <2>2, <2>3, <2>4, <2>5, <2>6, <2>7, <2>8, <2>9 DEF ChainOf
<1>. QED BY <1>1, <1>2 DEF ChainInv

(* Steps that leave the ledger alone leave the chain alone.                   *)
LEMMA ChainStays ==
    ASSUME ChainInv, ledger' = ledger, calls' = calls
    PROVE  ChainInv'
BY DEF ChainInv, ChainOf, Has, Events, RestsOn, AtMostOne

(* A stretch has what the ledger owes to the event of its stage.              *)
LEMMA StageOwed ==
    ASSUME TypeInv, StretchInv, LockInv, cpu # Idle, NEW e \in Entry, OfStage(e)
    PROVE  Owed(e)
<1>0. /\ ledger \in Seq(Entry) /\ e.run = cpu.run
      /\ e.type \notin {"accepted", "approval"} => e.at = 0
      /\ e.type # "accepted" => e.snap = snapshot[cpu.run]
  BY DEF TypeInv, OfStage
<1>1. CASE cpu.at \in {"accept", "gate"}
  <2>1. ~Has(cpu.run, "gate") /\ e.type \in {"accepted", "gate"}
    BY <1>1 DEF StretchInv, OfStage
  <2>. QED BY <1>0, <2>1 DEF Owed
<1>2. CASE cpu.at \in {"human_review_required", "non_actionable"}
  <2>1. e.type = "decision"
    BY <1>2 DEF OfStage
  <2>2. Supported(cpu.run)
    BY <1>2 DEF StretchInv, PastCheck
  <2>3. \E g \in Events(cpu.run, "gate") : ledger[g].snap = snapshot[cpu.run]
    BY <1>0, <2>2, SupportedMeans
  <2>. QED BY <1>0, <2>1, <2>3 DEF Owed
<1>3. CASE cpu.at = "propose"
  <2>1. /\ e.type = "proposal"
        /\ \E d \in Events(cpu.run, "decision") :
              ledger[d].snap = snapshot[cpu.run] /\ ledger[d].what = "human_review_required"
    BY <1>3 DEF StretchInv, OfStage
  <2>. QED BY <1>0, <2>1 DEF Owed
<1>4. CASE cpu.at = "request"
  <2>1. /\ e.type = "request"
        /\ \E p \in Events(cpu.run, "proposal") : ledger[p].snap = snapshot[cpu.run]
    BY <1>4 DEF StretchInv, There, OfStage
  <2>. QED BY <1>0, <2>1 DEF Owed
<1>5. CASE cpu.at = "claim"
  <2>1. /\ e.type = "approval" /\ e.at = now
        /\ ~Has(cpu.run, "approval") /\ \A i \in Locks : i <= cpu.seen
    BY <1>5 DEF OfStage, Claimable
  <2>2. Supported(cpu.run) /\ \E q \in Events(cpu.run, "request") : ledger[q].snap = snapshot[cpu.run]
    BY <1>5 DEF StretchInv, PastCheck, There
  <2>3. /\ now - snapshot[cpu.run] < MaxAge
        /\ \E a, g \in DOMAIN ledger :
              Events(cpu.run, "accepted") = {a} /\ Events(cpu.run, "gate") = {g} /\ a < g
    <3>1. \A type : Events(cpu.run, type) \subseteq DOMAIN ledger
      BY DEF Events
    <3>. QED BY <1>0, <2>2, <3>1, SupportedMeans
  <2>4. \A i \in Locks : ledger[i].what \notin {"exact", "malformed"}
    BY <1>5, <2>1 DEF LockInv
  <2>. QED BY <1>0, <2>1, <2>2, <2>3, <2>4 DEF Owed
<1>6. CASE cpu.at = "attempt"
  <2>1. /\ e.type = "attempt" /\ ~Has(cpu.run, "attempt")
        /\ \E k \in Events(cpu.run, "approval") : ledger[k].snap = snapshot[cpu.run]
    BY <1>6 DEF StretchInv, There, OfStage
  <2>. QED BY <1>0, <2>1 DEF Owed
<1>. QED BY <1>1, <1>2, <1>3, <1>4, <1>5, <1>6 DEF OfStage

(* The append of an event that may be appended.                               *)
Ledgers(e) ==
    /\ ledger' = Append(ledger, e)
    /\ May(e)
    /\ e.type = "accepted" => Accept \/ Refused
    /\ e.type = "gate" => PassGate \/ Refused

(* A stage that writes appends an event that it may append.                   *)
LEMMA WritesLedger ==
    ASSUME TypeInv, StretchInv, LockInv, StageWrites,
           Accept \/ PassGate \/ Decide \/ Propose \/ RequestApproval \/ Claim \/ Attempt \/ Refused
    PROVE  (ledger' = ledger /\ calls' = calls) \/ \E e \in Entry : Ledgers(e)
<1>1. cpu # Idle
  BY DEF StageWrites, Idle
<1>2. PICK e \in Entry : /\ OfStage(e)
                         /\ \/ ledger' = Append(ledger, e)
                            \/ ledger' = ledger /\ e.type # "attempt"
  BY <1>1, StageEvent
<1>3. Owed(e) /\ e.run = cpu.run
  BY <1>1, <1>2, StageOwed DEF OfStage
<1>4. \/ calls' = calls
      \/ cpu.at = "attempt" /\ calls' = [calls EXCEPT ![cpu.run] = @ + 1]
  <2>1. CASE Attempt
    BY <2>1 DEF Attempt
  <2>2. CASE ~Attempt
    BY <2>2 DEF Accept, PassGate, Decide, Propose, RequestApproval, Claim, Refused
  <2>. QED BY <2>1, <2>2
<1>5. /\ cpu.at = "attempt" => e.type = "attempt"
      /\ e.type = "accepted" => cpu.at = "accept"
      /\ e.type = "gate" => cpu.at = "gate"
  BY <1>2 DEF OfStage
<1>6. (cpu.at = "accept" => Accept \/ Refused) /\ (cpu.at = "gate" => PassGate \/ Refused)
  BY DEF Accept, PassGate, Decide, Propose, RequestApproval, Claim, Attempt, Refused
<1>7. May(e)
  BY <1>3, <1>4, <1>5 DEF May
<1>. QED BY <1>2, <1>3, <1>4, <1>5, <1>6, <1>7 DEF Ledgers

(* Every step appends an event that it may append, or leaves the ledger alone.*)
LEMMA LedgerStep ==
    ASSUME TypeInv, ChainInv, GateInv, StretchInv, LockInv, [Next]_vars
    PROVE  (ledger' = ledger /\ calls' = calls) \/ \E e \in Entry : Ledgers(e)
<1>a. ledger \in Seq(Entry) /\ now \in Nat /\ Run \subseteq Nat
  BY DEF TypeInv, Run
<1>b. /\ "lock" \in Types /\ "executed" \in Types /\ "verified" \in Types
      /\ "passed" \in Whats /\ "failed" \in Whats /\ "rollback" \in Whats
      /\ LockKinds \subseteq Whats /\ 0 \in Nat
  BY DEF Types, AuthorityTypes, Whats, LockKinds
<1>9. CASE \/ Accept \/ PassGate \/ Decide \/ Propose \/ RequestApproval \/ Claim \/ Attempt
           \/ Refused
  <2>1. CASE StageWrites
    BY <1>9, <2>1, WritesLedger
  <2>2. CASE ~StageWrites
    BY <1>9, <2>2 DEF Accept, PassGate, Decide, Propose, RequestApproval, Claim, Attempt, Refused
  <2>. QED BY <2>1, <2>2
<1>21. ASSUME NEW r \in Run, Executed(r)
       PROVE  (ledger' = ledger /\ calls' = calls) \/ \E e \in Entry : Ledgers(e)
  <2>1. PICK i \in Events(r, "attempt") : AppendIfAbsent(Event("executed", r, ledger[i].snap, "rollback"))
    BY <1>21 DEF Executed
  <2>2. ledger[i].snap \in Nat /\ r \in Nat /\ calls' = calls
    <3>1. ledger[i] \in Entry
      BY <1>a, <2>1 DEF Events
    <3>. QED BY <1>a, <1>21, <3>1 DEF Entry, Executed
  <2>. DEFINE e == Event("executed", r, ledger[i].snap, "rollback")
  <2>3. e \in Entry /\ e.type = "executed" /\ e.run = r /\ e.at = 0
    <3>1. "executed" \in Types /\ "rollback" \in Whats
      BY <1>a, <1>b, <2>2
    <3>2. r \in Nat /\ ledger[i].snap \in Nat /\ now \in Nat
      BY <1>a, <1>b, <2>2
    <3>3. e \in Entry
      BY <3>1, <3>2, EventTyped
    <3>. QED BY <3>3 DEF Event
  <2>. HIDE DEF e
  <2>4. May(e)
    BY <2>2, <2>3 DEF May, Owed
  <2>5. AppendIfAbsent(e)
    BY <2>1 DEF e
  <2>. QED BY <1>a, <2>2, <2>3, <2>4, <2>5, Absent DEF Ledgers
<1>24. ASSUME NEW v \in verifying, Verified(v)
       PROVE  \E e \in Entry : Ledgers(e)
  <2>1. v.run \in Nat /\ v.saw \in Whats
    BY <1>a, <1>b DEF TypeInv
  <2>. DEFINE e == Event("verified", v.run, 0, v.saw)
  <2>2. e \in Entry /\ e.type = "verified" /\ e.at = 0
    <3>1. "verified" \in Types /\ v.saw \in Whats
      BY <1>a, <1>b, <2>1
    <3>2. v.run \in Nat /\ 0 \in Nat /\ now \in Nat
      BY <1>a, <1>b, <2>1
    <3>3. e \in Entry
      BY <3>1, <3>2, EventTyped
    <3>. QED BY <3>3 DEF Event
  <2>3. ledger' = Append(ledger, e) /\ calls' = calls
    BY <1>24 DEF Verified
  <2>. HIDE DEF e
  <2>4. May(e)
    BY <2>2, <2>3 DEF May, Owed
  <2>. QED BY <2>2, <2>3, <2>4 DEF Ledgers
<1>26. ASSUME NEW kind \in LockKinds, LockArrives(kind)
       PROVE  \E e \in Entry : Ledgers(e)
  <2>. DEFINE e == Event("lock", 0, 0, kind)
  <2>2. e \in Entry /\ e.type = "lock" /\ e.at = 0
    <3>1. "lock" \in Types /\ kind \in Whats
      BY <1>a, <1>b
    <3>2. 0 \in Nat /\ 0 \in Nat /\ now \in Nat
      BY <1>a, <1>b
    <3>3. e \in Entry
      BY <3>1, <3>2, EventTyped
    <3>. QED BY <3>3 DEF Event
  <2>3. ledger' = Append(ledger, e) /\ calls' = calls
    BY <1>26 DEF LockArrives
  <2>. HIDE DEF e
  <2>4. May(e)
    BY <2>2, <2>3 DEF May, Owed
  <2>. QED BY <2>2, <2>3, <2>4 DEF Ledgers
<1>30. CASE \/ Preflight \/ ApplyCase \/ StartRun \/ Reset \/ Approve \/ Tick \/ Classify \/ Check
            \/ ReadLocks \/ Crash \/ UNCHANGED vars
            \/ \E r \in Run : \/ Investigate(r) \/ Freeze(r) \/ Confirm(r) \/ NotConfirmed(r)
                              \/ Restore(r) \/ RollbackFails(r) \/ Verify(r)
  BY <1>30 DEF Preflight, ApplyCase, StartRun, Reset, Approve, Tick, Classify, Check, ReadLocks,
               Crash, vars, Investigate, Freeze, Confirm, NotConfirmed, Restore,
               RollbackFails, Verify
<1>. QED
  BY <1>9, <1>21, <1>24, <1>26, <1>30 DEF Next

(* Every step keeps every chain.                                              *)
LEMMA ChainStep ==
    ASSUME TypeInv, ChainInv, GateInv, StretchInv, LockInv, [Next]_vars
    PROVE  ChainInv'
BY LedgerStep, ChainStays, ChainAppend DEF Ledgers

-----------------------------------------------------------------------------
(* The gate.                                                                  *)

(* Every event stays where it is.                                             *)
LEMMA Grows ==
    ASSUME ledger \in Seq(Entry), ledger' = ledger \/ \E e \in Entry : ledger' = Append(ledger, e)
    PROVE  /\ \A r, type : Events(r, type) \subseteq Events(r, type)'
           /\ \A i \in DOMAIN ledger : ledger'[i] = ledger[i]
           /\ \A r, type : Events(r, type) \subseteq DOMAIN ledger
<1>1. \A r, type : Events(r, type) \subseteq DOMAIN ledger
  BY DEF Events
<1>2. CASE ledger' = ledger
  BY <1>1, <1>2 DEF Events
<1>3. ASSUME NEW e \in Entry, ledger' = Append(ledger, e)
      PROVE  /\ \A r, type : Events(r, type) \subseteq Events(r, type)'
             /\ \A i \in DOMAIN ledger : ledger'[i] = ledger[i]
  BY <1>3, Appended
<1>. QED BY <1>1, <1>2, <1>3

(* Few steps add to what an investigation is known by.                        *)
LEMMA Beside ==
    ASSUME TypeInv, ChainInv, GateInv, StretchInv, LockInv, [Next]_vars, ~Accept, ~PassGate,
           ~Refused
    PROVE  \A r : /\ Events(r, "accepted")' = Events(r, "accepted")
                  /\ Events(r, "gate")' = Events(r, "gate")
<1>0. ledger \in Seq(Entry)
  BY DEF TypeInv
<1>1. CASE ledger' = ledger
  BY <1>1 DEF Events
<1>2. ASSUME NEW e \in Entry, Ledgers(e)
      PROVE  \A r : /\ Events(r, "accepted")' = Events(r, "accepted")
                    /\ Events(r, "gate")' = Events(r, "gate")
  <2>1. ledger' = Append(ledger, e) /\ e.type # "accepted" /\ e.type # "gate"
    BY <1>2 DEF Ledgers
  <2>. QED BY <1>0, <2>1, NotOfThis
<1>. QED BY <1>1, <1>2, LedgerStep

(* A step that adds neither evaluation nor gate keeps the gate as it is.      *)
LEMMA GateStays ==
    ASSUME GateInv, faults' = 0 => faults = 0 /\ (cpu.at = "gate" => cpu' = cpu),
           \A r \in Run : inv'[r] \in {"freezing", "reading"} => inv[r] \in {"freezing", "reading"},
           \A r : /\ Events(r, "accepted")' = Events(r, "accepted")
                  /\ Events(r, "gate")' = Events(r, "gate")
    PROVE  GateInv'
BY DEF GateInv, GateOf, Has, AtMostOne

(* Every step keeps every gate passed at most once.                           *)
LEMMA GateStep ==
    ASSUME TypeInv, ChainInv, GateInv, StretchInv, LockInv, [Next]_vars
    PROVE  GateInv'
<1>0. ledger \in Seq(Entry) /\ Idle.at = "idle" /\ faults \in Nat
  BY DEF TypeInv, Idle
<1>5. ASSUME NEW r \in Run, Investigate(r) PROVE GateInv'
  <2>1. ledger' = ledger /\ faults' = faults /\ cpu = Idle
    BY <1>5 DEF Investigate
  <2>2. ASSUME NEW s \in Run PROVE GateOf(s)'
    <3>1. inv'[s] \in {"freezing", "reading"} => ~Has(s, "gate")
      <4>1. CASE s # r
        BY <1>5, <4>1 DEF GateInv, GateOf, Investigate, TypeInv
      <4>2. CASE s = r
        BY <1>5, <4>2 DEF Investigate, TypeInv
      <4>. QED BY <4>1, <4>2
    <3>2. cpu.at # "gate"
      BY <1>0, <2>1
    <3>. QED BY <2>1, <3>1, <3>2 DEF GateInv, GateOf, Has, Events, AtMostOne
  <2>. QED BY <2>2 DEF GateInv
<1>9. CASE Accept
  <2>0. cpu # Idle /\ cpu.at = "accept" /\ ~Has(cpu.run, "gate")
    BY <1>9 DEF Accept, Idle, StretchInv
  <2>1. cpu'.at = "gate" /\ cpu'.run = cpu.run /\ inv' = inv /\ faults' = faults
    BY <1>9, <2>0, StageTyped DEF Accept, Stages
  <2>2. PICK e \in Entry : ledger' = Append(ledger, e) /\ e.type = "accepted" /\ e.run = cpu.run
    <3>1. PICK e \in Entry : OfStage(e) /\ (ledger' = Append(ledger, e) \/ ledger' = ledger)
      BY <1>9, <2>0, StageEvent DEF Accept
    <3>2. e.type = "accepted" /\ e.run = cpu.run
      BY <2>0, <3>1 DEF OfStage
    <3>3. \E what \in {"live-evaluator", "evaluator"} :
              ledger' = Append(ledger, Event("accepted", cpu.run, 0, what))
      BY <1>9, <2>0 DEF Accept, StageWrites
    <3>4. ledger' # ledger
      BY <1>0, <3>3
    <3>. QED BY <3>1, <3>2, <3>4
  <2>3. ASSUME NEW r \in Run PROVE GateOf(r)'
    <3>1. Events(r, "gate")' = Events(r, "gate")
      BY <1>0, <2>2, NotOfThis
    <3>2. CASE r = cpu.run
      <4>1. faults = 0 => ~Has(r, "accepted")
        BY <2>0, <3>2 DEF GateInv, GateOf
      <4>2. faults = 0 => AtMostOne(Events(r, "accepted"))'
        BY <1>0, <2>2, <4>1, OneKept DEF GateInv, GateOf
      <4>. QED BY <2>0, <2>1, <3>1, <3>2, <4>2 DEF GateInv, GateOf, AtMostOne, Has
    <3>3. CASE r # cpu.run
      <4>1. Events(r, "accepted")' = Events(r, "accepted")
        BY <1>0, <2>2, <3>3, NotOfThis
      <4>. QED BY <2>0, <2>1, <3>1, <3>3, <4>1 DEF GateInv, GateOf, AtMostOne, Has
    <3>. QED BY <3>2, <3>3
  <2>. QED BY <2>3 DEF GateInv
<1>10. CASE PassGate
  <2>0. cpu # Idle /\ cpu.at = "gate" /\ ~Has(cpu.run, "gate") /\ inv[cpu.run] = "deciding"
    BY <1>10 DEF PassGate, Idle, StretchInv
  <2>1. inv' = inv /\ faults' = faults
    BY <1>10 DEF PassGate, GoOn
  <2>2. PICK e \in Entry : ledger' = Append(ledger, e) /\ e.type = "gate" /\ e.run = cpu.run
    <3>1. PICK e \in Entry : OfStage(e) /\ (ledger' = Append(ledger, e) \/ ledger' = ledger)
      BY <1>10, <2>0, StageEvent DEF PassGate
    <3>2. e.type = "gate" /\ e.run = cpu.run
      BY <2>0, <3>1 DEF OfStage
    <3>3. ledger' = Append(ledger, Event("gate", cpu.run, snapshot[cpu.run], "passed"))
      BY <1>10, <2>0 DEF PassGate, StageWrites
    <3>4. ledger' # ledger
      BY <1>0, <3>3
    <3>. QED BY <3>1, <3>2, <3>4
  <2>3. ASSUME NEW r \in Run PROVE GateOf(r)'
    <3>1. Events(r, "accepted")' = Events(r, "accepted")
      BY <1>0, <2>2, NotOfThis
    <3>2. AtMostOne(Events(r, "gate"))'
      BY <1>0, <2>0, <2>2, OneKept DEF GateInv, GateOf
    <3>3. CASE r = cpu.run
      <4>1. Has(r, "gate")'
        BY <1>0, <2>2, <3>3, Appended DEF Has
      <4>. QED BY <2>0, <2>1, <3>1, <3>2, <3>3, <4>1 DEF GateInv, GateOf, AtMostOne
    <3>4. CASE r # cpu.run
      <4>1. Events(r, "gate")' = Events(r, "gate")
        BY <1>0, <2>2, <3>4, NotOfThis
      <4>. QED BY <2>0, <2>1, <3>1, <3>2, <3>4, <4>1 DEF GateInv, GateOf, AtMostOne, Has
    <3>. QED BY <3>3, <3>4
  <2>. QED BY <2>3 DEF GateInv
<1>12. CASE Refused
  <2>0. /\ cpu # Idle /\ faults' # 0
        /\ inv' = inv \/ inv' = [inv EXCEPT ![cpu.run] = "none"]
        /\ cpu.from = "investigate" => inv' = [inv EXCEPT ![cpu.run] = "none"]
    BY <1>0, <1>12 DEF Refused, End
  <2>1. /\ inv \in [Run -> {"none", "freezing", "freezing_again", "reading", "deciding"}]
        /\ cpu.run \in Run
    BY <2>0, StageTyped DEF TypeInv
  <2>2. \A r \in Run : inv'[r] \in {"freezing", "reading"} => inv[r] \in {"freezing", "reading"}
    BY <2>0, <2>1
  <2>3. CASE ledger' = ledger
    <3>1. \A r : Events(r, "accepted")' = Events(r, "accepted") /\ Events(r, "gate")' = Events(r, "gate")
      BY <2>3 DEF Events
    <3>. QED BY <2>0, <2>2, <3>1, GateStays
  <2>4. CASE ledger' # ledger
    <3>1. PICK e \in Entry : OfStage(e) /\ ledger' = Append(ledger, e)
      BY <1>12, <2>0, <2>4, StageEvent DEF Refused
    <3>2. Owed(e) /\ e.run = cpu.run
      BY <2>0, <3>1, StageOwed DEF OfStage
    <3>3. ASSUME NEW r \in Run PROVE GateOf(r)'
      <4>1. AtMostOne(Events(r, "gate"))'
        <5>1. e.type = "gate" /\ e.run = r => ~Has(r, "gate")
          BY <3>2 DEF Owed
        <5>. QED BY <1>0, <3>1, <5>1, OneKept DEF GateInv, GateOf
      <4>2. ASSUME inv'[r] \in {"freezing", "reading"} PROVE ~Has(r, "gate")'
        <5>1. CASE e.type = "gate" /\ e.run = r
          <6>1. cpu.at = "gate" /\ r = cpu.run
            BY <3>1, <5>1 DEF OfStage
          <6>2. cpu.from = "investigate"
            BY <2>0, <6>1 DEF StretchInv
          <6>. QED BY <2>0, <2>1, <4>2, <6>1, <6>2
        <5>2. CASE e.type # "gate" \/ e.run # r
          <6>1. Events(r, "gate")' = Events(r, "gate")
            BY <1>0, <3>1, <5>2, NotOfThis
          <6>2. ~Has(r, "gate")
            BY <2>2, <4>2 DEF GateInv, GateOf
          <6>. QED BY <6>1, <6>2 DEF Has
        <5>. QED BY <5>1, <5>2
      <4>. QED BY <2>0, <4>1, <4>2 DEF GateOf
    <3>. QED BY <3>3 DEF GateInv
  <2>. QED BY <2>3, <2>4
<1>11. CASE ~Accept /\ ~PassGate /\ ~Refused /\ ~\E r \in Run : Investigate(r)
  <2>1. \A r : Events(r, "accepted")' = Events(r, "accepted") /\ Events(r, "gate")' = Events(r, "gate")
    BY <1>11, Beside
  <2>2. \A r \in Run : inv'[r] \in {"freezing", "reading"} => inv[r] \in {"freezing", "reading"}
    <3>1. CASE \/ Preflight \/ ApplyCase \/ StartRun \/ Reset \/ Approve \/ Tick \/ UNCHANGED vars
               \/ (\E kind \in LockKinds : LockArrives(kind)) \/ (\E v \in verifying : Verified(v))
               \/ \E r \in Run : Restore(r) \/ RollbackFails(r) \/ Verify(r) \/ Executed(r)
      BY <3>1 DEF Preflight, ApplyCase, StartRun, Reset, Approve, Tick, vars, memory, LockArrives,
                  Verified, Restore, RollbackFails, Verify, Executed
    <3>2. CASE Crash
      BY <3>2 DEF Crash
    <3>3. CASE \E r \in Run : Freeze(r) \/ Confirm(r) \/ NotConfirmed(r)
      BY <3>3 DEF Freeze, Confirm, NotConfirmed, TypeInv
    <3>4. CASE \/ Classify \/ Check \/ Decide \/ Propose \/ RequestApproval \/ ReadLocks \/ Claim
               \/ Attempt
      <4>1. inv' = inv \/ inv' = [inv EXCEPT ![cpu.run] = "none"]
        <5>1. CASE Classify \/ Propose
          BY <5>1 DEF Classify, Propose, GoOn
        <5>2. CASE Check \/ Decide
          BY <5>2 DEF Check, Decide, GoOn, End
        <5>3. CASE RequestApproval \/ ReadLocks
          BY <5>3 DEF RequestApproval, ReadLocks, GoOn, End
        <5>4. CASE Claim \/ Attempt
          BY <5>4 DEF Claim, Attempt, GoOn, End
        <5>. QED BY <3>4, <5>1, <5>2, <5>3, <5>4
      <4>. QED BY <4>1 DEF TypeInv
    <3>. QED BY <1>11, <3>1, <3>2, <3>3, <3>4 DEF Next
  <2>3. faults' = 0 => faults = 0 /\ (cpu.at = "gate" => cpu' = cpu)
    <3>1. CASE Crash
      <4>1. faults' = faults + 1
        BY <3>1 DEF Crash
      <4>. QED BY <1>0, <4>1
    <3>2. CASE ~Crash
      <4>1. faults' = faults
        BY <1>11, <3>2 DEF Next, Preflight, ApplyCase, StartRun, Reset, Approve, Tick, vars,
              LockArrives, Verified, Restore, RollbackFails, Verify, Executed, Freeze, Confirm,
              NotConfirmed, Classify, Check, Decide, Propose, RequestApproval, ReadLocks, Claim,
              Attempt
      <4>2. cpu.at = "gate" => cpu' = cpu
        BY <1>0, <1>11, <3>2 DEF Next, Preflight, ApplyCase, StartRun, Reset, Approve, Tick, vars,
              memory, LockArrives, Verified, Restore, RollbackFails, Verify, Executed, Freeze,
              Confirm, NotConfirmed, Classify, Check, Decide, Propose, RequestApproval, ReadLocks,
              Claim, Attempt
      <4>. QED BY <4>1, <4>2
    <3>. QED BY <3>1, <3>2
  <2>. QED BY <2>1, <2>2, <2>3, GateStays
<1>. QED BY <1>5, <1>9, <1>10, <1>11, <1>12

-----------------------------------------------------------------------------
(* The stretch in progress.                                                   *)

(* No step loses an event or changes it.                                      *)
LEMMA Remains ==
    ASSUME TypeInv, ChainInv, GateInv, StretchInv, LockInv, [Next]_vars,
           NEW r, NEW type, NEW i \in Events(r, type)
    PROVE  i \in Events(r, type)' /\ ledger'[i] = ledger[i]
<1>1. ledger' = ledger \/ \E e \in Entry : ledger' = Append(ledger, e)
  BY LedgerStep DEF Ledgers
<1>. QED BY <1>1, Grows DEF TypeInv

(* Between two steps of a stretch nothing it relies on is lost.               *)
LEMMA Lasts ==
    ASSUME TypeInv, ChainInv, GateInv, StretchInv, LockInv, [Next]_vars, ~Accept, ~PassGate,
           ~Refused, snapshot' = snapshot, now' = now
    PROVE  /\ \A r : Supported(r) => Supported(r)'
           /\ \A r, type, snap : (\E i \in Events(r, type) : ledger[i].snap = snap)
                   => \E i \in Events(r, type)' : ledger'[i].snap = snap
           /\ \A r, snap :
                 (\E d \in Events(r, "decision") :
                      ledger[d].snap = snap /\ ledger[d].what = "human_review_required")
                 => \E d \in Events(r, "decision")' :
                      ledger'[d].snap = snap /\ ledger'[d].what = "human_review_required"
<1>1. ledger' = ledger \/ \E e \in Entry : ledger' = Append(ledger, e)
  BY LedgerStep DEF Ledgers
<1>2. /\ \A r, type : Events(r, type) \subseteq Events(r, type)'
      /\ \A i \in DOMAIN ledger : ledger'[i] = ledger[i]
      /\ \A r, type : Events(r, type) \subseteq DOMAIN ledger
  BY <1>1, Grows DEF TypeInv
<1>3. \A r, type : \A i \in Events(r, type) : i \in Events(r, type)' /\ ledger'[i] = ledger[i]
  BY <1>2
<1>4. ASSUME NEW r, Supported(r) PROVE Supported(r)'
  <2>1. Events(r, "accepted")' = Events(r, "accepted") /\ Events(r, "gate")' = Events(r, "gate")
    BY Beside
  <2>2. \A i \in Events(r, "accepted") \cup Events(r, "gate") : ledger'[i] = ledger[i]
    BY <1>3
  <2>. QED BY <1>4, <2>1, <2>2, SupportedKept
<1>. QED BY <1>3, <1>4

(* A step beside the stretch keeps what the stretch relies on.                *)
LEMMA StretchStays ==
    ASSUME TypeInv, ChainInv, GateInv, StretchInv, LockInv, [Next]_vars,
           cpu' = cpu, cpu # Idle, ~Accept, ~PassGate,
           snapshot' = snapshot, now' = now, inv' = inv
    PROVE  StretchInv'
<1>0. ~Refused
  BY DEF Refused, End
<1>1. ~Has(cpu.run, "gate") => ~Has(cpu.run, "gate")'
  BY <1>0, Beside DEF Has
<1>2. Supported(cpu.run) => Supported(cpu.run)'
  BY <1>0, Lasts
<1>3. ASSUME NEW type, There(type) PROVE There(type)'
  <2>1. PICK r : r = cpu.run
    OBVIOUS
  <2>2. PICK snap : snap = snapshot[r]
    OBVIOUS
  <2>3. \E i \in Events(r, type)' : ledger'[i].snap = snap
    <3>1. PICK i \in Events(r, type) : ledger[i].snap = snap
      BY <1>3, <2>1, <2>2 DEF There
    <3>2. i \in Events(r, type)' /\ ledger'[i] = ledger[i]
      BY Remains
    <3>. QED BY <3>1, <3>2
  <2>. QED BY <2>1, <2>2, <2>3 DEF There
<1>4. (\E d \in Events(cpu.run, "decision") :
           ledger[d].snap = snapshot[cpu.run] /\ ledger[d].what = "human_review_required")
      => \E d \in Events(cpu.run, "decision")' :
           ledger'[d].snap = snapshot[cpu.run] /\ ledger'[d].what = "human_review_required"
  BY <1>0, Lasts
<1>. QED BY <1>1, <1>2, <1>3, <1>4 DEF StretchInv

(* The event of a stretch is there once it is written.                        *)
LEMMA Written ==
    ASSUME TypeInv, NEW r \in Run, NEW type \in Types, NEW what \in Whats,
           \/ AppendIfAbsent(Event(type, r, snapshot[r], what))
           \/ ledger' = Append(ledger, Event(type, r, snapshot[r], what))
    PROVE  \E i \in Events(r, type)' : ledger'[i].snap = snapshot[r] /\ ledger'[i].what = what
<1>. DEFINE e == Event(type, r, snapshot[r], what)
<1>1. r \in Nat /\ snapshot[r] \in Nat /\ now \in Nat /\ ledger \in Seq(Entry)
  BY DEF TypeInv, Run
<1>2. e \in Entry
  BY <1>1, EventTyped
<1>3. e.type = type /\ e.run = r /\ e.snap = snapshot[r] /\ e.what = what
  BY DEF Event
<1>6. AppendIfAbsent(e) \/ ledger' = Append(ledger, e)
  OBVIOUS
<1>. HIDE DEF e
<1>4. CASE ledger' = Append(ledger, e)
  <2>1. Events(r, type)' = Events(r, type) \cup
            (IF e.type = type /\ e.run = r THEN {Len(ledger) + 1} ELSE {})
    BY <1>1, <1>2, <1>4, Appended
  <2>2. ledger'[Len(ledger) + 1] = e
    BY <1>1, <1>2, <1>4, Appended
  <2>3. Len(ledger) + 1 \in Events(r, type)'
    BY <1>3, <2>1
  <2>. QED BY <1>3, <2>2, <2>3
<1>5. CASE /\ ledger' = ledger
           /\ \E i \in Events(e.run, e.type) : ledger[i].snap = e.snap /\ ledger[i].what = e.what
  <2>1. PICK i \in Events(r, type) : ledger[i].snap = e.snap /\ ledger[i].what = e.what
    BY <1>3, <1>5
  <2>2. Events(r, type)' = Events(r, type)
    BY <1>5 DEF Events
  <2>. QED BY <1>3, <1>5, <2>1, <2>2
<1>. QED BY <1>1, <1>2, <1>4, <1>5, <1>6, Absent

(* Every step keeps what the stretch in progress relies on.                   *)
LEMMA StretchStep ==
    ASSUME TypeInv, ChainInv, GateInv, StretchInv, LockInv, [Next]_vars
    PROVE  StretchInv'
<1>0. ledger \in Seq(Entry) /\ Idle.at = "idle"
  BY DEF TypeInv, Idle
<1>1. CASE cpu' = Idle
  BY <1>1 DEF StretchInv
<1>5. ASSUME NEW r \in Run, Investigate(r), cpu' # Idle PROVE StretchInv'
  BY <1>5 DEF Investigate, Stretch, StretchInv, PastCheck, TypeInv
<1>6. ASSUME NEW r \in Run, Freeze(r), cpu' # Idle PROVE StretchInv'
  BY <1>6 DEF Freeze, Stretch, StretchInv, PastCheck, TypeInv
<1>7. ASSUME NEW r \in Run, Confirm(r) PROVE StretchInv'
  <2>1. ~Has(r, "gate") /\ ledger' = ledger
    BY <1>7 DEF Confirm, GateInv, GateOf
  <2>2. ~Has(r, "gate")'
    BY <2>1 DEF Has, Events
  <2>. QED BY <1>7, <2>2 DEF Confirm, Stretch, StretchInv, PastCheck, TypeInv
<1>9. CASE Accept
  <2>0. cpu # Idle /\ cpu.at = "accept" /\ ~Has(cpu.run, "gate")
        /\ cpu.from = "investigate" /\ inv[cpu.run] = "deciding"
    BY <1>9 DEF Accept, Idle, StretchInv
  <2>1. cpu'.at = "gate" /\ cpu'.run = cpu.run /\ cpu'.from = cpu.from /\ inv' = inv
    BY <1>9, <2>0, StageTyped DEF Accept, Stages
  <2>3. ~Has(cpu.run, "gate")'
    <3>1. PICK e \in Entry : OfStage(e) /\ (ledger' = Append(ledger, e) \/ ledger' = ledger)
      BY <1>9, <2>0, StageEvent DEF Accept
    <3>2. e.type = "accepted"
      BY <2>0, <3>1 DEF OfStage
    <3>3. PICK r : r = cpu.run
      OBVIOUS
    <3>4. Events(r, "gate")' = Events(r, "gate")
      <4>1. CASE ledger' = ledger
        BY <4>1 DEF Events
      <4>2. CASE ledger' = Append(ledger, e)
        BY <1>0, <3>2, <4>2, NotOfThis
      <4>. QED BY <3>1, <4>1, <4>2
    <3>. QED BY <2>0, <2>1, <3>3, <3>4 DEF Has
  <2>. QED BY <2>0, <2>1, <2>3 DEF StretchInv, PastCheck
<1>10. CASE PassGate \/ Classify
  <2>0. cpu # Idle /\ cpu.at \in {"gate", "classify"}
        /\ cpu.from = "investigate" /\ inv[cpu.run] = "deciding"
    BY <1>10 DEF PassGate, Classify, Idle, StretchInv
  <2>1. cpu'.at \in {"classify", "check"} /\ cpu'.run = cpu.run /\ cpu'.from = cpu.from /\ inv' = inv
    <3>1. inv' = inv /\ \E at \in {"classify", "check"} : cpu' = [cpu EXCEPT !.at = at]
      BY <1>10 DEF PassGate, Classify, GoOn
    <3>2. cpu \in Stretches
      BY <2>0, StageTyped
    <3>. QED BY <3>1, <3>2 DEF Stretches
  <2>. QED BY <2>0, <2>1 DEF StretchInv, PastCheck
<1>11. CASE \/ Check \/ Decide \/ Propose \/ RequestApproval \/ ReadLocks \/ Claim
  <2>. SUFFICES ASSUME cpu' # Idle PROVE StretchInv'
    BY <1>1
  <2>0. cpu # Idle /\ cpu.at \notin {"accept", "gate"}
    <3>1. cpu.at \in {"check", "human_review_required", "non_actionable", "propose", "request",
                      "locks", "claim"}
      BY <1>11 DEF Check, Decide, Propose, RequestApproval, ReadLocks, Claim
    <3>. QED BY <1>0, <3>1
  <2>1. ~Accept /\ ~PassGate /\ ~Refused
    BY <2>0 DEF Accept, PassGate, Refused, End
  <2>2. snapshot' = snapshot /\ now' = now
    BY <1>11 DEF Check, Decide, Propose, RequestApproval, ReadLocks, Claim, StretchKeeps
  <2>3. inv' = inv /\ \E at \in PastCheck, seen \in Nat : cpu' = [cpu EXCEPT !.at = at, !.seen = seen]
    <3>0. \A at \in PastCheck : cpu' = [cpu EXCEPT !.at = at] =>
              \E to \in PastCheck, seen \in Nat : cpu' = [cpu EXCEPT !.at = to, !.seen = seen]
      <4>1. cpu \in Stretches /\ cpu.seen \in Nat
        BY <2>0, StageTyped DEF Stretches
      <4>2. ASSUME NEW at \in PastCheck, cpu' = [cpu EXCEPT !.at = at]
            PROVE  cpu' = [cpu EXCEPT !.at = at, !.seen = cpu.seen]
        BY <4>1, <4>2 DEF Stretches
      <4>. QED BY <4>1, <4>2
    <3>1. CASE Check
      <4>1. inv' = inv /\ cpu' = [cpu EXCEPT !.at = Decision(cpu.run).what]
        BY <3>1 DEF Check, End
      <4>2. Decision(cpu.run).what \in PastCheck
        BY DEF Decision, Event, PastCheck
      <4>3. PICK at \in PastCheck : at = Decision(cpu.run).what
        BY <4>2
      <4>. QED BY <3>0, <4>1, <4>3
    <3>2. CASE Decide
      <4>1. inv' = inv /\ cpu' = [cpu EXCEPT !.at = "propose"]
        BY <3>2 DEF Decide, GoOn, End
      <4>. QED BY <3>0, <4>1 DEF PastCheck
    <3>3. CASE Propose
      <4>1. inv' = inv /\ cpu' = [cpu EXCEPT !.at = "request"]
        BY <3>3 DEF Propose, GoOn, End
      <4>. QED BY <3>0, <4>1 DEF PastCheck
    <3>4. CASE RequestApproval
      <4>1. inv' = inv /\ cpu' = [cpu EXCEPT !.at = "locks"]
        BY <3>4 DEF RequestApproval, GoOn, End
      <4>. QED BY <3>0, <4>1 DEF PastCheck
    <3>5. CASE ReadLocks
      <4>1. inv' = inv /\ \E last \in Locks \cup {0} : cpu' = [cpu EXCEPT !.at = "claim", !.seen = last]
        BY <3>5 DEF ReadLocks, End
      <4>2. Locks \subseteq Nat
        BY <1>0 DEF Locks
      <4>. QED BY <4>1, <4>2 DEF PastCheck
    <3>6. CASE Claim
      <4>1. inv' = inv /\ cpu' = [cpu EXCEPT !.at = "attempt"]
        BY <3>6 DEF Claim, GoOn, End
      <4>. QED BY <3>0, <4>1 DEF PastCheck
    <3>. QED BY <1>11, <3>1, <3>2, <3>3, <3>4, <3>5, <3>6
  <2>a. PICK r \in Run : r = cpu.run
    BY <2>0, StageTyped
  <2>4. cpu'.run = r /\ cpu'.from = cpu.from /\ cpu'.at \in PastCheck
    BY <2>0, <2>3, <2>a, StageTyped DEF Stretches
  <2>5. cpu.from = "investigate" => inv'[cpu.run] = "deciding"
    BY <2>0, <2>3 DEF StretchInv
  <2>6. Supported(r)'
    <3>1. Supported(r)
      <4>1. CASE Check
        BY <2>a, <4>1 DEF Check, End
      <4>2. CASE ~Check
        BY <1>11, <2>0, <2>a, <4>2 DEF Decide, Propose, RequestApproval, ReadLocks, Claim, StretchInv,
                                 PastCheck
      <4>. QED BY <4>1, <4>2
    <3>2. \A s : Supported(s) => Supported(s)'
      BY <2>1, <2>2, Lasts
    <3>. QED BY <3>1, <3>2
  <2>7. CASE Check
    <3>1. cpu'.at \in {"human_review_required", "non_actionable"}
      <4>1. cpu' = [cpu EXCEPT !.at = Decision(cpu.run).what]
        BY <2>7 DEF Check, End
      <4>2. Decision(cpu.run).what \in {"human_review_required", "non_actionable"}
        BY DEF Decision, Event
      <4>. QED BY <2>0, <4>1, <4>2, StageTyped DEF Stretches
    <3>. QED BY <2>a, <2>4, <2>5, <2>6, <3>1 DEF StretchInv
  <2>8. CASE Decide
    <3>1. cpu.at = "human_review_required" /\ cpu'.at = "propose"
      BY <2>0, <2>8, StageTyped DEF Decide, GoOn, End, Stretches
    <3>2. \E d \in Events(r, "decision")' :
              ledger'[d].snap = snapshot[r] /\ ledger'[d].what = "human_review_required"
      <4>1. "decision" \in Types /\ "human_review_required" \in Whats
        BY DEF Types, AuthorityTypes, Whats
      <4>2. AppendIfAbsent(Event("decision", r, snapshot[r], "human_review_required"))
        BY <2>a, <2>8, <3>1 DEF Decide, StageWrites
      <4>. QED BY <4>1, <4>2, Written
    <3>. QED BY <2>2, <2>a, <2>4, <2>5, <2>6, <3>1, <3>2 DEF StretchInv
  <2>9. CASE Propose
    <3>1. cpu'.at = "request"
      BY <2>0, <2>9, StageTyped DEF Propose, GoOn, Stretches
    <3>2. \E i \in Events(r, "proposal")' : ledger'[i].snap = snapshot[r]
      <4>1. "proposal" \in Types /\ "owner_gate" \in Whats
        BY DEF Types, AuthorityTypes, Whats
      <4>2. AppendIfAbsent(Event("proposal", r, snapshot[r], "owner_gate"))
        BY <2>a, <2>9 DEF Propose, StageWrites
      <4>. QED BY <4>1, <4>2, Written
    <3>. QED BY <2>2, <2>a, <2>4, <2>5, <2>6, <3>1, <3>2 DEF StretchInv, There
  <2>10. CASE RequestApproval
    <3>1. cpu'.at = "locks"
      BY <2>0, <2>10, StageTyped DEF RequestApproval, GoOn, End, Stretches
    <3>2. \E i \in Events(r, "request")' : ledger'[i].snap = snapshot[r]
      <4>1. "request" \in Types /\ "owner_gate" \in Whats
        BY DEF Types, AuthorityTypes, Whats
      <4>2. AppendIfAbsent(Event("request", r, snapshot[r], "owner_gate"))
        BY <2>a, <2>10 DEF RequestApproval, StageWrites
      <4>. QED BY <4>1, <4>2, Written
    <3>. QED BY <2>2, <2>a, <2>4, <2>5, <2>6, <3>1, <3>2 DEF StretchInv, There
  <2>11. CASE ReadLocks
    <3>1. cpu'.at = "claim" /\ cpu.at = "locks"
      BY <2>0, <2>11, StageTyped DEF ReadLocks, End, Stretches
    <3>2. \E i \in Events(r, "request")' : ledger'[i].snap = snapshot[r]
      <4>1. \A s, type, snap : (\E i \in Events(s, type) : ledger[i].snap = snap)
                   => \E i \in Events(s, type)' : ledger'[i].snap = snap
        BY <2>1, <2>2, Lasts
      <4>2. \E i \in Events(r, "request") : ledger[i].snap = snapshot[r]
        BY <2>0, <2>a, <3>1 DEF StretchInv, There
      <4>. QED BY <4>1, <4>2
    <3>. QED BY <2>2, <2>a, <2>4, <2>5, <2>6, <3>1, <3>2 DEF StretchInv, There
  <2>12. CASE Claim
    <3>1. cpu'.at = "attempt"
          /\ ledger' = Append(ledger, Event("approval", r, snapshot[r], "owner"))
      BY <2>0, <2>12, <2>a, StageTyped DEF Claim, GoOn, End, StageWrites, Stretches
    <3>2. \E i \in Events(r, "approval")' : ledger'[i].snap = snapshot[r]
      <4>1. "approval" \in Types /\ "owner" \in Whats
        BY DEF Types, AuthorityTypes, Whats
      <4>2. \/ AppendIfAbsent(Event("approval", r, snapshot[r], "owner"))
            \/ ledger' = Append(ledger, Event("approval", r, snapshot[r], "owner"))
        BY <3>1
      <4>3. \E i \in Events(r, "approval")' : ledger'[i].snap = snapshot[r] /\ ledger'[i].what = "owner"
        BY <4>1, <4>2, Written
      <4>. QED BY <4>3
    <3>. QED BY <2>2, <2>a, <2>4, <2>5, <2>6, <3>1, <3>2 DEF StretchInv, There
  <2>. QED BY <1>11, <2>7, <2>8, <2>9, <2>10, <2>11, <2>12
<1>12. CASE Attempt \/ Refused \/ Crash
  <2>1. cpu' = Idle
    BY <1>12 DEF Attempt, Refused, Crash, End
  <2>. QED BY <1>1, <2>1
<1>13. CASE Approve
  BY <1>13 DEF Approve, Stretch, StretchInv, PastCheck
<1>14. CASE \/ (\E r \in Run : Restore(r)) \/ (\E kind \in LockKinds : LockArrives(kind))
            \/ UNCHANGED vars
  <2>1. /\ cpu' = cpu /\ snapshot' = snapshot /\ now' = now /\ inv' = inv
    BY <1>14 DEF Restore, LockArrives, vars, memory
  <2>2. CASE cpu = Idle
    BY <1>1, <2>1, <2>2
  <2>3. CASE cpu # Idle /\ ~Accept /\ ~PassGate
    BY <2>1, <2>3, StretchStays
  <2>4. CASE Accept \/ PassGate
    BY <1>9, <1>10, <2>4
  <2>. QED BY <2>2, <2>3, <2>4
<1>15. CASE \/ Preflight \/ ApplyCase \/ StartRun \/ Reset \/ Tick \/ (\E v \in verifying : Verified(v))
            \/ \E r \in Run : NotConfirmed(r) \/ Executed(r) \/ RollbackFails(r) \/ Verify(r)
  <2>1. cpu' = Idle
    BY <1>15 DEF Preflight, ApplyCase, StartRun, Reset, Tick, memory, Verified, NotConfirmed, Executed,
                 RollbackFails, Verify
  <2>. QED BY <1>1, <2>1
<1>. QED
  BY <1>1, <1>5, <1>6, <1>7, <1>9, <1>10, <1>11, <1>12, <1>13, <1>14, <1>15 DEF Next

-----------------------------------------------------------------------------
(* The locks.                                                                 *)

(* No step writes an approval past a lock that stops it.                      *)
LEMMA LockStopsStep ==
    ASSUME TypeInv, ChainInv, GateInv, StretchInv, LockInv, [Next]_vars
    PROVE  LockStops'
<1>0. ledger \in Seq(Entry) /\ LockStops
  BY DEF TypeInv, LockInv
<1>1. CASE ledger' = ledger
  BY <1>0, <1>1 DEF LockStops, Locks
<1>2. ASSUME NEW e \in Entry, Ledgers(e) PROVE LockStops'
  <2>. DEFINE n == Len(ledger) + 1
  <2>1. ledger' = Append(ledger, e) /\ May(e)
    BY <1>2 DEF Ledgers
  <2>2. /\ DOMAIN ledger' = DOMAIN ledger \cup {n} /\ ledger'[n] = e
        /\ \A i \in DOMAIN ledger : i < n /\ ledger'[i] = ledger[i]
        /\ Locks' = Locks \cup (IF e.type = "lock" THEN {n} ELSE {})
        /\ Locks \subseteq DOMAIN ledger
    BY <1>0, <2>1, Appended DEF Locks
  <2>. HIDE DEF n
  <2>3. SUFFICES ASSUME NEW i \in Locks', NEW k \in DOMAIN ledger', ledger'[k].type = "approval",
                        ledger'[i].what \in {"exact", "malformed"}
                 PROVE  k < i
    BY DEF LockStops
  <2>4. CASE k = n
    <3>1. e.type = "approval" /\ i \in Locks /\ ledger'[i] = ledger[i]
      BY <2>2, <2>3, <2>4
    <3>2. ledger[i].what \notin {"exact", "malformed"}
      BY <2>1, <3>1 DEF May, Owed
    <3>. QED BY <2>3, <3>1, <3>2
  <2>5. CASE k # n
    <3>1. k \in DOMAIN ledger /\ ledger[k].type = "approval" /\ k < n
      BY <2>2, <2>3, <2>5
    <3>2. CASE i = n
      BY <3>1, <3>2
    <3>3. CASE i # n
      <4>1. i \in Locks /\ ledger'[i] = ledger[i]
        BY <2>2, <3>3
      <4>. QED BY <1>0, <2>3, <3>1, <4>1 DEF LockStops
    <3>. QED BY <3>2, <3>3
  <2>. QED BY <2>4, <2>5
<1>. QED BY <1>1, <1>2, LedgerStep

(* Every step keeps the locks read before a claim harmless.                   *)
LEMMA LockStep ==
    ASSUME TypeInv, ChainInv, GateInv, StretchInv, LockInv, [Next]_vars
    PROVE  LockInv'
<1>0. ledger \in Seq(Entry) /\ Idle.at = "idle"
  BY DEF TypeInv, Idle
<1>. DEFINE Harmless == /\ cpu.seen <= Len(ledger)
                        /\ \A i \in Locks : i <= cpu.seen => ledger[i].what \notin {"exact", "malformed"}
<1>1. SUFFICES ASSUME cpu'.at = "claim" PROVE Harmless'
  BY LockStopsStep DEF LockInv
<1>2. CASE ReadLocks
  <2>0. cpu # Idle
    BY <1>0, <1>2 DEF ReadLocks
  <2>1. LocksClear /\ ledger' = ledger
    BY <1>0, <1>1, <1>2 DEF ReadLocks, End
  <2>2. PICK last \in Locks \cup {0} : cpu' = [cpu EXCEPT !.at = "claim", !.seen = last]
    BY <1>2, <2>1 DEF ReadLocks
  <2>3. cpu'.seen = last
    BY <2>0, <2>2, StageTyped DEF Stretches
  <2>4. last <= Len(ledger)
    BY <1>0, <2>2 DEF Locks
  <2>5. \A i \in Locks : ledger[i].what \notin {"exact", "malformed"}
    BY <2>1 DEF LocksClear
  <2>6. Locks' = Locks
    BY <2>1 DEF Locks
  <2>. QED BY <2>1, <2>3, <2>4, <2>5, <2>6
<1>3. CASE cpu' = cpu
  <2>0. Harmless /\ cpu.seen \in Nat /\ cpu.seen <= Len(ledger)
    <3>1. cpu.at = "claim" /\ cpu # Idle
      BY <1>0, <1>1, <1>3
    <3>2. Harmless
      BY <3>1 DEF LockInv
    <3>. QED BY <3>1, <3>2, StageTyped DEF Stretches
  <2>1. CASE ledger' = ledger
    <3>1. Locks' = Locks
      BY <2>1 DEF Locks
    <3>. QED BY <1>3, <2>0, <2>1, <3>1
  <2>2. ASSUME NEW e \in Entry, ledger' = Append(ledger, e) PROVE Harmless'
    <3>1. /\ Len(ledger') = Len(ledger) + 1
          /\ Locks' = Locks \cup (IF e.type = "lock" THEN {Len(ledger) + 1} ELSE {})
      BY <1>0, <2>2, Appended
    <3>2. \A i \in DOMAIN ledger : ledger'[i] = ledger[i]
      BY <1>0, <2>2, Appended
    <3>3. Len(ledger) \in Nat
      BY <1>0
    <3>4. ASSUME NEW i \in Locks', i <= cpu'.seen PROVE ledger'[i].what \notin {"exact", "malformed"}
      <4>1. i # Len(ledger) + 1
        BY <1>3, <2>0, <3>3, <3>4
      <4>2. i \in Locks
        BY <3>1, <4>1
      <4>3. i \in DOMAIN ledger /\ i <= cpu.seen
        BY <1>3, <3>4, <4>2 DEF Locks
      <4>. QED BY <2>0, <3>2, <4>2, <4>3
    <3>. QED BY <1>3, <2>0, <3>1, <3>3, <3>4
  <2>. QED BY <2>1, <2>2, LedgerStep DEF Ledgers
<1>4. CASE cpu' # cpu
  <2>. SUFFICES ASSUME ~ReadLocks PROVE FALSE
    BY <1>2
  <2>1. CASE cpu' = Idle
    BY <1>0, <1>1, <2>1
  <2>2. CASE \E r \in Run : Investigate(r) \/ Freeze(r) \/ Confirm(r)
    BY <1>1, <1>4, <2>2 DEF Investigate, Freeze, Confirm, Stretch
  <2>3. CASE Approve
    BY <1>1, <2>3 DEF Approve, Stretch
  <2>4. CASE Accept \/ PassGate \/ Classify \/ Check \/ Decide \/ Propose \/ RequestApproval \/ Claim
    <3>0. cpu \in Stretches
      <4>1. cpu # Idle
        BY <1>0, <2>4 DEF Accept, PassGate, Classify, Check, Decide, Propose, RequestApproval, Claim
      <4>. QED BY <4>1, StageTyped
    <3>1. Decision(cpu.run).what \in {"human_review_required", "non_actionable"}
      BY DEF Decision, Event
    <3>2. CASE cpu' # Idle
      <4>1. \E at \in {"gate", "classify", "check", "human_review_required", "non_actionable",
                       "propose", "request", "locks", "attempt"} : cpu' = [cpu EXCEPT !.at = at]
        <5>1. CASE Accept \/ PassGate \/ Classify
          BY <5>1 DEF Accept, PassGate, Classify, GoOn
        <5>2. CASE Check
          BY <3>1, <3>2, <5>2 DEF Check, End
        <5>3. CASE Decide \/ Propose
          BY <3>2, <5>3 DEF Decide, Propose, GoOn, End
        <5>4. CASE RequestApproval \/ Claim
          BY <3>2, <5>4 DEF RequestApproval, Claim, GoOn, End
        <5>. QED BY <2>4, <5>1, <5>2, <5>3, <5>4
      <4>. QED BY <1>1, <3>0, <4>1 DEF Stretches
    <3>. QED BY <2>1, <3>2
  <2>5. CASE Attempt \/ Refused \/ Crash
    BY <2>1, <2>5 DEF Attempt, Refused, Crash, End
  <2>6. CASE \/ Preflight \/ ApplyCase \/ StartRun \/ Reset \/ Tick
             \/ (\E v \in verifying : Verified(v)) \/ (\E kind \in LockKinds : LockArrives(kind))
             \/ UNCHANGED vars
             \/ \E r \in Run : NotConfirmed(r) \/ Executed(r) \/ RollbackFails(r) \/ Verify(r) \/ Restore(r)
    BY <1>4, <2>6 DEF Preflight, ApplyCase, StartRun, Reset, Tick, memory, vars, Verified,
                      LockArrives, NotConfirmed, Executed, RollbackFails, Verify, Restore
  <2>. QED BY <2>2, <2>3, <2>4, <2>5, <2>6 DEF Next
<1>. QED BY <1>3, <1>4

-----------------------------------------------------------------------------
(* The approval that was offered.                                             *)

(* What a step in the middle of an approval does.                             *)
LEMMA Midway ==
    ASSUME TypeInv, StretchInv, [Next]_vars, cpu # Idle, cpu.from = "approve", cpu' # Idle
    PROVE  /\ cpu'.run = cpu.run /\ cpu'.from = cpu.from /\ cpu'.offer = cpu.offer
           /\ snapshot' = snapshot /\ now' = now
           /\ ~Accept /\ ~PassGate /\ ~Refused
           /\ cpu' = cpu \/ (cpu'.at # "check" /\ cpu.at # "attempt")
           /\ cpu' # cpu /\ cpu'.at = "non_actionable" => FirstTouching("exact") /\ ledger' = ledger
           /\ \/ ledger' = ledger
              \/ \E e \in Entry : /\ ledger' = Append(ledger, e)
                                  /\ e.type # "attempt"
                                  /\ e.type = "approval" => cpu'.at = "attempt"
<1>0. /\ ledger \in Seq(Entry) /\ now \in Nat /\ cpu \in Stretches
      /\ cpu.at \notin {"accept", "gate", "classify", "idle"}
  BY StageTyped DEF TypeInv, StretchInv
<1>1. ~Accept /\ ~PassGate /\ ~Classify /\ ~Refused /\ ~Crash /\ ~Attempt
  BY <1>0 DEF Accept, PassGate, Classify, Refused, Crash, Attempt, End
<1>2. CASE Check
  <2>1. cpu' = [cpu EXCEPT !.at = Decision(cpu.run).what] /\ ledger' = ledger /\ cpu.at = "check"
    BY <1>2 DEF Check, End
  <2>2. /\ Decision(cpu.run).what \in {"human_review_required", "non_actionable"}
        /\ Decision(cpu.run).what = "non_actionable" => FirstTouching("exact")
    BY DEF Decision, Event
  <2>3. PICK at \in {"human_review_required", "non_actionable"} :
            at = Decision(cpu.run).what
    BY <2>2
  <2>4. cpu'.at = at /\ cpu'.run = cpu.run /\ cpu'.from = cpu.from /\ cpu'.offer = cpu.offer
    BY <1>0, <2>1, <2>3 DEF Stretches
  <2>. QED BY <1>1, <1>2, <2>1, <2>2, <2>3, <2>4 DEF Check, StretchKeeps
<1>3. CASE Decide \/ Propose \/ RequestApproval \/ Claim
  <2>1. StageWrites /\ \E at \in {"propose", "request", "locks", "attempt"} :
            GoOn(at) /\ (cpu.at = "claim" => at = "attempt")
    BY <1>0, <1>3 DEF Decide, Propose, RequestApproval, Claim, End
  <2>2. PICK at \in {"propose", "request", "locks", "attempt"} :
            GoOn(at) /\ (cpu.at = "claim" => at = "attempt")
    BY <2>1
  <2>3. cpu'.at = at /\ cpu'.run = cpu.run /\ cpu'.from = cpu.from /\ cpu'.offer = cpu.offer
    BY <1>0, <2>2 DEF GoOn, Stretches
  <2>4. PICK e \in Entry : OfStage(e) /\ (ledger' = Append(ledger, e) \/ ledger' = ledger)
    BY <2>1, StageEvent
  <2>5. cpu.at # "attempt"
    BY <1>3 DEF Decide, Propose, RequestApproval, Claim
  <2>6. e.type # "attempt" /\ (e.type = "approval" => cpu'.at = "attempt")
    BY <2>2, <2>3, <2>4, <2>5 DEF OfStage
  <2>7. snapshot' = snapshot /\ now' = now
    BY <1>3 DEF Decide, Propose, RequestApproval, Claim, StretchKeeps
  <2>. QED BY <1>1, <2>3, <2>4, <2>5, <2>6, <2>7
<1>4. CASE ReadLocks
  <2>1. ledger' = ledger /\ \E last \in Nat : cpu' = [cpu EXCEPT !.at = "claim", !.seen = last]
    <3>1. Locks \subseteq Nat
      BY <1>0 DEF Locks
    <3>. QED BY <1>4, <3>1 DEF ReadLocks, End
  <2>2. cpu'.at = "claim" /\ cpu'.run = cpu.run /\ cpu'.from = cpu.from /\ cpu'.offer = cpu.offer
    BY <1>0, <2>1 DEF Stretches
  <2>. QED BY <1>1, <1>4, <2>1, <2>2 DEF ReadLocks, StretchKeeps
<1>5. ASSUME NEW kind \in LockKinds, LockArrives(kind)
      PROVE  /\ cpu' = cpu /\ snapshot' = snapshot /\ now' = now
             /\ \E e \in Entry : ledger' = Append(ledger, e) /\ e.type = "lock"
  <2>1. Event("lock", 0, 0, kind) \in Entry /\ Event("lock", 0, 0, kind).type = "lock"
    BY <1>0, EventTyped DEF LockKinds, Types, Whats
  <2>. QED BY <1>5, <2>1 DEF LockArrives, memory
<1>6. CASE (\E r \in Run : Restore(r)) \/ UNCHANGED vars
  BY <1>1, <1>6 DEF Restore, vars, memory
<1>7. CASE \/ Preflight \/ ApplyCase \/ StartRun \/ Reset \/ Approve \/ Tick
           \/ (\E v \in verifying : Verified(v))
           \/ \E r \in Run : \/ Investigate(r) \/ Freeze(r) \/ Confirm(r) \/ NotConfirmed(r)
                             \/ Executed(r) \/ RollbackFails(r) \/ Verify(r)
  BY <1>7 DEF Preflight, ApplyCase, StartRun, Reset, Approve, Tick, Verified, Investigate, Freeze,
              Confirm, NotConfirmed, Executed, RollbackFails, Verify
<1>. QED BY <1>1, <1>2, <1>3, <1>4, <1>5, <1>6, <1>7 DEF Next

(* An approval begins with what the page's offer says.                        *)
LEMMA OfferBegins ==
    ASSUME TypeInv, Approve
    PROVE  OfferInv'
<1>. SUFFICES ASSUME cpu'.offer # 0 PROVE OfferInv'
  BY DEF OfferInv
<1>. PICK r : r = LatestRun
  OBVIOUS
<1>1. /\ cpu'.run = r /\ cpu'.at = "check" /\ Shown(r) = "waiting_for_owner"
      /\ cpu'.offer = Len(ledger) /\ ledger' = ledger /\ snapshot' = snapshot /\ now' = now
  BY DEF Approve, Stretch
<1>2. Canonical(r) /\ ~Has(r, "attempt") /\ ~Has(r, "approval")
  BY <1>1 DEF Shown
<1>3. Supported(r) /\ LocksClear
  BY <1>2 DEF Canonical
<1>4. \A s, type : Events(s, type)' = Events(s, type)
  BY <1>1 DEF Events
<1>5. Supported(r)'
  BY <1>1, <1>3, <1>4, SupportedKept
<1>6. Locks' = Locks /\ \A i \in Locks : ledger[i].what = "other"
  BY <1>1, <1>3 DEF Locks, LocksClear
<1>7. Len(ledger) \in Nat
  BY DEF TypeInv
<1>. QED BY <1>1, <1>2, <1>4, <1>5, <1>6, <1>7 DEF OfferInv, Has

(* Every step of an approval keeps what the offer says of it.                 *)
LEMMA OfferLasts ==
    ASSUME TypeInv, ChainInv, GateInv, StretchInv, LockInv, OfferInv, [Next]_vars,
           cpu # Idle, cpu.from = "approve", cpu.offer # 0, cpu' # Idle
    PROVE  OfferInv'
<1>r. PICK r : r = cpu.run
  OBVIOUS
<1>m. PICK m : m = cpu.offer
  OBVIOUS
<1>0. /\ ledger \in Seq(Entry) /\ m \in Nat /\ m <= Len(ledger) /\ Len(ledger) \in Nat
      /\ \A i \in Locks : i <= m => ledger[i].what = "other"
  BY <1>m, StageTyped DEF TypeInv, OfferInv, Stretches
<1>1. cpu'.run = r /\ cpu'.offer = m
  BY <1>r, <1>m, Midway
<1>2. /\ snapshot' = snapshot /\ now' = now /\ ~Accept /\ ~PassGate /\ ~Refused
      /\ cpu' = cpu \/ (cpu'.at # "check" /\ cpu.at # "attempt")
  BY Midway
<1>3. /\ m <= Len(ledger')
      /\ \A i \in Locks' : i <= m => ledger'[i].what = "other"
      /\ ~Has(r, "attempt")'
      /\ cpu'.at # "attempt" => ~Has(r, "approval")'
      /\ \A i \in Locks : i \in Locks' /\ ledger'[i] = ledger[i]
  <2>0. ~Has(r, "attempt") /\ (cpu'.at # "attempt" => ~Has(r, "approval"))
    BY <1>r, <1>2 DEF OfferInv
  <2>1. CASE ledger' = ledger
    BY <1>0, <2>0, <2>1 DEF Locks, Has, Events
  <2>2. ASSUME NEW e \in Entry, ledger' = Append(ledger, e), e.type # "attempt",
               e.type = "approval" => cpu'.at = "attempt"
        PROVE  /\ m <= Len(ledger')
               /\ \A i \in Locks' : i <= m => ledger'[i].what = "other"
               /\ ~Has(r, "attempt")'
               /\ cpu'.at # "attempt" => ~Has(r, "approval")'
               /\ \A i \in Locks : i \in Locks' /\ ledger'[i] = ledger[i]
    <3>1. /\ Len(ledger') = Len(ledger) + 1
          /\ \A i \in DOMAIN ledger : ledger'[i] = ledger[i]
          /\ Locks' = Locks \cup (IF e.type = "lock" THEN {Len(ledger) + 1} ELSE {})
          /\ Locks \subseteq DOMAIN ledger
      BY <1>0, <2>2, Appended DEF Locks
    <3>2. Events(r, "attempt")' = Events(r, "attempt")
      BY <1>0, <2>2, NotOfThis
    <3>3. cpu'.at # "attempt" => Events(r, "approval")' = Events(r, "approval")
      BY <1>0, <2>2, NotOfThis
    <3>4. \A i \in Locks' : i <= m => i \in Locks
      BY <1>0, <3>1
    <3>. QED BY <1>0, <2>0, <3>1, <3>2, <3>3, <3>4 DEF Has
  <2>3. \/ ledger' = ledger
        \/ \E e \in Entry : /\ ledger' = Append(ledger, e)
                            /\ e.type # "attempt"
                            /\ e.type = "approval" => cpu'.at = "attempt"
    BY Midway
  <2>. QED BY <2>1, <2>2, <2>3
<1>4. ASSUME cpu'.at = "check" PROVE Supported(r)'
  <2>1. Supported(r)
    BY <1>r, <1>2, <1>4 DEF OfferInv
  <2>2. \A s : Supported(s) => Supported(s)'
    BY <1>2, Lasts
  <2>. QED BY <2>1, <2>2
<1>5. ASSUME cpu'.at = "non_actionable"
      PROVE  \E i \in Locks' : i > m /\ ledger'[i].what # "other"
  <2>1. PICK i \in Locks : i > m /\ ledger[i].what # "other"
    <3>1. CASE cpu' = cpu
      BY <1>m, <1>5, <3>1 DEF OfferInv, Touched
    <3>2. CASE cpu' # cpu
      <4>1. FirstTouching("exact")
        BY <1>5, <3>2, Midway
      <4>2. PICK i \in Locks : ledger[i].what = "exact"
        BY <4>1 DEF FirstTouching
      <4>3. i \in Nat /\ ~(i <= m)
        BY <1>0, <4>2 DEF Locks
      <4>. QED BY <1>0, <4>2, <4>3
    <3>. QED BY <3>1, <3>2
  <2>. QED BY <1>3, <2>1
<1>. QED BY <1>1, <1>3, <1>4, <1>5 DEF OfferInv, Touched

(* Every step keeps what the offers say.                                      *)
LEMMA OfferStep ==
    ASSUME TypeInv, ChainInv, GateInv, StretchInv, LockInv, OfferInv, [Next]_vars
    PROVE  OfferInv'
<1>. SUFFICES ASSUME cpu' # Idle, cpu'.from = "approve", cpu'.offer # 0 PROVE OfferInv'
  BY DEF OfferInv
<1>1. CASE cpu # Idle
  <2>1. cpu.from = "approve" /\ cpu.offer # 0
    <3>1. CASE cpu.from = "approve"
      BY <1>1, <3>1, Midway
    <3>2. CASE cpu.from # "approve"
      <4>1. CASE cpu' = cpu
        BY <3>2, <4>1
      <4>2. CASE \E at : cpu' = [cpu EXCEPT !.at = at]
        BY <1>1, <3>2, <4>2, StageTyped DEF Stretches
      <4>3. CASE \E at, seen : cpu' = [cpu EXCEPT !.at = at, !.seen = seen]
        BY <1>1, <3>2, <4>3, StageTyped DEF Stretches
      <4>. QED
        BY <1>1, <4>1, <4>2, <4>3 DEF Next, Preflight, ApplyCase, StartRun, Reset, Tick, memory, vars,
              Verified, LockArrives, NotConfirmed, Executed, RollbackFails, Verify, Restore,
              Investigate, Freeze, Confirm, Approve, Accept, PassGate, Classify, Check, Decide,
              Propose, RequestApproval, ReadLocks, Claim, Attempt, Refused, Crash, GoOn, End
    <3>. QED BY <3>1, <3>2
  <2>. QED BY <1>1, <2>1, OfferLasts
<1>2. CASE Approve
  BY <1>2, OfferBegins
<1>3. CASE cpu = Idle /\ ~Approve
  <2>1. CASE cpu' = cpu
    BY <1>3, <2>1
  <2>2. CASE \E r \in Run : Investigate(r) \/ Freeze(r) \/ Confirm(r)
    BY <1>3, <2>2 DEF Investigate, Freeze, Confirm, Stretch
  <2>. QED
    BY <1>3, <2>1, <2>2 DEF Idle, Next, Preflight, ApplyCase, StartRun, Reset, Tick, memory, vars,
          Verified, LockArrives, NotConfirmed, Executed, RollbackFails, Verify, Restore, Accept,
          PassGate, Classify, Check, Decide, Propose, RequestApproval, ReadLocks, Claim, Attempt,
          Refused, Crash
<1>. QED BY <1>1, <1>2, <1>3

(* An approval that was offered ends with the call, or for one of the reasons.*)
LEMMA OfferEnds ==
    ASSUME Inv, Next, cpu.at # "idle", cpu.from = "approve", cpu.offer # 0, cpu' = Idle
    PROVE  \/ calls' = [calls EXCEPT ![cpu.run] = @ + 1]
           \/ faults' # faults
           \/ \E i \in Locks : i > cpu.offer /\ ledger[i].what # "other"
           \/ cpu.at = "claim" /\ \E i \in Locks : i > cpu.seen
<1>0. /\ TypeInv /\ StretchInv /\ cpu # Idle /\ cpu \in Stretches /\ faults \in Nat
      /\ ledger \in Seq(Entry) /\ Locks \subseteq Nat
  BY InStretch, StageTyped DEF Inv, TypeInv, Locks
<1>1. /\ ~Has(cpu.run, "attempt")
      /\ cpu.at # "attempt" => ~Has(cpu.run, "approval")
      /\ cpu.at = "check" => Supported(cpu.run)
      /\ cpu.at = "non_actionable" => Touched
      /\ \A i \in Locks : i <= cpu.offer => ledger[i].what = "other"
  BY <1>0 DEF Inv, OfferInv
<1>2. (\E i \in Locks : ledger[i].what # "other") => Touched
  <2>1. cpu.offer \in Nat
    BY <1>0 DEF Stretches
  <2>. QED BY <1>0, <1>1, <2>1 DEF Touched
<1>3. cpu.at \notin {"accept", "gate", "classify"}
  BY <1>0 DEF StretchInv
<1>4. CASE Check
  <2>1. FirstTouching("malformed")
    <3>1. cpu' # [cpu EXCEPT !.at = Decision(cpu.run).what]
      <4>1. PICK at \in {"human_review_required", "non_actionable"} : at = Decision(cpu.run).what
        BY DEF Decision, Event
      <4>. QED BY <1>0, <4>1 DEF Idle, Stretches
    <3>. QED BY <1>1, <1>4, <3>1 DEF Check
  <2>. QED BY <1>2, <2>1 DEF FirstTouching, Touched
<1>5. CASE Decide
  <2>1. cpu.at = "non_actionable"
    BY <1>0, <1>5 DEF Decide, GoOn, Idle, Stretches
  <2>. QED BY <1>1, <2>1 DEF Touched
<1>6. CASE Propose \/ RequestApproval
  BY <1>0, <1>6 DEF Propose, RequestApproval, GoOn, Idle, Stretches
<1>7. CASE ReadLocks
  <2>1. ~LocksClear
    <3>1. ASSUME NEW last \in Nat, cpu' = [cpu EXCEPT !.at = "claim", !.seen = last] PROVE FALSE
      BY <1>0, <3>1 DEF Idle, Stretches
    <3>. QED BY <1>0, <1>7, <3>1 DEF ReadLocks
  <2>. QED BY <1>2, <2>1 DEF LocksClear, Touched
<1>8. CASE Claim
  <2>1. cpu.at = "claim" /\ ~Claimable(cpu.run, cpu.seen)
    BY <1>0, <1>8 DEF Claim, GoOn, Idle, Stretches
  <2>2. cpu.seen \in Nat
    BY <1>0 DEF Stretches
  <2>. QED BY <1>0, <1>1, <2>1, <2>2 DEF Claimable
<1>9. CASE Attempt
  BY <1>1, <1>9 DEF Attempt
<1>10. CASE Refused \/ Crash
  <2>1. faults' = faults + 1
    BY <1>10 DEF Refused, Crash
  <2>. QED BY <1>0, <2>1
<1>11. CASE \/ Preflight \/ ApplyCase \/ StartRun \/ Reset \/ Approve \/ Tick
            \/ (\E v \in verifying : Verified(v)) \/ (\E kind \in LockKinds : LockArrives(kind))
            \/ \E r \in Run : \/ Investigate(r) \/ Freeze(r) \/ Confirm(r) \/ NotConfirmed(r)
                              \/ Executed(r) \/ RollbackFails(r) \/ Verify(r) \/ Restore(r)
  BY <1>0, <1>11 DEF Preflight, ApplyCase, StartRun, Reset, Approve, Tick, Verified, LockArrives,
        memory, Investigate, Freeze, Confirm, NotConfirmed, Executed, RollbackFails, Verify, Restore
<1>12. CASE Accept \/ PassGate \/ Classify
  BY <1>3, <1>12 DEF Accept, PassGate, Classify
<1>. QED
  BY <1>4, <1>5, <1>6, <1>7, <1>8, <1>9, <1>10, <1>11, <1>12 DEF Next

-----------------------------------------------------------------------------
(* What the invariant says of the system.                                     *)

(* The initial states satisfy the invariant.                                  *)
LEMMA InitInv == Init => Inv
<1>. SUFFICES ASSUME Init PROVE Inv
  OBVIOUS
<1>1. ledger = <<>> /\ cpu = Idle /\ calls = [r \in Run |-> 0] /\ inv = [r \in Run |-> "none"]
  BY DEF Init
<1>2. \A r, type : Events(r, type) = {}
  BY <1>1 DEF Events
<1>3. Locks = {}
  BY <1>1 DEF Locks
<1>4. ChainInv
  BY <1>1, <1>2 DEF ChainInv, ChainOf, Has, AtMostOne, RestsOn
<1>5. GateInv
  BY <1>1, <1>2 DEF GateInv, GateOf, Has, AtMostOne
<1>6. StretchInv /\ LockInv /\ OfferInv
  BY <1>1, <1>3 DEF StretchInv, LockInv, LockStops, OfferInv, Idle
<1>. QED BY <1>4, <1>5, <1>6, InitTyped DEF Inv

(* Every step keeps the invariant.                                            *)
LEMMA StepInv == Inv /\ [Next]_vars => Inv'
BY StepTyped, ChainStep, GateStep, StretchStep, LockStep, OfferStep DEF Inv

(* A set of at most one element counts at most one.                           *)
LEMMA Few ==
    ASSUME NEW S, AtMostOne(S)
    PROVE  Cardinality(S) <= 1
<1>1. CASE S = {}
  BY <1>1, FS_EmptySet
<1>2. ASSUME NEW x \in S PROVE Cardinality(S) <= 1
  <2>1. S = {x}
    BY <1>2 DEF AtMostOne
  <2>2. Cardinality({x}) = 1
    BY FS_Singleton
  <2>. QED BY <2>1, <2>2
<1>. QED BY <1>1, <1>2

(* The invariant passes a gate once.                                          *)
LEMMA InvGates == Inv => GatedOnce
<1>. SUFFICES ASSUME Inv, NEW r \in Run
              PROVE  /\ Cardinality(Events(r, "gate")) <= 1
                     /\ Cardinality(Events(r, "accepted")) > 1 => faults > 0
  BY DEF GatedOnce
<1>1. AtMostOne(Events(r, "gate")) /\ (faults = 0 => AtMostOne(Events(r, "accepted")))
  BY DEF Inv, GateInv, GateOf
<1>2. CASE faults = 0
  <2>1. Cardinality(Events(r, "gate")) <= 1 /\ Cardinality(Events(r, "accepted")) <= 1
    BY <1>1, <1>2, Few
  <2>2. IsFiniteSet(Events(r, "accepted"))
    <3>1. IsFiniteSet(DOMAIN ledger)
      BY FS_Interval DEF Inv, TypeInv
    <3>. QED BY <3>1, FS_Subset DEF Events
  <2>3. Cardinality(Events(r, "accepted")) \in Nat
    BY <2>2, FS_CardinalityType
  <2>. QED BY <2>1, <2>3
<1>3. CASE faults # 0
  BY <1>1, <1>3, Few DEF Inv, TypeInv
<1>. QED BY <1>2, <1>3

(* The invariant rests every rollback on a chain.                             *)
LEMMA InvRests == Inv => RepairRests
<1>. SUFFICES ASSUME Inv, NEW r \in Run, calls[r] # 0
              PROVE  /\ calls[r] = 1
                     /\ \A type \in {"accepted", "gate", "approval", "attempt"} : Lone(r, type)
                     /\ \E a \in Events(r, "accepted"), g \in Events(r, "gate"),
                           d \in Events(r, "decision"), p \in Events(r, "proposal"),
                           q \in Events(r, "request"), k \in Events(r, "approval"),
                           t \in Events(r, "attempt") :
                           /\ a < g /\ g < d /\ d < p /\ p < q /\ q < k /\ k < t
                           /\ ledger[d].what = "human_review_required"
                           /\ \A i \in {d, p, q, k, t} : ledger[i].snap = ledger[g].snap
                           /\ ledger[k].at - ledger[g].snap < MaxAge
  BY DEF RepairRests
<1>0. ledger \in Seq(Entry) /\ ChainOf(r)
  BY DEF Inv, TypeInv, ChainInv
<1>1. calls[r] = 1 /\ Has(r, "attempt")
  BY <1>0 DEF ChainOf
<1>2. PICK t \in Events(r, "attempt") : TRUE
  BY <1>1 DEF Has
<1>3. PICK k \in Events(r, "approval") : k < t /\ ledger[k].snap = ledger[t].snap
  BY <1>0, <1>2 DEF ChainOf, RestsOn
<1>4. PICK q \in Events(r, "request") : q < k /\ ledger[q].snap = ledger[k].snap
  BY <1>0, <1>3 DEF ChainOf, RestsOn
<1>5. PICK p \in Events(r, "proposal") : p < q /\ ledger[p].snap = ledger[q].snap
  BY <1>0, <1>4 DEF ChainOf, RestsOn
<1>6. PICK d \in Events(r, "decision") :
          d < p /\ ledger[d].snap = ledger[p].snap /\ ledger[d].what = "human_review_required"
  BY <1>0, <1>5 DEF ChainOf
<1>7. PICK g \in Events(r, "gate") : g < d /\ ledger[g].snap = ledger[d].snap
  BY <1>0, <1>6 DEF ChainOf, RestsOn
<1>8. PICK a, h \in DOMAIN ledger : Events(r, "accepted") = {a} /\ Events(r, "gate") = {h} /\ a < h
  <2>1. Has(r, "approval")
    BY <1>3 DEF Has
  <2>. QED BY <1>0, <2>1 DEF ChainOf
<1>9. a \in Events(r, "accepted") /\ a < g
  BY <1>7, <1>8
<1>10. ledger[k].at - ledger[g].snap < MaxAge
  <2>1. ledger[k].at - ledger[k].snap < MaxAge
    BY <1>0, <1>3 DEF ChainOf
  <2>2. ledger[k].snap = ledger[g].snap
    BY <1>4, <1>5, <1>6, <1>7
  <2>. QED BY <2>1, <2>2
<1>11. \A i \in {d, p, q, k, t} : ledger[i].snap = ledger[g].snap
  BY <1>3, <1>4, <1>5, <1>6, <1>7
<1>12. \A type \in {"accepted", "gate", "approval", "attempt"} : Lone(r, type)
  <2>1. Events(r, "approval") = {k}
    BY <1>0, <1>3 DEF ChainOf, AtMostOne
  <2>2. Events(r, "attempt") = {t}
    BY <1>0, <1>2 DEF ChainOf, AtMostOne
  <2>3. Lone(r, "approval") /\ Lone(r, "attempt")
    BY <1>0, <2>1, <2>2, LoneIs
  <2>4. Lone(r, "accepted") /\ Lone(r, "gate")
    BY <1>0, <1>8, LoneIs
  <2>. QED BY <2>3, <2>4
<1>. QED BY <1>1, <1>2, <1>3, <1>4, <1>5, <1>6, <1>7, <1>9, <1>10, <1>11, <1>12

-----------------------------------------------------------------------------
(* Every reachable state satisfies the invariant: the ledger owes each event  *)
(* what it rests on, whatever stretches, restarts and locks lie between.      *)
THEOREM Invariance == Spec => []Inv
BY InitInv, StepInv, PTL DEF Spec

(* The rollback of a run is called at most once, and only on a full and fresh *)
(* chain of authority, in its order (executeCanonicalDevelopmentApproval).    *)
THEOREM RepairRestsOnChain == Spec => []RepairRests
BY Invariance, InvRests, PTL

(* No approval is written past a lock that stops it, however late the lock    *)
(* came (atomicApprovalClaim).                                                *)
THEOREM LocksStopApprovals == Spec => []LockStops
<1>1. Inv => LockStops
  BY DEF Inv, LockInv
<1>. QED BY <1>1, Invariance, PTL

(* A gate is passed once, whatever requests and restarts investigate again    *)
(* (singleFlightDevelopmentInvestigation).                                    *)
THEOREM GatesPassOnce == Spec => []GatedOnce
BY Invariance, InvGates, PTL

(* An approval given while the page shows the latest run as waiting ends with *)
(* the rollback called, unless the ledger or the server failed under it or a  *)
(* lock stopped it on its way (projectionAuthorityChain, stateFor,            *)
(* approveDevelopmentAfterAuthority).                                         *)
THEOREM OfferedApprovalsAreTaken == Spec => OffersAreTaken
<1>. DEFINE Ends ==
         cpu.at # "idle" /\ cpu.from = "approve" /\ cpu.offer # 0 /\ cpu' = Idle =>
             \/ calls' = [calls EXCEPT ![cpu.run] = @ + 1]
             \/ faults' # faults
             \/ \E i \in Locks : i > cpu.offer /\ ledger[i].what # "other"
             \/ cpu.at = "claim" /\ \E i \in Locks : i > cpu.seen
<1>1. Inv /\ [Next]_vars => [Ends]_vars
  BY OfferEnds
<1>. QED BY <1>1, Invariance, PTL DEF Spec, OffersAreTaken

=============================================================================
