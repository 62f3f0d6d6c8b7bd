---------------------------- MODULE FaultLoopProofs ----------------------------
(***************************************************************************)
(* The safety properties of FaultLoop, for any number of keys, attempts    *)
(* and losses.                                                             *)
(*                                                                         *)
(* The actions of a run touch no other run, so the invariant is one        *)
(* predicate RunInv of a run's events and its execution.  What the ledger  *)
(* promises rests on what an execution still has to do: its course is      *)
(* well ordered (a verification comes directly after a repair, and so on), *)
(* it holds no second repair, and an execution that is under way belongs   *)
(* to a run that has been started and has not ended.                       *)
(*                                                                         *)
(* What the browser reads of a run (RunReadModel) needs a second one,      *)
(* Reads: what has been read of the whole run is what was recorded last,   *)
(* and each event that is still to come will be caused by the event that   *)
(* the reader then expects.                                                *)
(***************************************************************************)
EXTENDS FaultLoop, SequenceTheorems, FiniteSetTheorems, WellFoundedInduction, TLAPS

Events == [type : Types, parent : Nat, passed : BOOLEAN]

Course == Types \cup Roles

\* How many of the events s are of the type.
CountIn(s, type) == Cardinality({n \in DOMAIN s : s[n].type = type})

Contains(s, x) == \E n \in DOMAIN s : s[n] = x

\* The order in which the events of a course come.
InPlace(todo, i) ==
    /\ todo[i] \notin {"reserved", "run.started", "failed"}
    /\ todo[i] = "repair.executed" => i + 1 = Len(todo) /\ todo[i + 1] = "verification.completed"
    /\ todo[i] = "verification.completed" => i = Len(todo) /\ (i = 1 \/ todo[i - 1] = "repair.executed")
    /\ todo[i] = "recovered" => Len(todo) = 1
    /\ todo[i] \in {"fault.injected", "topology.bound"} => \A j \in DOMAIN todo : todo[j] = todo[i] => j = i

WellOrdered(todo) == \A i \in DOMAIN todo : InPlace(todo, i)

\* What is still to do may be done.
CourseInv(s, e) ==
    /\ WellOrdered(e.todo)
    /\ Contains(e.todo, "repair.executed") => e.attempt < MaxAttempts
    /\ Contains(e.todo, "fault.injected") => e.attempt = 0 /\ CountIn(s, "fault.injected") = 0
    /\ Contains(e.todo, "topology.bound") => "topology.bound" \notin TypesOf(s)

\* The event n is a passed verification of a repair directly before it.
Proven(s, n) ==
    /\ n > 1 /\ n \in DOMAIN s
    /\ s[n].type = "verification.completed" /\ s[n].passed /\ s[n].parent = n - 1
    /\ s[n - 1].type = "repair.executed"

Underway == {"launched", "running", "answering"}

\* Where the execution is, as the ledger shows it.
PlaceInv(s, e) ==
    /\ e.at # "gone" => s # <<>> /\ TypesOf(s) \cap Terminal = {}
    /\ e.at = "reserving" => s = <<Event("reserved", 0, FALSE)>> /\ e.attempt = 0 /\ ~e.faulted
    /\ e.at \in Underway \cup {"interrupting"} => "run.started" \in TypesOf(s)
    /\ e.at = "launched" => e.todo # <<>> /\ e.todo[1] \in {"baseline.captured", "evidence.recorded"}
    /\ e.at = "answering" => e.todo # <<>> /\ e.todo[1] \in Roles
    /\ e.at = "running" /\ e.todo # <<>> /\ e.todo[1] = "verification.completed" =>
           e.parent = Len(s) /\ s[Len(s)].type = "repair.executed"
    /\ e.at = "running" /\ e.todo # <<>> /\ e.todo[1] = "recovered" => Proven(s, Len(s))
    /\ e.at \in Underway => CountIn(s, "repair.executed") = e.attempt
    /\ e.at \in Underway /\ e.faulted => CountIn(s, "repair.executed") <= CountIn(s, "repair.rolled_back")

\* What the ledger shows of a run.
LedgerInv(s) ==
    /\ s # <<>> => "reserved" \in TypesOf(s)
    /\ CountIn(s, "run.started") <= 1 /\ CountIn(s, "fault.injected") <= 1
    /\ CountIn(s, "repair.executed") <= MaxAttempts
    /\ CountIn(s, "repair.executed") <= CountIn(s, "repair.rolled_back") + 1
    /\ "recovered" \in TypesOf(s) => s[Len(s)].type = "recovered" /\ Proven(s, Len(s) - 1)

RunInv(s, e) ==
    /\ s \in Seq(Events) /\ e \in Executions
    /\ CourseInv(s, e) /\ PlaceInv(s, e) /\ LedgerInv(s)

Inv ==
    /\ DOMAIN ledger = Keys /\ ledger = [k \in Keys |-> ledger[k]]
    /\ DOMAIN exec = Keys /\ exec = [k \in Keys |-> exec[k]]
    /\ expired \subseteq Keys /\ losses \in 0..MaxLosses
    /\ \A k \in Keys : RunInv(ledger[k], exec[k])

-----------------------------------------------------------------------------
(* Sequences of events.                                                    *)

\* An event more: the others stay, and its type counts.
LEMMA Appended ==
    ASSUME NEW s \in Seq(Events), NEW ev \in Events
    PROVE  /\ Append(s, ev) \in Seq(Events) /\ Append(s, ev) # <<>>
           /\ Len(Append(s, ev)) = Len(s) + 1
           /\ DOMAIN Append(s, ev) = DOMAIN s \cup {Len(s) + 1}
           /\ Append(s, ev)[Len(s) + 1] = ev
           /\ \A n \in DOMAIN s : Append(s, ev)[n] = s[n]
           /\ TypesOf(Append(s, ev)) = TypesOf(s) \cup {ev.type}
<1>1. /\ Append(s, ev) \in Seq(Events) /\ Append(s, ev) # <<>>
      /\ Len(Append(s, ev)) = Len(s) + 1
      /\ DOMAIN Append(s, ev) = DOMAIN s \cup {Len(s) + 1}
      /\ Append(s, ev)[Len(s) + 1] = ev
      /\ \A n \in DOMAIN s : Append(s, ev)[n] = s[n]
  BY AppendProperties
<1>2. TypesOf(Append(s, ev)) = TypesOf(s) \cup {ev.type}
  BY <1>1, Zenon DEF TypesOf
<1> QED BY <1>1, <1>2

\* There are finitely many events of a type.
LEMMA Counted ==
    ASSUME NEW s \in Seq(Events), NEW type
    PROVE  /\ IsFiniteSet({n \in DOMAIN s : s[n].type = type}) /\ CountIn(s, type) \in Nat
           /\ type \notin TypesOf(s) => CountIn(s, type) = 0
<1>1. DOMAIN s = 1..Len(s) /\ Len(s) \in Nat
  OBVIOUS
<1>2. IsFiniteSet(DOMAIN s)
  BY <1>1, FS_Interval
<1>3. IsFiniteSet({n \in DOMAIN s : s[n].type = type})
  BY <1>2, FS_Subset
<1>4. ASSUME type \notin TypesOf(s) PROVE {n \in DOMAIN s : s[n].type = type} = {}
  BY <1>4 DEF TypesOf
<1> QED BY <1>3, <1>4, FS_CardinalityType, FS_EmptySet DEF CountIn

\* An event counts for its own type.
LEMMA CountAppended ==
    ASSUME NEW s \in Seq(Events), NEW ev \in Events, NEW type
    PROVE  CountIn(Append(s, ev), type) = CountIn(s, type) + (IF ev.type = type THEN 1 ELSE 0)
<1> DEFINE Of(u) == {n \in DOMAIN u : u[n].type = type}
<1>1. IsFiniteSet(Of(s)) /\ CountIn(s, type) \in Nat
  BY Counted
<1>2. Len(s) + 1 \notin Of(s)
  OBVIOUS
<1>3. Of(Append(s, ev)) = IF ev.type = type THEN Of(s) \cup {Len(s) + 1} ELSE Of(s)
  BY Appended
<1>4. Cardinality(Of(s) \cup {Len(s) + 1}) = Cardinality(Of(s)) + 1
  BY <1>1, <1>2, FS_AddElement
<1>5. CountIn(Append(s, ev), type) = Cardinality(Of(Append(s, ev))) /\ CountIn(s, type) = Cardinality(Of(s))
  BY DEF CountIn
<1> HIDE DEF Of
<1> QED BY <1>1, <1>3, <1>4, <1>5

\* An event of another type does not count, one of the type does.
LEMMA CountsKept ==
    ASSUME NEW s \in Seq(Events), NEW ev \in Events, NEW type, ev.type # type
    PROVE  CountIn(Append(s, ev), type) = CountIn(s, type) /\ CountIn(s, type) \in Nat
<1>1. CountIn(s, type) \in Nat
  BY Counted
<1> QED BY <1>1, CountAppended

\* An event more of a type is one more of it.
LEMMA CountsMore ==
    ASSUME NEW s \in Seq(Events), NEW ev \in Events
    PROVE  CountIn(Append(s, ev), ev.type) = CountIn(s, ev.type) + 1 /\ CountIn(s, ev.type) \in Nat
<1>1. CountIn(s, ev.type) \in Nat
  BY Counted
<1> QED BY <1>1, CountAppended

-----------------------------------------------------------------------------
(* Courses.                                                                *)

\* What is left of a course is well ordered, and tells what was done first.
LEMMA Shortened ==
    ASSUME NEW todo \in Seq(Course), todo # <<>>, WellOrdered(todo)
    PROVE  /\ Tail(todo) \in Seq(Course) /\ WellOrdered(Tail(todo)) /\ Head(todo) = todo[1]
           /\ \A x : Contains(Tail(todo), x) => Contains(todo, x)
           /\ todo[1] \in {"repair.executed", "fault.injected", "topology.bound"} => ~Contains(Tail(todo), todo[1])
<1> DEFINE rest == Tail(todo)
<1>1. /\ rest \in Seq(Course) /\ Len(rest) = Len(todo) - 1 /\ Len(todo) \in Nat /\ Len(todo) > 0
      /\ \A i \in 1..Len(rest) : i + 1 \in DOMAIN todo /\ rest[i] = todo[i + 1]
      /\ DOMAIN rest = 1..Len(rest) /\ DOMAIN todo = 1..Len(todo) /\ Head(todo) = todo[1]
  BY HeadTailProperties
<1>2. WellOrdered(rest)
  <2> SUFFICES ASSUME NEW i \in DOMAIN rest PROVE InPlace(rest, i)
    BY DEF WellOrdered
  <2>1. /\ rest[i] = todo[i + 1] /\ i + 1 \in DOMAIN todo /\ i \in Nat /\ i >= 1
        /\ i <= Len(rest) /\ Len(rest) \in Nat
    BY <1>1
  <2>2. i # 1 => rest[i - 1] = todo[i]
    BY <1>1, <2>1
  <2>5. ASSUME i # Len(rest) PROVE rest[i + 1] = todo[i + 2]
    <3> HIDE DEF rest
    <3>1. i + 1 \in 1..Len(rest) /\ (i + 1) + 1 = i + 2
      BY <2>1, <2>5
    <3> QED BY <1>1, <3>1
  <2>3. InPlace(todo, i + 1)
    BY <2>1 DEF WellOrdered
  <2>4. \A j \in DOMAIN rest : rest[j] = todo[j + 1] /\ j + 1 \in DOMAIN todo /\ j \in Nat
    BY <1>1
  <2> HIDE DEF rest
  <2> QED BY <1>1, <2>1, <2>2, <2>3, <2>4, <2>5 DEF InPlace
<1>3. ASSUME NEW x, Contains(rest, x) PROVE Contains(todo, x)
  BY <1>1, <1>3 DEF Contains
<1>4. ASSUME todo[1] \in {"repair.executed", "fault.injected", "topology.bound"}, Contains(rest, todo[1])
      PROVE FALSE
  <2>1. PICK j \in DOMAIN rest : rest[j] = todo[1]
    BY <1>4 DEF Contains
  <2>2. j + 1 \in DOMAIN todo /\ todo[j + 1] = todo[1] /\ 1 \in DOMAIN todo /\ j >= 1 /\ j \in Nat
    BY <1>1, <2>1
  <2>3. InPlace(todo, 1) /\ InPlace(todo, j + 1)
    BY <2>2 DEF WellOrdered
  <2> HIDE DEF rest
  <2>4. CASE todo[1] = "repair.executed"
    BY <1>1, <2>2, <2>3, <2>4 DEF InPlace
  <2>5. CASE todo[1] \in {"fault.injected", "topology.bound"}
    BY <1>1, <2>2, <2>3, <2>5 DEF InPlace
  <2> QED BY <1>4, <2>4, <2>5
<1> QED BY <1>1, <1>2, <1>3, <1>4

\* After anything but a repair comes neither a verification nor an end.
LEMMA NextInCourse ==
    ASSUME NEW todo \in Seq(Course), todo # <<>>, WellOrdered(todo), todo[1] # "repair.executed", NEW rest, rest = Tail(todo)
    PROVE  rest \in Seq(Course) /\ (rest # <<>> => rest[1] # "recovered" /\ rest[1] # "verification.completed")
<1>1. /\ rest \in Seq(Course) /\ Len(rest) = Len(todo) - 1 /\ Len(todo) \in Nat /\ Len(todo) > 0
      /\ \A i \in 1..Len(rest) : i + 1 \in DOMAIN todo /\ rest[i] = todo[i + 1]
      /\ DOMAIN rest = 1..Len(rest) /\ DOMAIN todo = 1..Len(todo)
  BY HeadTailProperties
<1>2. ASSUME rest # <<>> PROVE rest[1] # "recovered" /\ rest[1] # "verification.completed"
  <2>1. 1 \in DOMAIN rest /\ 2 \in DOMAIN todo /\ rest[1] = todo[2] /\ Len(todo) >= 2
    BY <1>1, <1>2
  <2>2. InPlace(todo, 2)
    BY <2>1 DEF WellOrdered
  <2> QED BY <1>1, <2>1, <2>2 DEF InPlace
<1> QED BY <1>1, <1>2

\* The courses of the program.
LEMMA PositiveOrdered ==
    /\ PositiveScript \in Seq(Course) /\ WellOrdered(PositiveScript) /\ PositiveScript # <<>>
    /\ PositiveScript[1] = "baseline.captured"
<1> DEFINE s == PositiveScript
<1>1. Len(s) = 21 /\ DOMAIN s = 1..21 /\ s = [i \in 1..21 |-> s[i]] /\ s # <<>> /\ s[1] = "baseline.captured"
  BY DEF PositiveScript
<1>2. \A i \in 1..21 : s[i] \in Course
  BY DEF PositiveScript, Course, Types, Terminal, Roles
<1>3. s \in Seq(Course)
  BY <1>1, <1>2, IsASeq
<1>4. \A i \in 1..21 : s[i] \notin {"reserved", "run.started", "failed", "recovered"}
  BY DEF PositiveScript
<1>5. \A i \in 1..21 : /\ s[i] = "repair.executed" <=> i = 20
                       /\ s[i] = "verification.completed" <=> i = 21
                       /\ s[i] = "fault.injected" <=> i = 2
                       /\ s[i] = "topology.bound" <=> i = 3
  BY DEF PositiveScript
<1>6. ASSUME NEW i \in DOMAIN s PROVE InPlace(s, i)
  <2> HIDE DEF s
  <2>1. s[20] = "repair.executed" /\ s[21] = "verification.completed" /\ i \in 1..21
    BY <1>1, <1>5
  <2> QED BY <1>1, <1>4, <1>5, <2>1 DEF InPlace
<1> HIDE DEF s
<1>7. WellOrdered(s)
  BY <1>6 DEF WellOrdered
<1> QED BY <1>1, <1>3, <1>4, <1>7 DEF s, Contains

\* The course without a repair.
LEMMA NegativeOrdered ==
    /\ NegativeScript \in Seq(Course) /\ WellOrdered(NegativeScript) /\ NegativeScript # <<>>
    /\ NegativeScript[1] = "evidence.recorded"
    /\ ~Contains(NegativeScript, "repair.executed") /\ ~Contains(NegativeScript, "fault.injected")
<1> DEFINE s == NegativeScript
<1>1. Len(s) = 15 /\ DOMAIN s = 1..15 /\ s = [i \in 1..15 |-> s[i]] /\ s # <<>> /\ s[1] = "evidence.recorded"
  BY DEF NegativeScript
<1>2. \A i \in 1..15 : s[i] \in Course
  BY DEF NegativeScript, Course, Types, Terminal, Roles
<1>3. s \in Seq(Course)
  BY <1>1, <1>2, IsASeq
<1>4. \A i \in 1..15 : s[i] \notin {"reserved", "run.started", "failed", "recovered", "repair.executed",
                                         "verification.completed", "fault.injected"}
  BY DEF NegativeScript
<1>5. \A i \in 1..15 : s[i] = "topology.bound" <=> i = 2
  BY DEF NegativeScript
<1>6. ASSUME NEW i \in DOMAIN s PROVE InPlace(s, i)
  <2> HIDE DEF s
  <2>1. i \in 1..15
    BY <1>1
  <2> QED BY <1>1, <1>4, <1>5, <2>1 DEF InPlace
<1> HIDE DEF s
<1>7. WellOrdered(s)
  BY <1>6 DEF WellOrdered
<1> QED BY <1>1, <1>3, <1>4, <1>7 DEF s, Contains

\* The course of another attempt.
LEMMA RetryOrdered ==
    /\ RetryScript \in Seq(Course) /\ WellOrdered(RetryScript) /\ RetryScript # <<>>
    /\ RetryScript[1] = "repair.rolled_back"
    /\ ~Contains(RetryScript, "fault.injected") /\ ~Contains(RetryScript, "topology.bound")
<1> DEFINE s == RetryScript
<1>1. Len(s) = 9 /\ DOMAIN s = 1..9 /\ s = [i \in 1..9 |-> s[i]] /\ s # <<>> /\ s[1] = "repair.rolled_back"
  BY DEF RetryScript
<1>2. \A i \in 1..9 : s[i] \in Course
  BY DEF RetryScript, Course, Types, Terminal, Roles
<1>3. s \in Seq(Course)
  BY <1>1, <1>2, IsASeq
<1>4. \A i \in 1..9 : s[i] \notin {"reserved", "run.started", "failed", "recovered", "fault.injected",
                                         "topology.bound"}
  BY DEF RetryScript
<1>5. \A i \in 1..9 : /\ s[i] = "repair.executed" <=> i = 8
                      /\ s[i] = "verification.completed" <=> i = 9
  BY DEF RetryScript
<1>6. ASSUME NEW i \in DOMAIN s PROVE InPlace(s, i)
  <2> HIDE DEF s
  <2>1. s[8] = "repair.executed" /\ s[9] = "verification.completed" /\ i \in 1..9
    BY <1>1, <1>5
  <2> QED BY <1>1, <1>4, <1>5, <2>1 DEF InPlace
<1> HIDE DEF s
<1>7. WellOrdered(s)
  BY <1>6 DEF WellOrdered
<1> QED BY <1>1, <1>3, <1>4, <1>7 DEF s, Contains

\* What follows a verification.
LEMMA AfterVerificationOrdered ==
    ASSUME NEW passed \in BOOLEAN, NEW attempt \in 0..MaxAttempts
    PROVE  LET todo == AfterVerification(passed, attempt)
           IN  /\ todo \in Seq(Course) /\ WellOrdered(todo) /\ todo # <<>>
               /\ ~Contains(todo, "fault.injected") /\ ~Contains(todo, "topology.bound")
               /\ Contains(todo, "repair.executed") => attempt < MaxAttempts
               /\ todo[1] # "verification.completed" /\ (todo[1] = "recovered" => passed)
<1> USE AttemptsAssumption DEF AfterVerification
<1>1. CASE passed
  BY <1>1 DEF WellOrdered, InPlace, Contains, Course, Types, Terminal
<1>2. CASE ~passed /\ attempt = MaxAttempts
  BY <1>2 DEF WellOrdered, InPlace, Contains, Course, Types, Terminal
<1>3. CASE ~passed /\ attempt # MaxAttempts
  BY <1>3, RetryOrdered
<1> QED BY <1>1, <1>2, <1>3
-----------------------------------------------------------------------------
(* Each step of a run keeps the run's invariant.  s and e stand for its    *)
(* events and its execution.                                               *)

\* An execution that is gone has nothing left to do.
LEMMA GoneHasInv ==
    ASSUME NEW s
    PROVE  Gone \in Executions /\ CourseInv(s, Gone) /\ PlaceInv(s, Gone)
<1>1. <<>> \in Seq(Course) /\ DOMAIN <<>> = {}
  BY EmptySeq
<1>2. Gone \in Executions
  BY <1>1, AttemptsAssumption DEF Gone, Executions, Cases, Course
<1>3. CourseInv(s, Gone)
  BY DEF CourseInv, WellOrdered, Contains, Gone
<1>4. PlaceInv(s, Gone)
  BY DEF PlaceInv, Gone, Underway
<1> QED BY <1>2, <1>3, <1>4

\* An event that counts for nothing keeps what the ledger shows of a run.
LEMMA LedgerGrows ==
    ASSUME NEW s \in Seq(Events), NEW ev \in Events, LedgerInv(s), s # <<>>,
           TypesOf(s) \cap Terminal = {},
           ev.type \notin {"run.started", "fault.injected", "repair.executed", "recovered"}
    PROVE  LedgerInv(Append(s, ev))
<1>1. \A type \in {"run.started", "fault.injected", "repair.executed"} :
          CountIn(Append(s, ev), type) = CountIn(s, type)
  <2> SUFFICES ASSUME NEW type \in {"run.started", "fault.injected", "repair.executed"}
               PROVE  CountIn(Append(s, ev), type) = CountIn(s, type)
    OBVIOUS
  <2>1. CountIn(s, type) \in Nat /\ ev.type # type
    BY Counted
  <2> QED BY <2>1, CountAppended
<1>2. CountIn(Append(s, ev), "repair.rolled_back") >= CountIn(s, "repair.rolled_back")
  <2>1. CountIn(s, "repair.rolled_back") \in Nat
    BY Counted
  <2> QED BY <2>1, CountAppended
<1>3. \A type : CountIn(s, type) \in Nat /\ CountIn(Append(s, ev), type) \in Nat
  BY Counted, Appended
<1>4. "recovered" \notin TypesOf(Append(s, ev)) /\ "reserved" \in TypesOf(Append(s, ev))
  BY Appended DEF LedgerInv, Terminal
<1> QED BY <1>1, <1>2, <1>3, <1>4, AttemptsAssumption DEF LedgerInv

\* A run that is under way may end in failure, or be stopped.
LEMMA EndKeepsInv ==
    ASSUME NEW s, NEW e, RunInv(s, e), e.at # "gone", NEW ev \in Events, ev.type \in {"failed", "stopped"}
    PROVE  RunInv(Append(s, ev), Gone)
<1>1. s # <<>> /\ TypesOf(s) \cap Terminal = {} /\ LedgerInv(s) /\ s \in Seq(Events)
  BY DEF RunInv, PlaceInv
<1>2. LedgerInv(Append(s, ev)) /\ Append(s, ev) \in Seq(Events)
  BY <1>1, LedgerGrows, Appended
<1> QED BY <1>2, GoneHasInv DEF RunInv

\* A fresh key is reserved.
LEMMA ReserveKeepsInv ==
    ASSUME NEW case \in Cases, NEW failing \in 0..MaxAttempts
    PROVE  RunInv(Append(<<>>, Event("reserved", 0, FALSE)),
                  [Gone EXCEPT !.at = "reserving", !.case = case, !.failing = failing])
<1> DEFINE ev == Event("reserved", 0, FALSE)
           f == [Gone EXCEPT !.at = "reserving", !.case = case, !.failing = failing]
           none == <<>>
           u == Append(none, ev)
<1>1. ev \in Events /\ none \in Seq(Events) /\ TypesOf(none) = {} /\ ev.type = "reserved" /\ u = <<ev>>
  BY DEF Events, Types, Event, TypesOf
<1>2. f \in Executions /\ f.at = "reserving" /\ f.todo = <<>> /\ f.attempt = 0 /\ ~f.faulted
  BY GoneHasInv DEF Gone, Executions
<1> HIDE DEF ev, f, none
<1>0. u \in Seq(Events) /\ u # <<>> /\ TypesOf(u) = TypesOf(none) \cup {ev.type}
  BY <1>1, Appended, Zenon
<1> HIDE DEF u
<1>3. u \in Seq(Events) /\ u # <<>> /\ TypesOf(u) = {"reserved"}
  BY <1>0, <1>1
<1>4. \A type : type # "reserved" => CountIn(u, type) = 0
  BY <1>3, Counted
<1>5. CourseInv(u, f)
  BY <1>2 DEF CourseInv, WellOrdered, Contains
<1>6. PlaceInv(u, f)
  BY <1>1, <1>2, <1>3 DEF PlaceInv, Underway, Terminal, ev
<1>7. LedgerInv(u)
  BY <1>3, <1>4, AttemptsAssumption DEF LedgerInv
<1> QED BY <1>2, <1>3, <1>5, <1>6, <1>7 DEF RunInv, ev, f, u, none

\* The run is started.
LEMMA LaunchKeepsInv ==
    ASSUME NEW s, NEW e, RunInv(s, e), e.at = "reserving"
    PROVE  RunInv(Append(s, Event("run.started", Len(s), FALSE)),
                  [e EXCEPT !.at = "launched", !.todo = Script(e.case)])
<1> DEFINE ev == Event("run.started", Len(s), FALSE)
           f == [e EXCEPT !.at = "launched", !.todo = Script(e.case)]
<1>1. s \in Seq(Events) /\ s = <<Event("reserved", 0, FALSE)>> /\ e.attempt = 0 /\ ~e.faulted
  BY DEF RunInv, PlaceInv
<1>2. TypesOf(s) = {"reserved"} /\ Len(s) = 1
  BY <1>1 DEF TypesOf, Event
<1>3. ev \in Events /\ ev.type = "run.started"
  BY <1>2 DEF Events, Types, Event
<1>0. s \in Seq(Events)
  BY <1>1
<1> HIDE DEF ev
<1>4. Append(s, ev) \in Seq(Events) /\ Append(s, ev) # <<>> /\ TypesOf(Append(s, ev)) = {"reserved", "run.started"}
  BY <1>0, <1>2, <1>3, Appended
<1>5. /\ \A type : type \notin {"reserved", "run.started"} => CountIn(Append(s, ev), type) = 0
      /\ CountIn(Append(s, ev), "run.started") = 1
  <2>1. CountIn(s, "run.started") = 0
    BY <1>0, <1>2, Counted
  <2>2. CountIn(Append(s, ev), "run.started") = 1
    BY <1>0, <1>3, <2>1, CountAppended
  <2> QED BY <1>4, <2>2, Counted
<1>6. /\ Script(e.case) \in Seq(Course) /\ WellOrdered(Script(e.case)) /\ Script(e.case) # <<>>
      /\ Script(e.case)[1] \in {"baseline.captured", "evidence.recorded"}
  BY PositiveOrdered, NegativeOrdered DEF Script
<1>7. /\ f \in Executions /\ f.at = "launched" /\ f.todo = Script(e.case) /\ f.attempt = 0 /\ ~f.faulted
  BY <1>1, <1>6 DEF RunInv, Executions, Course
<1> HIDE DEF f
<1>8. CourseInv(Append(s, ev), f)
  BY <1>4, <1>5, <1>6, <1>7, AttemptsAssumption DEF CourseInv
<1>9. PlaceInv(Append(s, ev), f)
  BY <1>4, <1>5, <1>6, <1>7 DEF PlaceInv, Underway, Terminal
<1>10. LedgerInv(Append(s, ev))
  BY <1>4, <1>5, AttemptsAssumption DEF LedgerInv
<1> QED BY <1>4, <1>7, <1>8, <1>9, <1>10 DEF RunInv, ev, f

\* A run whose execution is lost is found interrupted.
LEMMA ReconcileKeepsInv ==
    ASSUME NEW s, NEW e, RunInv(s, e), "run.started" \in TypesOf(s), TypesOf(s) \cap Terminal = {},
           NEW ev \in Events, ev.type = "interrupted"
    PROVE  RunInv(Append(s, ev), [Gone EXCEPT !.at = "interrupting"])
<1> DEFINE f == [Gone EXCEPT !.at = "interrupting"]
<1>1. f \in Executions /\ f.at = "interrupting" /\ f.todo = <<>>
  BY GoneHasInv DEF Gone, Executions
<1>2. s \in Seq(Events) /\ s # <<>> /\ LedgerInv(s)
  BY DEF RunInv, TypesOf
<1>3. /\ LedgerInv(Append(s, ev)) /\ Append(s, ev) \in Seq(Events) /\ Append(s, ev) # <<>>
      /\ TypesOf(Append(s, ev)) = TypesOf(s) \cup {"interrupted"}
  BY <1>2, LedgerGrows, Appended
<1> HIDE DEF f
<1>4. CourseInv(Append(s, ev), f)
  BY <1>1 DEF CourseInv, WellOrdered, Contains
<1>5. PlaceInv(Append(s, ev), f)
  BY <1>1, <1>3 DEF PlaceInv, Underway, Terminal
<1> QED BY <1>1, <1>3, <1>4, <1>5 DEF RunInv, f

\* The topology is there.
LEMMA BoundKeepsInv ==
    ASSUME NEW s, NEW e, RunInv(s, e), e.at = "launched"
    PROVE  RunInv(s, [e EXCEPT !.at = "running"])
<1> DEFINE f == [e EXCEPT !.at = "running"]
<1>1. /\ f \in Executions /\ f.at = "running" /\ f.todo = e.todo /\ f.attempt = e.attempt
      /\ f.faulted = e.faulted
  BY DEF RunInv, Executions
<1> HIDE DEF f
<1>2. CourseInv(s, f)
  BY <1>1 DEF RunInv, CourseInv
<1>3. PlaceInv(s, f)
  BY <1>1 DEF RunInv, PlaceInv, Underway
<1> QED BY <1>1, <1>2, <1>3 DEF RunInv, f

\* A step of a course leaves a course that may be done.
LEMMA CourseGoesOn ==
    ASSUME NEW s, NEW e, RunInv(s, e), NEW ev \in Events, e.todo # <<>>,
           ev.type \in {e.todo[1], "role.response"}, NEW f, f.todo = Tail(e.todo), f.attempt = e.attempt
    PROVE  CourseInv(Append(s, ev), f)
<1>1. s \in Seq(Events) /\ e.todo \in Seq(Course) /\ CourseInv(s, e) /\ WellOrdered(e.todo)
  BY DEF RunInv, CourseInv, Executions, Course
<1>2. WellOrdered(f.todo) /\ \A x : Contains(f.todo, x) => Contains(e.todo, x)
  BY <1>1, Shortened
<1>3. Contains(f.todo, "repair.executed") => f.attempt < MaxAttempts
  BY <1>1, <1>2 DEF CourseInv
<1>4. ASSUME Contains(f.todo, "fault.injected")
      PROVE  f.attempt = 0 /\ CountIn(Append(s, ev), "fault.injected") = 0
  <2>1. ev.type # "fault.injected"
    BY <1>1, <1>4, Shortened
  <2>2. e.attempt = 0 /\ CountIn(s, "fault.injected") = 0
    BY <1>1, <1>2, <1>4 DEF CourseInv
  <2> QED BY <1>1, <2>1, <2>2, CountAppended
<1>5. ASSUME Contains(f.todo, "topology.bound") PROVE "topology.bound" \notin TypesOf(Append(s, ev))
  <2>1. ev.type # "topology.bound"
    BY <1>1, <1>5, Shortened
  <2> QED BY <1>1, <1>2, <1>5, <2>1, Appended DEF CourseInv
<1> QED BY <1>2, <1>3, <1>4, <1>5 DEF CourseInv

\* An event that follows from the one before it.
LEMMA AdvanceKeepsInv ==
    ASSUME NEW s, NEW e, RunInv(s, e), e.at = "running", e.todo # <<>>, NEW ev \in Events, ev.type = Head(e.todo),
           ev.type \notin Roles \cup Terminal \cup {"repair.executed", "verification.completed", "repair.rolled_back"}
    PROVE  RunInv(Append(s, ev), [e EXCEPT !.todo = Tail(@), !.parent = Len(s) + 1,
                                           !.faulted = @ \/ Head(e.todo) = "fault.injected"])
<1> DEFINE f == [e EXCEPT !.todo = Tail(@), !.parent = Len(s) + 1,
                          !.faulted = @ \/ Head(e.todo) = "fault.injected"]
<1>1. /\ s \in Seq(Events) /\ e \in Executions /\ e.todo \in Seq(Course) /\ WellOrdered(e.todo)
      /\ CourseInv(s, e) /\ PlaceInv(s, e) /\ LedgerInv(s) /\ Len(s) \in Nat
  BY DEF RunInv, CourseInv, Executions, Course
<1>2. /\ Tail(e.todo) \in Seq(Course) /\ Head(e.todo) = e.todo[1]
      /\ Tail(e.todo) # <<>> => Tail(e.todo)[1] # "recovered" /\ Tail(e.todo)[1] # "verification.completed"
  <2>1. Head(e.todo) = e.todo[1] /\ e.todo[1] # "repair.executed"
    BY <1>1
  <2> QED BY <1>1, <2>1, NextInCourse
<1>p. e \in Executions /\ Len(s) + 1 \in Nat /\ Tail(e.todo) \in Seq(Types \cup Roles)
  BY <1>1, <1>2 DEF Course
<1>3. /\ f \in Executions /\ f.at = "running" /\ f.todo = Tail(e.todo) /\ f.attempt = e.attempt
      /\ f.faulted => e.faulted \/ ev.type = "fault.injected"
  BY <1>p DEF Executions
<1> HIDE DEF f
<1>4. /\ s # <<>> /\ TypesOf(s) \cap Terminal = {} /\ "run.started" \in TypesOf(s)
      /\ CountIn(s, "repair.executed") = e.attempt
      /\ e.faulted => CountIn(s, "repair.executed") <= CountIn(s, "repair.rolled_back")
  BY <1>1 DEF PlaceInv, Underway
<1>5. /\ Append(s, ev) \in Seq(Events) /\ Append(s, ev) # <<>>
      /\ TypesOf(Append(s, ev)) = TypesOf(s) \cup {ev.type}
  BY <1>1, Appended
<1>6. /\ CountIn(Append(s, ev), "repair.executed") = CountIn(s, "repair.executed")
      /\ CountIn(Append(s, ev), "repair.rolled_back") = CountIn(s, "repair.rolled_back")
      /\ CountIn(s, "repair.executed") \in Nat /\ CountIn(s, "repair.rolled_back") \in Nat
  BY <1>1, CountsKept
<1>7. CourseInv(Append(s, ev), f)
  BY <1>1, <1>2, <1>3, CourseGoesOn
<1>8. Contains(e.todo, ev.type) /\ ev.type \notin {"run.started", "reserved", "failed"}
  BY <1>1, <1>2 DEF Contains, WellOrdered, InPlace
<1>9. ev.type = "fault.injected" => e.attempt = 0 /\ CountIn(s, "fault.injected") = 0
  BY <1>1, <1>8 DEF CourseInv
<1>10. PlaceInv(Append(s, ev), f)
  BY <1>2, <1>3, <1>4, <1>5, <1>6, <1>9 DEF PlaceInv, Underway, Terminal
<1>11. LedgerInv(Append(s, ev))
  <2>1. CASE ev.type # "fault.injected"
    BY <1>1, <1>4, <1>8, <2>1, LedgerGrows DEF Terminal
  <2>2. CASE ev.type = "fault.injected"
    <3>1. /\ CountIn(Append(s, ev), "fault.injected") = 1
          /\ CountIn(Append(s, ev), "run.started") = CountIn(s, "run.started")
      <4>1. CountIn(Append(s, ev), "fault.injected") = CountIn(s, "fault.injected") + 1
        BY <1>1, <2>2, CountsMore
      <4> QED BY <1>1, <1>9, <2>2, <4>1, CountsKept
    <3> QED BY <1>1, <1>4, <1>5, <1>6, <2>2, <3>1 DEF LedgerInv, Terminal
  <2> QED BY <2>1, <2>2
<1> QED BY <1>3, <1>5, <1>7, <1>10, <1>11 DEF RunInv, f

\* A role goes to work.
LEMMA CallKeepsInv ==
    ASSUME NEW s, NEW e, RunInv(s, e), e.at = "running", e.todo # <<>>, Head(e.todo) \in Roles,
           NEW ev \in Events, ev.type = "role.working"
    PROVE  RunInv(Append(s, ev), [e EXCEPT !.at = "answering", !.parent = Len(s) + 1])
<1> DEFINE f == [e EXCEPT !.at = "answering", !.parent = Len(s) + 1]
<1>1. /\ s \in Seq(Events) /\ e \in Executions /\ e.todo \in Seq(Course) /\ Len(s) \in Nat
      /\ CourseInv(s, e) /\ PlaceInv(s, e) /\ LedgerInv(s) /\ Head(e.todo) = e.todo[1]
  BY DEF RunInv, Executions, Course
<1>p. e \in Executions /\ Len(s) + 1 \in Nat
  BY <1>1
<1>2. /\ f \in Executions /\ f.at = "answering" /\ f.todo = e.todo /\ f.attempt = e.attempt
      /\ f.faulted = e.faulted
  BY <1>p DEF Executions
<1> HIDE DEF f
<1>3. /\ s # <<>> /\ TypesOf(s) \cap Terminal = {} /\ "run.started" \in TypesOf(s)
      /\ CountIn(s, "repair.executed") = e.attempt
      /\ e.faulted => CountIn(s, "repair.executed") <= CountIn(s, "repair.rolled_back")
  BY <1>1 DEF PlaceInv, Underway
<1>4. /\ Append(s, ev) \in Seq(Events) /\ Append(s, ev) # <<>>
      /\ TypesOf(Append(s, ev)) = TypesOf(s) \cup {ev.type}
  BY <1>1, Appended
<1>5. \A type \in {"repair.executed", "repair.rolled_back", "fault.injected"} :
          CountIn(Append(s, ev), type) = CountIn(s, type) /\ CountIn(s, type) \in Nat
  BY <1>1, CountsKept
<1>6. CourseInv(Append(s, ev), f)
  BY <1>1, <1>2, <1>4, <1>5 DEF CourseInv
<1>7. PlaceInv(Append(s, ev), f)
  BY <1>1, <1>2, <1>3, <1>4, <1>5 DEF PlaceInv, Underway, Terminal
<1>8. LedgerInv(Append(s, ev))
  BY <1>1, <1>3, LedgerGrows
<1> QED BY <1>2, <1>4, <1>6, <1>7, <1>8 DEF RunInv, f

\* A role answers.
LEMMA AnswerKeepsInv ==
    ASSUME NEW s, NEW e, RunInv(s, e), e.at = "answering", NEW ev \in Events, ev.type = "role.response"
    PROVE  RunInv(Append(s, ev), [e EXCEPT !.todo = Tail(@), !.parent = Len(s) + 1, !.at = "running"])
<1> DEFINE f == [e EXCEPT !.todo = Tail(@), !.parent = Len(s) + 1, !.at = "running"]
<1>1. /\ s \in Seq(Events) /\ e \in Executions /\ e.todo \in Seq(Course) /\ Len(s) \in Nat
      /\ CourseInv(s, e) /\ PlaceInv(s, e) /\ LedgerInv(s) /\ WellOrdered(e.todo)
      /\ e.todo # <<>> /\ e.todo[1] \in Roles
  BY DEF RunInv, CourseInv, PlaceInv, Executions, Course
<1>r. e.todo[1] # "repair.executed"
  BY <1>1 DEF Roles
<1>2. /\ Tail(e.todo) \in Seq(Course)
      /\ Tail(e.todo) # <<>> => Tail(e.todo)[1] # "recovered" /\ Tail(e.todo)[1] # "verification.completed"
  BY <1>1, <1>r, NextInCourse
<1>p. e \in Executions /\ Len(s) + 1 \in Nat /\ Tail(e.todo) \in Seq(Types \cup Roles)
  BY <1>1, <1>2 DEF Course
<1>3. /\ f \in Executions /\ f.at = "running" /\ f.todo = Tail(e.todo) /\ f.attempt = e.attempt
      /\ f.faulted = e.faulted
  BY <1>p DEF Executions
<1> HIDE DEF f
<1>4. /\ s # <<>> /\ TypesOf(s) \cap Terminal = {} /\ "run.started" \in TypesOf(s)
      /\ CountIn(s, "repair.executed") = e.attempt
      /\ e.faulted => CountIn(s, "repair.executed") <= CountIn(s, "repair.rolled_back")
  BY <1>1 DEF PlaceInv, Underway
<1>5. /\ Append(s, ev) \in Seq(Events) /\ Append(s, ev) # <<>>
      /\ TypesOf(Append(s, ev)) = TypesOf(s) \cup {ev.type}
  BY <1>1, Appended
<1>6. \A type \in {"repair.executed", "repair.rolled_back"} :
          CountIn(Append(s, ev), type) = CountIn(s, type) /\ CountIn(s, type) \in Nat
  BY <1>1, CountsKept
<1>7. CourseInv(Append(s, ev), f)
  BY <1>1, <1>3, CourseGoesOn
<1>8. PlaceInv(Append(s, ev), f)
  BY <1>2, <1>3, <1>4, <1>5, <1>6 DEF PlaceInv, Underway, Terminal
<1>9. LedgerInv(Append(s, ev))
  BY <1>1, <1>4, LedgerGrows
<1> QED BY <1>3, <1>5, <1>7, <1>8, <1>9 DEF RunInv, f

\* A repair: it was faulted, and it is no longer.
LEMMA RepairKeepsInv ==
    ASSUME NEW s, NEW e, RunInv(s, e), e.at = "running", e.todo # <<>>, Head(e.todo) = "repair.executed",
           e.faulted, NEW ev \in Events, ev.type = "repair.executed"
    PROVE  RunInv(Append(s, ev), [e EXCEPT !.todo = Tail(@), !.parent = Len(s) + 1,
                                           !.faulted = FALSE, !.attempt = @ + 1])
<1> DEFINE f == [e EXCEPT !.todo = Tail(@), !.parent = Len(s) + 1, !.faulted = FALSE, !.attempt = @ + 1]
           rest == Tail(e.todo)
<1>1. /\ s \in Seq(Events) /\ e \in Executions /\ e.todo \in Seq(Course) /\ WellOrdered(e.todo) /\ Len(s) \in Nat
      /\ CourseInv(s, e) /\ PlaceInv(s, e) /\ LedgerInv(s) /\ Head(e.todo) = e.todo[1]
  BY DEF RunInv, CourseInv, Executions, Course
<1>2. e.attempt < MaxAttempts /\ e.attempt \in Nat
  BY <1>1, AttemptsAssumption DEF CourseInv, Contains, Executions
<1>3. /\ rest \in Seq(Course) /\ Len(rest) = 1 /\ rest[1] = "verification.completed" /\ DOMAIN rest = {1}
      /\ WellOrdered(rest)
  <2>1. InPlace(e.todo, 1)
    BY <1>1 DEF WellOrdered
  <2>2. Len(e.todo) = 2 /\ e.todo[2] = "verification.completed"
    BY <1>1, <2>1 DEF InPlace
  <2>3. rest \in Seq(Course) /\ Len(rest) = 1 /\ rest[1] = "verification.completed"
    BY <1>1, <2>2
  <2>4. DOMAIN rest = {1}
    <3> HIDE DEF rest
    <3>1. DOMAIN rest = 1..Len(rest)
      BY <2>3
    <3> QED BY <2>3, <3>1
  <2>5. WellOrdered(rest)
    BY <1>1, Shortened
  <2> QED BY <2>3, <2>4, <2>5
<1>p. e \in Executions /\ Len(s) + 1 \in Nat /\ rest \in Seq(Types \cup Roles) /\ e.attempt + 1 \in 0..MaxAttempts
  BY <1>1, <1>2, <1>3, AttemptsAssumption DEF Course
<1>4. /\ f \in Executions /\ f.at = "running" /\ f.todo = rest /\ f.attempt = e.attempt + 1
      /\ ~f.faulted /\ f.parent = Len(s) + 1
  BY <1>p DEF Executions
<1> HIDE DEF f, rest
<1>5. /\ s # <<>> /\ TypesOf(s) \cap Terminal = {} /\ "run.started" \in TypesOf(s)
      /\ CountIn(s, "repair.executed") = e.attempt
      /\ e.faulted => CountIn(s, "repair.executed") <= CountIn(s, "repair.rolled_back")
  BY <1>1 DEF PlaceInv, Underway
<1>6. /\ Append(s, ev) \in Seq(Events) /\ Append(s, ev) # <<>>
      /\ Len(Append(s, ev)) = Len(s) + 1 /\ Append(s, ev)[Len(s) + 1] = ev
      /\ TypesOf(Append(s, ev)) = TypesOf(s) \cup {ev.type}
  BY <1>1, Appended
<1>7. /\ CountIn(Append(s, ev), "repair.executed") = CountIn(s, "repair.executed") + 1
      /\ CountIn(s, "repair.executed") \in Nat
  BY <1>1, CountsMore
<1>8. \A type \in {"repair.rolled_back", "fault.injected", "run.started"} :
          CountIn(Append(s, ev), type) = CountIn(s, type) /\ CountIn(s, type) \in Nat
  BY <1>1, CountsKept
<1>9. CourseInv(Append(s, ev), f)
  BY <1>3, <1>4 DEF CourseInv, Contains
<1>10. PlaceInv(Append(s, ev), f)
  BY <1>1, <1>3, <1>4, <1>5, <1>6, <1>7 DEF PlaceInv, Underway, Terminal
<1>11. LedgerInv(Append(s, ev))
  BY <1>1, <1>2, <1>5, <1>6, <1>7, <1>8, AttemptsAssumption DEF LedgerInv, Terminal
<1> QED BY <1>4, <1>6, <1>9, <1>10, <1>11 DEF RunInv, f

\* A verification decides how the run goes on.
LEMMA VerifyKeepsInv ==
    ASSUME NEW s, NEW e, RunInv(s, e), e.at = "running", e.todo # <<>>, Head(e.todo) = "verification.completed",
           NEW passed \in BOOLEAN, NEW ev, ev = Event("verification.completed", e.parent, passed)
    PROVE  RunInv(Append(s, ev), [e EXCEPT !.todo = AfterVerification(passed, e.attempt), !.parent = Len(s) + 1,
                                           !.failing = IF @ > 0 THEN @ - 1 ELSE 0])
<1> DEFINE f == [e EXCEPT !.todo = AfterVerification(passed, e.attempt), !.parent = Len(s) + 1,
                          !.failing = IF @ > 0 THEN @ - 1 ELSE 0]
           next == AfterVerification(passed, e.attempt)
<1>1. /\ s \in Seq(Events) /\ e \in Executions /\ e.todo \in Seq(Course) /\ WellOrdered(e.todo) /\ Len(s) \in Nat
      /\ CourseInv(s, e) /\ PlaceInv(s, e) /\ LedgerInv(s) /\ Head(e.todo) = e.todo[1]
  BY DEF RunInv, CourseInv, Executions, Course
<1>2. /\ e.attempt \in 0..MaxAttempts /\ e.parent \in Nat
      /\ (IF e.failing > 0 THEN e.failing - 1 ELSE 0) \in 0..MaxAttempts
  BY <1>1, AttemptsAssumption DEF Executions
<1>3. /\ next \in Seq(Course) /\ WellOrdered(next) /\ next # <<>>
      /\ ~Contains(next, "fault.injected") /\ ~Contains(next, "topology.bound")
      /\ Contains(next, "repair.executed") => e.attempt < MaxAttempts
      /\ next[1] # "verification.completed" /\ (next[1] = "recovered" => passed)
  BY <1>2, AfterVerificationOrdered, Zenon
<1>p. e \in Executions /\ Len(s) + 1 \in Nat /\ next \in Seq(Types \cup Roles)
  BY <1>1, <1>3 DEF Course
<1> HIDE DEF next
<1>4. /\ f \in Executions /\ f.at = "running" /\ f.todo = next /\ f.attempt = e.attempt
      /\ f.faulted = e.faulted
  BY <1>p, <1>2 DEF Executions, next
<1>5. ev \in Events /\ ev.type = "verification.completed" /\ ev.parent = e.parent /\ ev.passed = passed
  BY <1>2 DEF Events, Event, Types
<1> HIDE DEF f
<1>6. /\ s # <<>> /\ TypesOf(s) \cap Terminal = {} /\ "run.started" \in TypesOf(s)
      /\ CountIn(s, "repair.executed") = e.attempt
      /\ e.faulted => CountIn(s, "repair.executed") <= CountIn(s, "repair.rolled_back")
  BY <1>1 DEF PlaceInv, Underway
<1>7. /\ Append(s, ev) \in Seq(Events) /\ Append(s, ev) # <<>>
      /\ Len(Append(s, ev)) = Len(s) + 1 /\ Append(s, ev)[Len(s) + 1] = ev
      /\ TypesOf(Append(s, ev)) = TypesOf(s) \cup {ev.type}
  BY <1>1, <1>5, Appended
<1>8. e.parent = Len(s) /\ s[Len(s)].type = "repair.executed" /\ Len(s) \in DOMAIN s /\ Append(s, ev)[Len(s)] = s[Len(s)]
      /\ Len(s) >= 1 /\ DOMAIN Append(s, ev) = DOMAIN s \cup {Len(s) + 1}
  <2>1. e.parent = Len(s) /\ s[Len(s)].type = "repair.executed"
    BY <1>1 DEF PlaceInv
  <2>2. Len(s) \in DOMAIN s /\ Len(s) >= 1
    BY <1>1, <1>6
  <2> QED BY <1>1, <1>5, <2>1, <2>2, Appended
<1>9. \A type \in {"repair.executed", "repair.rolled_back"} :
          CountIn(Append(s, ev), type) = CountIn(s, type) /\ CountIn(s, type) \in Nat
  BY <1>1, <1>5, CountsKept
<1>10. CourseInv(Append(s, ev), f)
  BY <1>3, <1>4 DEF CourseInv
<1>11. passed => Proven(Append(s, ev), Len(Append(s, ev)))
  <2> DEFINE u == Append(s, ev)
  <2>1. /\ Len(u) = Len(s) + 1 /\ Len(u) - 1 = Len(s) /\ Len(u) > 1 /\ Len(u) \in DOMAIN u
        /\ u[Len(u)] = ev /\ u[Len(s)].type = "repair.executed"
    BY <1>1, <1>7, <1>8
  <2> HIDE DEF u
  <2>2. passed => Proven(u, Len(u))
    BY <1>5, <1>8, <2>1 DEF Proven
  <2> QED BY <2>2 DEF u
<1>12. PlaceInv(Append(s, ev), f)
  BY <1>3, <1>4, <1>5, <1>6, <1>7, <1>9, <1>11 DEF PlaceInv, Underway, Terminal
<1>13. LedgerInv(Append(s, ev))
  BY <1>1, <1>5, <1>6, LedgerGrows
<1> QED BY <1>4, <1>7, <1>10, <1>12, <1>13 DEF RunInv, f

\* A rollback: it is faulted again.
LEMMA RollBackKeepsInv ==
    ASSUME NEW s, NEW e, RunInv(s, e), e.at = "running", e.todo # <<>>, Head(e.todo) = "repair.rolled_back",
           NEW ev \in Events, ev.type = "repair.rolled_back"
    PROVE  RunInv(Append(s, ev), [e EXCEPT !.todo = Tail(@), !.parent = Len(s) + 1, !.faulted = TRUE])
<1> DEFINE f == [e EXCEPT !.todo = Tail(@), !.parent = Len(s) + 1, !.faulted = TRUE]
<1>1. /\ s \in Seq(Events) /\ e \in Executions /\ e.todo \in Seq(Course) /\ WellOrdered(e.todo) /\ Len(s) \in Nat
      /\ CourseInv(s, e) /\ PlaceInv(s, e) /\ LedgerInv(s) /\ Head(e.todo) = e.todo[1]
  BY DEF RunInv, CourseInv, Executions, Course
<1>2. /\ Tail(e.todo) \in Seq(Course)
      /\ Tail(e.todo) # <<>> => Tail(e.todo)[1] # "recovered" /\ Tail(e.todo)[1] # "verification.completed"
  BY <1>1, NextInCourse
<1>p. e \in Executions /\ Len(s) + 1 \in Nat /\ Tail(e.todo) \in Seq(Types \cup Roles)
  BY <1>1, <1>2 DEF Course
<1>3. f \in Executions /\ f.at = "running" /\ f.todo = Tail(e.todo) /\ f.attempt = e.attempt
  BY <1>p DEF Executions
<1> HIDE DEF f
<1>4. /\ s # <<>> /\ TypesOf(s) \cap Terminal = {} /\ "run.started" \in TypesOf(s)
      /\ CountIn(s, "repair.executed") = e.attempt
      /\ e.faulted => CountIn(s, "repair.executed") <= CountIn(s, "repair.rolled_back")
  BY <1>1 DEF PlaceInv, Underway
<1>5. /\ Append(s, ev) \in Seq(Events) /\ Append(s, ev) # <<>>
      /\ Len(Append(s, ev)) = Len(s) + 1 /\ Append(s, ev)[Len(s) + 1] = ev
      /\ TypesOf(Append(s, ev)) = TypesOf(s) \cup {ev.type}
  BY <1>1, Appended
<1>6. /\ CountIn(Append(s, ev), "repair.rolled_back") = CountIn(s, "repair.rolled_back") + 1
      /\ CountIn(s, "repair.rolled_back") \in Nat
  BY <1>1, CountsMore
<1>7. /\ CountIn(Append(s, ev), "repair.executed") = CountIn(s, "repair.executed")
      /\ CountIn(s, "repair.executed") \in Nat
  BY <1>1, CountsKept
<1>8. CountIn(s, "repair.executed") <= CountIn(s, "repair.rolled_back") + 1
  BY <1>1 DEF LedgerInv
<1>9. CourseInv(Append(s, ev), f)
  BY <1>1, <1>3, CourseGoesOn
<1>10. PlaceInv(Append(s, ev), f)
  BY <1>2, <1>3, <1>4, <1>5, <1>6, <1>7, <1>8 DEF PlaceInv, Underway, Terminal
<1>11. LedgerInv(Append(s, ev))
  BY <1>1, <1>4, LedgerGrows
<1> QED BY <1>3, <1>5, <1>9, <1>10, <1>11 DEF RunInv, f

\* A run recovers after a verification that passed.
LEMMA RecoverKeepsInv ==
    ASSUME NEW s, NEW e, RunInv(s, e), e.at = "running", e.todo # <<>>, Head(e.todo) = "recovered",
           NEW ev \in Events, ev.type = "recovered"
    PROVE  RunInv(Append(s, ev), Gone)
<1>1. /\ s \in Seq(Events) /\ e \in Executions /\ e.todo \in Seq(Course) /\ WellOrdered(e.todo) /\ Len(s) \in Nat
      /\ CourseInv(s, e) /\ PlaceInv(s, e) /\ LedgerInv(s) /\ Head(e.todo) = e.todo[1]
  BY DEF RunInv, CourseInv, Executions, Course
<1>2. /\ s # <<>> /\ Proven(s, Len(s))
  BY <1>1 DEF PlaceInv
<1>3. /\ Append(s, ev) \in Seq(Events) /\ Append(s, ev) # <<>>
      /\ Len(Append(s, ev)) = Len(s) + 1 /\ Append(s, ev)[Len(s) + 1] = ev
      /\ TypesOf(Append(s, ev)) = TypesOf(s) \cup {ev.type}
  BY <1>1, Appended
<1>4. Proven(Append(s, ev), Len(s))
  <2>1. Len(s) - 1 \in DOMAIN s /\ Len(s) \in DOMAIN s
    BY <1>1, <1>2 DEF Proven
  <2>2. Append(s, ev)[Len(s)] = s[Len(s)] /\ Append(s, ev)[Len(s) - 1] = s[Len(s) - 1]
    BY <1>1, <2>1, Appended
  <2>3. Len(s) \in DOMAIN Append(s, ev)
    BY <1>1, <2>1, Appended
  <2> QED BY <1>2, <2>2, <2>3 DEF Proven
<1>5. \A type \in {"repair.executed", "repair.rolled_back", "fault.injected", "run.started"} :
          CountIn(Append(s, ev), type) = CountIn(s, type) /\ CountIn(s, type) \in Nat
  BY <1>1, CountsKept
<1>6. LedgerInv(Append(s, ev))
  BY <1>1, <1>2, <1>3, <1>4, <1>5 DEF LedgerInv
<1> QED BY <1>3, <1>6, GoneHasInv DEF RunInv

-----------------------------------------------------------------------------
(* The invariant holds of every reachable state.                           *)

\* No key is reserved at first.
LEMMA InitHasInv == Init => Inv
<1> SUFFICES ASSUME Init, NEW k \in Keys PROVE RunInv(<<>>, Gone)
  BY LossesAssumption DEF Init, Inv
<1> DEFINE s == <<>>
<1>1. s \in Seq(Events) /\ TypesOf(s) = {} /\ s = <<>>
  BY DEF TypesOf
<1> HIDE DEF s
<1>2. \A type : CountIn(s, type) = 0
  BY <1>1, Counted
<1>3. LedgerInv(s)
  BY <1>1, <1>2, AttemptsAssumption DEF LedgerInv
<1> QED BY <1>1, <1>3, GoneHasInv DEF RunInv

\* A step of one run keeps the invariant if it keeps the run's.
LEMMA OneRunMoves ==
    ASSUME Inv, NEW k \in Keys, NEW s, NEW e, RunInv(s, e),
           ledger' = [ledger EXCEPT ![k] = s], exec' = [exec EXCEPT ![k] = e],
           expired' \subseteq Keys, losses' \in 0..MaxLosses
    PROVE  Inv'
<1>1. \A j \in Keys : RunInv(ledger'[j], exec'[j])
  BY DEF Inv
<1>2. /\ DOMAIN ledger' = Keys /\ ledger' = [j \in Keys |-> ledger'[j]]
      /\ DOMAIN exec' = Keys /\ exec' = [j \in Keys |-> exec'[j]]
  BY DEF Inv
<1> QED BY <1>1, <1>2 DEF Inv

\* What is recorded is an event.
LEMMA Recordable ==
    ASSUME Inv, NEW k \in Keys
    PROVE  /\ ledger[k] \in Seq(Events) /\ exec[k] \in Executions /\ RunInv(ledger[k], exec[k])
           /\ Last(k) \in Nat /\ exec[k].parent \in Nat
           /\ \A type \in Types, parent \in Nat, passed \in BOOLEAN :
                  Event(type, parent, passed) \in Events /\ Event(type, parent, passed).type = type
<1>1. ledger[k] \in Seq(Events) /\ exec[k] \in Executions /\ RunInv(ledger[k], exec[k])
  BY DEF Inv, RunInv
<1> QED BY <1>1 DEF Executions, Events, Event, Last

\* A run that fails is over.
LEMMA FailKeepsInv ==
    ASSUME Inv, NEW k \in Keys, Fail(k), Executing(k), expired' \subseteq Keys, losses' \in 0..MaxLosses
    PROVE  Inv'
<1> DEFINE ev == Event("failed", exec[k].parent, FALSE)
<1>1. ev \in Events /\ ev.type = "failed" /\ RunInv(ledger[k], exec[k])
  BY Recordable DEF Types, Terminal
<1>2. ledger' = [ledger EXCEPT ![k] = Append(ledger[k], ev)] /\ exec' = [exec EXCEPT ![k] = Gone]
  BY DEF Fail, Record, Go, Inv
<1> HIDE DEF ev
<1>3. RunInv(Append(ledger[k], ev), Gone)
  BY <1>1, EndKeepsInv DEF Executing
<1> QED BY <1>2, <1>3, OneRunMoves

\* A step that records an event ev and leaves the execution f keeps the invariant
\* if it keeps the run's.
LEMMA RunRecords ==
    ASSUME Inv, NEW k \in Keys, NEW type, NEW parent, NEW passed, NEW f,
           Record(k, type, parent, passed), Go(k, f), UNCHANGED <<expired, losses>>,
           RunInv(Append(ledger[k], Event(type, parent, passed)), f)
    PROVE  Inv'
<1>1. ledger' = [ledger EXCEPT ![k] = Append(ledger[k], Event(type, parent, passed))] /\ exec' = [exec EXCEPT ![k] = f]
  BY DEF Record, Go, Inv
<1>2. expired' \subseteq Keys /\ losses' \in 0..MaxLosses
  BY DEF Inv
<1> QED BY <1>1, <1>2, OneRunMoves

\* The actions, one by one, keep the invariant.
LEMMA ReserveStep ==
    ASSUME Inv, NEW k \in Keys, NEW case \in Cases, NEW failing \in 0..MaxAttempts, Reserve(k, case, failing)
    PROVE  Inv'
<1>1. ledger[k] = <<>>
  BY DEF Reserve, Reserved
<1>2. RunInv(Append(ledger[k], Event("reserved", 0, FALSE)),
             [Gone EXCEPT !.at = "reserving", !.case = case, !.failing = failing])
  BY <1>1, ReserveKeepsInv
<1> QED BY <1>2, RunRecords DEF Reserve

\* Starting a reserved run.
LEMMA LaunchStep ==
    ASSUME Inv, NEW k \in Keys, Launch(k)
    PROVE  Inv'
<1>1. RunInv(Append(ledger[k], Event("run.started", Last(k), FALSE)),
             [exec[k] EXCEPT !.at = "launched", !.todo = Script(exec[k].case)])
  BY LaunchKeepsInv, Recordable DEF Launch, Last
<1> QED BY <1>1, RunRecords DEF Launch

\* Finding a run interrupted.
LEMMA ReconcileStep ==
    ASSUME Inv, NEW k \in Keys, Reconcile(k)
    PROVE  Inv'
<1>1. Event("interrupted", Last(k), FALSE) \in Events /\ Event("interrupted", Last(k), FALSE).type = "interrupted"
  BY Recordable DEF Types
<1>2. RunInv(Append(ledger[k], Event("interrupted", Last(k), FALSE)), [Gone EXCEPT !.at = "interrupting"])
  BY <1>1, ReconcileKeepsInv, Recordable DEF Reconcile, Started, Final
<1> QED BY <1>2, RunRecords DEF Reconcile

\* Closing it.
LEMMA InterruptStep ==
    ASSUME Inv, NEW k \in Keys, Interrupt(k)
    PROVE  Inv'
<1>1. Event("failed", Last(k), FALSE) \in Events /\ Event("failed", Last(k), FALSE).type = "failed"
  BY Recordable DEF Types, Terminal
<1>2. RunInv(Append(ledger[k], Event("failed", Last(k), FALSE)), Gone)
  BY <1>1, EndKeepsInv, Recordable DEF Interrupt
<1> QED BY <1>2, RunRecords DEF Interrupt

\* The topology answers or does not.
LEMMA BindTopologyStep ==
    ASSUME Inv, NEW k \in Keys, BindTopology(k)
    PROVE  Inv'
<1>1. expired' \subseteq Keys /\ losses' \in 0..MaxLosses
  BY DEF Inv, BindTopology
<1>2. CASE Fail(k)
  BY <1>1, <1>2, FailKeepsInv DEF BindTopology, Executing
<1>3. CASE Go(k, [exec[k] EXCEPT !.at = "running"]) /\ UNCHANGED ledger
  <2>1. RunInv(ledger[k], [exec[k] EXCEPT !.at = "running"])
    BY BoundKeepsInv, Recordable DEF BindTopology
  <2>2. ledger' = [ledger EXCEPT ![k] = ledger[k]]
    BY <1>3 DEF Inv
  <2> QED BY <1>1, <1>3, <2>1, <2>2, OneRunMoves DEF Go
<1> QED BY <1>2, <1>3 DEF BindTopology

\* An event follows.
LEMMA AdvanceStep ==
    ASSUME Inv, NEW k \in Keys, Advance(k)
    PROVE  Inv'
<1> DEFINE type == Head(exec[k].todo)
           ev == Event(type, exec[k].parent, FALSE)
           f == [Done(k) EXCEPT !.faulted = @ \/ type = "fault.injected"]
           g == [exec[k] EXCEPT !.todo = Tail(@), !.parent = Len(ledger[k]) + 1,
                                !.faulted = @ \/ type = "fault.injected"]
<1>1. /\ exec[k].at = "running" /\ exec[k].todo # <<>>
      /\ type \notin Roles \cup Terminal \cup {"repair.executed", "verification.completed", "repair.rolled_back"}
  BY DEF Advance
<1>2. type \in Types
  BY <1>1, Recordable DEF Executions
<1>3. ev \in Events /\ ev.type = type
  BY <1>2, Recordable
<1> HIDE DEF ev
<1>4. RunInv(Append(ledger[k], ev), g)
  BY <1>1, <1>3, AdvanceKeepsInv, Recordable
<1>5. f = g
  BY Recordable DEF Done, Last, Executions
<1> QED BY <1>4, <1>5, RunRecords DEF Advance, ev

\* A role is called or the run fails.
LEMMA CallRoleStep ==
    ASSUME Inv, NEW k \in Keys, CallRole(k)
    PROVE  Inv'
<1>1. /\ exec[k].at = "running" /\ exec[k].todo # <<>> /\ Head(exec[k].todo) \in Roles
      /\ expired' \subseteq Keys /\ losses' \in 0..MaxLosses
  BY DEF CallRole, Doing, Inv
<1>2. CASE Fail(k)
  BY <1>1, <1>2, FailKeepsInv DEF Executing
<1>3. CASE /\ Record(k, "role.working", exec[k].parent, FALSE)
           /\ Go(k, [exec[k] EXCEPT !.at = "answering", !.parent = Last(k) + 1])
  <2> DEFINE ev == Event("role.working", exec[k].parent, FALSE)
  <2>1. ev \in Events /\ ev.type = "role.working"
    BY Recordable DEF Types
  <2> HIDE DEF ev
  <2>2. RunInv(Append(ledger[k], ev), [exec[k] EXCEPT !.at = "answering", !.parent = Last(k) + 1])
    BY <1>1, <2>1, CallKeepsInv, Recordable DEF Last
  <2> QED BY <1>3, <2>2, RunRecords DEF CallRole, ev
<1> QED BY <1>2, <1>3 DEF CallRole

\* It answers or the run fails.
LEMMA RoleAnswersStep ==
    ASSUME Inv, NEW k \in Keys, RoleAnswers(k)
    PROVE  Inv'
<1>1. exec[k].at = "answering" /\ expired' \subseteq Keys /\ losses' \in 0..MaxLosses
  BY DEF RoleAnswers, Inv
<1>2. CASE Fail(k)
  BY <1>1, <1>2, FailKeepsInv DEF Executing
<1>3. CASE /\ Record(k, "role.response", exec[k].parent, FALSE)
           /\ Go(k, [Done(k) EXCEPT !.at = "running"])
  <2> DEFINE ev == Event("role.response", exec[k].parent, FALSE)
             g == [exec[k] EXCEPT !.todo = Tail(@), !.parent = Len(ledger[k]) + 1, !.at = "running"]
  <2>1. ev \in Events /\ ev.type = "role.response"
    BY Recordable DEF Types
  <2> HIDE DEF ev
  <2>2. RunInv(Append(ledger[k], ev), g)
    BY <1>1, <2>1, AnswerKeepsInv, Recordable
  <2>3. [Done(k) EXCEPT !.at = "running"] = g
    BY Recordable DEF Done, Last, Executions
  <2> QED BY <1>3, <2>2, <2>3, RunRecords DEF RoleAnswers, ev
<1> QED BY <1>2, <1>3 DEF RoleAnswers

\* The repair, or the refusal to repair.
LEMMA RepairStep ==
    ASSUME Inv, NEW k \in Keys, Repair(k)
    PROVE  Inv'
<1>1. /\ exec[k].at = "running" /\ exec[k].todo # <<>> /\ Head(exec[k].todo) = "repair.executed"
      /\ expired' \subseteq Keys /\ losses' \in 0..MaxLosses
  BY DEF Repair, Doing, Inv
<1>2. CASE ~exec[k].faulted
  BY <1>1, <1>2, FailKeepsInv DEF Repair, Executing
<1>3. CASE exec[k].faulted
  <2> DEFINE ev == Event("repair.executed", exec[k].parent, FALSE)
             f == [Done(k) EXCEPT !.faulted = FALSE, !.attempt = @ + 1]
             g == [exec[k] EXCEPT !.todo = Tail(@), !.parent = Len(ledger[k]) + 1,
                                  !.faulted = FALSE, !.attempt = @ + 1]
  <2>1. ev \in Events /\ ev.type = "repair.executed"
    BY Recordable DEF Types
  <2>0. Record(k, "repair.executed", exec[k].parent, FALSE) /\ Go(k, f)
    BY <1>3 DEF Repair
  <2> HIDE DEF ev
  <2>2. RunInv(Append(ledger[k], ev), g)
    BY <1>1, <1>3, <2>1, RepairKeepsInv, Recordable
  <2>3. f = g
    BY Recordable DEF Done, Last, Executions
  <2> QED BY <2>0, <2>2, <2>3, RunRecords DEF Repair, ev
<1> QED BY <1>2, <1>3

\* The verification.
LEMMA VerifyStep ==
    ASSUME Inv, NEW k \in Keys, Verify(k)
    PROVE  Inv'
<1> DEFINE passed == ~exec[k].faulted /\ exec[k].failing = 0
           ev == Event("verification.completed", exec[k].parent, passed)
           f == [Done(k) EXCEPT !.failing = IF @ > 0 THEN @ - 1 ELSE 0,
                                !.todo = AfterVerification(passed, exec[k].attempt)]
           g == [exec[k] EXCEPT !.todo = AfterVerification(passed, exec[k].attempt),
                                !.parent = Len(ledger[k]) + 1,
                                !.failing = IF @ > 0 THEN @ - 1 ELSE 0]
<1>1. exec[k].at = "running" /\ exec[k].todo # <<>> /\ Head(exec[k].todo) = "verification.completed"
  BY DEF Verify, Doing
<1>2. passed \in BOOLEAN
  OBVIOUS
<1>3. f = g
  BY Recordable DEF Done, Last, Executions
<1>4. Record(k, "verification.completed", exec[k].parent, passed) /\ Go(k, f)
  BY DEF Verify
<1> HIDE DEF passed
<1>5. RunInv(Append(ledger[k], ev), g)
  BY <1>1, <1>2, VerifyKeepsInv, Recordable
<1> HIDE DEF f, g
<1> QED BY <1>3, <1>4, <1>5, RunRecords DEF Verify

\* The rollback.
LEMMA RollBackStep ==
    ASSUME Inv, NEW k \in Keys, RollBack(k)
    PROVE  Inv'
<1> DEFINE ev == Event("repair.rolled_back", exec[k].parent, FALSE)
           g == [exec[k] EXCEPT !.todo = Tail(@), !.parent = Len(ledger[k]) + 1, !.faulted = TRUE]
<1>1. exec[k].at = "running" /\ exec[k].todo # <<>> /\ Head(exec[k].todo) = "repair.rolled_back"
  BY DEF RollBack, Doing
<1>2. ev \in Events /\ ev.type = "repair.rolled_back"
  BY Recordable DEF Types
<1> HIDE DEF ev
<1>3. RunInv(Append(ledger[k], ev), g)
  BY <1>1, <1>2, RollBackKeepsInv, Recordable
<1>4. [Done(k) EXCEPT !.faulted = TRUE] = g
  BY Recordable DEF Done, Last, Executions
<1> QED BY <1>3, <1>4, RunRecords DEF RollBack, ev

\* The end.
LEMMA FinishStep ==
    ASSUME Inv, NEW k \in Keys, Finish(k)
    PROVE  Inv'
<1> DEFINE type == Head(exec[k].todo)
           ev == Event(type, exec[k].parent, FALSE)
<1>1. exec[k].at = "running" /\ exec[k].todo # <<>> /\ type \in Terminal
  BY DEF Finish, Doing
<1>2. ev \in Events /\ ev.type = type
  BY <1>1, Recordable DEF Types
<1> HIDE DEF ev
<1>3. RunInv(Append(ledger[k], ev), Gone)
  <2>1. CASE type = "recovered"
    BY <1>1, <1>2, <2>1, RecoverKeepsInv, Recordable
  <2>2. CASE type \in {"failed", "stopped"}
    BY <1>1, <1>2, <2>2, EndKeepsInv, Recordable
  <2> QED BY <1>1, <2>1, <2>2 DEF Terminal
<1> QED BY <1>3, RunRecords DEF Finish, ev

\* An event is refused.
LEMMA LedgerFailsStep ==
    ASSUME Inv, NEW k \in Keys, LedgerFails(k)
    PROVE  Inv'
<1>1. expired' \subseteq Keys /\ losses' \in 0..MaxLosses /\ Executing(k)
  BY LossesAssumption DEF LedgerFails, Inv
<1>2. CASE Fail(k)
  BY <1>1, <1>2, FailKeepsInv
<1>3. CASE Go(k, Gone) /\ UNCHANGED ledger
  <2>1. RunInv(ledger[k], Gone)
    BY Recordable, GoneHasInv DEF RunInv
  <2>2. ledger' = [ledger EXCEPT ![k] = ledger[k]]
    BY <1>3 DEF Inv
  <2> QED BY <1>1, <1>3, <2>1, <2>2, OneRunMoves DEF Go
<1> QED BY <1>2, <1>3 DEF LedgerFails

\* Every execution is lost.
LEMMA RestartStep ==
    ASSUME Inv, Restart
    PROVE  Inv'
<1>1. losses' \in 0..MaxLosses
  BY LossesAssumption DEF Restart, Inv
<1>2. ASSUME NEW k \in Keys PROVE RunInv(ledger'[k], exec'[k])
  <2>1. exec'[k] = Gone /\ ledger'[k] = ledger[k]
    BY DEF Restart
  <2> QED BY <2>1, Recordable, GoneHasInv DEF RunInv
<1> QED BY <1>1, <1>2 DEF Restart, Inv

\* Every step keeps the invariant.
LEMMA NextKeepsInv == Inv /\ [Next]_vars => Inv'
<1> SUFFICES ASSUME Inv, [Next]_vars PROVE Inv'
  OBVIOUS
<1>1. ASSUME NEW k \in Keys, Execute(k) PROVE Inv'
  BY <1>1, LaunchStep, BindTopologyStep, AdvanceStep, CallRoleStep, RoleAnswersStep, RepairStep,
     VerifyStep, RollBackStep, FinishStep, InterruptStep DEF Execute
<1>2. ASSUME NEW k \in Keys, LeaseExpires(k) PROVE Inv'
  BY <1>2 DEF LeaseExpires, Inv
<1>3. CASE UNCHANGED vars
  BY <1>3 DEF vars, Inv
<1> QED BY <1>1, <1>2, <1>3, ReserveStep, ReconcileStep, LedgerFailsStep, RestartStep DEF Next

\* The invariant holds of every reachable state.
THEOREM Invariance == Spec => []Inv
  BY InitHasInv, NextKeepsInv, PTL DEF Spec

-----------------------------------------------------------------------------
(* What the ledger promises of the demo's runs.                            *)

\* The ledger and the executions keep their types; in particular a run is never
\* repaired more often than it may be.
THEOREM TypesKept == Spec => []TypeOK
<1>1. Inv => TypeOK
  BY DEF Inv, RunInv, TypeOK, Events
<1> QED BY <1>1, Invariance, PTL

\* However often its key is used again and wherever its execution was lost, a run
\* is started once, injects its fault once, and repairs nothing that stands repaired.
THEOREM OneRun == Spec => []OneRunPerKey
<1>1. Inv => OneRunPerKey
  <2> SUFFICES ASSUME Inv, NEW k \in Keys
               PROVE  /\ Count(k, "run.started") <= 1 /\ Count(k, "fault.injected") <= 1
                      /\ Count(k, "repair.executed") <= MaxAttempts
                      /\ Count(k, "repair.executed") <= Count(k, "repair.rolled_back") + 1
    BY DEF OneRunPerKey
  <2>1. LedgerInv(ledger[k])
    BY Recordable DEF RunInv
  <2>2. \A type : Count(k, type) = CountIn(ledger[k], type)
    BY DEF Count, CountIn
  <2> QED BY <2>1, <2>2 DEF LedgerInv
<1> QED BY <1>1, Invariance, PTL

\* A run that recovered ended with a passed verification of the repair before it.
THEOREM RecoveryIsVerified == Spec => []RecoveredIsVerified
<1>1. Inv => RecoveredIsVerified
  <2> SUFFICES ASSUME Inv, NEW k \in Keys, "recovered" \in TypesOf(ledger[k])
               PROVE  LET verified == ledger[k][Last(k) - 1]
                      IN  /\ verified.type = "verification.completed" /\ verified.passed
                          /\ ledger[k][verified.parent].type = "repair.executed"
                          /\ \A n \in verified.parent + 1..Last(k) :
                                 ledger[k][n].type \notin {"repair.executed", "repair.rolled_back"}
    BY DEF RecoveredIsVerified
  <2> DEFINE s == ledger[k]
             n == Len(s)
  <2>1. s[n].type = "recovered" /\ Proven(s, n - 1) /\ n \in Nat /\ Last(k) = n
    BY Recordable DEF RunInv, LedgerInv, Last
  <2> HIDE DEF s, n
  <2>2. /\ s[n - 1].type = "verification.completed" /\ s[n - 1].passed /\ s[n - 1].parent = n - 2
        /\ s[n - 2].type = "repair.executed" /\ (n - 2) + 1 = n - 1
    BY <2>1 DEF Proven
  <2>3. \A i \in n - 1..n : i = n - 1 \/ i = n
    BY <2>1
  <2>4. \A i \in n - 1..n : s[i].type \notin {"repair.executed", "repair.rolled_back"}
    BY <2>1, <2>2, <2>3
  <2> QED BY <2>1, <2>2, <2>4 DEF s
<1> QED BY <1>1, Invariance, PTL

-----------------------------------------------------------------------------
(* The loop keeps a recorded run (RecordedRun).                            *)

AbstractOf(s) == [n \in DOMAIN s |-> Abstract(s[n])]
Log == [k \in Keys |-> AbstractOf(ledger[k])]

\* To record an event is to append what it stands for.
LEMMA AbstractAppended ==
    ASSUME NEW s \in Seq(Events), NEW ev \in Events
    PROVE  /\ AbstractOf(Append(s, ev)) = Append(AbstractOf(s), Abstract(ev))
           /\ DOMAIN AbstractOf(s) = DOMAIN s /\ (AbstractOf(s) = <<>> <=> s = <<>>)
<1> DEFINE A == AbstractOf(s)
           B == AbstractOf(Append(s, ev))
           Images == {A[n] : n \in DOMAIN s} \cup {Abstract(ev)}
<1>1. DOMAIN s = 1..Len(s) /\ Len(s) \in Nat
  OBVIOUS
<1>2. A = [n \in 1..Len(s) |-> A[n]] /\ \A n \in 1..Len(s) : A[n] \in Images /\ A[n] = Abstract(s[n])
  BY <1>1 DEF AbstractOf
<1>3. A \in Seq(Images) /\ Len(A) = Len(s) /\ DOMAIN A = 1..Len(s)
  BY <1>1, <1>2, IsASeq
<1>4. /\ Append(A, Abstract(ev)) \in Seq(Images) /\ Len(Append(A, Abstract(ev))) = Len(s) + 1
      /\ \A n \in 1..Len(s) : Append(A, Abstract(ev))[n] = A[n]
      /\ Append(A, Abstract(ev))[Len(s) + 1] = Abstract(ev)
  BY <1>3, AppendProperties
<1>5. DOMAIN B = 1..(Len(s) + 1) /\ B = [n \in 1..(Len(s) + 1) |-> B[n]]
  BY <1>1, Appended DEF AbstractOf
<1>6. \A n \in 1..Len(s) : B[n] = A[n]
  BY <1>1, <1>2, Appended DEF AbstractOf
<1>7. B[Len(s) + 1] = Abstract(ev)
  BY <1>1, Appended DEF AbstractOf
<1>8. B \in Seq(Images) /\ Len(B) = Len(s) + 1
  <2>1. \A n \in 1..(Len(s) + 1) : B[n] \in Images
    BY <1>1, <1>2, <1>6, <1>7
  <2> HIDE DEF B, Images
  <2> QED BY <1>1, <1>5, <2>1, IsASeq
<1> HIDE DEF A, B, Images
<1>9. B = Append(A, Abstract(ev))
  <2>1. \A n \in 1..Len(B) : B[n] = Append(A, Abstract(ev))[n]
    BY <1>1, <1>4, <1>6, <1>7, <1>8
  <2> QED BY <1>4, <1>8, <2>1, SeqEqual
<1>10. DOMAIN A = DOMAIN s /\ (A = <<>> <=> s = <<>>)
  BY <1>1, <1>3
<1> QED BY <1>9, <1>10 DEF A, B

\* What happened to the recorded run is what the ledger shows.
LEMMA AbstractHappened ==
    ASSUME NEW s \in Seq(Events)
    PROVE  /\ Recorded!Happened({"started"}, AbstractOf(s)) <=> "run.started" \in TypesOf(s)
           /\ Recorded!Happened(Recorded!Endings, AbstractOf(s)) <=> TypesOf(s) \cap Terminal # {}
           /\ Recorded!Happened({"bound"}, AbstractOf(s)) <=> "topology.bound" \in TypesOf(s)
<1>1. DOMAIN AbstractOf(s) = DOMAIN s /\ \A n \in DOMAIN s : AbstractOf(s)[n] = Abstract(s[n])
  BY DEF AbstractOf
<1>2. ASSUME NEW ev \in Events
      PROVE  /\ Abstract(ev) = "started" <=> ev.type = "run.started"
             /\ Abstract(ev) \in Terminal <=> ev.type \in Terminal
             /\ Abstract(ev) = "bound" <=> ev.type = "topology.bound"
  BY DEF Abstract, Terminal
<1>3. \A n \in DOMAIN s : s[n] \in Events
  OBVIOUS
<1>4. Recorded!Endings = Terminal
  BY DEF Recorded!Endings, Terminal
<1>5. Recorded!Happened({"started"}, AbstractOf(s)) <=> \E n \in DOMAIN s : s[n].type = "run.started"
  BY <1>1, <1>2, <1>3 DEF Recorded!Happened
<1>6. Recorded!Happened(Terminal, AbstractOf(s)) <=> \E n \in DOMAIN s : s[n].type \in Terminal
  BY <1>1, <1>2, <1>3 DEF Recorded!Happened
<1>7. Recorded!Happened({"bound"}, AbstractOf(s)) <=> \E n \in DOMAIN s : s[n].type = "topology.bound"
  BY <1>1, <1>2, <1>3 DEF Recorded!Happened
<1> QED BY <1>4, <1>5, <1>6, <1>7 DEF TypesOf

\* An event of the type may come after the events s.
MayFollow(s, type) ==
    \/ s = <<>> /\ type = "reserved"
    \/ s # <<>> /\ "run.started" \notin TypesOf(s) /\ type = "run.started"
    \/ /\ "run.started" \in TypesOf(s) /\ TypesOf(s) \cap Terminal = {}
       /\ type \in Types \ {"reserved", "run.started"}
       /\ type = "topology.bound" => type \notin TypesOf(s)

\* To record what may follow is a step of the recorded run.
LEMMA RecordGrows ==
    ASSUME Inv, NEW k \in Keys, NEW type \in Types, NEW parent \in Nat, NEW passed \in BOOLEAN,
           Record(k, type, parent, passed), MayFollow(ledger[k], type)
    PROVE  Recorded!Next
<1> DEFINE ev == Event(type, parent, passed)
           s == ledger[k]
           kind == Abstract(ev)
<1>1. s \in Seq(Events) /\ ev \in Events /\ ev.type = type
  BY Recordable
<1>2. ledger' = [ledger EXCEPT ![k] = Append(s, ev)] /\ DOMAIN ledger = Keys
  BY DEF Record, Inv
<1> HIDE DEF ev
<1>3. AbstractOf(Append(s, ev)) = Append(AbstractOf(s), kind)
  BY <1>1, AbstractAppended
<1>4. Log' = [Log EXCEPT ![k] = Append(@, kind)]
  <2>1. ledger'[k] = Append(s, ev) /\ \A j \in Keys : j # k => ledger'[j] = ledger[j]
    BY <1>2
  <2>2. Log' = [j \in Keys |-> AbstractOf(ledger'[j])]
    BY DEF Log, AbstractOf
  <2> HIDE DEF kind, s
  <2>3. [Log EXCEPT ![k] = Append(@, kind)] = [j \in Keys |-> IF j = k THEN Append(AbstractOf(s), kind) ELSE AbstractOf(ledger[j])]
    BY DEF Log, s
  <2>4. \A j \in Keys : AbstractOf(ledger'[j]) = IF j = k THEN Append(AbstractOf(s), kind) ELSE AbstractOf(ledger[j])
    BY <1>3, <2>1
  <2> QED BY <2>2, <2>3, <2>4
<1>5. /\ type = "reserved" => kind = "reserved"
      /\ type = "run.started" => kind = "started"
      /\ type = "topology.bound" => kind = "bound"
      /\ type \notin {"reserved", "run.started", "topology.bound"} => kind = "work" \/ kind \in Terminal
  BY <1>1 DEF Abstract, Terminal
<1>6. Recorded!Endings = Terminal /\ (AbstractOf(s) = <<>> <=> s = <<>>) /\ Log[k] = AbstractOf(s)
  BY <1>1, AbstractAppended DEF Recorded!Endings, Terminal, Log
<1>7. /\ Recorded!Happened({"started"}, AbstractOf(s)) <=> "run.started" \in TypesOf(s)
      /\ Recorded!Happened(Recorded!Endings, AbstractOf(s)) <=> TypesOf(s) \cap Terminal # {}
      /\ Recorded!Happened({"bound"}, AbstractOf(s)) <=> "topology.bound" \in TypesOf(s)
  BY <1>1, AbstractHappened
<1> HIDE DEF s, kind
<1>8. kind \in Recorded!Following(AbstractOf(s)) /\ kind \in Recorded!Kinds
  <2>1. CASE s = <<>> /\ type = "reserved"
    BY <1>5, <1>6, <2>1 DEF Recorded!Following, Recorded!Kinds
  <2>2. CASE s # <<>> /\ "run.started" \notin TypesOf(s) /\ type = "run.started"
    BY <1>5, <1>6, <1>7, <2>2 DEF Recorded!Following, Recorded!Kinds
  <2>3. CASE /\ "run.started" \in TypesOf(s) /\ TypesOf(s) \cap Terminal = {}
             /\ type \in Types \ {"reserved", "run.started"}
             /\ type = "topology.bound" => type \notin TypesOf(s)
    <3>1. s # <<>>
      BY <2>3 DEF TypesOf
    <3> QED BY <1>5, <1>6, <1>7, <2>3, <3>1 DEF Recorded!Following, Recorded!Kinds
  <2> QED BY <2>1, <2>2, <2>3 DEF MayFollow, s
<1>9. Recorded!Grow(k, kind)
  BY <1>4, <1>6, <1>8 DEF Recorded!Grow, Log, AbstractOf
<1> QED BY <1>8, <1>9 DEF Recorded!Next

\* Every step of the loop is a step of the recorded run, or leaves it alone.
LEMMA StepIsRecorded ==
    ASSUME Inv, [Next]_vars
    PROVE  Recorded!Next \/ UNCHANGED Log
<1>0. UNCHANGED ledger => UNCHANGED Log
  BY DEF Log, AbstractOf
<1>1. ASSUME NEW k \in Keys, exec[k].at \in Underway \cup {"interrupting"}, NEW type \in Types, NEW parent \in Nat,
             NEW passed \in BOOLEAN, Record(k, type, parent, passed), type \notin {"reserved", "run.started"},
             type = "topology.bound" => type \notin TypesOf(ledger[k])
      PROVE  Recorded!Next
  <2>1. "run.started" \in TypesOf(ledger[k]) /\ TypesOf(ledger[k]) \cap Terminal = {}
    BY <1>1, Recordable DEF RunInv, PlaceInv, Underway
  <2> QED BY <1>1, <2>1, RecordGrows DEF MayFollow
<1>2. ASSUME NEW k \in Keys, exec[k].at \in Underway, Fail(k) PROVE Recorded!Next
  BY <1>1, <1>2, Recordable DEF Fail, Types, Terminal
<1>3. ASSUME NEW k \in Keys, NEW case \in Cases, NEW failing \in 0..MaxAttempts, Reserve(k, case, failing)
      PROVE  Recorded!Next
  <2>1. ledger[k] = <<>> /\ Record(k, "reserved", 0, FALSE) /\ "reserved" \in Types
    BY <1>3 DEF Reserve, Reserved, Types
  <2> QED BY <2>1, RecordGrows DEF MayFollow
<1>4. ASSUME NEW k \in Keys, Launch(k) PROVE Recorded!Next
  <2>1. /\ ledger[k] = <<Event("reserved", 0, FALSE)>> /\ Record(k, "run.started", Last(k), FALSE)
        /\ "run.started" \in Types
    BY <1>4, Recordable DEF Launch, RunInv, PlaceInv, Types
  <2>2. ledger[k] # <<>> /\ "run.started" \notin TypesOf(ledger[k])
    BY <2>1 DEF TypesOf, Event
  <2> QED BY <2>1, <2>2, RecordGrows, Recordable DEF MayFollow
<1>5. ASSUME NEW k \in Keys, Reconcile(k) PROVE Recorded!Next
  <2>1. MayFollow(ledger[k], "interrupted")
    BY <1>5 DEF Reconcile, Started, Final, MayFollow, Types
  <2> QED BY <1>5, <2>1, RecordGrows, Recordable DEF Reconcile, Types
<1>6. ASSUME NEW k \in Keys, Interrupt(k) PROVE Recorded!Next
  BY <1>1, <1>6, Recordable DEF Interrupt, Types, Terminal
<1>7. ASSUME NEW k \in Keys, BindTopology(k) PROVE Recorded!Next \/ UNCHANGED ledger
  BY <1>2, <1>7 DEF BindTopology, Underway
<1>8. ASSUME NEW k \in Keys, Advance(k) PROVE Recorded!Next
  <2> DEFINE type == Head(exec[k].todo)
             todo == exec[k].todo
  <2>1. /\ exec[k].at = "running" /\ todo # <<>> /\ type \notin Roles
        /\ Record(k, type, exec[k].parent, FALSE)
    BY <1>8 DEF Advance
  <2>2. type \in Types /\ todo \in Seq(Course) /\ CourseInv(ledger[k], exec[k]) /\ type = todo[1] /\ 1 \in DOMAIN todo
    BY <2>1, Recordable DEF RunInv, Executions, Course
  <2>3. type \notin {"reserved", "run.started"} /\ Contains(todo, type)
    BY <2>2 DEF CourseInv, WellOrdered, InPlace, Contains
  <2>4. type = "topology.bound" => type \notin TypesOf(ledger[k])
    BY <2>2, <2>3 DEF CourseInv
  <2> QED BY <1>1, <2>1, <2>2, <2>3, <2>4, Recordable DEF Underway
<1>9. ASSUME NEW k \in Keys, CallRole(k) \/ RoleAnswers(k) PROVE Recorded!Next
  <2>1. exec[k].at \in Underway
    BY <1>9 DEF CallRole, RoleAnswers, Doing, Underway
  <2>2. \/ Fail(k) \/ Record(k, "role.working", exec[k].parent, FALSE) \/ Record(k, "role.response", exec[k].parent, FALSE)
    BY <1>9 DEF CallRole, RoleAnswers
  <2> QED BY <1>1, <1>2, <2>1, <2>2, Recordable DEF Types
<1>10. ASSUME NEW k \in Keys, Repair(k) \/ Verify(k) \/ RollBack(k) \/ Finish(k) PROVE Recorded!Next
  <2>1. exec[k].at = "running"
    BY <1>10 DEF Repair, Verify, RollBack, Finish, Doing
  <2>2. \/ Fail(k)
        \/ \E type \in Terminal \cup {"repair.executed", "verification.completed", "repair.rolled_back"},
              passed \in BOOLEAN : Record(k, type, exec[k].parent, passed)
    BY <1>10 DEF Repair, Verify, RollBack, Finish, Doing
  <2> QED BY <1>1, <1>2, <2>1, <2>2, Recordable DEF Types, Terminal, Underway
<1>11. ASSUME NEW k \in Keys, LedgerFails(k) PROVE Recorded!Next \/ UNCHANGED ledger
  <2>1. exec[k].at \notin {"reserving", "interrupting", "gone"} => exec[k].at \in Underway
    BY Recordable DEF Executions, Underway
  <2> QED BY <1>2, <1>11, <2>1 DEF LedgerFails, Executing
<1>12. ASSUME NEW k \in Keys, LeaseExpires(k) PROVE UNCHANGED ledger
  BY <1>12 DEF LeaseExpires
<1>13. Restart => UNCHANGED ledger
  BY DEF Restart
<1>14. UNCHANGED vars => UNCHANGED ledger
  BY DEF vars
<1>15. ASSUME NEW k \in Keys, Execute(k) PROVE Recorded!Next \/ UNCHANGED ledger
  BY <1>4, <1>6, <1>7, <1>8, <1>9, <1>10, <1>15 DEF Execute
<1> QED BY <1>0, <1>3, <1>5, <1>11, <1>12, <1>13, <1>14, <1>15 DEF Next

\* The loop implements RecordedRun: whoever starts, retries, fails or restarts, a
\* run starts once, binds at most once, ends at most once and never grows after it.
THEOREM LoopIsRecorded == Spec => KeepsRecordedRun
<1>1. Init => Recorded!Init
  <2> SUFFICES ASSUME Init PROVE Log = [r \in Keys |-> <<>>]
    BY DEF Recorded!Init, Log, AbstractOf
  <2>1. \A k \in Keys : AbstractOf(ledger[k]) = <<>>
    BY AbstractAppended DEF Init, AbstractOf
  <2> QED BY <2>1 DEF Log
<1>2. Inv /\ [Next]_vars => [Recorded!Next]_Log
  BY StepIsRecorded
<1> QED BY <1>1, <1>2, Invariance, PTL DEF Spec, KeepsRecordedRun, Recorded!Spec, Log, AbstractOf

-----------------------------------------------------------------------------
(* What a reader makes of a run.  The reader is a recursive function of the*)
(* places of the ledger: that it has values at all, and what they are, is  *)
(* proved by the least place at which it would not.                        *)

\* Induction over the numbers, for a set of them.
LEMMA EveryNumber ==
    ASSUME NEW T, T \subseteq Nat, 0 \in T, \A n \in T : n + 1 \in T
    PROVE  Nat \subseteq T
<1>1. SUFFICES ASSUME Nat \ T # {} PROVE FALSE
  OBVIOUS
<1>2. PICK m \in Nat \ T : \A n \in Nat \ T : ~(<<n, m>> \in OpToRel(<, Nat))
  BY <1>1, NatLessThanWellFounded, WFMin, Zenon
<1>0. m \in Nat /\ m \notin T /\ m # 0
  OBVIOUS
<1>3. m - 1 \in Nat /\ m - 1 < m /\ (m - 1) + 1 = m
  BY <1>0
<1>4. m - 1 \in T
  BY <1>0, <1>2, <1>3 DEF OpToRel
<1> QED BY <1>0, <1>3, <1>4

\* What is read of a whole run.
Reading(s) == View!Readings(s, DOMAIN s)[Len(s)]

\* What is read at n, having read r up to the place before.
ReadAt(r, n, events, known) ==
    IF n = 0 THEN View!Unread
    ELSE IF n \in known THEN View!ReadEvent(r[n - 1], n, events[n]) ELSE r[n - 1]

IsReading(r, m, events, known) == r = [n \in 0..m |-> ReadAt(r, n, events, known)]

\* The readings up to a place exist, and go on for one place more.
LEMMA ReadingsExist ==
    ASSUME NEW events, NEW known, NEW m \in Nat
    PROVE  \E r : IsReading(r, m, events, known)
<1> DEFINE Upto(j) == \E r : IsReading(r, j, events, known)
           T == {j \in Nat : Upto(j)}
<1>1. 0 \in T
  <2> DEFINE r == [n \in 0..0 |-> View!Unread]
  <2>1. r = [n \in 0..0 |-> ReadAt(r, n, events, known)]
    BY DEF ReadAt
  <2> QED BY <2>1 DEF IsReading
<1>2. ASSUME NEW j \in T PROVE j + 1 \in T
  <2>1. PICK r : r = [n \in 0..j |-> ReadAt(r, n, events, known)]
    BY DEF IsReading
  <2> DEFINE q == [n \in 0..(j + 1) |-> ReadAt(r, n, events, known)]
  <2>0. j \in Nat /\ j + 1 \in Nat
    OBVIOUS
  <2>2. \A n \in 0..j : q[n] = r[n]
    BY <2>0, <2>1
  <2>3. ASSUME NEW n \in 0..(j + 1), n # 0 PROVE q[n - 1] = r[n - 1]
    <3>1. n - 1 \in 0..j
      BY <2>0, <2>3
    <3> QED BY <2>2, <3>1
  <2>4. ASSUME NEW n \in 0..(j + 1) PROVE ReadAt(q, n, events, known) = ReadAt(r, n, events, known)
    <3> HIDE DEF q
    <3> QED BY <2>3 DEF ReadAt
  <2>5. q = [n \in 0..(j + 1) |-> ReadAt(q, n, events, known)]
    BY <2>4
  <2>6. Upto(j + 1)
    BY <2>5 DEF IsReading
  <2> QED BY <2>0, <2>6
<1>3. T \subseteq Nat
  OBVIOUS
<1> HIDE DEF T
<1>4. Nat \subseteq T
  BY <1>1, <1>2, <1>3, EveryNumber
<1> QED BY <1>4 DEF T

\* What is read at each place.
LEMMA ReadingsAre ==
    ASSUME NEW events, Len(events) \in Nat, NEW known, NEW r, r = View!Readings(events, known)
    PROVE  /\ DOMAIN r = 0..Len(events) /\ r[0] = View!Unread
           /\ \A n \in 1..Len(events) :
                r[n] = IF n \in known THEN View!ReadEvent(r[n - 1], n, events[n]) ELSE r[n - 1]
<1>1. \E q : IsReading(q, Len(events), events, known)
  BY ReadingsExist
<1>2. r = CHOOSE q : IsReading(q, Len(events), events, known)
  BY DEF View!Readings, ReadAt, IsReading
<1>3. IsReading(r, Len(events), events, known)
  BY <1>1, <1>2
<1> QED BY <1>3 DEF ReadAt, IsReading

\* Of a run without events nothing is read.
LEMMA NothingRead ==
    ASSUME NEW none, none = <<>>
    PROVE  Reading(none) = View!Unread
<1>1. PICK start : start = View!Readings(none, DOMAIN none)
  OBVIOUS
<1>2. Len(none) = 0 /\ Len(none) \in Nat
  OBVIOUS
<1>3. start[0] = View!Unread
  BY <1>1, <1>2, ReadingsAre
<1> QED BY <1>1, <1>2, <1>3 DEF Reading

\* What is read of a run at a place does not depend on what comes after it.
LEMMA ReadingGrows ==
    ASSUME NEW s \in Seq(Events), NEW ev \in Events
    PROVE  Reading(Append(s, ev)) = View!ReadEvent(Reading(s), Len(s) + 1, ev)
<1> DEFINE u == Append(s, ev)
           q == View!Readings(s, DOMAIN s)
           r == View!Readings(u, DOMAIN u)
           T == {n \in Nat : n <= Len(s) => q[n] = r[n]}
<1>1. /\ Len(s) \in Nat /\ Len(u) = Len(s) + 1 /\ DOMAIN s = 1..Len(s) /\ DOMAIN u = 1..(Len(s) + 1)
      /\ u[Len(s) + 1] = ev /\ \A n \in 1..Len(s) : u[n] = s[n]
  BY AppendProperties
<1>2. /\ q[0] = View!Unread
      /\ \A n \in 1..Len(s) : q[n] = View!ReadEvent(q[n - 1], n, s[n])
  BY <1>1, ReadingsAre
<1>3. /\ r[0] = View!Unread
      /\ \A n \in 1..(Len(s) + 1) : r[n] = View!ReadEvent(r[n - 1], n, u[n])
  <2> HIDE DEF u
  <2> QED BY <1>1, ReadingsAre
<1> HIDE DEF u, q, r
<1>4. 0 \in T
  BY <1>2, <1>3
<1>5. ASSUME NEW n \in T PROVE n + 1 \in T
  <2> SUFFICES ASSUME n + 1 <= Len(s) PROVE q[n + 1] = r[n + 1]
    OBVIOUS
  <2>1. n \in Nat /\ n + 1 \in 1..Len(s) /\ n + 1 \in 1..(Len(s) + 1) /\ (n + 1) - 1 = n /\ q[n] = r[n]
    BY <1>1
  <2> HIDE DEF T
  <2> QED BY <1>1, <1>2, <1>3, <2>1
<1>6. q[Len(s)] = r[Len(s)]
  <2>1. T \subseteq Nat
    OBVIOUS
  <2> HIDE DEF T
  <2>2. Nat \subseteq T
    BY <1>4, <1>5, <2>1, EveryNumber
  <2>3. Len(s) \in T
    BY <1>1, <2>2
  <2> QED BY <1>1, <2>3 DEF T
<1>7. r[Len(s) + 1] = View!ReadEvent(r[Len(s)], Len(s) + 1, ev)
  <2>1. Len(s) + 1 \in 1..(Len(s) + 1) /\ (Len(s) + 1) - 1 = Len(s)
    BY <1>1
  <2> QED BY <1>1, <1>3, <2>1
<1> QED BY <1>1, <1>6, <1>7 DEF Reading, u, q, r

-----------------------------------------------------------------------------
(* A reader who knows only some of the events.                             *)

\* The known authorities of known plans, the known repairs under one of them, and
\* the known passed verifications of such a repair.
KnownAuthorities(s, known) ==
    {n \in known \cap DOMAIN s : s[n].type = "authority.decided" /\ s[n].parent \in known}
KnownRepairs(s, known) ==
    {n \in known \cap DOMAIN s : s[n].type = "repair.executed" /\ s[n].parent \in KnownAuthorities(s, known)}
KnownVerifications(s, known) ==
    {n \in known \cap DOMAIN s :
        s[n].type = "verification.completed" /\ s[n].parent \in KnownRepairs(s, known) /\ s[n].passed}

Read == [planned : Nat, authorized : Nat, repaired : Nat, passed : BOOLEAN, failed : BOOLEAN]

\* What has been read w is known link by link.
Grounded(s, known, w) ==
    /\ w \in Read
    /\ w.planned # 0 => w.planned \in known
    /\ w.authorized # 0 => w.authorized \in KnownAuthorities(s, known)
    /\ w.repaired # 0 => w.repaired \in KnownRepairs(s, known)
    /\ w.passed => KnownVerifications(s, known) # {}

\* To read one more known event is to read what is known.
LEMMA ReadsWhatIsKnown ==
    ASSUME NEW s \in Seq(Events), NEW known, NEW n \in known \cap DOMAIN s, NEW w, Grounded(s, known, w),
           NEW v, v = View!ReadEvent(w, n, s[n])
    PROVE  Grounded(s, known, v)
<1>0. /\ n \in Nat /\ s[n] \in Events /\ s[n].passed \in BOOLEAN
      /\ w \in Read
  <2>1. DOMAIN s = 1..Len(s) /\ Len(s) \in Nat /\ s[n] \in Events
    OBVIOUS
  <2> QED BY <2>1 DEF Grounded, Events
<1>1. CASE s[n].type \in {"plan.proposed", "plan.replanned"}
  <2>1. v = [w EXCEPT !.planned = n, !.authorized = 0, !.repaired = 0]
    BY <1>1 DEF View!ReadEvent
  <2>0. v = [planned |-> n, authorized |-> 0, repaired |-> 0, passed |-> w.passed, failed |-> w.failed]
    BY <1>0, <2>1 DEF Read
  <2>4. w.passed \in BOOLEAN /\ w.failed \in BOOLEAN
    BY <1>0 DEF Read
  <2>3. v \in Read
    BY <1>0, <2>0, <2>4 DEF Read
  <2>2. v.planned = n /\ v.authorized = 0 /\ v.repaired = 0 /\ v.passed = w.passed /\ v \in Read
    BY <1>0, <2>1, <2>3 DEF Read
  <2> QED BY <2>2 DEF Grounded
<1>2. CASE s[n].type = "authority.decided" /\ w.planned # 0 /\ s[n].parent = w.planned
  <2>1. v = [w EXCEPT !.authorized = n, !.repaired = 0]
    BY <1>2 DEF View!ReadEvent
  <2>2. n \in KnownAuthorities(s, known)
    BY <1>2 DEF Grounded, KnownAuthorities
  <2>0. v = [planned |-> w.planned, authorized |-> n, repaired |-> 0, passed |-> w.passed, failed |-> w.failed]
    BY <1>0, <2>1 DEF Read
  <2>5. w.planned \in Nat /\ w.passed \in BOOLEAN /\ w.failed \in BOOLEAN
    BY <1>0 DEF Read
  <2>4. v \in Read
    BY <1>0, <2>0, <2>5 DEF Read
  <2>3. v.planned = w.planned /\ v.authorized = n /\ v.repaired = 0 /\ v.passed = w.passed /\ v \in Read
    BY <1>0, <2>1, <2>4 DEF Read
  <2> QED BY <2>2, <2>3 DEF Grounded
<1>3. CASE s[n].type = "repair.executed" /\ w.authorized # 0 /\ s[n].parent = w.authorized
  <2>1. v = [w EXCEPT !.repaired = n]
    BY <1>3 DEF View!ReadEvent
  <2>2. n \in KnownRepairs(s, known)
    BY <1>3 DEF Grounded, KnownRepairs
  <2>3. v.planned = w.planned /\ v.authorized = w.authorized /\ v.repaired = n /\ v.passed = w.passed /\ v \in Read
    BY <1>0, <2>1 DEF Read
  <2> QED BY <2>2, <2>3 DEF Grounded
<1>4. CASE s[n].type = "verification.completed" /\ w.repaired # 0 /\ s[n].parent = w.repaired
  <2>1. v = [w EXCEPT !.passed = s[n].passed, !.failed = ~s[n].passed]
    BY <1>4 DEF View!ReadEvent
  <2>2. s[n].passed => n \in KnownVerifications(s, known)
    BY <1>4 DEF Grounded, KnownVerifications
  <2>3. /\ v.planned = w.planned /\ v.authorized = w.authorized /\ v.repaired = w.repaired /\ v.passed = s[n].passed
        /\ v \in Read
    BY <1>0, <2>1 DEF Read
  <2> QED BY <2>2, <2>3 DEF Grounded
<1>5. CASE /\ s[n].type \notin {"plan.proposed", "plan.replanned"}
           /\ ~(s[n].type = "authority.decided" /\ w.planned # 0 /\ s[n].parent = w.planned)
           /\ ~(s[n].type = "repair.executed" /\ w.authorized # 0 /\ s[n].parent = w.authorized)
           /\ ~(s[n].type = "verification.completed" /\ w.repaired # 0 /\ s[n].parent = w.repaired)
  <2>1. v = w
    BY <1>5 DEF View!ReadEvent
  <2> QED BY <2>1
<1> QED BY <1>1, <1>2, <1>3, <1>4, <1>5

\* Whatever of a run is known, what is read at the end is known link by link.
LEMMA ReadingIsGrounded ==
    ASSUME NEW s \in Seq(Events), NEW known, NEW w, w = View!Readings(s, known)[Len(s)]
    PROVE  Grounded(s, known, w)
<1> DEFINE r == View!Readings(s, known)
           T == {n \in Nat : n <= Len(s) => Grounded(s, known, r[n])}
<1>1. /\ r[0] = View!Unread /\ Len(s) \in Nat /\ DOMAIN s = 1..Len(s)
      /\ \A n \in 1..Len(s) :
            r[n] = IF n \in known THEN View!ReadEvent(r[n - 1], n, s[n]) ELSE r[n - 1]
  <2>1. Len(s) \in Nat
    OBVIOUS
  <2> QED BY <2>1, ReadingsAre
<1> HIDE DEF r
<1>2. 0 \in T
  <2>1. PICK z : z = View!Unread
    OBVIOUS
  <2>2. Grounded(s, known, z)
    BY <2>1 DEF Grounded, View!Unread, Read
  <2> QED BY <1>1, <2>1, <2>2
<1>3. ASSUME NEW n \in T PROVE n + 1 \in T
  <2> SUFFICES ASSUME n + 1 <= Len(s) PROVE Grounded(s, known, r[n + 1])
    OBVIOUS
  <2>1. n \in Nat /\ n + 1 \in 1..Len(s) /\ (n + 1) - 1 = n /\ Grounded(s, known, r[n])
    BY <1>1
  <2> HIDE DEF T
  <2>2. CASE n + 1 \in known
    BY <1>1, <2>1, <2>2, ReadsWhatIsKnown
  <2>3. CASE n + 1 \notin known
    BY <1>1, <2>1, <2>3
  <2> QED BY <2>2, <2>3
<1>4. T \subseteq Nat
  OBVIOUS
<1> HIDE DEF T
<1>5. Nat \subseteq T
  BY <1>2, <1>3, <1>4, EveryNumber
<1> QED BY <1>1, <1>5 DEF T, r

\* What is taken for authorized, repaired or verified of what is known.
Closed(s, known) ==
    LET evidence == View!WorkflowEvidence(s, known)
    IN  /\ evidence.authorityGranted => KnownAuthorities(s, known) # {}
        /\ evidence.repairExecuted => KnownRepairs(s, known) # {}
        /\ evidence.verificationPassed => KnownVerifications(s, known) # {}

\* Whatever is known of a run, nothing more is taken for known.
LEMMA KnowledgeIsClosed ==
    ASSUME NEW s \in Seq(Events), NEW known
    PROVE  Closed(s, known)
<1>1. PICK w : w = View!Readings(s, known)[Len(s)]
  OBVIOUS
<1>2. Grounded(s, known, w)
  BY <1>1, ReadingIsGrounded
<1>3. /\ View!WorkflowEvidence(s, known).authorityGranted = (w.authorized # 0)
      /\ View!WorkflowEvidence(s, known).repairExecuted = (w.repaired # 0)
      /\ View!WorkflowEvidence(s, known).verificationPassed = w.passed
  BY <1>1 DEF View!WorkflowEvidence
<1> QED BY <1>2, <1>3 DEF Grounded, Closed

\* A reader who missed some of a run takes nothing for authorized, repaired or
\* verified whose links he does not know.
THEOREM GapsReadClosed == Spec => []GapsFailClosed
<1>1. ASSUME Inv PROVE GapsFailClosed
  <2> USE DEF GapsFailClosed
  <2> HAVE Turn
  <2> TAKE k \in Keys
  <2> TAKE a, b \in 1..Last(k) + 1
  <2> HAVE a < b
  <2> DEFINE known == 1..a \cup b..Last(k)
  <2>1. Closed(ledger[k], known)
    BY <1>1, KnowledgeIsClosed, Recordable
  <2> HIDE DEF known
  <2> QED BY <2>1 DEF Closed, KnownAuthorities, KnownRepairs, KnownVerifications, known
<1> QED BY <1>1, Invariance, PTL

-----------------------------------------------------------------------------
(* A reader who knows all of them.  Reads says what he has read of each run,*)
(* and that what is still to be recorded is caused by what he will expect. *)

Plans == {"plan.proposed", "plan.replanned"}

\* The newest events of a run that the readers go by, 0 if there is none.
NewestOf(s, types) == View!Newest({n \in DOMAIN s : s[n].type \in types})
PlanOf(s) == NewestOf(s, Plans)
AuthorityOf(s) == NewestOf(s, {"authority.decided"})
RepairOf(s) == NewestOf(s, {"repair.executed"})
VerificationOf(s) == NewestOf(s, {"verification.completed"})

\* What is read of the whole run is what was recorded last.
ReadInv(s) ==
    /\ Reading(s).planned = PlanOf(s)
    /\ Reading(s).authorized = IF PlanOf(s) > 0 /\ AuthorityOf(s) > PlanOf(s) THEN AuthorityOf(s) ELSE 0
    /\ Reading(s).repaired = IF RepairOf(s) > PlanOf(s) THEN RepairOf(s) ELSE 0
    /\ Reading(s).passed <=> VerificationOf(s) > 0 /\ s[VerificationOf(s)].passed
    /\ Reading(s).failed <=> VerificationOf(s) > 0 /\ ~s[VerificationOf(s)].passed

\* An event that the readers look for is caused by what they expect it to be caused by.
Caused(s, type, parent) ==
    /\ type = "authority.decided" => (parent = PlanOf(s) /\ RepairOf(s) <= parent) \/ PlanOf(s) = 0
    /\ type = "repair.executed" => parent = AuthorityOf(s) /\ AuthorityOf(s) > PlanOf(s) /\ PlanOf(s) > 0
    /\ type = "verification.completed" => parent = RepairOf(s) /\ RepairOf(s) > PlanOf(s)

\* An authority of the course comes directly after a plan, unless nothing is planned at
\* all; a repair comes directly after the authority for a plan.
AuthorityInCourse(s, todo, parent, i) ==
    todo[i] = "authority.decided" =>
        \/ i > 1 /\ todo[i - 1] \in Plans
        \/ i = 1 /\ parent = PlanOf(s) /\ RepairOf(s) <= parent
        \/ PlanOf(s) = 0 /\ \A j \in DOMAIN todo : todo[j] \notin Plans
RepairInCourse(s, todo, parent, i) ==
    todo[i] = "repair.executed" =>
        \/ i > 2 /\ todo[i - 1] = "authority.decided" /\ todo[i - 2] \in Plans
        \/ i = 2 /\ todo[1] = "authority.decided" /\ PlanOf(s) > 0
        \/ i = 1 /\ parent = AuthorityOf(s) /\ AuthorityOf(s) > PlanOf(s) /\ PlanOf(s) > 0
Linked(s, todo, parent) ==
    \A i \in DOMAIN todo : AuthorityInCourse(s, todo, parent, i) /\ RepairInCourse(s, todo, parent, i)

RunRead(s, e) == ReadInv(s) /\ Linked(s, e.todo, e.parent)
Reads == \A k \in Keys : RunRead(ledger[k], exec[k])

\* The newest of places that are bounded is the last of them.
LEMMA NewestIsLast ==
    ASSUME NEW bound \in Nat, NEW places, places \subseteq 1..bound, NEW p, p = View!Newest(places)
    PROVE  /\ p \in 0..bound /\ (p = 0 <=> places = {})
           /\ p # 0 => p \in places /\ \A m \in places : m <= p
<1>1. CASE places = {}
  BY <1>1 DEF View!Newest
<1>2. CASE places # {}
  <2> DEFINE Above == {u \in Nat : \A m \in places : m <= u}
  <2>1. bound \in Above /\ Above \subseteq Nat
    OBVIOUS
  <2>2. PICK u \in Above : \A v \in Above : ~(<<v, u>> \in OpToRel(<, Nat))
    BY <2>1, NatLessThanWellFounded, WFMin, Zenon
  <2>3. u \in Nat /\ \A m \in places : m <= u /\ m \in Nat /\ m >= 1
    OBVIOUS
  <2>4. u \in places
    <3> SUFFICES ASSUME u \notin places PROVE FALSE
      OBVIOUS
    <3>1. ASSUME NEW m \in places PROVE m <= u - 1
      <4>1. m # u /\ m <= u /\ m \in Nat /\ u \in Nat
        BY <2>3
      <4> QED BY <4>1
    <3>2. u # 0
      <4>1. PICK m \in places : m <= u /\ m \in Nat /\ m >= 1
        BY <1>2, <2>3
      <4> QED BY <2>3, <4>1
    <3>3. u - 1 \in Nat /\ u - 1 < u
      BY <2>3, <3>2
    <3>4. u - 1 \in Above
      BY <3>1, <3>3
    <3> QED BY <2>2, <2>3, <3>3, <3>4 DEF OpToRel
  <2> HIDE DEF Above
  <2>5. \E n \in places : \A m \in places : m <= n
    BY <2>3, <2>4
  <2>6. p = CHOOSE n \in places : \A m \in places : m <= n
    BY <1>2 DEF View!Newest
  <2>7. p \in places /\ \A m \in places : m <= p
    BY <2>5, <2>6
  <2> QED BY <1>2, <2>7
<1> QED BY <1>1, <1>2

\* The newest event of some types is one of them, and none of them comes after it.
LEMMA NewestIs ==
    ASSUME NEW s \in Seq(Events), NEW types, NEW p, p = NewestOf(s, types)
    PROVE  /\ p \in 0..Len(s)
           /\ p # 0 => p \in DOMAIN s /\ s[p].type \in types
           /\ \A n \in DOMAIN s : s[n].type \in types => n <= p
<1> DEFINE places == {n \in DOMAIN s : s[n].type \in types}
<1>1. Len(s) \in Nat /\ DOMAIN s = 1..Len(s) /\ places \subseteq 1..Len(s)
  OBVIOUS
<1>2. p = View!Newest(places)
  BY DEF NewestOf
<1> HIDE DEF places
<1>3. /\ p \in 0..Len(s) /\ (p = 0 <=> places = {})
      /\ p # 0 => p \in places /\ \A m \in places : m <= p
  BY <1>1, <1>2, NewestIsLast
<1> QED BY <1>1, <1>3 DEF places

\* An event of the types is the newest of them.
LEMMA NewestGrows ==
    ASSUME NEW s \in Seq(Events), NEW ev \in Events, NEW types
    PROVE  NewestOf(Append(s, ev), types) = IF ev.type \in types THEN Len(s) + 1 ELSE NewestOf(s, types)
<1>0. PICK u : u = Append(s, ev)
  OBVIOUS
<1>1. PICK p : p = NewestOf(s, types)
  OBVIOUS
<1>2. PICK q : q = NewestOf(u, types)
  OBVIOUS
<1>3. /\ u \in Seq(Events) /\ Len(u) = Len(s) + 1 /\ u[Len(s) + 1] = ev /\ Len(s) \in Nat
      /\ DOMAIN u = 1..(Len(s) + 1) /\ DOMAIN s = 1..Len(s)
      /\ \A n \in 1..Len(s) : u[n] = s[n]
  BY <1>0, AppendProperties
<1>4. /\ p \in 0..Len(s)
      /\ p # 0 => p \in DOMAIN s /\ s[p].type \in types
      /\ \A n \in DOMAIN s : s[n].type \in types => n <= p
  BY <1>1, NewestIs
<1>5. /\ q \in 0..Len(u)
      /\ q # 0 => q \in DOMAIN u /\ u[q].type \in types
      /\ \A n \in DOMAIN u : u[n].type \in types => n <= q
  BY <1>2, <1>3, NewestIs
<1>6. CASE ev.type \in types
  <2>1. Len(s) + 1 \in DOMAIN u /\ u[Len(s) + 1].type \in types
    BY <1>3, <1>6
  <2>2. q = Len(s) + 1
    BY <1>3, <1>5, <2>1
  <2> QED BY <1>0, <1>2, <1>6, <2>2
<1>7. CASE ev.type \notin types
  <2>1. q # Len(s) + 1
    BY <1>3, <1>5, <1>7
  <2>2. p <= q
    <3>1. CASE p = 0
      BY <1>3, <1>5, <3>1
    <3>2. CASE p # 0
      BY <1>3, <1>4, <1>5, <3>2
    <3> QED BY <3>1, <3>2
  <2>3. q <= p
    <3>1. CASE q = 0
      BY <1>3, <1>4, <3>1
    <3>2. CASE q # 0
      <4>1. q \in 1..Len(s) /\ s[q].type \in types
        BY <1>3, <1>5, <2>1, <3>2
      <4> QED BY <1>3, <1>4, <4>1
    <3> QED BY <3>1, <3>2
  <2>4. p = q
    BY <1>3, <1>4, <1>5, <2>2, <2>3
  <2> QED BY <1>0, <1>1, <1>2, <1>7, <2>4
<1> QED BY <1>6, <1>7

\* The four of them.
LEMMA MarksGrow ==
    ASSUME NEW s \in Seq(Events), NEW ev \in Events, NEW u, u = Append(s, ev)
    PROVE  /\ PlanOf(u) = IF ev.type \in Plans THEN Len(s) + 1 ELSE PlanOf(s)
           /\ AuthorityOf(u) = IF ev.type = "authority.decided" THEN Len(s) + 1 ELSE AuthorityOf(s)
           /\ RepairOf(u) = IF ev.type = "repair.executed" THEN Len(s) + 1 ELSE RepairOf(s)
           /\ VerificationOf(u) = IF ev.type = "verification.completed" THEN Len(s) + 1 ELSE VerificationOf(s)
           /\ Len(s) \in Nat /\ PlanOf(s) \in 0..Len(s) /\ AuthorityOf(s) \in 0..Len(s)
           /\ RepairOf(s) \in 0..Len(s) /\ VerificationOf(s) \in 0..Len(s)
<1>1. PlanOf(u) = IF ev.type \in Plans THEN Len(s) + 1 ELSE PlanOf(s)
  BY NewestGrows, Zenon DEF PlanOf
<1>2. AuthorityOf(u) = IF ev.type \in {"authority.decided"} THEN Len(s) + 1 ELSE AuthorityOf(s)
  BY NewestGrows, Zenon DEF AuthorityOf
<1>3. RepairOf(u) = IF ev.type \in {"repair.executed"} THEN Len(s) + 1 ELSE RepairOf(s)
  BY NewestGrows, Zenon DEF RepairOf
<1>4. VerificationOf(u) = IF ev.type \in {"verification.completed"} THEN Len(s) + 1 ELSE VerificationOf(s)
  BY NewestGrows, Zenon DEF VerificationOf
<1>5. /\ PlanOf(s) \in 0..Len(s) /\ AuthorityOf(s) \in 0..Len(s)
      /\ RepairOf(s) \in 0..Len(s) /\ VerificationOf(s) \in 0..Len(s)
  BY NewestIs, Zenon DEF PlanOf, AuthorityOf, RepairOf, VerificationOf
<1>6. Len(s) \in Nat
  OBVIOUS
<1> QED BY <1>1, <1>2, <1>3, <1>4, <1>5, <1>6

-----------------------------------------------------------------------------
(* Each event keeps Reads: it is caused as expected, and what is left of the*)
(* course stays linked.                                                    *)

\* Reading one more event that is caused as expected, it is recognized.
LEMMA ReadGrows ==
    ASSUME NEW s \in Seq(Events), NEW ev \in Events, ReadInv(s), Caused(s, ev.type, ev.parent),
           NEW u, u = Append(s, ev)
    PROVE  ReadInv(u)
<1> DEFINE n == Len(s) + 1
<1>1. PICK w : w = Reading(s)
  OBVIOUS
<1>2. PICK v : v = Reading(u)
  OBVIOUS
<1>3. v = View!ReadEvent(w, n, ev)
  BY <1>1, <1>2, ReadingGrows
<1>4. w \in Read
  BY <1>1, ReadingIsGrounded DEF Reading, Grounded
<1>5. /\ PlanOf(u) = IF ev.type \in Plans THEN n ELSE PlanOf(s)
      /\ AuthorityOf(u) = IF ev.type = "authority.decided" THEN n ELSE AuthorityOf(s)
      /\ RepairOf(u) = IF ev.type = "repair.executed" THEN n ELSE RepairOf(s)
      /\ VerificationOf(u) = IF ev.type = "verification.completed" THEN n ELSE VerificationOf(s)
      /\ Len(s) \in Nat /\ PlanOf(s) \in 0..Len(s) /\ AuthorityOf(s) \in 0..Len(s)
      /\ RepairOf(s) \in 0..Len(s) /\ VerificationOf(s) \in 0..Len(s)
  BY MarksGrow
<1>6. /\ u[n] = ev /\ ev.passed \in BOOLEAN
      /\ VerificationOf(s) > 0 => u[VerificationOf(s)] = s[VerificationOf(s)]
  <2>1. u[n] = ev /\ \A m \in 1..Len(s) : u[m] = s[m]
    BY AppendProperties
  <2> QED BY <1>5, <2>1 DEF Events
<1>7. /\ w.planned = PlanOf(s)
      /\ w.authorized = IF PlanOf(s) > 0 /\ AuthorityOf(s) > PlanOf(s) THEN AuthorityOf(s) ELSE 0
      /\ w.repaired = IF RepairOf(s) > PlanOf(s) THEN RepairOf(s) ELSE 0
      /\ w.passed <=> VerificationOf(s) > 0 /\ s[VerificationOf(s)].passed
      /\ w.failed <=> VerificationOf(s) > 0 /\ ~s[VerificationOf(s)].passed
  BY <1>1 DEF ReadInv
<1>8. SUFFICES
        /\ v.planned = PlanOf(u)
        /\ v.authorized = IF PlanOf(u) > 0 /\ AuthorityOf(u) > PlanOf(u) THEN AuthorityOf(u) ELSE 0
        /\ v.repaired = IF RepairOf(u) > PlanOf(u) THEN RepairOf(u) ELSE 0
        /\ v.passed <=> VerificationOf(u) > 0 /\ u[VerificationOf(u)].passed
        /\ v.failed <=> VerificationOf(u) > 0 /\ ~u[VerificationOf(u)].passed
  BY <1>2 DEF ReadInv
<1>9. CASE ev.type \in Plans
  <2>1. v = [w EXCEPT !.planned = n, !.authorized = 0, !.repaired = 0]
    BY <1>3, <1>9 DEF View!ReadEvent, Plans
  <2>2. v = [planned |-> n, authorized |-> 0, repaired |-> 0, passed |-> w.passed, failed |-> w.failed]
    BY <1>4, <2>1 DEF Read
  <2>3. v.planned = n /\ v.authorized = 0 /\ v.repaired = 0 /\ v.passed = w.passed /\ v.failed = w.failed
    BY <2>2
  <2>4. PlanOf(u) = n /\ AuthorityOf(u) = AuthorityOf(s) /\ RepairOf(u) = RepairOf(s) /\ VerificationOf(u) = VerificationOf(s)
    BY <1>5, <1>9 DEF Plans
  <2> QED BY <1>5, <1>6, <1>7, <2>3, <2>4
<1>10. CASE ev.type = "authority.decided"
  <2>1. PlanOf(u) = PlanOf(s) /\ AuthorityOf(u) = n /\ RepairOf(u) = RepairOf(s) /\ VerificationOf(u) = VerificationOf(s)
    BY <1>5, <1>10 DEF Plans
  <2>2. CASE PlanOf(s) = 0
    <3>1. v = w
      BY <1>3, <1>7, <1>10, <2>2 DEF View!ReadEvent
    <3> QED BY <1>5, <1>6, <1>7, <2>1, <2>2, <3>1
  <2>3. CASE PlanOf(s) # 0
    <3>1. ev.parent = PlanOf(s) /\ RepairOf(s) <= PlanOf(s)
      BY <1>10, <2>3 DEF Caused
    <3>2. v = [w EXCEPT !.authorized = n, !.repaired = 0]
      BY <1>3, <1>7, <1>10, <2>3, <3>1 DEF View!ReadEvent
    <3>3. v = [planned |-> w.planned, authorized |-> n, repaired |-> 0, passed |-> w.passed, failed |-> w.failed]
      BY <1>4, <3>2 DEF Read
    <3>4. v.planned = w.planned /\ v.authorized = n /\ v.repaired = 0 /\ v.passed = w.passed /\ v.failed = w.failed
      BY <3>3
    <3> QED BY <1>5, <1>6, <1>7, <2>1, <2>3, <3>1, <3>4
  <2> QED BY <2>2, <2>3
<1>11. CASE ev.type = "repair.executed"
  <2>1. PlanOf(u) = PlanOf(s) /\ AuthorityOf(u) = AuthorityOf(s) /\ RepairOf(u) = n /\ VerificationOf(u) = VerificationOf(s)
    BY <1>5, <1>11 DEF Plans
  <2>2. ev.parent = AuthorityOf(s) /\ AuthorityOf(s) > PlanOf(s) /\ PlanOf(s) > 0
    BY <1>11 DEF Caused
  <2>3. v = [w EXCEPT !.repaired = n]
    BY <1>3, <1>5, <1>7, <1>11, <2>2 DEF View!ReadEvent
  <2>4. /\ v.planned = w.planned /\ v.authorized = w.authorized /\ v.repaired = n
        /\ v.passed = w.passed /\ v.failed = w.failed
    BY <1>4, <2>3 DEF Read
  <2> QED BY <1>5, <1>6, <1>7, <2>1, <2>2, <2>4
<1>12. CASE ev.type = "verification.completed"
  <2>1. PlanOf(u) = PlanOf(s) /\ AuthorityOf(u) = AuthorityOf(s) /\ RepairOf(u) = RepairOf(s) /\ VerificationOf(u) = n
    BY <1>5, <1>12 DEF Plans
  <2>2. ev.parent = RepairOf(s) /\ RepairOf(s) > PlanOf(s)
    BY <1>12 DEF Caused
  <2>3. v = [w EXCEPT !.passed = ev.passed, !.failed = ~ev.passed]
    BY <1>3, <1>5, <1>7, <1>12, <2>2 DEF View!ReadEvent
  <2>4. /\ v.planned = w.planned /\ v.authorized = w.authorized /\ v.repaired = w.repaired
        /\ v.passed = ev.passed /\ v.failed = ~ev.passed
    BY <1>4, <1>6, <2>3 DEF Read
  <2>5. /\ v.passed <=> VerificationOf(u) > 0 /\ u[VerificationOf(u)].passed
        /\ v.failed <=> VerificationOf(u) > 0 /\ ~u[VerificationOf(u)].passed
    <3>1. n > 0 /\ u[VerificationOf(u)] = ev
      BY <1>5, <1>6, <2>1
    <3> QED BY <1>6, <2>1, <2>4, <3>1
  <2> QED BY <1>7, <2>1, <2>4, <2>5
<1>13. CASE ev.type \notin Plans \cup {"authority.decided", "repair.executed", "verification.completed"}
  <2>1. /\ PlanOf(u) = PlanOf(s) /\ AuthorityOf(u) = AuthorityOf(s) /\ RepairOf(u) = RepairOf(s)
        /\ VerificationOf(u) = VerificationOf(s)
    BY <1>5, <1>13
  <2>2. v = w
    BY <1>3, <1>13 DEF View!ReadEvent, Plans
  <2> QED BY <1>5, <1>6, <1>7, <2>1, <2>2
<1> QED BY <1>9, <1>10, <1>11, <1>12, <1>13

\* What an execution records next is caused as the readers expect.
LEMMA CourseCauses ==
    ASSUME NEW s, NEW e, RunInv(s, e), e.at = "running", e.todo # <<>>, Linked(s, e.todo, e.parent)
    PROVE  Caused(s, e.todo[1], e.parent)
<1>1. e.todo \in Seq(Course) /\ s \in Seq(Events) /\ PlaceInv(s, e)
  BY DEF RunInv, Executions, Course
<1>2. 1 \in DOMAIN e.todo /\ AuthorityInCourse(s, e.todo, e.parent, 1) /\ RepairInCourse(s, e.todo, e.parent, 1)
  <2>1. 1 \in DOMAIN e.todo
    BY <1>1
  <2> QED BY <2>1 DEF Linked
<1>3. ASSUME e.todo[1] = "verification.completed" PROVE e.parent = RepairOf(s) /\ RepairOf(s) > PlanOf(s)
  <2>1. e.parent = Len(s) /\ s[Len(s)].type = "repair.executed" /\ s # <<>>
    BY <1>1, <1>3 DEF PlaceInv
  <2>2. PICK p : p = PlanOf(s)
    OBVIOUS
  <2>3. PICK r : r = RepairOf(s)
    OBVIOUS
  <2>4. p \in 0..Len(s) /\ (p # 0 => s[p].type \in Plans)
    BY <1>1, <2>2, NewestIs DEF PlanOf
  <2>5. r \in 0..Len(s) /\ \A n \in DOMAIN s : s[n].type \in {"repair.executed"} => n <= r
    BY <1>1, <2>3, NewestIs DEF RepairOf
  <2>6. Len(s) \in DOMAIN s /\ Len(s) \in Nat
    BY <1>1, <2>1
  <2>7. r = Len(s)
    BY <2>1, <2>5, <2>6
  <2>8. p # Len(s)
    BY <2>1, <2>4, <2>6 DEF Plans
  <2> QED BY <2>1, <2>2, <2>3, <2>4, <2>6, <2>7, <2>8
<1> QED BY <1>2, <1>3 DEF AuthorityInCourse, RepairInCourse, Caused

\* What is left of a course stays linked.
LEMMA CourseStaysLinked ==
    ASSUME NEW s \in Seq(Events), NEW ev \in Events, NEW todo \in Seq(Course), todo # <<>>, NEW parent,
           Linked(s, todo, parent), ev.type = todo[1] \/ (todo[1] \in Roles /\ ev.type = "role.response"),
           NEW rest, rest = Tail(todo), NEW u, u = Append(s, ev), NEW n, n = Len(s) + 1
    PROVE  Linked(u, rest, n)
<1>1. /\ rest \in Seq(Course) /\ Len(rest) = Len(todo) - 1 /\ Len(todo) \in Nat /\ Len(todo) > 0
      /\ \A i \in 1..Len(rest) : i + 1 \in DOMAIN todo /\ rest[i] = todo[i + 1]
      /\ DOMAIN rest = 1..Len(rest) /\ DOMAIN todo = 1..Len(todo)
  BY HeadTailProperties
<1>2. /\ PlanOf(u) = IF ev.type \in Plans THEN n ELSE PlanOf(s)
      /\ AuthorityOf(u) = IF ev.type = "authority.decided" THEN n ELSE AuthorityOf(s)
      /\ RepairOf(u) = IF ev.type = "repair.executed" THEN n ELSE RepairOf(s)
      /\ Len(s) \in Nat /\ PlanOf(s) \in 0..Len(s) /\ RepairOf(s) \in 0..Len(s)
  BY MarksGrow
<1>3. ASSUME NEW i \in DOMAIN rest
      PROVE  /\ i \in Nat /\ i >= 1 /\ i + 1 \in DOMAIN todo /\ rest[i] = todo[i + 1] /\ (i + 1) - 1 = i
             /\ AuthorityInCourse(s, todo, parent, i + 1) /\ RepairInCourse(s, todo, parent, i + 1)
             /\ i > 1 => rest[i - 1] = todo[i]
             /\ i > 2 => rest[i - 2] = todo[i - 1]
  <2>1. i \in Nat /\ i >= 1 /\ i <= Len(rest) /\ i + 1 \in DOMAIN todo /\ rest[i] = todo[i + 1] /\ (i + 1) - 1 = i
    BY <1>1
  <2>2. ASSUME i > 1 PROVE rest[i - 1] = todo[i]
    <3>1. i - 1 \in 1..Len(rest) /\ (i - 1) + 1 = i
      BY <1>1, <2>1, <2>2
    <3> QED BY <1>1, <3>1
  <2>3. ASSUME i > 2 PROVE rest[i - 2] = todo[i - 1]
    <3>1. i - 2 \in 1..Len(rest) /\ (i - 2) + 1 = i - 1
      BY <1>1, <2>1, <2>3
    <3> QED BY <1>1, <3>1
  <2> QED BY <2>1, <2>2, <2>3 DEF Linked
<1>4. ASSUME todo[1] \in Plans PROVE ev.type \in Plans
  BY <1>4 DEF Plans, Roles
<1>5. ASSUME todo[1] = "authority.decided" PROVE ev.type = "authority.decided" /\ ev.type \notin Plans
  BY <1>5 DEF Plans, Roles
<1>6. 1 \in DOMAIN todo
  BY <1>1
<1>7. ASSUME NEW i \in DOMAIN rest PROVE AuthorityInCourse(u, rest, n, i)
  <2> SUFFICES ASSUME rest[i] = "authority.decided"
               PROVE  \/ i > 1 /\ rest[i - 1] \in Plans
                      \/ i = 1 /\ n = PlanOf(u) /\ RepairOf(u) <= n
                      \/ PlanOf(u) = 0 /\ \A j \in DOMAIN rest : rest[j] \notin Plans
    BY DEF AuthorityInCourse
  <2>1. todo[i] \in Plans \/ (PlanOf(s) = 0 /\ \A j \in DOMAIN todo : todo[j] \notin Plans)
    BY <1>3 DEF AuthorityInCourse
  <2>2. CASE todo[i] \in Plans /\ i > 1
    BY <1>3, <2>2
  <2>3. CASE todo[i] \in Plans /\ i = 1
    BY <1>2, <1>4, <2>3
  <2>4. CASE PlanOf(s) = 0 /\ \A j \in DOMAIN todo : todo[j] \notin Plans
    <3>1. ev.type \notin Plans
      BY <1>6, <2>4 DEF Plans
    <3> QED BY <1>2, <1>3, <2>4, <3>1
  <2> QED BY <1>3, <2>1, <2>2, <2>3, <2>4
<1>8. ASSUME NEW i \in DOMAIN rest PROVE RepairInCourse(u, rest, n, i)
  <2> SUFFICES ASSUME rest[i] = "repair.executed"
               PROVE  \/ i > 2 /\ rest[i - 1] = "authority.decided" /\ rest[i - 2] \in Plans
                      \/ i = 2 /\ rest[1] = "authority.decided" /\ PlanOf(u) > 0
                      \/ i = 1 /\ n = AuthorityOf(u) /\ AuthorityOf(u) > PlanOf(u) /\ PlanOf(u) > 0
    BY DEF RepairInCourse
  <2>1. /\ i \in Nat /\ i >= 1
        /\ \/ i > 1 /\ todo[i] = "authority.decided" /\ todo[i - 1] \in Plans
           \/ i = 1 /\ todo[1] = "authority.decided" /\ PlanOf(s) > 0
    BY <1>3 DEF RepairInCourse
  <2>2. CASE i > 2
    <3>0. i > 1
      BY <2>1, <2>2
    <3>1. rest[i - 1] = todo[i]
      BY <1>3, <3>0, Zenon
    <3>3. rest[i - 2] = todo[i - 1]
      BY <1>3, <2>2, Zenon
    <3>4. todo[i] = "authority.decided" /\ todo[i - 1] \in Plans
      BY <2>1, <2>2
    <3> QED BY <2>2, <3>1, <3>3, <3>4, Zenon
  <2>3. CASE i = 2
    BY <1>2, <1>3, <1>4, <2>1, <2>3
  <2>4. CASE i = 1
    BY <1>2, <1>5, <2>1, <2>4
  <2> QED BY <2>1, <2>2, <2>3, <2>4
<1> QED BY <1>7, <1>8 DEF Linked

\* The courses of the program are linked, the one without a plan while nothing is planned.
LEMMA CoursesLinked ==
    ASSUME NEW s, NEW parent
    PROVE  /\ Linked(s, PositiveScript, parent) /\ Linked(s, RetryScript, parent)
           /\ PlanOf(s) = 0 => Linked(s, NegativeScript, parent)
           /\ Linked(s, <<>>, parent)
           /\ \A passed \in BOOLEAN, attempt \in 0..MaxAttempts : Linked(s, AfterVerification(passed, attempt), parent)
<1>1. Linked(s, PositiveScript, parent)
  <2> DEFINE c == PositiveScript
  <2>1. DOMAIN c = 1..21 /\ c[18] \in Plans /\ c[19] = "authority.decided"
    BY DEF PositiveScript, Plans
  <2>2. \A i \in 1..21 : /\ c[i] = "authority.decided" => i = 19
                         /\ c[i] = "repair.executed" => i = 20
    BY DEF PositiveScript
  <2> HIDE DEF c
  <2>3. Linked(s, c, parent)
    BY <2>1, <2>2 DEF Linked, AuthorityInCourse, RepairInCourse
  <2> QED BY <2>3 DEF c
<1>2. Linked(s, RetryScript, parent)
  <2> DEFINE c == RetryScript
  <2>1. DOMAIN c = 1..9 /\ c[6] \in Plans /\ c[7] = "authority.decided"
    BY DEF RetryScript, Plans
  <2>2. \A i \in 1..9 : /\ c[i] = "authority.decided" => i = 7
                        /\ c[i] = "repair.executed" => i = 8
    BY DEF RetryScript
  <2> HIDE DEF c
  <2>3. Linked(s, c, parent)
    BY <2>1, <2>2 DEF Linked, AuthorityInCourse, RepairInCourse
  <2> QED BY <2>3 DEF c
<1>3. ASSUME PlanOf(s) = 0 PROVE Linked(s, NegativeScript, parent)
  <2> DEFINE c == NegativeScript
  <2>1. DOMAIN c = 1..15 /\ \A i \in 1..15 : c[i] \notin Plans /\ c[i] # "repair.executed"
    BY DEF NegativeScript, Plans
  <2> HIDE DEF c
  <2>3. Linked(s, c, parent)
    BY <1>3, <2>1 DEF Linked, AuthorityInCourse, RepairInCourse
  <2> QED BY <2>3 DEF c
<1>4. Linked(s, <<>>, parent)
  BY DEF Linked
<1>5. ASSUME NEW passed \in BOOLEAN, NEW attempt \in 0..MaxAttempts
      PROVE  Linked(s, AfterVerification(passed, attempt), parent)
  <2>1. CASE passed
    BY <2>1 DEF Linked, AuthorityInCourse, RepairInCourse, AfterVerification
  <2>2. CASE ~passed /\ attempt = MaxAttempts
    BY <2>2 DEF Linked, AuthorityInCourse, RepairInCourse, AfterVerification
  <2>3. CASE ~passed /\ attempt # MaxAttempts
    BY <1>2, <2>3 DEF AfterVerification
  <2> QED BY <2>1, <2>2, <2>3
<1> QED BY <1>1, <1>2, <1>3, <1>4, <1>5

\* A step of one run keeps what is read of the others.
LEMMA OneRunReads ==
    ASSUME Inv, Reads, NEW k \in Keys, NEW type, NEW parent, NEW passed, NEW f,
           Record(k, type, parent, passed), Go(k, f),
           RunRead(Append(ledger[k], Event(type, parent, passed)), f)
    PROVE  Reads'
<1>1. /\ ledger' = [ledger EXCEPT ![k] = Append(ledger[k], Event(type, parent, passed))] /\ exec' = [exec EXCEPT ![k] = f]
      /\ DOMAIN ledger = Keys /\ DOMAIN exec = Keys
  BY DEF Record, Go, Inv
<1>2. ASSUME NEW j \in Keys PROVE RunRead(ledger'[j], exec'[j])
  <2>1. CASE j = k
    <3>1. ledger'[j] = Append(ledger[k], Event(type, parent, passed)) /\ exec'[j] = f
      BY <1>1, <2>1
    <3> QED BY <3>1
  <2>2. CASE j # k
    <3>1. ledger'[j] = ledger[j] /\ exec'[j] = exec[j]
      BY <1>1, <2>2
    <3> QED BY <3>1 DEF Reads
  <2> QED BY <2>1, <2>2
<1> QED BY <1>2 DEF Reads

\* Nothing recorded, what is left to do unchanged or dropped.
LEMMA NothingReads ==
    ASSUME Inv, Reads, UNCHANGED ledger,
           \A k \in Keys : exec'[k].todo = <<>> \/ (exec'[k].todo = exec[k].todo /\ exec'[k].parent = exec[k].parent)
    PROVE  Reads'
<1>1. ASSUME NEW k \in Keys PROVE RunRead(ledger'[k], exec'[k])
  <2>1. RunRead(ledger[k], exec[k]) /\ ledger'[k] = ledger[k]
    BY DEF Reads
  <2>2. CASE exec'[k].todo = <<>>
    BY <2>1, <2>2, CoursesLinked DEF RunRead
  <2>3. CASE exec'[k].todo = exec[k].todo /\ exec'[k].parent = exec[k].parent
    BY <2>1, <2>3 DEF RunRead
  <2> QED BY <2>2, <2>3
<1> QED BY <1>1 DEF Reads

\* The types of events nobody looks for.
Plain == Types \ {"authority.decided", "repair.executed", "verification.completed"}

\* Such an event is recorded, and nothing is left to do.
LEMMA PlainEnds ==
    ASSUME Inv, Reads, NEW k \in Keys, NEW type \in Plain, NEW parent \in Nat, NEW passed \in BOOLEAN, NEW f,
           f.todo = <<>>, Record(k, type, parent, passed), Go(k, f)
    PROVE  Reads'
<1> DEFINE ev == Event(type, parent, passed)
<1>1. ledger[k] \in Seq(Events) /\ ev \in Events /\ ev.type = type /\ ReadInv(ledger[k])
  BY Recordable DEF Plain, Reads, RunRead
<1>2. Caused(ledger[k], ev.type, ev.parent)
  BY <1>1 DEF Caused, Plain
<1> HIDE DEF ev
<1>3. ReadInv(Append(ledger[k], ev))
  BY <1>1, <1>2, ReadGrows
<1>4. RunRead(Append(ledger[k], ev), f)
  BY <1>3, CoursesLinked DEF RunRead
<1> QED BY <1>4, OneRunReads DEF ev

\* An event of the course is recorded.
LEMMA CourseReads ==
    ASSUME Inv, Reads, NEW k \in Keys, exec[k].at = "running", exec[k].todo # <<>>, Head(exec[k].todo) \in Types,
           NEW passed \in BOOLEAN, NEW f, f.parent = Last(k) + 1,
           \/ f.todo = Tail(exec[k].todo) \/ f.todo = <<>>
           \/ \E p \in BOOLEAN, attempt \in 0..MaxAttempts : f.todo = AfterVerification(p, attempt),
           Record(k, Head(exec[k].todo), exec[k].parent, passed), Go(k, f)
    PROVE  Reads'
<1> DEFINE s == ledger[k]
           e == exec[k]
           ev == Event(Head(e.todo), e.parent, passed)
<1>1. /\ s \in Seq(Events) /\ RunInv(s, e) /\ e.todo \in Seq(Course) /\ Head(e.todo) = e.todo[1]
      /\ ev \in Events /\ ev.type = e.todo[1] /\ ev.parent = e.parent /\ ReadInv(s) /\ Linked(s, e.todo, e.parent)
  BY Recordable DEF Event, Reads, RunRead, Executions, Course
<1>2. Caused(s, ev.type, ev.parent)
  BY <1>1, CourseCauses
<1> HIDE DEF ev
<1>3. ReadInv(Append(s, ev))
  BY <1>1, <1>2, ReadGrows
<1>4. Linked(Append(s, ev), f.todo, f.parent)
  <2>1. CASE f.todo = Tail(e.todo)
    BY <1>1, <2>1, CourseStaysLinked DEF Last
  <2>2. CASE f.todo = <<>>
    BY <2>2, CoursesLinked
  <2>3. CASE \E p \in BOOLEAN, attempt \in 0..MaxAttempts : f.todo = AfterVerification(p, attempt)
    BY <2>3, CoursesLinked, Zenon
  <2> QED BY <2>1, <2>2, <2>3
<1> QED BY <1>3, <1>4, OneRunReads DEF RunRead, ev

-----------------------------------------------------------------------------
(* Step by step.                                                           *)

\* A run that fails.
LEMMA FailReads ==
    ASSUME Inv, Reads, NEW k \in Keys, Fail(k)
    PROVE  Reads'
<1>1. "failed" \in Plain /\ Gone.todo = <<>>
  BY DEF Plain, Types, Terminal, Gone
<1> QED BY <1>1, PlainEnds, Recordable DEF Fail

\* A fresh key, and the closing of an interrupted run.
LEMMA OthersRead ==
    ASSUME Inv, Reads, NEW k \in Keys,
           \/ \E case \in Cases, failing \in 0..MaxAttempts : Reserve(k, case, failing)
           \/ Reconcile(k) \/ Interrupt(k)
    PROVE  Reads'
<1>1. {"reserved", "interrupted", "failed"} \subseteq Plain
  BY DEF Plain, Types, Terminal
<1>2. ASSUME NEW case \in Cases, NEW failing \in 0..MaxAttempts, Reserve(k, case, failing) PROVE Reads'
  <2>1. [Gone EXCEPT !.at = "reserving", !.case = case, !.failing = failing].todo = <<>>
    BY DEF Gone
  <2> QED BY <1>1, <1>2, <2>1, PlainEnds DEF Reserve
<1>3. CASE Reconcile(k)
  <2>1. [Gone EXCEPT !.at = "interrupting"].todo = <<>>
    BY DEF Gone
  <2> QED BY <1>1, <1>3, <2>1, PlainEnds, Recordable DEF Reconcile
<1>4. CASE Interrupt(k)
  <2>1. Gone.todo = <<>>
    BY DEF Gone
  <2> QED BY <1>1, <1>4, <2>1, PlainEnds, Recordable DEF Interrupt
<1> QED BY <1>2, <1>3, <1>4

\* The start: nothing is planned yet.
LEMMA LaunchReads ==
    ASSUME Inv, Reads, NEW k \in Keys, Launch(k)
    PROVE  Reads'
<1> DEFINE s == ledger[k]
           ev == Event("run.started", Last(k), FALSE)
           f == [exec[k] EXCEPT !.at = "launched", !.todo = Script(exec[k].case)]
<1>1. /\ s \in Seq(Events) /\ s = <<Event("reserved", 0, FALSE)>> /\ ev \in Events /\ ev.type = "run.started"
      /\ ReadInv(s)
  BY Recordable DEF Launch, RunInv, PlaceInv, Types, Reads, RunRead
<1>2. f.todo = Script(exec[k].case)
  BY Recordable DEF Executions
<1>3. PlanOf(s) = 0
  <2>1. PICK p : p = PlanOf(s)
    OBVIOUS
  <2>2. p # 0 => p \in DOMAIN s /\ s[p].type \in Plans
    BY <1>1, <2>1, NewestIs DEF PlanOf
  <2>3. \A n \in DOMAIN s : s[n].type = "reserved"
    BY <1>1 DEF Event
  <2> QED BY <2>1, <2>2, <2>3 DEF Plans
<1> HIDE DEF ev
<1>4. ReadInv(Append(s, ev))
  BY <1>1, ReadGrows DEF Caused
<1>5. PlanOf(Append(s, ev)) = 0
  BY <1>1, <1>3, MarksGrow DEF Plans
<1>6. Linked(Append(s, ev), f.todo, f.parent)
  BY <1>2, <1>5, CoursesLinked DEF Script
<1> QED BY <1>4, <1>6, OneRunReads DEF RunRead, Launch, ev

\* The topology answers or does not.
LEMMA BindTopologyReads ==
    ASSUME Inv, Reads, NEW k \in Keys, BindTopology(k)
    PROVE  Reads'
<1>1. CASE Fail(k)
  BY <1>1, FailReads
<1>2. CASE Go(k, [exec[k] EXCEPT !.at = "running"]) /\ UNCHANGED ledger
  <2>1. \A j \in Keys : exec'[j].todo = exec[j].todo /\ exec'[j].parent = exec[j].parent
    BY <1>2 DEF Go, Inv
  <2> QED BY <1>2, <2>1, NothingReads
<1> QED BY <1>1, <1>2 DEF BindTopology

\* A role goes to work, or the run fails.
LEMMA CallRoleReads ==
    ASSUME Inv, Reads, NEW k \in Keys, CallRole(k)
    PROVE  Reads'
<1>1. CASE Fail(k)
  BY <1>1, FailReads
<1>2. CASE /\ Record(k, "role.working", exec[k].parent, FALSE)
           /\ Go(k, [exec[k] EXCEPT !.at = "answering", !.parent = Last(k) + 1])
  <2> DEFINE s == ledger[k]
             todo == exec[k].todo
             ev == Event("role.working", exec[k].parent, FALSE)
             f == [exec[k] EXCEPT !.at = "answering", !.parent = Last(k) + 1]
  <2>a. ev \in Events /\ ev.type = "role.working"
    BY Recordable DEF Types
  <2>b. exec[k] \in Executions /\ todo \in Seq(Course) /\ f.todo = todo
    BY Recordable DEF Executions, Course
  <2>c. todo # <<>> /\ todo[1] \in Roles
    BY <2>b DEF CallRole, Doing
  <2>1. /\ s \in Seq(Events) /\ ev \in Events /\ ev.type = "role.working" /\ ReadInv(s)
        /\ Linked(s, todo, exec[k].parent) /\ f.todo = todo /\ todo # <<>> /\ todo[1] \in Roles
        /\ todo \in Seq(Course)
    BY <2>a, <2>b, <2>c, Recordable DEF Reads, RunRead
  <2> HIDE DEF ev
  <2>2. ReadInv(Append(s, ev))
    BY <2>1, ReadGrows DEF Caused
  <2>3. /\ PlanOf(Append(s, ev)) = PlanOf(s) /\ AuthorityOf(Append(s, ev)) = AuthorityOf(s)
        /\ RepairOf(Append(s, ev)) = RepairOf(s)
    BY <2>1, MarksGrow DEF Plans
  <2>4. Linked(Append(s, ev), f.todo, f.parent)
    BY <2>1, <2>3 DEF Linked, AuthorityInCourse, RepairInCourse, Roles
  <2> QED BY <1>2, <2>2, <2>4, OneRunReads DEF RunRead, ev
<1> QED BY <1>1, <1>2 DEF CallRole

\* A role answers, or the run fails.
LEMMA RoleAnswersReads ==
    ASSUME Inv, Reads, NEW k \in Keys, RoleAnswers(k)
    PROVE  Reads'
<1>1. CASE Fail(k)
  BY <1>1, FailReads
<1>2. CASE /\ Record(k, "role.response", exec[k].parent, FALSE)
           /\ Go(k, [Done(k) EXCEPT !.at = "running"])
  <2> DEFINE s == ledger[k]
             todo == exec[k].todo
             ev == Event("role.response", exec[k].parent, FALSE)
             f == [Done(k) EXCEPT !.at = "running"]
  <2>a. ev \in Events /\ ev.type = "role.response"
    BY Recordable DEF Types
  <2>b. todo \in Seq(Course)
    BY Recordable DEF Executions, Course
  <2>c. todo # <<>> /\ todo[1] \in Roles
    BY Recordable DEF RoleAnswers, RunInv, PlaceInv
  <2>1. /\ s \in Seq(Events) /\ ev \in Events /\ ev.type = "role.response" /\ ReadInv(s)
        /\ Linked(s, todo, exec[k].parent) /\ todo # <<>> /\ todo[1] \in Roles
        /\ todo \in Seq(Course)
    BY <2>a, <2>b, <2>c, Recordable DEF Reads, RunRead
  <2>2. f.todo = Tail(todo) /\ f.parent = Len(s) + 1
    BY Recordable DEF Done, Executions, Last
  <2> HIDE DEF ev
  <2>3. ReadInv(Append(s, ev))
    BY <2>1, ReadGrows DEF Caused
  <2>4. Linked(Append(s, ev), f.todo, f.parent)
    BY <2>1, <2>2, CourseStaysLinked
  <2> QED BY <1>2, <2>3, <2>4, OneRunReads DEF RunRead, ev
<1> QED BY <1>1, <1>2 DEF RoleAnswers

\* An event of the course that follows from the one before it.
LEMMA AdvanceReads ==
    ASSUME Inv, Reads, NEW k \in Keys, Advance(k)
    PROVE  Reads'
<1> DEFINE f == [Done(k) EXCEPT !.faulted = @ \/ Head(exec[k].todo) = "fault.injected"]
<1>0. /\ exec[k].at = "running" /\ exec[k].todo # <<>> /\ Head(exec[k].todo) \notin Roles
      /\ Record(k, Head(exec[k].todo), exec[k].parent, FALSE) /\ Go(k, f)
  BY DEF Advance
<1>1. Head(exec[k].todo) \in Types
  <2>1. PICK todo \in Seq(Types \cup Roles) : todo = exec[k].todo
    BY Recordable DEF Executions
  <2> QED BY <1>0, <2>1
<1>2. f.todo = Tail(exec[k].todo) /\ f.parent = Last(k) + 1
  BY Recordable DEF Done, Executions
<1> HIDE DEF f
<1> QED BY <1>0, <1>1, <1>2, CourseReads

\* The repair, or the refusal to repair.
LEMMA RepairReads ==
    ASSUME Inv, Reads, NEW k \in Keys, Repair(k)
    PROVE  Reads'
<1> DEFINE f == [Done(k) EXCEPT !.faulted = FALSE, !.attempt = @ + 1]
<1>1. CASE ~exec[k].faulted
  BY <1>1, FailReads DEF Repair
<1>2. CASE exec[k].faulted
  <2>1. /\ exec[k].at = "running" /\ exec[k].todo # <<>> /\ Head(exec[k].todo) = "repair.executed"
        /\ Record(k, Head(exec[k].todo), exec[k].parent, FALSE) /\ Go(k, f)
    BY <1>2 DEF Repair, Doing
  <2>2. f.todo = Tail(exec[k].todo) /\ f.parent = Last(k) + 1
    BY Recordable DEF Done, Executions
  <2> HIDE DEF f
  <2> QED BY <2>1, <2>2, CourseReads DEF Types
<1> QED BY <1>1, <1>2

\* The verification.
LEMMA VerifyReads ==
    ASSUME Inv, Reads, NEW k \in Keys, Verify(k)
    PROVE  Reads'
<1> DEFINE passed == ~exec[k].faulted /\ exec[k].failing = 0
           f == [Done(k) EXCEPT !.failing = IF @ > 0 THEN @ - 1 ELSE 0,
                                !.todo = AfterVerification(passed, exec[k].attempt)]
<1>1. /\ exec[k].at = "running" /\ exec[k].todo # <<>> /\ Head(exec[k].todo) = "verification.completed"
      /\ Record(k, Head(exec[k].todo), exec[k].parent, passed) /\ Go(k, f)
  BY DEF Verify, Doing
<1>2. f.todo = AfterVerification(passed, exec[k].attempt) /\ f.parent = Last(k) + 1 /\ exec[k].attempt \in 0..MaxAttempts
  BY Recordable DEF Done, Executions
<1>3. passed \in BOOLEAN
  OBVIOUS
<1> HIDE DEF f, passed
<1> QED BY <1>1, <1>2, <1>3, CourseReads DEF Types

\* The rollback.
LEMMA RollBackReads ==
    ASSUME Inv, Reads, NEW k \in Keys, RollBack(k)
    PROVE  Reads'
<1> DEFINE f == [Done(k) EXCEPT !.faulted = TRUE]
<1>1. /\ exec[k].at = "running" /\ exec[k].todo # <<>> /\ Head(exec[k].todo) = "repair.rolled_back"
      /\ Record(k, Head(exec[k].todo), exec[k].parent, FALSE) /\ Go(k, f)
  BY DEF RollBack, Doing
<1>2. f.todo = Tail(exec[k].todo) /\ f.parent = Last(k) + 1
  BY Recordable DEF Done, Executions
<1> HIDE DEF f
<1> QED BY <1>1, <1>2, CourseReads DEF Types

\* The end of a run.
LEMMA FinishReads ==
    ASSUME Inv, Reads, NEW k \in Keys, Finish(k)
    PROVE  Reads'
<1>1. Head(exec[k].todo) \in Plain /\ Gone.todo = <<>>
  BY DEF Finish, Doing, Plain, Types, Terminal, Gone
<1> QED BY <1>1, PlainEnds, Recordable DEF Finish

\* Nothing is read at first.
LEMMA InitReads == Init => Reads
<1> SUFFICES ASSUME Init, NEW k \in Keys PROVE RunRead(ledger[k], exec[k])
  BY DEF Reads
<1>1. PICK none : none = <<>>
  OBVIOUS
<1>2. none \in Seq(Events) /\ Len(none) = 0
  BY <1>1
<1>3. Reading(none) = View!Unread
  BY <1>1, <1>2, NothingRead
<1>4. PlanOf(none) = 0 /\ AuthorityOf(none) = 0 /\ RepairOf(none) = 0 /\ VerificationOf(none) = 0
  <2>1. ASSUME NEW types PROVE NewestOf(none, types) = 0
    <3>1. PICK p : p = NewestOf(none, types)
      OBVIOUS
    <3>2. p \in 0..Len(none)
      BY <1>2, <3>1, NewestIs
    <3> QED BY <1>2, <3>1, <3>2
  <2> QED BY <2>1, Zenon DEF PlanOf, AuthorityOf, RepairOf, VerificationOf
<1>5. ReadInv(none)
  BY <1>3, <1>4 DEF ReadInv, View!Unread
<1>6. ledger[k] = none /\ exec[k].todo = <<>>
  BY <1>1 DEF Init, Gone
<1> QED BY <1>5, <1>6, CoursesLinked DEF RunRead

\* Every step keeps what is read in line with what was recorded.
LEMMA NextReads ==
    ASSUME Inv, Reads, [Next]_vars
    PROVE  Reads'
<1>1. ASSUME NEW k \in Keys, Execute(k) PROVE Reads'
  BY <1>1, LaunchReads, BindTopologyReads, AdvanceReads, CallRoleReads, RoleAnswersReads, RepairReads,
     VerifyReads, RollBackReads, FinishReads, OthersRead DEF Execute
<1>2. ASSUME NEW k \in Keys, LedgerFails(k) PROVE Reads'
  <2>1. CASE Fail(k)
    BY <2>1, FailReads
  <2>2. CASE Go(k, Gone) /\ UNCHANGED ledger
    <3>1. \A j \in Keys : exec'[j].todo = <<>> \/ (exec'[j].todo = exec[j].todo /\ exec'[j].parent = exec[j].parent)
      BY <2>2 DEF Go, Gone, Inv
    <3> QED BY <2>2, <3>1, NothingReads
  <2> QED BY <1>2, <2>1, <2>2 DEF LedgerFails
<1>3. CASE Restart
  <2>1. UNCHANGED ledger /\ \A j \in Keys : exec'[j].todo = <<>>
    BY <1>3 DEF Restart, Gone
  <2> QED BY <2>1, NothingReads
<1>4. ASSUME UNCHANGED <<ledger, exec>> PROVE Reads'
  BY <1>4, NothingReads
<1>5. ASSUME NEW k \in Keys, LeaseExpires(k) PROVE UNCHANGED <<ledger, exec>>
  BY <1>5 DEF LeaseExpires
<1>6. UNCHANGED vars => UNCHANGED <<ledger, exec>>
  BY DEF vars
<1> QED BY <1>1, <1>2, <1>3, <1>4, <1>5, <1>6, OthersRead DEF Next

\* What is read of the whole of a run is what was recorded.
THEOREM ReadingsInvariance == Spec => [](Inv /\ Reads)
<1>1. Inv /\ Reads /\ [Next]_vars => Reads'
  BY NextReads
<1> QED BY <1>1, InitReads, Invariance, PTL DEF Spec

-----------------------------------------------------------------------------
(* What is recognized of the whole of a run.                               *)

\* The verification is shown of a recovered run, and of no other.
LEMMA ShownIsRecovered ==
    ASSUME NEW s \in Seq(Events), LedgerInv(s), ReadInv(s)
    PROVE  View!VerificationShown(s, DOMAIN s) <=> "recovered" \in TypesOf(s)
<1>1. Len(s) \in Nat /\ DOMAIN s = 1..Len(s)
  OBVIOUS
<1>2. PICK newest : newest = View!Newest(DOMAIN s \cap DOMAIN s)
  OBVIOUS
<1>3. newest = Len(s)
  <2>1. PICK bound \in Nat : bound = Len(s)
    BY <1>1
  <2>2. PICK places : places = DOMAIN s \cap DOMAIN s
    OBVIOUS
  <2>3. places = 1..bound
    BY <1>1, <2>1, <2>2
  <2>4. newest = View!Newest(places)
    BY <1>2, <2>2
  <2>5. /\ newest \in 0..bound /\ (newest = 0 <=> places = {})
        /\ newest # 0 => \A m \in places : m <= newest
    BY <2>3, <2>4, NewestIsLast
  <2>6. bound # 0 => bound \in places
    BY <2>3
  <2>7. newest = bound
    BY <2>5, <2>6
  <2> QED BY <2>1, <2>7
<1>4. ASSUME NEW types
      PROVE  View!Places(s, Len(s), types) = {n \in DOMAIN s : s[n].type \in types}
  BY <1>1 DEF View!Places
<1>5. PICK ending : ending = View!Newest(View!Places(s, Len(s), View!Endings))
  OBVIOUS
<1>6. /\ ending \in 0..Len(s)
      /\ ending # 0 => ending \in DOMAIN s /\ s[ending].type \in View!Endings
      /\ \A n \in DOMAIN s : s[n].type \in View!Endings => n <= ending
  <2>1. ending = NewestOf(s, View!Endings)
    BY <1>4, <1>5 DEF NewestOf
  <2> QED BY <2>1, NewestIs
<1>7. View!StateOf(s, Len(s)) = IF ending = 0 THEN "running"
                                ELSE IF s[ending].type = "stopped" THEN "needs_human" ELSE s[ending].type
  BY <1>5 DEF View!StateOf
<1>8. ASSUME View!VerificationShown(s, DOMAIN s) PROVE "recovered" \in TypesOf(s)
  <2>1. View!StateOf(s, Len(s)) = "recovered"
    BY <1>2, <1>3, <1>8 DEF View!VerificationShown
  <2>2. ending # 0 /\ s[ending].type = "recovered"
    BY <1>6, <1>7, <2>1 DEF View!Endings
  <2> QED BY <1>6, <2>2 DEF TypesOf
<1>9. ASSUME "recovered" \in TypesOf(s) PROVE View!VerificationShown(s, DOMAIN s)
  <2>1. s[Len(s)].type = "recovered" /\ Proven(s, Len(s) - 1)
    BY <1>9 DEF LedgerInv
  <2>2. /\ Len(s) - 1 \in DOMAIN s /\ Len(s) - 2 \in DOMAIN s /\ Len(s) \in DOMAIN s
        /\ s[Len(s) - 1].type = "verification.completed" /\ s[Len(s) - 1].passed
        /\ s[Len(s) - 2].type = "repair.executed"
    <3>1. PICK n : n = Len(s) /\ n \in Nat
      BY <1>1
    <3>2. /\ n - 1 > 1 /\ n - 1 \in DOMAIN s
          /\ s[n - 1].type = "verification.completed" /\ s[n - 1].passed
          /\ s[(n - 1) - 1].type = "repair.executed"
      BY <2>1, <3>1, Zenon DEF Proven
    <3>3. (n - 1) - 1 = n - 2 /\ n - 2 \in 1..n /\ n \in 1..n
      BY <3>1, <3>2
    <3> QED BY <1>1, <3>1, <3>2, <3>3
  <2>3. View!StateOf(s, Len(s)) = "recovered"
    <3>1. Len(s) <= ending
      BY <1>6, <2>1, <2>2 DEF View!Endings
    <3>3. PICK n : n = Len(s) /\ n \in Nat
      BY <1>1
    <3>4. n <= ending /\ ending \in 0..n /\ n \in 1..n
      BY <1>1, <1>6, <2>2, <3>1, <3>3
    <3>5. ending = n /\ ending # 0
      BY <3>3, <3>4
    <3>2. ending = Len(s) /\ ending # 0
      BY <3>3, <3>5
    <3> QED BY <1>7, <2>1, <3>2
  <2>4. PICK v : v = VerificationOf(s)
    OBVIOUS
  <2>5. v > 0 /\ s[v].passed /\ s[v].type = "verification.completed" /\ v \in DOMAIN s
    <3>1. /\ v \in 0..Len(s)
          /\ v # 0 => v \in DOMAIN s /\ s[v].type \in {"verification.completed"}
          /\ \A n \in DOMAIN s : s[n].type \in {"verification.completed"} => n <= v
      BY <2>4, NewestIs DEF VerificationOf
    <3>2. Len(s) - 1 <= v
      BY <2>2, <3>1
    <3>3. PICK n : n = Len(s) /\ n \in Nat
      BY <1>1
    <3>4. n - 1 <= v /\ v \in 0..n /\ n - 1 \in 1..n
      BY <1>1, <2>2, <3>1, <3>2, <3>3
    <3>5. v # 0 /\ v > 0
      BY <3>3, <3>4
    <3>6. v \in DOMAIN s /\ s[v].type = "verification.completed"
      BY <3>1, <3>5
    <3>7. v # n
      BY <2>1, <3>3, <3>6
    <3>8. v = n - 1
      BY <3>3, <3>4, <3>7
    <3>9. s[v].passed
      BY <2>2, <3>3, <3>8
    <3> QED BY <3>5, <3>6, <3>9
  <2>6. View!CompareRecovery(s, Len(s))
    <3>1. Len(s) - 1 \in {n \in DOMAIN s : s[n].type \in {"verification.completed"}}
      BY <2>2
    <3>2. Len(s) - 2 \in {n \in DOMAIN s : s[n].type \in {"repair.executed"}}
      BY <2>2
    <3>3. View!Seen(s, Len(s), {"verification.completed"}) /\ View!Seen(s, Len(s), {"repair.executed"})
      BY <1>4, <3>1, <3>2 DEF View!Seen
    <3> QED BY <2>3, <3>3 DEF View!CompareRecovery
  <2>7. View!WorkflowEvidence(s, DOMAIN s).verificationPassed
    <3>1. Reading(s).passed
      BY <2>4, <2>5 DEF ReadInv
    <3> QED BY <3>1 DEF View!WorkflowEvidence, Reading
  <2>8. View!TopologyVerified(s, Len(s))
    <3>1. View!Newest(View!Places(s, Len(s), {"verification.completed"})) = v
      BY <1>4, <2>4 DEF VerificationOf, NewestOf
    <3> QED BY <2>3, <2>5, <3>1 DEF View!TopologyVerified
  <2> QED BY <1>2, <1>3, <2>3, <2>6, <2>7, <2>8 DEF View!VerificationShown
<1> QED BY <1>8, <1>9

\* Whoever reads the whole of a run recognizes every authority, repair and
\* verification of it, and takes a run for verified if and only if it recovered.
THEOREM WholeRunRead == Spec => []WholeRunIsRecognized
<1>1. Inv /\ Reads => WholeRunIsRecognized
  <2> SUFFICES ASSUME Inv, Reads, NEW k \in Keys
               PROVE  LET evidence == View!WorkflowEvidence(ledger[k], DOMAIN ledger[k])
                          newest(types) == View!Newest({n \in DOMAIN ledger[k] : ledger[k][n].type \in types})
                          plan == newest({"plan.proposed", "plan.replanned"})
                          verification == newest({"verification.completed"})
                      IN  /\ evidence.repairExecuted <=> newest({"repair.executed"}) > plan
                          /\ evidence.authorityGranted <=> plan > 0 /\ newest({"authority.decided"}) > plan
                          /\ evidence.verificationPassed <=> verification > 0 /\ ledger[k][verification].passed
                          /\ evidence.verificationFailed <=> verification > 0 /\ ~ledger[k][verification].passed
                          /\ View!VerificationShown(ledger[k], DOMAIN ledger[k]) <=> "recovered" \in TypesOf(ledger[k])
    BY DEF WholeRunIsRecognized
  <2> DEFINE s == ledger[k]
             evidence == View!WorkflowEvidence(s, DOMAIN s)
  <2>1. s \in Seq(Events) /\ LedgerInv(s) /\ ReadInv(s)
    BY Recordable DEF RunInv, Reads, RunRead
  <2>2. View!VerificationShown(s, DOMAIN s) <=> "recovered" \in TypesOf(s)
    BY <2>1, ShownIsRecovered
  <2> HIDE DEF s
  <2>3. /\ evidence.repairExecuted = (Reading(s).repaired # 0)
        /\ evidence.authorityGranted = (Reading(s).authorized # 0)
        /\ evidence.verificationPassed = Reading(s).passed
        /\ evidence.verificationFailed = Reading(s).failed
    BY DEF View!WorkflowEvidence, Reading
  <2>4. PlanOf(s) \in Nat /\ AuthorityOf(s) \in Nat /\ RepairOf(s) \in Nat
    <3>1. \A types : NewestOf(s, types) \in 0..Len(s)
      BY <2>1, NewestIs, Zenon
    <3>2. Len(s) \in Nat
      BY <2>1
    <3> QED BY <3>1, <3>2 DEF PlanOf, AuthorityOf, RepairOf
  <2> HIDE DEF evidence
  <2>5. /\ evidence.repairExecuted <=> RepairOf(s) > PlanOf(s)
        /\ evidence.authorityGranted <=> PlanOf(s) > 0 /\ AuthorityOf(s) > PlanOf(s)
        /\ evidence.verificationPassed <=> VerificationOf(s) > 0 /\ s[VerificationOf(s)].passed
        /\ evidence.verificationFailed <=> VerificationOf(s) > 0 /\ ~s[VerificationOf(s)].passed
    <3>1. PICK w : w = Reading(s)
      OBVIOUS
    <3>2. PICK p \in Nat : p = PlanOf(s)
      BY <2>4
    <3>3. PICK a \in Nat : a = AuthorityOf(s)
      BY <2>4
    <3>4. PICK r \in Nat : r = RepairOf(s)
      BY <2>4
    <3>5. /\ w.authorized = IF p > 0 /\ a > p THEN a ELSE 0
          /\ w.repaired = IF r > p THEN r ELSE 0
          /\ w.passed <=> VerificationOf(s) > 0 /\ s[VerificationOf(s)].passed
          /\ w.failed <=> VerificationOf(s) > 0 /\ ~s[VerificationOf(s)].passed
      BY <2>1, <3>1, <3>2, <3>3, <3>4 DEF ReadInv
    <3>6. (w.authorized # 0 <=> p > 0 /\ a > p) /\ (w.repaired # 0 <=> r > p)
      BY <3>5
    <3> QED BY <2>3, <3>1, <3>2, <3>3, <3>4, <3>5, <3>6
  <2> QED BY <2>2, <2>5 DEF PlanOf, AuthorityOf, RepairOf, VerificationOf, NewestOf, Plans, s, evidence
<1> QED BY <1>1, ReadingsInvariance, PTL
=============================================================================
