------------------------- MODULE WorkflowStoreProofs -------------------------
(***************************************************************************)
(* The safety properties of WorkflowStore, for any number of writers, keys *)
(* and tries.                                                              *)
(*                                                                         *)
(* That a command is applied as its operator saw the incident rests on     *)
(* what its validation established (Validated) and on that a command does  *)
(* not change once it was sent (Authored); that races are real on that a   *)
(* projection revision stands for one projection (Snapshots).              *)
(***************************************************************************)
EXTENDS WorkflowStore, SequenceTheorems, TLAPS

\* A command that was validated is computed from the revision its operator saw.
Validated ==
    \A u \in Updates :
        pc[u] \in {"recheck", "commit"} => read[u].workflow = request[u].expected

\* What was committed was sent.
Authored == \A n \in DOMAIN log : pc[log[n].by] # "idle"

\* What was read is not newer than what is stored, and the same if its
\* revision is.
Snapshots ==
    \A x \in Writers :
        /\ read[x].revision <= Revision
        /\ read[x].revision = Revision => read[x].workflow = workflow

\* An operation lost its races before it last read.
Races ==
    \A x \in Writers :
        /\ tries[x] <= Len(log)
        /\ pc[x] \in {"check", "recheck", "commit"} => tries[x] < read[x].revision

Inv == TypeOK /\ ReceiptsTrue /\ Validated /\ Authored /\ AppliedAsSeen /\ Snapshots /\ Races

-----------------------------------------------------------------------------
(* The log.                                                                *)

\* A commit adds an entry and leaves the others as they are.
LEMMA Appended ==
    ASSUME TypeOK, NEW e, log' = Append(log, e)
    PROVE  /\ Len(log') = Len(log) + 1
           /\ DOMAIN log' = DOMAIN log \cup {Len(log) + 1}
           /\ log'[Len(log) + 1] = e
           /\ \A n \in DOMAIN log : log'[n] = log[n]
  BY AppendProperties DEF TypeOK

\* The commits of writers are well typed.
LEMMA CommitTyped ==
    ASSUME TypeOK, NEW x \in Writers, Commit(x)
    PROVE  /\ log' \in Seq(Commits)
           /\ \E e \in Commits : log' = Append(log, e) /\ e.by = x /\ e.key = Key(x)
                                 /\ e.content = Content(x) /\ e.workflow = workflow
                                 /\ e.base = Len(log)
<1> DEFINE e == [by |-> x, key |-> Key(x), content |-> Content(x),
                 base |-> read[x].revision - 1, workflow |-> workflow]
<1>1. Key(x) \in Operations /\ Content(x) \in (Contents \X Nat) \cup Internals \cup Syncs
  BY DEF TypeOK, Requests, Key, Content, Operations, Writers
<1>2. read[x].revision - 1 = Len(log) /\ Len(log) \in Nat
  BY DEF Commit, Fits, Revision, TypeOK
<1>3. e \in Commits
  BY <1>1, <1>2 DEF TypeOK, Commits
<1>4. log' = Append(log, e)
  BY DEF Commit
<1>5. log' \in Seq(Commits)
  BY <1>3, <1>4, AppendProperties DEF TypeOK
<1> QED BY <1>2, <1>3, <1>4, <1>5

-----------------------------------------------------------------------------
(* Every step keeps the invariant.                                         *)

\* The initial states satisfy it: nothing was sent and nothing stored.
LEMMA InitHasInv == Init => Inv
<1> SUFFICES ASSUME Init PROVE Inv
  OBVIOUS
<1> USE LimitsAssumption DEF Init
<1>1. log \in Seq(Commits) /\ Len(log) = 0 /\ DOMAIN log = {}
  OBVIOUS
<1>2. request \in [Updates -> Requests]
  BY DEF Requests
<1>3. tries \in [Writers -> 0..(MaxTries - 1)] /\ attempt \in [Writers -> 1..MaxAttempts]
  OBVIOUS
<1>4. TypeOK
  BY <1>1, <1>2, <1>3 DEF TypeOK, Places
<1> QED BY <1>1, <1>4 DEF Inv, ReceiptsTrue, Validated, Authored, AppliedAsSeen, Snapshots, Races,
                          Revision, Writers

Committed(x) == \E n \in DOMAIN log : log[n].key = Key(x) /\ log[n].content = Content(x)

Now == [workflow |-> workflow, revision |-> Revision]

(***************************************************************************)
(* What a step of writer x, with the log left alone, respects: it claims   *)
(* acceptance only of what is committed, goes on only with what was        *)
(* validated, and counts only races it lost.                               *)
(***************************************************************************)
Moves(x, place, seen, number, lost) ==
    /\ place \in Places \ {"idle"} /\ pc' = [pc EXCEPT ![x] = place]
    /\ seen \in {read[x], Now} /\ read' = [read EXCEPT ![x] = seen]
    /\ number \in 1..MaxAttempts /\ attempt' = [attempt EXCEPT ![x] = number]
    /\ lost \in 0..(MaxTries - 1) /\ tries' = [tries EXCEPT ![x] = lost]
    /\ started' \subseteq Updates
    /\ UNCHANGED <<log, workflow, request>>
    /\ x \in Updates \cup Internals /\ place \in {"accepted", "reused", "done"} => Committed(x)
    /\ x \in Updates /\ place \in {"recheck", "commit"} => seen.workflow = request[x].expected
    /\ lost <= Len(log)
    /\ place \in {"check", "recheck", "commit"} => lost < seen.revision

\* Such a step keeps the invariant.
LEMMA MoveKeepsInv ==
    ASSUME Inv, NEW x \in Writers, NEW place, NEW seen, NEW number, NEW lost,
           Moves(x, place, seen, number, lost)
    PROVE  Inv'
<1> USE DEF Inv, Moves
<1>1. seen \in [workflow : Nat, revision : Nat \ {0}]
  BY DEF TypeOK, Now, Revision
<1>2. TypeOK'
  BY <1>1 DEF TypeOK
<1>3. ReceiptsTrue'
  <2>1. \A y : Key(y)' = Key(y) /\ Content(y)' = Content(y)
    BY DEF Key, Content
  <2>2. pc \in [Writers -> Places]
    BY DEF TypeOK
  <2> SUFFICES ASSUME NEW y \in Updates \cup Internals, pc'[y] \in {"accepted", "reused", "done"}
               PROVE  Committed(y)
    BY <2>1 DEF ReceiptsTrue, Committed
  <2>3. CASE y = x
    BY <2>2, <2>3
  <2>4. CASE y # x
    BY <2>2, <2>4 DEF ReceiptsTrue, Committed
  <2> QED BY <2>3, <2>4
<1>4. Validated'
  BY DEF TypeOK, Validated, Writers
<1>5. Authored'
  BY DEF TypeOK, Authored
<1>6. AppliedAsSeen'
  BY DEF AppliedAsSeen
<1>7. Snapshots'
  BY DEF TypeOK, Snapshots, Now, Revision
<1>8. Races'
  BY DEF TypeOK, Races
<1> QED BY <1>2, <1>3, <1>4, <1>5, <1>6, <1>7, <1>8

\* The operator's command is fixed before anything is done with it.
LEMMA SubmitKeepsInv ==
    ASSUME Inv, NEW u \in Updates, Submit(u)
    PROVE  Inv'
<1> USE DEF Inv
<1>1. /\ pc[u] = "idle" /\ pc' = [pc EXCEPT ![u] = "read"]
      /\ UNCHANGED <<log, workflow, read, attempt, tries, started>>
  BY DEF Submit, Goto
<1>2. PICK expected \in 1..workflow : request' = [request EXCEPT ![u].expected = expected]
  BY DEF Submit
<1>3. request \in [Updates -> Requests] /\ workflow \in Nat /\ u \in Writers
      /\ pc \in [Writers -> Places]
  BY DEF TypeOK, Writers
<1>4. /\ request' \in [Updates -> Requests]
      /\ \A v \in Updates : request'[v].key = request[v].key
      /\ \A v \in Updates : v # u => request'[v] = request[v]
  BY <1>2, <1>3 DEF Requests
<1>5. \A x \in Writers : Key(x)' = Key(x) /\ (x # u => Content(x)' = Content(x))
  BY <1>4 DEF Key, Content
<1>6. TypeOK'
  BY <1>1, <1>3, <1>4 DEF TypeOK, Places
<1>7. ReceiptsTrue'
  BY <1>1, <1>3, <1>5 DEF ReceiptsTrue, Writers
<1>8. Validated'
  BY <1>1, <1>3, <1>4 DEF Validated, Writers
<1>9. Authored'
  BY <1>1, <1>3 DEF Authored
<1>10. AppliedAsSeen'
  BY <1>1, <1>4 DEF AppliedAsSeen, Authored
<1>11. Snapshots'
  BY <1>1 DEF Snapshots, Revision
<1>12. Races'
  BY <1>1, <1>3 DEF Races
<1> QED BY <1>6, <1>7, <1>8, <1>9, <1>10, <1>11, <1>12

\* What is stored with the same content is committed.
LEMMA MatchIsCommitted == ASSUME NEW x, Matches(x) PROVE Committed(x)
  BY DEF Matches, Stored, Committed

\* A commit adds one operation that was validated, and nobody else moves.
LEMMA CommitKeepsInv ==
    ASSUME Inv, NEW x \in Writers, Commit(x)
    PROVE  Inv'
<1>0. TypeOK /\ log \in Seq(Commits)
  BY DEF Inv, TypeOK
<1>1. PICK e \in Commits : /\ log' = Append(log, e) /\ e.by = x /\ e.key = Key(x)
                           /\ e.content = Content(x) /\ e.workflow = workflow
  BY <1>0, CommitTyped
<1>2. /\ Len(log') = Len(log) + 1 /\ Len(log) \in Nat
      /\ DOMAIN log' = DOMAIN log \cup {Len(log) + 1}
      /\ log'[Len(log) + 1] = e
      /\ \A n \in DOMAIN log : log'[n] = log[n]
  BY <1>0, <1>1, Appended
<1>3. /\ pc[x] = "commit" /\ pc' = [pc EXCEPT ![x] = "accepted"] /\ Fits(x)
      /\ workflow' \in {workflow, workflow + 1}
      /\ UNCHANGED <<request, read, attempt, tries, started>>
  BY DEF Commit, Goto
<1> USE DEF Inv
<1>4. pc \in [Writers -> Places] /\ workflow \in Nat
  BY DEF TypeOK
<1>5. TypeOK'
  BY <1>3, <1>4, CommitTyped DEF TypeOK, Places
<1>6. \A y : Key(y)' = Key(y) /\ Content(y)' = Content(y)
  BY <1>3 DEF Key, Content
<1>7. ReceiptsTrue'
  <2> SUFFICES ASSUME NEW y \in Updates \cup Internals, pc'[y] \in {"accepted", "reused", "done"}
               PROVE  \E n \in DOMAIN log' : log'[n].key = Key(y) /\ log'[n].content = Content(y)
    BY <1>6 DEF ReceiptsTrue
  <2>1. CASE y = x
    BY <1>1, <1>2, <2>1
  <2>2. CASE y # x
    BY <1>2, <1>3, <1>4, <2>2 DEF ReceiptsTrue, Writers
  <2> QED BY <2>1, <2>2
<1>8. Validated'
  BY <1>3, <1>4 DEF Validated, Writers
<1>9. Authored'
  BY <1>1, <1>2, <1>3, <1>4 DEF Authored
<1>10. AppliedAsSeen'
  <2>1. x \in Updates => workflow = request[x].expected
    BY <1>3 DEF Validated, Fits
  <2> QED BY <1>1, <1>2, <1>3, <2>1 DEF AppliedAsSeen
<1>11. Snapshots'
  BY <1>2, <1>3 DEF TypeOK, Snapshots, Revision
<1>12. Races'
  BY <1>2, <1>3, <1>4 DEF TypeOK, Races
<1> QED BY <1>5, <1>7, <1>8, <1>9, <1>10, <1>11, <1>12

\* All other steps move one writer.
LEMMA WriterKeepsInv ==
    ASSUME Inv, NEW x \in Writers,
           \/ x \notin Updates /\ Arrive(x)
           \/ x \in Syncs /\ Look(x)
           \/ Read(x) \/ Check(x) \/ Recheck(x) \/ CommitStored(x) \/ CommitRefused(x)
           \/ Answer(x) \/ WorkerDies(x)
    PROVE  Inv'
<1>t. /\ pc \in [Writers -> Places] /\ read \in [Writers -> [workflow : Nat, revision : Nat \ {0}]]
      /\ attempt \in [Writers -> 1..MaxAttempts] /\ tries \in [Writers -> 0..(MaxTries - 1)]
      /\ started \subseteq Updates /\ Len(log) \in Nat /\ MaxTries \in Nat \ {0}
      /\ MaxAttempts \in Nat \ {0}
  BY LimitsAssumption DEF Inv, TypeOK
<1>r. /\ tries[x] <= Len(log)
      /\ pc[x] \in {"check", "recheck", "commit"} => tries[x] < read[x].revision
      /\ tries[x] < Revision
  BY <1>t DEF Inv, Races, Revision
<1>i. /\ read = [read EXCEPT ![x] = read[x]] /\ attempt = [attempt EXCEPT ![x] = attempt[x]]
      /\ tries = [tries EXCEPT ![x] = tries[x]]
      /\ read[x] \in {read[x], Now} /\ Now \in {read[x], Now}
      /\ tries[x] \in 0..(MaxTries - 1) /\ attempt[x] \in 1..MaxAttempts
  BY <1>t
<1>d. Syncs \cap (Updates \cup Internals) = {}
  BY WritersAssumption
<1>1. CASE x \notin Updates /\ Arrive(x)
  <2>1. PICK place \in {"look", "read"} : pc' = [pc EXCEPT ![x] = place]
    BY <1>1 DEF Arrive, Goto, First
  <2>2. UNCHANGED <<log, workflow, request, read, attempt, tries, started>>
    BY <1>1 DEF Arrive
  <2>m. Moves(x, place, read[x], attempt[x], tries[x])
    BY <1>t, <1>r, <1>i, <2>1, <2>2 DEF Moves, Places
  <2> QED BY <2>m, MoveKeepsInv
<1>2. CASE x \in Syncs /\ Look(x)
  <2>1. PICK place \in {"done", "read"} : pc' = [pc EXCEPT ![x] = place]
    BY <1>2 DEF Look, Goto
  <2>2. UNCHANGED <<log, workflow, request, read, attempt, tries, started>>
    BY <1>2 DEF Look
  <2>m. Moves(x, place, read[x], attempt[x], tries[x])
    BY <1>t, <1>r, <1>i, <1>d, <1>2, <2>1, <2>2 DEF Moves, Places
  <2> QED BY <2>m, MoveKeepsInv
<1>3. CASE Read(x)
  <2>1. PICK place \in {"check", "commit", "done"} :
            /\ pc' = [pc EXCEPT ![x] = place]
            /\ place # "check" => x \in Syncs
    BY <1>3 DEF Read, Goto
  <2>2. read' = [read EXCEPT ![x] = Now] /\ UNCHANGED <<log, workflow, request, attempt, tries, started>>
    BY <1>3 DEF Read, Now
  <2>3. Now.revision = Revision
    BY DEF Now
  <2>m. Moves(x, place, Now, attempt[x], tries[x])
    BY <1>t, <1>r, <1>i, <1>d, <2>1, <2>2, <2>3 DEF Moves, Places
  <2> QED BY <2>m, MoveKeepsInv
<1>4. CASE Check(x)
  <2>1. PICK place \in {"reused", "recheck", "failed"} :
            /\ pc' = [pc EXCEPT ![x] = place]
            /\ place = "reused" => Matches(x)
            /\ place = "recheck" => Seen(x)
    BY <1>4 DEF Check, Goto
  <2>2. UNCHANGED <<log, workflow, request, read, attempt, tries, started>> /\ pc[x] = "check"
    BY <1>4 DEF Check
  <2>m. Moves(x, place, read[x], attempt[x], tries[x])
    BY <1>t, <1>r, <1>i, <2>1, <2>2, MatchIsCommitted DEF Moves, Places, Seen
  <2> QED BY <2>m, MoveKeepsInv
<1>5. CASE Recheck(x)
  <2>1. PICK place \in {"reused", "commit", "failed"} :
            pc' = [pc EXCEPT ![x] = place] /\ (place = "reused" => Matches(x))
    BY <1>5 DEF Recheck, Goto
  <2>2. UNCHANGED <<log, workflow, request, read, attempt, tries, started>> /\ pc[x] = "recheck"
    BY <1>5 DEF Recheck
  <2>3. x \in Updates => read[x].workflow = request[x].expected
    BY <2>2 DEF Inv, Validated
  <2>m. Moves(x, place, read[x], attempt[x], tries[x])
    BY <1>t, <1>r, <1>i, <2>1, <2>2, <2>3, MatchIsCommitted DEF Moves, Places
  <2> QED BY <2>m, MoveKeepsInv
<1>6. CASE CommitStored(x)
  <2>1. PICK place \in {"accepted", "failed"} :
            pc' = [pc EXCEPT ![x] = place] /\ (place = "accepted" => Matches(x))
    BY <1>6 DEF CommitStored, Goto
  <2>2. UNCHANGED <<log, workflow, request, read, attempt, tries, started>>
    BY <1>6 DEF CommitStored
  <2>m. Moves(x, place, read[x], attempt[x], tries[x])
    BY <1>t, <1>r, <1>i, <2>1, <2>2, MatchIsCommitted DEF Moves, Places
  <2> QED BY <2>m, MoveKeepsInv
<1>7. CASE CommitRefused(x)
  <2>1. UNCHANGED <<log, workflow, request, read, attempt, started>> /\ pc[x] = "commit" /\ ~Fits(x)
    BY <1>7 DEF CommitRefused
  <2>2. read[x].revision < Revision
    BY <1>t, <2>1 DEF Inv, Snapshots, Fits, Revision
  <2>3. tries[x] + 1 <= Len(log)
    BY <1>t, <1>r, <2>1, <2>2 DEF Revision
  <2>4. CASE pc' = [pc EXCEPT ![x] = "failed"] /\ UNCHANGED tries
    <3>m. Moves(x, "failed", read[x], attempt[x], tries[x])
      BY <1>t, <1>r, <1>i, <2>1, <2>4 DEF Moves, Places
    <3> QED BY <3>m, MoveKeepsInv
  <2>5. CASE /\ pc' = [pc EXCEPT ![x] = "read"] /\ tries' = [tries EXCEPT ![x] = tries[x] + 1]
             /\ ~LastTry(x)
    <3>1. tries[x] + 1 \in 0..(MaxTries - 1)
      BY <1>t, <2>5 DEF LastTry
    <3>m. Moves(x, "read", read[x], attempt[x], tries[x] + 1)
      BY <1>t, <1>r, <1>i, <2>1, <2>3, <2>5, <3>1 DEF Moves, Places
    <3> QED BY <3>m, MoveKeepsInv
  <2> QED BY <1>7, <2>4, <2>5 DEF CommitRefused, Goto
<1>8. CASE Answer(x)
  <2>1. pc' = [pc EXCEPT ![x] = "done"] /\ UNCHANGED <<log, workflow, request, read, attempt, tries>>
        /\ pc[x] \in {"accepted", "reused"}
    BY <1>8 DEF Answer, Goto
  <2>2. started' \subseteq Updates
    BY <1>8, <1>t DEF Answer
  <2>3. x \in Updates \cup Internals => Committed(x)
    BY <2>1 DEF Inv, ReceiptsTrue, Committed
  <2>m. Moves(x, "done", read[x], attempt[x], tries[x])
    BY <1>t, <1>r, <1>i, <2>1, <2>2, <2>3 DEF Moves, Places
  <2> QED BY <2>m, MoveKeepsInv
<1>9. CASE WorkerDies(x)
  <2>1. UNCHANGED <<log, workflow, request, read, started>> /\ tries' = [tries EXCEPT ![x] = 0]
    BY <1>9 DEF WorkerDies
  <2>2. PICK place \in {"look", "read", "failed"} : pc' = [pc EXCEPT ![x] = place]
    BY <1>9 DEF WorkerDies, Goto, First
  <2>3. PICK number \in 1..MaxAttempts : attempt' = [attempt EXCEPT ![x] = number]
    BY <1>9, <1>t, <1>i DEF WorkerDies
  <2>4. 0 \in 0..(MaxTries - 1) /\ 0 <= Len(log)
    BY <1>t
  <2>m. Moves(x, place, read[x], number, 0)
    BY <1>i, <2>1, <2>2, <2>3, <2>4, <1>t DEF Moves, Places
  <2> QED BY <2>m, MoveKeepsInv
<1> QED BY <1>1, <1>2, <1>3, <1>4, <1>5, <1>6, <1>7, <1>8, <1>9

-----------------------------------------------------------------------------
(* The properties.                                                         *)

\* The invariant holds in every reachable state.
THEOREM StoreInvariant == Spec => []Inv
<1>1. ASSUME Inv, Next PROVE Inv'
  BY <1>1, SubmitKeepsInv, CommitKeepsInv, WriterKeepsInv, WritersAssumption DEF Next, Writers
<1>2. ASSUME Inv, UNCHANGED vars PROVE Inv'
  BY <1>2 DEF vars, Inv, TypeOK, ReceiptsTrue, Validated, Authored, AppliedAsSeen, Snapshots, Races,
              Revision, Key, Content
<1>3. Inv /\ [Next]_vars => Inv'
  BY <1>1, <1>2
<1> QED BY <1>3, InitHasInv, PTL DEF Spec

\* Every reachable state is well typed (TypeOK); in particular no operation is
\* rebased beyond its tries.
THEOREM StoreTyped == Spec => []TypeOK
<1>1. Inv => TypeOK
  BY DEF Inv
<1> QED BY <1>1, StoreInvariant, PTL

\* Acceptance is only told of what is committed (ReceiptsTrue).
THEOREM AcceptedIsCommitted == Spec => []ReceiptsTrue
<1>1. Inv => ReceiptsTrue
  BY DEF Inv
<1> QED BY <1>1, StoreInvariant, PTL

\* A command takes effect on the revision its operator saw (AppliedAsSeen).
THEOREM CommandsAppliedAsSeen == Spec => []AppliedAsSeen
<1>1. Inv => AppliedAsSeen
  BY DEF Inv
<1> QED BY <1>1, StoreInvariant, PTL

\* Every race that is counted was lost to a commit (RacesAreReal).
THEOREM RacesCounted == Spec => []RacesAreReal
<1>1. Inv => RacesAreReal
  BY DEF Inv, Races, RacesAreReal, Writers
<1> QED BY <1>1, StoreInvariant, PTL

-----------------------------------------------------------------------------
(* The refinement.                                                         *)

\* The history that the log stands for.
Mapped == [n \in DOMAIN log |-> [key |-> log[n].key, base |-> log[n].base]]

\* A function on 1..n is a sequence of length n.
LEMMA FunctionIsSeq ==
    ASSUME NEW S, NEW n \in Nat, NEW f \in [1..n -> S]
    PROVE  f \in Seq(S) /\ Len(f) = n
<1>1. f \in Seq(S)
  BY SeqDef
<1>2. Len(f) \in Nat /\ 1..Len(f) = 1..n
  BY <1>1, LenProperties
<1> QED BY <1>1, <1>2

\* A commit applies its key to the history.
LEMMA CommitApplies ==
    ASSUME TypeOK, NEW x \in Writers, Commit(x)
    PROVE  History!Next
<1>1. PICK e \in Commits : /\ log' = Append(log, e) /\ e.key = Key(x) /\ e.base = Len(log)
  BY CommitTyped
<1>2. /\ Len(log') = Len(log) + 1 /\ Len(log) \in Nat /\ DOMAIN log = 1..Len(log)
      /\ DOMAIN log' = 1..(Len(log) + 1)
      /\ log'[Len(log) + 1] = e
      /\ \A n \in DOMAIN log : log'[n] = log[n]
  BY <1>1, Appended DEF TypeOK
<1>3. Mapped \in Seq([key : Operations, base : Nat]) /\ Len(Mapped) = Len(log)
  <2>1. \A n \in 1..Len(log) : log[n] \in Commits
    BY <1>2 DEF TypeOK
  <2>2. Mapped \in [1..Len(log) -> [key : Operations, base : Nat]]
    BY <1>2, <2>1 DEF Mapped, Commits
  <2> QED BY <1>2, <2>2, FunctionIsSeq
<1> DEFINE a == [key |-> Key(x), base |-> Len(Mapped)]
<1>4. Mapped' = Append(Mapped, a)
  <2>1. Mapped' = [n \in 1..(Len(log) + 1) |-> [key |-> log'[n].key, base |-> log'[n].base]]
    BY <1>2 DEF Mapped
  <2>2. Append(Mapped, a) = [n \in 1..(Len(log) + 1) |-> IF n = Len(log) + 1 THEN a ELSE Mapped[n]]
    BY <1>2, <1>3
  <2>3. ASSUME NEW n \in 1..(Len(log) + 1)
        PROVE  [key |-> log'[n].key, base |-> log'[n].base]
                   = IF n = Len(log) + 1 THEN a ELSE Mapped[n]
    <3>1. CASE n = Len(log) + 1
      BY <1>1, <1>2, <1>3, <3>1
    <3>2. CASE n # Len(log) + 1
      BY <1>2, <3>2 DEF Mapped
    <3> QED BY <3>1, <3>2
  <2> QED BY <2>1, <2>2, <2>3
<1>5. Key(x) \notin {Mapped[n].key : n \in DOMAIN Mapped}
  BY DEF Commit, Stored, Mapped
<1>6. Key(x) \in Operations
  BY <1>1 DEF Commits
<1> QED BY <1>4, <1>5, <1>6 DEF History!Next, History!Apply, History!Applied, Mapped

\* The store implements SerialHistory (KeepsSerialHistory): whoever writes, the
\* accepted operations have one order, and none is lost or occurs twice.
THEOREM HistorySerial == Spec => KeepsSerialHistory
<1>1. Init => History!Init
  BY DEF Init, History!Init
<1>2. TypeOK /\ [Next]_vars => [History!Next]_Mapped
  <2> SUFFICES ASSUME TypeOK, [Next]_vars PROVE History!Next \/ UNCHANGED Mapped
    OBVIOUS
  <2>1. (\E x \in Writers : Commit(x)) \/ UNCHANGED log
    BY DEF Next, vars, Submit, Arrive, Look, Read, Check, Recheck, CommitStored, CommitRefused, Answer,
           WorkerDies
  <2> QED BY <2>1, CommitApplies DEF Mapped
<1> QED BY <1>1, <1>2, StoreTyped, PTL DEF Spec, KeepsSerialHistory, History!Spec, Mapped
=============================================================================
