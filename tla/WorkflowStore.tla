---------------------------- MODULE WorkflowStore ----------------------------
(***************************************************************************)
(* The stored projection and those who write it.  A writer reads the       *)
(* projection, computes the next one and hands it to the repository, which *)
(* takes it only if nothing was committed in between.  Three kinds of      *)
(* writers differ in what they do before and after:                        *)
(*                                                                         *)
(*   - a workflow update carries an operator's command, with the revision  *)
(*     the operator saw and an idempotency key.  It runs a dispatch        *)
(*     activity, and starts the stage's activity if the receipt is not a   *)
(*     reused one;                                                         *)
(*   - an internal operation persists what an agent, a stage or an         *)
(*     executor answered; most are rebased when they lose a race;          *)
(*   - a sync stores a telemetry snapshot without a new workflow revision. *)
(*                                                                         *)
(* A client that repeats a request sends another update with the same key. *)
(* An activity whose worker died is repeated, one that was refused is not. *)
(* The projection's content is left out: log keeps what was committed, and *)
(* its length is the projection revision.                                  *)
(***************************************************************************)
EXTENDS Naturals, Sequences

CONSTANTS
    Updates,      \* workflow updates
    Internals,    \* internal operations, each named by its own key
    Rebased,      \* those of them that go through _persist_with_rebase
    Syncs,        \* telemetry snapshots, each named by its own key
    CommandKeys,  \* idempotency keys that operators choose
    Contents,     \* what their commands ask for
    MaxAttempts,  \* attempts of an activity (GUIDED_ACTIVITY_MAX_ATTEMPTS)
    MaxTries      \* tries of an internal operation (_persist_with_rebase)

ASSUME WritersAssumption ==
    /\ Rebased \subseteq Internals
    /\ Updates \cap Internals = {} /\ Updates \cap Syncs = {} /\ Internals \cap Syncs = {}
ASSUME LimitsAssumption == MaxAttempts \in Nat \ {0} /\ MaxTries \in Nat \ {0}

Writers == Updates \cup Internals \cup Syncs
Operations == CommandKeys \cup Internals \cup Syncs

VARIABLES
    log,       \* the commits, in order
    workflow,  \* workflow revision of the stored projection
    request,   \* the command an update carries
    pc,        \* where each writer is
    read,      \* the revisions each writer last read
    attempt,   \* number of the writer's activity attempt
    tries,     \* races lost by an internal operation in this attempt
    started    \* the updates that started the stage's activity

vars == <<log, workflow, request, pc, read, attempt, tries, started>>

Revision == Len(log) + 1  \* projection_revision

Init ==
    /\ log = <<>> /\ workflow = 1
    /\ request \in [Updates -> [key : CommandKeys, content : Contents, expected : {1}]]
    /\ pc = [x \in Writers |-> "idle"]
    /\ read = [x \in Writers |-> [workflow |-> 1, revision |-> 1]]
    /\ attempt = [x \in Writers |-> 1]
    /\ tries = [x \in Writers |-> 0]
    /\ started = {}

Key(x) == IF x \in Updates THEN request[x].key ELSE x

\* What command_hash covers: the revision that the operator saw as well.
Content(x) == IF x \in Updates THEN <<request[x].content, request[x].expected>> ELSE x

Stored(x) == {n \in DOMAIN log : log[n].key = Key(x)}

\* Seeded fault: the key alone identifies a request.
MatchesByKey(x) == Stored(x) # {}

\* The key was used before, for the same content.
Matches(x) == \E n \in Stored(x) : log[n].content = Content(x)

Goto(x, place) == pc' = [pc EXCEPT ![x] = place]

\* Where an activity begins: a sync looks for its key before it reads.
First(x) == IF x \in Syncs THEN "look" ELSE "read"

-----------------------------------------------------------------------------
(* Reading.                                                                *)

\* An operator who saw some revision, perhaps an old one, sends a command.
Submit(u) ==
    /\ pc[u] = "idle"
    /\ \E expected \in 1..workflow : request' = [request EXCEPT ![u].expected = expected]
    /\ Goto(u, "read")
    /\ UNCHANGED <<log, workflow, read, attempt, tries, started>>

\* Something was answered or observed and is to be persisted.
Arrive(x) ==
    /\ pc[x] = "idle"
    /\ Goto(x, First(x))
    /\ UNCHANGED <<log, workflow, request, read, attempt, tries, started>>

\* A snapshot that is stored already is done with.
Look(s) ==
    /\ pc[s] = "look"
    /\ Goto(s, IF Matches(s) THEN "done" ELSE "read")
    /\ UNCHANGED <<log, workflow, request, read, attempt, tries, started>>

\* _required_projection.  A sync of a resolved incident goes no further.
Read(x) ==
    /\ pc[x] = "read"
    /\ read' = [read EXCEPT ![x] = [workflow |-> workflow, revision |-> Revision]]
    /\ \/ Goto(x, IF x \in Syncs THEN "commit" ELSE "check")
       \/ x \in Syncs /\ Goto(x, "done")
    /\ UNCHANGED <<log, workflow, request, attempt, tries, started>>

\* Seeded fault: a command is applied to whatever the projection has become.
SeenAny(x) == x \in Updates => read[x].workflow >= request[x].expected

\* The operator has seen the revision that was read.
Seen(x) == x \in Updates => read[x].workflow = request[x].expected

(***************************************************************************)
(* A stored operation is answered with its receipt, one that is stored     *)
(* with another content is refused.  A new one is validated: the operator  *)
(* must have seen the revision, and the stage may not allow it.            *)
(***************************************************************************)
Check(x) ==
    /\ pc[x] = "check"
    /\ \/ Matches(x) /\ Goto(x, "reused")
       \/ Stored(x) = {} /\ Seen(x) /\ Goto(x, "recheck")
       \/ ~Matches(x) /\ Goto(x, "failed")
    /\ UNCHANGED <<log, workflow, request, read, attempt, tries, started>>

\* The second look for the key, in _commit_command.
Recheck(x) ==
    /\ pc[x] = "recheck"
    /\ Goto(x, IF Matches(x) THEN "reused" ELSE IF Stored(x) = {} THEN "commit" ELSE "failed")
    /\ UNCHANGED <<log, workflow, request, read, attempt, tries, started>>

-----------------------------------------------------------------------------
(* Committing: one transaction under the incident's lock.                  *)

\* Seeded fault: a transition is compared by its workflow revision alone.
FitsWorkflow(x) ==
    IF x \in Syncs THEN read[x].revision = Revision ELSE read[x].workflow = workflow

\* Nothing was committed since the projection was read.
Fits(x) == read[x].workflow = workflow /\ read[x].revision = Revision

\* The key is new and the commit follows the stored projection.
Commit(x) ==
    /\ pc[x] = "commit"
    /\ Stored(x) = {} /\ Fits(x)
    /\ log' = Append(log, [by |-> x, key |-> Key(x), content |-> Content(x),
                           base |-> read[x].revision - 1, workflow |-> workflow])
    /\ workflow' = IF x \in Syncs THEN workflow ELSE workflow + 1
    /\ Goto(x, "accepted")
    /\ UNCHANGED <<request, read, attempt, tries, started>>

\* The key was stored meanwhile: the stored receipt, as it is, or a conflict.
CommitStored(x) ==
    /\ pc[x] = "commit"
    /\ Stored(x) # {}
    /\ Goto(x, IF Matches(x) THEN "accepted" ELSE "failed")
    /\ UNCHANGED <<log, workflow, request, read, attempt, tries, started>>

\* Seeded fault: one try too many.
LastTryLate(x) == x \notin Rebased \/ tries[x] >= MaxTries

\* A lost race is the end.
LastTry(x) == x \notin Rebased \/ tries[x] + 1 >= MaxTries

\* The race is lost; the operation is rebased on what is there now, or raises.
CommitRefused(x) ==
    /\ pc[x] = "commit"
    /\ Stored(x) = {} /\ ~Fits(x)
    /\ IF LastTry(x)
       THEN Goto(x, "failed") /\ UNCHANGED tries
       ELSE Goto(x, "read") /\ tries' = [tries EXCEPT ![x] = @ + 1]
    /\ UNCHANGED <<log, workflow, request, read, attempt, started>>

-----------------------------------------------------------------------------
(* After the commit.                                                       *)

\* The activity's result reaches the workflow, which starts the stage's
\* activity unless the receipt is a reused one.
Answer(x) ==
    /\ pc[x] \in {"accepted", "reused"}
    /\ started' = IF x \in Updates /\ pc[x] = "accepted" THEN started \cup {x} ELSE started
    /\ Goto(x, "done")
    /\ UNCHANGED <<log, workflow, request, read, attempt, tries>>

\* The worker dies, before or after its commit; Temporal repeats the activity.
WorkerDies(x) ==
    /\ pc[x] \notin {"idle", "done", "failed"}
    /\ IF attempt[x] < MaxAttempts
       THEN Goto(x, First(x)) /\ attempt' = [attempt EXCEPT ![x] = @ + 1]
       ELSE Goto(x, "failed") /\ UNCHANGED attempt
    /\ tries' = [tries EXCEPT ![x] = 0]
    /\ UNCHANGED <<log, workflow, request, read, started>>

Next ==
    \/ \E u \in Updates : Submit(u)
    \/ \E x \in Internals \cup Syncs : Arrive(x)
    \/ \E s \in Syncs : Look(s)
    \/ \E x \in Writers :
          \/ Read(x)
          \/ Check(x)
          \/ Recheck(x)
          \/ Commit(x)
          \/ CommitStored(x)
          \/ CommitRefused(x)
          \/ Answer(x)
          \/ WorkerDies(x)

Spec == Init /\ [][Next]_vars

-----------------------------------------------------------------------------
(* Properties.                                                             *)

Places ==
    {"idle", "look", "read", "check", "recheck", "commit", "accepted", "reused", "done", "failed"}

Requests == [key : CommandKeys, content : Contents, expected : Nat]

Commits ==
    [by : Writers, key : Operations, content : (Contents \X Nat) \cup Internals \cup Syncs,
     base : Nat, workflow : Nat]

\* Every variable has its type; nobody is rebased more often than it may.
TypeOK ==
    /\ log \in Seq(Commits) /\ workflow \in Nat
    /\ request \in [Updates -> Requests]
    /\ pc \in [Writers -> Places]
    /\ read \in [Writers -> [workflow : Nat, revision : Nat \ {0}]]
    /\ attempt \in [Writers -> 1..MaxAttempts]
    /\ tries \in [Writers -> 0..(MaxTries - 1)]
    /\ started \subseteq Updates

(***************************************************************************)
(* The repository implements SerialHistory: comparing the two revisions    *)
(* and the key is enough for operators, activities and telemetry together  *)
(* to have one order, in which nothing is lost and nothing occurs twice.   *)
(***************************************************************************)
History == INSTANCE SerialHistory WITH
    Keys <- Operations,
    history <- [n \in DOMAIN log |-> [key |-> log[n].key, base |-> log[n].base]]

KeepsSerialHistory == History!Spec

(***************************************************************************)
(* Who is told that an operation was accepted, now or earlier, finds its   *)
(* own operation committed, never another one under the same key.          *)
(***************************************************************************)
ReceiptsTrue ==
    \A x \in Updates \cup Internals : pc[x] \in {"accepted", "reused", "done"} =>
        \E n \in DOMAIN log : log[n].key = Key(x) /\ log[n].content = Content(x)

(***************************************************************************)
(* A command takes effect only on the workflow revision its operator saw,  *)
(* however many commits race with it and however often it is repeated.     *)
(***************************************************************************)
AppliedAsSeen ==
    \A n \in DOMAIN log :
        log[n].by \in Updates => log[n].workflow = request[log[n].by].expected

(***************************************************************************)
(* Every race an operation loses is lost to a commit of its own: an answer *)
(* of a provider or an executor is dropped for a burst of MaxTries commits *)
(* and never because of a rebase that went by an old projection.           *)
(***************************************************************************)
RacesAreReal == \A i \in Internals : tries[i] <= Len(log)

Sent(key) == {u \in Updates : request[u].key = key /\ pc[u] # "idle"}

(***************************************************************************)
(* "The first accepted command owns all downstream work", "exactly-once    *)
(* user intent": when all updates of a command have ended and one of them  *)
(* acknowledged it, exactly one has started the stage's activity.          *)
(***************************************************************************)
OwnedOnce ==
    \A key \in CommandKeys :
        /\ \A u \in Sent(key) : pc[u] \in {"done", "failed"}
        /\ \E u \in Sent(key) : pc[u] = "done"
        => \E u \in Sent(key) : started \cap Sent(key) = {u}
=============================================================================
