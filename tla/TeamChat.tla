------------------------------ MODULE TeamChat ------------------------------
(***************************************************************************)
(* The agent team's chat: how AgentTeamChatService turns a submitted       *)
(* message into records of one conversation, with other submissions to the *)
(* same conversation open at the same time.                                *)
(*                                                                         *)
(* A conversation is kept as the number of its records and, per message    *)
(* received, how many answers it has; by and epoch say which submission,   *)
(* in which life of the process, received it, for the properties.          *)
(* Wording, citations, roles and parents are left out.  Ledger writes are  *)
(* synchronous, so what a submission does between two awaits is one step;  *)
(* the process may die between any two of its writes.                      *)
(***************************************************************************)
EXTENDS Naturals, Sequences, FiniteSets

CONSTANTS
    Slots,            \* submissions that can be open at once
    Keys, Bodies,     \* idempotency keys, and the envelopes sent under them
    Authority,        \* bodies that ask for an approval or a repair
    Routed,           \* bodies that another role answers
    Located,          \* bodies with a component the answering role may read
    Tools,            \* the tools that role may ask for
    Earlier,          \* how many records a conversation may hold at first
    MaxRecords,       \* max_conversation_records
    Reserve,          \* MAX_RECORDS_PER_SUBMIT
    MaxRounds, MaxAttempts, MaxCalls, MaxCallsPerTool,
    MaxCrashes        \* bound: how often the process dies

ASSUME LimitsAssumption ==
    /\ {MaxRecords, Reserve, MaxRounds, MaxAttempts, MaxCalls, MaxCallsPerTool} \subseteq Nat
    /\ MaxCalls > 0 /\ 7 + 2 * MaxCalls <= Reserve /\ Reserve <= MaxRecords
    /\ Earlier \subseteq 0..MaxRecords /\ MaxCrashes \in Nat
    /\ Authority \subseteq Bodies /\ Routed \subseteq Bodies /\ Located \subseteq Bodies

VARIABLES
    live,      \* the run's evidence is read from the collector, with real I/O
    count,     \* records of the conversation
    messages,  \* the messages received
    subs,      \* the open submissions
    overlapped,  \* history: one submission came while another was open
    crashes

vars == <<live, count, messages, subs, overlapped, crashes>>

Idle == [pc |-> "idle"]
Reading(key, body) ==
    [pc |-> "reading", key |-> key, body |-> body, size |-> count, known |-> Len(messages)]
Working(pc, m, body, round, calls, results) ==
    [pc |-> pc, of |-> m, body |-> body, round |-> round, calls |-> calls, results |-> results]

Busy(s) == subs[s].pc # "idle"

Message(s, key, fits) ==
    [key |-> key, fits |-> fits, answers |-> 0, by |-> s, epoch |-> crashes]

Init ==
    /\ live \in BOOLEAN /\ count \in Earlier /\ messages = <<>>
    /\ subs = [s \in Slots |-> Idle] /\ overlapped = FALSE /\ crashes = 0

\* n records of message m are written, an answer, if any, last, and the submission
\* goes on as next; or the process dies before the last of them.
Store(s, received, m, n, answers, next) ==
    \/ /\ count' = count + n
       /\ messages' = [received EXCEPT ![m].answers = @ + answers]
       /\ subs' = [subs EXCEPT ![s] = next]
       /\ UNCHANGED <<live, crashes>>
    \/ /\ crashes < MaxCrashes /\ crashes' = crashes + 1
       /\ \E k \in 0..(n - 1) :
            /\ count' = count + k
            /\ messages' = IF k = 0 THEN messages ELSE received
       /\ subs' = [t \in Slots |-> Idle]
       /\ UNCHANGED live

(***************************************************************************)
(* submit, up to its first await after the lookup.  known and size are the *)
(* messages and records of the state read at the start: the lookup of the  *)
(* key and the budget use them, not what was recorded since.               *)
(***************************************************************************)
\* Mutant: the first answer is awaited before its message counts as received.
DuplicateAnswered(key, known) ==
    \E i \in 1..known : messages[i].key = key /\ messages[i].answers > 0

Duplicate(key, known) == \E i \in 1..known : messages[i].key = key

\* Mutant: room for the message itself is enough.
HasRoomNow(size) == size < MaxRecords

\* What is left of the conversation's records must do for the longest submission.
HasRoom(size) == size + Reserve <= MaxRecords

\* Identity, revision or component do not fit the run, a known key is answered from
\* the ledger or refused for another body, or too little room is left.
Returned(s) ==
    /\ subs' = [subs EXCEPT ![s] = Idle]
    /\ UNCHANGED <<live, count, messages, crashes>>

Arrives(s) ==
    /\ ~Busy(s)
    /\ overlapped' = (overlapped \/ \E t \in Slots : Busy(t))

Admitted(s, key, body, known, size) ==
    /\ ~Duplicate(key, known)
    /\ HasRoom(size)
    /\ LET m == Len(messages) + 1
           entry == 1 + (IF body \in Routed THEN 1 ELSE 0)
       IN  \/ \* the context is too large: buildContext throws after the first records
              Store(s, Append(messages, Message(s, key, FALSE)), m, entry, 0, Idle)
           \/ LET received == Append(messages, Message(s, key, TRUE))
              IN  IF body \in Authority
                  THEN Store(s, received, m, entry + 2, 1, Idle)
                  ELSE Store(s, received, m, entry, 0,
                             Working("preflight", m, body, 0, [t \in Tools |-> 0], 0))

\* Captured evidence is at hand: nothing comes between the state read and the lookup.
Submit(s, key, body) ==
    /\ ~live /\ Arrives(s)
    /\ Admitted(s, key, body, Len(messages), count)

\* The context is read from the collector's files, while other submissions go on.
ReadContext(s, key, body) ==
    /\ live /\ Arrives(s)
    /\ subs' = [subs EXCEPT ![s] = Reading(key, body)]
    /\ UNCHANGED <<live, count, messages, crashes>>

ContextRead(s) ==
    /\ subs[s].pc = "reading"
    /\ \/ Returned(s)
       \/ Admitted(s, subs[s].key, subs[s].body, subs[s].known, subs[s].size)
    /\ UNCHANGED overlapped

(***************************************************************************)
(* preflightProvider has answered: the context is recorded, the component  *)
(* is read, and the model is asked if the provider is there.               *)
(***************************************************************************)
Prepared(s) ==
    /\ subs[s].pc = "preflight"
    /\ LET m == subs[s].of
           located == subs[s].body \in Located
           seeded == IF located THEN 1 ELSE 0
           prepared == 3 + 2 * seeded      \* context, the seeded tool, summary, working
           asked == Working("model", m, subs[s].body, 0, [t \in Tools |-> 0], seeded)
       IN  \/ Store(s, messages, m, prepared, 0, asked)
           \/ \* the plane refuses the component: context, request, gate, answer
              located /\ Store(s, messages, m, 4, 1, Idle)
           \/ \* the provider is unavailable: an error and an answer that says so
              Store(s, messages, m, prepared + 2, 1, Idle)
    /\ UNCHANGED overlapped

\* The model answers, perhaps with a recommended handoff.
Answered(s) ==
    /\ subs[s].pc = "model"
    /\ \E n \in {1, 2} : Store(s, messages, subs[s].of, n, 1, Idle)
    /\ UNCHANGED overlapped

\* Mutant: the failure is recorded, and no answer says so.
FailedUnanswered(s) ==
    /\ subs[s].pc = "model"
    /\ Store(s, messages, subs[s].of, 1, 0, Idle)
    /\ UNCHANGED overlapped

\* The model fails, times out, or is cancelled by the client that went away: an error
\* and an answer.  Or it asks for a tool that its role has not: a gate and an answer,
\* after the request itself when the plane is what refuses the role.
Failed(s) ==
    /\ subs[s].pc = "model"
    /\ \E n \in IF subs[s].body \in Located THEN {2} ELSE {2, 3} :
         Store(s, messages, subs[s].of, n, 1, Idle)
    /\ UNCHANGED overlapped

\* The first n requests of a round keep within the budgets of calls.
CallsUpTo(s, asked, n) ==
    [t \in Tools |-> subs[s].calls[t] + Cardinality({i \in 1..n : asked[i] = t})]
InBudget(s, asked, n) ==
    /\ subs[s].results + n <= MaxCalls
    /\ \A t \in Tools : CallsUpTo(s, asked, n)[t] <= MaxCallsPerTool
RoundOpen(s) ==
    subs[s].body \in Located /\ subs[s].round < MaxRounds /\ subs[s].round + 1 < MaxAttempts

\* n of the requests are granted: all of them, or those before the first over a budget.
Granted(s, asked, n) ==
    /\ n > 0 => RoundOpen(s) /\ InBudget(s, asked, n)
    /\ n < Len(asked) => ~RoundOpen(s) \/ ~InBudget(s, asked, n + 1)

\* The model asks for tools.
ToolsAsked(s, asked) ==
    /\ subs[s].pc = "model"
    /\ \E n \in 0..Len(asked) :
         /\ Granted(s, asked, n)
         /\ \/ \* all of them answer, and the model is asked again
               /\ n = Len(asked)
               /\ Store(s, messages, subs[s].of, 2 * n, 0,
                        Working("model", subs[s].of, subs[s].body, subs[s].round + 1,
                                CallsUpTo(s, asked, n), subs[s].results + n))
            \/ \* a budget is exhausted: gate and answer follow what was granted
               /\ n < Len(asked)
               /\ Store(s, messages, subs[s].of, 2 * n + 2, 1, Idle)
            \/ \* the plane refuses the last of the first k: request, gate, answer
               \E k \in 1..n : Store(s, messages, subs[s].of, 2 * k + 1, 1, Idle)
    /\ UNCHANGED overlapped

ModelReturns(s) ==
    \/ Answered(s) \/ Failed(s)
    \/ \E n \in {1, 2} : \E asked \in [1..n -> Tools] : ToolsAsked(s, asked)

Next ==
    \E s \in Slots :
        \/ \E key \in Keys, body \in Bodies : Submit(s, key, body) \/ ReadContext(s, key, body)
        \/ ContextRead(s) \/ Prepared(s) \/ ModelReturns(s)

\* Reads of the collector's files end, and the provider is given a limited time
\* (120 s for the command line, 60 s for the API): none of them lasts forever.
Fairness ==
    \A s \in Slots : WF_vars(ContextRead(s)) /\ WF_vars(Prepared(s)) /\ WF_vars(ModelReturns(s))

Spec == Init /\ [][Next]_vars /\ Fairness

(***************************************************************************)
(* A conversation whose submissions came one after the other never grows   *)
(* past the records that the page accepts (it rejects a projection of more *)
(* than 48 and shows nothing): the room that is asked for beforehand       *)
(* covers every path, whatever tools the model asks for and wherever a     *)
(* budget, a refusal or a crash stops it.                                  *)
(***************************************************************************)
ReadableAlone == ~overlapped => count <= MaxRecords

(***************************************************************************)
(* A message is answered at most once, and a key stands for one message.   *)
(* Only submissions that overlap while they read live evidence can receive *)
(* a key twice, and then each of them once.                                *)
(***************************************************************************)
AnsweredOnce ==
    /\ \A i \in DOMAIN messages : messages[i].answers <= 1
    /\ \A i, j \in DOMAIN messages :
         i # j /\ messages[i].key = messages[j].key => live /\ messages[i].by # messages[j].by

\* A message whose context was accepted, in this life of the process, and has no answer.
Unanswered(i) ==
    /\ i \in DOMAIN messages /\ messages[i].fits
    /\ messages[i].answers = 0 /\ messages[i].epoch = crashes

(***************************************************************************)
(* Whatever the provider, the tools and the client do, every message that  *)
(* was received is answered in the end, unless its context was too large   *)
(* or the process died meanwhile.                                          *)
(***************************************************************************)
MessagesAnswered ==
    \A i \in 1..(Cardinality(Keys) * Cardinality(Slots)) : Unanswered(i) ~> ~Unanswered(i)
=============================================================================
