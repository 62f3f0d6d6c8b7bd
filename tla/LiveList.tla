------------------------------ MODULE LiveList ------------------------------
(***************************************************************************)
(* The live page of the V3 web console: the list of open incidents with a  *)
(* graph of each, LiveIncidentAdapterV3 of public/live-v3.mjs.             *)
(*                                                                         *)
(* The server keeps a log of live events, one for each commit of an         *)
(* incident; a snapshot lists the open incidents and its place in the log  *)
(* at one moment.  An incident is the number of its commits.  The page     *)
(* reads a snapshot, follows the log behind it, and reads the projection   *)
(* of each incident it lists.                                              *)
(***************************************************************************)
EXTENDS Console, Sequences

CONSTANTS Workers, MaxEvents

\* What a snapshot says, and how far the page has followed the log.
Counts == [Cases -> 0..MaxEvents]
Snapshots == [at : 0..MaxEvents, incidents : Counts]
LiveStreams == [at : 0..MaxEvents, state : {"opening", "open", "dead"}]

ASSUME LiveListAssumption ==
    /\ None \notin Cases \cup Snapshots \cup LiveStreams
    /\ Workers \in Nat \ {0} /\ MaxEvents \in Nat

VARIABLES
    log,       \* the live events
    page,      \* the adapter
    loop,      \* its hydration
    reads      \* projections that are being read

liveVars == <<log, page, loop, reads, failures, gestures>>

---------------------------------------------------------------------------
(* The server.                                                             *)

Committed(c) == Cardinality({i \in DOMAIN log : log[i].case = c})
IsResolved(c) == \E i \in DOMAIN log : log[i].case = c /\ log[i].resolved

\* Which commit of each open incident is the newest; 0 for the rest.
Listed == [c \in Cases |-> IF IsResolved(c) THEN 0 ELSE Committed(c)]

---------------------------------------------------------------------------
(* The pieces of the adapter.                                              *)

Nothing == [c \in Cases |-> 0]
Idle == [state |-> "idle", answer |-> None, todo |-> {}, again |-> FALSE]
NewPage ==
    [active |-> FALSE, snapshot |-> None, shown |-> Nothing,
     connection |-> "connecting", sub |-> None, timer |-> FALSE]

\* A read in flight is told by whose it is, an event's or the loop's; its answer is
\* worth something while it is the latest for its incident.
Read(c, owner) == [case |-> c, owner |-> owner, latest |-> TRUE, n |-> 0]

\* Seeded fault: a read is not invalidated by a later one.
Kept(rs, cs) == rs

\* invalidateProjectionLoad: what is being read of these incidents is worth nothing.
Invalidated(rs, cs) ==
    {r \in rs : r.case \notin cs} \cup
    {[r EXCEPT !.latest = FALSE] : r \in {q \in rs : q.case \in cs /\ q.owner = "loop"}}

OfLoop(rs) == {r \in rs : r.owner = "loop"}

\* Seeded fault: a request that meets a running pass is served by that pass.
HydratedOnce(l) == IF l.state = "idle" THEN [l EXCEPT !.state = "snapshot"] ELSE l

\* hydrate: start the loop, or have it go round again.
Hydrated(l) ==
    IF l.state = "idle" THEN [l EXCEPT !.state = "snapshot"] ELSE [l EXCEPT !.again = TRUE]

\* The end of a pass: another one, if it was asked for and the page is still there.
PassEnds(l, active) == IF active /\ l.again THEN [Idle EXCEPT !.state = "snapshot"] ELSE Idle

Scheduled(p) == [p EXCEPT !.timer = @ \/ p.active]

Unsubscribed(p) == [p EXCEPT !.sub = None, !.connection = "stale"]

Subscribed(p) == [p EXCEPT !.sub = [at |-> p.snapshot.at, state |-> "opening"]]

\* reconcileProjectionCases: graphs that do not belong to the snapshot.
Foreign(p) == {c \in Cases : p.shown[c] # 0 /\
                 (p.snapshot.incidents[c] = 0 \/ p.shown[c] < p.snapshot.incidents[c])}

Without(shown, cs) == [c \in Cases |-> IF c \in cs THEN 0 ELSE shown[c]]

\* A worker takes what is left to read.
Taken(rs, cs) == Invalidated(rs, cs) \cup {Read(c, "loop") : c \in cs}

---------------------------------------------------------------------------
(* The user.                                                               *)

\* activate, which only acts on a page that is hidden.
ActivateList ==
    /\ ~page.active /\ Gesture
    /\ page' = [page EXCEPT !.active = TRUE, !.connection = "connecting"]
    /\ loop' = Hydrated(loop)
    /\ UNCHANGED <<log, reads, failures>>

\* deactivate, by another mode's button or because an incident is opened.
DeactivateList ==
    /\ page.active /\ Gesture
    /\ page' = [page EXCEPT !.active = FALSE, !.snapshot = None, !.shown = Nothing,
                            !.sub = None, !.timer = FALSE]
    /\ loop' = [loop EXCEPT !.again = FALSE]
    /\ reads' = Invalidated(reads, Cases)
    /\ UNCHANGED <<log, failures>>

\* retryNow: the button is there while the list is known to be old.
RetryNow ==
    /\ page.active /\ page.connection \in {"degraded", "stale"} /\ Gesture
    /\ page' = [page EXCEPT !.timer = FALSE, !.connection = "connecting"]
    /\ loop' = Hydrated(loop)
    /\ UNCHANGED <<log, reads, failures>>

---------------------------------------------------------------------------
(* The server's commits, and the moment it answers a request.              *)

CommitEvent(c, resolved) ==
    /\ Len(log) < MaxEvents /\ ~IsResolved(c)
    /\ log' = Append(log, [case |-> c, n |-> Committed(c) + 1, resolved |-> resolved])
    /\ UNCHANGED <<page, loop, reads, failures, gestures>>

TakeSnapshot ==
    /\ loop.state = "snapshot" /\ loop.answer = None
    /\ loop' = [loop EXCEPT !.answer = [at |-> Len(log), incidents |-> Listed]]
    /\ UNCHANGED <<log, page, reads, failures, gestures>>

AnswerGraph(r) ==
    /\ r.n = 0
    /\ reads' = (reads \ {r}) \cup {[r EXCEPT !.n = Committed(r.case)]}
    /\ UNCHANGED <<log, page, loop, failures, gestures>>

---------------------------------------------------------------------------
(* hydrate.                                                                *)

\* The snapshot arrives: it is subscribed to, and the workers begin to read the graphs.
SnapshotArrives ==
    /\ loop.state = "snapshot" /\ loop.answer # None
    /\ IF ~page.active THEN loop' = Idle /\ UNCHANGED <<page, reads>>
       ELSE LET new == [page EXCEPT !.snapshot = loop.answer, !.connection = "connected",
                                    !.timer = FALSE]
                listed == {c \in Cases : loop.answer.incidents[c] # 0}
            IN  \E first \in SUBSET listed :
                  /\ Cardinality(first) <= Workers
                  /\ first = listed \/ Cardinality(first) = Workers
                  /\ page' = Subscribed([new EXCEPT !.shown = Without(@, Foreign(new))])
                  /\ reads' = Taken(Invalidated(reads, Foreign(new)), first)
                  /\ loop' = IF listed = {} THEN PassEnds(loop, TRUE)
                             ELSE [loop EXCEPT !.state = "graphs", !.answer = None,
                                               !.todo = listed \ first]
    /\ UNCHANGED <<log, failures, gestures>>

SnapshotFails ==
    /\ loop.state = "snapshot" /\ Fails
    /\ page' = Scheduled([page EXCEPT !.connection = "degraded"])
    /\ loop' = PassEnds(loop, page.active)
    /\ UNCHANGED <<log, reads, gestures>>

RetryTimer ==
    /\ page.timer
    /\ page' = [page EXCEPT !.timer = FALSE]
    /\ loop' = Hydrated(loop)
    /\ UNCHANGED <<log, reads, failures, gestures>>

---------------------------------------------------------------------------
(* refreshProjection and refreshAllProjections.                             *)

\* A read is over; its worker takes the next incident, or is the last to finish.
WorkerGoesOn(r, shown) ==
    /\ page' = [page EXCEPT !.shown = shown]
    /\ IF r.owner # "loop" THEN reads' = reads \ {r} /\ UNCHANGED loop
       ELSE IF loop.todo # {}
       THEN \E c \in loop.todo :
              /\ reads' = Taken(reads \ {r}, {c})
              /\ loop' = [loop EXCEPT !.todo = @ \ {c}]
       ELSE /\ reads' = reads \ {r}
            /\ loop' = IF OfLoop(reads) = {r} THEN PassEnds(loop, page.active) ELSE loop

\* Seeded fault: an answer is shown without a look at the list.
ShownUnlisted(r) ==
    IF ~r.latest \/ ~page.active THEN page.shown ELSE [page.shown EXCEPT ![r.case] = r.n]

\* What an answer shows: nothing if it was overtaken, or is not of the listed incident.
ShownAfter(r) ==
    IF ~r.latest \/ ~page.active THEN page.shown
    ELSE IF page.snapshot = None THEN Without(page.shown, {r.case})
    ELSE IF page.snapshot.incidents[r.case] \in 1..r.n THEN [page.shown EXCEPT ![r.case] = r.n]
    ELSE Without(page.shown, {r.case})

GraphArrives(r) ==
    /\ r.n # 0
    /\ WorkerGoesOn(r, ShownAfter(r))
    /\ UNCHANGED <<log, failures, gestures>>

GraphFails(r) ==
    /\ Fails
    /\ WorkerGoesOn(r, IF r.latest THEN Without(page.shown, {r.case}) ELSE page.shown)
    /\ UNCHANGED <<log, gestures>>

---------------------------------------------------------------------------
(* The stream.                                                             *)

LiveStreaming == page.sub # None /\ page.sub.state = "open"

LiveStreamOpens ==
    /\ page.sub # None /\ page.sub.state = "opening"
    /\ page' = [page EXCEPT !.sub.state = "open", !.connection = "connected"]
    /\ UNCHANGED <<log, loop, reads, failures, gestures>>

\* subscribe.onEvent, with applyLiveEventV3.
LiveEventArrives ==
    /\ LiveStreaming /\ page.sub.at < Len(log)
    /\ LET at == page.sub.at + 1
           event == log[at]
           new == [page EXCEPT !.sub.at = at, !.connection = "connected",
                               !.snapshot.at = at,
                               !.snapshot.incidents[event.case] = IF event.resolved THEN 0 ELSE event.n]
       IN  \/ /\ at <= page.snapshot.at
              /\ page' = [page EXCEPT !.sub.at = at, !.connection = "connected"]
              /\ UNCHANGED <<loop, reads>>
           \/ /\ at = page.snapshot.at + 1 /\ event.resolved
              /\ page' = [new EXCEPT !.shown = Without(@, {event.case})]
              /\ reads' = Invalidated(reads, {event.case}) /\ UNCHANGED loop
           \/ /\ at = page.snapshot.at + 1 /\ ~event.resolved
              /\ page' = new
              /\ reads' = Invalidated(reads, {event.case}) \cup {Read(event.case, "event")}
              /\ UNCHANGED loop
           \/ /\ at > page.snapshot.at + 1
              /\ page' = Unsubscribed(page)
              /\ loop' = Hydrated(loop) /\ UNCHANGED reads
    /\ UNCHANGED <<log, failures, gestures>>

\* The browser opens a broken stream again after the last event it delivered, unless
\* the server refuses it.
LiveStreamFails ==
    /\ page.sub # None /\ page.sub.state # "dead" /\ Fails
    /\ \E state \in {"opening", "dead"} :
         page' = [page EXCEPT !.sub.state = state, !.connection = "reconnecting"]
    /\ UNCHANGED <<log, loop, reads, gestures>>

\* The server no longer has what follows the cursor, or an event is malformed.
LiveStreamResets ==
    /\ LiveStreaming /\ Fails
    /\ page' = Unsubscribed(page) /\ loop' = Hydrated(loop)
    /\ UNCHANGED <<log, reads, gestures>>

\* An event is delivered twice, or lost on the way before another one.
LiveStreamSlips ==
    /\ LiveStreaming /\ Fails
    /\ \E at \in {page.sub.at - 1, page.sub.at + 1} \cap (0..Len(log) - 1) :
         page' = [page EXCEPT !.sub.at = at]
    /\ UNCHANGED <<log, loop, reads, gestures>>

---------------------------------------------------------------------------
LiveInit ==
    /\ log = <<>> /\ page = NewPage /\ loop = Idle /\ reads = {}
    /\ failures = 0 /\ gestures = 0

Hydrating == TakeSnapshot \/ SnapshotArrives
ReadingGraphs == \E r \in reads : AnswerGraph(r) \/ GraphArrives(r)
FollowingLive == LiveStreamOpens \/ LiveEventArrives

LiveNext ==
    \/ ActivateList \/ DeactivateList \/ RetryNow
    \/ \E c \in Cases, resolved \in BOOLEAN : CommitEvent(c, resolved)
    \/ Hydrating \/ ReadingGraphs \/ FollowingLive \/ RetryTimer
    \/ SnapshotFails \/ LiveStreamFails \/ LiveStreamResets \/ LiveStreamSlips
    \/ \E r \in reads : GraphFails(r)

LiveSpec == LiveInit /\ [][LiveNext]_liveVars

\* Requests are answered or fail, timers fire, and the browser keeps opening a stream.
LiveFairness ==
    /\ WF_liveVars(Hydrating) /\ WF_liveVars(ReadingGraphs)
    /\ WF_liveVars(FollowingLive) /\ WF_liveVars(RetryTimer)

LiveFairSpec == LiveSpec /\ LiveFairness

---------------------------------------------------------------------------
LivePages ==
    [active : BOOLEAN, snapshot : Snapshots \cup {None}, shown : Counts,
     connection : Connections, sub : LiveStreams \cup {None}, timer : BOOLEAN]
Loops ==
    [state : {"idle", "snapshot", "graphs"}, answer : Snapshots \cup {None},
     todo : SUBSET Cases, again : BOOLEAN]
Reads == [case : Cases, owner : {"loop", "event"}, latest : BOOLEAN, n : 0..MaxEvents]

\* The adapter holds what the server sent; a pass reads no more graphs at once than it
\* has workers, and has nothing left to read once none is being read.
LiveTypeOK ==
    /\ page \in LivePages /\ loop \in Loops /\ reads \subseteq Reads
    /\ Cardinality(OfLoop(reads)) <= Workers
    /\ OfLoop(reads) # {} <=> loop.state = "graphs"

\* A graph is only shown of an incident that the list shows: snapshots, events and
\* late answers of every pass and event keep the two in step.
GraphsAreListed ==
    \A c \in Cases :
        page.shown[c] # 0 => page.active /\ page.snapshot # None /\ page.snapshot.incidents[c] # 0

\* Once everything has arrived, a page with an open stream shows the open incidents as
\* they are, and the graph of each, unless reading one failed.
ListAtRest ==
    page.active /\ loop.state = "idle" /\ reads = {} /\ LiveStreaming /\ page.sub.at = Len(log)
    => /\ page.snapshot.incidents = Listed
       /\ \A c \in Cases : page.shown[c] # Listed[c] => page.shown[c] = 0 /\ failures > 0

\* A page that stays comes to show the open incidents, over lost snapshots, broken
\* streams and gaps, or the server refused its stream.
ListCatchesUp ==
    <>[](page.active) =>
        <>[]((page.snapshot # None /\ page.snapshot.incidents = Listed)
             \/ (page.sub # None /\ page.sub.state = "dead"))
=============================================================================
