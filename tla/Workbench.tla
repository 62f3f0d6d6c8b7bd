------------------------------ MODULE Workbench ------------------------------
(***************************************************************************)
(* The incident page of the V3 web console: one browser tab, its           *)
(* controller (public/incident-workbench-controller-v3.mjs) with the client *)
(* it calls (control-plane-v3-client.mjs) and the event reducer of         *)
(* incident-workspace-v3.mjs.                                              *)
(*                                                                         *)
(* What an incident is on the server is the number of its commits: each is *)
(* one event, one projection revision and one signal revision.  A version  *)
(* is what a read of an incident returned at some commit.  Rendering, the  *)
(* panels and the agent's notice are left out.                             *)
(***************************************************************************)
EXTENDS Console

CONSTANT MaxCommits

MaxReads == 3

\* What a read of an incident returned, and a pass of the refresh loop.
Versions == [case : Cases, n : 1..MaxCommits]
Passes ==
    [case : Cases \cup {None}, projection : 0..MaxCommits, series : 0..MaxCommits,
     reads : 1..MaxReads, trailing : BOOLEAN, opens : BOOLEAN, reports : BOOLEAN]

ASSUME WorkbenchAssumption ==
    /\ Cases # {} /\ None \notin Cases \cup Versions \cup Passes
    /\ MaxCommits \in Nat \ {0}

VARIABLES
    commits,   \* per incident, the number of its commits
    applied,   \* the commands the server accepted: incident, workflow revision, commit
    tab,       \* the controller, and what the page remembers outside it
    load,      \* the running pass of the refresh loop, or None
    posts,     \* the commands in flight
    landing,   \* a live snapshot is awaited that will choose the incident
    astray     \* a receipt went to another incident's page, or was given up (history)

vars == <<commits, applied, tab, load, posts, landing, astray, failures, gestures>>
server == <<commits, applied>>

Version(c, n) == [case |-> c, n |-> n]
Newest(c) == Version(c, commits[c])

---------------------------------------------------------------------------
(* The pieces of the controller.                                           *)

\* A page that was just loaded, with or without an incident in its address.
Opened(address) ==
    [active |-> FALSE, case |-> None, shown |-> None, series |-> None, last |-> 0,
     connection |-> "connecting", error |-> FALSE, pending |-> FALSE, sub |-> None,
     url |-> address, pinned |-> None]

Fail(t) == [t EXCEPT !.error = TRUE, !.connection = "degraded"]

\* Seeded fault: a request that meets a running pass is served by that pass.
RequestedOnce(l, c, opens, reports) ==
    IF l = None
    THEN [case |-> c, projection |-> 0, series |-> 0, reads |-> 1, trailing |-> FALSE,
          opens |-> opens, reports |-> reports]
    ELSE [l EXCEPT !.opens = @ \/ opens, !.reports = @ \/ reports]

\* refresh: start the loop, or have the running one go round again.  Of those who
\* wait for its end, `opens` says that one will subscribe then, `reports` that one
\* will show its failure.
Requested(l, c, opens, reports) ==
    IF l = None
    THEN [case |-> c, projection |-> 0, series |-> 0, reads |-> 1, trailing |-> FALSE,
          opens |-> opens, reports |-> reports]
    ELSE [l EXCEPT !.trailing = TRUE, !.opens = @ \/ opens, !.reports = @ \/ reports]

\* Seeded fault: the stream starts with whatever comes next.
StreamFromNow(t) == [case |-> t.case, at |-> commits[t.case], state |-> "opening"]

\* A stream of the incident's events after the last one known.
Stream(t) == [case |-> t.case, at |-> t.last, state |-> "opening"]

Subscribe(t) == IF t.case = None THEN Fail(t) ELSE [t EXCEPT !.sub = Stream(t)]

Rehydrate(t) == [t EXCEPT !.sub = None, !.connection = "stale"]

\* Commands that a later command, or the clock, made obsolete: their answers change
\* nothing, except for a revalidation that is already being read.
Obsolete(ps) == {[p EXCEPT !.own = FALSE] : p \in {q \in ps : q.state \in {"sent", "rereading"}}}
Settling == {p \in posts : p.state \in {"reading", "rereading"}}
Settled(t) == IF \E p \in Settling : p.own THEN [t EXCEPT !.pending = FALSE] ELSE t

---------------------------------------------------------------------------
(* The user.                                                               *)

\* activate.
Activate(target, t) ==
    LET same == target # None /\ target = t.case
        next == [t EXCEPT !.active = TRUE, !.case = target, !.sub = None,
                          !.connection = "connecting", !.error = FALSE, !.pending = FALSE]
    IN  /\ tab' = IF same THEN next
                  ELSE [next EXCEPT !.shown = None, !.series = None, !.last = 0]
        /\ IF target = None THEN ~landing /\ landing' = TRUE /\ UNCHANGED load
           ELSE load' = Requested(load, target, TRUE, TRUE) /\ UNCHANGED landing
        /\ UNCHANGED <<astray, server, posts, failures>>

\* The mode button goes to the incident of the address, or the one opened last.
Enter ==
    /\ Gesture
    /\ Activate(IF tab.url # None THEN tab.url ELSE tab.pinned, tab)

\* An incident is opened from the live list, which hides the page.
Open(c) == ~tab.active /\ Gesture /\ Activate(c, [tab EXCEPT !.pinned = c])

\* The retry button is only there while nothing is shown.
Retry ==
    /\ tab.active /\ tab.shown = None /\ tab.error
    /\ Gesture
    /\ Activate(IF tab.case # None THEN tab.case ELSE tab.url, tab)

Leave ==
    /\ tab.active /\ Gesture
    /\ tab' = [tab EXCEPT !.active = FALSE, !.sub = None]
    /\ UNCHANGED <<astray, server, load, posts, landing, failures>>

\* execute: the command names the incident of the page, and the revision and the
\* attempt that are shown.  (Without an incident it only fails.)
Click ==
    /\ tab.active /\ tab.shown # None /\ tab.case # None /\ ~tab.pending
    /\ Gesture
    /\ posts' = Obsolete(posts) \cup
                {[case |-> tab.case, seen |-> tab.shown, own |-> TRUE, state |-> "sent", n |-> 0]}
    /\ tab' = [tab EXCEPT !.pending = TRUE, !.error = FALSE]
    /\ UNCHANGED <<astray, server, load, landing, failures>>

---------------------------------------------------------------------------
(* The server.                                                             *)

\* Telemetry, agents and the workflow.
Commit(c) ==
    /\ commits[c] < MaxCommits
    /\ commits' = [commits EXCEPT ![c] = @ + 1]
    /\ UNCHANGED <<astray, applied, tab, load, posts, landing, failures, gestures>>

\* How many commands an incident had accepted at a version of it.
WorkflowRevision(v) == Cardinality({a \in applied : a.case = v.case /\ a.n <= v.n})

Become(p, q) == posts' = (posts \ {p}) \cup (IF q.own THEN {q} ELSE {})

\* A command is accepted on the workflow revision it saw; one that was accepted
\* before gets the receipt it got then.
Accept(p) ==
    LET revision == WorkflowRevision(p.seen)
        n == commits[p.case] + 1
    IN  /\ p.state = "sent" /\ p.seen.case = p.case
        /\ \/ /\ revision = WorkflowRevision(Newest(p.case)) /\ n <= MaxCommits
              /\ commits' = [commits EXCEPT ![p.case] = n]
              /\ applied' = applied \cup {[case |-> p.case, revision |-> revision, n |-> n]}
              /\ Become(p, [p EXCEPT !.state = "accepted", !.n = n])
           \/ \E a \in applied :
                /\ a.case = p.case /\ a.revision = revision
                /\ Become(p, [p EXCEPT !.state = "accepted", !.n = a.n])
                /\ UNCHANGED server
        /\ UNCHANGED <<astray, tab, load, landing, failures, gestures>>

Refuse(p) ==
    /\ p.state = "sent"
    /\ \E answer \in {"refused", "revalidate"} : Become(p, [p EXCEPT !.state = answer])
    /\ UNCHANGED <<astray, server, tab, load, landing, failures, gestures>>

---------------------------------------------------------------------------
(* Reads: loadCoherentIncidentV3 inside the refresh loop.                   *)

ReadProjection ==
    /\ load # None /\ load.case # None /\ load.projection = 0
    /\ load' = [load EXCEPT !.projection = commits[load.case]]
    /\ UNCHANGED <<astray, server, tab, posts, landing, failures, gestures>>

ReadSeries ==
    /\ load # None /\ load.case # None /\ load.series = 0
    /\ load' = [load EXCEPT !.series = commits[load.case]]
    /\ UNCHANGED <<astray, server, tab, posts, landing, failures, gestures>>

Answered == load # None /\ load.projection > 0 /\ load.series > 0
Coherent == load.series >= load.projection

\* What a pass shows, unless the page was left or went to another incident.
Shown(t) ==
    IF ~t.active \/ load.case # t.case THEN t
    ELSE [t EXCEPT !.shown = Version(load.case, load.projection),
                   !.series = IF @ = None \/ load.series >= @.n
                              THEN Version(load.case, load.series) ELSE @,
                   !.last = load.projection, !.connection = "connected", !.error = FALSE,
                   !.url = load.case]

\* The loop ends well: whoever waited goes on.
Ends(t) ==
    LET subscribed == IF load.opens THEN Subscribe(t) ELSE t
    IN  Settled(IF \E p \in Settling : p.state = "rereading" THEN Fail(subscribed)
                ELSE subscribed)

Arrive ==
    /\ Answered /\ Coherent
    /\ IF load.trailing
       THEN /\ load' = [Requested(None, tab.case, load.opens, load.reports) EXCEPT !.reads = 1]
            /\ tab' = Shown(tab) /\ UNCHANGED posts
       ELSE /\ load' = None
            /\ tab' = Ends(Shown(tab)) /\ posts' = posts \ Settling
    /\ UNCHANGED <<astray, server, landing, failures, gestures>>

MayReadAgain == load.reads < MaxReads

ReadAgain ==
    /\ Answered /\ ~Coherent /\ MayReadAgain
    /\ load' = [load EXCEPT !.projection = 0, !.series = 0, !.reads = @ + 1]
    /\ UNCHANGED <<astray, server, tab, posts, landing, failures, gestures>>

\* The loop ends with an error, also for those who asked for another pass.
Breaks ==
    /\ load' = None
    /\ tab' = Settled(IF load.reports \/ \E p \in Settling : p.own \/ p.state = "rereading"
                      THEN Fail(tab) ELSE tab)
    /\ posts' = posts \ Settling
    /\ UNCHANGED <<astray, server, landing, gestures>>

\* The reads disagree three times, or there is no incident to read.
Unstable ==
    /\ load # None
    /\ load.case = None \/ (Answered /\ ~Coherent /\ ~MayReadAgain)
    /\ Breaks /\ UNCHANGED failures

---------------------------------------------------------------------------
(* The stream: subscribe with applyIncidentEventV3.                        *)

Streaming(t) == t.sub # None /\ t.sub.state = "open"

StreamOpens ==
    /\ tab.sub # None /\ tab.sub.state = "opening"
    /\ tab' = [tab EXCEPT !.sub.state = "open", !.connection = "connected"]
    /\ UNCHANGED <<astray, server, load, posts, landing, failures, gestures>>

EventArrives ==
    /\ Streaming(tab) /\ tab.sub.at < commits[tab.sub.case]
    /\ LET n == tab.sub.at + 1
           t == [tab EXCEPT !.sub.at = n, !.connection = "connected"]
       IN  \/ n <= tab.last /\ tab' = t /\ UNCHANGED load
           \/ /\ n = tab.last + 1
              /\ tab' = [t EXCEPT !.last = n]
              /\ load' = Requested(load, tab.case, FALSE, TRUE)
           \/ /\ n > tab.last + 1
              /\ tab' = Rehydrate(t)
              /\ load' = Requested(load, tab.case, TRUE, TRUE)
    /\ UNCHANGED <<astray, server, posts, landing, failures, gestures>>

---------------------------------------------------------------------------
(* Answers to the rest, and the clock.                                     *)

LandingAnswers ==
    /\ landing /\ landing' = FALSE
    /\ \/ \E c \in Cases :
            /\ tab' = [tab EXCEPT !.case = c]
            /\ load' = Requested(load, c, TRUE, TRUE)
       \/ tab' = Fail([tab EXCEPT !.case = None]) /\ UNCHANGED load
    /\ UNCHANGED <<astray, server, posts, failures, gestures>>

PostAnswered(p) ==
    /\ p.own
    /\ astray' = (astray \/ (p.state = "accepted" /\ p.case # tab.case))
    /\ \/ /\ p.state = "accepted"
          /\ tab' = [tab EXCEPT !.shown = Version(p.case, p.n), !.last = p.n,
                                !.connection = "connected", !.error = FALSE]
          /\ load' = Requested(load, tab.case, FALSE, FALSE)
          /\ Become(p, [p EXCEPT !.state = "reading"])
       \/ /\ p.state = "revalidate"
          /\ load' = Requested(load, tab.case, FALSE, FALSE)
          /\ Become(p, [p EXCEPT !.state = "rereading"])
          /\ UNCHANGED tab
       \/ /\ p.state = "refused"
          /\ tab' = Fail([tab EXCEPT !.pending = FALSE])
          /\ posts' = posts \ {p} /\ UNCHANGED load
    /\ UNCHANGED <<server, landing, failures, gestures>>

\* Seeded fault: the clock reports the timeout and leaves the command pending.
TimeoutReported ==
    /\ tab.active /\ tab.shown # None /\ tab.pending
    /\ tab' = Fail(tab)
    /\ posts' = Obsolete(posts)
    /\ UNCHANGED <<server, load, landing, astray, failures, gestures>>

\* startClock: after ten seconds a command is given up.
Timeout ==
    /\ tab.active /\ tab.shown # None /\ tab.pending
    /\ tab' = Fail([tab EXCEPT !.pending = FALSE])
    /\ posts' = Obsolete(posts)
    /\ astray' = (astray \/ \E p \in posts : p.own /\ p.state # "sent")
    /\ UNCHANGED <<server, load, landing, failures, gestures>>

---------------------------------------------------------------------------
(* The network.                                                            *)

ReadFails == load # None /\ load.case # None /\ ~Answered /\ Fails /\ Breaks

LandingFails ==
    /\ landing /\ Fails
    /\ landing' = FALSE /\ tab' = Fail(tab)
    /\ UNCHANGED <<astray, server, load, posts, gestures>>

\* A command, or its answer, is lost.
PostFails(p) ==
    /\ p.state \notin {"reading", "rereading"} /\ Fails
    /\ tab' = IF p.own THEN Fail([tab EXCEPT !.pending = FALSE]) ELSE tab
    /\ posts' = posts \ {p}
    /\ UNCHANGED <<astray, server, load, landing, gestures>>

\* The browser opens a broken stream again, unless the server refuses it.
StreamFails ==
    /\ tab.sub # None /\ tab.sub.state # "dead" /\ Fails
    /\ \E state \in {"opening", "dead"} :
         tab' = [tab EXCEPT !.sub.state = state, !.connection = "reconnecting"]
    /\ UNCHANGED <<astray, server, load, posts, landing, gestures>>

\* The server no longer has the events after the cursor, or one is malformed.
StreamResets ==
    /\ Streaming(tab) /\ Fails
    /\ tab' = Rehydrate(tab)
    /\ load' = Requested(load, tab.case, TRUE, TRUE)
    /\ UNCHANGED <<astray, server, posts, landing, gestures>>

---------------------------------------------------------------------------
Init ==
    /\ commits = [c \in Cases |-> 1]
    /\ applied = {} /\ posts = {} /\ load = None /\ landing = FALSE
    /\ \E address \in Cases \cup {None} : tab = Opened(address)
    /\ astray = FALSE /\ failures = 0 /\ gestures = 0

User == Enter \/ Retry \/ Leave \/ Click \/ \E c \in Cases : Open(c)
Server == (\E c \in Cases : Commit(c)) \/ \E p \in posts : Accept(p) \/ Refuse(p)
Reading == ReadProjection \/ ReadSeries \/ Arrive \/ ReadAgain \/ Unstable
Following == StreamOpens \/ EventArrives
Network ==
    \/ ReadFails \/ LandingFails \/ StreamFails \/ StreamResets
    \/ \E p \in posts : PostFails(p)

Next ==
    \/ User \/ Server \/ Reading \/ Following \/ LandingAnswers \/ Timeout \/ Network
    \/ \E p \in posts : PostAnswered(p)

Spec == Init /\ [][Next]_vars

\* A read is answered or fails, the browser keeps opening a stream and delivers what
\* comes, and the clock ticks.  A command need never be answered.
Fairness ==
    /\ WF_vars(Reading) /\ WF_vars(Following)
    /\ WF_vars(LandingAnswers) /\ WF_vars(Timeout)

FairSpec == Spec /\ Fairness

---------------------------------------------------------------------------
Streams == [case : Cases, at : 0..MaxCommits, state : {"opening", "open", "dead"}]
Pages ==
    [active : BOOLEAN, case : Cases \cup {None},
     shown : Versions \cup {None}, series : Versions \cup {None}, last : 0..MaxCommits,
     connection : Connections, error : BOOLEAN, pending : BOOLEAN,
     sub : Streams \cup {None}, url : Cases \cup {None}, pinned : Cases \cup {None}]
Commands ==
    [case : Cases, seen : Versions, own : BOOLEAN, n : 0..MaxCommits,
     state : {"sent", "accepted", "refused", "revalidate", "reading", "rereading"}]

\* The controller holds versions that were read, and no loop reads more than three times.
WorkbenchTypeOK ==
    /\ commits \in [Cases -> 1..MaxCommits]
    /\ applied \subseteq [case : Cases, revision : Nat, n : 1..MaxCommits]
    /\ tab \in Pages /\ load \in Passes \cup {None} /\ posts \subseteq Commands
    /\ landing \in BOOLEAN /\ astray \in BOOLEAN

\* A stream of the page's own incident that is not given up.
Followed == tab.sub # None /\ tab.sub.case = tab.case /\ tab.sub.state # "dead"

\* Once every read, command and event has arrived, a page that reports no error and has
\* a stream of its incident shows that incident, as it is, and a series that reaches it.
\* Events, receipts, passes of the loop and changes of the incident arrive in any order.
CurrentAtRest ==
    tab.active /\ load = None /\ ~landing /\ ~tab.pending /\ ~tab.error
    /\ ~(\E p \in posts : p.own) /\ ~astray
    /\ Followed /\ Streaming(tab) /\ tab.sub.at = commits[tab.case]
    => tab.shown = Newest(tab.case) /\ tab.series # None /\ tab.series.n >= tab.shown.n

\* A page that stays open comes to show its incident as it is, to report an error, or
\* to have no stream it could learn from.
CatchesUp ==
    <>[](tab.active) => <>[](tab.error \/ ~Followed \/ tab.shown = Newest(tab.case))

\* No command holds the page for ever, also one that is never answered.
PendingEnds == tab.pending ~> (~tab.pending \/ ~tab.active)

\* Claimed and refuted: a page that keeps showing an incident keeps following it.
KeepsFollowing == <>[](tab.active /\ tab.shown # None) => []<>Followed

\* Claimed and refuted: a page at rest shows the series of the incident it shows.
SeriesOfShown ==
    tab.active /\ load = None /\ ~landing /\ ~tab.error /\ tab.shown # None
    /\ tab.shown.case = tab.case /\ tab.series # None
    => tab.series.case = tab.shown.case
=============================================================================
