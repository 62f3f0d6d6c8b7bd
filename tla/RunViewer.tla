------------------------------- MODULE RunViewer -------------------------------
(***************************************************************************)
(* A browser tab that follows a run of the fault loop.  It asks for the    *)
(* page's state and for the run's full projection, and holds a stream of   *)
(* the run's events; the answers come back late, in any order, or not at   *)
(* all.  The selected run (the run_id of the URL), the shared run (what is *)
(* known of it) and the page's state are three things that these answers   *)
(* have to keep together.                                                  *)
(*                                                                         *)
(* The runs grow as RecordedRun says, which FaultLoop implements.          *)
(***************************************************************************)
EXTENDS RecordedRun, FiniteSets

CONSTANTS
    None,          \* no run, no request, no timer
    MaxEvents,     \* bound: events of a run before it must end
    MaxFailures,   \* bound: requests and streams that fail
    MaxGestures,   \* bound: navigations, reloads and retries by hand
    MaxRetries     \* attempts of the pinned run's state retry

ASSUME ViewerAssumption ==
    /\ None \notin Runs
    /\ {MaxEvents, MaxFailures, MaxGestures, MaxRetries} \subseteq Nat

VARIABLES
    active,    \* the server's activeWorkspaceRunId
    tab,       \* the browser tab
    failures,  \* failures so far
    gestures   \* gestures so far

vars == <<log, active, tab, failures, gestures>>

Bound(s) == Happened({"bound"}, s)
Over(s) == Happened(Endings, s)
Prefix(r, n) == SubSeq(log[r], 1, n)
Newest(known) == IF known = {} THEN 0 ELSE CHOOSE n \in {e[2] : e \in known} : \A e \in known : e[2] <= n

\* The first n events of a run, each with the run it belongs to.
Events(r, n) == {r} \X (1..n)

(***************************************************************************)
(* sel        selectedRunId                                                *)
(* shared     the shared run: its id, the events known of it, how many of  *)
(*            them the last full projection had (0: none yet), and the     *)
(*            last sequence number                                         *)
(* stream     the open EventSource: its run, and how far it has read       *)
(* timer      the run for which a reconnect is scheduled                   *)
(* state      the page's state: its run, and whether it shows the topology *)
(*            that this run bound                                          *)
(* read       the newest request for the state: for which run, under which *)
(*            topology refresh key, and the answer that is on its way      *)
(* late       the refresh keys of requests that were superseded            *)
(* inFlight, succeeded   the topology refresh tracker                      *)
(* retry      the pinned retry: its run, its attempts, its timer           *)
(* hydrates   the full projections asked for; n is 0 until it is answered  *)
(* starting   the start that was asked for: its run once it is answered    *)
(* refused    the run whose state the server refused last, for which the   *)
(*            page says to retry by hand                                   *)
(* broken     the page's script failed: nothing of it answers any more     *)
(***************************************************************************)
NoRetry == [run |-> None, attempts |-> 0, pending |-> FALSE]
Opened(run) ==
    [sel |-> run, shared |-> None, stream |-> None, timer |-> None,
     state |-> [run |-> None, bound |-> FALSE], read |-> None, late |-> {},
     inFlight |-> None, succeeded |-> None, retry |-> NoRetry, hydrates |-> {},
     starting |-> None, refused |-> None, broken |-> FALSE]

Sharing(t, r) == t.shared # None /\ t.shared.run = r

-----------------------------------------------------------------------------
(* What the tab does; each operator gives the tab afterwards.  Below, a    *)
(* tab in between is named by \E t \in {...}.                              *)

\* createTopologyRefreshTracker.fail and .succeed: only the key in flight is settled.
Failed(t, key) ==
    IF key = None \/ t.inFlight # key THEN t
    ELSE [t EXCEPT !.inFlight = None, !.succeeded = IF @ = key THEN None ELSE @]
Succeeded(t, key) ==
    IF key = None \/ t.inFlight # key THEN t
    ELSE [t EXCEPT !.inFlight = None, !.succeeded = key]

\* refresh: a new request supersedes the one before it.
Refresh(t, key) ==
    [t EXCEPT !.read = [run |-> t.sel, key |-> key, answer |-> None], !.refused = None,
              !.late = IF t.read # None /\ t.read.key # None THEN @ \cup {t.read.key} ELSE @]

\* hydrateSharedRun
Hydrate(t) ==
    IF t.shared = None \/ t.shared.run # t.sel THEN t
    ELSE [t EXCEPT !.hydrates = @ \cup {[run |-> t.sel, n |-> 0]}]

\* cancelSharedRunReconnect
CancelReconnect(t) ==
    [t EXCEPT !.timer = None, !.inFlight = None, !.succeeded = None, !.stream = None]

\* scheduleSharedRunReconnect
ScheduleReconnect(t) ==
    IF t.shared = None \/ t.shared.run # t.sel \/ t.timer # None THEN t
    ELSE [t EXCEPT !.stream = None, !.timer = t.sel]

\* createPinnedRunStateRetryController.schedule
ScheduleRetry(t, r) ==
    LET retry == IF t.retry.pending /\ t.retry.run # r THEN NoRetry ELSE t.retry
    IN  IF retry.pending \/ retry.attempts >= MaxRetries THEN t
        ELSE [t EXCEPT !.retry = [run |-> r, attempts |-> retry.attempts + 1, pending |-> TRUE]]

\* cancelPinnedRunRetries: a refusal is final, and ends both families of retries.
Refused(t, r) ==
    LET cancelled == IF Sharing(t, r) THEN CancelReconnect(t) ELSE t
    IN  [cancelled EXCEPT !.retry = IF @.run = r THEN NoRetry ELSE @, !.refused = r]

\* Seeded fault: what the run before left open stays open.
SelectOnly(t, r) == [t EXCEPT !.sel = r]

\* bindCanonicalRunSelection
Select(t, r) ==
    IF t.sel = r THEN t
    ELSE [CancelReconnect(t) EXCEPT !.sel = r, !.retry = NoRetry]

\* connectSharedRunStream: not for a run whose full projection is terminal.
Connect(t) ==
    IF Over(Prefix(t.shared.run, t.shared.full)) THEN t
    ELSE [t EXCEPT !.stream = [run |-> t.shared.run, at |-> t.shared.last]]

\* The key under which the state has to be read again, if it has to.
RefreshKey(t) ==
    LET bound == Bound(Prefix(t.shared.run, Newest(t.shared.known)))
    IN  IF bound /\ t.state = [run |-> t.shared.run, bound |-> TRUE] THEN None
        ELSE <<t.shared.run, bound, t.state.bound>>

\* createTopologyRefreshTracker.request, and the refresh it asks for.
RefreshTopology(t) ==
    LET key == RefreshKey(t)
    IN  IF key = None THEN [t EXCEPT !.inFlight = None, !.succeeded = None]
        ELSE IF key \in {t.inFlight, t.succeeded} THEN t
        ELSE Refresh([t EXCEPT !.inFlight = key], key)

\* bindCanonicalWorkspace: without a bound topology there is no workspace, and the
\* pinned run counts as unavailable.
BindWorkspace(t, r, n) ==
    IF r = None \/ ~Bound(Prefix(r, n))
    THEN IF t.sel = None THEN t ELSE [t EXCEPT !.shared = None]
    ELSE LET selected == IF t.sel = None THEN Select(t, r) ELSE t
             free == IF t.shared # None /\ t.shared.run # r THEN CancelReconnect(selected) ELSE selected
         IN  [free EXCEPT !.shared = [run |-> r, known |-> Events(r, n), full |-> n, last |-> n]]

-----------------------------------------------------------------------------
(* The server.                                                             *)

\* A start: the run is reserved and started in one turn.
Begin(r) == log[r] = <<>> /\ log' = [log EXCEPT ![r] = <<"reserved", "started">>] /\ active' = r

OtherTabStarts(r) == Begin(r) /\ UNCHANGED <<tab, failures, gestures>>

RunGrows(r) ==
    /\ log[r] # <<>>
    /\ \E kind \in Kinds :
          /\ Grow(r, kind)
          /\ Len(log[r]) >= MaxEvents => kind \in Endings
    /\ UNCHANGED <<active, tab, failures, gestures>>

\* The demo is reset, or the server restarts: the run that was started last goes on
\* or is closed, but no longer counts as the active one.
DemoReset == active # None /\ active' = None /\ UNCHANGED <<log, tab, failures, gestures>>

\* GET /api/state: without a run, of the run that was started last.
AnswerState ==
    /\ tab.read # None /\ tab.read.answer = None
    /\ LET r == IF tab.read.run = None THEN active ELSE tab.read.run
       IN  tab' = [tab EXCEPT !.read.answer = [run |-> r, n |-> IF r = None THEN 0 ELSE Len(log[r])]]
    /\ UNCHANGED <<log, active, failures, gestures>>

\* GET /api/demo/agent-loop
AnswerHydrate(h) ==
    /\ h \in tab.hydrates /\ h.n = 0
    /\ tab' = [tab EXCEPT !.hydrates = (@ \ {h}) \cup {[h EXCEPT !.n = Len(log[h.run])]}]
    /\ UNCHANGED <<log, active, failures, gestures>>

AnswerStart(r) ==
    /\ tab.starting = "asked" /\ Begin(r)
    /\ tab' = [tab EXCEPT !.starting = r]
    /\ UNCHANGED <<failures, gestures>>

-----------------------------------------------------------------------------
(* Answers and events that reach the tab.                                  *)

Unaffected == UNCHANGED <<log, active, failures, gestures>>

\* The answer counts if the run it was asked for is still the selected one.
StateArrives ==
    /\ tab.read # None /\ tab.read.answer # None
    /\ LET asked == tab.read
           r == asked.answer.run
           n == asked.answer.n
       IN  IF asked.run # tab.sel
           THEN tab' = Failed([tab EXCEPT !.read = None], asked.key)
           ELSE \E committed \in {[Succeeded(tab, asked.key) EXCEPT
                       !.read = None,
                       !.state = [run |-> r, bound |-> r # None /\ Bound(Prefix(r, n))],
                       !.retry = IF asked.run # None /\ asked.run = @.run THEN NoRetry ELSE @]} :
                \E bound \in {BindWorkspace(committed, r, n)} : tab' = Hydrate(bound)
    /\ Unaffected

\* A superseded request comes to its end.
LateStateArrives(key) ==
    /\ key \in tab.late
    /\ tab' = [Failed(tab, key) EXCEPT !.late = @ \ {key}]
    /\ Unaffected

\* A full projection of n events; the last sequence number never goes back.
Projected(shared, r, n) ==
    [shared EXCEPT !.known = Events(r, n), !.full = n, !.last = IF @ > n THEN @ ELSE n]

\* Seeded fault: nobody looks whose projection it is.
HydrateArrivesUnchecked(h) ==
    /\ h \in tab.hydrates /\ h.n > 0
    /\ LET t == [tab EXCEPT !.hydrates = @ \ {h}]
       IN  tab' = IF t.shared = None THEN t ELSE [t EXCEPT !.shared = Projected(@, h.run, h.n)]
    /\ Unaffected

\* The full projection replaces the events that are known.  A run that ended
\* before it bound its topology has none that the browser accepts.
HydrateArrives(h) ==
    /\ h \in tab.hydrates /\ h.n > 0
    /\ \E t \in {[tab EXCEPT !.hydrates = @ \ {h}]} :
          IF ~Sharing(t, h.run) \/ t.sel # h.run THEN tab' = t
          ELSE IF Over(Prefix(h.run, h.n)) /\ ~Bound(Prefix(h.run, h.n)) THEN tab' = ScheduleReconnect(t)
          ELSE \E connected \in {Connect([t EXCEPT !.shared = Projected(@, h.run, h.n)])} :
               tab' = RefreshTopology(connected)
    /\ Unaffected

\* streamLocalFaultLoopEvents: the events after the place it has reached, one by one.
AllSent(stream) == stream.at >= Len(log[stream.run])

\* The stream's next event joins those that are known.
EventArrives ==
    /\ tab.stream # None /\ ~AllSent(tab.stream)
    /\ LET r == tab.stream.run
           n == tab.stream.at + 1
       IN  IF ~Sharing(tab, r) THEN tab' = [tab EXCEPT !.stream.at = n]
           ELSE \E merged \in {[tab EXCEPT !.stream.at = n, !.shared.known = @ \cup {<<r, n>>},
                                           !.shared.last = IF @ > n THEN @ ELSE n]} :
                tab' = IF Bound(Prefix(r, n)) /\ tab.state # [run |-> r, bound |-> TRUE]
                       THEN Refresh(merged, None) ELSE merged
    /\ Unaffected

\* Seeded fault: the end of the stream is taken for the end of the story.
EndArrivesUnread ==
    /\ tab.stream # None /\ AllSent(tab.stream)
    /\ Ended(tab.stream.run) /\ Sharing(tab, tab.stream.run)
    /\ tab' = [tab EXCEPT !.stream = None]
    /\ Unaffected

\* Everything was sent and the run is over: the server says so and hangs up.
EndArrives ==
    /\ tab.stream # None /\ AllSent(tab.stream)
    /\ Ended(tab.stream.run) /\ Sharing(tab, tab.stream.run)
    /\ tab' = Hydrate([tab EXCEPT !.stream = None])
    /\ Unaffected

StartArrives ==
    /\ tab.starting \in Runs
    /\ LET r == tab.starting
       IN  \E t \in {[Select(tab, r) EXCEPT !.starting = None,
                          !.shared = [run |-> r, known |-> {}, full |-> 0, last |-> 0]]} :
           tab' = Hydrate(t)
    /\ Unaffected

ReconnectTimer ==
    /\ tab.timer # None
    /\ LET t == [tab EXCEPT !.timer = None]
       IN  tab' = IF Sharing(t, tab.timer) /\ t.sel = tab.timer THEN Hydrate(t) ELSE t
    /\ Unaffected

RetryTimer ==
    /\ tab.retry.pending
    /\ LET t == [tab EXCEPT !.retry.pending = FALSE]
       IN  tab' = IF t.sel = t.retry.run THEN Refresh(t, None) ELSE t
    /\ Unaffected

-----------------------------------------------------------------------------
(* Failures.                                                               *)

Fails == failures < MaxFailures /\ failures' = failures + 1 /\ UNCHANGED <<log, active, gestures>>

\* The request fails, or the server refuses it (an HTTP status other than 408, 429 and 5xx).
StateFails ==
    /\ Fails /\ tab.read # None
    /\ LET asked == tab.read
       IN  \E t \in {Failed([tab EXCEPT !.read = None], asked.key)} :
           \/ asked.run # t.sel /\ tab' = t
           \/ /\ asked.run = t.sel
              /\ tab' = IF asked.run = None THEN t ELSE Refused(t, asked.run)
           \/ /\ asked.run = t.sel
              /\ tab' = IF asked.key # None /\ asked.run # None THEN ScheduleRetry(t, asked.run)
                        ELSE IF t.shared # None /\ t.shared.run = t.sel THEN ScheduleReconnect(t)
                        ELSE IF asked.run # None THEN ScheduleRetry(t, asked.run)
                        ELSE t

HydrateFails(h) ==
    /\ Fails /\ h \in tab.hydrates
    /\ LET t == [tab EXCEPT !.hydrates = @ \ {h}]
       IN  tab' = IF Sharing(t, h.run) /\ t.sel = h.run THEN ScheduleReconnect(t) ELSE t

StreamFails ==
    /\ Fails /\ tab.stream # None
    /\ tab' = IF Sharing(tab, tab.stream.run) THEN ScheduleReconnect([tab EXCEPT !.stream = None]) ELSE tab

StartFails == Fails /\ tab.starting # None /\ tab' = [tab EXCEPT !.starting = None]

-----------------------------------------------------------------------------
(* The user.                                                               *)

\* runAgentTeamDemo: not while a run that is shown has not ended.
AskToStart ==
    /\ ~tab.broken /\ tab.starting = None
    /\ LET shown == IF tab.shared = None THEN <<>> ELSE Prefix(tab.shared.run, Newest(tab.shared.known))
       IN  Bound(shown) => Over(shown)
    /\ \E r \in Runs : log[r] = <<>>
    /\ tab' = [tab EXCEPT !.starting = "asked"]
    /\ Unaffected

Gesture == gestures < MaxGestures /\ gestures' = gestures + 1 /\ UNCHANGED <<log, active, failures>>

\* popstate: back or forward to another run that was started, or to none.
Navigate(r) ==
    /\ Gesture /\ ~tab.broken /\ r # tab.sel
    /\ r # None => log[r] # <<>>
    /\ tab' = Refresh([CancelReconnect(tab) EXCEPT !.sel = r, !.retry = NoRetry], None)

\* The page is loaded again, or from its bare address: the session's shared run survives.
\* Without a selection it is selected before the variables of the stream exist; the script
\* fails there, and nothing is asked for.
Reload ==
    /\ Gesture
    /\ \E r \in {tab.sel, None} :
          LET shared == IF tab.shared = None THEN None
                        ELSE [tab.shared EXCEPT !.known = {}, !.full = 0]
              t == [Opened(r) EXCEPT !.shared = shared]
          IN  tab' = IF r = None /\ shared # None THEN [t EXCEPT !.broken = TRUE]
                     ELSE Refresh(t, None)

RetryByHand == Gesture /\ ~tab.broken /\ tab' = Refresh(tab, None)

-----------------------------------------------------------------------------
TabInit == tab = Refresh(Opened(None), None)

ViewerInit ==
    /\ Init /\ active = None /\ TabInit
    /\ failures = 0 /\ gestures = 0

Arrivals ==
    \/ StateArrives \/ (\E key \in tab.late : LateStateArrives(key))
    \/ (\E h \in tab.hydrates : HydrateArrives(h))
    \/ EventArrives \/ EndArrives \/ StartArrives \/ ReconnectTimer \/ RetryTimer

Answers ==
    \/ AnswerState \/ (\E h \in tab.hydrates : AnswerHydrate(h)) \/ (\E r \in Runs : AnswerStart(r))

ViewerNext ==
    \/ \E r \in Runs : OtherTabStarts(r) \/ RunGrows(r)
    \/ DemoReset
    \/ Answers
    \/ Arrivals
    \/ StateFails \/ StreamFails \/ StartFails \/ \E h \in tab.hydrates : HydrateFails(h)
    \/ AskToStart \/ Reload \/ RetryByHand \/ \E r \in Runs \cup {None} : Navigate(r)

ViewerSpec == ViewerInit /\ [][ViewerNext]_vars

\* The server answers what it is asked, and whatever is on its way arrives.
ViewerFairness ==
    /\ WF_vars(AnswerState) /\ WF_vars(\E h \in tab.hydrates : AnswerHydrate(h))
    /\ WF_vars(StateArrives) /\ WF_vars(\E h \in tab.hydrates : HydrateArrives(h))
    /\ WF_vars(EventArrives) /\ WF_vars(EndArrives) /\ WF_vars(StartArrives)
    /\ WF_vars(\E key \in tab.late : LateStateArrives(key))
    /\ WF_vars(ReconnectTimer) /\ WF_vars(RetryTimer)

FairViewerSpec == ViewerSpec /\ ViewerFairness

-----------------------------------------------------------------------------
(* Properties.                                                             *)

\* Every part of the tab has its type, and no place is known that the run has not.
ViewerTypeOK ==
    /\ log \in [Runs -> Seq(Kinds)] /\ active \in Runs \cup {None}
    /\ tab.sel \in Runs \cup {None} /\ tab.timer \in Runs \cup {None}
    /\ tab.starting \in Runs \cup {None, "asked"}
    /\ tab.hydrates \subseteq [run : Runs, n : Nat]
    /\ tab.shared # None => tab.shared.last \in 0..Len(log[tab.shared.run])
    /\ tab.stream # None => tab.stream.at \in 0..Len(log[tab.stream.run])
    /\ failures \in 0..MaxFailures /\ gestures \in 0..MaxGestures

\* What is shown as one run is one run: every known event is the shared run's own,
\* whatever was selected and whatever answers came in meanwhile, and a stream
\* that is read at all is the shared run's.
OneRunOnly ==
    tab.shared # None =>
        /\ \A e \in tab.shared.known : e[1] = tab.shared.run
        /\ tab.shared.full <= Newest(tab.shared.known)

\* What is open or scheduled belongs to the selected run, however the selection
\* came about: no stream, reconnect or retry of a run left behind comes back.
CallbacksAreOfSelected ==
    /\ tab.stream # None => tab.stream.run = tab.sel
    /\ tab.timer # None => tab.timer = tab.sel
    /\ tab.retry.pending => tab.retry.run = tab.sel

\* The selected run is shared, and no answer is on its way that was given before
\* the run bound its topology.
Followed(r) ==
    /\ tab.sel = r /\ Sharing(tab, r)
    /\ tab.read # None /\ tab.read.answer # None => Bound(Prefix(r, tab.read.answer.n))

Complete(r) ==
    Sharing(tab, r) /\ tab.shared.known = Events(r, Len(log[r])) /\ tab.shared.full = Len(log[r])

\* Once a followed run has ended, all of it is shown in the end, as ended: the events
\* that a late answer took away, or that a stream opened too late, come back.  Only if
\* the server refused the run's state does the page leave it to the user to ask again.
EndIsShown ==
    \A r \in Runs : (Ended(r) /\ Bound(log[r]) /\ Followed(r)) ~>
        (Complete(r) \/ tab.sel # r \/ tab.refused = r)

\* And the page's state comes to show the topology that this run bound.
GraphIsShown ==
    \A r \in Runs : (Ended(r) /\ Bound(log[r]) /\ Followed(r)) ~>
        (tab.state = [run |-> r, bound |-> TRUE] \/ tab.sel # r \/ tab.refused = r)

\* What is claimed without that condition: no manual reload is ever needed.  TLC refutes
\* it with a state answer from before the topology was bound (README, section 5).
SelectedEndIsShown ==
    \A r \in Runs : (Ended(r) /\ Bound(log[r]) /\ tab.sel = r) ~>
        (Complete(r) \/ tab.sel # r \/ tab.refused = r)
=============================================================================
