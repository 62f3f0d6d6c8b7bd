--------------------------- MODULE ConsoleProofs ---------------------------
(***************************************************************************)
(* Proofs about the web console, for every set of incidents and every bound *)
(* on commits, failures and gestures: first the incident page, Workbench,   *)
(* then the live page, LiveList.                                            *)
(***************************************************************************)
EXTENDS Workbench, LiveList, FiniteSetTheorems, TLAPS

-----------------------------------------------------------------------------
(* The incident page.  Its inductive invariant.                            *)

\* A page that is shown, with a stream of its incident.
Own(t) == t.active /\ t.sub # None /\ t.sub.case = t.case

Waiting == {"reading", "rereading"}

\* Of the commands that were not given up, at most one is in flight.
OneOwn == \A p, q \in posts : p.own /\ q.own => p = q

\* Receipts and reads are of commits that there were.
Received ==
    /\ \A a \in applied : a.n <= commits[a.case]
    /\ \A p \in posts : p.n <= commits[p.case] /\ (p.state = "accepted" => p.n # 0)
Loaded ==
    load # None => /\ load.case # None => load.projection <= commits[load.case]
                                          /\ load.series <= commits[load.case]
                   /\ load.case = None => load.projection = 0

\* A pass that will be the last one reads the page's incident.
PassOfPage == load # None /\ ~load.trailing => load.case = tab.case \/ tab.case = None

\* While an incident is awaited, the page has no stream of another one.
StreamOfPage == landing /\ tab.sub # None => tab.sub.case = tab.case

\* A loop whose failure nobody reports was asked for by commands only.  It goes
\* round again only for one that still waits, and whoever has not been answered yet
\* still holds the page.
Silent == load # None /\ ~load.reports
SilentOwned ==
    Silent /\ ~astray =>
        /\ load.trailing => \E p \in posts : p.own /\ p.state \in Waiting
        /\ \A p \in posts : p.own /\ (load.trailing \/ p.state \notin Waiting)
              => tab.pending \/ tab.case = None

\* The page knows no commit that there was not, and the last pass reads no less
\* than what the page knows.
NotAhead == Own(tab) /\ ~astray => tab.last <= commits[tab.case] /\ tab.sub.at <= commits[tab.case]
PassReaches ==
    Own(tab) /\ ~astray /\ load # None /\ ~load.trailing /\ load.projection # 0
        => tab.last <= load.projection /\ tab.sub.at <= load.projection

\* The page shows what it knows, or something is still to come, or it says so.
UpToDate(t) ==
    /\ t.shown = Version(t.case, t.last)
    /\ t.series # None /\ t.series.n >= t.last
    /\ t.sub.at <= t.last
Excused == tab.error \/ landing \/ (load # None /\ load.reports) \/ \E p \in posts : p.own
ShowsOrTells == Own(tab) /\ ~astray /\ ~Excused => UpToDate(tab)

PageInv ==
    /\ WorkbenchTypeOK /\ IsFiniteSet(applied)
    /\ OneOwn /\ Received /\ Loaded /\ PassOfPage /\ StreamOfPage /\ SilentOwned
    /\ NotAhead /\ PassReaches /\ ShowsOrTells

USE DEF Waiting

-----------------------------------------------------------------------------
(* Steps of one part alone.                                                *)

\* The rest of the invariant when only the page changes, in what it says of itself,
\* its address and how its stream does, or by hiding or giving up its stream.
LEMMA QuietPage ==
    ASSUME PageInv, UNCHANGED <<commits, applied, load, posts, astray>>,
           tab' \in Pages, landing' \in BOOLEAN,
           tab'.case = tab.case, tab'.shown = tab.shown, tab'.series = tab.series,
           tab'.last = tab.last, tab'.pending = tab.pending,
           \/ tab'.sub = None
           \/ /\ tab'.active = tab.active /\ tab.sub # None
              /\ tab'.sub.case = tab.sub.case /\ tab'.sub.at = tab.sub.at,
           landing' => landing,
           tab'.error \/ (tab'.error = tab.error /\ landing' = landing)
    PROVE  PageInv'
<1>1. WorkbenchTypeOK' /\ IsFiniteSet(applied)' /\ OneOwn' /\ Received' /\ Loaded'
  BY DEF PageInv, WorkbenchTypeOK, OneOwn, Received, Loaded
<1>2. PassOfPage' /\ StreamOfPage' /\ SilentOwned'
  BY DEF PageInv, PassOfPage, StreamOfPage, SilentOwned, Silent
<1>3. Own(tab)' => Own(tab) /\ tab'.sub.at = tab.sub.at
  BY DEF Own
<1>4. NotAhead' /\ PassReaches'
  BY <1>3 DEF PageInv, NotAhead, PassReaches
<1>5. ShowsOrTells'
  BY <1>3 DEF PageInv, ShowsOrTells, Excused, UpToDate
<1> QED BY <1>1, <1>2, <1>4, <1>5 DEF PageInv

\* The stream that opens is the one that was asked for.
LEMMA StreamOpensKeeps ==
    ASSUME PageInv, StreamOpens
    PROVE  PageInv'
<1>1. tab \in Pages /\ tab.sub \in Streams
  BY DEF PageInv, WorkbenchTypeOK, StreamOpens, Pages
<1>2. PICK sub : sub = [tab.sub EXCEPT !.state = "open"]
  OBVIOUS
<1>3. sub \in Streams /\ sub.case = tab.sub.case /\ sub.at = tab.sub.at
  BY <1>1, <1>2 DEF Streams
<1>4. tab' = [tab EXCEPT !.sub = sub, !.connection = "connected"]
  BY <1>1, <1>2 DEF StreamOpens, Pages
<1>5. /\ tab' \in Pages /\ tab'.case = tab.case /\ tab'.shown = tab.shown
      /\ tab'.series = tab.series /\ tab'.last = tab.last /\ tab'.pending = tab.pending
      /\ tab'.active = tab.active /\ tab'.sub = sub /\ tab'.error = tab.error
  BY <1>1, <1>3, <1>4 DEF Pages, Connections
<1> QED BY <1>3, <1>5, QuietPage DEF PageInv, WorkbenchTypeOK, StreamOpens, server

\* A broken stream stays where it was, of the same incident.
LEMMA StreamFailsKeeps ==
    ASSUME PageInv, StreamFails
    PROVE  PageInv'
<1>1. tab \in Pages /\ tab.sub \in Streams
  BY DEF PageInv, WorkbenchTypeOK, StreamFails, Pages
<1>2. PICK state \in {"opening", "dead"} :
        tab' = [tab EXCEPT !.sub.state = state, !.connection = "reconnecting"]
  BY DEF StreamFails
<1>3. PICK sub : sub = [tab.sub EXCEPT !.state = state]
  OBVIOUS
<1>4. sub \in Streams /\ sub.case = tab.sub.case /\ sub.at = tab.sub.at
  BY <1>1, <1>3 DEF Streams
<1>5. tab' = [tab EXCEPT !.sub = sub, !.connection = "reconnecting"]
  BY <1>1, <1>2, <1>3 DEF Pages
<1>6. /\ tab' \in Pages /\ tab'.case = tab.case /\ tab'.shown = tab.shown
      /\ tab'.series = tab.series /\ tab'.last = tab.last /\ tab'.pending = tab.pending
      /\ tab'.active = tab.active /\ tab'.sub = sub /\ tab'.error = tab.error
  BY <1>1, <1>4, <1>5 DEF Pages, Connections
<1> QED BY <1>4, <1>6, QuietPage DEF PageInv, WorkbenchTypeOK, StreamFails, Fails, server

\* A page that is left gives up its stream, not what it shows.
LEMMA LeaveKeeps ==
    ASSUME PageInv, Leave
    PROVE  PageInv'
<1>1. tab \in Pages
  BY DEF PageInv, WorkbenchTypeOK
<1>2. /\ tab' \in Pages /\ tab'.case = tab.case /\ tab'.shown = tab.shown
      /\ tab'.series = tab.series /\ tab'.last = tab.last /\ tab'.pending = tab.pending
      /\ tab'.sub = None /\ tab'.error = tab.error
  BY <1>1 DEF Leave, Pages
<1> QED BY <1>2, QuietPage DEF PageInv, WorkbenchTypeOK, Leave, server

\* A live snapshot that is lost is reported.
LEMMA LandingFailsKeeps ==
    ASSUME PageInv, LandingFails
    PROVE  PageInv'
<1>1. tab \in Pages
  BY DEF PageInv, WorkbenchTypeOK
<1>2. /\ tab' \in Pages /\ tab'.case = tab.case /\ tab'.shown = tab.shown
      /\ tab'.series = tab.series /\ tab'.last = tab.last /\ tab'.pending = tab.pending
      /\ tab'.active = tab.active /\ tab'.sub = tab.sub /\ tab'.error
  BY <1>1 DEF LandingFails, Fail, Pages, Connections
<1>3. tab'.sub = None \/ tab.sub # None
  BY <1>2
<1> QED BY <1>2, <1>3, QuietPage DEF LandingFails, Fails, server

\* The rest when only the running pass reads on.
LEMMA PassReads ==
    ASSUME PageInv, UNCHANGED <<commits, applied, tab, posts, landing, astray>>, load # None,
           load' \in Passes, load'.case = load.case,
           load'.trailing = load.trailing, load'.reports = load.reports,
           Loaded', PassReaches'
    PROVE  PageInv'
<1>1. WorkbenchTypeOK' /\ IsFiniteSet(applied)' /\ OneOwn' /\ Received'
  BY DEF PageInv, WorkbenchTypeOK, OneOwn, Received
<1>2. load' # None
  BY WorkbenchAssumption
<1>3. PassOfPage' /\ StreamOfPage' /\ SilentOwned' /\ NotAhead'
  BY <1>2 DEF PageInv, PassOfPage, StreamOfPage, SilentOwned, Silent, NotAhead
<1>4. ShowsOrTells'
  BY <1>2 DEF PageInv, ShowsOrTells, Excused
<1> QED BY <1>1, <1>3, <1>4 DEF PageInv

\* What a last pass reads is no older than anything the page knows.
LEMMA ReadProjectionKeeps ==
    ASSUME PageInv, ReadProjection
    PROVE  PageInv'
<1>1. load \in Passes /\ load.case \in Cases /\ commits[load.case] \in 1..MaxCommits
  BY DEF PageInv, WorkbenchTypeOK, ReadProjection, Passes
<1>2. /\ load' \in Passes /\ load'.case = load.case /\ load'.trailing = load.trailing
      /\ load'.reports = load.reports /\ load'.series = load.series
      /\ load'.projection = commits[load.case]
  BY <1>1, WorkbenchAssumption DEF ReadProjection, Passes
<1>3. load # None /\ UNCHANGED <<commits, applied, tab, posts, landing, astray>>
  BY DEF ReadProjection, server
<1>4. Loaded'
  BY <1>1, <1>2, <1>3, WorkbenchAssumption DEF PageInv, Loaded
<1>5. PassReaches'
  <2>1. ASSUME Own(tab), ~astray, ~load.trailing
        PROVE  tab.last <= load'.projection /\ tab.sub.at <= load'.projection
    <3>1. tab.case \in Cases \/ tab.case = None
      BY DEF PageInv, WorkbenchTypeOK, Pages
    <3>2. tab.sub \in Streams /\ tab.sub.case = tab.case
      BY <2>1 DEF PageInv, WorkbenchTypeOK, Pages, Own
    <3>3. load.case = tab.case
      BY <2>1, <1>3, <3>2, WorkbenchAssumption DEF PageInv, PassOfPage, Streams
    <3> QED BY <2>1, <3>3, <1>2 DEF PageInv, NotAhead
  <2> QED BY <2>1, <1>2, <1>3 DEF PassReaches, Own
<1> QED BY <1>2, <1>3, <1>4, <1>5, PassReads

\* A series is read as it is at that moment.
LEMMA ReadSeriesKeeps ==
    ASSUME PageInv, ReadSeries
    PROVE  PageInv'
<1>1. load \in Passes /\ load.case \in Cases /\ commits[load.case] \in 1..MaxCommits
  BY DEF PageInv, WorkbenchTypeOK, ReadSeries, Passes
<1>2. /\ load' \in Passes /\ load'.case = load.case /\ load'.trailing = load.trailing
      /\ load'.reports = load.reports /\ load'.projection = load.projection
      /\ load'.series = commits[load.case]
  BY <1>1, WorkbenchAssumption DEF ReadSeries, Passes
<1>3. load # None /\ UNCHANGED <<commits, applied, tab, posts, landing, astray>>
  BY DEF ReadSeries, server
<1>4. Loaded'
  BY <1>1, <1>2, <1>3, WorkbenchAssumption DEF PageInv, Loaded
<1>5. PassReaches'
  BY <1>2, <1>3 DEF PageInv, PassReaches, Own
<1> QED BY <1>2, <1>3, <1>4, <1>5, PassReads

\* Reads that disagree are thrown away together.
LEMMA ReadAgainKeeps ==
    ASSUME PageInv, ReadAgain
    PROVE  PageInv'
<1>1. load \in Passes /\ load # None /\ load.reads < 3
  BY DEF PageInv, WorkbenchTypeOK, ReadAgain, MayReadAgain, MaxReads, Answered
<1>2. /\ load' \in Passes /\ load'.case = load.case /\ load'.trailing = load.trailing
      /\ load'.reports = load.reports /\ load'.projection = 0 /\ load'.series = 0
  <2>1. load.reads + 1 \in 1..MaxReads /\ 0 \in 0..MaxCommits
    BY <1>1, WorkbenchAssumption DEF Passes, MaxReads
  <2> QED BY <1>1, <2>1 DEF ReadAgain, Passes
<1>3. UNCHANGED <<commits, applied, tab, posts, landing, astray>>
  BY DEF ReadAgain, server
<1>4. Loaded'
  <2>1. load.case # None => commits[load.case] \in Nat
    BY <1>1, WorkbenchAssumption DEF PageInv, WorkbenchTypeOK, Passes
  <2> QED BY <1>2, <1>3, <2>1 DEF Loaded
<1>5. PassReaches'
  BY <1>2 DEF PassReaches
<1> QED BY <1>1, <1>2, <1>3, <1>4, <1>5, PassReads

-----------------------------------------------------------------------------
(* The server, and the commands on their way.                              *)

\* A command in flight is replaced by its next state, or forgotten.
LEMMA BecomeKeeps ==
    ASSUME PageInv, NEW p \in posts, NEW q \in Commands, q.own = p.own, Become(p, q)
    PROVE  /\ posts' \subseteq Commands /\ OneOwn'
           /\ \A r \in posts' : r \in posts \/ r = q
           /\ \A r \in posts : r.own => r \in posts' \/ (r = p /\ q \in posts')
<1>1. posts' = (posts \ {p}) \cup (IF q.own THEN {q} ELSE {}) /\ posts \subseteq Commands
  BY DEF Become, PageInv, WorkbenchTypeOK
<1>2. OneOwn'
  BY <1>1 DEF PageInv, OneOwn
<1> QED BY <1>1, <1>2

\* A step of the server, or the loss of a command that the page gave up: the page and
\* the pass stay, and of its own commands at most the state changes, not to waiting.
LEMMA ServerStep ==
    ASSUME PageInv, UNCHANGED <<tab, load, landing, astray>>,
           WorkbenchTypeOK', IsFiniteSet(applied)', OneOwn', Received',
           \A c \in Cases : commits[c] <= commits'[c],
           \A r \in posts' : r.own => \E p \in posts : p.own /\ (p.state \in Waiting => r.state \in Waiting),
           \A p \in posts : p.own => \E r \in posts' : r.own /\ (p.state \in Waiting => r.state \in Waiting)
    PROVE  PageInv'
<1>1. /\ commits \in [Cases -> 1..MaxCommits] /\ commits' \in [Cases -> 1..MaxCommits]
      /\ tab \in Pages /\ load \in Passes \cup {None}
  BY DEF PageInv, WorkbenchTypeOK
<1>2. \A c \in Cases, n \in Nat : n <= commits[c] => n <= commits'[c]
  <2>1. \A c \in Cases : commits[c] \in Nat /\ commits'[c] \in Nat
    BY <1>1, WorkbenchAssumption
  <2> QED BY <2>1
<1>3. Loaded'
  <2>1. load # None => load.case \in Cases \cup {None} /\ load.projection \in Nat /\ load.series \in Nat
    BY <1>1, WorkbenchAssumption DEF Passes
  <2> QED BY <2>1, <1>2 DEF PageInv, Loaded
<1>4. PassOfPage' /\ StreamOfPage' /\ PassReaches'
  BY DEF PageInv, PassOfPage, StreamOfPage, PassReaches
<1>5. NotAhead'
  <2>1. Own(tab) => tab.case \in Cases /\ tab.last \in Nat /\ tab.sub.at \in Nat
    BY <1>1, WorkbenchAssumption DEF Own, Pages, Streams
  <2> QED BY <2>1, <1>2 DEF PageInv, NotAhead
<1>6. SilentOwned'
  BY DEF PageInv, SilentOwned, Silent
<1>7. ShowsOrTells'
  BY DEF PageInv, ShowsOrTells, Excused
<1> QED BY <1>3, <1>4, <1>5, <1>6, <1>7 DEF PageInv

\* A commit only moves the server ahead of the page.
LEMMA CommitKeeps ==
    ASSUME PageInv, NEW c \in Cases, Commit(c)
    PROVE  PageInv'
<1>1. commits \in [Cases -> 1..MaxCommits] /\ commits[c] < MaxCommits /\ MaxCommits \in Nat
  BY WorkbenchAssumption DEF PageInv, WorkbenchTypeOK, Commit
<1>2. UNCHANGED <<applied, tab, load, posts, landing, astray>>
  BY DEF Commit
<1>3. commits' \in [Cases -> 1..MaxCommits] /\ \A d \in Cases : commits[d] <= commits'[d]
  BY <1>1 DEF Commit
<1>4. WorkbenchTypeOK' /\ IsFiniteSet(applied)' /\ OneOwn'
  BY <1>2, <1>3 DEF PageInv, WorkbenchTypeOK, OneOwn
<1>5. Received'
  <2>1. \A a \in applied : a.case \in Cases /\ a.n \in Nat
    BY DEF PageInv, WorkbenchTypeOK
  <2>2. \A p \in posts : p.case \in Cases /\ p.n \in Nat
    BY DEF PageInv, WorkbenchTypeOK, Commands
  <2>3. \A d \in Cases : commits[d] \in Nat /\ commits'[d] \in Nat
    BY <1>1, <1>3
  <2>4. \A a \in applied : a.n <= commits'[a.case]
    BY <1>3, <2>1, <2>3 DEF PageInv, Received
  <2>5. \A p \in posts : p.n <= commits'[p.case]
    BY <1>3, <2>2, <2>3 DEF PageInv, Received
  <2> QED BY <1>2, <2>4, <2>5 DEF PageInv, Received
<1> QED BY <1>2, <1>3, <1>4, <1>5, ServerStep

\* An accepted command, new or repeated, has a receipt of a commit that there is.
LEMMA AcceptKeeps ==
    ASSUME PageInv, NEW p \in posts, Accept(p)
    PROVE  PageInv'
<1>1. /\ commits \in [Cases -> 1..MaxCommits] /\ posts \subseteq Commands
      /\ applied \subseteq [case : Cases, revision : Nat, n : 1..MaxCommits]
      /\ IsFiniteSet(applied) /\ p \in Commands /\ p.case \in Cases /\ MaxCommits \in Nat
  BY WorkbenchAssumption DEF PageInv, WorkbenchTypeOK, Commands
<1>2. UNCHANGED <<tab, load, landing, astray>> /\ p.state = "sent"
  BY DEF Accept
<1>3. PICK n : /\ n \in 1..MaxCommits /\ Become(p, [p EXCEPT !.state = "accepted", !.n = n])
               /\ \/ /\ n = commits[p.case] + 1 /\ commits' = [commits EXCEPT ![p.case] = n]
                     /\ \E revision \in Nat : applied' = applied \cup {[case |-> p.case, revision |-> revision, n |-> n]}
                  \/ /\ \E a \in applied : a.case = p.case /\ n = a.n
                     /\ UNCHANGED <<commits, applied>>
  <2>1. PICK revision : revision = WorkflowRevision(p.seen)
    OBVIOUS
  <2>2. revision \in Nat
    <3>1. {a \in applied : a.case = p.seen.case /\ a.n <= p.seen.n} \subseteq applied
      OBVIOUS
    <3>2. IsFiniteSet({a \in applied : a.case = p.seen.case /\ a.n <= p.seen.n})
      BY <1>1, <3>1, FS_Subset
    <3> QED BY <2>1, <3>2, FS_CardinalityType DEF WorkflowRevision
  <2>3. CASE \E a \in applied :
                /\ a.case = p.case /\ a.revision = revision
                /\ Become(p, [p EXCEPT !.state = "accepted", !.n = a.n])
                /\ UNCHANGED server
    BY <2>3, <1>1 DEF server
  <2>4. CASE /\ commits[p.case] + 1 <= MaxCommits
             /\ commits' = [commits EXCEPT ![p.case] = commits[p.case] + 1]
             /\ applied' = applied \cup {[case |-> p.case, revision |-> revision, n |-> commits[p.case] + 1]}
             /\ Become(p, [p EXCEPT !.state = "accepted", !.n = commits[p.case] + 1])
    <3>1. PICK n : n = commits[p.case] + 1
      OBVIOUS
    <3>2. n \in 1..MaxCommits
      BY <1>1, <2>4, <3>1
    <3> QED BY <2>2, <2>4, <3>1, <3>2
  <2> QED BY <2>1, <2>3, <2>4 DEF Accept
<1>4. PICK q : q = [p EXCEPT !.state = "accepted", !.n = n]
  OBVIOUS
<1>5. q \in Commands /\ q.own = p.own /\ q.case = p.case /\ q.n = n
  <2>1. n \in 0..MaxCommits
    BY <1>3, WorkbenchAssumption
  <2> QED BY <1>1, <1>4, <2>1 DEF Commands
<1>6. /\ posts' \subseteq Commands /\ OneOwn'
      /\ \A r \in posts' : r \in posts \/ r = q
      /\ \A r \in posts : r.own => r \in posts' \/ (r = p /\ q \in posts')
  BY <1>3, <1>4, <1>5, BecomeKeeps
<1>7. /\ commits' \in [Cases -> 1..MaxCommits] /\ \A c \in Cases : commits[c] <= commits'[c]
      /\ n <= commits'[p.case]
  <2>1. CASE n = commits[p.case] + 1 /\ commits' = [commits EXCEPT ![p.case] = n]
    BY <1>1, <1>3, <2>1
  <2>2. CASE (\E a \in applied : a.case = p.case /\ n = a.n) /\ UNCHANGED commits
    BY <1>1, <2>2 DEF PageInv, Received
  <2> QED BY <1>3, <2>1, <2>2
<1>8. /\ applied' \subseteq [case : Cases, revision : Nat, n : 1..MaxCommits]
      /\ IsFiniteSet(applied)
      /\ \A a \in applied' : a \in applied \/ (a.case = p.case /\ a.n = n)
  BY <1>1, <1>3
<1>9. IsFiniteSet(applied')
  <2>1. CASE UNCHANGED applied
    BY <1>1, <2>1
  <2>2. CASE \E a : applied' = applied \cup {a}
    BY <1>1, <2>2, FS_AddElement
  <2> QED BY <1>3, <2>1, <2>2
<1>10. WorkbenchTypeOK'
  BY <1>2, <1>6, <1>7, <1>8 DEF PageInv, WorkbenchTypeOK
<1>11. Received'
  <2>1. \A a \in applied : a.case \in Cases /\ a.n \in Nat
    BY <1>1
  <2>2. \A r \in posts : r.case \in Cases /\ r.n \in Nat
    BY <1>1 DEF Commands
  <2>3. \A d \in Cases : commits[d] \in Nat /\ commits'[d] \in Nat
    BY <1>1, <1>7
  <2>4. \A a \in applied : a.n <= commits'[a.case]
    BY <1>7, <2>1, <2>3 DEF PageInv, Received
  <2>5. \A r \in posts : r.n <= commits'[r.case]
    BY <1>7, <2>2, <2>3 DEF PageInv, Received
  <2>6. \A r \in posts : r.state = "accepted" => r.n # 0
    BY DEF PageInv, Received
  <2>7. n # 0
    BY <1>1, <1>3
  <2> QED BY <1>5, <1>6, <1>7, <1>8, <2>4, <2>5, <2>6, <2>7 DEF Received
<1>12. /\ \A r \in posts' : r.own => \E s \in posts : s.own /\ (s.state \in Waiting => r.state \in Waiting)
       /\ \A s \in posts : s.own => \E r \in posts' : r.own /\ (s.state \in Waiting => r.state \in Waiting)
  BY <1>2, <1>5, <1>6
<1> QED BY <1>2, <1>6, <1>7, <1>9, <1>10, <1>11, <1>12, ServerStep

\* A refusal says nothing of the incident.
LEMMA RefuseKeeps ==
    ASSUME PageInv, NEW p \in posts, Refuse(p)
    PROVE  PageInv'
<1>1. posts \subseteq Commands /\ p \in Commands /\ p.state = "sent"
  BY DEF PageInv, WorkbenchTypeOK, Refuse
<1>2. UNCHANGED <<commits, applied, tab, load, landing, astray>>
  BY DEF Refuse, server
<1>3. PICK answer \in {"refused", "revalidate"} : Become(p, [p EXCEPT !.state = answer])
  BY DEF Refuse
<1>4. PICK q : q = [p EXCEPT !.state = answer]
  OBVIOUS
<1>5. q \in Commands /\ q.own = p.own /\ q.case = p.case /\ q.n = p.n /\ q.state # "accepted"
  BY <1>1, <1>4 DEF Commands
<1>6. /\ posts' \subseteq Commands /\ OneOwn'
      /\ \A r \in posts' : r \in posts \/ r = q
      /\ \A r \in posts : r.own => r \in posts' \/ (r = p /\ q \in posts')
  BY <1>3, <1>4, <1>5, BecomeKeeps
<1>7. WorkbenchTypeOK' /\ IsFiniteSet(applied)' /\ Received'
  BY <1>2, <1>5, <1>6 DEF PageInv, WorkbenchTypeOK, Received
<1>8. \A c \in Cases : commits[c] <= commits'[c]
  <2>1. \A c \in Cases : commits[c] \in Nat
    BY WorkbenchAssumption DEF PageInv, WorkbenchTypeOK
  <2> QED BY <1>2, <2>1
<1>9. /\ \A r \in posts' : r.own => \E s \in posts : s.own /\ (s.state \in Waiting => r.state \in Waiting)
      /\ \A s \in posts : s.own => \E r \in posts' : r.own /\ (s.state \in Waiting => r.state \in Waiting)
  BY <1>1, <1>5, <1>6
<1> QED BY <1>2, <1>6, <1>7, <1>8, <1>9, ServerStep

\* A command of the page failed, or was refused.
LEMMA OwnFailed ==
    ASSUME PageInv, NEW p \in posts, p.own, p.state \notin Waiting, posts' = posts \ {p},
           tab' = Fail([tab EXCEPT !.pending = FALSE]),
           UNCHANGED <<commits, applied, load, landing, astray>>
    PROVE  PageInv'
<1>1. tab \in Pages /\ OneOwn
  BY DEF PageInv, WorkbenchTypeOK
<1>2. OneOwn' /\ Received' /\ Loaded'
  BY DEF PageInv, OneOwn, Received, Loaded
<1>3. tab' = [tab EXCEPT !.pending = FALSE, !.error = TRUE, !.connection = "degraded"]
  BY <1>1 DEF Fail, Pages
<1>4. /\ tab' \in Pages /\ tab'.error /\ tab'.active = tab.active /\ tab'.case = tab.case
      /\ tab'.sub = tab.sub /\ tab'.last = tab.last
  BY <1>1, <1>3 DEF Pages, Connections
<1>5. \A q \in posts' : ~q.own
  BY <1>1 DEF OneOwn
<1>6. Silent /\ ~astray => ~load.trailing
  BY <1>1 DEF PageInv, SilentOwned, OneOwn
<1>7. SilentOwned'
  BY <1>5, <1>6 DEF SilentOwned, Silent
<1>8. PassOfPage' /\ StreamOfPage' /\ NotAhead' /\ PassReaches' /\ ShowsOrTells'
  BY <1>4 DEF PageInv, PassOfPage, StreamOfPage, NotAhead, PassReaches, ShowsOrTells, Excused, Own
<1>9. WorkbenchTypeOK' /\ IsFiniteSet(applied)'
  BY <1>4 DEF PageInv, WorkbenchTypeOK
<1> QED BY <1>2, <1>7, <1>8, <1>9 DEF PageInv

\* A lost command is reported when the page still waits for it.
LEMMA PostFailsKeeps ==
    ASSUME PageInv, NEW p \in posts, PostFails(p)
    PROVE  PageInv'
<1>1. /\ posts' = posts \ {p} /\ p.state \notin Waiting
      /\ UNCHANGED <<commits, applied, load, landing, astray>>
  BY DEF PostFails, Fails, server
<1>2. CASE p.own
  BY <1>1, <1>2, OwnFailed DEF PostFails
<1>3. CASE ~p.own
  <2>1. UNCHANGED tab
    BY <1>3 DEF PostFails
  <2>2. WorkbenchTypeOK' /\ IsFiniteSet(applied)' /\ OneOwn' /\ Received'
    BY <1>1, <2>1 DEF PageInv, WorkbenchTypeOK, OneOwn, Received
  <2>3. \A c \in Cases : commits[c] <= commits'[c]
    <3>1. \A c \in Cases : commits[c] \in Nat
      BY WorkbenchAssumption DEF PageInv, WorkbenchTypeOK
    <3> QED BY <1>1, <3>1
  <2>4. /\ \A r \in posts' : r.own => \E q \in posts : q.own /\ (q.state \in Waiting => r.state \in Waiting)
        /\ \A q \in posts : q.own => \E r \in posts' : r.own /\ (q.state \in Waiting => r.state \in Waiting)
    BY <1>1, <1>3
  <2> QED BY <1>1, <2>1, <2>2, <2>3, <2>4, ServerStep
<1> QED BY <1>2, <1>3

-----------------------------------------------------------------------------
(* Requests to read.                                                       *)

\* A request leaves a pass that has not read yet, or that will go round again.
LEMMA RequestKeeps ==
    ASSUME PageInv, UNCHANGED <<commits, applied>>, tab' \in Pages,
           NEW opens \in BOOLEAN, NEW reports \in BOOLEAN,
           load' = Requested(load, tab'.case, opens, reports)
    PROVE  /\ load' \in Passes /\ load' # None
           /\ Loaded' /\ PassOfPage' /\ PassReaches'
           /\ load'.reports = (reports \/ (load # None /\ load.reports))
           /\ load # None => load'.trailing
           /\ load = None => ~load'.trailing
<1>1. load \in Passes \cup {None} /\ tab'.case \in Cases \cup {None}
  BY DEF PageInv, WorkbenchTypeOK, Pages
<1>2. /\ load' \in Passes /\ load' # None
      /\ load = None => /\ load'.case = tab'.case /\ ~load'.trailing /\ load'.projection = 0
                        /\ load'.series = 0 /\ load'.reports = reports
      /\ load # None => /\ load'.case = load.case /\ load'.trailing
                        /\ load'.projection = load.projection /\ load'.series = load.series
                        /\ load'.reports = (load.reports \/ reports)
  <2>1. CASE load = None
    <3>1. load' = [case |-> tab'.case, projection |-> 0, series |-> 0, reads |-> 1,
                   trailing |-> FALSE, opens |-> opens, reports |-> reports]
      BY <2>1 DEF Requested
    <3>2. 0 \in 0..MaxCommits /\ 1 \in 1..MaxReads
      BY WorkbenchAssumption DEF MaxReads
    <3>3. load' \in Passes
      BY <1>1, <3>1, <3>2 DEF Passes
    <3>4. load' # None
      BY <3>3, WorkbenchAssumption
    <3> QED BY <2>1, <3>1, <3>3, <3>4
  <2>2. CASE load # None
    <3>1. load \in Passes
      BY <1>1, <2>2
    <3>2. PICK o, r : o = (load.opens \/ opens) /\ r = (load.reports \/ reports)
      OBVIOUS
    <3>3. o \in BOOLEAN /\ r \in BOOLEAN
      BY <3>2
    <3>4. load' = [load EXCEPT !.trailing = TRUE, !.opens = o, !.reports = r]
      BY <2>2, <3>2 DEF Requested
    <3>5. /\ load' \in Passes /\ load'.case = load.case /\ load'.trailing
          /\ load'.projection = load.projection /\ load'.series = load.series
          /\ load'.reports = r
      BY <3>1, <3>3, <3>4 DEF Passes
    <3>6. load' # None
      BY <3>5, WorkbenchAssumption
    <3> QED BY <2>2, <3>2, <3>5, <3>6
  <2> QED BY <2>1, <2>2
<1>3. Loaded'
  <2>1. \A c \in Cases : commits[c] \in Nat
    BY WorkbenchAssumption DEF PageInv, WorkbenchTypeOK
  <2>2. CASE load = None
    BY <1>1, <1>2, <2>1, <2>2 DEF Loaded
  <2>3. CASE load # None
    BY <1>2, <2>3 DEF PageInv, Loaded
  <2> QED BY <2>2, <2>3
<1>4. PassOfPage' /\ PassReaches'
  BY <1>2 DEF PassOfPage, PassReaches
<1> QED BY <1>2, <1>3, <1>4

\* A reset gives the stream up and asks for a pass that subscribes and reports.
LEMMA StreamResetsKeeps ==
    ASSUME PageInv, StreamResets
    PROVE  PageInv'
<1>1. tab \in Pages /\ UNCHANGED <<commits, applied, posts, landing, astray>>
  BY DEF PageInv, WorkbenchTypeOK, StreamResets, Fails, server
<1>2. /\ tab' \in Pages /\ tab'.case = tab.case /\ tab'.sub = None
  BY <1>1 DEF StreamResets, Rehydrate, Pages, Connections
<1>3. load' = Requested(load, tab'.case, TRUE, TRUE)
  BY <1>2 DEF StreamResets
<1>4. load' \in Passes /\ load' # None /\ Loaded' /\ PassOfPage' /\ PassReaches' /\ load'.reports
  BY <1>1, <1>2, <1>3, RequestKeeps
<1>5. WorkbenchTypeOK' /\ IsFiniteSet(applied)' /\ OneOwn' /\ Received'
  BY <1>1, <1>2, <1>4 DEF PageInv, WorkbenchTypeOK, OneOwn, Received
<1>6. StreamOfPage' /\ SilentOwned' /\ NotAhead' /\ ShowsOrTells'
  BY <1>2, <1>4 DEF StreamOfPage, SilentOwned, Silent, NotAhead, ShowsOrTells, Own
<1> QED BY <1>4, <1>5, <1>6 DEF PageInv

\* The live snapshot may move the page while it holds a stream, but only of that incident.
LEMMA LandingAnswersKeeps ==
    ASSUME PageInv, LandingAnswers
    PROVE  PageInv'
<1>1. tab \in Pages /\ landing /\ landing' = FALSE /\ UNCHANGED <<commits, applied, posts, astray>>
  BY DEF PageInv, WorkbenchTypeOK, LandingAnswers, server
<1>2. CASE \E c \in Cases :
            tab' = [tab EXCEPT !.case = c] /\ load' = Requested(load, c, TRUE, TRUE)
  <2>1. PICK c \in Cases :
            tab' = [tab EXCEPT !.case = c] /\ load' = Requested(load, c, TRUE, TRUE)
    BY <1>2
  <2>2. tab' \in Pages /\ tab'.case = c
    BY <1>1, <2>1 DEF Pages
  <2>3. load' \in Passes /\ load' # None /\ Loaded' /\ PassOfPage' /\ PassReaches' /\ load'.reports
    BY <1>1, <2>1, <2>2, RequestKeeps
  <2>4. WorkbenchTypeOK' /\ IsFiniteSet(applied)' /\ OneOwn' /\ Received'
    BY <1>1, <2>2, <2>3 DEF PageInv, WorkbenchTypeOK, OneOwn, Received
  <2>5. StreamOfPage' /\ SilentOwned' /\ ShowsOrTells'
    BY <1>1, <2>3 DEF StreamOfPage, SilentOwned, Silent, ShowsOrTells, Excused
  <2>6. NotAhead'
    <3>1. /\ tab'.active = tab.active /\ tab'.sub = tab.sub /\ tab'.last = tab.last
          /\ tab'.case = c
      BY <1>1, <2>1 DEF Pages
    <3>2. Own(tab') => Own(tab) /\ tab.case = c
      BY <1>1, <3>1 DEF PageInv, StreamOfPage, Own
    <3> QED BY <1>1, <3>1, <3>2 DEF PageInv, NotAhead
  <2> QED BY <2>3, <2>4, <2>5, <2>6 DEF PageInv
<1>3. CASE tab' = Fail([tab EXCEPT !.case = None]) /\ UNCHANGED load
  <2>1. tab' = [tab EXCEPT !.case = None, !.error = TRUE, !.connection = "degraded"]
    BY <1>1, <1>3 DEF Fail, Pages
  <2>2. tab' \in Pages /\ tab'.case = None /\ tab'.error /\ tab'.sub = tab.sub
    BY <1>1, <2>1 DEF Pages, Connections
  <2>3. ~Own(tab')
    BY <1>1, <2>2, WorkbenchAssumption DEF Own, Pages, Streams
  <2>4. WorkbenchTypeOK' /\ IsFiniteSet(applied)' /\ OneOwn' /\ Received' /\ Loaded'
    BY <1>1, <1>3, <2>2 DEF PageInv, WorkbenchTypeOK, OneOwn, Received, Loaded
  <2>5. PassOfPage' /\ StreamOfPage' /\ NotAhead' /\ PassReaches' /\ ShowsOrTells'
    BY <1>1, <2>2, <2>3 DEF StreamOfPage, PassOfPage, NotAhead, PassReaches, ShowsOrTells
  <2>6. SilentOwned'
    BY <1>1, <1>3, <2>2 DEF PageInv, SilentOwned, Silent
  <2> QED BY <2>4, <2>5, <2>6 DEF PageInv
<1> QED BY <1>2, <1>3 DEF LandingAnswers

\* An event is known already, or the page learns of it and asks for it, or it gives
\* the stream up and asks.
LEMMA EventArrivesKeeps ==
    ASSUME PageInv, EventArrives
    PROVE  PageInv'
<1>1. /\ tab \in Pages /\ tab.sub # None /\ tab.sub \in Streams
      /\ tab.sub.at < commits[tab.sub.case] /\ commits[tab.sub.case] \in 1..MaxCommits
      /\ MaxCommits \in Nat /\ UNCHANGED <<commits, applied, posts, landing, astray>>
  BY WorkbenchAssumption
  DEF PageInv, WorkbenchTypeOK, EventArrives, Streaming, Pages, Streams, server
<1>2. PICK n : n = tab.sub.at + 1
  OBVIOUS
<1>3. n \in 1..MaxCommits /\ n <= commits[tab.sub.case] /\ tab.sub.at \in Nat
  BY <1>1, <1>2 DEF Streams
<1>4. PICK sub : sub = [tab.sub EXCEPT !.at = n]
  OBVIOUS
<1>5. sub \in Streams /\ sub.case = tab.sub.case /\ sub.at = n
  <2>1. n \in 0..MaxCommits
    BY <1>3
  <2> QED BY <1>1, <1>4, <2>1 DEF Streams
<1>6. PICK t : t = [tab EXCEPT !.sub.at = n, !.connection = "connected"]
  OBVIOUS
<1>7. t = [tab EXCEPT !.sub = sub, !.connection = "connected"]
  BY <1>1, <1>4, <1>6 DEF Pages
<1>8. /\ t \in Pages /\ t.active = tab.active /\ t.case = tab.case /\ t.shown = tab.shown
      /\ t.series = tab.series /\ t.last = tab.last /\ t.error = tab.error
      /\ t.pending = tab.pending /\ t.sub = sub
  BY <1>1, <1>5, <1>7 DEF Pages, Connections
<1>9. tab.last \in Nat
  BY <1>1, <1>3 DEF Pages
<1>10. CASE n <= tab.last /\ tab' = t /\ UNCHANGED load
  <2>1. Own(tab') => Own(tab)
    BY <1>1, <1>5, <1>8, <1>10 DEF Own
  <2>2. /\ WorkbenchTypeOK' /\ IsFiniteSet(applied)' /\ OneOwn' /\ Received' /\ Loaded'
        /\ PassOfPage' /\ StreamOfPage' /\ SilentOwned'
    BY <1>1, <1>5, <1>8, <1>10
    DEF PageInv, WorkbenchTypeOK, OneOwn, Received, Loaded, PassOfPage, StreamOfPage, SilentOwned, Silent
  <2>3. NotAhead'
    <3>1. SUFFICES ASSUME Own(tab), ~astray, Own(tab')
                   PROVE  tab'.last <= commits[tab'.case] /\ tab'.sub.at <= commits[tab'.case]
      BY <1>1, <2>1 DEF NotAhead
    <3> QED BY <1>3, <1>5, <1>8, <1>10, <3>1 DEF PageInv, NotAhead, Own
  <2>4. PassReaches'
    <3>1. load # None => load.projection \in Nat
      BY <1>1 DEF PageInv, WorkbenchTypeOK, Passes
    <3>2. SUFFICES ASSUME Own(tab), ~astray, load # None, ~load.trailing, load.projection # 0
                   PROVE  tab.last <= load.projection /\ n <= load.projection
      BY <1>1, <1>5, <1>8, <1>10, <2>1 DEF PassReaches
    <3>3. tab.last <= load.projection
      BY <3>2 DEF PageInv, PassReaches
    <3> QED BY <1>3, <1>9, <1>10, <3>1, <3>2, <3>3
  <2>5. ShowsOrTells'
    <3>1. Own(tab) /\ ~astray /\ ~Excused => UpToDate(tab)
      BY DEF PageInv, ShowsOrTells
    <3>2. Excused' <=> Excused
      BY <1>1, <1>8, <1>10 DEF Excused
    <3>3. UpToDate(tab) => UpToDate(tab')
      BY <1>5, <1>8, <1>10 DEF UpToDate
    <3> QED BY <1>1, <2>1, <3>1, <3>2, <3>3 DEF ShowsOrTells
  <2> QED BY <2>2, <2>3, <2>4, <2>5 DEF PageInv
<1>11. CASE /\ n = tab.last + 1 /\ tab' = [t EXCEPT !.last = n]
            /\ load' = Requested(load, tab.case, FALSE, TRUE)
  <2>1. /\ tab' \in Pages /\ tab'.active = tab.active /\ tab'.case = tab.case
        /\ tab'.sub = sub /\ tab'.last = n /\ tab'.pending = tab.pending
    <3>1. n \in 0..MaxCommits
      BY <1>3
    <3> QED BY <1>8, <1>11, <3>1 DEF Pages
  <2>2. load' \in Passes /\ load' # None /\ Loaded' /\ PassOfPage' /\ PassReaches' /\ load'.reports
    <3>1. load' = Requested(load, tab'.case, FALSE, TRUE)
      BY <1>11, <2>1
    <3> QED BY <1>1, <2>1, <3>1, RequestKeeps
  <2>3. WorkbenchTypeOK' /\ IsFiniteSet(applied)' /\ OneOwn' /\ Received' /\ StreamOfPage'
    BY <1>1, <1>5, <2>1, <2>2 DEF PageInv, WorkbenchTypeOK, OneOwn, Received, StreamOfPage
  <2>4. SilentOwned' /\ ShowsOrTells'
    BY <2>2 DEF SilentOwned, Silent, ShowsOrTells, Excused
  <2>5. NotAhead'
    BY <1>1, <1>3, <1>5, <2>1 DEF NotAhead, Own
  <2> QED BY <2>2, <2>3, <2>4, <2>5 DEF PageInv
<1>12. CASE tab' = Rehydrate(t) /\ load' = Requested(load, tab.case, TRUE, TRUE)
  <2>1. /\ tab' \in Pages /\ tab'.case = tab.case /\ tab'.sub = None
    BY <1>8, <1>12 DEF Rehydrate, Pages, Connections
  <2>2. load' \in Passes /\ load' # None /\ Loaded' /\ PassOfPage' /\ PassReaches' /\ load'.reports
    <3>1. load' = Requested(load, tab'.case, TRUE, TRUE)
      BY <1>12, <2>1
    <3> QED BY <1>1, <2>1, <3>1, RequestKeeps
  <2>3. WorkbenchTypeOK' /\ IsFiniteSet(applied)' /\ OneOwn' /\ Received' /\ StreamOfPage'
    BY <1>1, <2>1, <2>2 DEF PageInv, WorkbenchTypeOK, OneOwn, Received, StreamOfPage
  <2>4. SilentOwned' /\ NotAhead' /\ ShowsOrTells'
    BY <2>1, <2>2 DEF SilentOwned, Silent, NotAhead, ShowsOrTells, Own
  <2> QED BY <2>2, <2>3, <2>4 DEF PageInv
<1> QED BY <1>2, <1>6, <1>10, <1>11, <1>12 DEF EventArrives

-----------------------------------------------------------------------------
(* The user and the clock.                                                 *)

\* Another incident, or the same one again: the page gives its stream up and asks.
LEMMA ActivateKeeps ==
    ASSUME PageInv, NEW target \in Cases \cup {None}, NEW t \in Pages, Activate(target, t)
    PROVE  PageInv'
<1>1. UNCHANGED <<commits, applied, posts, astray>> /\ landing' \in BOOLEAN
  BY DEF PageInv, WorkbenchTypeOK, Activate, server
<1>2. tab' \in Pages /\ tab'.case = target /\ tab'.sub = None
  <2>1. PICK next : next = [t EXCEPT !.active = TRUE, !.case = target, !.sub = None,
                                     !.connection = "connecting", !.error = FALSE, !.pending = FALSE]
    OBVIOUS
  <2>2. next \in Pages /\ next.case = target /\ next.sub = None
    BY <2>1 DEF Pages, Connections
  <2>3. 0 \in 0..MaxCommits
    BY WorkbenchAssumption
  <2>4. \/ tab' = next
        \/ tab' = [next EXCEPT !.shown = None, !.series = None, !.last = 0]
    BY <2>1 DEF Activate
  <2>5. CASE tab' = next
    BY <2>2, <2>5
  <2>6. CASE tab' = [next EXCEPT !.shown = None, !.series = None, !.last = 0]
    BY <2>2, <2>3, <2>6 DEF Pages
  <2> QED BY <2>4, <2>5, <2>6
<1>3. OneOwn' /\ Received' /\ StreamOfPage' /\ NotAhead' /\ ShowsOrTells'
  BY <1>1, <1>2 DEF PageInv, OneOwn, Received, StreamOfPage, NotAhead, ShowsOrTells, Own
<1>4. CASE target = None /\ UNCHANGED load
  <2>1. WorkbenchTypeOK' /\ IsFiniteSet(applied)' /\ Loaded'
    BY <1>1, <1>2, <1>4 DEF PageInv, WorkbenchTypeOK, Loaded
  <2>2. PassOfPage' /\ PassReaches' /\ SilentOwned'
    BY <1>1, <1>2, <1>4 DEF PageInv, PassOfPage, PassReaches, Own, SilentOwned, Silent
  <2> QED BY <1>3, <2>1, <2>2 DEF PageInv
<1>5. CASE load' = Requested(load, target, TRUE, TRUE)
  <2>1. load' = Requested(load, tab'.case, TRUE, TRUE)
    BY <1>2, <1>5
  <2>2. load' \in Passes /\ load' # None /\ Loaded' /\ PassOfPage' /\ PassReaches' /\ load'.reports
    BY <1>1, <1>2, <2>1, RequestKeeps
  <2>3. WorkbenchTypeOK' /\ IsFiniteSet(applied)' /\ SilentOwned'
    BY <1>1, <1>2, <2>2 DEF PageInv, WorkbenchTypeOK, SilentOwned, Silent
  <2> QED BY <1>3, <2>2, <2>3 DEF PageInv
<1> QED BY <1>4, <1>5 DEF Activate

\* The three ways to open an incident.
LEMMA OpeningKeeps ==
    ASSUME PageInv, Enter \/ Retry \/ \E c \in Cases : Open(c)
    PROVE  PageInv'
<1>1. tab \in Pages
  BY DEF PageInv, WorkbenchTypeOK
<1>2. CASE Enter
  <2>1. PICK t, target : t = tab /\ target = IF tab.url # None THEN tab.url ELSE tab.pinned
    OBVIOUS
  <2>2. t \in Pages /\ target \in Cases \cup {None} /\ Activate(target, t)
    BY <1>1, <1>2, <2>1 DEF Enter, Pages
  <2> QED BY <2>2, ActivateKeeps
<1>3. CASE Retry
  <2>1. PICK t, target : t = tab /\ target = IF tab.case # None THEN tab.case ELSE tab.url
    OBVIOUS
  <2>2. t \in Pages /\ target \in Cases \cup {None} /\ Activate(target, t)
    BY <1>1, <1>3, <2>1 DEF Retry, Pages
  <2> QED BY <2>2, ActivateKeeps
<1>4. CASE \E c \in Cases : Open(c)
  <2>1. PICK c \in Cases : Activate(c, [tab EXCEPT !.pinned = c])
    BY <1>4 DEF Open
  <2>2. PICK t : t = [tab EXCEPT !.pinned = c]
    OBVIOUS
  <2>3. t \in Pages /\ c \in Cases \cup {None}
    BY <1>1, <2>2 DEF Pages
  <2> QED BY <2>1, <2>2, <2>3, ActivateKeeps
<1> QED BY <1>2, <1>3, <1>4

\* What becomes of the commands that are made obsolete.
LEMMA ObsoleteIs ==
    ASSUME PageInv
    PROVE  \A r \in Obsolete(posts) :
              /\ r \in Commands /\ ~r.own
              /\ r.n <= commits[r.case] /\ (r.state = "accepted" => r.n # 0)
<1>1. posts \subseteq Commands
  BY DEF PageInv, WorkbenchTypeOK
<1>2. TAKE r \in Obsolete(posts)
<1>3. PICK p \in posts : r = [p EXCEPT !.own = FALSE]
  BY <1>2 DEF Obsolete
<1>4. p \in Commands
  BY <1>1
<1>5. r \in Commands /\ ~r.own /\ r.n = p.n /\ r.case = p.case /\ r.state = p.state
  BY <1>3, <1>4 DEF Commands
<1> QED BY <1>5 DEF PageInv, Received

\* A command is only sent while no other holds the page: the loop goes round again
\* for none that is given up here.
LEMMA ClickKeeps ==
    ASSUME PageInv, Click
    PROVE  PageInv'
<1>1. /\ tab \in Pages /\ tab.shown \in Versions /\ tab.case \in Cases /\ ~tab.pending
      /\ commits[tab.case] \in Nat
  BY WorkbenchAssumption DEF PageInv, WorkbenchTypeOK, Click, Pages
<1>2. UNCHANGED <<commits, applied, load, landing, astray>>
  BY DEF Click, server
<1>3. PICK q : q = [case |-> tab.case, seen |-> tab.shown, own |-> TRUE, state |-> "sent", n |-> 0]
  OBVIOUS
<1>4. q \in Commands /\ q.own /\ q.state = "sent" /\ q.case = tab.case /\ q.n = 0
  <2>1. 0 \in 0..MaxCommits
    BY WorkbenchAssumption
  <2> QED BY <1>1, <1>3, <2>1 DEF Commands
<1>5. posts' = Obsolete(posts) \cup {q}
  BY <1>3 DEF Click
<1>6. /\ tab' \in Pages /\ tab'.active = tab.active /\ tab'.case = tab.case /\ tab'.sub = tab.sub
      /\ tab'.last = tab.last /\ tab'.pending
  BY <1>1 DEF Click, Pages
<1>7. /\ posts' \subseteq Commands /\ OneOwn' /\ Received'
  <2>1. \A a \in applied : a.n <= commits'[a.case]
    BY <1>2 DEF PageInv, Received
  <2>2. q.n <= commits[q.case] /\ q.state # "accepted"
    BY <1>1, <1>4
  <2> QED BY <1>2, <1>4, <1>5, <2>1, <2>2, ObsoleteIs DEF OneOwn, Received
<1>8. WorkbenchTypeOK' /\ IsFiniteSet(applied)' /\ Loaded'
  BY <1>2, <1>6, <1>7 DEF PageInv, WorkbenchTypeOK, Loaded
<1>9. PassOfPage' /\ StreamOfPage' /\ NotAhead' /\ PassReaches'
  BY <1>2, <1>6 DEF PageInv, PassOfPage, StreamOfPage, NotAhead, PassReaches, Own
<1>10. ShowsOrTells'
  BY <1>4, <1>5 DEF ShowsOrTells, Excused
<1>11. SilentOwned'
  <2>1. Silent /\ ~astray => ~load.trailing
    BY <1>1, WorkbenchAssumption DEF PageInv, SilentOwned
  <2> QED BY <1>2, <1>6, <2>1 DEF SilentOwned, Silent
<1> QED BY <1>7, <1>8, <1>9, <1>10, <1>11 DEF PageInv

\* A receipt that is given up while it is read is what astray records.
LEMMA TimeoutKeeps ==
    ASSUME PageInv, Timeout
    PROVE  PageInv'
<1>1. tab \in Pages /\ UNCHANGED <<commits, applied, load, landing>> /\ posts' = Obsolete(posts)
  BY DEF PageInv, WorkbenchTypeOK, Timeout, server
<1>2. /\ astray' \in BOOLEAN
      /\ ~astray' => ~astray /\ \A p \in posts : p.own => p.state = "sent"
  BY DEF PageInv, WorkbenchTypeOK, Timeout
<1>3. tab' = [tab EXCEPT !.pending = FALSE, !.error = TRUE, !.connection = "degraded"]
  BY <1>1 DEF Timeout, Fail, Pages
<1>4. /\ tab' \in Pages /\ tab'.active = tab.active /\ tab'.case = tab.case /\ tab'.sub = tab.sub
      /\ tab'.last = tab.last /\ tab'.error
  BY <1>1, <1>3 DEF Pages, Connections
<1>5. posts' \subseteq Commands /\ OneOwn' /\ Received'
  <2>1. \A a \in applied : a.n <= commits'[a.case]
    BY <1>1 DEF PageInv, Received
  <2> QED BY <1>1, <2>1, ObsoleteIs DEF OneOwn, Received
<1>6. WorkbenchTypeOK' /\ IsFiniteSet(applied)' /\ Loaded'
  BY <1>1, <1>2, <1>4, <1>5 DEF PageInv, WorkbenchTypeOK, Loaded
<1>7. PassOfPage' /\ StreamOfPage' /\ NotAhead' /\ PassReaches' /\ ShowsOrTells'
  BY <1>1, <1>2, <1>4
  DEF PageInv, PassOfPage, StreamOfPage, NotAhead, PassReaches, Own, ShowsOrTells, Excused
<1>8. SilentOwned'
  <2>1. ~astray' /\ Silent => ~load.trailing
    BY <1>2 DEF PageInv, SilentOwned
  <2> QED BY <1>1, <2>1, ObsoleteIs DEF SilentOwned, Silent
<1> QED BY <1>5, <1>6, <1>7, <1>8 DEF PageInv

-----------------------------------------------------------------------------
(* What comes back.                                                        *)

\* A receipt, or the need for one, asks for a pass without a report: the command
\* itself waits for it.
LEMMA WaitsKeeps ==
    ASSUME PageInv, NEW p \in posts, p.own, p.state \notin Waiting,
           NEW state \in Waiting, Become(p, [p EXCEPT !.state = state]),
           UNCHANGED <<commits, applied, landing>>, astray' \in BOOLEAN, ~astray' => ~astray,
           tab' \in Pages, tab'.active = tab.active, tab'.case = tab.case,
           tab'.sub = tab.sub, tab'.pending = tab.pending,
           load' = Requested(load, tab.case, FALSE, FALSE),
           NotAhead'
    PROVE  PageInv'
<1>1. posts \subseteq Commands /\ p \in Commands
  BY DEF PageInv, WorkbenchTypeOK
<1>2. PICK q : q = [p EXCEPT !.state = state]
  OBVIOUS
<1>3. q \in Commands /\ q.own /\ q.case = p.case /\ q.n = p.n /\ q.state = state
  BY <1>1, <1>2 DEF Commands
<1>4. posts' = (posts \ {p}) \cup {q} /\ OneOwn' /\ posts' \subseteq Commands
  <2>1. Become(p, q) /\ q.own = p.own
    BY <1>1, <1>2 DEF Commands
  <2>2. posts' \subseteq Commands /\ OneOwn'
    BY <1>3, <2>1, BecomeKeeps
  <2> QED BY <1>3, <2>1, <2>2 DEF Become
<1>5. Received'
  <2>1. q.state # "accepted"
    BY <1>3
  <2> QED BY <1>3, <1>4, <2>1 DEF PageInv, Received
<1>6. /\ load' \in Passes /\ load' # None /\ Loaded' /\ PassOfPage' /\ PassReaches'
      /\ load'.reports = (load # None /\ load.reports)
      /\ load # None => load'.trailing
      /\ load = None => ~load'.trailing
  <2>1. load' = Requested(load, tab'.case, FALSE, FALSE)
    OBVIOUS
  <2> QED BY <2>1, RequestKeeps
<1>7. WorkbenchTypeOK' /\ IsFiniteSet(applied)' /\ StreamOfPage'
  BY <1>4, <1>6 DEF PageInv, WorkbenchTypeOK, StreamOfPage
<1>8. ShowsOrTells'
  BY <1>3, <1>4 DEF ShowsOrTells, Excused
<1>9. SilentOwned'
  <2>1. \A r \in posts' : r.own => r = q
    BY <1>3, <1>4 DEF OneOwn
  <2>2. load # None /\ ~load.reports /\ ~astray => tab.pending \/ tab.case = None
    BY DEF PageInv, SilentOwned, Silent
  <2>3. q \in posts' /\ q.own /\ q.state \in Waiting
    BY <1>3, <1>4
  <2> QED BY <1>6, <2>1, <2>2, <2>3 DEF SilentOwned, Silent
<1> QED BY <1>4, <1>5, <1>6, <1>7, <1>8, <1>9 DEF PageInv

\* An answer to a command: a receipt, the need for another read, or a refusal.
LEMMA PostAnsweredKeeps ==
    ASSUME PageInv, NEW p \in posts, PostAnswered(p)
    PROVE  PageInv'
<1>1. /\ tab \in Pages /\ p \in Commands /\ p.own /\ UNCHANGED <<commits, applied, landing>>
      /\ astray' \in BOOLEAN
      /\ ~astray' => ~astray
      /\ ~astray' /\ p.state = "accepted" => p.case = tab.case
  <2>1. astray' = (astray \/ (p.state = "accepted" /\ p.case # tab.case))
    BY DEF PostAnswered
  <2>2. tab \in Pages /\ p \in Commands /\ p.own /\ UNCHANGED <<commits, applied, landing>>
    BY DEF PageInv, WorkbenchTypeOK, PostAnswered, server
  <2>3. astray \in BOOLEAN
    BY DEF PageInv, WorkbenchTypeOK
  <2> QED BY <2>1, <2>2, <2>3
<1>2. CASE /\ p.state = "accepted"
           /\ tab' = [tab EXCEPT !.shown = Version(p.case, p.n), !.last = p.n,
                                 !.connection = "connected", !.error = FALSE]
           /\ load' = Requested(load, tab.case, FALSE, FALSE)
           /\ Become(p, [p EXCEPT !.state = "reading"])
  <2>1. p.n \in 1..MaxCommits /\ p.n <= commits[p.case] /\ p.case \in Cases
    BY <1>1, <1>2, WorkbenchAssumption DEF PageInv, Received, Commands
  <2>2. Version(p.case, p.n) \in Versions /\ p.n \in 0..MaxCommits
    BY <2>1, WorkbenchAssumption DEF Version, Versions
  <2>3. /\ tab' \in Pages /\ tab'.active = tab.active /\ tab'.case = tab.case
        /\ tab'.sub = tab.sub /\ tab'.pending = tab.pending /\ tab'.last = p.n
    BY <1>1, <1>2, <2>2 DEF Pages, Connections
  <2>4. NotAhead'
    <3>1. SUFFICES ASSUME Own(tab), ~astray'
                   PROVE  p.n <= commits[tab.case] /\ tab.sub.at <= commits[tab.case]
      BY <1>1, <2>3 DEF NotAhead, Own
    <3>2. p.case = tab.case /\ ~astray
      BY <1>1, <1>2, <3>1
    <3> QED BY <2>1, <3>1, <3>2 DEF PageInv, NotAhead
  <2>5. "reading" \in Waiting /\ p.state \notin Waiting
    BY <1>2
  <2> QED BY <1>1, <1>2, <2>3, <2>4, <2>5, WaitsKeeps
<1>3. CASE /\ p.state = "revalidate" /\ UNCHANGED tab
           /\ load' = Requested(load, tab.case, FALSE, FALSE)
           /\ Become(p, [p EXCEPT !.state = "rereading"])
  <2>1. NotAhead'
    BY <1>1, <1>3 DEF PageInv, NotAhead
  <2>2. "rereading" \in Waiting /\ p.state \notin Waiting /\ tab' \in Pages
    BY <1>1, <1>3
  <2> QED BY <1>1, <1>3, <2>1, <2>2, WaitsKeeps
<1>4. CASE /\ p.state = "refused" /\ tab' = Fail([tab EXCEPT !.pending = FALSE])
           /\ posts' = posts \ {p} /\ UNCHANGED load
  <2>1. UNCHANGED astray
    <3>1. astray' = (astray \/ (p.state = "accepted" /\ p.case # tab.case))
      BY DEF PostAnswered
    <3>2. astray \in BOOLEAN
      BY DEF PageInv, WorkbenchTypeOK
    <3> QED BY <1>4, <3>1, <3>2
  <2>2. p.state \notin Waiting
    BY <1>4
  <2> QED BY <1>1, <1>4, <2>1, <2>2, OwnFailed
<1> QED BY <1>2, <1>3, <1>4 DEF PostAnswered

\* What ends with the loop: the commands that wait for it, and at most the hold on
\* the page and the report of an error.
LEMMA SettledIs ==
    ASSUME NEW t \in Pages, NEW u, u = Settled(t)
    PROVE  /\ u \in Pages /\ u.active = t.active /\ u.case = t.case /\ u.shown = t.shown
           /\ u.series = t.series /\ u.last = t.last /\ u.sub = t.sub /\ u.error = t.error
<1>1. u = t \/ u = [t EXCEPT !.pending = FALSE]
  BY DEF Settled
<1>2. CASE u = t
  BY <1>2
<1>3. CASE u = [t EXCEPT !.pending = FALSE]
  BY <1>3 DEF Pages
<1> QED BY <1>1, <1>2, <1>3

\* A failure is an error on the page, and a connection that is degraded.
LEMMA FailIs ==
    ASSUME NEW t \in Pages, NEW u, u = Fail(t)
    PROVE  /\ u \in Pages /\ u.active = t.active /\ u.case = t.case /\ u.shown = t.shown
           /\ u.series = t.series /\ u.last = t.last /\ u.sub = t.sub /\ u.error
<1>1. u = [t EXCEPT !.error = TRUE, !.connection = "degraded"]
  BY DEF Fail
<1> QED BY <1>1 DEF Pages, Connections

\* A loop that breaks says so to whoever asked with a report, or still waits.
LEMMA BreaksKeeps ==
    ASSUME PageInv, load # None, Breaks
    PROVE  PageInv'
<1>1. /\ tab \in Pages /\ load' = None /\ posts' = posts \ Settling
      /\ UNCHANGED <<commits, applied, landing, astray>>
  BY DEF PageInv, WorkbenchTypeOK, Breaks, server
<1>2. PICK t, old : /\ old = tab
                    /\ t = IF load.reports \/ \E p \in Settling : p.own \/ p.state = "rereading"
                           THEN Fail(old) ELSE old
  OBVIOUS
<1>3. /\ t \in Pages /\ t.active = tab.active /\ t.case = tab.case /\ t.shown = tab.shown
      /\ t.series = tab.series /\ t.last = tab.last /\ t.sub = tab.sub
      /\ t.error \/ (t.error = tab.error /\ ~load.reports /\ \A p \in Settling : ~p.own)
  <2>1. CASE t = Fail(old)
    <3>1. old \in Pages
      BY <1>1, <1>2
    <3>2. /\ t \in Pages /\ t.active = old.active /\ t.case = old.case /\ t.shown = old.shown
          /\ t.series = old.series /\ t.last = old.last /\ t.sub = old.sub /\ t.error
      BY <2>1, <3>1, FailIs
    <3> QED BY <1>2, <3>2
  <2>2. CASE t = tab /\ ~load.reports /\ \A p \in Settling : ~p.own
    BY <1>1, <2>2
  <2> QED BY <1>2, <2>1, <2>2
<1>4. PICK u : u = tab' /\ u = Settled(t)
  BY <1>2 DEF Breaks
<1>5. /\ tab' \in Pages /\ tab'.active = tab.active /\ tab'.case = tab.case
      /\ tab'.shown = tab.shown /\ tab'.series = tab.series /\ tab'.last = tab.last
      /\ tab'.sub = tab.sub
      /\ tab'.error \/ (tab'.error = tab.error /\ ~load.reports /\ \A p \in Settling : ~p.own)
  BY <1>3, <1>4, SettledIs
<1>6. /\ WorkbenchTypeOK' /\ IsFiniteSet(applied)' /\ OneOwn' /\ Received' /\ Loaded'
      /\ PassOfPage' /\ PassReaches' /\ SilentOwned' /\ StreamOfPage'
  BY <1>1, <1>5
  DEF PageInv, WorkbenchTypeOK, OneOwn, Received, Loaded, PassOfPage, PassReaches, SilentOwned,
      Silent, StreamOfPage
<1>7. NotAhead'
  BY <1>1, <1>5 DEF PageInv, NotAhead, Own
<1>8. ShowsOrTells'
  <2>1. ~Excused' => ~Excused
    BY <1>1, <1>5 DEF Excused
  <2>2. UpToDate(tab) => UpToDate(tab')
    BY <1>5 DEF UpToDate
  <2> QED BY <1>1, <1>5, <2>1, <2>2 DEF PageInv, ShowsOrTells, Own
<1> QED BY <1>6, <1>7, <1>8 DEF PageInv

\* What a pass has read when it arrives: an incident, and a series that reaches what
\* it read of it.
LEMMA PassArrives ==
    ASSUME PageInv, Answered, Coherent
    PROVE  /\ load \in Passes /\ load.case \in Cases
           /\ load.projection \in 1..MaxCommits /\ load.series \in 1..MaxCommits
           /\ load.series >= load.projection /\ load.projection <= commits[load.case]
<1>1. load \in Passes /\ load # None /\ load.projection > 0 /\ load.series > 0
  BY DEF PageInv, WorkbenchTypeOK, Answered
<1>2. load.projection \in 1..MaxCommits /\ load.series \in 1..MaxCommits
  BY <1>1, WorkbenchAssumption DEF Passes
<1>3. load.case # None
  BY <1>1 DEF PageInv, Loaded
<1> QED BY <1>1, <1>2, <1>3 DEF PageInv, Loaded, Coherent, Passes

\* What an arriving pass makes of the page: nothing, when the page was left or shows
\* another incident, else the page shows what was read.
LEMMA ShownIs ==
    ASSUME PageInv, Answered, Coherent, NEW s, s = Shown(tab)
    PROVE  /\ s \in Pages /\ s.active = tab.active /\ s.case = tab.case /\ s.sub = tab.sub
           /\ s.pending = tab.pending
           /\ \/ s = tab /\ (~tab.active \/ load.case # tab.case)
              \/ /\ load.case = tab.case /\ s.last = load.projection
                 /\ s.shown = Version(s.case, s.last)
                 /\ s.series # None /\ s.series.n >= s.last
<1>1. tab \in Pages
  BY DEF PageInv, WorkbenchTypeOK
<1>2. /\ load \in Passes /\ load.case \in Cases
      /\ load.projection \in 1..MaxCommits /\ load.series \in 1..MaxCommits
      /\ load.series >= load.projection
  BY PassArrives
<1>3. CASE ~tab.active \/ load.case # tab.case
  BY <1>1, <1>3 DEF Shown
<1>4. CASE tab.active /\ load.case = tab.case
  <2>1. PICK shown, series :
          /\ shown = Version(load.case, load.projection)
          /\ series = IF tab.series = None \/ load.series >= tab.series.n
                      THEN Version(load.case, load.series) ELSE tab.series
    OBVIOUS
  <2>2. shown \in Versions
    BY <1>2, <2>1 DEF Version, Versions
  <2>3. series \in Versions /\ series.n >= load.projection
    <3>1. CASE series = Version(load.case, load.series)
      BY <1>2, <3>1 DEF Version, Versions
    <3>2. CASE tab.series # None /\ ~(load.series >= tab.series.n) /\ series = tab.series
      <4>1. series \in Versions
        BY <1>1, <3>2 DEF Pages
      <4>2. series.n \in Nat
        BY <4>1, WorkbenchAssumption DEF Versions
      <4> QED BY <1>2, <3>2, <4>1, <4>2
    <3> QED BY <2>1, <3>1, <3>2
  <2>4. s = [tab EXCEPT !.shown = shown, !.series = series, !.last = load.projection,
                        !.connection = "connected", !.error = FALSE, !.url = load.case]
    BY <1>4, <2>1 DEF Shown
  <2>5. load.projection \in 0..MaxCommits
    BY <1>2, WorkbenchAssumption
  <2>6. /\ s \in Pages /\ s.active = tab.active /\ s.case = tab.case /\ s.sub = tab.sub
        /\ s.pending = tab.pending /\ s.last = load.projection /\ s.shown = shown
        /\ s.series = series
    <3>1. PICK r : r = [tab EXCEPT !.shown = shown, !.series = series, !.last = load.projection]
      OBVIOUS
    <3>2. shown \in Versions \cup {None} /\ series \in Versions \cup {None}
      BY <2>2, <2>3
    <3>3. /\ r \in Pages /\ r.active = tab.active /\ r.case = tab.case /\ r.sub = tab.sub
          /\ r.pending = tab.pending /\ r.last = load.projection /\ r.shown = shown
          /\ r.series = series
      BY <1>1, <2>5, <3>1, <3>2 DEF Pages
    <3>4. s = [r EXCEPT !.connection = "connected", !.error = FALSE, !.url = load.case]
      BY <1>1, <2>4, <3>1 DEF Pages
    <3>5. "connected" \in Connections /\ load.case \in Cases \cup {None}
      BY <1>2 DEF Connections
    <3> QED BY <3>3, <3>4, <3>5 DEF Pages
  <2>7. series # None
    BY <2>3, WorkbenchAssumption
  <2> QED BY <1>4, <2>1, <2>3, <2>6, <2>7
<1> QED BY <1>3, <1>4

\* What the end of the loop makes of a page: perhaps a new stream after the last
\* event known, and an error.
LEMMA EndsIs ==
    ASSUME NEW t \in Pages, NEW u, u = Ends(t)
    PROVE  /\ u \in Pages /\ u.active = t.active /\ u.case = t.case /\ u.shown = t.shown
           /\ u.series = t.series /\ u.last = t.last
           /\ u.error \/ u.error = t.error
           /\ u.sub = t.sub \/ (t.case # None /\ u.sub = Stream(t))
<1>1. PICK v : v = IF load.opens THEN Subscribe(t) ELSE t
  OBVIOUS
<1>2. /\ v \in Pages /\ v.active = t.active /\ v.case = t.case /\ v.shown = t.shown
      /\ v.series = t.series /\ v.last = t.last
      /\ v.error \/ v.error = t.error
      /\ v.sub = t.sub \/ (t.case # None /\ v.sub = Stream(t))
  <2>1. CASE v = t
    BY <2>1
  <2>2. CASE v = Fail(t)
    BY <2>2, FailIs
  <2>3. CASE t.case # None /\ v = [t EXCEPT !.sub = Stream(t)]
    <3>1. PICK stream : stream = Stream(t)
      OBVIOUS
    <3>2. stream \in Streams
      BY <2>3, <3>1 DEF Stream, Streams, Pages
    <3> QED BY <2>3, <3>1, <3>2 DEF Pages
  <2> QED BY <1>1, <2>1, <2>2, <2>3 DEF Subscribe
<1>3. PICK w : w = IF \E p \in Settling : p.state = "rereading" THEN Fail(v) ELSE v
  OBVIOUS
<1>4. /\ w \in Pages /\ w.active = v.active /\ w.case = v.case /\ w.shown = v.shown
      /\ w.series = v.series /\ w.last = v.last /\ w.sub = v.sub
      /\ w.error \/ w.error = v.error
  <2>1. CASE w = v
    BY <1>2, <2>1
  <2>2. CASE w = Fail(v)
    BY <1>2, <2>2, FailIs
  <2> QED BY <1>3, <2>1, <2>2
<1>5. u = Settled(w)
  BY <1>1, <1>3 DEF Ends
<1>6. /\ u \in Pages /\ u.active = w.active /\ u.case = w.case /\ u.shown = w.shown
      /\ u.series = w.series /\ u.last = w.last /\ u.sub = w.sub /\ u.error = w.error
  BY <1>4, <1>5, SettledIs
<1> QED BY <1>2, <1>4, <1>6

\* A pass that was asked to go round again shows what it read, and reads anew.
LEMMA ArrivesTrailing ==
    ASSUME PageInv, Arrive, load.trailing
    PROVE  PageInv'
<1>1. /\ Answered /\ Coherent /\ tab' = Shown(tab)
      /\ load' = [Requested(None, tab.case, load.opens, load.reports) EXCEPT !.reads = 1]
      /\ UNCHANGED <<commits, applied, posts, landing, astray>>
  BY DEF Arrive, server
<1>2. /\ load \in Passes /\ load.case \in Cases
      /\ load.projection \in 1..MaxCommits /\ load.projection <= commits[load.case]
  BY <1>1, PassArrives
<1>3. PICK s : s = Shown(tab) /\ s = tab'
  BY <1>1
<1>4. /\ s \in Pages /\ s.active = tab.active /\ s.case = tab.case /\ s.sub = tab.sub
      /\ s.pending = tab.pending
      /\ s = tab \/ (load.case = tab.case /\ s.last = load.projection)
  BY <1>1, <1>3, ShownIs
<1>5. /\ load' \in Passes /\ load'.case = tab.case /\ ~load'.trailing
      /\ load'.projection = 0 /\ load'.series = 0 /\ load'.reports = load.reports
  <2>1. load' = [case |-> tab.case, projection |-> 0, series |-> 0, reads |-> 1,
                 trailing |-> FALSE, opens |-> load.opens, reports |-> load.reports]
    BY <1>1 DEF Requested
  <2>2. /\ 0 \in 0..MaxCommits /\ 1 \in 1..MaxReads /\ tab.case \in Cases \cup {None}
        /\ load.opens \in BOOLEAN /\ load.reports \in BOOLEAN
    BY <1>2, <1>3, <1>4, WorkbenchAssumption DEF MaxReads, Passes, Pages
  <2> QED BY <2>1, <2>2 DEF Passes
<1>6. load' # None /\ load # None
  BY <1>2, <1>5, WorkbenchAssumption
<1>7. WorkbenchTypeOK' /\ IsFiniteSet(applied)' /\ OneOwn' /\ Received'
  BY <1>1, <1>3, <1>4, <1>5 DEF PageInv, WorkbenchTypeOK, OneOwn, Received
<1>8. Loaded'
  <2>1. \A c \in Cases : commits[c] \in Nat
    BY WorkbenchAssumption DEF PageInv, WorkbenchTypeOK
  <2>2. load'.case \in Cases \cup {None}
    BY <1>5 DEF Passes
  <2> QED BY <1>1, <1>5, <2>1, <2>2 DEF Loaded
<1>9. PassOfPage' /\ StreamOfPage' /\ PassReaches'
  BY <1>1, <1>3, <1>4, <1>5 DEF PageInv, PassOfPage, StreamOfPage, PassReaches
<1>10. SilentOwned'
  BY <1>1, <1>3, <1>4, <1>5, <1>6 DEF PageInv, SilentOwned, Silent
<1>11. NotAhead'
  BY <1>1, <1>2, <1>3, <1>4 DEF PageInv, NotAhead, Own
<1>12. ShowsOrTells'
  BY <1>1, <1>5, <1>6 DEF PageInv, ShowsOrTells, Excused, SilentOwned, Silent
<1> QED BY <1>7, <1>8, <1>9, <1>10, <1>11, <1>12 DEF PageInv

\* The last pass leaves the page up to date, or the page is not that incident's.
LEMMA ArrivesLast ==
    ASSUME PageInv, Arrive, ~load.trailing
    PROVE  PageInv'
<1>1. /\ Answered /\ Coherent /\ tab' = Ends(Shown(tab)) /\ load' = None
      /\ posts' = posts \ Settling
      /\ UNCHANGED <<commits, applied, landing, astray>>
  BY DEF Arrive, server
<1>2. /\ load \in Passes /\ load.case \in Cases
      /\ load.projection \in 1..MaxCommits /\ load.projection <= commits[load.case]
      /\ load # None
  BY <1>1, PassArrives DEF Answered
<1>3. PICK s, u : s = Shown(tab) /\ u = Ends(s) /\ u = tab'
  BY <1>1
<1>4. /\ s \in Pages /\ s.active = tab.active /\ s.case = tab.case /\ s.sub = tab.sub
      /\ \/ s = tab /\ (~tab.active \/ load.case # tab.case)
         \/ /\ load.case = tab.case /\ s.last = load.projection
            /\ s.shown = Version(s.case, s.last)
            /\ s.series # None /\ s.series.n >= s.last
  BY <1>1, <1>3, ShownIs
<1>5. /\ u \in Pages /\ u.active = s.active /\ u.case = s.case /\ u.shown = s.shown
      /\ u.series = s.series /\ u.last = s.last
      /\ u.error \/ u.error = s.error
      /\ u.sub = s.sub \/ (s.case # None /\ u.sub = Stream(s))
  BY <1>3, <1>4, EndsIs
<1>6. /\ WorkbenchTypeOK' /\ IsFiniteSet(applied)' /\ OneOwn' /\ Received' /\ Loaded'
      /\ PassOfPage' /\ PassReaches' /\ SilentOwned'
  BY <1>1, <1>3, <1>5
  DEF PageInv, WorkbenchTypeOK, OneOwn, Received, Loaded, PassOfPage, PassReaches, SilentOwned,
      Silent
<1>7. StreamOfPage'
  BY <1>1, <1>3, <1>4, <1>5 DEF PageInv, StreamOfPage, Stream
<1>8. ASSUME Own(tab'), ~astray
      PROVE  /\ load.case = tab'.case /\ tab'.last = load.projection
             /\ tab'.sub.at <= load.projection /\ UpToDate(tab')
  <2>1. tab.active /\ tab.case # None
    BY <1>3, <1>4, <1>5, <1>8, WorkbenchAssumption DEF Own, Pages, Streams
  <2>2. load.case = tab.case
    BY <1>2, <2>1 DEF PageInv, PassOfPage
  <2>3. u.sub.at <= load.projection
    <3>1. CASE u.sub = Stream(s)
      BY <1>2, <1>4, <2>1, <2>2, <3>1 DEF Stream
    <3>2. CASE u.sub = s.sub
      <4>1. Own(tab) /\ load.projection # 0
        BY <1>2, <1>3, <1>4, <1>5, <1>8, <3>2 DEF Own
      <4> QED BY <1>2, <1>4, <1>8, <3>2, <4>1 DEF PageInv, PassReaches
    <3> QED BY <1>5, <3>1, <3>2
  <2> QED BY <1>3, <1>4, <1>5, <2>1, <2>2, <2>3 DEF UpToDate
<1>9. NotAhead'
  <2>1. ASSUME Own(tab'), ~astray
        PROVE  tab'.last <= commits[tab'.case] /\ tab'.sub.at <= commits[tab'.case]
    <3>1. tab'.sub.at \in Nat /\ commits[load.case] \in Nat
      BY <1>2, <1>3, <1>5, <2>1, WorkbenchAssumption
      DEF PageInv, WorkbenchTypeOK, Pages, Streams, Own
    <3> QED BY <1>2, <1>8, <2>1, <3>1
  <2> QED BY <1>1, <2>1 DEF NotAhead
<1>10. ShowsOrTells'
  BY <1>1, <1>8 DEF ShowsOrTells
<1> QED BY <1>6, <1>7, <1>9, <1>10 DEF PageInv

-----------------------------------------------------------------------------
(* The theorems.                                                           *)

\* A page that was just loaded shows nothing.
LEMMA InitPage ==
    ASSUME Init
    PROVE  PageInv
<1>1. PICK address \in Cases \cup {None} : tab = Opened(address)
  BY DEF Init
<1>2. tab \in Pages /\ tab.sub = None
  <2>1. 0 \in 0..MaxCommits
    BY WorkbenchAssumption
  <2> QED BY <1>1, <2>1 DEF Opened, Pages, Connections
<1>3. WorkbenchTypeOK
  <2>1. 1 \in 1..MaxCommits
    BY WorkbenchAssumption
  <2> QED BY <1>2, <2>1 DEF Init, WorkbenchTypeOK
<1>4. IsFiniteSet(applied)
  BY FS_EmptySet DEF Init
<1>5. /\ OneOwn /\ Received /\ Loaded /\ PassOfPage /\ StreamOfPage /\ SilentOwned
      /\ NotAhead /\ PassReaches /\ ShowsOrTells
  BY <1>2
  DEF Init, OneOwn, Received, Loaded, PassOfPage, StreamOfPage, SilentOwned, Silent, NotAhead,
      PassReaches, ShowsOrTells, Own
<1> QED BY <1>3, <1>4, <1>5 DEF PageInv

\* Every step keeps the invariant.
LEMMA NextKeepsPage ==
    ASSUME PageInv, [Next]_vars
    PROVE  PageInv'
<1>1. CASE User
  BY <1>1, OpeningKeeps, LeaveKeeps, ClickKeeps DEF User
<1>2. CASE Server
  BY <1>2, CommitKeeps, AcceptKeeps, RefuseKeeps DEF Server
<1>3. CASE ReadProjection \/ ReadSeries \/ ReadAgain
  BY <1>3, ReadProjectionKeeps, ReadSeriesKeeps, ReadAgainKeeps
<1>4. CASE Arrive
  BY <1>4, ArrivesTrailing, ArrivesLast
<1>5. CASE Unstable
  BY <1>5, BreaksKeeps DEF Unstable
<1>6. CASE Following
  BY <1>6, StreamOpensKeeps, EventArrivesKeeps DEF Following
<1>7. CASE LandingAnswers
  BY <1>7, LandingAnswersKeeps
<1>8. CASE Timeout
  BY <1>8, TimeoutKeeps
<1>9. CASE Network
  <2>1. CASE ReadFails
    BY <2>1, BreaksKeeps DEF ReadFails
  <2>2. CASE LandingFails \/ StreamFails \/ StreamResets
    BY <2>2, LandingFailsKeeps, StreamFailsKeeps, StreamResetsKeeps
  <2>3. CASE \E p \in posts : PostFails(p)
    BY <2>3, PostFailsKeeps
  <2> QED BY <1>9, <2>1, <2>2, <2>3 DEF Network
<1>10. CASE \E p \in posts : PostAnswered(p)
  BY <1>10, PostAnsweredKeeps
<1>11. CASE UNCHANGED vars
  BY <1>11
  DEF vars, PageInv, WorkbenchTypeOK, OneOwn, Received, Loaded, PassOfPage, StreamOfPage,
      SilentOwned, Silent, NotAhead, PassReaches, ShowsOrTells, Excused, Own, UpToDate
<1> QED
  BY <1>1, <1>2, <1>3, <1>4, <1>5, <1>6, <1>7, <1>8, <1>9, <1>10, <1>11 DEF Next, Reading

\* Whatever order receipts, events, passes and changes of the incident come in, the
\* page knows nothing there was not, and shows what it knows unless it says so or
\* something is still to come.
THEOREM PageInvariant == Spec => []PageInv
<1>1. Init => PageInv
  BY InitPage
<1>2. PageInv /\ [Next]_vars => PageInv'
  BY NextKeepsPage
<1> QED BY <1>1, <1>2, PTL DEF Spec

\* The controller holds versions that were read, and reads no incident more than
\* three times in a pass.
THEOREM PagesTyped == Spec => []WorkbenchTypeOK
<1>1. PageInv => WorkbenchTypeOK
  BY DEF PageInv
<1> QED BY <1>1, PageInvariant, PTL

\* Once nothing is on its way, a page with a stream of its incident that reports no
\* error shows that incident as it is, with a series that reaches it.
THEOREM CurrentWhenAtRest == Spec => []CurrentAtRest
<1>1. ASSUME PageInv
      PROVE  CurrentAtRest
  <2>1. SUFFICES ASSUME tab.active, load = None, ~landing, ~tab.error,
                        ~(\E p \in posts : p.own), ~astray, Followed,
                        tab.sub.at = commits[tab.case]
                 PROVE  /\ tab.shown = Newest(tab.case) /\ tab.series # None
                        /\ tab.series.n >= tab.shown.n
    BY DEF CurrentAtRest
  <2>2. Own(tab) /\ ~Excused
    BY <2>1 DEF Own, Followed, Excused
  <2>3. UpToDate(tab) /\ tab.last <= commits[tab.case]
    BY <1>1, <2>1, <2>2 DEF PageInv, ShowsOrTells, NotAhead
  <2>4. tab.last \in Nat /\ commits[tab.case] \in Nat
    BY <1>1, <2>2, WorkbenchAssumption DEF PageInv, WorkbenchTypeOK, Pages, Streams, Own
  <2>5. tab.last = commits[tab.case]
    BY <2>1, <2>3, <2>4 DEF UpToDate
  <2> QED BY <2>3, <2>5 DEF UpToDate, Newest, Version
<1> QED BY <1>1, PageInvariant, PTL

-----------------------------------------------------------------------------
(* The live page.  Its inductive invariant.                                *)

\* What the log says of an incident up to a place in it.
Events == [case : Cases, n : 0..MaxEvents, resolved : BOOLEAN]
Counted(l, c, i) == Cardinality({k \in 1..i : l[k].case = c})
Ended(l, c, i) == \E k \in 1..i : l[k].case = c /\ l[k].resolved
ListedAt(l, i) == [c \in Cases |-> IF Ended(l, c, i) THEN 0 ELSE Counted(l, c, i)]

\* An event bears the number of its commit, and its incident was open before it.
LogInv ==
    /\ log \in Seq(Events) /\ Len(log) <= MaxEvents
    /\ \A i \in 1..Len(log) :
         log[i].n = Counted(log, log[i].case, i) /\ ~Ended(log, log[i].case, i - 1)

\* A snapshot is what was listed at its place in the log.
Faithful(s) == s # None => s.at <= Len(log) /\ s.incidents = ListedAt(log, s.at)

\* A page with a stream has a snapshot, and the stream is not ahead of it unless
\* there is still an event to tell.
StreamInv == page.sub # None =>
    /\ page.snapshot # None /\ page.sub.at <= Len(log)
    /\ page.sub.at <= page.snapshot.at \/ page.sub.at < Len(log)

HiddenInv == ~page.active => page.snapshot = None /\ page.shown = Nothing /\ page.sub = None

\* What is shown is of an incident that is listed, and was committed.
ShownInv == \A c \in Cases :
    /\ page.shown[c] <= Committed(c)
    /\ page.shown[c] # 0 => page.snapshot # None /\ page.snapshot.incidents[c] # 0

\* A graph that is older than the list says is being read or will be, or reading it failed.
Awaited(c) == \E r \in reads : r.case = c /\ r.latest
Due == page.snapshot # None => \A c \in Cases :
    page.shown[c] < page.snapshot.incidents[c] =>
       Awaited(c) \/ c \in loop.todo \/ (page.shown[c] = 0 /\ failures > 0)

\* An answer that counts is as new as the list says, or another one will follow.
AnswersInv == \A r \in reads :
    /\ r.n <= Committed(r.case)
    /\ r.latest /\ r.n # 0 /\ page.snapshot # None =>
          page.snapshot.incidents[r.case] <= r.n \/ r.case \in loop.todo

ListInv ==
    /\ LogInv /\ LiveTypeOK /\ IsFiniteSet(OfLoop(reads))
    /\ failures \in Nat /\ (loop.state # "graphs" => loop.todo = {})
    /\ Faithful(page.snapshot) /\ Faithful(loop.answer)
    /\ StreamInv /\ HiddenInv /\ ShownInv /\ Due /\ AnswersInv

-----------------------------------------------------------------------------
(* The log.                                                                *)

\* How many commits of an incident there are up to a place.
LEMMA CountedIs ==
    ASSUME NEW l, NEW c, NEW i \in Nat
    PROVE  /\ Counted(l, c, i) \in 0..i
           /\ IsFiniteSet({k \in 1..i : l[k].case = c})
<1>1. IsFiniteSet(1..i) /\ Cardinality(1..i) = i
  BY FS_Interval
<1>2. {k \in 1..i : l[k].case = c} \in SUBSET (1..i)
  OBVIOUS
<1>3. /\ IsFiniteSet({k \in 1..i : l[k].case = c})
      /\ Cardinality({k \in 1..i : l[k].case = c}) <= i
  BY <1>1, <1>2, FS_Subset
<1>4. Cardinality({k \in 1..i : l[k].case = c}) \in Nat
  BY <1>3, FS_CardinalityType
<1> QED BY <1>3, <1>4 DEF Counted

\* The next event is one commit of its incident more.
LEMMA CountGrows ==
    ASSUME NEW l, NEW c, NEW i \in Nat
    PROVE  /\ Counted(l, c, i + 1) = IF l[i + 1].case = c THEN Counted(l, c, i) + 1 ELSE Counted(l, c, i)
           /\ Ended(l, c, i + 1) <=> Ended(l, c, i) \/ (l[i + 1].case = c /\ l[i + 1].resolved)
<1> DEFINE S == {k \in 1..i : l[k].case = c}
<1>1. 1..(i + 1) = (1..i) \cup {i + 1} /\ i + 1 \notin 1..i
  OBVIOUS
<1>2. CASE l[i + 1].case = c
  <2>1. {k \in 1..(i + 1) : l[k].case = c} = S \cup {i + 1}
    BY <1>1, <1>2
  <2>2. i + 1 \notin S /\ IsFiniteSet(S)
    BY <1>1, CountedIs
  <2>3. Cardinality(S \cup {i + 1}) = Cardinality(S) + 1
    BY <2>2, FS_AddElement
  <2> QED BY <1>1, <1>2, <2>1, <2>3 DEF Counted, Ended
<1>3. CASE l[i + 1].case # c
  <2>1. {k \in 1..(i + 1) : l[k].case = c} = S
    BY <1>1, <1>3
  <2> QED BY <1>1, <1>3, <2>1 DEF Counted, Ended
<1> QED BY <1>2, <1>3

\* What was counted at an earlier place is not more.
LEMMA CountMonotone ==
    ASSUME NEW l, NEW c, NEW i \in Nat, NEW j \in Nat, i <= j
    PROVE  Counted(l, c, i) <= Counted(l, c, j)
<1>1. {k \in 1..i : l[k].case = c} \in SUBSET {k \in 1..j : l[k].case = c}
  OBVIOUS
<1>2. IsFiniteSet({k \in 1..j : l[k].case = c})
  BY CountedIs
<1> QED BY <1>1, <1>2, FS_Subset DEF Counted

\* A commit changes nothing at the places before it.
LEMMA EarlierKept ==
    ASSUME NEW l \in Seq(Events), NEW e, NEW i \in Nat, i <= Len(l)
    PROVE  /\ \A c : Counted(Append(l, e), c, i) = Counted(l, c, i)
           /\ \A c : Ended(Append(l, e), c, i) <=> Ended(l, c, i)
           /\ ListedAt(Append(l, e), i) = ListedAt(l, i)
<1>1. \A k \in 1..i : Append(l, e)[k] = l[k]
  OBVIOUS
<1>2. \A c : {k \in 1..i : Append(l, e)[k].case = c} = {k \in 1..i : l[k].case = c}
  BY <1>1
<1>3. \A c : Counted(Append(l, e), c, i) = Counted(l, c, i)
  BY <1>2 DEF Counted
<1>4. \A c : Ended(Append(l, e), c, i) <=> Ended(l, c, i)
  BY <1>1 DEF Ended
<1> QED BY <1>3, <1>4 DEF ListedAt

\* The server lists what the whole log says.
LEMMA WholeLog ==
    ASSUME log \in Seq(Events)
    PROVE  /\ \A c : Committed(c) = Counted(log, c, Len(log))
           /\ \A c : IsResolved(c) <=> Ended(log, c, Len(log))
           /\ Listed = ListedAt(log, Len(log))
           /\ \A c : Committed(c) \in Nat
<1>1. DOMAIN log = 1..Len(log) /\ Len(log) \in Nat
  OBVIOUS
<1>2. \A c : Committed(c) = Counted(log, c, Len(log))
  BY <1>1 DEF Committed, Counted
<1>3. \A c : IsResolved(c) <=> Ended(log, c, Len(log))
  BY <1>1 DEF IsResolved, Ended
<1>4. \A c : Committed(c) \in Nat
  <2> TAKE c
  <2>1. Counted(log, c, Len(log)) \in 0..Len(log)
    BY <1>1, CountedIs
  <2> QED BY <1>1, <1>2, <2>1
<1> QED BY <1>2, <1>3, <1>4 DEF Listed, ListedAt

\* What is listed at a place of the log.
LEMMA ListedIs ==
    ASSUME LogInv, NEW i \in Nat, i <= Len(log)
    PROVE  /\ ListedAt(log, i) \in Counts
           /\ \A c \in Cases : ListedAt(log, i)[c] <= Committed(c)
<1>0. log \in Seq(Events) /\ Len(log) \in Nat /\ MaxEvents \in Nat /\ Len(log) <= MaxEvents
  BY LiveListAssumption DEF LogInv
<1>1. ASSUME NEW c \in Cases
      PROVE  ListedAt(log, i)[c] \in 0..MaxEvents /\ ListedAt(log, i)[c] <= Committed(c)
  <2>1. Counted(log, c, i) \in 0..i
    BY CountedIs
  <2>2. Counted(log, c, i) <= Counted(log, c, Len(log))
    BY <1>0, CountMonotone
  <2>3. Committed(c) = Counted(log, c, Len(log)) /\ Committed(c) \in Nat
    BY <1>0, WholeLog
  <2> QED BY <1>0, <2>1, <2>2, <2>3 DEF ListedAt
<1> QED BY <1>1 DEF ListedAt, Counts

\* No more incidents are listed than there are events.
LEMMA ListedFinite ==
    ASSUME NEW l, NEW i \in Nat
    PROVE  IsFiniteSet({c \in Cases : ListedAt(l, i)[c] # 0})
<1> DEFINE T == {l[k].case : k \in 1..i}
           f == [k \in 1..i |-> l[k].case]
<1>1. f \in Surjection(1..i, T)
  BY DEF Surjection
<1>2. IsFiniteSet(T)
  <2> HIDE DEF f, T
  <2> QED BY <1>1, FS_Interval, FS_Surjection
<1>3. ASSUME NEW c \in Cases, ListedAt(l, i)[c] # 0
      PROVE  c \in T
  <2>1. Counted(l, c, i) # 0
    BY <1>3 DEF ListedAt
  <2>2. {k \in 1..i : l[k].case = c} # {}
    BY <2>1, FS_EmptySet DEF Counted
  <2> QED BY <2>2
<1>4. {c \in Cases : ListedAt(l, i)[c] # 0} \in SUBSET T
  BY <1>3
<1> QED BY <1>2, <1>4, FS_Subset

\* What an event changes in the list.
LEMMA ListedNext ==
    ASSUME LogInv, NEW i \in Nat, i + 1 <= Len(log), NEW e, e = log[i + 1]
    PROVE  /\ e \in Events /\ e.case \in Cases /\ e.n \in 1..MaxEvents
           /\ ListedAt(log, i + 1) =
                [ListedAt(log, i) EXCEPT ![e.case] = IF e.resolved THEN 0 ELSE e.n]
<1>0. log \in Seq(Events) /\ Len(log) \in Nat /\ i + 1 \in 1..Len(log) /\ (i + 1) - 1 = i
  BY DEF LogInv
<1>1. e \in Events /\ e.case \in Cases
  <2>1. e \in Events
    BY <1>0
  <2> QED BY <2>1 DEF Events
<1>2. e.n = Counted(log, e.case, i + 1) /\ ~Ended(log, e.case, i)
  BY <1>0 DEF LogInv
<1>3. Counted(log, e.case, i + 1) = Counted(log, e.case, i) + 1
  BY CountGrows
<1>4. Counted(log, e.case, i) \in Nat
  <2>1. Counted(log, e.case, i) \in 0..i
    BY CountedIs
  <2> QED BY <2>1
<1>5. e.n \in 1..MaxEvents
  BY <1>1, <1>2, <1>3, <1>4 DEF Events
<1>6. ASSUME NEW c \in Cases
      PROVE  ListedAt(log, i + 1)[c] =
               IF c = e.case THEN (IF e.resolved THEN 0 ELSE e.n) ELSE ListedAt(log, i)[c]
  <2>1. /\ Counted(log, c, i + 1) = IF e.case = c THEN Counted(log, c, i) + 1 ELSE Counted(log, c, i)
        /\ Ended(log, c, i + 1) <=> Ended(log, c, i) \/ (e.case = c /\ e.resolved)
    BY CountGrows
  <2> QED BY <1>2, <2>1 DEF ListedAt
<1>7. ListedAt(log, i + 1) = [ListedAt(log, i) EXCEPT ![e.case] = IF e.resolved THEN 0 ELSE e.n]
  BY <1>1, <1>6 DEF ListedAt
<1> QED BY <1>1, <1>5, <1>7

-----------------------------------------------------------------------------
(* The pieces of the adapter.                                              *)

\* A pass that is asked for again has nothing more to read than before.
LEMMA HydratedIs ==
    ASSUME NEW l \in Loops
    PROVE  /\ Hydrated(l) \in Loops
           /\ Hydrated(l).answer = l.answer /\ Hydrated(l).todo = l.todo
           /\ Hydrated(l).state = "graphs" <=> l.state = "graphs"
<1>1. CASE l.state = "idle"
  <2>1. Hydrated(l) = [state |-> "snapshot", answer |-> l.answer, todo |-> l.todo, again |-> l.again]
    BY <1>1 DEF Hydrated, Loops
  <2> QED BY <1>1, <2>1 DEF Loops
<1>2. CASE l.state # "idle"
  <2>1. Hydrated(l) = [state |-> l.state, answer |-> l.answer, todo |-> l.todo, again |-> TRUE]
    BY <1>2 DEF Hydrated, Loops
  <2> QED BY <1>2, <2>1 DEF Loops
<1> QED BY <1>1, <1>2

\* The end of a pass leaves nothing to read.
LEMMA PassEndsIs ==
    ASSUME NEW l \in Loops, NEW active \in BOOLEAN
    PROVE  /\ PassEnds(l, active) \in Loops
           /\ PassEnds(l, active).answer = None /\ PassEnds(l, active).todo = {}
           /\ PassEnds(l, active).state # "graphs"
<1>0. /\ {} \in SUBSET Cases /\ None \in Snapshots \cup {None}
      /\ {"idle", "snapshot"} \subseteq {"idle", "snapshot", "graphs"}
  OBVIOUS
<1>1. Idle \in Loops /\ Idle.answer = None /\ Idle.todo = {} /\ Idle.state # "graphs"
  BY <1>0 DEF Idle, Loops
<1>2. [Idle EXCEPT !.state = "snapshot"] = [state |-> "snapshot", answer |-> None, todo |-> {}, again |-> FALSE]
  <2>1. Idle.again = FALSE
    BY DEF Idle
  <2>2. PICK idle \in Loops : idle = Idle
    BY <1>1
  <2>3. [idle EXCEPT !.state = "snapshot"] =
          [state |-> "snapshot", answer |-> idle.answer, todo |-> idle.todo, again |-> idle.again]
    BY DEF Loops
  <2>4. idle.answer = None /\ idle.todo = {} /\ idle.again = FALSE
    BY <1>1, <2>1, <2>2
  <2> QED BY <2>2, <2>3, <2>4
<1>3. [state |-> "snapshot", answer |-> None, todo |-> {}, again |-> FALSE] \in Loops
  BY <1>0 DEF Loops
<1> QED BY <1>1, <1>2, <1>3 DEF PassEnds

\* What is invalidated stays in flight if it is the loop's, but no longer counts.
LEMMA InvalidatedIs ==
    ASSUME NEW rs \in SUBSET Reads, NEW cs
    PROVE  /\ Invalidated(rs, cs) \in SUBSET Reads
           /\ \A q \in Invalidated(rs, cs) :
                \E r \in rs : /\ q.case = r.case /\ q.n = r.n
                              /\ q.latest => q = r /\ r.case \notin cs
           /\ \A r \in rs : r.case \notin cs => r \in Invalidated(rs, cs)
<1>1. ASSUME NEW r \in rs, r.owner = "loop"
      PROVE  /\ [r EXCEPT !.latest = FALSE] \in Reads
             /\ [r EXCEPT !.latest = FALSE].case = r.case /\ [r EXCEPT !.latest = FALSE].n = r.n
             /\ ~[r EXCEPT !.latest = FALSE].latest
  BY DEF Reads
<1>2. ASSUME NEW q \in Invalidated(rs, cs)
      PROVE  /\ q \in Reads
             /\ \E r \in rs : /\ q.case = r.case /\ q.n = r.n
                              /\ q.latest => q = r /\ r.case \notin cs
  <2>1. CASE q \in {r \in rs : r.case \notin cs}
    BY <2>1
  <2>2. CASE q \notin {r \in rs : r.case \notin cs}
    <3>1. PICK r \in rs : r.owner = "loop" /\ q = [r EXCEPT !.latest = FALSE]
      BY <2>2 DEF Invalidated
    <3> QED BY <1>1, <3>1
  <2> QED BY <2>1, <2>2
<1>3. \A r \in rs : r.case \notin cs => r \in Invalidated(rs, cs)
  BY DEF Invalidated
<1> QED BY <1>2, <1>3

\* It occupies as many workers as before, or fewer.
LEMMA InvalidatedOfLoop ==
    ASSUME NEW rs \in SUBSET Reads, NEW cs, IsFiniteSet(OfLoop(rs))
    PROVE  /\ IsFiniteSet(OfLoop(Invalidated(rs, cs)))
           /\ Cardinality(OfLoop(Invalidated(rs, cs))) <= Cardinality(OfLoop(rs))
           /\ OfLoop(Invalidated(rs, cs)) = {} <=> OfLoop(rs) = {}
<1> DEFINE S == OfLoop(rs)
           T == OfLoop(Invalidated(rs, cs))
           f == [r \in S |-> IF r.case \in cs THEN [r EXCEPT !.latest = FALSE] ELSE r]
<1>1. ASSUME NEW r \in S PROVE [r EXCEPT !.latest = FALSE].owner = "loop"
  BY DEF OfLoop, Reads
<1>2. \A r \in S : f[r] \in T
  <2> TAKE r \in S
  <2>1. CASE r.case \in cs
    <3>1. [r EXCEPT !.latest = FALSE] \in Invalidated(rs, cs)
      BY <2>1 DEF Invalidated, OfLoop
    <3> QED BY <1>1, <2>1, <3>1 DEF OfLoop
  <2>2. CASE r.case \notin cs
    BY <2>2 DEF Invalidated, OfLoop
  <2> QED BY <2>1, <2>2
<1>3. \A q \in T : \E r \in S : f[r] = q
  <2> TAKE q \in T
  <2>1. CASE q \in {r \in rs : r.case \notin cs}
    BY <2>1 DEF OfLoop
  <2>2. CASE q \notin {r \in rs : r.case \notin cs}
    <3>1. PICK r \in rs : r.case \in cs /\ r.owner = "loop" /\ q = [r EXCEPT !.latest = FALSE]
      BY <2>2 DEF Invalidated, OfLoop
    <3> QED BY <3>1 DEF OfLoop
  <2> QED BY <2>1, <2>2
<1>4. f \in Surjection(S, T)
  BY <1>2, <1>3 DEF Surjection
<1>5. IsFiniteSet(T) /\ Cardinality(T) <= Cardinality(S)
  <2> HIDE DEF S, T, f
  <2> QED BY <1>4, FS_Surjection DEF S
<1>6. T = {} <=> S = {}
  BY <1>2, <1>3
<1> QED BY <1>5, <1>6

\* What the loop reads of some incidents is read once each.
LEMMA LoopReads ==
    ASSUME NEW cs \in SUBSET Cases, IsFiniteSet(cs)
    PROVE  /\ {Read(c, "loop") : c \in cs} \in SUBSET Reads
           /\ OfLoop({Read(c, "loop") : c \in cs}) = {Read(c, "loop") : c \in cs}
           /\ IsFiniteSet({Read(c, "loop") : c \in cs})
           /\ Cardinality({Read(c, "loop") : c \in cs}) <= Cardinality(cs)
<1> DEFINE T == {Read(c, "loop") : c \in cs}
           f == [c \in cs |-> Read(c, "loop")]
<1>1. f \in Surjection(cs, T)
  BY DEF Surjection
<1>2. IsFiniteSet(T) /\ Cardinality(T) <= Cardinality(cs)
  <2> HIDE DEF T, f
  <2> QED BY <1>1, FS_Surjection
<1>3. \A c \in cs : Read(c, "loop") \in Reads /\ Read(c, "loop").owner = "loop"
  BY LiveListAssumption DEF Read, Reads
<1> QED BY <1>2, <1>3 DEF OfLoop

-----------------------------------------------------------------------------
(* Steps that leave the log, the graphs and what is being read alone.       *)

\* The list, its graphs and the answers stay; the stream may be given up or tell less.
LEMMA QuietKeeps ==
    ASSUME ListInv, log' = log, reads' = reads, failures' \in Nat, failures <= failures',
           page' \in LivePages, loop' \in Loops,
           page'.snapshot = page.snapshot, page'.shown = page.shown,
           page.active => page'.active, page.sub = None => page'.sub = None,
           StreamInv',
           loop'.todo = loop.todo, loop'.state = "graphs" <=> loop.state = "graphs",
           Faithful(loop'.answer)
    PROVE  ListInv'
<1>1. LogInv' /\ LiveTypeOK' /\ IsFiniteSet(OfLoop(reads))' /\ failures' \in Nat
  BY DEF ListInv, LogInv, LiveTypeOK
<1>2. (loop.state # "graphs" => loop.todo = {})'
  BY DEF ListInv
<1>3. Faithful(page.snapshot)' /\ Faithful(loop.answer)'
  BY DEF ListInv, Faithful
<1>4. HiddenInv'
  BY DEF ListInv, HiddenInv
<1>5. ShownInv'
  BY DEF ListInv, ShownInv, Committed
<1>6. Due'
  <2>1. failures > 0 => failures' > 0
    BY DEF ListInv
  <2> QED BY <2>1 DEF ListInv, Due, Awaited
<1>7. AnswersInv'
  BY DEF ListInv, AnswersInv, Committed
<1> QED BY <1>1, <1>2, <1>3, <1>4, <1>5, <1>6, <1>7 DEF ListInv

\* The page comes to be shown.
LEMMA ListActivateKeeps ==
    ASSUME ListInv, ActivateList
    PROVE  ListInv'
<1>1. page \in LivePages /\ loop \in Loops /\ failures \in Nat
  BY DEF ListInv, LiveTypeOK
<1>2. page' = [active |-> TRUE, snapshot |-> page.snapshot, shown |-> page.shown,
               connection |-> "connecting", sub |-> page.sub, timer |-> page.timer]
  BY <1>1 DEF ActivateList, LivePages
<1>3. /\ page' \in LivePages /\ page'.snapshot = page.snapshot /\ page'.shown = page.shown
      /\ page'.active /\ page'.sub = page.sub
  BY <1>1, <1>2 DEF LivePages, Connections
<1>4. loop' = Hydrated(loop)
  BY DEF ActivateList
<1>5. Faithful(loop'.answer)
  BY <1>1, <1>4, HydratedIs DEF ListInv
<1>6. StreamInv'
  BY <1>3 DEF ListInv, StreamInv, ActivateList
<1> QED BY <1>1, <1>3, <1>4, <1>5, <1>6, HydratedIs, QuietKeeps DEF ActivateList

\* A shown page is read again, after the user or a timer asked for it.
LEMMA RetriesKeep ==
    ASSUME ListInv, RetryNow \/ RetryTimer
    PROVE  ListInv'
<1>1. page \in LivePages /\ loop \in Loops /\ failures \in Nat
  BY DEF ListInv, LiveTypeOK
<1>2. PICK connection \in Connections :
        page' = [active |-> page.active, snapshot |-> page.snapshot, shown |-> page.shown,
                 connection |-> connection, sub |-> page.sub, timer |-> FALSE]
  <2>1. CASE RetryNow
    BY <1>1, <2>1 DEF RetryNow, LivePages, Connections
  <2>2. CASE RetryTimer
    BY <1>1, <2>2 DEF RetryTimer, LivePages
  <2> QED BY <2>1, <2>2
<1>3. /\ page' \in LivePages /\ page'.snapshot = page.snapshot /\ page'.shown = page.shown
      /\ page'.active = page.active /\ page'.sub = page.sub
  BY <1>1, <1>2 DEF LivePages
<1>4. loop' = Hydrated(loop) /\ UNCHANGED <<log, reads, failures>>
  BY DEF RetryNow, RetryTimer
<1>5. Faithful(loop'.answer)
  BY <1>1, <1>4, HydratedIs DEF ListInv
<1>6. StreamInv'
  BY <1>3, <1>4 DEF ListInv, StreamInv
<1> QED BY <1>1, <1>3, <1>4, <1>5, <1>6, HydratedIs, QuietKeeps

\* The server says what is listed now.
LEMMA TakeSnapshotKeeps ==
    ASSUME ListInv, TakeSnapshot
    PROVE  ListInv'
<1>1. page \in LivePages /\ loop \in Loops /\ failures \in Nat /\ LogInv
  BY DEF ListInv, LiveTypeOK
<1>2. log \in Seq(Events) /\ Len(log) \in Nat /\ Len(log) <= MaxEvents /\ MaxEvents \in Nat
  BY <1>1, LiveListAssumption DEF LogInv
<1>3. PICK answer : answer = [at |-> Len(log), incidents |-> Listed]
  OBVIOUS
<1>4. Listed = ListedAt(log, Len(log)) /\ ListedAt(log, Len(log)) \in Counts
  BY <1>1, <1>2, WholeLog, ListedIs
<1>5. answer \in Snapshots /\ Faithful(answer)
  BY <1>2, <1>3, <1>4 DEF Snapshots, Faithful
<1>6. loop' = [state |-> loop.state, answer |-> answer, todo |-> loop.todo, again |-> loop.again]
  BY <1>1, <1>3 DEF TakeSnapshot, Loops
<1>7. loop' \in Loops /\ loop'.todo = loop.todo /\ loop'.state = loop.state /\ loop'.answer = answer
  BY <1>1, <1>5, <1>6 DEF Loops
<1>8. StreamInv'
  BY DEF ListInv, StreamInv, TakeSnapshot
<1> QED BY <1>1, <1>5, <1>7, <1>8, QuietKeeps DEF TakeSnapshot

\* A snapshot that is failures ends the pass.
LEMMA SnapshotFailsKeeps ==
    ASSUME ListInv, SnapshotFails
    PROVE  ListInv'
<1>1. page \in LivePages /\ loop \in Loops /\ failures \in Nat /\ page.active \in BOOLEAN
  BY DEF ListInv, LiveTypeOK, LivePages
<1>2. page' = [active |-> page.active, snapshot |-> page.snapshot, shown |-> page.shown,
               connection |-> "degraded", sub |-> page.sub, timer |-> page.timer \/ page.active]
  BY <1>1 DEF SnapshotFails, Scheduled, LivePages, Fails
<1>3. /\ page' \in LivePages /\ page'.snapshot = page.snapshot /\ page'.shown = page.shown
      /\ page'.active = page.active /\ page'.sub = page.sub
  BY <1>1, <1>2 DEF LivePages, Connections
<1>4. loop' = PassEnds(loop, page.active) /\ log' = log /\ reads' = reads /\ failures' = failures + 1
      /\ loop.state # "graphs" /\ loop.todo = {}
  BY DEF SnapshotFails, ListInv, Fails
<1>5. loop' \in Loops /\ loop'.todo = {} /\ loop'.state # "graphs" /\ loop'.answer = None
  BY <1>1, <1>4, PassEndsIs
<1>6. Faithful(loop'.answer)
  BY <1>5 DEF Faithful
<1>7. StreamInv'
  BY <1>3, <1>4 DEF ListInv, StreamInv
<1> QED BY <1>1, <1>3, <1>4, <1>5, <1>6, <1>7, QuietKeeps

\* The stream opens, breaks, or slips; what it still has to tell stays.
LEMMA StreamMovesKeeps ==
    ASSUME ListInv, LiveStreamOpens \/ LiveStreamFails \/ LiveStreamSlips
    PROVE  ListInv'
<1>1. page \in LivePages /\ loop \in Loops /\ failures \in Nat /\ page.sub \in LiveStreams
  BY DEF ListInv, LiveTypeOK, LiveStreamOpens, LiveStreamFails, LiveStreamSlips, LiveStreaming, LivePages,
      Fails
<1>2. Len(log) \in Nat /\ Len(log) <= MaxEvents /\ MaxEvents \in Nat
  BY LiveListAssumption DEF ListInv, LogInv
<1>3. PICK sub \in LiveStreams, connection \in Connections :
        /\ page' = [page EXCEPT !.sub = sub, !.connection = connection]
        /\ sub.at = page.sub.at \/ (sub.at < Len(log))
  <2>1. CASE LiveStreamOpens
    <3>1. PICK sub : sub = [page.sub EXCEPT !.state = "open"]
      OBVIOUS
    <3>2. sub \in LiveStreams /\ sub.at = page.sub.at
      BY <1>1, <3>1 DEF LiveStreams
    <3>3. page' = [page EXCEPT !.sub = sub, !.connection = "connected"]
      BY <1>1, <2>1, <3>1 DEF LiveStreamOpens, LivePages
    <3> QED BY <3>2, <3>3 DEF Connections
  <2>2. CASE LiveStreamFails
    <3>1. PICK state \in {"opening", "dead"} :
            page' = [page EXCEPT !.sub.state = state, !.connection = "reconnecting"]
      BY <2>2 DEF LiveStreamFails, Fails
    <3>2. PICK sub : sub = [page.sub EXCEPT !.state = state]
      OBVIOUS
    <3>3. sub \in LiveStreams /\ sub.at = page.sub.at
      BY <1>1, <3>2 DEF LiveStreams
    <3>4. page' = [page EXCEPT !.sub = sub, !.connection = "reconnecting"]
      BY <1>1, <3>1, <3>2 DEF LivePages
    <3> QED BY <3>3, <3>4 DEF Connections
  <2>3. CASE LiveStreamSlips
    <3>1. PICK at \in 0..Len(log) - 1 : page' = [page EXCEPT !.sub.at = at]
      BY <2>3 DEF LiveStreamSlips, Fails
    <3>2. PICK sub : sub = [page.sub EXCEPT !.at = at]
      OBVIOUS
    <3>3. at \in 0..MaxEvents /\ at < Len(log)
      BY <1>2, <3>1
    <3>4. sub \in LiveStreams /\ sub.at = at
      BY <1>1, <3>2, <3>3 DEF LiveStreams
    <3>5. page' = [page EXCEPT !.sub = sub, !.connection = page.connection]
      BY <1>1, <3>1, <3>2 DEF LivePages
    <3> QED BY <1>1, <3>3, <3>4, <3>5 DEF LivePages
  <2> QED BY <2>1, <2>2, <2>3
<1>4. page' = [active |-> page.active, snapshot |-> page.snapshot, shown |-> page.shown,
               connection |-> connection, sub |-> sub, timer |-> page.timer]
  BY <1>1, <1>3 DEF LivePages
<1>5. /\ page' \in LivePages /\ page'.snapshot = page.snapshot /\ page'.shown = page.shown
      /\ page'.active = page.active /\ page'.sub = sub
  BY <1>1, <1>4 DEF LivePages
<1>6. UNCHANGED <<log, loop, reads>> /\ failures' \in Nat /\ failures <= failures'
  BY <1>1 DEF LiveStreamOpens, LiveStreamFails, LiveStreamSlips, Fails
<1>7. page.sub # None
  BY <1>1, LiveListAssumption
<1>8. StreamInv'
  <2>1. page.snapshot # None /\ page.sub.at <= Len(log) /\ (page.sub.at <= page.snapshot.at \/ page.sub.at < Len(log))
    BY <1>7 DEF ListInv, StreamInv
  <2>2. sub.at \in Nat
    BY <1>3 DEF LiveStreams
  <2> QED BY <1>2, <1>3, <1>5, <1>6, <2>1, <2>2 DEF StreamInv
<1>9. Faithful(loop'.answer)
  BY <1>6 DEF ListInv
<1> QED BY <1>1, <1>5, <1>6, <1>7, <1>8, <1>9, QuietKeeps

\* A stream that is given up is subscribed to again behind another snapshot.
LEMMA RehydrateKeeps ==
    ASSUME ListInv, page' = Unsubscribed(page), loop' = Hydrated(loop), log' = log, reads' = reads,
           failures' \in Nat, failures <= failures'
    PROVE  ListInv'
<1>1. page \in LivePages /\ loop \in Loops
  BY DEF ListInv, LiveTypeOK
<1>2. page' = [active |-> page.active, snapshot |-> page.snapshot, shown |-> page.shown,
               connection |-> "stale", sub |-> None, timer |-> page.timer]
  BY <1>1 DEF Unsubscribed, LivePages
<1>3. /\ page' \in LivePages /\ page'.snapshot = page.snapshot /\ page'.shown = page.shown
      /\ page'.active = page.active /\ page'.sub = None
  BY <1>1, <1>2 DEF LivePages, Connections
<1>4. Faithful(loop'.answer)
  BY <1>1, HydratedIs DEF ListInv
<1>5. StreamInv'
  BY <1>3 DEF StreamInv
<1> QED BY <1>1, <1>3, <1>4, <1>5, HydratedIs, QuietKeeps

-----------------------------------------------------------------------------
(* Steps that change the list or its graphs.                               *)

\* An event that the page has still to hear of: of which snapshot and place it is.
EventIs(e, at) ==
    /\ at \in 1..Len(log) /\ at = page.sub.at + 1 /\ e = log[at]
    /\ e.case \in Cases /\ e.n \in 1..MaxEvents /\ e.resolved \in BOOLEAN

\* The event is the next one after the snapshot: what the page becomes.
LEMMA EventIsNext ==
    ASSUME ListInv, LiveStreaming, page.sub.at < Len(log), NEW e, NEW at,
           at = page.sub.at + 1, e = log[at]
    PROVE  /\ EventIs(e, at) /\ at <= MaxEvents
           /\ at = page.snapshot.at + 1 =>
                /\ ListedAt(log, at) \in Counts
                /\ page.snapshot \in Snapshots /\ page.snapshot.incidents = ListedAt(log, page.snapshot.at)
                /\ ListedAt(log, at) = [page.snapshot.incidents EXCEPT ![e.case] = IF e.resolved THEN 0 ELSE e.n]
<1>1. /\ page \in LivePages /\ LogInv /\ log \in Seq(Events) /\ Len(log) \in Nat
      /\ Len(log) <= MaxEvents /\ MaxEvents \in Nat
  BY LiveListAssumption DEF ListInv, LiveTypeOK, LogInv
<1>2. page.sub \in LiveStreams /\ page.sub.at \in Nat
  BY <1>1 DEF LiveStreaming, LivePages, LiveStreams
<1>3. at \in 1..Len(log) /\ at <= MaxEvents /\ page.sub.at + 1 <= Len(log)
  BY <1>1, <1>2
<1>4. e \in Events /\ e.case \in Cases /\ e.n \in 1..MaxEvents
  BY <1>1, <1>2, <1>3, ListedNext
<1>5. EventIs(e, at)
  BY <1>3, <1>4 DEF EventIs, Events
<1>6. ASSUME at = page.snapshot.at + 1
      PROVE  /\ ListedAt(log, at) \in Counts
             /\ page.snapshot \in Snapshots /\ page.snapshot.incidents = ListedAt(log, page.snapshot.at)
             /\ ListedAt(log, at) = [page.snapshot.incidents EXCEPT ![e.case] = IF e.resolved THEN 0 ELSE e.n]
  <2>1. page.snapshot # None
    BY DEF LiveStreaming, ListInv, StreamInv
  <2>2. page.snapshot \in Snapshots /\ page.snapshot.at \in Nat
    BY <1>1, <2>1 DEF LivePages, Snapshots
  <2>3. page.snapshot.incidents = ListedAt(log, page.snapshot.at)
    BY <2>1 DEF ListInv, Faithful
  <2>4. page.snapshot.at = page.sub.at
    BY <1>2, <1>6, <2>2
  <2>5. ListedAt(log, at) = [ListedAt(log, page.snapshot.at) EXCEPT ![e.case] = IF e.resolved THEN 0 ELSE e.n]
    BY <1>1, <1>2, <1>3, <2>4, ListedNext
  <2>6. ListedAt(log, at) \in Counts
    BY <1>1, <1>3, ListedIs
  <2> QED BY <2>2, <2>3, <2>5, <2>6
<1> QED BY <1>3, <1>5, <1>6

\* What an event changes in a page, as onEvent writes it and component by component.
Heard(p, at, c, n) ==
    [p EXCEPT !.sub.at = at, !.connection = "connected", !.snapshot.at = at,
              !.snapshot.incidents[c] = n]
HeardPage(p, at, incidents) ==
    [active |-> p.active, snapshot |-> [at |-> at, incidents |-> incidents], shown |-> p.shown,
     connection |-> "connected", sub |-> [at |-> at, state |-> p.sub.state], timer |-> p.timer]
OneListed(p, c, n) == [p.snapshot.incidents EXCEPT ![c] = n]

\* onEvent's assignments leave everything else in the page as it was.
LEMMA PageHears ==
    ASSUME NEW p \in LivePages, p.sub \in LiveStreams, p.snapshot \in Snapshots, NEW at, NEW c, NEW n,
           NEW incidents, incidents = OneListed(p, c, n)
    PROVE  Heard(p, at, c, n) = HeardPage(p, at, incidents)
<1>0. incidents = [p.snapshot.incidents EXCEPT ![c] = n]
  BY DEF OneListed
<1>1. PICK sub, half, snapshot, q :
        /\ sub = [p.sub EXCEPT !.at = at]
        /\ half = [p.snapshot EXCEPT !.at = at]
        /\ snapshot = [half EXCEPT !.incidents = incidents]
        /\ q = [p EXCEPT !.sub = sub, !.connection = "connected", !.snapshot = snapshot]
  OBVIOUS
<1>2. sub = [at |-> at, state |-> p.sub.state]
  BY <1>1 DEF LiveStreams
<1>3. /\ half = [at |-> at, incidents |-> p.snapshot.incidents]
      /\ half.incidents = p.snapshot.incidents
  BY <1>1 DEF Snapshots
<1>4. snapshot = [at |-> at, incidents |-> incidents]
  <2>1. [[at |-> at, incidents |-> p.snapshot.incidents] EXCEPT !.incidents = incidents] =
          [at |-> at, incidents |-> incidents]
    OBVIOUS
  <2> QED BY <1>1, <1>3, <2>1
<1>5. /\ DOMAIN q = {"active", "snapshot", "shown", "connection", "sub", "timer"}
      /\ q.active = p.active /\ q.snapshot = snapshot /\ q.shown = p.shown
      /\ q.connection = "connected" /\ q.sub = sub /\ q.timer = p.timer
  BY <1>1 DEF LivePages
<1>6. q = [active |-> p.active, snapshot |-> snapshot, shown |-> p.shown,
           connection |-> "connected", sub |-> sub, timer |-> p.timer]
  BY <1>1, <1>5
<1>7. [p EXCEPT !.sub.at = at, !.connection = "connected", !.snapshot.at = at,
                !.snapshot.incidents[c] = n] = q
  <2>1. [p EXCEPT !.sub.at = at, !.connection = "connected", !.snapshot.at = at] =
          [p EXCEPT !.sub = sub, !.connection = "connected", !.snapshot = half]
    BY <1>1
  <2>2. PICK r : r = [p EXCEPT !.sub = sub, !.connection = "connected", !.snapshot = half]
    OBVIOUS
  <2>3. r.snapshot = half
    BY <2>2 DEF LivePages
  <2>4. [r EXCEPT !.snapshot.incidents[c] = n] = [r EXCEPT !.snapshot = snapshot]
    BY <1>0, <1>1, <1>3, <2>3
  <2>5. [r EXCEPT !.snapshot = snapshot] = q
    BY <1>1, <2>2 DEF LivePages
  <2> QED BY <2>1, <2>2, <2>4, <2>5
<1> QED BY <1>2, <1>4, <1>6, <1>7 DEF Heard, HeardPage

\* An event that tells nothing new, or after a gap.
LEMMA EventOldKeeps ==
    ASSUME ListInv, LiveEventArrives,
           page.sub.at + 1 # page.snapshot.at + 1
    PROVE  ListInv'
<1>1. PICK at : at = page.sub.at + 1
  OBVIOUS
<1>2. EventIs(log[at], at) /\ at <= MaxEvents
  BY <1>1, EventIsNext DEF LiveEventArrives
<1>3. /\ page \in LivePages /\ loop \in Loops /\ failures \in Nat
      /\ page.sub \in LiveStreams /\ page.sub # None
  BY DEF ListInv, LiveTypeOK, LiveEventArrives, LiveStreaming, LivePages
<1>4. UNCHANGED <<log, failures>> /\ reads' = reads
  BY <1>1 DEF LiveEventArrives
<1>5. CASE /\ at <= page.snapshot.at
           /\ page' = [page EXCEPT !.sub.at = at, !.connection = "connected"]
           /\ loop' = loop
  <2>1. PICK sub : sub = [page.sub EXCEPT !.at = at]
    OBVIOUS
  <2>2. at \in 0..MaxEvents /\ at <= Len(log)
    BY <1>2, LiveListAssumption DEF EventIs
  <2>3. sub \in LiveStreams /\ sub.at = at
    BY <1>3, <2>1, <2>2 DEF LiveStreams
  <2>4. page' = [active |-> page.active, snapshot |-> page.snapshot, shown |-> page.shown,
                 connection |-> "connected", sub |-> sub, timer |-> page.timer]
    BY <1>3, <1>5, <2>1 DEF LivePages
  <2>5. /\ page' \in LivePages /\ page'.snapshot = page.snapshot /\ page'.shown = page.shown
        /\ page'.active = page.active /\ page'.sub = sub
    BY <1>3, <2>3, <2>4 DEF LivePages, Connections
  <2>6. page.snapshot # None
    BY <1>3 DEF ListInv, StreamInv
  <2>7. StreamInv'
    BY <1>4, <1>5, <2>2, <2>3, <2>5, <2>6 DEF StreamInv
  <2>8. Faithful(loop'.answer)
    BY <1>5 DEF ListInv
  <2> QED BY <1>3, <1>4, <1>5, <2>5, <2>7, <2>8, QuietKeeps
<1>6. CASE page' = Unsubscribed(page) /\ loop' = Hydrated(loop)
  BY <1>3, <1>4, <1>6, RehydrateKeeps
<1> QED BY <1>1, <1>5, <1>6 DEF LiveEventArrives

\* What the page is once it has heard of the next event.
OpenCount(e) == IF e.resolved THEN 0 ELSE e.n
IsHeard(p, e, at) ==
    /\ p \in LivePages /\ p.active /\ p.shown = page.shown
    /\ p.snapshot # None /\ p.snapshot.at = at /\ p.snapshot.incidents = ListedAt(log, at)
    /\ p.sub # None /\ p.sub.at = at
    /\ page.snapshot # None
    /\ \A c \in Cases : p.snapshot.incidents[c] =
         IF c = e.case THEN OpenCount(e) ELSE page.snapshot.incidents[c]

\* A page that hears of the next event of the log lists what the log says there.
LEMMA HeardIs ==
    ASSUME ListInv, LiveStreaming, page.sub.at < Len(log), NEW e, NEW at,
           at = page.sub.at + 1, e = log[at], at = page.snapshot.at + 1,
           NEW p, p = Heard(page, at, e.case, OpenCount(e))
    PROVE  IsHeard(p, e, at)
<1>0. PICK n : n = OpenCount(e)
  OBVIOUS
<1>1. /\ EventIs(e, at) /\ at <= MaxEvents
      /\ ListedAt(log, at) \in Counts
      /\ page.snapshot \in Snapshots /\ page.snapshot.incidents = ListedAt(log, page.snapshot.at)
      /\ ListedAt(log, at) = [page.snapshot.incidents EXCEPT ![e.case] = n]
  BY <1>0, EventIsNext DEF OpenCount
<1>2. /\ page \in LivePages /\ page.sub \in LiveStreams /\ page.sub # None /\ page.snapshot # None /\ page.active
  BY <1>1, LiveListAssumption DEF ListInv, LiveTypeOK, LiveStreaming, LivePages, HiddenInv
<1>3. at \in 0..MaxEvents
  BY <1>1, LiveListAssumption DEF EventIs
<1>4. PICK incidents, q, c :
        incidents = OneListed(page, e.case, n) /\ q = page /\ c = e.case
  OBVIOUS
<1>5. incidents = ListedAt(log, at)
  BY <1>1, <1>4 DEF OneListed
<1>6. p = HeardPage(q, at, incidents)
  <2>1. q \in LivePages /\ q.sub \in LiveStreams /\ q.snapshot \in Snapshots
    BY <1>1, <1>2, <1>4
  <2>2. incidents = OneListed(q, c, n)
    BY <1>4
  <2>3. Heard(q, at, c, n) = HeardPage(q, at, incidents)
    BY <2>1, <2>2, PageHears
  <2> QED BY <1>0, <1>4, <2>3
<1>7. PICK snapshot, sub :
        /\ snapshot = [at |-> at, incidents |-> incidents]
        /\ sub = [at |-> at, state |-> page.sub.state]
  OBVIOUS
<1>8. p = [active |-> page.active, snapshot |-> snapshot, shown |-> page.shown,
           connection |-> "connected", sub |-> sub, timer |-> page.timer]
  BY <1>4, <1>6, <1>7 DEF HeardPage
<1>9. /\ snapshot \in Snapshots /\ snapshot # None /\ snapshot.at = at /\ snapshot.incidents = incidents
      /\ sub \in LiveStreams /\ sub # None /\ sub.at = at
  BY <1>1, <1>2, <1>3, <1>5, <1>7, LiveListAssumption DEF Snapshots, LiveStreams
<1>10. p \in LivePages /\ p.active /\ p.shown = page.shown /\ p.snapshot = snapshot /\ p.sub = sub
  <2>1. page.active \in BOOLEAN /\ page.shown \in Counts /\ page.timer \in BOOLEAN
    BY <1>2 DEF LivePages
  <2>2. /\ p.active = page.active /\ p.shown = page.shown /\ p.snapshot = snapshot
        /\ p.sub = sub
    BY <1>8
  <2>3. snapshot \in Snapshots \cup {None} /\ sub \in LiveStreams \cup {None} /\ "connected" \in Connections
    BY <1>9 DEF Connections
  <2>4. p \in LivePages
    BY <1>8, <2>1, <2>3 DEF LivePages
  <2> QED BY <1>2, <2>2, <2>4
<1>11. \A d \in Cases : incidents[d] = IF d = e.case THEN n ELSE page.snapshot.incidents[d]
  <2>1. page.snapshot.incidents \in Counts
    BY <1>1 DEF Snapshots
  <2> QED BY <1>1, <1>5, <2>1 DEF Counts
<1> QED BY <1>0, <1>2, <1>5, <1>9, <1>10, <1>11 DEF IsHeard

\* The next event changes one incident of the list; a graph of it is given up or read again.
LEMMA EventNewKeeps ==
    ASSUME ListInv, LiveEventArrives,
           page.sub.at + 1 = page.snapshot.at + 1
    PROVE  ListInv'
<1>1. PICK at, e, n, p :
        /\ at = page.sub.at + 1 /\ e = log[at] /\ n = OpenCount(e)
        /\ p = Heard(page, at, e.case, n)
  OBVIOUS
<1>2. EventIs(e, at) /\ at = page.snapshot.at + 1 /\ page.snapshot \in Snapshots
  BY <1>1, EventIsNext DEF LiveEventArrives
<1>3. /\ p \in LivePages /\ p.active /\ p.shown = page.shown
      /\ p.snapshot # None /\ p.snapshot.at = at /\ p.snapshot.incidents = ListedAt(log, at)
      /\ p.sub # None /\ p.sub.at = at
      /\ page.snapshot # None
      /\ \A c \in Cases : p.snapshot.incidents[c] =
           IF c = e.case THEN n ELSE page.snapshot.incidents[c]
  <2>1. LiveStreaming /\ page.sub.at < Len(log) /\ at = page.snapshot.at + 1
    BY <1>1 DEF LiveEventArrives
  <2>2. IsHeard(p, e, at)
    BY <1>1, <2>1, HeardIs
  <2>3. \A c \in Cases : p.snapshot.incidents[c] =
          IF c = e.case THEN OpenCount(e) ELSE page.snapshot.incidents[c]
    BY <2>2 DEF IsHeard
  <2>4. n = OpenCount(e)
    BY <1>1
  <2>5. \A c \in Cases : p.snapshot.incidents[c] =
          IF c = e.case THEN n ELSE page.snapshot.incidents[c]
    BY <2>3, <2>4
  <2> QED BY <2>2, <2>5 DEF IsHeard
<1>4. /\ loop \in Loops /\ failures \in Nat /\ reads \in SUBSET Reads /\ MaxEvents \in Nat
      /\ page.shown \in Counts
  BY <1>3, LiveListAssumption DEF ListInv, LiveTypeOK, LivePages
<1>5. ~(at <= page.snapshot.at) /\ ~(at > page.snapshot.at + 1) /\ at \in Nat /\ at <= Len(log) /\ e.case \in Cases
  BY <1>2 DEF Snapshots, EventIs
<1>6. PICK more \in SUBSET {Read(e.case, "event")}, shown \in {page.shown, Without(page.shown, {e.case})} :
        /\ UNCHANGED <<log, failures, loop>>
        /\ reads' = Invalidated(reads, {e.case}) \cup more
        /\ page' = [p EXCEPT !.shown = shown]
        /\ IF e.resolved THEN shown = Without(page.shown, {e.case})
           ELSE shown = page.shown /\ more = {Read(e.case, "event")}
  <2>1. CASE e.resolved
    <3>1. /\ UNCHANGED <<log, failures, loop>> /\ reads' = Invalidated(reads, {e.case})
          /\ page' = [p EXCEPT !.shown = Without(@, {e.case})]
      BY <1>1, <1>2, <1>5, <2>1 DEF LiveEventArrives, Heard, OpenCount
    <3>2. page' = [p EXCEPT !.shown = Without(page.shown, {e.case})]
      BY <1>3, <3>1
    <3>3. reads' = Invalidated(reads, {e.case}) \cup {} /\ {} \in SUBSET {Read(e.case, "event")}
      BY <3>1
    <3> HIDE DEF Without
    <3> QED BY <2>1, <3>1, <3>2, <3>3
  <2>2. CASE ~e.resolved
    <3>1. /\ UNCHANGED <<log, failures, loop>> /\ page' = p
          /\ reads' = Invalidated(reads, {e.case}) \cup {Read(e.case, "event")}
      BY <1>1, <1>2, <1>5, <2>2 DEF LiveEventArrives, Heard, OpenCount
    <3>2. p = [p EXCEPT !.shown = page.shown]
      BY <1>3 DEF LivePages
    <3> QED BY <2>2, <3>1, <3>2
  <2> QED BY <2>1, <2>2
<1>7. /\ shown \in Counts
      /\ \A c \in Cases : shown[c] = IF c = e.case /\ e.resolved THEN 0 ELSE page.shown[c]
  BY <1>4, <1>6 DEF Without, Counts
<1>8. /\ page' \in LivePages /\ page'.active /\ page'.shown = shown /\ page'.snapshot = p.snapshot
      /\ page'.sub = p.sub
  <2>1. page' = [active |-> p.active, snapshot |-> p.snapshot, shown |-> shown,
                 connection |-> p.connection, sub |-> p.sub, timer |-> p.timer]
    BY <1>3, <1>6 DEF LivePages
  <2> QED BY <1>3, <1>7, <2>1 DEF LivePages
<1>9. /\ Read(e.case, "event") \in Reads /\ Read(e.case, "event").owner = "event"
      /\ Read(e.case, "event").case = e.case /\ Read(e.case, "event").latest /\ Read(e.case, "event").n = 0
  BY <1>4, <1>5 DEF Read, Reads
<1>10. /\ reads' \in SUBSET Reads /\ IsFiniteSet(OfLoop(reads'))
       /\ Cardinality(OfLoop(reads')) <= Workers
       /\ OfLoop(reads') # {} <=> loop'.state = "graphs"
  <2>1. Invalidated(reads, {e.case}) \in SUBSET Reads
    BY <1>4, InvalidatedIs
  <2>2. /\ IsFiniteSet(OfLoop(Invalidated(reads, {e.case})))
        /\ Cardinality(OfLoop(Invalidated(reads, {e.case}))) <= Cardinality(OfLoop(reads))
        /\ OfLoop(Invalidated(reads, {e.case})) = {} <=> OfLoop(reads) = {}
    BY <1>4, InvalidatedOfLoop DEF ListInv
  <2>3. OfLoop(reads') = OfLoop(Invalidated(reads, {e.case}))
    BY <1>6, <1>9 DEF OfLoop
  <2>4. Cardinality(OfLoop(reads)) <= Workers /\ Workers \in Nat
    BY LiveListAssumption DEF ListInv, LiveTypeOK
  <2>5. Cardinality(OfLoop(reads)) \in Nat /\ Cardinality(OfLoop(reads')) \in Nat
    BY <2>2, <2>3, FS_CardinalityType DEF ListInv
  <2>6. Cardinality(OfLoop(reads')) <= Workers
    BY <2>2, <2>3, <2>4, <2>5
  <2>7. OfLoop(reads) # {} <=> loop.state = "graphs"
    BY DEF ListInv, LiveTypeOK
  <2> QED BY <1>6, <1>9, <2>1, <2>2, <2>3, <2>6, <2>7
<1>11. LogInv' /\ failures' \in Nat /\ IsFiniteSet(OfLoop(reads))' /\ (loop.state # "graphs" => loop.todo = {})'
  BY <1>6, <1>10 DEF ListInv, LogInv
<1>12. LiveTypeOK'
  BY <1>6, <1>8, <1>10 DEF ListInv, LiveTypeOK
<1>13. Faithful(page.snapshot)' /\ Faithful(loop.answer)'
  BY <1>3, <1>5, <1>6, <1>8 DEF ListInv, Faithful
<1>14. StreamInv' /\ HiddenInv'
  BY <1>3, <1>5, <1>6, <1>8 DEF StreamInv, HiddenInv
<1>15. ShownInv'
  <2> SUFFICES ASSUME NEW c \in Cases
               PROVE  /\ shown[c] <= Committed(c)'
                      /\ shown[c] # 0 => p.snapshot.incidents[c] # 0
    BY <1>3, <1>8 DEF ShownInv
  <2>1. Committed(c)' = Committed(c)
    BY <1>6 DEF Committed
  <2>2. Committed(c) \in Nat
    BY WholeLog DEF ListInv, LogInv
  <2>3. page.shown[c] <= Committed(c) /\ (page.shown[c] # 0 => page.snapshot.incidents[c] # 0)
    BY DEF ListInv, ShownInv
  <2>4. n # 0 \/ e.resolved
    BY <1>1, <1>2 DEF EventIs, OpenCount
  <2> QED BY <1>3, <1>7, <2>1, <2>2, <2>3, <2>4
<1>16. Due'
  <2> SUFFICES ASSUME NEW c \in Cases, shown[c] < p.snapshot.incidents[c]
               PROVE  Awaited(c)' \/ c \in loop'.todo \/ (shown[c] = 0 /\ failures' > 0)
    BY <1>8 DEF Due
  <2>1. CASE c = e.case
    <3>1. ~e.resolved
      <4>1. e.resolved => n = 0 /\ shown[c] = 0
        BY <1>1, <1>7, <2>1 DEF OpenCount
      <4>2. p.snapshot.incidents[c] = n
        BY <1>3, <2>1
      <4> QED BY <4>1, <4>2
    <3> QED BY <1>6, <1>9, <2>1, <3>1 DEF Awaited
  <2>2. CASE c # e.case
    <3>1. Awaited(c) \/ c \in loop.todo \/ (page.shown[c] = 0 /\ failures > 0)
      BY <1>3, <1>7, <2>2 DEF ListInv, Due
    <3>2. Awaited(c) => Awaited(c)'
      BY <1>4, <1>6, <2>2, InvalidatedIs DEF Awaited
    <3> QED BY <1>6, <1>7, <2>2, <3>1, <3>2
  <2> QED BY <2>1, <2>2
<1>17. AnswersInv'
  <2> SUFFICES ASSUME NEW q \in reads'
               PROVE  /\ q.n <= Committed(q.case)'
                      /\ q.latest /\ q.n # 0 =>
                            p.snapshot.incidents[q.case] <= q.n \/ q.case \in loop'.todo
    BY <1>8 DEF AnswersInv
  <2>1. Committed(q.case)' = Committed(q.case) /\ q.case \in Cases /\ Committed(q.case) \in Nat
    BY <1>6, <1>10, WholeLog DEF Committed, Reads, ListInv, LogInv
  <2>2. CASE q \in more
    BY <1>9, <2>1, <2>2
  <2>3. CASE q \in Invalidated(reads, {e.case})
    <3>1. PICK r \in reads : q.case = r.case /\ q.n = r.n /\ (q.latest => q = r /\ r.case # e.case)
      BY <1>4, <2>3, InvalidatedIs
    <3> QED BY <1>3, <1>6, <2>1, <3>1 DEF ListInv, AnswersInv
  <2> QED BY <1>6, <2>2, <2>3
<1> QED BY <1>11, <1>12, <1>13, <1>14, <1>15, <1>16, <1>17 DEF ListInv

\* The server commits: what was said of earlier places stays true.
LEMMA ListCommitKeeps ==
    ASSUME ListInv, NEW c \in Cases, NEW resolved \in BOOLEAN, CommitEvent(c, resolved)
    PROVE  ListInv'
<1>1. PICK e, m : e = [case |-> c, n |-> Committed(c) + 1, resolved |-> resolved] /\ m = Len(log)
  OBVIOUS
<1>2. /\ log \in Seq(Events) /\ m \in Nat /\ m < MaxEvents /\ MaxEvents \in Nat
      /\ ~IsResolved(c) /\ log' = Append(log, e) /\ UNCHANGED <<page, loop, reads, failures>>
  BY <1>1, LiveListAssumption DEF ListInv, LogInv, CommitEvent
<1>3. Committed(c) = Counted(log, c, m) /\ ~Ended(log, c, m)
  BY <1>1, <1>2, WholeLog
<1>4. Counted(log, c, m) \in 0..m
  BY <1>2, CountedIs
<1>5. e \in Events /\ e.case = c /\ e.n = Counted(log, c, m) + 1
  BY <1>1, <1>2, <1>3, <1>4 DEF Events
<1>6. log' \in Seq(Events) /\ Len(log') = m + 1 /\ log'[m + 1] = e /\ (\A i \in 1..m : log'[i] = log[i])
  BY <1>1, <1>2, <1>5
<1>7. /\ \A d : \A i \in 0..m : Counted(log', d, i) = Counted(log, d, i)
      /\ \A d : \A i \in 0..m : Ended(log', d, i) <=> Ended(log, d, i)
      /\ \A i \in 0..m : ListedAt(log', i) = ListedAt(log, i)
  BY <1>1, <1>2, EarlierKept
<1>8. LogInv'
  <2>1. ASSUME NEW i \in 1..(m + 1)
        PROVE  /\ log'[i].n = Counted(log', log'[i].case, i)
               /\ ~Ended(log', log'[i].case, i - 1)
    <3>1. CASE i \in 1..m
      <4>1. log[i].n = Counted(log, log[i].case, i) /\ ~Ended(log, log[i].case, i - 1)
        BY <1>1, <3>1 DEF ListInv, LogInv
      <4>2. i \in 0..m /\ i - 1 \in 0..m
        BY <1>2, <3>1
      <4> QED BY <1>6, <1>7, <3>1, <4>1, <4>2
    <3>2. CASE i = m + 1
      <4>1. i - 1 = m /\ m \in 0..m
        BY <1>2, <3>2
      <4>2. Counted(log', c, m + 1) = Counted(log', c, m) + 1
        <5>1. PICK l : l = log'
          OBVIOUS
        <5>2. l[m + 1].case = c
          BY <1>5, <1>6, <5>1
        <5>3. Counted(l, c, m + 1) = Counted(l, c, m) + 1
          BY <1>2, <5>2, CountGrows
        <5> QED BY <5>1, <5>3
      <4>3. log'[i] = e
        BY <1>6, <3>2
      <4>4. Counted(log', c, i) = Counted(log, c, m) + 1
        BY <1>7, <3>2, <4>1, <4>2
      <4>5. ~Ended(log', c, i - 1)
        BY <1>3, <1>7, <4>1
      <4> QED BY <1>5, <4>3, <4>4, <4>5
    <3>3. i \in 1..m \/ i = m + 1
      BY <1>2
    <3> QED BY <3>1, <3>2, <3>3
  <2> QED BY <1>2, <1>6, <2>1 DEF LogInv
<1>9. \A d \in Cases : Committed(d) \in Nat /\ Committed(d)' \in Nat /\ Committed(d) <= Committed(d)'
  <2> TAKE d \in Cases
  <2>1. Committed(d) = Counted(log, d, m) /\ Committed(d) \in Nat
    BY <1>1, <1>2, WholeLog
  <2>2. Committed(d)' = Counted(log', d, m + 1)
    <3>1. DOMAIN log' = 1..(m + 1)
      BY <1>6
    <3> QED BY <3>1 DEF Committed, Counted
  <2>3. Counted(log', d, m) = Counted(log, d, m)
    BY <1>2, <1>7
  <2>4. Counted(log', d, m) <= Counted(log', d, m + 1)
    <3>1. PICK l, k : l = log' /\ k = m + 1 /\ k \in Nat /\ m <= k
      BY <1>2
    <3>2. Counted(l, d, m) <= Counted(l, d, k)
      BY <1>2, <3>1, CountMonotone
    <3> QED BY <3>1, <3>2
  <2>5. Counted(log', d, m + 1) \in 0..(m + 1)
    <3>1. PICK l, k : l = log' /\ k = m + 1 /\ k \in Nat
      BY <1>2
    <3>2. Counted(l, d, k) \in 0..k
      BY <3>1, CountedIs
    <3> QED BY <3>1, <3>2
  <2> QED BY <1>2, <2>1, <2>2, <2>3, <2>4, <2>5
<1>10. LiveTypeOK' /\ IsFiniteSet(OfLoop(reads))' /\ failures' \in Nat /\ (loop.state # "graphs" => loop.todo = {})'
  BY <1>2 DEF ListInv, LiveTypeOK
<1>11. ASSUME NEW s \in Snapshots \cup {None}, Faithful(s)
       PROVE  s # None => s.at <= Len(log') /\ s.incidents = ListedAt(log', s.at)
  <2> SUFFICES ASSUME s # None PROVE s.at <= Len(log') /\ s.incidents = ListedAt(log', s.at)
    OBVIOUS
  <2>1. s.at \in Nat /\ s.at <= m /\ s.incidents = ListedAt(log, s.at)
    BY <1>1, <1>11 DEF Snapshots, Faithful
  <2> QED BY <1>2, <1>6, <1>7, <2>1
<1>12. Faithful(page.snapshot)' /\ Faithful(loop.answer)'
  <2>1. page.snapshot \in Snapshots \cup {None} /\ loop.answer \in Snapshots \cup {None}
    BY DEF ListInv, LiveTypeOK, LivePages, Loops
  <2> QED BY <1>2, <1>11, <2>1 DEF ListInv, Faithful
<1>13. StreamInv' /\ HiddenInv'
  <2>1. page.sub # None => page.sub.at \in Nat
    BY DEF ListInv, LiveTypeOK, LivePages, LiveStreams
  <2> QED BY <1>1, <1>2, <1>6, <2>1 DEF ListInv, StreamInv, HiddenInv
<1>14. ShownInv'
  <2> SUFFICES ASSUME NEW d \in Cases
               PROVE  /\ page.shown[d] <= Committed(d)'
                      /\ page.shown[d] # 0 => page.snapshot # None /\ page.snapshot.incidents[d] # 0
    BY <1>2 DEF ShownInv
  <2>1. page.shown[d] \in Nat
    BY <1>2 DEF ListInv, LiveTypeOK, LivePages, Counts
  <2> QED BY <1>9, <2>1 DEF ListInv, ShownInv
<1>15. Due'
  BY <1>2 DEF ListInv, Due, Awaited
<1>16. AnswersInv'
  <2> SUFFICES ASSUME NEW r \in reads
               PROVE  /\ r.n <= Committed(r.case)'
                      /\ r.latest /\ r.n # 0 /\ page.snapshot # None =>
                            page.snapshot.incidents[r.case] <= r.n \/ r.case \in loop.todo
    BY <1>2 DEF AnswersInv
  <2>1. r.case \in Cases /\ r.n \in Nat
    BY <1>2 DEF ListInv, LiveTypeOK, Reads
  <2> QED BY <1>9, <2>1 DEF ListInv, AnswersInv
<1> QED BY <1>8, <1>10, <1>12, <1>13, <1>14, <1>15, <1>16 DEF ListInv

\* A page that is hidden forgets what it showed.
LEMMA DeactivateKeeps ==
    ASSUME ListInv, DeactivateList
    PROVE  ListInv'
<1>1. /\ page \in LivePages /\ loop \in Loops /\ failures \in Nat /\ reads \in SUBSET Reads
      /\ log \in Seq(Events) /\ MaxEvents \in Nat
  BY LiveListAssumption DEF ListInv, LiveTypeOK, LogInv
<1>2. UNCHANGED <<log, failures>> /\ reads' = Invalidated(reads, Cases)
  BY DEF DeactivateList
<1>3. PICK q : q = [page EXCEPT !.active = FALSE, !.snapshot = None, !.shown = Nothing,
                                !.sub = None, !.timer = FALSE]
  OBVIOUS
<1>4. /\ DOMAIN q = {"active", "snapshot", "shown", "connection", "sub", "timer"}
      /\ ~q.active /\ q.snapshot = None /\ q.shown = Nothing /\ q.connection = page.connection
      /\ q.sub = None /\ q.timer = FALSE
  BY <1>1, <1>3 DEF LivePages
<1>5. q = [active |-> FALSE, snapshot |-> None, shown |-> Nothing,
           connection |-> page.connection, sub |-> None, timer |-> FALSE]
  BY <1>1, <1>3 DEF LivePages
<1>6. Nothing \in Counts /\ \A c \in Cases : Nothing[c] = 0
  BY <1>1 DEF Nothing, Counts
<1>7. page' = q /\ q \in LivePages
  BY <1>1, <1>3, <1>5, <1>6 DEF LivePages, DeactivateList
<1>8. loop' = [state |-> loop.state, answer |-> loop.answer, todo |-> loop.todo, again |-> FALSE]
  BY <1>1 DEF DeactivateList, Loops
<1>9. loop' \in Loops /\ loop'.state = loop.state /\ loop'.answer = loop.answer /\ loop'.todo = loop.todo
  BY <1>1, <1>8 DEF Loops
<1>10. /\ reads' \in SUBSET Reads /\ IsFiniteSet(OfLoop(reads'))
       /\ Cardinality(OfLoop(reads')) <= Workers
       /\ OfLoop(reads') # {} <=> loop'.state = "graphs"
  <2>1. /\ reads' \in SUBSET Reads /\ IsFiniteSet(OfLoop(reads'))
        /\ Cardinality(OfLoop(reads')) <= Cardinality(OfLoop(reads))
        /\ OfLoop(reads') = {} <=> OfLoop(reads) = {}
    BY <1>1, <1>2, InvalidatedIs, InvalidatedOfLoop DEF ListInv
  <2>2. Cardinality(OfLoop(reads)) <= Workers /\ Workers \in Nat
    BY LiveListAssumption DEF ListInv, LiveTypeOK
  <2>3. Cardinality(OfLoop(reads)) \in Nat /\ Cardinality(OfLoop(reads')) \in Nat
    BY <2>1, FS_CardinalityType DEF ListInv
  <2> QED BY <1>9, <2>1, <2>2, <2>3 DEF ListInv, LiveTypeOK
<1>11. LogInv' /\ LiveTypeOK' /\ failures' \in Nat /\ IsFiniteSet(OfLoop(reads))'
       /\ (loop.state # "graphs" => loop.todo = {})'
  BY <1>1, <1>2, <1>7, <1>9, <1>10 DEF ListInv, LogInv, LiveTypeOK
<1>12. Faithful(page.snapshot)' /\ Faithful(loop.answer)' /\ StreamInv' /\ HiddenInv' /\ Due'
  BY <1>2, <1>4, <1>7, <1>9 DEF ListInv, Faithful, StreamInv, HiddenInv, Due, Nothing
<1>13. ShownInv'
  <2>1. \A c \in Cases : Committed(c)' = Committed(c) /\ Committed(c) \in Nat
    BY <1>1, <1>2, WholeLog DEF Committed
  <2> QED BY <1>4, <1>6, <1>7, <2>1 DEF ShownInv
<1>14. AnswersInv'
  <2> SUFFICES ASSUME NEW q1 \in reads' PROVE q1.n <= Committed(q1.case)'
    BY <1>4, <1>7 DEF AnswersInv
  <2>1. PICK r \in reads : q1.case = r.case /\ q1.n = r.n
    BY <1>1, <1>2, InvalidatedIs
  <2> QED BY <1>2, <2>1 DEF ListInv, AnswersInv, Committed
<1> QED BY <1>11, <1>12, <1>13, <1>14 DEF ListInv

\* The server answers with the projection as it is then.
LEMMA AnswerReadKeeps ==
    ASSUME ListInv, NEW r \in reads, AnswerGraph(r)
    PROVE  ListInv'
<1>1. /\ page \in LivePages /\ loop \in Loops /\ reads \in SUBSET Reads /\ r \in Reads
      /\ LogInv /\ log \in Seq(Events) /\ MaxEvents \in Nat /\ Len(log) \in Nat
  BY LiveListAssumption DEF ListInv, LiveTypeOK, LogInv
<1>2. PICK q, n : q = [r EXCEPT !.n = Committed(r.case)] /\ n = Committed(r.case)
  OBVIOUS
<1>3. /\ reads' = (reads \ {r}) \cup {q} /\ UNCHANGED <<log, page, loop, failures>> /\ r.n = 0
  BY <1>2 DEF AnswerGraph
<1>4. n \in 0..MaxEvents
  <2>1. Committed(r.case) = Counted(log, r.case, Len(log)) /\ Len(log) <= MaxEvents
    BY <1>1, WholeLog DEF LogInv
  <2>2. Counted(log, r.case, Len(log)) \in 0..Len(log)
    BY <1>1, CountedIs
  <2> QED BY <1>1, <1>2, <2>1, <2>2
<1>5. q \in Reads /\ q.case = r.case /\ q.owner = r.owner /\ q.latest = r.latest /\ q.n = n
  BY <1>1, <1>2, <1>4 DEF Reads
<1>6. /\ IsFiniteSet(OfLoop(reads')) /\ Cardinality(OfLoop(reads')) <= Workers
      /\ OfLoop(reads') # {} <=> OfLoop(reads) # {}
  <2>0. IsFiniteSet(OfLoop(reads)) /\ Cardinality(OfLoop(reads)) <= Workers /\ Workers \in Nat
        /\ Cardinality(OfLoop(reads)) \in Nat
    BY FS_CardinalityType, LiveListAssumption DEF ListInv, LiveTypeOK
  <2>1. CASE r.owner = "loop"
    <3>1. OfLoop(reads') = (OfLoop(reads) \ {r}) \cup {q} /\ r \in OfLoop(reads)
      BY <1>3, <1>5, <2>1 DEF OfLoop
    <3>2. IsFiniteSet(OfLoop(reads) \ {r}) /\ Cardinality(OfLoop(reads) \ {r}) = Cardinality(OfLoop(reads)) - 1
      BY <2>0, <3>1, FS_RemoveElement
    <3>3. /\ IsFiniteSet((OfLoop(reads) \ {r}) \cup {q})
          /\ Cardinality((OfLoop(reads) \ {r}) \cup {q}) \in
               {Cardinality(OfLoop(reads) \ {r}), Cardinality(OfLoop(reads) \ {r}) + 1}
      BY <3>2, FS_AddElement
    <3> QED BY <2>0, <3>1, <3>2, <3>3
  <2>2. CASE r.owner # "loop"
    <3>1. OfLoop(reads') = OfLoop(reads)
      BY <1>3, <1>5, <2>2 DEF OfLoop
    <3> QED BY <2>0, <3>1
  <2> QED BY <2>1, <2>2
<1>7. LogInv' /\ LiveTypeOK' /\ failures' \in Nat /\ IsFiniteSet(OfLoop(reads))'
      /\ (loop.state # "graphs" => loop.todo = {})'
  BY <1>1, <1>3, <1>5, <1>6 DEF ListInv, LogInv, LiveTypeOK
<1>8. Faithful(page.snapshot)' /\ Faithful(loop.answer)' /\ StreamInv' /\ HiddenInv'
  BY <1>3 DEF ListInv, Faithful, StreamInv, HiddenInv
<1>9. ShownInv'
  BY <1>3 DEF ListInv, ShownInv, Committed
<1>10. Due'
  <2>1. \A c : Awaited(c) => Awaited(c)'
    BY <1>3, <1>5 DEF Awaited
  <2> QED BY <1>3, <2>1 DEF ListInv, Due
<1>11. AnswersInv'
  <2> SUFFICES ASSUME NEW q1 \in reads'
               PROVE  /\ q1.n <= Committed(q1.case)
                      /\ q1.latest /\ q1.n # 0 /\ page.snapshot # None =>
                            page.snapshot.incidents[q1.case] <= q1.n \/ q1.case \in loop.todo
    BY <1>3 DEF AnswersInv, Committed
  <2>1. CASE q1 \in reads
    BY <2>1 DEF ListInv, AnswersInv
  <2>2. CASE q1 = q
    <3>1. q1.n = Committed(q1.case) /\ Committed(q1.case) \in Nat /\ q1.case \in Cases
      BY <1>1, <1>2, <1>4, <1>5, <2>2 DEF Reads
    <3>2. page.snapshot # None => page.snapshot.incidents[q1.case] <= Committed(q1.case)
      <4> HAVE page.snapshot # None
      <4>1. /\ page.snapshot.at \in Nat /\ page.snapshot.at <= Len(log)
            /\ page.snapshot.incidents = ListedAt(log, page.snapshot.at)
        BY <1>1 DEF ListInv, Faithful, LivePages, Snapshots
      <4> QED BY <1>1, <3>1, <4>1, ListedIs
    <3> QED BY <3>1, <3>2
  <2> QED BY <1>3, <2>1, <2>2
<1> QED BY <1>7, <1>8, <1>9, <1>10, <1>11 DEF ListInv

-----------------------------------------------------------------------------
(* The end of a read.                                                      *)

\* What is being read after a worker went on: the other reads, unless one was taken up
\* anew, which then counts instead.
GoneOn(r) ==
    /\ reads' \in SUBSET Reads /\ IsFiniteSet(OfLoop(reads')) /\ Cardinality(OfLoop(reads')) <= Workers
    /\ loop' \in Loops /\ loop'.answer \in {loop.answer, None}
    /\ (OfLoop(reads') # {} <=> loop'.state = "graphs") /\ (loop'.state # "graphs" => loop'.todo = {})
    /\ \A c : (\E q \in reads \ {r} : q.case = c /\ q.latest) \/ c \in loop.todo
              => Awaited(c)' \/ c \in loop'.todo
    /\ \A q \in reads' :
         \/ q.n = 0
         \/ \E p \in reads \ {r} :
              /\ q.case = p.case /\ q.n = p.n
              /\ q.latest => p.latest /\ (p.case \in loop.todo => p.case \in loop'.todo)

\* A worker that takes the next incident reads it anew.
LEMMA TakesNext ==
    ASSUME ListInv, NEW r \in reads, r.owner = "loop", NEW c \in loop.todo,
           reads' = Taken(reads \ {r}, {c}), loop' = [loop EXCEPT !.todo = @ \ {c}]
    PROVE  GoneOn(r)
<1>1. /\ loop \in Loops /\ reads \in SUBSET Reads /\ c \in Cases /\ MaxEvents \in Nat
      /\ IsFiniteSet(OfLoop(reads)) /\ Cardinality(OfLoop(reads)) <= Workers /\ Workers \in Nat
      /\ Cardinality(OfLoop(reads)) \in Nat /\ r \in OfLoop(reads) /\ loop.state = "graphs"
  BY FS_CardinalityType, LiveListAssumption DEF ListInv, LiveTypeOK, Loops, OfLoop
<1>2. PICK rest, new : rest = reads \ {r} /\ new = Read(c, "loop")
  OBVIOUS
<1>3. new \in Reads /\ new.owner = "loop" /\ new.case = c /\ new.latest /\ new.n = 0
  BY <1>1, <1>2 DEF Read, Reads
<1>4. reads' = Invalidated(rest, {c}) \cup {new} /\ rest \in SUBSET Reads
  <2>1. {Read(d, "loop") : d \in {c}} = {new}
    BY <1>2
  <2> QED BY <1>1, <1>2, <2>1 DEF Taken
<1>5. OfLoop(rest) = OfLoop(reads) \ {r}
  BY <1>2 DEF OfLoop
<1>6. IsFiniteSet(OfLoop(rest)) /\ Cardinality(OfLoop(rest)) = Cardinality(OfLoop(reads)) - 1
  BY <1>1, <1>5, FS_RemoveElement
<1>7. /\ Invalidated(rest, {c}) \in SUBSET Reads
      /\ IsFiniteSet(OfLoop(Invalidated(rest, {c})))
      /\ Cardinality(OfLoop(Invalidated(rest, {c}))) <= Cardinality(OfLoop(rest))
  BY <1>4, <1>6, InvalidatedIs, InvalidatedOfLoop
<1>8. OfLoop(reads') = OfLoop(Invalidated(rest, {c})) \cup {new}
  BY <1>3, <1>4 DEF OfLoop
<1>9. /\ IsFiniteSet(OfLoop(reads')) /\ Cardinality(OfLoop(reads')) <= Workers
      /\ OfLoop(reads') # {}
  <2>1. PICK S : S = OfLoop(Invalidated(rest, {c})) /\ IsFiniteSet(S)
    BY <1>7
  <2>2. /\ IsFiniteSet(S \cup {new}) /\ Cardinality(S) \in Nat
        /\ Cardinality(S \cup {new}) \in {Cardinality(S), Cardinality(S) + 1}
    BY <2>1, FS_AddElement, FS_CardinalityType
  <2>3. Cardinality(S) <= Cardinality(OfLoop(reads)) - 1
    BY <1>6, <1>7, <2>1
  <2>4. Cardinality(S \cup {new}) <= Workers
    BY <1>1, <2>2, <2>3
  <2> QED BY <1>8, <2>1, <2>2, <2>4
<1>10. loop' = [state |-> loop.state, answer |-> loop.answer, todo |-> loop.todo \ {c}, again |-> loop.again]
  BY <1>1 DEF Loops
<1>11. /\ loop' \in Loops /\ loop'.state = "graphs" /\ loop'.answer = loop.answer
       /\ loop'.todo = loop.todo \ {c}
  BY <1>1, <1>10 DEF Loops
<1>12. ASSUME NEW d, (\E q \in reads \ {r} : q.case = d /\ q.latest) \/ d \in loop.todo
       PROVE  Awaited(d)' \/ d \in loop'.todo
  <2>1. CASE d = c
    BY <1>3, <1>4, <2>1 DEF Awaited
  <2>2. CASE d # c /\ d \in loop.todo
    BY <1>11, <2>2
  <2>3. CASE d # c /\ \E q \in reads \ {r} : q.case = d /\ q.latest
    <3>1. PICK q \in rest : q.case = d /\ q.latest
      BY <1>2, <2>3
    <3>2. q \in Invalidated(rest, {c})
      BY <1>4, <2>3, <3>1, InvalidatedIs
    <3> QED BY <1>4, <3>1, <3>2 DEF Awaited
  <2> QED BY <1>12, <2>1, <2>2, <2>3
<1>13. ASSUME NEW q \in reads', q.n # 0
       PROVE  \E p \in reads \ {r} :
                /\ q.case = p.case /\ q.n = p.n
                /\ q.latest => p.latest /\ (p.case \in loop.todo => p.case \in loop'.todo)
  <2>1. q \in Invalidated(rest, {c})
    BY <1>3, <1>4, <1>13
  <2>2. PICK p \in rest : q.case = p.case /\ q.n = p.n /\ (q.latest => q = p /\ p.case \notin {c})
    BY <1>4, <2>1, InvalidatedIs
  <2> QED BY <1>2, <1>11, <2>2
<1>14. reads' \in SUBSET Reads
  BY <1>3, <1>4, <1>7
<1> QED BY <1>9, <1>11, <1>12, <1>13, <1>14 DEF GoneOn

\* A read that is over is no longer there; the last one of a pass ends it.
LEMMA WorkerGoneOn ==
    ASSUME ListInv, NEW r \in reads, NEW shown, WorkerGoesOn(r, shown)
    PROVE  GoneOn(r)
<1>1. /\ loop \in Loops /\ reads \in SUBSET Reads /\ page.active \in BOOLEAN
      /\ IsFiniteSet(OfLoop(reads)) /\ Cardinality(OfLoop(reads)) <= Workers /\ Workers \in Nat
      /\ Cardinality(OfLoop(reads)) \in Nat
      /\ OfLoop(reads) # {} <=> loop.state = "graphs"
      /\ loop.state # "graphs" => loop.todo = {}
  BY FS_CardinalityType, LiveListAssumption DEF ListInv, LiveTypeOK, LivePages
<1>2. CASE r.owner = "loop" /\ loop.todo # {}
  <2>1. PICK c \in loop.todo : reads' = Taken(reads \ {r}, {c}) /\ loop' = [loop EXCEPT !.todo = @ \ {c}]
    BY <1>2 DEF WorkerGoesOn
  <2> QED BY <1>2, <2>1, TakesNext
<1>3. CASE ~(r.owner = "loop" /\ loop.todo # {})
  <2>1. reads' = reads \ {r}
    BY <1>3 DEF WorkerGoesOn
  <2>2. /\ reads' \in SUBSET Reads /\ IsFiniteSet(OfLoop(reads')) /\ Cardinality(OfLoop(reads')) <= Workers
    <3>1. OfLoop(reads') \in SUBSET OfLoop(reads)
      BY <2>1 DEF OfLoop
    <3>2. IsFiniteSet(OfLoop(reads')) /\ Cardinality(OfLoop(reads')) <= Cardinality(OfLoop(reads))
      BY <1>1, <3>1, FS_Subset
    <3>3. Cardinality(OfLoop(reads')) \in Nat
      BY <3>2, FS_CardinalityType
    <3> QED BY <1>1, <2>1, <3>2, <3>3
  <2>3. /\ loop' \in Loops /\ loop'.answer \in {loop.answer, None} /\ loop'.todo = loop.todo
        /\ OfLoop(reads') # {} <=> loop'.state = "graphs"
        /\ loop'.state # "graphs" => loop'.todo = {}
    <3>1. CASE r.owner # "loop"
      <4>1. loop' = loop /\ OfLoop(reads') = OfLoop(reads)
        BY <2>1, <3>1 DEF WorkerGoesOn, OfLoop
      <4> QED BY <1>1, <4>1
    <3>2. CASE r.owner = "loop" /\ OfLoop(reads) = {r}
      <4>1. loop' = PassEnds(loop, page.active) /\ OfLoop(reads') = {} /\ loop.todo = {}
        BY <1>3, <2>1, <3>2 DEF WorkerGoesOn, OfLoop
      <4> QED BY <1>1, <4>1, PassEndsIs
    <3>3. CASE r.owner = "loop" /\ OfLoop(reads) # {r}
      <4>1. loop' = loop /\ loop.todo = {}
        BY <1>3, <3>3 DEF WorkerGoesOn
      <4>2. r \in OfLoop(reads) /\ OfLoop(reads') = OfLoop(reads) \ {r}
        BY <2>1, <3>3 DEF OfLoop
      <4> QED BY <1>1, <3>3, <4>1, <4>2
    <3> QED BY <3>1, <3>2, <3>3
  <2>4. \A c : (\E q \in reads \ {r} : q.case = c /\ q.latest) \/ c \in loop.todo
              => Awaited(c)' \/ c \in loop'.todo
    BY <2>1, <2>3 DEF Awaited
  <2>5. \A q \in reads' : \E p \in reads \ {r} :
            /\ q.case = p.case /\ q.n = p.n
            /\ q.latest => p.latest /\ (p.case \in loop.todo => p.case \in loop'.todo)
    BY <2>1, <2>3
  <2> QED BY <2>2, <2>3, <2>4, <2>5 DEF GoneOn
<1> QED BY <1>2, <1>3

\* The invariant after a read is over, if what is shown then is listed, was committed,
\* and is as new as the list says unless something else will show it or one failed.
LEMMA GoesOnKeeps ==
    ASSUME ListInv, NEW r \in reads, NEW shown \in Counts, WorkerGoesOn(r, shown),
           log' = log, failures' \in Nat, failures <= failures',
           ~page.active => shown = Nothing,
           \A c \in Cases :
             /\ shown[c] <= Committed(c)
             /\ shown[c] # 0 => page.snapshot # None /\ page.snapshot.incidents[c] # 0,
           page.snapshot # None => \A c \in Cases :
             shown[c] < page.snapshot.incidents[c] =>
               \/ \E q \in reads \ {r} : q.case = c /\ q.latest
               \/ c \in loop.todo
               \/ shown[c] = 0 /\ failures' > 0
    PROVE  ListInv'
<1>1. GoneOn(r)
  BY WorkerGoneOn
<1>2. page \in LivePages /\ failures \in Nat
  BY DEF ListInv, LiveTypeOK
<1>3. page' = [active |-> page.active, snapshot |-> page.snapshot, shown |-> shown,
               connection |-> page.connection, sub |-> page.sub, timer |-> page.timer]
  BY <1>2 DEF WorkerGoesOn, LivePages
<1>4. /\ page' \in LivePages /\ page'.active = page.active
      /\ page'.snapshot = page.snapshot /\ page'.shown = shown
      /\ page'.sub = page.sub
  BY <1>2, <1>3 DEF LivePages
<1>5. LogInv' /\ LiveTypeOK' /\ failures' \in Nat /\ IsFiniteSet(OfLoop(reads))'
      /\ (loop.state # "graphs" => loop.todo = {})'
  BY <1>1, <1>4 DEF ListInv, LogInv, LiveTypeOK, GoneOn
<1>6. Faithful(page.snapshot)' /\ Faithful(loop.answer)'
  BY <1>1, <1>4 DEF ListInv, Faithful, GoneOn
<1>7. StreamInv' /\ HiddenInv'
  BY <1>4 DEF ListInv, StreamInv, HiddenInv, Nothing
<1>8. ShownInv'
  BY <1>4 DEF ShownInv, Committed
<1>9. Due'
  BY <1>1, <1>4 DEF Due, GoneOn
<1>10. AnswersInv'
  <2> SUFFICES ASSUME NEW q \in reads'
               PROVE  /\ q.n <= Committed(q.case)
                      /\ q.latest /\ q.n # 0 /\ page.snapshot # None =>
                            page.snapshot.incidents[q.case] <= q.n \/ q.case \in loop'.todo
    BY <1>4 DEF AnswersInv, Committed
  <2>1. CASE q.n = 0
    <3>1. Committed(q.case) \in Nat
      BY WholeLog DEF ListInv, LogInv
    <3> QED BY <2>1, <3>1
  <2>2. CASE q.n # 0
    <3>1. PICK p \in reads \ {r} :
            /\ q.case = p.case /\ q.n = p.n
            /\ q.latest => p.latest /\ (p.case \in loop.todo => p.case \in loop'.todo)
      BY <1>1, <2>2 DEF GoneOn
    <3> QED BY <2>2, <3>1 DEF ListInv, AnswersInv
  <2> QED BY <2>1, <2>2
<1> QED BY <1>5, <1>6, <1>7, <1>8, <1>9, <1>10 DEF ListInv

\* An answer is shown if it counts and is of the incident as it is listed.
LEMMA ReadArrivesKeeps ==
    ASSUME ListInv, NEW r \in reads, GraphArrives(r)
    PROVE  ListInv'
<1>1. /\ page \in LivePages /\ r \in Reads /\ failures \in Nat /\ page.shown \in Counts /\ MaxEvents \in Nat
      /\ r.case \in Cases /\ r.n \in 1..MaxEvents /\ r.n <= Committed(r.case)
      /\ \A c \in Cases : Committed(c) \in Nat /\ page.shown[c] \in Nat
  BY WholeLog, LiveListAssumption DEF ListInv, LiveTypeOK, LogInv, AnswersInv, LivePages, Reads,
      GraphArrives, Counts
<1>2. PICK shown : shown = ShownAfter(r)
  OBVIOUS
<1>3. WorkerGoesOn(r, shown) /\ UNCHANGED <<log, failures>>
  BY <1>2 DEF GraphArrives
<1>4. ASSUME NEW c \in Cases
      PROVE  Without(page.shown, {r.case})[c] = IF c = r.case THEN 0 ELSE page.shown[c]
  BY DEF Without
<1>5. Without(page.shown, {r.case}) \in Counts
  BY <1>1 DEF Without, Counts
<1>6. page.snapshot # None => page.snapshot.incidents \in Counts
  BY <1>1 DEF LivePages, Snapshots
<1>7. CASE ~r.latest \/ ~page.active
  <2>1. shown = page.shown
    BY <1>2, <1>7 DEF ShownAfter
  <2>2. \A c \in Cases : Awaited(c) /\ page.snapshot # None => \E q \in reads \ {r} : q.case = c /\ q.latest
    BY <1>7 DEF Awaited, ListInv, HiddenInv
  <2>3. page.snapshot # None => \A c \in Cases :
             shown[c] < page.snapshot.incidents[c] =>
               \/ \E q \in reads \ {r} : q.case = c /\ q.latest
               \/ c \in loop.todo
               \/ shown[c] = 0 /\ failures' > 0
    BY <1>3, <2>1, <2>2 DEF ListInv, Due
  <2> QED BY <1>1, <1>3, <2>1, <2>3, GoesOnKeeps DEF ListInv, ShownInv, HiddenInv
<1>8. CASE r.latest /\ page.active /\ page.snapshot = None
  <2>1. shown = Without(page.shown, {r.case})
    BY <1>2, <1>8 DEF ShownAfter
  <2>2. \A c \in Cases :
             /\ shown[c] <= Committed(c)
             /\ shown[c] # 0 => page.snapshot # None /\ page.snapshot.incidents[c] # 0
    BY <1>1, <1>4, <2>1 DEF ListInv, ShownInv
  <2> QED BY <1>1, <1>3, <1>5, <1>8, <2>1, <2>2, GoesOnKeeps
<1>9. CASE r.latest /\ page.active /\ page.snapshot # None
  <2>1. /\ shown \in Counts
        /\ \A c \in Cases \ {r.case} : shown[c] = page.shown[c]
        /\ IF page.snapshot.incidents[r.case] \in 1..r.n THEN shown[r.case] = r.n ELSE shown[r.case] = 0
    <3>1. CASE page.snapshot.incidents[r.case] \in 1..r.n
      <4>1. shown = [page.shown EXCEPT ![r.case] = r.n]
        BY <1>2, <1>9, <3>1 DEF ShownAfter
      <4> QED BY <1>1, <3>1, <4>1 DEF Counts
    <3>2. CASE page.snapshot.incidents[r.case] \notin 1..r.n
      <4>1. shown = Without(page.shown, {r.case})
        BY <1>2, <1>9, <3>2 DEF ShownAfter
      <4> QED BY <1>1, <1>4, <1>5, <3>2, <4>1
    <3> QED BY <3>1, <3>2
  <2>2. \A c \in Cases :
             /\ shown[c] <= Committed(c)
             /\ shown[c] # 0 => page.snapshot # None /\ page.snapshot.incidents[c] # 0
    <3> TAKE c \in Cases
    <3>1. CASE c = r.case
      BY <1>1, <1>9, <2>1, <3>1
    <3>2. CASE c # r.case
      BY <2>1, <3>2 DEF ListInv, ShownInv
    <3> QED BY <3>1, <3>2
  <2>3. \A c \in Cases :
             shown[c] < page.snapshot.incidents[c] =>
               \/ \E q \in reads \ {r} : q.case = c /\ q.latest
               \/ c \in loop.todo
               \/ shown[c] = 0 /\ failures' > 0
    <3> TAKE c \in Cases
    <3> HAVE shown[c] < page.snapshot.incidents[c]
    <3>1. page.snapshot.incidents[c] \in Nat
      BY <1>1, <1>6, <1>9 DEF Counts
    <3>2. CASE c = r.case
      <4>1. ~(page.snapshot.incidents[c] <= r.n)
        BY <1>1, <2>1, <3>1, <3>2
      <4> QED BY <1>1, <1>9, <3>2, <4>1 DEF ListInv, AnswersInv
    <3>3. CASE c # r.case
      <4>1. shown[c] = page.shown[c]
        BY <2>1, <3>3
      <4>2. Awaited(c) => \E q \in reads \ {r} : q.case = c /\ q.latest
        BY <3>3 DEF Awaited
      <4> QED BY <1>3, <1>9, <4>1, <4>2 DEF ListInv, Due
    <3> QED BY <3>2, <3>3
  <2> QED BY <1>1, <1>3, <1>9, <2>1, <2>2, <2>3, GoesOnKeeps
<1> QED BY <1>7, <1>8, <1>9

\* A read that fails takes its graph away, which the failures say.
LEMMA ReadFailsKeeps ==
    ASSUME ListInv, NEW r \in reads, GraphFails(r)
    PROVE  ListInv'
<1>1. /\ page \in LivePages /\ r \in Reads /\ failures \in Nat /\ page.shown \in Counts /\ MaxEvents \in Nat
      /\ \A c \in Cases : Committed(c) \in Nat /\ page.shown[c] \in Nat
  BY WholeLog, LiveListAssumption DEF ListInv, LiveTypeOK, LogInv, LivePages, Counts
<1>2. PICK shown : shown = IF r.latest THEN Without(page.shown, {r.case}) ELSE page.shown
  OBVIOUS
<1>3. WorkerGoesOn(r, shown) /\ log' = log /\ failures' = failures + 1
  BY <1>2 DEF GraphFails, Fails
<1>4. /\ shown \in Counts
      /\ \A c \in Cases : shown[c] = IF r.latest /\ c = r.case THEN 0 ELSE page.shown[c]
  BY <1>1, <1>2 DEF Without, Counts
<1>5. ~page.active => shown = Nothing
  <2> HAVE ~page.active
  <2>1. \A c \in Cases : page.shown[c] = 0
    BY DEF ListInv, HiddenInv, Nothing
  <2> QED BY <1>4, <2>1 DEF Nothing, Counts
<1>6. \A c \in Cases :
             /\ shown[c] <= Committed(c)
             /\ shown[c] # 0 => page.snapshot # None /\ page.snapshot.incidents[c] # 0
  BY <1>1, <1>4 DEF ListInv, ShownInv
<1>7. page.snapshot # None => \A c \in Cases :
             shown[c] < page.snapshot.incidents[c] =>
               \/ \E q \in reads \ {r} : q.case = c /\ q.latest
               \/ c \in loop.todo
               \/ shown[c] = 0 /\ failures' > 0
  <2> HAVE page.snapshot # None
  <2> TAKE c \in Cases
  <2> HAVE shown[c] < page.snapshot.incidents[c]
  <2>1. CASE r.latest /\ c = r.case
    BY <1>1, <1>3, <1>4, <2>1
  <2>2. CASE ~(r.latest /\ c = r.case)
    <3>1. shown[c] = page.shown[c]
      BY <1>4, <2>2
    <3>2. Awaited(c) => \E q \in reads \ {r} : q.case = c /\ q.latest
      BY <2>2 DEF Awaited
    <3> QED BY <1>1, <1>3, <3>1, <3>2 DEF ListInv, Due
  <2> QED BY <2>1, <2>2
<1> QED BY <1>1, <1>3, <1>4, <1>5, <1>6, <1>7, GoesOnKeeps

-----------------------------------------------------------------------------
(* The snapshot arrives.                                                   *)

\* A page that was hidden meanwhile has no use for it.
LEMMA SnapshotUnusedKeeps ==
    ASSUME ListInv, SnapshotArrives, ~page.active
    PROVE  ListInv'
<1>1. page \in LivePages /\ loop \in Loops /\ failures \in Nat /\ loop.todo = {} /\ loop.state = "snapshot"
  BY DEF ListInv, LiveTypeOK, SnapshotArrives
<1>2. UNCHANGED <<log, page, reads, failures>> /\ loop' = Idle
  BY DEF SnapshotArrives
<1>3. {} \in SUBSET Cases /\ None \in Snapshots \cup {None} /\ "idle" \in {"idle", "snapshot", "graphs"}
  OBVIOUS
<1>4. Idle \in Loops /\ Idle.answer = None /\ Idle.todo = {} /\ Idle.state # "graphs"
  BY <1>3 DEF Idle, Loops
<1>5. Faithful(loop'.answer) /\ StreamInv'
  BY <1>2, <1>4 DEF ListInv, Faithful, StreamInv
<1> QED BY <1>1, <1>2, <1>4, <1>5, QuietKeeps

\* The page takes it over, drops the graphs that do not belong to it, follows the log
\* behind it and reads what it lists.
LEMMA SnapshotTakenKeeps ==
    ASSUME ListInv, SnapshotArrives, page.active
    PROVE  ListInv'
<1>1. PICK s, listed, new, gone :
        /\ s = loop.answer /\ listed = {c \in Cases : s.incidents[c] # 0}
        /\ new = [page EXCEPT !.snapshot = s, !.connection = "connected", !.timer = FALSE]
        /\ gone = Foreign(new)
  OBVIOUS
<1>2. /\ page \in LivePages /\ loop \in Loops /\ failures \in Nat /\ reads \in SUBSET Reads
      /\ log \in Seq(Events) /\ MaxEvents \in Nat /\ Workers \in Nat \ {0}
      /\ OfLoop(reads) = {} /\ loop.state = "snapshot" /\ page.shown \in Counts
      /\ page.active = TRUE /\ page.connection \in Connections
  BY LiveListAssumption DEF ListInv, LiveTypeOK, LogInv, SnapshotArrives, LivePages
<1>3. s \in Snapshots /\ s # None /\ s.at \in 0..MaxEvents /\ s.incidents \in Counts
      /\ s.at <= Len(log) /\ s.incidents = ListedAt(log, s.at)
  BY <1>1, <1>2 DEF SnapshotArrives, Loops, Snapshots, ListInv, Faithful
<1>4. /\ new = [active |-> page.active, snapshot |-> s, shown |-> page.shown,
                connection |-> "connected", sub |-> page.sub, timer |-> FALSE]
      /\ new.shown = page.shown /\ new.snapshot = s
  <2>1. /\ DOMAIN new = {"active", "snapshot", "shown", "connection", "sub", "timer"}
        /\ new.active = page.active /\ new.snapshot = s /\ new.shown = page.shown
        /\ new.connection = "connected" /\ new.sub = page.sub /\ new.timer = FALSE
    BY <1>1, <1>2 DEF LivePages
  <2> QED BY <1>1, <2>1
<1>5. PICK first \in SUBSET listed :
        /\ Cardinality(first) <= Workers
        /\ first = listed \/ Cardinality(first) = Workers
        /\ page' = Subscribed([new EXCEPT !.shown = Without(@, gone)])
        /\ reads' = Taken(Invalidated(reads, gone), first)
        /\ loop' = IF listed = {} THEN PassEnds(loop, TRUE)
                   ELSE [loop EXCEPT !.state = "graphs", !.answer = None, !.todo = listed \ first]
  BY <1>1 DEF SnapshotArrives
<1>6. UNCHANGED <<log, failures>>
  BY DEF SnapshotArrives
<1>7. PICK shown, sub :
        /\ shown = Without(page.shown, gone)
        /\ sub = [at |-> s.at, state |-> "opening"]
  OBVIOUS
<1>8. sub \in LiveStreams /\ sub # None /\ sub.at = s.at
  BY <1>3, <1>7, LiveListAssumption DEF LiveStreams
<1>9. /\ shown \in Counts
      /\ \A c \in Cases : shown[c] = IF c \in gone THEN 0 ELSE page.shown[c]
      /\ \A c \in Cases : page.shown[c] \in Nat
  BY <1>2, <1>7 DEF Without, Counts
<1>10. \A c \in Cases : c \in gone <=>
         page.shown[c] # 0 /\ (s.incidents[c] = 0 \/ page.shown[c] < s.incidents[c])
  BY <1>1, <1>4 DEF Foreign
<1>11. /\ page' \in LivePages /\ page'.active /\ page'.snapshot = s /\ page'.shown = shown
       /\ page'.sub = sub
  <2>1. [new EXCEPT !.shown = Without(@, gone)] =
          [active |-> page.active, snapshot |-> s, shown |-> shown,
           connection |-> "connected", sub |-> page.sub, timer |-> FALSE]
    <3>1. [new EXCEPT !.shown = Without(@, gone)] = [new EXCEPT !.shown = shown]
      BY <1>4, <1>7
    <3>2. PICK x : x = [new EXCEPT !.shown = shown]
      OBVIOUS
    <3>3. /\ DOMAIN x = {"active", "snapshot", "shown", "connection", "sub", "timer"}
          /\ x.active = page.active /\ x.snapshot = s /\ x.shown = shown
          /\ x.connection = "connected" /\ x.sub = page.sub /\ x.timer = FALSE
      BY <1>4, <3>2
    <3>4. x = [active |-> page.active, snapshot |-> s, shown |-> shown,
               connection |-> "connected", sub |-> page.sub, timer |-> FALSE]
      BY <3>2, <3>3
    <3> QED BY <3>1, <3>2, <3>4
  <2>2. PICK p : p = [new EXCEPT !.shown = Without(@, gone)]
    OBVIOUS
  <2>3. p.snapshot = s
    BY <2>1, <2>2
  <2>4. page' = [p EXCEPT !.sub = sub]
    BY <1>5, <1>7, <2>2, <2>3 DEF Subscribed
  <2>5. page' = [active |-> page.active, snapshot |-> s, shown |-> shown,
                 connection |-> "connected", sub |-> sub, timer |-> FALSE]
    BY <2>1, <2>2, <2>4
  <2>6. "connected" \in Connections /\ page.active \in BOOLEAN
    BY <1>2 DEF Connections
  <2> QED BY <1>2, <1>3, <1>8, <1>9, <2>5, <2>6 DEF LivePages
<1>12. PICK rest, firsts :
         /\ rest = Invalidated(Invalidated(reads, gone), first)
         /\ firsts = {Read(c, "loop") : c \in first}
  OBVIOUS
<1>13. /\ rest \in SUBSET Reads /\ OfLoop(rest) = {}
       /\ \A q \in rest : \E r \in reads : /\ q.case = r.case /\ q.n = r.n
                                           /\ q.latest => r.latest /\ q.case \notin first
  <2>1. PICK mid : mid = Invalidated(reads, gone)
    OBVIOUS
  <2>2. IsFiniteSet(OfLoop(reads))
    BY DEF ListInv
  <2>3. /\ mid \in SUBSET Reads
        /\ \A q \in mid : \E r \in reads : q.case = r.case /\ q.n = r.n /\ (q.latest => q = r)
        /\ OfLoop(mid) = {} /\ IsFiniteSet(OfLoop(mid))
    <3>1. /\ mid \in SUBSET Reads
          /\ \A q \in mid : \E r \in reads : q.case = r.case /\ q.n = r.n /\ (q.latest => q = r /\ r.case \notin gone)
      BY <1>2, <2>1, InvalidatedIs
    <3>2. OfLoop(mid) = {} <=> OfLoop(reads) = {}
      BY <1>2, <2>1, <2>2, InvalidatedOfLoop
    <3>3. IsFiniteSet({})
      BY FS_EmptySet
    <3> QED BY <1>2, <3>1, <3>2, <3>3
  <2>4. /\ rest \in SUBSET Reads
        /\ \A q \in rest : \E r \in mid : q.case = r.case /\ q.n = r.n /\ (q.latest => q = r /\ r.case \notin first)
        /\ OfLoop(rest) = {}
    <3>1. rest = Invalidated(mid, first)
      BY <1>12, <2>1
    <3>2. /\ rest \in SUBSET Reads
          /\ \A q \in rest : \E r \in mid : q.case = r.case /\ q.n = r.n /\ (q.latest => q = r /\ r.case \notin first)
      BY <2>3, <3>1, InvalidatedIs
    <3>3. OfLoop(rest) = {} <=> OfLoop(mid) = {}
      BY <2>3, <3>1, InvalidatedOfLoop
    <3> QED BY <2>3, <3>2, <3>3
  <2> QED BY <2>3, <2>4
<1>14. IsFiniteSet(first) /\ Cardinality(first) \in Nat /\ first \in SUBSET Cases
  <2>1. s.at \in Nat /\ listed = {c \in Cases : ListedAt(log, s.at)[c] # 0}
    BY <1>1, <1>2, <1>3
  <2>2. IsFiniteSet(listed)
    BY <2>1, ListedFinite
  <2>3. IsFiniteSet(first)
    BY <2>2, FS_Subset
  <2> QED BY <1>1, <2>3, FS_CardinalityType
<1>15. /\ reads' = rest \cup firsts
       /\ firsts \in SUBSET Reads /\ OfLoop(firsts) = firsts /\ IsFiniteSet(firsts)
       /\ Cardinality(firsts) <= Workers
       /\ \A q \in firsts : q.n = 0 /\ q.latest
       /\ \A c \in first : \E q \in firsts : q.case = c /\ q.latest
  <2>1. /\ firsts \in SUBSET Reads /\ OfLoop(firsts) = firsts /\ IsFiniteSet(firsts)
        /\ Cardinality(firsts) <= Cardinality(first)
    BY <1>12, <1>14, LoopReads
  <2>2. Cardinality(firsts) \in Nat
    BY <2>1, FS_CardinalityType
  <2>3. reads' = rest \cup firsts
    BY <1>5, <1>12 DEF Taken
  <2>4. \A c \in first : Read(c, "loop").n = 0 /\ Read(c, "loop").latest /\ Read(c, "loop").case = c
    BY DEF Read
  <2> QED BY <1>2, <1>5, <1>12, <1>14, <2>1, <2>2, <2>3, <2>4
<1>16. /\ OfLoop(reads') = firsts /\ reads' \in SUBSET Reads
  BY <1>13, <1>15 DEF OfLoop
<1>17. firsts # {} <=> listed # {}
  <2>1. CASE first = {}
    <3>1. Cardinality(first) = 0
      BY <2>1, FS_EmptySet
    <3> QED BY <1>2, <1>5, <1>12, <2>1, <3>1
  <2>2. CASE first # {}
    BY <1>5, <1>12, <2>2
  <2> QED BY <2>1, <2>2
<1>18. /\ loop' \in Loops /\ loop'.answer = None
       /\ firsts # {} <=> loop'.state = "graphs"
       /\ loop'.state # "graphs" => loop'.todo = {}
       /\ \A c \in listed : c \in first \/ c \in loop'.todo
  <2>1. CASE listed = {}
    <3>1. loop' = PassEnds(loop, TRUE)
      BY <1>5, <2>1
    <3>2. PICK active \in BOOLEAN : active = TRUE
      OBVIOUS
    <3>3. loop' = PassEnds(loop, active)
      BY <3>1, <3>2
    <3> QED BY <1>2, <1>17, <2>1, <3>2, <3>3, PassEndsIs
  <2>2. CASE listed # {}
    <3>1. loop' = [loop EXCEPT !.state = "graphs", !.answer = None, !.todo = listed \ first]
      BY <1>5, <2>2
    <3>2. /\ DOMAIN loop' = {"state", "answer", "todo", "again"}
          /\ loop'.state = "graphs" /\ loop'.answer = None /\ loop'.todo = listed \ first
          /\ loop'.again = loop.again /\ loop.again \in BOOLEAN
      BY <1>2, <3>1 DEF Loops
    <3>3. loop' = [state |-> "graphs", answer |-> None, todo |-> listed \ first, again |-> loop.again]
      BY <3>1, <3>2
    <3>4. listed \ first \in SUBSET Cases
      BY <1>1
    <3>5. loop' \in Loops
      BY <3>2, <3>3, <3>4 DEF Loops
    <3> QED BY <1>17, <2>2, <3>2, <3>5
  <2> QED BY <2>1, <2>2
<1>19. LogInv' /\ LiveTypeOK' /\ failures' \in Nat /\ IsFiniteSet(OfLoop(reads))'
       /\ (loop.state # "graphs" => loop.todo = {})'
  BY <1>2, <1>6, <1>11, <1>15, <1>16, <1>18 DEF ListInv, LogInv, LiveTypeOK
<1>20. Faithful(page.snapshot)' /\ Faithful(loop.answer)'
  BY <1>3, <1>6, <1>11, <1>18 DEF Faithful
<1>21. StreamInv' /\ HiddenInv'
  BY <1>2, <1>3, <1>6, <1>8, <1>11 DEF StreamInv, HiddenInv
<1>22. ShownInv'
  <2> SUFFICES ASSUME NEW c \in Cases
               PROVE  /\ shown[c] <= Committed(c)'
                      /\ shown[c] # 0 => s # None /\ s.incidents[c] # 0
    BY <1>11 DEF ShownInv
  <2>1. Committed(c)' = Committed(c) /\ Committed(c) \in Nat
    BY <1>2, <1>6, WholeLog DEF Committed
  <2>2. page.shown[c] <= Committed(c)
    BY DEF ListInv, ShownInv
  <2> QED BY <1>3, <1>9, <1>10, <2>1, <2>2
<1>23. Due'
  <2> SUFFICES ASSUME NEW c \in Cases, shown[c] < s.incidents[c]
               PROVE  Awaited(c)' \/ c \in loop'.todo
    BY <1>11 DEF Due
  <2>1. s.incidents[c] \in Nat /\ shown[c] \in Nat
    BY <1>3, <1>9 DEF Counts
  <2>2. c \in listed
    BY <1>1, <2>1
  <2>3. c \in first => Awaited(c)'
    BY <1>15 DEF Awaited
  <2> QED BY <1>18, <2>2, <2>3
<1>24. AnswersInv'
  <2> SUFFICES ASSUME NEW q \in reads'
               PROVE  /\ q.n <= Committed(q.case)'
                      /\ q.latest /\ q.n # 0 => s.incidents[q.case] <= q.n \/ q.case \in loop'.todo
    BY <1>11 DEF AnswersInv
  <2>1. Committed(q.case)' = Committed(q.case) /\ Committed(q.case) \in Nat
    BY <1>2, <1>6, WholeLog DEF Committed
  <2>2. CASE q \in firsts
    BY <1>15, <2>1, <2>2
  <2>3. CASE q \in rest
    <3>1. PICK r \in reads : q.case = r.case /\ q.n = r.n /\ (q.latest => r.latest /\ q.case \notin first)
      BY <1>13, <2>3
    <3>2. q.n <= Committed(q.case)
      BY <3>1 DEF ListInv, AnswersInv
    <3>3. q.case \in Cases /\ q.n \in Nat
      BY <1>13, <2>3 DEF Reads
    <3>4. q.case \notin listed => s.incidents[q.case] = 0
      BY <1>1, <3>3
    <3> QED BY <1>18, <2>1, <3>1, <3>2, <3>3, <3>4
  <2> QED BY <1>15, <2>2, <2>3
<1> QED BY <1>19, <1>20, <1>21, <1>22, <1>23, <1>24 DEF ListInv

-----------------------------------------------------------------------------
(* All steps.                                                              *)

\* A page that was just opened shows nothing of an empty log.
LEMMA InitList ==
    LiveInit => ListInv
<1> SUFFICES ASSUME LiveInit PROVE ListInv
  OBVIOUS
<1>1. MaxEvents \in Nat /\ Workers \in Nat
  BY LiveListAssumption
<1>2. /\ log = <<>> /\ page = NewPage /\ loop = Idle /\ reads = {} /\ failures = 0
  BY DEF LiveInit
<1>3. log \in Seq(Events) /\ Len(log) = 0 /\ 1..Len(log) = {}
  BY <1>2
<1>4. LogInv
  BY <1>1, <1>3 DEF LogInv
<1>5. Nothing \in Counts /\ \A c \in Cases : Nothing[c] = 0
  BY <1>1 DEF Nothing, Counts
<1>6. page \in LivePages /\ ~page.active /\ page.snapshot = None /\ page.shown = Nothing /\ page.sub = None
  <2>1. "connecting" \in Connections /\ None \in Snapshots \cup {None} /\ None \in LiveStreams \cup {None}
    BY DEF Connections
  <2> QED BY <1>2, <1>5, <2>1 DEF NewPage, LivePages
<1>7. {} \in SUBSET Cases /\ None \in Snapshots \cup {None} /\ "idle" \in {"idle", "snapshot", "graphs"}
  OBVIOUS
<1>8. loop \in Loops /\ loop.answer = None /\ loop.todo = {} /\ loop.state = "idle"
  BY <1>2, <1>7 DEF Idle, Loops
<1>9. OfLoop(reads) = {} /\ IsFiniteSet(OfLoop(reads)) /\ Cardinality(OfLoop(reads)) = 0
  BY <1>2, FS_EmptySet DEF OfLoop
<1>10. LiveTypeOK
  BY <1>1, <1>2, <1>6, <1>8, <1>9 DEF LiveTypeOK
<1>11. ShownInv
  BY <1>3, <1>5, <1>6, WholeLog DEF ShownInv
<1>12. Faithful(page.snapshot) /\ Faithful(loop.answer) /\ StreamInv /\ HiddenInv /\ Due /\ AnswersInv
  BY <1>2, <1>6, <1>8 DEF Faithful, StreamInv, HiddenInv, Due, AnswersInv
<1> QED BY <1>2, <1>4, <1>8, <1>9, <1>10, <1>11, <1>12 DEF ListInv

\* Every step keeps the invariant.
LEMMA NextKeepsList ==
    ListInv /\ [LiveNext]_liveVars => ListInv'
<1> SUFFICES ASSUME ListInv, [LiveNext]_liveVars PROVE ListInv'
  OBVIOUS
<1>1. CASE ActivateList \/ DeactivateList \/ RetryNow \/ RetryTimer
  BY <1>1, ListActivateKeeps, DeactivateKeeps, RetriesKeep
<1>2. CASE \E c \in Cases, resolved \in BOOLEAN : CommitEvent(c, resolved)
  BY <1>2, ListCommitKeeps
<1>3. CASE Hydrating
  <2>1. CASE TakeSnapshot
    BY <2>1, TakeSnapshotKeeps
  <2>2. CASE SnapshotArrives
    BY <2>2, SnapshotUnusedKeeps, SnapshotTakenKeeps
  <2> QED BY <1>3, <2>1, <2>2 DEF Hydrating
<1>4. CASE ReadingGraphs
  BY <1>4, AnswerReadKeeps, ReadArrivesKeeps DEF ReadingGraphs
<1>5. CASE FollowingLive
  <2>1. CASE LiveStreamOpens
    BY <2>1, StreamMovesKeeps
  <2>2. CASE LiveEventArrives
    BY <2>2, EventOldKeeps, EventNewKeeps
  <2> QED BY <1>5, <2>1, <2>2 DEF FollowingLive
<1>6. CASE SnapshotFails \/ LiveStreamFails \/ LiveStreamSlips
  BY <1>6, SnapshotFailsKeeps, StreamMovesKeeps
<1>7. CASE LiveStreamResets
  <2>1. failures \in Nat
    BY DEF ListInv
  <2> QED BY <1>7, <2>1, RehydrateKeeps DEF LiveStreamResets, Fails
<1>8. CASE \E r \in reads : GraphFails(r)
  BY <1>8, ReadFailsKeeps
<1>9. CASE UNCHANGED liveVars
  BY <1>9 DEF liveVars, ListInv, LogInv, LiveTypeOK, Faithful, StreamInv, HiddenInv, ShownInv, Due,
      AnswersInv, Committed, Awaited
<1> QED BY <1>1, <1>2, <1>3, <1>4, <1>5, <1>6, <1>7, <1>8, <1>9 DEF LiveNext

\* Whatever order snapshots, events and graphs come in, the list is what the server
\* said at some place of its log, and a graph that is older than it is still to come.
THEOREM ListInvariant == LiveSpec => []ListInv
<1>1. LiveInit => ListInv
  BY InitList
<1>2. ListInv /\ [LiveNext]_liveVars => ListInv'
  BY NextKeepsList
<1> QED BY <1>1, <1>2, PTL DEF LiveSpec

\* Once everything has arrived, a live page with an open stream lists the incidents as
\* the server does, and shows the graph of each, unless reading one failed.
THEOREM ListIsServers == LiveSpec => []ListAtRest
<1>1. ASSUME ListInv PROVE ListAtRest
  <2>1. SUFFICES ASSUME page.active, loop.state = "idle", reads = {}, LiveStreaming, page.sub.at = Len(log)
                 PROVE  /\ page.snapshot.incidents = Listed
                        /\ \A c \in Cases : page.shown[c] # Listed[c] => page.shown[c] = 0 /\ failures > 0
    BY DEF ListAtRest
  <2>2. log \in Seq(Events) /\ Len(log) \in Nat /\ page \in LivePages /\ loop.todo = {} /\ MaxEvents \in Nat
    BY <1>1, <2>1, LiveListAssumption DEF ListInv, LogInv, LiveTypeOK
  <2>3. page.snapshot # None /\ Len(log) <= page.snapshot.at
    BY <1>1, <2>1, <2>2 DEF ListInv, StreamInv, LiveStreaming
  <2>4. page.snapshot.at \in Nat /\ page.snapshot.incidents \in Counts /\ page.shown \in Counts
    BY <2>2, <2>3 DEF LivePages, Snapshots
  <2>5. page.snapshot.at = Len(log) /\ page.snapshot.incidents = ListedAt(log, Len(log))
    BY <1>1, <2>2, <2>3, <2>4 DEF ListInv, Faithful
  <2>6. page.snapshot.incidents = Listed
    BY <2>2, <2>5, WholeLog
  <2>7. ASSUME NEW c \in Cases, page.shown[c] # Listed[c]
        PROVE  page.shown[c] = 0 /\ failures > 0
    <3>1. Listed[c] \in Nat /\ page.shown[c] \in Nat /\ Committed(c) \in Nat
      BY <2>2, <2>4, <2>6, WholeLog DEF Counts
    <3>2. CASE page.shown[c] < Listed[c]
      BY <1>1, <2>1, <2>2, <2>3, <2>6, <3>2 DEF ListInv, Due, Awaited
    <3>3. CASE page.shown[c] > Listed[c]
      <4>1. page.shown[c] <= Committed(c) /\ Listed[c] # 0
        BY <1>1, <2>6, <3>1, <3>3 DEF ListInv, ShownInv
      <4>2. Listed[c] = Committed(c)
        BY <4>1 DEF Listed
      <4> QED BY <3>1, <3>3, <4>1, <4>2
    <3> QED BY <2>7, <3>1, <3>2, <3>3
  <2> QED BY <2>6, <2>7
<1> QED BY <1>1, ListInvariant, PTL

\* The live page holds what the server sent, and a pass reads no more graphs at once
\* than it has workers.
THEOREM ListTyped == LiveSpec => []LiveTypeOK
<1>1. ListInv => LiveTypeOK
  BY DEF ListInv
<1> QED BY <1>1, ListInvariant, PTL

\* A graph is only shown of an incident that the live page lists.
THEOREM GraphsListed == LiveSpec => []GraphsAreListed
<1>1. ASSUME ListInv PROVE GraphsAreListed
  <2>1. page.snapshot # None => page.active
    BY <1>1 DEF ListInv, HiddenInv
  <2> QED BY <1>1, <2>1 DEF ListInv, ShownInv, GraphsAreListed
<1> QED BY <1>1, ListInvariant, PTL
=============================================================================
