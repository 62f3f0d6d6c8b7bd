--------------------------- MODULE RunViewerProofs ---------------------------
(***************************************************************************)
(* Proofs about RunViewer for every set of runs and every bound on events, *)
(* failures, gestures and retries.                                         *)
(***************************************************************************)
EXTENDS RunViewer, SequenceTheorems, TLAPS

-----------------------------------------------------------------------------
(* The inductive invariant, on a tab t and the events l of each run.       *)

Keys == (Runs \X BOOLEAN \X BOOLEAN) \cup {None}
Answered == [run : Runs \cup {None}, n : Nat]
SharedRuns == [run : Runs, known : SUBSET (Runs \X Nat), full : Nat, last : Nat]
Streams == [run : Runs, at : Nat]
Reads == [run : Runs \cup {None}, key : Keys, answer : Answered \cup {None}]
Hydrates == [run : Runs, n : Nat]

Tabs ==
    [sel : Runs \cup {None}, shared : SharedRuns \cup {None}, stream : Streams \cup {None},
     timer : Runs \cup {None}, state : [run : Runs \cup {None}, bound : BOOLEAN],
     read : Reads \cup {None}, late : SUBSET Keys, inFlight : Keys, succeeded : Keys,
     retry : [run : Runs \cup {None}, attempts : Nat, pending : BOOLEAN],
     hydrates : SUBSET Hydrates, starting : Runs \cup {None, "asked"},
     refused : Runs \cup {None}, broken : BOOLEAN]

\* The known events are of the run, and one of them is the newest: the last
\* full projection does not reach beyond it.
Coherent(shared, l) ==
    /\ \A e \in shared.known : e[1] = shared.run /\ e[2] <= Len(l[shared.run])
    /\ shared.known # {} => \E newest \in shared.known : \A e \in shared.known : e[2] <= newest[2]
    /\ shared.full <= Newest(shared.known)
    /\ shared.last <= Len(l[shared.run])

\* Nothing the tab holds, and nothing on its way to it, is ahead of the run.
Behind(t, l) ==
    /\ t.shared # None => Coherent(t.shared, l)
    /\ t.stream # None => t.stream.at <= Len(l[t.stream.run])
    /\ t.read # None /\ t.read.answer # None /\ t.read.answer.run # None =>
          t.read.answer.n <= Len(l[t.read.answer.run])
    /\ \A h \in t.hydrates : h.n <= Len(l[h.run])

OfSelected(t) ==
    /\ t.stream # None => t.stream.run = t.sel
    /\ t.timer # None => t.timer = t.sel
    /\ t.retry.pending => t.retry.run = t.sel

TabOK(t, l) == t \in Tabs /\ Behind(t, l) /\ OfSelected(t)

Logs == [Runs -> Seq(Kinds)]

ViewerInv ==
    /\ log \in Logs /\ active \in Runs \cup {None}
    /\ TabOK(tab, log)
    /\ failures \in 0..MaxFailures /\ gestures \in 0..MaxGestures

-----------------------------------------------------------------------------
(* Sets of events.                                                         *)

\* The newest of some events is the greatest of their places.
LEMMA NewestIs ==
    ASSUME NEW known \in SUBSET (Runs \X Nat), NEW newest \in known,
           \A e \in known : e[2] <= newest[2]
    PROVE  Newest(known) = newest[2]
<1>1. \A e \in known : e[2] \in Nat
  OBVIOUS
<1>2. newest[2] \in {e[2] : e \in known} /\ known # {}
  OBVIOUS
<1> DEFINE Greatest(n) == \A e \in known : e[2] <= n
           N == CHOOSE n \in {e[2] : e \in known} : Greatest(n)
<1>3. N \in {e[2] : e \in known} /\ Greatest(N)
  <2>1. \E n \in {e[2] : e \in known} : Greatest(n)
    BY <1>2
  <2> HIDE DEF Greatest
  <2> QED BY <2>1
<1>4. N <= newest[2] /\ newest[2] <= N
  BY <1>3
<1>5. N \in Nat /\ newest[2] \in Nat
  BY <1>1, <1>3
<1>6. N = newest[2]
  BY <1>4, <1>5
<1> QED BY <1>2, <1>6 DEF Newest

\* The first n events are coherent with a full projection of as many.
LEMMA EventsCoherent ==
    ASSUME NEW l \in Logs, NEW r \in Runs, NEW n \in Nat, n <= Len(l[r]),
           NEW shared \in SharedRuns, shared.run = r, shared.known = Events(r, n),
           shared.full = n, shared.last <= Len(l[r])
    PROVE  Coherent(shared, l)
<1>1. Len(l[r]) \in Nat
  BY LenProperties DEF Logs
<1>2. \A e \in shared.known : e[1] = r /\ e[2] \in 1..n
  BY DEF Events
<1>3. \A e \in shared.known : e[1] = r /\ e[2] <= Len(l[r])
  BY <1>1, <1>2
<1>4. CASE n = 0
  <2>1. shared.known = {}
    BY <1>2, <1>4
  <2> QED BY <2>1, <1>3, <1>4 DEF Coherent, Newest
<1>5. CASE n # 0
  <2>1. <<r, n>> \in shared.known /\ shared.known \in SUBSET (Runs \X Nat)
    BY <1>5 DEF Events, SharedRuns
  <2>2. \A e \in shared.known : e[2] <= n
    BY <1>2
  <2>3. Newest(shared.known) = n
    BY <2>1, <2>2, NewestIs
  <2> QED BY <2>1, <2>2, <2>3, <1>3 DEF Coherent
<1> QED BY <1>4, <1>5

\* One event more, from the place the stream has reached.
LEMMA EventJoins ==
    ASSUME NEW l \in Logs, NEW shared \in SharedRuns, Coherent(shared, l),
           NEW n \in Nat, n <= Len(l[shared.run]),
           NEW new \in SharedRuns, new.run = shared.run, new.full = shared.full,
           new.known = shared.known \cup {<<shared.run, n>>},
           new.last = IF shared.last > n THEN shared.last ELSE n
    PROVE  Coherent(new, l)
<1>1. shared.known \in SUBSET (Runs \X Nat) /\ new.known \in SUBSET (Runs \X Nat)
      /\ shared.full \in Nat /\ shared.last \in Nat /\ shared.run \in Runs
  BY DEF SharedRuns
<1>2. \A e \in new.known : e[1] = new.run /\ e[2] <= Len(l[new.run])
  BY DEF Coherent
<1>3. new.last <= Len(l[new.run])
  BY DEF Coherent
<1> DEFINE event == <<shared.run, n>>
<1>4. event[2] = n /\ event \in new.known
  OBVIOUS
<1>5. CASE shared.known = {}
  <2>1. \A e \in new.known : e[2] <= event[2]
    BY <1>5
  <2>2. Newest(new.known) = n
    BY <2>1, <1>1, <1>4, NewestIs
  <2>3. shared.full <= 0
    BY <1>5 DEF Coherent, Newest
  <2>4. new.full <= n
    BY <2>3, <1>1
  <2> QED BY <2>1, <2>2, <2>4, <1>2, <1>3, <1>4 DEF Coherent
<1>6. CASE shared.known # {}
  <2>1. PICK newest \in shared.known : \A e \in shared.known : e[2] <= newest[2]
    BY <1>6 DEF Coherent
  <2>2. Newest(shared.known) = newest[2] /\ newest[2] \in Nat /\ newest \in new.known
    BY <2>1, <1>1, NewestIs
  <2>3. shared.full <= newest[2]
    BY <2>2 DEF Coherent
  <2>4. \A e \in shared.known : e[2] \in Nat
    BY <1>1
  <2>5. CASE n <= newest[2]
    <3>1. \A e \in new.known : e[2] <= newest[2]
      BY <2>1, <2>5
    <3>2. Newest(new.known) = newest[2]
      BY <3>1, <2>2, <1>1, NewestIs
    <3> QED BY <3>1, <3>2, <2>2, <2>3, <1>2, <1>3 DEF Coherent
  <2>6. CASE ~(n <= newest[2])
    <3>1. \A e \in new.known : e[2] <= event[2]
      BY <2>1, <2>2, <2>4, <2>6
    <3>2. Newest(new.known) = n
      BY <3>1, <1>4, <1>1, NewestIs
    <3>3. new.full <= n
      BY <2>3, <2>2, <2>6, <1>1
    <3> QED BY <3>1, <3>2, <3>3, <1>2, <1>3, <1>4 DEF Coherent
  <2> QED BY <2>5, <2>6
<1> QED BY <1>5, <1>6

\* Runs only grow, and what was behind a run stays so.
LEMMA LongerLog ==
    ASSUME NEW l \in Logs, NEW m \in Logs, \A r \in Runs : Len(l[r]) <= Len(m[r]),
           NEW t, TabOK(t, l)
    PROVE  TabOK(t, m)
<1>1. \A r \in Runs, n \in Nat : n <= Len(l[r]) => n <= Len(m[r])
  <2>1. \A r \in Runs : Len(l[r]) \in Nat /\ Len(m[r]) \in Nat
    BY LenProperties DEF Logs
  <2> QED BY <2>1
<1>2. ASSUME t.shared # None PROVE Coherent(t.shared, m)
  <2>1. t.shared \in SharedRuns /\ Coherent(t.shared, l)
    BY <1>2 DEF TabOK, Tabs, Behind
  <2>2. t.shared.run \in Runs /\ t.shared.last \in Nat /\ \A e \in t.shared.known : e[2] \in Nat
    BY <2>1 DEF SharedRuns
  <2> QED BY <1>1, <2>1, <2>2 DEF Coherent
<1>3. ASSUME t.stream # None PROVE t.stream.at <= Len(m[t.stream.run])
  <2>1. t.stream \in Streams /\ t.stream.at <= Len(l[t.stream.run])
    BY <1>3 DEF TabOK, Tabs, Behind
  <2> QED BY <1>1, <2>1 DEF Streams
<1>4. ASSUME t.read # None, t.read.answer # None, t.read.answer.run # None
      PROVE  t.read.answer.n <= Len(m[t.read.answer.run])
  <2>1. t.read \in Reads /\ t.read.answer.n <= Len(l[t.read.answer.run])
    BY <1>4 DEF TabOK, Tabs, Behind
  <2>2. t.read.answer \in Answered
    BY <1>4, <2>1 DEF Reads
  <2> QED BY <1>1, <1>4, <2>1, <2>2 DEF Answered
<1>5. ASSUME NEW h \in t.hydrates PROVE h.n <= Len(m[h.run])
  <2>1. h \in Hydrates /\ h.n <= Len(l[h.run])
    BY DEF TabOK, Tabs, Behind
  <2> QED BY <1>1, <2>1 DEF Hydrates
<1>6. Behind(t, m)
  BY <1>2, <1>3, <1>4, <1>5 DEF Behind
<1> QED BY <1>6 DEF TabOK

-----------------------------------------------------------------------------
(* What each operator leaves of a tab.                                     *)

\* A change of the fields that Behind and OfSelected do not read.
LEMMA SameHoldings ==
    ASSUME NEW l, NEW t, TabOK(t, l), NEW u \in Tabs,
           u.sel = t.sel, u.shared = t.shared, u.stream = t.stream, u.timer = t.timer,
           u.read = t.read \/ u.read = None \/ u.read.answer = None,
           u.retry = t.retry \/ ~u.retry.pending \/ u.retry.run = u.sel,
           \A h \in u.hydrates : h \in t.hydrates \/ h.n <= Len(l[h.run])
    PROVE  TabOK(u, l)
<1>1. Behind(u, l)
  BY DEF TabOK, Behind
<1>2. OfSelected(u)
  BY DEF TabOK, OfSelected
<1> QED BY <1>1, <1>2 DEF TabOK

\* A topology read that failed leaves a tab that is well formed.
LEMMA FailedOK ==
    ASSUME NEW l, NEW t, TabOK(t, l), NEW key
    PROVE  /\ TabOK(Failed(t, key), l)
           /\ Failed(t, key).sel = t.sel /\ Failed(t, key).shared = t.shared
           /\ Failed(t, key).read = t.read
<1>1. t \in Tabs
  BY DEF TabOK
<1>2. Failed(t, key) = t \/ Failed(t, key) = [t EXCEPT !.inFlight = None, !.succeeded = None]
      \/ Failed(t, key) = [t EXCEPT !.inFlight = None]
  <2>1. [t EXCEPT !.inFlight = None, !.succeeded = t.succeeded] = [t EXCEPT !.inFlight = None]
    BY <1>1 DEF Tabs
  <2> QED BY <2>1 DEF Failed
<1> DEFINE u == Failed(t, key)
<1>3. /\ u \in Tabs
      /\ u.sel = t.sel /\ u.shared = t.shared /\ u.stream = t.stream /\ u.timer = t.timer
      /\ u.read = t.read /\ u.retry = t.retry /\ u.hydrates = t.hydrates
  <2> HIDE DEF u
  <2>1. u = t \/ u = [t EXCEPT !.inFlight = None, !.succeeded = None] \/ u = [t EXCEPT !.inFlight = None]
    BY <1>2 DEF u
  <2>2. None \in Keys
    BY DEF Keys
  <2>3. CASE u = t
    BY <1>1, <2>3
  <2>4. CASE u = [t EXCEPT !.inFlight = None, !.succeeded = None]
    BY <1>1, <2>2, <2>4 DEF Tabs
  <2>5. CASE u = [t EXCEPT !.inFlight = None]
    BY <1>1, <2>2, <2>5 DEF Tabs
  <2> QED BY <2>1, <2>3, <2>4, <2>5
<1> HIDE DEF u
<1>4. TabOK(u, l)
  BY <1>3, SameHoldings
<1> QED BY <1>3, <1>4 DEF u

\* So does one that succeeded.
LEMMA SucceededOK ==
    ASSUME NEW l, NEW t, TabOK(t, l), NEW key \in Keys
    PROVE  /\ TabOK(Succeeded(t, key), l)
           /\ Succeeded(t, key).sel = t.sel /\ Succeeded(t, key).shared = t.shared
           /\ Succeeded(t, key).read = t.read /\ Succeeded(t, key).retry = t.retry
           /\ Succeeded(t, key).hydrates = t.hydrates
<1>1. t \in Tabs
  BY DEF TabOK
<1>2. PICK u : u = Succeeded(t, key)
  OBVIOUS
<1>3. u = t \/ u = [t EXCEPT !.inFlight = None, !.succeeded = key]
  BY <1>2 DEF Succeeded
<1>4. /\ u \in Tabs
      /\ u.sel = t.sel /\ u.shared = t.shared /\ u.stream = t.stream /\ u.timer = t.timer
      /\ u.read = t.read /\ u.retry = t.retry /\ u.hydrates = t.hydrates
  BY <1>1, <1>3 DEF Tabs, Keys
<1>5. TabOK(u, l)
  BY <1>4, SameHoldings
<1> QED BY <1>2, <1>4, <1>5

\* A read of the page's state that is asked for keeps the tab well formed.
LEMMA RefreshOK ==
    ASSUME NEW l, NEW t, TabOK(t, l), NEW key \in Keys
    PROVE  TabOK(Refresh(t, key), l)
<1>1. t \in Tabs
  BY DEF TabOK
<1>2. PICK u : u = Refresh(t, key)
  OBVIOUS
<1>3. PICK late : late \in SUBSET Keys /\
        u = [t EXCEPT !.read = [run |-> t.sel, key |-> key, answer |-> None], !.refused = None,
                      !.late = late]
  <2>1. t.late \in SUBSET Keys /\ (t.read # None => t.read.key \in Keys)
    BY <1>1 DEF Tabs, Reads
  <2> QED BY <1>2, <2>1 DEF Refresh
<1>4. /\ u \in Tabs
      /\ u.sel = t.sel /\ u.shared = t.shared /\ u.stream = t.stream /\ u.timer = t.timer
      /\ u.read.answer = None /\ u.retry = t.retry /\ u.hydrates = t.hydrates
  BY <1>1, <1>3 DEF Tabs, Reads
<1>5. TabOK(u, l)
  BY <1>4, SameHoldings
<1> QED BY <1>2, <1>5

\* So does a hydration, whose answer is not there yet.
LEMMA HydrateOK ==
    ASSUME NEW l \in Logs, NEW t, TabOK(t, l)
    PROVE  TabOK(Hydrate(t), l)
<1>1. t \in Tabs
  BY DEF TabOK
<1>2. PICK u : u = Hydrate(t)
  OBVIOUS
<1>3. CASE t.shared = None \/ t.shared.run # t.sel
  BY <1>3 DEF Hydrate
<1>4. CASE t.shared # None /\ t.shared.run = t.sel
  <2>1. t.sel \in Runs
    BY <1>1, <1>4 DEF Tabs, SharedRuns
  <2>2. u = [t EXCEPT !.hydrates = @ \cup {[run |-> t.sel, n |-> 0]}]
    BY <1>2, <1>4 DEF Hydrate
  <2>3. /\ u \in Tabs
        /\ u.sel = t.sel /\ u.shared = t.shared /\ u.stream = t.stream /\ u.timer = t.timer
        /\ u.read = t.read /\ u.retry = t.retry
        /\ u.hydrates = t.hydrates \cup {[run |-> t.sel, n |-> 0]}
    BY <1>1, <2>1, <2>2 DEF Tabs, Hydrates
  <2>4. 0 <= Len(l[t.sel])
    BY <2>1, LenProperties DEF Logs
  <2>5. \A h \in u.hydrates : h \in t.hydrates \/ h.n <= Len(l[h.run])
    BY <2>3, <2>4
  <2>6. TabOK(u, l)
    BY <2>3, <2>5, SameHoldings
  <2> QED BY <1>2, <2>6
<1> QED BY <1>3, <1>4

\* Cancelling leaves nothing open and no reconnect scheduled.
LEMMA CancelOK ==
    ASSUME NEW l, NEW t, TabOK(t, l)
    PROVE  LET u == CancelReconnect(t)
           IN  /\ TabOK(u, l) /\ u.stream = None /\ u.timer = None
               /\ u.sel = t.sel /\ u.shared = t.shared /\ u.read = t.read
               /\ u.retry = t.retry /\ u.hydrates = t.hydrates
<1>1. t \in Tabs
  BY DEF TabOK
<1>2. PICK u : u = CancelReconnect(t)
  OBVIOUS
<1>3. u = [t EXCEPT !.timer = None, !.inFlight = None, !.succeeded = None, !.stream = None]
  BY <1>2 DEF CancelReconnect
<1>4. /\ u \in Tabs /\ u.stream = None /\ u.timer = None
      /\ u.sel = t.sel /\ u.shared = t.shared
      /\ u.read = t.read /\ u.retry = t.retry /\ u.hydrates = t.hydrates
  BY <1>1, <1>3 DEF Tabs, Keys
<1>5. Behind(u, l)
  BY <1>4 DEF TabOK, Behind
<1>6. OfSelected(u)
  BY <1>4 DEF TabOK, OfSelected
<1> QED BY <1>2, <1>4, <1>5, <1>6 DEF TabOK

\* A reconnect is only scheduled for the selected run.
LEMMA ScheduleReconnectOK ==
    ASSUME NEW l, NEW t, TabOK(t, l)
    PROVE  TabOK(ScheduleReconnect(t), l)
<1>1. t \in Tabs
  BY DEF TabOK
<1>2. CASE t.shared = None \/ t.shared.run # t.sel \/ t.timer # None
  BY <1>2 DEF ScheduleReconnect
<1>3. CASE t.shared # None /\ t.shared.run = t.sel /\ t.timer = None
  <2>1. t.sel \in Runs
    BY <1>1, <1>3 DEF Tabs, SharedRuns
  <2>2. PICK u : u = [t EXCEPT !.stream = None, !.timer = t.sel]
    OBVIOUS
  <2>3. /\ u \in Tabs /\ u.stream = None /\ u.timer = t.sel
        /\ u.sel = t.sel /\ u.shared = t.shared
        /\ u.read = t.read /\ u.retry = t.retry /\ u.hydrates = t.hydrates
    BY <1>1, <2>1, <2>2 DEF Tabs
  <2>4. Behind(u, l)
    BY <2>3 DEF TabOK, Behind
  <2>5. OfSelected(u)
    BY <2>3 DEF TabOK, OfSelected
  <2> QED BY <1>3, <2>2, <2>3, <2>4, <2>5 DEF TabOK, ScheduleReconnect
<1> QED BY <1>2, <1>3

\* A pinned retry is only scheduled for the selected run.
LEMMA ScheduleRetryOK ==
    ASSUME NEW l, NEW t, TabOK(t, l), NEW r \in Runs, r = t.sel
    PROVE  TabOK(ScheduleRetry(t, r), l)
<1>1. t \in Tabs
  BY DEF TabOK
<1>2. PICK u : u = ScheduleRetry(t, r)
  OBVIOUS
<1>3. u = t \/ \E n \in Nat : u = [t EXCEPT !.retry = [run |-> r, attempts |-> n, pending |-> TRUE]]
  <2>1. PICK retry : retry = IF t.retry.pending /\ t.retry.run # r THEN NoRetry ELSE t.retry
    OBVIOUS
  <2>2. t.retry.attempts \in Nat
    BY <1>1 DEF Tabs
  <2>3. retry.attempts + 1 \in Nat
    BY <2>1, <2>2 DEF NoRetry
  <2> QED BY <1>2, <2>1, <2>3 DEF ScheduleRetry
<1>4. /\ u \in Tabs
      /\ u.sel = t.sel /\ u.shared = t.shared /\ u.stream = t.stream /\ u.timer = t.timer
      /\ u.read = t.read /\ u.hydrates = t.hydrates
      /\ u.retry = t.retry \/ u.retry.run = u.sel
  <2>1. CASE u = t
    BY <1>1, <2>1 DEF Tabs
  <2>2. ASSUME NEW n \in Nat, u = [t EXCEPT !.retry = [run |-> r, attempts |-> n, pending |-> TRUE]]
        PROVE  /\ u \in Tabs
               /\ u.sel = t.sel /\ u.shared = t.shared /\ u.stream = t.stream
               /\ u.timer = t.timer /\ u.read = t.read /\ u.hydrates = t.hydrates
               /\ u.retry.run = u.sel
    BY <1>1, <2>2 DEF Tabs
  <2> QED BY <1>3, <2>1, <2>2
<1>5. TabOK(u, l)
  BY <1>4, SameHoldings
<1> QED BY <1>2, <1>5

\* A refusal leaves no retry of the run that was refused.
LEMMA RefusedOK ==
    ASSUME NEW l, NEW t, TabOK(t, l), NEW r \in Runs
    PROVE  TabOK(Refused(t, r), l)
<1>1. PICK c : c = IF Sharing(t, r) THEN CancelReconnect(t) ELSE t
  OBVIOUS
<1>2. TabOK(c, l) /\ c \in Tabs
  BY <1>1, CancelOK DEF TabOK
<1>3. PICK retry : retry = IF c.retry.run = r THEN NoRetry ELSE c.retry
  OBVIOUS
<1>4. /\ retry \in [run : Runs \cup {None}, attempts : Nat, pending : BOOLEAN]
      /\ retry = c.retry \/ ~retry.pending
  BY <1>2, <1>3 DEF Tabs, NoRetry
<1>5. PICK u : u = [c EXCEPT !.retry = retry, !.refused = r]
  OBVIOUS
<1>6. /\ u \in Tabs /\ u.retry = retry
      /\ u.sel = c.sel /\ u.shared = c.shared /\ u.stream = c.stream /\ u.timer = c.timer
      /\ u.read = c.read /\ u.hydrates = c.hydrates
  BY <1>2, <1>4, <1>5 DEF Tabs
<1>7. TabOK(u, l)
  BY <1>2, <1>4, <1>6, SameHoldings
<1>8. Refused(t, r) = u
  BY <1>1, <1>2, <1>3, <1>5 DEF Refused, Tabs
<1> QED BY <1>7, <1>8

\* A selection of another run ends what the run before had open or scheduled.
LEMMA SelectOK ==
    ASSUME NEW l, NEW t, TabOK(t, l), NEW r \in Runs
    PROVE  LET u == Select(t, r)
           IN  /\ TabOK(u, l) /\ u.sel = r
               /\ u.shared = t.shared /\ u.read = t.read /\ u.hydrates = t.hydrates
<1>1. CASE t.sel = r
  BY <1>1 DEF Select
<1>2. CASE t.sel # r
  <2>1. PICK c : c = CancelReconnect(t)
    OBVIOUS
  <2>2. /\ TabOK(c, l) /\ c.stream = None /\ c.timer = None
        /\ c.shared = t.shared /\ c.read = t.read /\ c.hydrates = t.hydrates
    BY <2>1, CancelOK
  <2>3. c \in Tabs
    BY <2>2 DEF TabOK
  <2>4. PICK u : u = [c EXCEPT !.sel = r, !.retry = NoRetry]
    OBVIOUS
  <2>5. /\ u \in Tabs /\ u.stream = None /\ u.timer = None
        /\ u.sel = r /\ u.shared = c.shared
        /\ u.read = c.read /\ ~u.retry.pending /\ u.hydrates = c.hydrates
    BY <2>3, <2>2, <2>4 DEF Tabs, NoRetry
  <2>6. Behind(u, l)
    BY <2>2, <2>5 DEF TabOK, Behind
  <2>7. OfSelected(u)
    BY <2>5 DEF OfSelected
  <2>8. Select(t, r) = u
    BY <1>2, <2>1, <2>4 DEF Select
  <2> QED BY <2>2, <2>5, <2>6, <2>7, <2>8 DEF TabOK
<1> QED BY <1>1, <1>2

\* The stream opens where the last known event of the shared run is.
LEMMA ConnectOK ==
    ASSUME NEW l, NEW t, TabOK(t, l), t.shared \in SharedRuns, Coherent(t.shared, l),
           t.shared.run = t.sel
    PROVE  LET u == Connect(t)
           IN  TabOK(u, l) /\ u.shared = t.shared /\ u.sel = t.sel
<1>1. t \in Tabs
  BY DEF TabOK
<1>2. PICK u : u = [t EXCEPT !.stream = [run |-> t.shared.run, at |-> t.shared.last]]
  OBVIOUS
<1>3. t.shared.run \in Runs /\ t.shared.last \in Nat /\ t.shared.last <= Len(l[t.shared.run])
  BY DEF Coherent, SharedRuns
<1>4. /\ u \in Tabs /\ u.stream = [run |-> t.shared.run, at |-> t.shared.last]
      /\ u.sel = t.sel /\ u.shared = t.shared /\ u.timer = t.timer
      /\ u.read = t.read /\ u.retry = t.retry /\ u.hydrates = t.hydrates
  BY <1>1, <1>2, <1>3 DEF Tabs, Streams
<1>5. Behind(u, l)
  BY <1>3, <1>4 DEF TabOK, Behind
<1>6. OfSelected(u)
  BY <1>4 DEF TabOK, OfSelected
<1>7. TabOK(u, l)
  BY <1>4, <1>5, <1>6 DEF TabOK
<1> QED BY <1>2, <1>4, <1>7 DEF Connect

\* A new topology read keeps the tab well formed, also when it supersedes another.
LEMMA RefreshTopologyOK ==
    ASSUME NEW l, NEW t, TabOK(t, l), t.shared \in SharedRuns
    PROVE  TabOK(RefreshTopology(t), l)
<1>1. t \in Tabs /\ t.shared.run \in Runs /\ t.state.bound \in BOOLEAN
  BY DEF TabOK, Tabs, SharedRuns
<1>2. PICK key : key = RefreshKey(t)
  OBVIOUS
<1>3. key \in Keys
  <2>1. PICK bound : bound = Bound(Prefix(t.shared.run, Newest(t.shared.known)))
    OBVIOUS
  <2>2. bound \in BOOLEAN
    BY <2>1 DEF Bound, Happened
  <2>3. <<t.shared.run, bound, t.state.bound>> \in Keys
    BY <1>1, <2>2 DEF Keys
  <2> QED BY <1>2, <2>1, <2>3 DEF RefreshKey, Keys
<1>4. ASSUME NEW u, u = [t EXCEPT !.inFlight = None, !.succeeded = None] \/ u = [t EXCEPT !.inFlight = key]
      PROVE  TabOK(u, l)
  <2>1. /\ u \in Tabs
        /\ u.sel = t.sel /\ u.shared = t.shared /\ u.stream = t.stream /\ u.timer = t.timer
        /\ u.read = t.read /\ u.retry = t.retry /\ u.hydrates = t.hydrates
    <3>1. None \in Keys
      BY DEF Keys
    <3>2. CASE u = [t EXCEPT !.inFlight = None, !.succeeded = None]
      BY <3>1, <3>2, <1>1 DEF Tabs
    <3>3. CASE u = [t EXCEPT !.inFlight = key]
      BY <3>3, <1>1, <1>3 DEF Tabs
    <3> QED BY <3>2, <3>3, <1>4
  <2> QED BY <2>1, SameHoldings
<1>5. TabOK([t EXCEPT !.inFlight = None, !.succeeded = None], l)
  BY <1>4
<1>6. TabOK(Refresh([t EXCEPT !.inFlight = key], key), l)
  <2>1. TabOK([t EXCEPT !.inFlight = key], l)
    BY <1>4
  <2> QED BY <2>1, <1>3, RefreshOK
<1> QED BY <1>2, <1>5, <1>6 DEF RefreshTopology

\* A workspace of n events of the run of an answer that was asked for the selection.
LEMMA BindWorkspaceOK ==
    ASSUME NEW l \in Logs, NEW t, TabOK(t, l), NEW r \in Runs \cup {None}, NEW n \in Nat,
           r # None => n <= Len(l[r])
    PROVE  TabOK(BindWorkspace(t, r, n), l)
<1>1. t \in Tabs
  BY DEF TabOK
<1>2. CASE r = None \/ ~Bound(Prefix(r, n))
  <2>1. TabOK([t EXCEPT !.shared = None], l)
    <3>1. PICK u : u = [t EXCEPT !.shared = None]
      OBVIOUS
    <3>2. /\ u \in Tabs /\ u.shared = None /\ u.stream = t.stream
          /\ u.sel = t.sel /\ u.timer = t.timer
          /\ u.read = t.read /\ u.retry = t.retry /\ u.hydrates = t.hydrates
      BY <1>1, <3>1 DEF Tabs
    <3>3. Behind(u, l) /\ OfSelected(u)
      BY <3>2 DEF TabOK, Behind, OfSelected
    <3> QED BY <3>1, <3>2, <3>3 DEF TabOK
  <2> QED BY <1>2, <2>1 DEF BindWorkspace
<1>3. CASE ~(r = None \/ ~Bound(Prefix(r, n)))
  <2>1. r \in Runs /\ n <= Len(l[r])
    BY <1>3
  <2>2. PICK s : s = IF t.sel = None THEN Select(t, r) ELSE t
    OBVIOUS
  <2>3. TabOK(s, l)
    BY <2>1, <2>2, SelectOK
  <2>4. PICK f : f = IF t.shared # None /\ t.shared.run # r THEN CancelReconnect(s) ELSE s
    OBVIOUS
  <2>5. TabOK(f, l)
    BY <2>3, <2>4, CancelOK
  <2>6. PICK shared : shared = [run |-> r, known |-> Events(r, n), full |-> n, last |-> n]
    OBVIOUS
  <2>7. Coherent(shared, l) /\ shared \in SharedRuns
    <3>1. shared \in SharedRuns
      BY <2>1, <2>6 DEF SharedRuns, Events
    <3>2. shared.run = r /\ shared.known = Events(r, n) /\ shared.full = n /\ shared.last = n
      BY <2>6
    <3> QED BY <3>1, <3>2, <2>1, EventsCoherent
  <2>8. PICK u : u = [f EXCEPT !.shared = shared]
    OBVIOUS
  <2>9. /\ u \in Tabs /\ u.shared = shared /\ u.stream = f.stream
        /\ u.sel = f.sel /\ u.timer = f.timer
        /\ u.read = f.read /\ u.retry = f.retry /\ u.hydrates = f.hydrates
    BY <2>5, <2>7, <2>8 DEF TabOK, Tabs
  <2>10. Behind(u, l) /\ OfSelected(u)
    BY <2>5, <2>7, <2>9 DEF TabOK, Behind, OfSelected
  <2>11. BindWorkspace(t, r, n) = u
    BY <1>3, <2>2, <2>4, <2>6, <2>8 DEF BindWorkspace
  <2> QED BY <2>9, <2>10, <2>11 DEF TabOK
<1> QED BY <1>2, <1>3

-----------------------------------------------------------------------------
(* The actions.                                                            *)

Grown == log' \in Logs /\ \A r \in Runs : Len(log[r]) <= Len(log'[r])

\* A run that begins makes no log shorter.
LEMMA BeginGrows ==
    ASSUME log \in Logs, NEW r \in Runs, Begin(r)
    PROVE  Grown
<1>1. <<"reserved", "started">> \in Seq(Kinds)
  BY DEF Kinds
<1>2. log' \in Logs
  BY <1>1 DEF Begin, Logs
<1>3. Len(log[r]) <= Len(log'[r])
  BY DEF Begin, Logs
<1>4. \A s \in Runs : Len(log[s]) \in Nat
  BY LenProperties DEF Logs
<1>5. \A s \in Runs : s # r => log'[s] = log[s]
  BY DEF Begin, Logs
<1> QED BY <1>2, <1>3, <1>4, <1>5 DEF Grown

\* Nor does a run that goes on.
LEMMA RunGrowsGrows ==
    ASSUME log \in Logs, NEW r \in Runs, RunGrows(r)
    PROVE  Grown
<1>1. PICK kind \in Kinds : log' = [log EXCEPT ![r] = Append(@, kind)]
  BY DEF RunGrows, Grow
<1>2. log[r] \in Seq(Kinds)
  BY DEF Logs
<1>3. Append(log[r], kind) \in Seq(Kinds) /\ Len(Append(log[r], kind)) = Len(log[r]) + 1
  BY <1>2, AppendProperties
<1>4. log' \in Logs
  BY <1>1, <1>3 DEF Logs
<1>5. \A s \in Runs : Len(log[s]) \in Nat
  BY LenProperties DEF Logs
<1>6. \A s \in Runs : s # r => log'[s] = log[s]
  BY <1>1 DEF Logs
<1>7. Len(log[r]) <= Len(log'[r])
  BY <1>1, <1>3, <1>5 DEF Logs
<1> QED BY <1>4, <1>5, <1>6, <1>7 DEF Grown

\* The server's own steps.
LEMMA ServerKeeps ==
    ASSUME ViewerInv, (\E r \in Runs : OtherTabStarts(r) \/ RunGrows(r)) \/ DemoReset
    PROVE  ViewerInv'
<1>1. CASE DemoReset
  BY <1>1 DEF DemoReset, ViewerInv
<1>2. CASE \E r \in Runs : OtherTabStarts(r)
  <2>1. PICK r \in Runs : OtherTabStarts(r)
    BY <1>2
  <2>2. Begin(r) /\ UNCHANGED <<tab, failures, gestures>>
    BY <2>1 DEF OtherTabStarts
  <2>3. Grown /\ active' = r
    BY <2>2, BeginGrows DEF ViewerInv, Begin
  <2>4. TabOK(tab, log')
    BY <2>3, LongerLog DEF ViewerInv, Grown
  <2> QED BY <2>2, <2>3, <2>4 DEF ViewerInv, Grown
<1>3. CASE \E r \in Runs : RunGrows(r)
  <2>1. PICK r \in Runs : RunGrows(r)
    BY <1>3
  <2>2. Grown
    BY <2>1, RunGrowsGrows DEF ViewerInv
  <2>3. TabOK(tab, log')
    BY <2>2, LongerLog DEF ViewerInv, Grown
  <2> QED BY <2>1, <2>2, <2>3 DEF ViewerInv, Grown, RunGrows
<1> QED BY <1>1, <1>2, <1>3

\* A step of the tab alone.
TabStep == TabOK(tab', log) /\ UNCHANGED <<log, active>>

\* A step of the tab alone keeps the invariant when the new tab is well formed.
LEMMA TabStepKeeps ==
    ASSUME ViewerInv, TabStep, failures' \in 0..MaxFailures, gestures' \in 0..MaxGestures
    PROVE  ViewerInv'
BY DEF ViewerInv, TabStep

\* The moment of an answer: it carries what the run is then.
LEMMA AnswersKeep ==
    ASSUME ViewerInv, Answers
    PROVE  ViewerInv'
<1>1. tab \in Tabs /\ log \in Logs /\ TabOK(tab, log)
  BY DEF ViewerInv, TabOK
<1>2. \A r \in Runs : Len(log[r]) \in Nat
  BY <1>1, LenProperties DEF Logs
<1>3. CASE AnswerState
  <2>1. tab.read \in Reads /\ UNCHANGED <<log, active, failures, gestures>>
    BY <1>1, <1>3 DEF AnswerState, Tabs
  <2>2. PICK r : r = IF tab.read.run = None THEN active ELSE tab.read.run
    OBVIOUS
  <2>3. PICK answer : answer = [run |-> r, n |-> IF r = None THEN 0 ELSE Len(log[r])]
    OBVIOUS
  <2>4. r \in Runs \cup {None}
    BY <2>1, <2>2 DEF ViewerInv, Reads
  <2>5. answer \in Answered /\ (answer.run # None => answer.n <= Len(log[answer.run]))
    BY <2>3, <2>4, <1>2 DEF Answered
  <2>6. tab' = [tab EXCEPT !.read = [tab.read EXCEPT !.answer = answer]]
    BY <1>3, <2>2, <2>3, <1>1 DEF AnswerState
  <2>7. PICK read : read = [tab.read EXCEPT !.answer = answer]
    OBVIOUS
  <2>8. read \in Reads /\ read.answer = answer
    BY <2>1, <2>5, <2>7 DEF Reads
  <2>9. PICK u : u = tab'
    OBVIOUS
  <2>10. /\ u \in Tabs /\ u.read = read /\ u.shared = tab.shared /\ u.stream = tab.stream
         /\ u.sel = tab.sel /\ u.timer = tab.timer /\ u.retry = tab.retry
         /\ u.hydrates = tab.hydrates
    BY <1>1, <2>6, <2>7, <2>8, <2>9 DEF Tabs
  <2>11. Behind(u, log) /\ OfSelected(u)
    BY <1>1, <2>5, <2>8, <2>10 DEF TabOK, Behind, OfSelected
  <2>12. TabStep
    BY <2>1, <2>9, <2>10, <2>11 DEF TabStep, TabOK
  <2> QED BY <2>1, <2>12, TabStepKeeps DEF ViewerInv
<1>4. CASE \E h \in tab.hydrates : AnswerHydrate(h)
  <2>1. PICK h \in tab.hydrates : AnswerHydrate(h)
    BY <1>4
  <2>2. h \in Hydrates /\ UNCHANGED <<log, active, failures, gestures>>
    BY <1>1, <2>1 DEF AnswerHydrate, Tabs
  <2>3. PICK answered : answered = [h EXCEPT !.n = Len(log[h.run])]
    OBVIOUS
  <2>4. answered \in Hydrates /\ answered.run = h.run /\ answered.n = Len(log[h.run])
        /\ Len(log[h.run]) \in Nat
    BY <2>2, <2>3, <1>2 DEF Hydrates
  <2>5. PICK u : u = tab'
    OBVIOUS
  <2>6. u = [tab EXCEPT !.hydrates = (@ \ {h}) \cup {answered}]
    BY <2>1, <2>3, <2>5 DEF AnswerHydrate
  <2>7. /\ u \in Tabs /\ u.read = tab.read /\ u.shared = tab.shared /\ u.stream = tab.stream
        /\ u.sel = tab.sel /\ u.timer = tab.timer /\ u.retry = tab.retry
        /\ u.hydrates = (tab.hydrates \ {h}) \cup {answered}
    BY <1>1, <2>4, <2>6 DEF Tabs
  <2>8. \A g \in u.hydrates : g \in tab.hydrates \/ g.n <= Len(log[g.run])
    <3>1. answered.n <= Len(log[answered.run])
      BY <2>4
    <3> QED BY <2>7, <3>1
  <2>9. TabOK(u, log)
    BY <1>1, <2>7, <2>8, SameHoldings
  <2> QED BY <2>2, <2>5, <2>9, TabStepKeeps DEF ViewerInv, TabStep
<1>5. CASE \E r \in Runs : AnswerStart(r)
  <2>1. PICK r \in Runs : AnswerStart(r)
    BY <1>5
  <2>2. Begin(r) /\ tab' = [tab EXCEPT !.starting = r] /\ UNCHANGED <<failures, gestures>>
    BY <2>1 DEF AnswerStart
  <2>3. Grown /\ active' = r
    BY <1>1, <2>2, BeginGrows DEF Begin
  <2>4. PICK u : u = tab'
    OBVIOUS
  <2>5. /\ u \in Tabs /\ u.read = tab.read /\ u.shared = tab.shared /\ u.stream = tab.stream
        /\ u.sel = tab.sel /\ u.timer = tab.timer /\ u.retry = tab.retry
        /\ u.hydrates = tab.hydrates
    BY <1>1, <2>2, <2>4 DEF Tabs
  <2>6. TabOK(u, log)
    BY <1>1, <2>5, SameHoldings
  <2>7. TabOK(u, log')
    BY <1>1, <2>3, <2>6, LongerLog DEF Grown
  <2> QED BY <2>2, <2>3, <2>4, <2>7 DEF ViewerInv, Grown
<1> QED BY <1>3, <1>4, <1>5 DEF Answers

\* A tab that holds another coherent run as the shared one.
LEMMA SharedOK ==
    ASSUME NEW l, NEW t, TabOK(t, l), NEW shared \in SharedRuns, Coherent(shared, l),
           NEW u \in Tabs, u.shared = shared,
           u.sel = t.sel, u.stream = t.stream \/ u.stream = None, u.timer = t.timer,
           u.read = t.read, u.retry = t.retry, u.hydrates \subseteq t.hydrates
    PROVE  TabOK(u, l)
<1>1. Behind(u, l)
  BY DEF TabOK, Behind
<1>2. OfSelected(u)
  BY DEF TabOK, OfSelected
<1> QED BY <1>1, <1>2 DEF TabOK

\* What a tab still holds after it dropped what just arrived.
LEMMA DropOK ==
    ASSUME NEW l, NEW t, TabOK(t, l), NEW h,
           NEW u, u \in {[t EXCEPT !.read = None], [t EXCEPT !.hydrates = @ \ {h}],
                         [t EXCEPT !.late = @ \ {h}], [t EXCEPT !.stream = None],
                         [t EXCEPT !.timer = None], [t EXCEPT !.starting = None]}
    PROVE  TabOK(u, l) /\ u.sel = t.sel /\ u.shared = t.shared /\ u.retry = t.retry
<1>1. t \in Tabs
  BY DEF TabOK
<1>2. /\ u \in Tabs /\ u.sel = t.sel /\ u.shared = t.shared /\ u.retry = t.retry
      /\ u.stream = t.stream \/ u.stream = None
      /\ u.timer = t.timer \/ u.timer = None
      /\ u.read = t.read \/ u.read = None
      /\ u.hydrates \subseteq t.hydrates
  BY <1>1 DEF Tabs
<1>3. Behind(u, l)
  BY <1>2 DEF TabOK, Behind
<1>4. OfSelected(u)
  BY <1>2 DEF TabOK, OfSelected
<1> QED BY <1>2, <1>3, <1>4 DEF TabOK

\* An answer for the page's state, which may select another run.
LEMMA StateArrivesKeeps ==
    ASSUME ViewerInv, StateArrives
    PROVE  TabStep
<1>1. tab \in Tabs /\ log \in Logs /\ TabOK(tab, log)
  BY DEF ViewerInv, TabOK
<1>2. tab.read # None /\ tab.read.answer # None /\ UNCHANGED <<log, active>>
  BY DEF StateArrives, Unaffected
<1>3. PICK asked : asked = tab.read
  OBVIOUS
<1>4. asked \in Reads /\ asked.key \in Keys /\ asked.answer \in Answered
  BY <1>1, <1>2, <1>3 DEF Tabs, Reads
<1>5. PICK r, n : r = asked.answer.run /\ n = asked.answer.n
  OBVIOUS
<1>6. r \in Runs \cup {None} /\ n \in Nat
  BY <1>4, <1>5 DEF Answered
<1>7. r # None => n <= Len(log[r])
  BY <1>1, <1>2, <1>3, <1>5 DEF TabOK, Behind
<1>8. CASE asked.run # tab.sel
  <2>1. tab' = Failed([tab EXCEPT !.read = None], asked.key)
    BY <1>3, <1>8 DEF StateArrives
  <2>2. TabOK([tab EXCEPT !.read = None], log)
    BY <1>1, DropOK
  <2> QED BY <1>2, <2>1, <2>2, FailedOK DEF TabStep
<1>9. CASE asked.run = tab.sel
  <2>1. PICK s : s = Succeeded(tab, asked.key)
    OBVIOUS
  <2>2. PICK retry : retry = IF asked.run # None /\ asked.run = s.retry.run THEN NoRetry ELSE s.retry
    OBVIOUS
  <2>3. PICK state : state = [run |-> r, bound |-> r # None /\ Bound(Prefix(r, n))]
    OBVIOUS
  <2>4. PICK committed : committed = [s EXCEPT !.read = None, !.state = state, !.retry = retry]
    OBVIOUS
  <2>5. tab' = Hydrate(BindWorkspace(committed, r, n))
    <3>1. \E c \in {[Succeeded(tab, asked.key) EXCEPT
                       !.read = None,
                       !.state = [run |-> r, bound |-> r # None /\ Bound(Prefix(r, n))],
                       !.retry = IF asked.run # None /\ asked.run = @.run THEN NoRetry ELSE @]} :
          \E bound \in {BindWorkspace(c, r, n)} : tab' = Hydrate(bound)
      BY <1>3, <1>5, <1>9 DEF StateArrives
    <3> QED BY <3>1, <2>1, <2>2, <2>3, <2>4
  <2>6. TabOK(s, log)
    BY <1>1, <1>4, <2>1, SucceededOK
  <2>8. state \in [run : Runs \cup {None}, bound : BOOLEAN]
    BY <1>6, <2>3
  <2>9. /\ committed \in Tabs /\ committed.read = None
        /\ committed.sel = s.sel /\ committed.shared = s.shared /\ committed.stream = s.stream
        /\ committed.timer = s.timer /\ committed.hydrates = s.hydrates
        /\ committed.retry = s.retry \/ ~committed.retry.pending
    <3>1. s \in Tabs
      BY <2>6 DEF TabOK
    <3>2. s.retry \in [run : Runs \cup {None}, attempts : Nat, pending : BOOLEAN]
      BY <3>1 DEF Tabs
    <3>3. NoRetry \in [run : Runs \cup {None}, attempts : Nat, pending : BOOLEAN] /\ ~NoRetry.pending
      BY DEF NoRetry
    <3>4. retry \in [run : Runs \cup {None}, attempts : Nat, pending : BOOLEAN]
      BY <2>2, <3>2, <3>3
    <3>5. retry = s.retry \/ ~retry.pending
      BY <2>2, <3>3
    <3>6. committed \in Tabs
      BY <3>1, <3>4, <2>4, <2>8 DEF Tabs
    <3>7. /\ committed.read = None /\ committed.retry = retry
          /\ committed.sel = s.sel /\ committed.shared = s.shared /\ committed.stream = s.stream
          /\ committed.timer = s.timer /\ committed.hydrates = s.hydrates
      BY <3>1, <2>4 DEF Tabs
    <3> QED BY <3>5, <3>6, <3>7
  <2>10. TabOK(committed, log)
    BY <2>6, <2>9, SameHoldings
  <2>11. TabOK(BindWorkspace(committed, r, n), log)
    BY <1>1, <1>6, <1>7, <2>10, BindWorkspaceOK
  <2> QED BY <1>1, <1>2, <2>5, <2>11, HydrateOK DEF TabStep
<1> QED BY <1>8, <1>9

\* A hydration that arrives.
LEMMA HydrateArrivesKeeps ==
    ASSUME ViewerInv, NEW h \in tab.hydrates, HydrateArrives(h)
    PROVE  TabStep
<1>1. tab \in Tabs /\ log \in Logs /\ TabOK(tab, log)
  BY DEF ViewerInv, TabOK
<1>2. h.run \in Runs /\ h.n \in Nat /\ h.n <= Len(log[h.run]) /\ UNCHANGED <<log, active>>
  BY <1>1 DEF HydrateArrives, Unaffected, Tabs, Hydrates, TabOK, Behind
<1>3. PICK t : t = [tab EXCEPT !.hydrates = @ \ {h}]
  OBVIOUS
<1>4. TabOK(t, log) /\ t \in Tabs
  BY <1>1, <1>3, DropOK DEF TabOK
<1>5. IF ~Sharing(t, h.run) \/ t.sel # h.run THEN tab' = t
      ELSE IF Over(Prefix(h.run, h.n)) /\ ~Bound(Prefix(h.run, h.n)) THEN tab' = ScheduleReconnect(t)
      ELSE \E connected \in {Connect([t EXCEPT !.shared = Projected(@, h.run, h.n)])} :
           tab' = RefreshTopology(connected)
  BY <1>3 DEF HydrateArrives
<1>6. CASE ~Sharing(t, h.run) \/ t.sel # h.run
  BY <1>2, <1>4, <1>5, <1>6 DEF TabStep
<1>7. CASE Sharing(t, h.run) /\ t.sel = h.run /\ tab' = ScheduleReconnect(t)
  BY <1>2, <1>4, <1>7, ScheduleReconnectOK DEF TabStep
<1>8. CASE /\ Sharing(t, h.run) /\ t.sel = h.run
           /\ \E connected \in {Connect([t EXCEPT !.shared = Projected(@, h.run, h.n)])} :
                 tab' = RefreshTopology(connected)
  <2>1. t.shared \in SharedRuns /\ t.shared.run = h.run /\ Coherent(t.shared, log)
    BY <1>4, <1>8 DEF Sharing, Tabs, TabOK, Behind
  <2>2. PICK shared : shared = Projected(t.shared, h.run, h.n)
    OBVIOUS
  <2>3. /\ shared \in SharedRuns /\ shared.run = h.run
        /\ shared.known = Events(h.run, h.n) /\ shared.full = h.n
        /\ shared.last = t.shared.last \/ shared.last = h.n
    <3>1. Events(h.run, h.n) \in SUBSET (Runs \X Nat)
      BY <1>2 DEF Events
    <3>2. PICK last : last = IF t.shared.last > h.n THEN t.shared.last ELSE h.n
      OBVIOUS
    <3>3. last \in Nat
      BY <1>2, <2>1, <3>2 DEF SharedRuns
    <3>4. shared = [t.shared EXCEPT !.known = Events(h.run, h.n), !.full = h.n, !.last = last]
      BY <2>2, <3>2 DEF Projected
    <3> QED BY <1>2, <2>1, <3>1, <3>2, <3>3, <3>4 DEF SharedRuns
  <2>4. t.shared.last <= Len(log[h.run])
    BY <2>1 DEF Coherent
  <2>5. Coherent(shared, log)
    BY <1>1, <1>2, <2>3, <2>4, EventsCoherent
  <2>6. PICK u : u = [t EXCEPT !.shared = shared]
    OBVIOUS
  <2>7. /\ u \in Tabs /\ u.shared = shared /\ u.sel = t.sel /\ u.stream = t.stream
        /\ u.timer = t.timer /\ u.read = t.read /\ u.retry = t.retry /\ u.hydrates = t.hydrates
    BY <1>4, <2>3, <2>6 DEF Tabs
  <2>8. TabOK(u, log)
    BY <1>4, <2>3, <2>5, <2>7, SharedOK
  <2>9. tab' = RefreshTopology(Connect(u))
    BY <1>8, <2>2, <2>6
  <2>10. PICK v : v = Connect(u)
    OBVIOUS
  <2>11. TabOK(v, log) /\ v.shared \in SharedRuns
    BY <1>8, <2>3, <2>5, <2>7, <2>8, <2>10, ConnectOK
  <2>12. TabOK(tab', log)
    BY <2>9, <2>10, <2>11, RefreshTopologyOK
  <2> QED BY <1>2, <2>12 DEF TabStep
<1> QED BY <1>5, <1>6, <1>7, <1>8

\* An event joins those known of the shared run only if the stream is of it.
LEMMA EventArrivesKeeps ==
    ASSUME ViewerInv, EventArrives
    PROVE  TabStep
<1>1. tab \in Tabs /\ log \in Logs /\ TabOK(tab, log)
  BY DEF ViewerInv, TabOK
<1>2. tab.stream # None /\ tab.stream \in Streams /\ UNCHANGED <<log, active>>
  BY <1>1 DEF EventArrives, Unaffected, Tabs
<1>3. PICK r, n : r = tab.stream.run /\ n = tab.stream.at + 1
  OBVIOUS
<1>4. r \in Runs /\ n \in Nat /\ n <= Len(log[r])
  <2>1. r \in Runs /\ tab.stream.at \in Nat
    BY <1>2, <1>3 DEF Streams
  <2>2. Len(log[r]) \in Nat
    BY <2>1, <1>1, LenProperties DEF Logs
  <2>3. ~(tab.stream.at >= Len(log[r]))
    BY <1>3 DEF EventArrives, AllSent
  <2> QED BY <2>1, <2>2, <2>3, <1>3
<1>5. PICK stream : stream = [tab.stream EXCEPT !.at = n]
  OBVIOUS
<1>6. stream \in Streams /\ stream.run = r /\ stream.at = n
  BY <1>2, <1>3, <1>4, <1>5 DEF Streams
<1>7. PICK t : t = [tab EXCEPT !.stream = stream]
  OBVIOUS
<1>8. TabOK(t, log) /\ t.shared = tab.shared
  <2>1. /\ t \in Tabs /\ t.stream = stream /\ t.sel = tab.sel /\ t.shared = tab.shared
        /\ t.timer = tab.timer /\ t.read = tab.read /\ t.retry = tab.retry
        /\ t.hydrates = tab.hydrates
    BY <1>1, <1>6, <1>7 DEF Tabs
  <2>2. Behind(t, log) /\ OfSelected(t)
    BY <1>1, <1>2, <1>3, <1>4, <1>6, <2>1 DEF TabOK, Behind, OfSelected
  <2> QED BY <2>1, <2>2 DEF TabOK
<1>9. CASE ~Sharing(tab, r)
  <2>1. tab' = [tab EXCEPT !.stream.at = n]
    BY <1>3, <1>9 DEF EventArrives
  <2>2. tab' = t
    BY <2>1, <1>5, <1>7
  <2> QED BY <2>2, <1>2, <1>8 DEF TabStep
<1>10. CASE Sharing(tab, r)
  <2>1. tab.shared \in SharedRuns /\ tab.shared.run = r /\ Coherent(tab.shared, log)
    BY <1>1, <1>10 DEF Sharing, Tabs, TabOK, Behind
  <2>2. PICK last : last = IF tab.shared.last > n THEN tab.shared.last ELSE n
    OBVIOUS
  <2>3. last \in Nat
    BY <1>4, <2>1, <2>2 DEF SharedRuns
  <2>4. PICK shared : shared = [tab.shared EXCEPT !.known = @ \cup {<<r, n>>}, !.last = last]
    OBVIOUS
  <2>5. /\ shared \in SharedRuns /\ shared.run = tab.shared.run /\ shared.full = tab.shared.full
        /\ shared.known = tab.shared.known \cup {<<tab.shared.run, n>>} /\ shared.last = last
    <3>1. PICK known : known = tab.shared.known \cup {<<r, n>>}
      OBVIOUS
    <3>2. known \in SUBSET (Runs \X Nat)
      <4>1. tab.shared.known \in SUBSET (Runs \X Nat) /\ <<r, n>> \in Runs \X Nat
        BY <1>4, <2>1 DEF SharedRuns
      <4> QED BY <3>1, <4>1
    <3>3. shared = [tab.shared EXCEPT !.known = known, !.last = last]
      BY <2>4, <3>1
    <3>4. shared \in SharedRuns /\ shared.known = known /\ shared.last = last
          /\ shared.run = tab.shared.run /\ shared.full = tab.shared.full
      BY <2>1, <2>3, <3>2, <3>3 DEF SharedRuns
    <3> QED BY <2>1, <3>1, <3>4
  <2>6. Coherent(shared, log)
    BY <1>1, <1>4, <2>1, <2>2, <2>5, EventJoins
  <2>7. PICK merged : merged = [t EXCEPT !.shared = shared]
    OBVIOUS
  <2>8. /\ merged \in Tabs /\ merged.shared = shared /\ merged.sel = t.sel
        /\ merged.stream = t.stream /\ merged.timer = t.timer /\ merged.read = t.read
        /\ merged.retry = t.retry /\ merged.hydrates = t.hydrates
    BY <1>8, <2>5, <2>7 DEF TabOK, Tabs
  <2>9. TabOK(merged, log)
    BY <1>8, <2>5, <2>6, <2>8, SharedOK
  <2>10. TabOK(Refresh(merged, None), log)
    BY <2>9, RefreshOK DEF Keys
  <2>11. merged = [tab EXCEPT !.stream.at = n, !.shared.known = @ \cup {<<r, n>>},
                              !.shared.last = IF @ > n THEN @ ELSE n]
    <3>1. PICK u : u = [tab EXCEPT !.stream.at = n, !.shared.known = @ \cup {<<r, n>>},
                                   !.shared.last = IF @ > n THEN @ ELSE n]
      OBVIOUS
    <3>2. u = [tab EXCEPT !.stream = stream, !.shared = shared]
      BY <1>1, <1>5, <2>1, <2>2, <2>4, <3>1 DEF Tabs, SharedRuns
    <3> QED BY <3>1, <3>2, <1>7, <2>7
  <2>12. tab' = Refresh(merged, None) \/ tab' = merged
    BY <1>3, <1>10, <2>11 DEF EventArrives
  <2> QED BY <1>2, <2>9, <2>10, <2>12 DEF TabStep
<1> QED BY <1>9, <1>10

\* Whatever arrives, in any order.
LEMMA ArrivalsKeep ==
    ASSUME ViewerInv, Arrivals
    PROVE  TabStep
<1>1. tab \in Tabs /\ log \in Logs /\ TabOK(tab, log)
  BY DEF ViewerInv, TabOK
<1>2. CASE StateArrives \/ EventArrives \/ \E h \in tab.hydrates : HydrateArrives(h)
  BY <1>2, StateArrivesKeeps, EventArrivesKeeps, HydrateArrivesKeeps
<1>3. CASE \E key \in tab.late : LateStateArrives(key)
  <2>1. PICK key \in tab.late : LateStateArrives(key)
    BY <1>3
  <2>2. PICK f : f = Failed(tab, key)
    OBVIOUS
  <2>3. TabOK(f, log)
    BY <1>1, <2>2, FailedOK
  <2>4. tab' = [f EXCEPT !.late = @ \ {key}]
    BY <2>1, <2>2 DEF LateStateArrives
  <2>5. TabOK([f EXCEPT !.late = @ \ {key}], log)
    BY <2>3, DropOK
  <2> QED BY <2>1, <2>4, <2>5 DEF TabStep, LateStateArrives, Unaffected
<1>4. CASE EndArrives
  <2>1. PICK t : t = [tab EXCEPT !.stream = None]
    OBVIOUS
  <2>2. TabOK(t, log)
    BY <1>1, <2>1, DropOK
  <2> QED BY <1>1, <1>4, <2>1, <2>2, HydrateOK DEF TabStep, EndArrives, Unaffected
<1>5. CASE StartArrives
  <2>1. PICK r \in Runs : r = tab.starting
    BY <1>5 DEF StartArrives
  <2>2. PICK s : s = Select(tab, r)
    OBVIOUS
  <2>3. TabOK(s, log) /\ s \in Tabs
    BY <1>1, <2>2, SelectOK DEF TabOK
  <2>4. PICK shared : shared = [run |-> r, known |-> {}, full |-> 0, last |-> 0]
    OBVIOUS
  <2>5. shared \in SharedRuns /\ Coherent(shared, log)
    <3>1. shared \in SharedRuns
      BY <2>4 DEF SharedRuns
    <3>2. shared.run = r /\ shared.known = Events(r, 0) /\ shared.full = 0 /\ shared.last = 0
      BY <2>4 DEF Events
    <3>3. 0 <= Len(log[r])
      BY <1>1, LenProperties DEF Logs
    <3> QED BY <3>1, <3>2, <3>3, <1>1, EventsCoherent
  <2>6. PICK t : t = [s EXCEPT !.starting = None, !.shared = shared]
    OBVIOUS
  <2>7. /\ t \in Tabs /\ t.shared = shared /\ t.sel = s.sel /\ t.stream = s.stream
        /\ t.timer = s.timer /\ t.read = s.read /\ t.retry = s.retry /\ t.hydrates = s.hydrates
    BY <2>3, <2>5, <2>6 DEF Tabs
  <2>8. TabOK(t, log)
    BY <2>3, <2>5, <2>7, SharedOK
  <2>9. tab' = Hydrate(t)
    BY <1>5, <2>1, <2>2, <2>4, <2>6 DEF StartArrives
  <2> QED BY <1>1, <1>5, <2>8, <2>9, HydrateOK DEF TabStep, StartArrives, Unaffected
<1>6. CASE ReconnectTimer
  <2>1. PICK t : t = [tab EXCEPT !.timer = None]
    OBVIOUS
  <2>2. TabOK(t, log)
    BY <1>1, <2>1, DropOK
  <2>3. tab' = Hydrate(t) \/ tab' = t
    BY <1>6, <2>1 DEF ReconnectTimer
  <2> QED BY <1>1, <1>6, <2>2, <2>3, HydrateOK DEF TabStep, ReconnectTimer, Unaffected
<1>7. CASE RetryTimer
  <2>1. PICK t : t = [tab EXCEPT !.retry.pending = FALSE]
    OBVIOUS
  <2>2. /\ t \in Tabs /\ ~t.retry.pending
        /\ t.sel = tab.sel /\ t.shared = tab.shared /\ t.stream = tab.stream
        /\ t.timer = tab.timer /\ t.read = tab.read /\ t.hydrates = tab.hydrates
    BY <1>1, <2>1 DEF Tabs
  <2>3. TabOK(t, log)
    BY <1>1, <2>2, SameHoldings
  <2>4. tab' = Refresh(t, None) \/ tab' = t
    BY <1>7, <2>1 DEF RetryTimer
  <2>5. None \in Keys
    BY DEF Keys
  <2> QED BY <1>7, <2>3, <2>4, <2>5, RefreshOK DEF TabStep, RetryTimer, Unaffected
<1> QED BY <1>2, <1>3, <1>4, <1>5, <1>6, <1>7 DEF Arrivals

\* Whatever fails on its way.
LEMMA FailuresKeep ==
    ASSUME ViewerInv,
           StateFails \/ StreamFails \/ StartFails \/ \E h \in tab.hydrates : HydrateFails(h)
    PROVE  TabStep /\ Fails
<1>1. tab \in Tabs /\ log \in Logs /\ TabOK(tab, log)
  BY DEF ViewerInv, TabOK
<1>2. Fails /\ UNCHANGED <<log, active>>
  BY DEF StateFails, StreamFails, StartFails, HydrateFails, Fails
<1>3. CASE StateFails
  <2>1. PICK asked : asked = tab.read
    OBVIOUS
  <2>2. asked.run \in Runs \cup {None}
    BY <1>1, <1>3, <2>1 DEF StateFails, Tabs, Reads
  <2>3. PICK t : t = Failed([tab EXCEPT !.read = None], asked.key)
    OBVIOUS
  <2>4. TabOK(t, log)
    BY <1>1, <2>3, DropOK, FailedOK
  <2>5. \/ tab' = t \/ tab' = ScheduleReconnect(t)
        \/ /\ tab' = ScheduleRetry(t, asked.run) \/ tab' = Refused(t, asked.run)
           /\ asked.run = t.sel /\ asked.run # None
    BY <1>3, <2>1, <2>3 DEF StateFails
  <2> QED BY <1>2, <2>2, <2>4, <2>5, ScheduleReconnectOK, ScheduleRetryOK, RefusedOK DEF TabStep
<1>4. CASE StreamFails
  <2>1. PICK t : t = [tab EXCEPT !.stream = None]
    OBVIOUS
  <2>2. TabOK(t, log)
    BY <1>1, <2>1, DropOK
  <2>3. tab' = tab \/ tab' = ScheduleReconnect(t)
    BY <1>4, <2>1 DEF StreamFails
  <2> QED BY <1>1, <1>2, <2>2, <2>3, ScheduleReconnectOK DEF TabStep
<1>5. CASE StartFails
  <2>1. tab' = [tab EXCEPT !.starting = None]
    BY <1>5 DEF StartFails
  <2> QED BY <1>1, <1>2, <2>1, DropOK DEF TabStep
<1>6. CASE \E h \in tab.hydrates : HydrateFails(h)
  <2>1. PICK h \in tab.hydrates : HydrateFails(h)
    BY <1>6
  <2>2. PICK t : t = [tab EXCEPT !.hydrates = @ \ {h}]
    OBVIOUS
  <2>3. TabOK(t, log)
    BY <1>1, <2>2, DropOK
  <2>4. tab' = t \/ tab' = ScheduleReconnect(t)
    BY <2>1, <2>2 DEF HydrateFails
  <2> QED BY <1>2, <2>3, <2>4, ScheduleReconnectOK DEF TabStep
<1> QED BY <1>3, <1>4, <1>5, <1>6

\* Whatever the user does: another run, a start, a navigation, a reload.
LEMMA UserKeeps ==
    ASSUME ViewerInv,
           AskToStart \/ Reload \/ RetryByHand \/ \E r \in Runs \cup {None} : Navigate(r)
    PROVE  TabStep /\ UNCHANGED failures /\ (Gesture \/ UNCHANGED gestures)
<1>1. tab \in Tabs /\ log \in Logs /\ TabOK(tab, log)
  BY DEF ViewerInv, TabOK
<1>2. None \in Keys
  BY DEF Keys
<1>3. UNCHANGED <<log, active, failures>> /\ (Gesture \/ UNCHANGED gestures)
  BY DEF AskToStart, Reload, RetryByHand, Navigate, Gesture, Unaffected
<1>4. CASE AskToStart
  <2>1. PICK t : t = [tab EXCEPT !.starting = "asked"]
    OBVIOUS
  <2>2. /\ t \in Tabs /\ t.retry = tab.retry
        /\ t.sel = tab.sel /\ t.shared = tab.shared /\ t.stream = tab.stream
        /\ t.timer = tab.timer /\ t.read = tab.read /\ t.hydrates = tab.hydrates
    BY <1>1, <2>1 DEF Tabs
  <2>3. TabOK(t, log)
    BY <1>1, <2>2, SameHoldings
  <2> QED BY <1>3, <1>4, <2>1, <2>3 DEF TabStep, AskToStart
<1>5. CASE RetryByHand
  BY <1>1, <1>2, <1>3, <1>5, RefreshOK DEF TabStep, RetryByHand
<1>6. CASE \E r \in Runs \cup {None} : Navigate(r)
  <2>1. PICK r \in Runs \cup {None} : Navigate(r)
    BY <1>6
  <2>2. PICK c : c = CancelReconnect(tab)
    OBVIOUS
  <2>3. TabOK(c, log) /\ c.stream = None /\ c.timer = None
    BY <1>1, <2>2, CancelOK
  <2>4. PICK t : t = [c EXCEPT !.sel = r, !.retry = NoRetry]
    OBVIOUS
  <2>5. /\ t \in Tabs /\ t.shared = c.shared /\ t.stream = None /\ t.timer = None
        /\ t.read = c.read /\ t.hydrates = c.hydrates /\ ~t.retry.pending
    BY <2>3, <2>4 DEF TabOK, Tabs, NoRetry
  <2>6. Behind(t, log) /\ OfSelected(t)
    BY <2>3, <2>5 DEF TabOK, Behind, OfSelected
  <2>7. tab' = Refresh(t, None)
    BY <2>1, <2>2, <2>4 DEF Navigate
  <2> QED BY <1>2, <1>3, <2>5, <2>6, <2>7, RefreshOK DEF TabStep, TabOK
<1>7. CASE Reload
  <2>1. PICK shared : shared = IF tab.shared = None THEN None
                               ELSE [tab.shared EXCEPT !.known = {}, !.full = 0]
    OBVIOUS
  <2>2. shared # None => shared \in SharedRuns /\ Coherent(shared, log)
    <3>1. SUFFICES ASSUME shared # None PROVE shared \in SharedRuns /\ Coherent(shared, log)
      OBVIOUS
    <3>2. tab.shared # None /\ tab.shared \in SharedRuns /\ Coherent(tab.shared, log)
      BY <1>1, <2>1, <3>1 DEF Tabs, TabOK, Behind
    <3>3. shared = [tab.shared EXCEPT !.known = {}, !.full = 0]
      BY <2>1, <3>2
    <3>4. /\ shared \in SharedRuns /\ shared.known = {} /\ shared.full = 0
          /\ shared.run = tab.shared.run /\ shared.last = tab.shared.last
      BY <3>2, <3>3 DEF SharedRuns
    <3>5. shared.full <= Newest(shared.known)
      BY <3>4 DEF Newest
    <3>6. shared.last <= Len(log[shared.run])
      BY <3>2, <3>4 DEF Coherent
    <3> QED BY <3>4, <3>5, <3>6 DEF Coherent
  <2>3a. PICK r \in {tab.sel, None} :
          tab' = IF r = None /\ shared # None
                 THEN [[Opened(r) EXCEPT !.shared = shared] EXCEPT !.broken = TRUE]
                 ELSE Refresh([Opened(r) EXCEPT !.shared = shared], None)
    BY <1>7, <2>1 DEF Reload
  <2>3b. PICK t : t = [Opened(r) EXCEPT !.shared = shared]
    OBVIOUS
  <2>3. /\ r \in {tab.sel, None} /\ t = [Opened(r) EXCEPT !.shared = shared]
        /\ tab' = IF r = None /\ shared # None THEN [t EXCEPT !.broken = TRUE]
                  ELSE Refresh(t, None)
    BY <2>3a, <2>3b
  <2>4. /\ t \in Tabs /\ t.shared = shared /\ t.stream = None /\ t.timer = None
        /\ t.read = None /\ t.hydrates = {} /\ ~t.retry.pending
    <3>1. r \in Runs \cup {None} /\ shared \in SharedRuns \cup {None}
      BY <1>1, <2>2, <2>3 DEF Tabs
    <3>2. Opened(r) \in Tabs
      BY <1>2, <3>1 DEF Opened, Tabs, NoRetry
    <3>3. t \in Tabs /\ t.shared = shared
      BY <2>3, <3>1, <3>2 DEF Tabs
    <3> QED BY <2>3, <3>3 DEF Opened, NoRetry
  <2>5. Behind(t, log) /\ OfSelected(t)
    BY <2>2, <2>4 DEF Behind, OfSelected
  <2>6. TabOK(t, log)
    BY <2>4, <2>5 DEF TabOK
  <2>7. PICK b : b = [t EXCEPT !.broken = TRUE]
    OBVIOUS
  <2>8. /\ b \in Tabs /\ b.sel = t.sel /\ b.shared = t.shared /\ b.stream = t.stream
        /\ b.timer = t.timer /\ b.read = t.read /\ b.retry = t.retry /\ b.hydrates = t.hydrates
    BY <2>4, <2>7 DEF Tabs
  <2>9. TabOK(b, log)
    BY <2>6, <2>8, SameHoldings
  <2>10. TabOK(Refresh(t, None), log)
    BY <1>2, <2>6, RefreshOK
  <2> QED BY <1>3, <2>3, <2>7, <2>9, <2>10 DEF TabStep
<1> QED BY <1>3, <1>4, <1>5, <1>6, <1>7

-----------------------------------------------------------------------------
(* The theorems.                                                           *)

\* A tab that was just opened holds nothing.
LEMMA InitViewer == ViewerInit => ViewerInv
<1> SUFFICES ASSUME ViewerInit PROVE ViewerInv
  OBVIOUS
<1>1. log \in Logs
  BY DEF ViewerInit, Init, Logs
<1>2. None \in Keys
  BY DEF Keys
<1>3. PICK t : t = Opened(None)
  OBVIOUS
<1>4. t \in Tabs
  BY <1>2, <1>3 DEF Opened, NoRetry, Tabs
<1>5. t.shared = None /\ t.stream = None /\ t.timer = None /\ t.read = None /\ t.hydrates = {}
      /\ ~t.retry.pending
  BY <1>3 DEF Opened, NoRetry
<1>6. TabOK(t, log)
  BY <1>4, <1>5 DEF TabOK, Behind, OfSelected
<1>7. TabOK(tab, log)
  BY <1>2, <1>3, <1>6, RefreshOK DEF ViewerInit, TabInit
<1> QED BY <1>1, <1>7, ViewerAssumption DEF ViewerInit, ViewerInv

\* Every step keeps the invariant.
LEMMA NextKeepsViewer ==
    ASSUME ViewerInv, [ViewerNext]_vars
    PROVE  ViewerInv'
<1>1. MaxFailures \in Nat /\ MaxGestures \in Nat
  BY ViewerAssumption
<1>2. CASE UNCHANGED vars
  BY <1>2 DEF vars, ViewerInv
<1>3. CASE (\E r \in Runs : OtherTabStarts(r) \/ RunGrows(r)) \/ DemoReset
  BY <1>3, ServerKeeps
<1>4. CASE Answers
  BY <1>4, AnswersKeep
<1>5. CASE Arrivals
  <2>1. UNCHANGED <<failures, gestures>>
    BY <1>5 DEF Arrivals, StateArrives, LateStateArrives, HydrateArrives, EventArrives, EndArrives,
                StartArrives, ReconnectTimer, RetryTimer, Unaffected
  <2> QED BY <1>5, <2>1, ArrivalsKeep, TabStepKeeps DEF ViewerInv
<1>6. CASE StateFails \/ StreamFails \/ StartFails \/ \E h \in tab.hydrates : HydrateFails(h)
  <2>1. TabStep /\ Fails
    BY <1>6, FailuresKeep
  <2>2. failures' \in 0..MaxFailures /\ gestures' \in 0..MaxGestures
    BY <1>1, <2>1 DEF ViewerInv, Fails
  <2> QED BY <2>1, <2>2, TabStepKeeps
<1>7. CASE AskToStart \/ Reload \/ RetryByHand \/ \E r \in Runs \cup {None} : Navigate(r)
  <2>1. TabStep /\ UNCHANGED failures /\ (Gesture \/ UNCHANGED gestures)
    BY <1>7, UserKeeps
  <2>2. failures' \in 0..MaxFailures /\ gestures' \in 0..MaxGestures
    BY <1>1, <2>1 DEF ViewerInv, Gesture
  <2> QED BY <2>1, <2>2, TabStepKeeps
<1> QED BY <1>2, <1>3, <1>4, <1>5, <1>6, <1>7 DEF ViewerNext

(***************************************************************************)
(* What a tab holds, what is open or scheduled for it and what is on its   *)
(* way to it: of which run each is, and that none is ahead of its run.     *)
(***************************************************************************)
THEOREM ViewerInvariant == ViewerSpec => []ViewerInv
<1> QED BY InitViewer, NextKeepsViewer, PTL DEF ViewerSpec

(***************************************************************************)
(* Every part of the tab has its type, and neither the shared run nor the  *)
(* stream is at a place that the run has not reached.                      *)
(***************************************************************************)
THEOREM NothingAhead == ViewerSpec => []ViewerTypeOK
<1>1. ViewerInv => ViewerTypeOK
  <2> SUFFICES ASSUME ViewerInv PROVE ViewerTypeOK
    OBVIOUS
  <2>1. tab \in Tabs /\ log \in Logs /\ Behind(tab, log)
    BY DEF ViewerInv, TabOK
  <2>2. \A r \in Runs : Len(log[r]) \in Nat
    BY <2>1, LenProperties DEF Logs
  <2>3. tab.shared # None => tab.shared.last \in 0..Len(log[tab.shared.run])
    BY <2>1, <2>2 DEF Tabs, SharedRuns, Behind, Coherent
  <2>4. tab.stream # None => tab.stream.at \in 0..Len(log[tab.stream.run])
    BY <2>1, <2>2 DEF Tabs, Streams, Behind
  <2>5. /\ tab.sel \in Runs \cup {None} /\ tab.timer \in Runs \cup {None}
        /\ tab.starting \in Runs \cup {None, "asked"}
        /\ tab.hydrates \subseteq [run : Runs, n : Nat]
    BY <2>1 DEF Tabs, Hydrates
  <2> QED BY <2>3, <2>4, <2>5 DEF ViewerTypeOK, ViewerInv, Logs
<1> QED BY <1>1, ViewerInvariant, PTL

(***************************************************************************)
(* Whatever was selected and whichever answers, events and reloads came in *)
(* meanwhile, all events that the page shows are the shared run's, and its *)
(* last full projection does not reach beyond them.                        *)
(***************************************************************************)
THEOREM OneRunShown == ViewerSpec => []OneRunOnly
<1>1. ViewerInv => OneRunOnly
  BY DEF ViewerInv, TabOK, Behind, Coherent, OneRunOnly
<1> QED BY <1>1, ViewerInvariant, PTL

(***************************************************************************)
(* However the selection came about, by an answer, a start, a navigation   *)
(* or a reload: no stream, reconnect or retry of a run left behind stays.  *)
(***************************************************************************)
THEOREM NothingLeftBehind == ViewerSpec => []CallbacksAreOfSelected
<1>1. ViewerInv => CallbacksAreOfSelected
  BY DEF ViewerInv, TabOK, OfSelected, CallbacksAreOfSelected
<1> QED BY <1>1, ViewerInvariant, PTL
=============================================================================
