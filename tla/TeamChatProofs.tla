--------------------------- MODULE TeamChatProofs ---------------------------
(* The safety properties of TeamChat, for any keys, bodies, tools and limits, *)
(* any number of submissions at once and any number of crashes.               *)
(*                                                                            *)
(* That the room asked for beforehand is enough is not inductive: SlotInv and *)
(* AloneInv say how much of it a submission has used when it waits for its    *)
(* context, the provider or the model.  MessagesInv says that a key stands    *)
(* for one message, SlotInv whose message a submission is about to answer.    *)
EXTENDS TeamChat, SequenceTheorems, TLAPS

Received == [key : Keys, fits : BOOLEAN, answers : Nat, by : Slots, epoch : Nat]

(* What the messages of a conversation satisfy, whatever is appended to them. *)
MessagesInv(ms) ==
    /\ ms \in Seq(Received)
    /\ \A i \in 1..Len(ms) : ms[i].answers <= 1
    /\ \A i, j \in 1..Len(ms) :
         i # j /\ ms[i].key = ms[j].key => live /\ ms[i].by # ms[j].by

Serving(s) == subs[s].pc \in {"preflight", "model"}

(* What a submission relies on after an await.                                *)
SlotOf(s) ==
    /\ subs[s].pc \in {"idle", "reading", "preflight", "model"}
    /\ subs[s].pc = "reading" =>
         /\ live /\ subs[s].key \in Keys
         /\ subs[s].known \in 0..Len(messages)
         /\ \A i \in 1..Len(messages) : messages[i].by = s => i <= subs[s].known
    /\ Serving(s) =>
         /\ subs[s].of \in 1..Len(messages)
         /\ messages[subs[s].of].by = s /\ messages[subs[s].of].answers = 0
    /\ subs[s].pc = "model" =>
         /\ subs[s].results \in 0..MaxCalls
         /\ subs[s].body \notin Located => subs[s].results = 0

SlotInv == \A s \in Slots : SlotOf(s)

(* What is left to a submission that nothing overlapped.                      *)
RoomOf(s) ==
    /\ subs[s].pc = "reading" => subs[s].size = count
    /\ subs[s].pc = "preflight" => count + Reserve <= MaxRecords + 2
    /\ subs[s].pc = "model" => count + Reserve <= MaxRecords + 5 + 2 * subs[s].results

AloneInv ==
    ~overlapped =>
        /\ count <= MaxRecords
        /\ \A s, t \in Slots : Busy(s) /\ Busy(t) => s = t
        /\ \A s \in Slots : RoomOf(s)

Inv ==
    /\ live \in BOOLEAN /\ overlapped \in BOOLEAN /\ count \in Nat /\ crashes \in Nat
    /\ subs = [s \in Slots |-> subs[s]]
    /\ MessagesInv(messages) /\ SlotInv /\ AloneInv

-----------------------------------------------------------------------------
(* What a submission stores: r is the conversation with what it has received. *)
Extends(s, r) ==
    /\ Len(messages) <= Len(r)
    /\ \A i \in 1..Len(messages) : r[i] = messages[i]
    /\ \A i \in 1..Len(r) : i > Len(messages) => r[i].by = s

GoesOn(m, answers, next) ==
    /\ next.pc \in {"idle", "preflight", "model"}
    /\ next.pc # "idle" => answers = 0 /\ next.of = m
    /\ next.pc = "model" =>
         /\ next.results \in 0..MaxCalls
         /\ next.body \notin Located => next.results = 0

Takes(s, r, m, n, answers) ==
    /\ MessagesInv(r) /\ Extends(s, r)
    /\ m \in 1..Len(r) /\ r[m].by = s /\ r[m].answers = 0
    /\ n \in Nat \ {0} /\ answers \in {0, 1}

(* And what room it leaves, when it is alone.                                 *)
Leaves(n, next) ==
    /\ count + n <= MaxRecords
    /\ next.pc = "preflight" => count + n + Reserve <= MaxRecords + 2
    /\ next.pc = "model" => count + n + Reserve <= MaxRecords + 5 + 2 * next.results

Alone(s) == ~overlapped /\ \A t \in Slots : t # s => ~Busy(t)

Count(r, m, a) == [r EXCEPT ![m].answers = @ + a]

(* An answer counted for a message changes nothing else of the conversation.  *)
LEMMA Counted ==
    ASSUME NEW r \in Seq(Received), NEW m \in 1..Len(r), NEW a \in Nat,
           NEW q, q = Count(r, m, a)
    PROVE  /\ q \in Seq(Received) /\ Len(q) = Len(r)
           /\ \A i \in 1..Len(r) : i # m => q[i] = r[i]
           /\ q[m].answers = r[m].answers + a
           /\ q[m].key = r[m].key /\ q[m].by = r[m].by
<1>0. r[m] \in Received
  OBVIOUS
<1> DEFINE e == [r[m] EXCEPT !.answers = @ + a]
<1>1. e \in Received /\ e.answers = r[m].answers + a /\ e.key = r[m].key /\ e.by = r[m].by
  <2> DEFINE f == r[m]
  <2>1. f \in Received /\ f.answers \in Nat /\ f.answers + a \in Nat
    BY <1>0 DEF Received
  <2> HIDE DEF f
  <2>2. /\ [f EXCEPT !.answers = f.answers + a] \in Received
        /\ [f EXCEPT !.answers = f.answers + a].answers = f.answers + a
        /\ [f EXCEPT !.answers = f.answers + a].key = f.key
        /\ [f EXCEPT !.answers = f.answers + a].by = f.by
    BY <2>1 DEF Received
  <2>. QED BY <2>2 DEF f
<1>2. q = [r EXCEPT ![m] = e]
  BY DEF Count
<1> HIDE DEF e
<1>. QED BY <1>1, <1>2, ExceptSeq

(* A key that the lookup did not find may be received, by a submission whose  *)
(* earlier messages the lookup saw (submit, the search for duplicate).        *)
LEMMA Receive ==
    ASSUME MessagesInv(messages), live \in BOOLEAN, crashes \in Nat,
           NEW s \in Slots, NEW key \in Keys, NEW fits \in BOOLEAN,
           NEW known \in 0..Len(messages), ~Duplicate(key, known),
           \/ known = Len(messages)
           \/ live /\ \A i \in 1..Len(messages) : messages[i].by = s => i <= known,
           NEW r, r = Append(messages, Message(s, key, fits))
    PROVE  /\ MessagesInv(r) /\ Extends(s, r) /\ Len(r) = Len(messages) + 1
           /\ r[Len(messages) + 1].by = s /\ r[Len(messages) + 1].answers = 0
<1> DEFINE x == Message(s, key, fits)
           len == Len(messages)
<1>1. messages \in Seq(Received) /\ len \in Nat
  BY DEF MessagesInv
<1>2. x \in Received /\ x.by = s /\ x.answers = 0 /\ x.key = key
  BY DEF Message, Received
<1>3. /\ r \in Seq(Received) /\ Len(r) = len + 1
      /\ \A i \in 1..len : r[i] = messages[i]
      /\ r[len + 1] = x
  BY <1>1, <1>2, AppendProperties
<1>4. \A i \in 1..len : messages[i].key = key => live /\ messages[i].by # s
  <2>. SUFFICES ASSUME NEW i \in 1..len, messages[i].key = key
                PROVE  live /\ messages[i].by # s
    OBVIOUS
  <2>1. i > known
    BY <1>1 DEF Duplicate
  <2>. QED BY <1>1, <2>1
<1>5. \A i \in 1..Len(r) : i \in 1..len \/ i = len + 1
  BY <1>1, <1>3
<1> HIDE DEF x, len
<1>6. \A i \in 1..Len(r) : r[i].answers <= 1
  BY <1>2, <1>3, <1>5 DEF MessagesInv, len
<1>7. \A i, j \in 1..Len(r) :
         i # j /\ r[i].key = r[j].key => live /\ r[i].by # r[j].by
  BY <1>2, <1>3, <1>4, <1>5 DEF MessagesInv, len
<1>8. Extends(s, r)
  BY <1>1, <1>2, <1>3, <1>5 DEF Extends, len
<1>. QED BY <1>2, <1>3, <1>6, <1>7, <1>8 DEF MessagesInv, len

(* Whatever a submission stores, and wherever the process dies between two of *)
(* its records, the invariant stays.                                          *)
LEMMA StoreKeeps ==
    ASSUME LimitsAssumption, Inv, NEW s \in Slots, NEW r, NEW m, NEW n, NEW answers, NEW next,
           Takes(s, r, m, n, answers), GoesOn(m, answers, next),
           Store(s, r, m, n, answers, next),
           overlapped' \in BOOLEAN, ~overlapped' => Alone(s) /\ Leaves(n, next)
    PROVE  Inv'
<1>0. n \in Nat /\ count \in Nat /\ crashes \in Nat /\ live \in BOOLEAN
  BY DEF Inv, Takes
<1>1. /\ r \in Seq(Received) /\ m \in 1..Len(r) /\ answers \in {0, 1}
      /\ r[m].answers = 0 /\ r[m].by = s
      /\ subs = [t \in Slots |-> subs[t]]
  BY DEF Inv, Takes, MessagesInv
<1>2. /\ Len(messages) \in Nat /\ Len(r) \in Nat /\ Len(messages) <= Len(r)
      /\ \A i \in 1..Len(messages) : i \in 1..Len(r) /\ r[i] = messages[i]
      /\ \A i \in 1..Len(r) : i \notin 1..Len(messages) => r[i].by = s
  <2>1. messages \in Seq(Received)
    BY DEF Inv, MessagesInv
  <2>2. Len(messages) \in Nat /\ Len(r) \in Nat
    BY <1>1, <2>1
  <2>. QED BY <2>2 DEF Takes, Extends
<1>3. CASE /\ count' = count + n
           /\ messages' = [r EXCEPT ![m].answers = @ + answers]
           /\ subs' = [subs EXCEPT ![s] = next]
           /\ UNCHANGED <<live, crashes>>
  <2>0. PICK q : q = messages'
    OBVIOUS
  <2>1. /\ q \in Seq(Received) /\ Len(q) = Len(r)
        /\ \A i \in 1..Len(r) : i # m => q[i] = r[i]
        /\ q[m].answers = answers
        /\ q[m].key = r[m].key /\ q[m].by = r[m].by
    <3>1. q = Count(r, m, answers)
      BY <1>3, <2>0 DEF Count
    <3>2. answers \in Nat /\ 0 + answers = answers
      BY <1>1
    <3>3. /\ q \in Seq(Received) /\ Len(q) = Len(r)
          /\ \A i \in 1..Len(r) : i # m => q[i] = r[i]
          /\ q[m].answers = r[m].answers + answers
          /\ q[m].key = r[m].key /\ q[m].by = r[m].by
      <4>1. r \in Seq(Received) /\ m \in 1..Len(r)
        BY <1>1
      <4>. QED BY <3>1, <3>2, <4>1, Counted
    <3>. QED BY <1>1, <3>2, <3>3
  <2>2. \A t \in Slots : subs'[t] = IF t = s THEN next ELSE subs[t]
    BY <1>1, <1>3
  <2>3. subs' = [t \in Slots |-> subs'[t]]
    BY <1>1, <1>3
  <2>4. \A i \in 1..Len(r) : q[i].key = r[i].key /\ q[i].by = r[i].by
    BY <2>1
  <2>5. MessagesInv(messages)'
    <3>1. \A i \in 1..Len(r) : r[i].answers <= 1
      BY DEF Takes, MessagesInv
    <3>2. \A i \in 1..Len(q) : q[i].answers <= 1
      <4>. SUFFICES ASSUME NEW i \in 1..Len(r) PROVE q[i].answers <= 1
        BY <2>1
      <4>1. CASE i = m
        BY <1>1, <2>1, <4>1
      <4>2. CASE i # m
        BY <2>1, <3>1, <4>2
      <4>. QED BY <4>1, <4>2
    <3>3. \A i, j \in 1..Len(r) : i # j /\ r[i].key = r[j].key => live /\ r[i].by # r[j].by
      BY DEF Takes, MessagesInv
    <3>4. \A i, j \in 1..Len(q) : i # j /\ q[i].key = q[j].key => live /\ q[i].by # q[j].by
      BY <2>1, <2>4, <3>3
    <3>. QED BY <1>3, <2>0, <2>1, <3>2, <3>4 DEF MessagesInv
  <2>6. SlotInv'
    <3>. SUFFICES ASSUME NEW t \in Slots PROVE SlotOf(t)'
      BY DEF SlotInv
    <3>1. CASE t = s
      <4>1. subs'[t] = next
        BY <2>2, <3>1
      <4>. QED BY <1>1, <2>0, <2>1, <3>1, <4>1 DEF SlotOf, Serving, GoesOn
    <3>2. CASE t # s
      <4>1. subs'[t] = subs[t] /\ SlotOf(t)
        BY <2>2, <3>2 DEF Inv, SlotInv
      <4>2. ASSUME subs[t].pc = "reading"
            PROVE  /\ subs[t].known \in 0..Len(q)
                   /\ \A i \in 1..Len(q) : q[i].by = t => i <= subs[t].known
        <5>1. /\ subs[t].known \in 0..Len(messages)
              /\ \A i \in 1..Len(messages) : messages[i].by = t => i <= subs[t].known
          BY <4>1, <4>2 DEF SlotOf
        <5>2. \A i \in 1..Len(r) : r[i].by = t => i \in 1..Len(messages) /\ r[i] = messages[i]
          BY <1>2, <3>2
        <5>3. \A i \in 1..Len(q) : q[i].by = t => i <= subs[t].known
          BY <2>1, <2>4, <5>1, <5>2
        <5>4. /\ Len(messages) \in Nat /\ Len(q) \in Nat /\ Len(messages) <= Len(q)
              /\ subs[t].known \in 0..Len(messages)
          BY <1>2, <2>1, <5>1
        <5>. QED BY <5>3, <5>4
      <4>3. ASSUME Serving(t)
            PROVE  /\ subs[t].of \in 1..Len(q)
                   /\ q[subs[t].of].by = t /\ q[subs[t].of].answers = 0
        <5>1. /\ subs[t].of \in 1..Len(messages)
              /\ messages[subs[t].of].by = t /\ messages[subs[t].of].answers = 0
          BY <4>1, <4>3 DEF SlotOf
        <5>2. /\ subs[t].of \in 1..Len(r) /\ r[subs[t].of] = messages[subs[t].of]
          BY <1>2, <5>1
        <5>. QED BY <1>1, <2>1, <3>2, <5>1, <5>2
      <4>. QED BY <1>3, <2>0, <4>1, <4>2, <4>3 DEF SlotOf, Serving
    <3>. QED BY <3>1, <3>2
  <2>7. AloneInv'
    <3>. SUFFICES ASSUME ~overlapped'
                  PROVE  /\ count' <= MaxRecords
                         /\ \A t, u \in Slots : Busy(t)' /\ Busy(u)' => t = u
                         /\ \A t \in Slots : RoomOf(t)'
      BY DEF AloneInv
    <3>1. Alone(s) /\ Leaves(n, next)
      OBVIOUS
    <3>2. \A t \in Slots : t # s => subs'[t].pc = "idle"
      BY <2>2, <3>1 DEF Alone, Busy
    <3>3. \A t \in Slots : RoomOf(t)'
      <4>. SUFFICES ASSUME NEW t \in Slots PROVE RoomOf(t)'
        OBVIOUS
      <4>1. CASE t = s
        <5>1. subs'[t] = next
          BY <2>2, <4>1
        <5>. QED BY <1>3, <3>1, <5>1 DEF RoomOf, Leaves, GoesOn
      <4>2. CASE t # s
        BY <3>2, <4>2 DEF RoomOf
      <4>. QED BY <4>1, <4>2
    <3>4. count' <= MaxRecords
      BY <1>3, <3>1 DEF Leaves
    <3>. QED BY <3>2, <3>3, <3>4 DEF Busy
  <2>8. count' \in Nat /\ crashes' \in Nat /\ live' \in BOOLEAN
    BY <1>0, <1>3
  <2>. QED BY <2>3, <2>5, <2>6, <2>7, <2>8 DEF Inv
<1>4. ASSUME NEW k \in 0..(n - 1), crashes' = crashes + 1, count' = count + k,
             messages' = IF k = 0 THEN messages ELSE r,
             subs' = [t \in Slots |-> Idle], UNCHANGED live
      PROVE  Inv'
  <2>1. \A t \in Slots : subs'[t].pc = "idle"
    BY <1>4 DEF Idle
  <2>2. subs' = [t \in Slots |-> subs'[t]]
    BY <1>4
  <2>3. MessagesInv(messages)'
    <3>1. messages' = messages \/ messages' = r
      BY <1>4
    <3>2. live' = live /\ MessagesInv(messages) /\ MessagesInv(r)
      BY <1>4 DEF Inv, Takes
    <3>3. CASE messages' = messages
      BY <3>2, <3>3 DEF MessagesInv
    <3>4. CASE messages' = r
      BY <3>2, <3>4 DEF MessagesInv
    <3>. QED BY <3>1, <3>3, <3>4
  <2>4. SlotInv'
    BY <2>1 DEF SlotInv, SlotOf, Serving
  <2>5. k \in Nat /\ k <= n
    BY <1>0
  <2>6. AloneInv'
    <3>1. ~overlapped' => count + n <= MaxRecords
      BY DEF Leaves
    <3>2. ~overlapped' => count' <= MaxRecords
      BY <1>0, <1>4, <2>5, <3>1, LimitsAssumption DEF LimitsAssumption
    <3>. QED BY <2>1, <3>2 DEF AloneInv, RoomOf, Busy
  <2>7. count' \in Nat /\ crashes' \in Nat /\ live' \in BOOLEAN
    BY <1>0, <1>4, <2>5
  <2>. QED BY <2>2, <2>3, <2>4, <2>6, <2>7 DEF Inv
<1>. QED
  <2>1. CASE /\ count' = count + n
             /\ messages' = [r EXCEPT ![m].answers = @ + answers]
             /\ subs' = [subs EXCEPT ![s] = next]
             /\ UNCHANGED <<live, crashes>>
    BY <1>3, <2>1
  <2>2. CASE /\ crashes < MaxCrashes /\ crashes' = crashes + 1
             /\ \E k \in 0..(n - 1) :
                  /\ count' = count + k
                  /\ messages' = IF k = 0 THEN messages ELSE r
             /\ subs' = [t \in Slots |-> Idle]
             /\ UNCHANGED live
    BY <1>4, <2>2
  <2>. QED BY <2>1, <2>2 DEF Store

-----------------------------------------------------------------------------
LEMMA InitInv == Init => Inv
<1>. SUFFICES ASSUME Init PROVE Inv
  OBVIOUS
<1>1. messages = <<>> /\ \A s \in Slots : subs[s].pc = "idle"
  BY DEF Init, Idle
<1>2. count \in Nat /\ count <= MaxRecords /\ MaxRecords \in Nat
  BY LimitsAssumption DEF Init, LimitsAssumption
<1>3. MessagesInv(messages)
  BY <1>1 DEF MessagesInv
<1>4. SlotInv
  BY <1>1 DEF SlotInv, SlotOf, Serving
<1>5. AloneInv
  BY <1>1, <1>2 DEF AloneInv, RoomOf, Busy
<1>. QED BY <1>2, <1>3, <1>4, <1>5 DEF Init, Inv

(* A submission that came when none was open, or that none joined, is alone.  *)
LEMMA AloneWhenBusy ==
    ASSUME Inv, NEW s \in Slots, Busy(s), ~overlapped
    PROVE  Alone(s) /\ RoomOf(s)
BY DEF Inv, AloneInv, Alone

LEMMA AloneOnArrival ==
    ASSUME Inv, NEW s \in Slots, Arrives(s)
    PROVE  overlapped' \in BOOLEAN /\ (~overlapped' => Alone(s))
BY DEF Inv, Arrives, Alone

(* The records that a message is received with, after the lookup and the      *)
(* question for room (submit).                                                *)
LEMMA AdmittedKeeps ==
    ASSUME LimitsAssumption, Inv, NEW s \in Slots, NEW key \in Keys, NEW body, NEW size,
           NEW known \in 0..Len(messages),
           \/ known = Len(messages)
           \/ live /\ \A i \in 1..Len(messages) : messages[i].by = s => i <= known,
           Admitted(s, key, body, known, size),
           overlapped' \in BOOLEAN, ~overlapped' => Alone(s) /\ size = count
    PROVE  Inv'
<1> DEFINE m == Len(messages) + 1
           entry == 1 + (IF body \in Routed THEN 1 ELSE 0)
           large == Append(messages, Message(s, key, FALSE))
           fitting == Append(messages, Message(s, key, TRUE))
           asked == Working("preflight", m, body, 0, [t \in Tools |-> 0], 0)
<1>1. ~Duplicate(key, known) /\ (~overlapped' => count + Reserve <= MaxRecords)
  BY DEF Admitted, HasRoom
<1>2. count \in Nat /\ Reserve \in Nat /\ Reserve >= 9 /\ MaxRecords \in Nat
  BY DEF Inv, LimitsAssumption
<1>3. MessagesInv(messages) /\ live \in BOOLEAN /\ crashes \in Nat /\ Len(messages) \in Nat
  BY DEF Inv, MessagesInv
<1>4. /\ MessagesInv(large) /\ Extends(s, large) /\ Len(large) = Len(messages) + 1
      /\ large[m].by = s /\ large[m].answers = 0
  BY <1>1, <1>3, Receive
<1>5. /\ MessagesInv(fitting) /\ Extends(s, fitting) /\ Len(fitting) = Len(messages) + 1
      /\ fitting[m].by = s /\ fitting[m].answers = 0
  <2>1. TRUE \in BOOLEAN
    OBVIOUS
  <2>. QED BY <1>1, <1>3, <2>1, Receive, ZenonT(30)
<1>6. entry \in {1, 2} /\ m \in 1..m
  BY <1>3
<1>7. /\ asked.pc = "preflight" /\ asked.of = m
      /\ Idle.pc = "idle"
  BY DEF Working, Idle
<1>8. \/ Store(s, large, m, entry, 0, Idle)
      \/ Store(s, fitting, m, entry + 2, 1, Idle)
      \/ Store(s, fitting, m, entry, 0, asked)
  BY DEF Admitted
<1> HIDE DEF m, entry, large, fitting, asked
<1>9. CASE Store(s, large, m, entry, 0, Idle)
  <2>1. Takes(s, large, m, entry, 0)
    BY <1>4, <1>6 DEF Takes, m
  <2>2. GoesOn(m, 0, Idle) /\ (~overlapped' => Leaves(entry, Idle))
    BY <1>1, <1>2, <1>6, <1>7 DEF GoesOn, Leaves
  <2>. QED BY <1>9, <2>1, <2>2, StoreKeeps
<1>10. CASE Store(s, fitting, m, entry + 2, 1, Idle)
  <2>1. Takes(s, fitting, m, entry + 2, 1)
    BY <1>5, <1>6 DEF Takes, m
  <2>2. GoesOn(m, 1, Idle) /\ (~overlapped' => Leaves(entry + 2, Idle))
    BY <1>1, <1>2, <1>6, <1>7 DEF GoesOn, Leaves
  <2>. QED BY <1>10, <2>1, <2>2, StoreKeeps
<1>11. CASE Store(s, fitting, m, entry, 0, asked)
  <2>1. Takes(s, fitting, m, entry, 0)
    BY <1>5, <1>6 DEF Takes, m
  <2>2. GoesOn(m, 0, asked) /\ (~overlapped' => Leaves(entry, asked))
    BY <1>1, <1>2, <1>6, <1>7 DEF GoesOn, Leaves
  <2>. QED BY <1>11, <2>1, <2>2, StoreKeeps
<1>. QED BY <1>8, <1>9, <1>10, <1>11

LEMMA SubmitKeeps ==
    ASSUME LimitsAssumption, Inv, NEW s \in Slots, NEW key \in Keys, NEW body, Submit(s, key, body)
    PROVE  Inv'
<1>1. overlapped' \in BOOLEAN /\ (~overlapped' => Alone(s))
  BY AloneOnArrival DEF Submit
<1>2. Len(messages) \in 0..Len(messages)
  BY DEF Inv, MessagesInv
<1>. QED BY <1>1, <1>2, AdmittedKeeps DEF Submit

(* A submission that waits for the collector relies on what it read.          *)
LEMMA ReadContextKeeps ==
    ASSUME Inv, NEW s \in Slots, NEW key \in Keys, NEW body, ReadContext(s, key, body)
    PROVE  Inv'
<1>1. overlapped' \in BOOLEAN /\ (~overlapped' => Alone(s))
  BY AloneOnArrival DEF ReadContext
<1>2. /\ live /\ UNCHANGED <<live, count, messages, crashes>>
      /\ subs' = [subs EXCEPT ![s] = Reading(key, body)]
      /\ subs = [t \in Slots |-> subs[t]]
  BY DEF ReadContext, Inv
<1>3. \A t \in Slots : subs'[t] = IF t = s THEN Reading(key, body) ELSE subs[t]
  BY <1>2
<1>4. /\ Reading(key, body).pc = "reading" /\ Reading(key, body).key = key
      /\ Reading(key, body).known = Len(messages) /\ Reading(key, body).size = count
  BY DEF Reading
<1>5. Len(messages) \in Nat
  BY DEF Inv, MessagesInv
<1>6. SlotInv'
  <2>. SUFFICES ASSUME NEW t \in Slots PROVE SlotOf(t)'
    BY DEF SlotInv
  <2>1. CASE t = s
    BY <1>2, <1>3, <1>4, <1>5, <2>1 DEF SlotOf, Serving
  <2>2. CASE t # s
    BY <1>2, <1>3, <2>2 DEF Inv, SlotInv, SlotOf, Serving
  <2>. QED BY <2>1, <2>2
<1>7. AloneInv'
  <2>. SUFFICES ASSUME ~overlapped' PROVE AloneInv'
    BY DEF AloneInv
  <2>1. ~overlapped /\ \A t \in Slots : t # s => subs'[t].pc = "idle"
    BY <1>1, <1>3 DEF Alone, Busy
  <2>. QED BY <1>2, <1>3, <1>4, <2>1 DEF Inv, AloneInv, RoomOf, Busy
<1>8. MessagesInv(messages)' /\ subs' = [t \in Slots |-> subs'[t]]
  BY <1>2 DEF Inv, MessagesInv
<1>. QED BY <1>1, <1>2, <1>6, <1>7, <1>8 DEF Inv

LEMMA ContextReadKeeps ==
    ASSUME LimitsAssumption, Inv, NEW s \in Slots, ContextRead(s)
    PROVE  Inv'
<1>1. /\ live /\ subs[s].key \in Keys /\ subs[s].known \in 0..Len(messages)
      /\ \A i \in 1..Len(messages) : messages[i].by = s => i <= subs[s].known
  BY DEF ContextRead, Inv, SlotInv, SlotOf
<1>2. Busy(s) /\ overlapped' = overlapped /\ overlapped' \in BOOLEAN
  BY DEF ContextRead, Busy, Inv
<1>3. ~overlapped' => Alone(s) /\ subs[s].size = count
  BY <1>2, AloneWhenBusy DEF ContextRead, RoomOf
<1>4. CASE Returned(s)
  <2>1. /\ UNCHANGED <<live, count, messages, crashes>>
        /\ subs = [t \in Slots |-> subs[t]] /\ subs' = [subs EXCEPT ![s] = Idle]
    BY <1>4 DEF Returned, Inv
  <2>2. \A t \in Slots : subs'[t] = IF t = s THEN Idle ELSE subs[t]
    BY <2>1
  <2>3. SlotInv'
    BY <2>1, <2>2 DEF Inv, SlotInv, SlotOf, Serving, Idle
  <2>4. AloneInv'
    BY <1>2, <2>1, <2>2 DEF Inv, AloneInv, RoomOf, Busy, Idle
  <2>5. MessagesInv(messages)' /\ subs' = [t \in Slots |-> subs'[t]]
    BY <2>1 DEF Inv, MessagesInv
  <2>. QED BY <1>2, <2>1, <2>3, <2>4, <2>5 DEF Inv
<1>5. CASE Admitted(s, subs[s].key, subs[s].body, subs[s].known, subs[s].size)
  BY <1>1, <1>2, <1>3, <1>5, AdmittedKeeps
<1>. QED BY <1>4, <1>5 DEF ContextRead

-----------------------------------------------------------------------------
(* A submission whose message is received stores to that message.             *)
LEMMA ServingKeeps ==
    ASSUME LimitsAssumption, Inv, NEW s \in Slots, Serving(s),
           NEW n \in Nat \ {0}, NEW answers \in {0, 1}, NEW next,
           Store(s, messages, subs[s].of, n, answers, next), UNCHANGED overlapped,
           GoesOn(subs[s].of, answers, next), RoomOf(s) => Leaves(n, next)
    PROVE  Inv'
<1>1. /\ MessagesInv(messages) /\ Len(messages) \in Nat
      /\ subs[s].of \in 1..Len(messages)
      /\ messages[subs[s].of].by = s /\ messages[subs[s].of].answers = 0
  BY DEF Inv, MessagesInv, SlotInv, SlotOf
<1>2. Extends(s, messages)
  BY <1>1 DEF Extends
<1>3. Takes(s, messages, subs[s].of, n, answers)
  BY <1>1, <1>2 DEF Takes
<1>4. Busy(s)
  BY DEF Serving, Busy
<1>5. overlapped' \in BOOLEAN /\ (~overlapped' => Alone(s) /\ Leaves(n, next))
  BY <1>4, AloneWhenBusy DEF Inv
<1>. QED BY <1>3, <1>5, StoreKeeps

(* A submission that ends after n records, of which the last is its answer.   *)
LEMMA EndingKeeps ==
    ASSUME LimitsAssumption, Inv, NEW s \in Slots, Serving(s), NEW n \in Nat \ {0},
           Store(s, messages, subs[s].of, n, 1, Idle), UNCHANGED overlapped,
           RoomOf(s) => count + n <= MaxRecords
    PROVE  Inv'
<1>1. GoesOn(subs[s].of, 1, Idle) /\ (RoomOf(s) => Leaves(n, Idle))
  BY DEF GoesOn, Leaves, Idle
<1>. QED BY <1>1, ServingKeeps

LEMMA PreparedKeeps ==
    ASSUME LimitsAssumption, Inv, NEW s \in Slots, Prepared(s)
    PROVE  Inv'
<1> DEFINE m == subs[s].of
           seeded == IF subs[s].body \in Located THEN 1 ELSE 0
           prepared == 3 + 2 * seeded
           asked == Working("model", m, subs[s].body, 0, [t \in Tools |-> 0], seeded)
<1>1. Serving(s) /\ subs[s].pc = "preflight" /\ UNCHANGED overlapped
  BY DEF Prepared, Serving
<1>2. /\ count \in Nat /\ MaxRecords \in Nat /\ Reserve \in Nat /\ MaxCalls \in Nat
      /\ Reserve >= 9 /\ MaxCalls >= 1
  BY DEF Inv, LimitsAssumption
<1>3. RoomOf(s) => count + Reserve <= MaxRecords + 2
  BY <1>1 DEF RoomOf
<1>4. \/ Store(s, messages, m, prepared, 0, asked)
      \/ Store(s, messages, m, 4, 1, Idle)
      \/ Store(s, messages, m, prepared + 2, 1, Idle)
  BY DEF Prepared
<1>5. CASE Store(s, messages, m, prepared, 0, asked)
  <2>1. /\ asked.pc = "model" /\ asked.of = m /\ asked.results = seeded
        /\ asked.body = subs[s].body
    BY DEF Working
  <2>2. /\ seeded \in {0, 1} /\ seeded \in 0..MaxCalls
        /\ subs[s].body \notin Located => seeded = 0
    BY <1>2
  <2>3. prepared \in Nat \ {0} /\ prepared = 3 + 2 * seeded /\ prepared <= 5
    BY <2>2
  <2> HIDE DEF asked, prepared, seeded
  <2>4. GoesOn(m, 0, asked)
    BY <2>1, <2>2 DEF GoesOn
  <2>5. RoomOf(s) => Leaves(prepared, asked)
    BY <1>2, <1>3, <2>1, <2>2, <2>3 DEF Leaves
  <2>. QED BY <1>1, <1>5, <2>3, <2>4, <2>5, ServingKeeps
<1>6. CASE Store(s, messages, m, 4, 1, Idle)
  BY <1>1, <1>2, <1>3, <1>6, EndingKeeps
<1>7. CASE Store(s, messages, m, prepared + 2, 1, Idle)
  <2>1. prepared + 2 \in Nat \ {0} /\ prepared + 2 <= 7
    OBVIOUS
  <2>2. RoomOf(s) => count + (prepared + 2) <= MaxRecords
    BY <1>2, <1>3, <2>1
  <2>. QED BY <1>1, <1>7, <2>1, <2>2, EndingKeeps
<1>. QED BY <1>4, <1>5, <1>6, <1>7

(* What a submission that asked the model can rely on.                        *)
LEMMA ModelRoom ==
    ASSUME LimitsAssumption, Inv, NEW s \in Slots, subs[s].pc = "model"
    PROVE  /\ Serving(s) /\ count \in Nat /\ MaxRecords \in Nat /\ Reserve \in Nat
           /\ MaxCalls \in Nat /\ MaxCalls >= 1 /\ 7 + 2 * MaxCalls <= Reserve
           /\ subs[s].results \in 0..MaxCalls
           /\ subs[s].body \notin Located => subs[s].results = 0
           /\ RoomOf(s) => count + Reserve <= MaxRecords + 5 + 2 * subs[s].results
<1>1. /\ count \in Nat /\ MaxRecords \in Nat /\ Reserve \in Nat
      /\ MaxCalls \in Nat /\ MaxCalls >= 1 /\ 7 + 2 * MaxCalls <= Reserve
  BY DEF Inv, LimitsAssumption
<1>2. SlotOf(s)
  BY DEF Inv, SlotInv
<1>. QED BY <1>1, <1>2 DEF SlotOf, Serving, RoomOf

LEMMA AnsweredKeeps ==
    ASSUME LimitsAssumption, Inv, NEW s \in Slots, Answered(s)
    PROVE  Inv'
<1>1. PICK n \in {1, 2} : Store(s, messages, subs[s].of, n, 1, Idle)
  BY DEF Answered
<1>2. UNCHANGED overlapped /\ subs[s].pc = "model"
  BY DEF Answered
<1>3. RoomOf(s) => count + n <= MaxRecords
  BY <1>2, ModelRoom
<1>4. n \in Nat \ {0} /\ Serving(s)
  BY <1>2, ModelRoom
<1>. QED BY <1>1, <1>2, <1>3, <1>4, EndingKeeps

LEMMA FailedKeeps ==
    ASSUME LimitsAssumption, Inv, NEW s \in Slots, Failed(s)
    PROVE  Inv'
<1>1. PICK n \in (IF subs[s].body \in Located THEN {2} ELSE {2, 3}) :
          Store(s, messages, subs[s].of, n, 1, Idle)
  BY DEF Failed
<1>2. UNCHANGED overlapped /\ subs[s].pc = "model"
  BY DEF Failed
<1>3. n \in {2, 3} /\ (n = 3 => subs[s].body \notin Located)
  BY <1>1
<1>4. RoomOf(s) => count + n <= MaxRecords
  BY <1>2, <1>3, ModelRoom
<1>5. n \in Nat \ {0} /\ Serving(s)
  BY <1>2, <1>3, ModelRoom
<1>. QED BY <1>1, <1>2, <1>4, <1>5, EndingKeeps

LEMMA Margin ==
    ASSUME NEW size \in Nat, NEW total \in Nat, NEW reserve \in Nat, NEW calls \in Nat,
           NEW done \in Nat, NEW n \in Nat,
           7 + 2 * calls <= reserve, done + n <= calls, size + reserve <= total + 5 + 2 * done
    PROVE  /\ size + (2 * n + 2) <= total
           /\ size + 2 * n + reserve <= total + 5 + 2 * (done + n)
OBVIOUS

(* Every request that is granted has room, since the calls are counted.       *)
LEMMA ToolsAskedKeeps ==
    ASSUME LimitsAssumption, Inv, NEW s \in Slots, NEW asked \in Seq(Tools), asked # <<>>,
           ToolsAsked(s, asked)
    PROVE  Inv'
<1> DEFINE m == subs[s].of
           next(n) == Working("model", m, subs[s].body, subs[s].round + 1,
                              CallsUpTo(s, asked, n), subs[s].results + n)
<1>1. UNCHANGED overlapped /\ subs[s].pc = "model"
  BY DEF ToolsAsked
<1>2. PICK n \in 0..Len(asked) :
         /\ Granted(s, asked, n)
         /\ \/ n = Len(asked) /\ Store(s, messages, m, 2 * n, 0, next(n))
            \/ n < Len(asked) /\ Store(s, messages, m, 2 * n + 2, 1, Idle)
            \/ \E k \in 1..n : Store(s, messages, m, 2 * k + 1, 1, Idle)
  BY DEF ToolsAsked
<1>3. Len(asked) \in Nat /\ Len(asked) > 0
  BY EmptySeq, LenProperties
<1>4. /\ Serving(s) /\ count \in Nat /\ MaxRecords \in Nat /\ Reserve \in Nat
      /\ MaxCalls \in Nat /\ 7 + 2 * MaxCalls <= Reserve /\ subs[s].results \in 0..MaxCalls
      /\ RoomOf(s) => count + Reserve <= MaxRecords + 5 + 2 * subs[s].results
  BY <1>1, ModelRoom
<1>5. /\ n \in Nat /\ subs[s].results + n <= MaxCalls
      /\ n > 0 => subs[s].body \in Located
  <2>1. n \in Nat
    BY <1>2, <1>3
  <2>2. n > 0 => subs[s].body \in Located /\ subs[s].results + n <= MaxCalls
    BY <1>2 DEF Granted, RoundOpen, InBudget
  <2>. QED BY <1>4, <2>1, <2>2
<1>6. RoomOf(s) =>
         /\ count + (2 * n + 2) <= MaxRecords
         /\ count + 2 * n + Reserve <= MaxRecords + 5 + 2 * (subs[s].results + n)
  <2>1. subs[s].results \in Nat
    BY <1>4
  <2>. QED BY <1>4, <1>5, <2>1, Margin
<1>7. CASE n = Len(asked) /\ Store(s, messages, m, 2 * n, 0, next(n))
  <2>1. /\ next(n).pc = "model" /\ next(n).of = m /\ next(n).results = subs[s].results + n
        /\ next(n).body = subs[s].body
    BY DEF Working
  <2>2. n > 0 /\ 2 * n \in Nat \ {0}
    BY <1>3, <1>5, <1>7
  <2> DEFINE other == next(n)
  <2> HIDE DEF other
  <2>3. /\ other.pc = "model" /\ other.of = m /\ other.results = subs[s].results + n
        /\ other.body = subs[s].body
        /\ Store(s, messages, m, 2 * n, 0, other)
    BY <1>7, <2>1 DEF other
  <2> HIDE DEF m, next
  <2>4. GoesOn(m, 0, other)
    BY <1>4, <1>5, <2>2, <2>3 DEF GoesOn
  <2>5. RoomOf(s) => Leaves(2 * n, other)
    <3>. SUFFICES ASSUME RoomOf(s) PROVE Leaves(2 * n, other)
      OBVIOUS
    <3>1. n \in Nat /\ count \in Nat /\ MaxRecords \in Nat
      BY <1>4, <1>5
    <3>2. count + 2 * n <= MaxRecords
      <4>1. count + (2 * n + 2) <= MaxRecords
        BY <1>6
      <4>. QED BY <3>1, <4>1
    <3>3. count + 2 * n + Reserve <= MaxRecords + 5 + 2 * other.results
      BY <1>6, <2>3
    <3>. QED BY <2>3, <3>2, <3>3 DEF Leaves
  <2>. QED BY <1>1, <1>4, <2>2, <2>3, <2>4, <2>5, ServingKeeps DEF m
<1>8. CASE n < Len(asked) /\ Store(s, messages, m, 2 * n + 2, 1, Idle)
  <2>1. 2 * n + 2 \in Nat \ {0}
    BY <1>5
  <2>2. RoomOf(s) => count + (2 * n + 2) <= MaxRecords
    BY <1>6
  <2>. QED BY <1>1, <1>4, <1>8, <2>1, <2>2, EndingKeeps
<1>9. ASSUME NEW k \in 1..n, Store(s, messages, m, 2 * k + 1, 1, Idle)
      PROVE  Inv'
  <2>1. k \in Nat /\ k <= n /\ 2 * k + 1 \in Nat \ {0}
    BY <1>5
  <2>2. RoomOf(s) => count + (2 * k + 1) <= MaxRecords
    <3>. SUFFICES ASSUME RoomOf(s) PROVE count + (2 * k + 1) <= MaxRecords
      OBVIOUS
    <3>1. n \in Nat /\ count \in Nat /\ MaxRecords \in Nat
      BY <1>4, <1>5
    <3>2. count + (2 * n + 2) <= MaxRecords
      BY <1>6
    <3>. QED BY <2>1, <3>1, <3>2
  <2>. QED BY <1>1, <1>4, <1>9, <2>1, <2>2, EndingKeeps
<1>. QED BY <1>2, <1>7, <1>8, <1>9

LEMMA StepInv ==
    ASSUME LimitsAssumption, Inv, [Next]_vars
    PROVE  Inv'
<1>1. CASE UNCHANGED vars
  BY <1>1 DEF vars, Inv, MessagesInv, SlotInv, SlotOf, Serving, AloneInv, RoomOf, Busy
<1>2. ASSUME NEW s \in Slots, NEW key \in Keys, NEW body \in Bodies,
             Submit(s, key, body) \/ ReadContext(s, key, body)
      PROVE  Inv'
  BY <1>2, SubmitKeeps, ReadContextKeeps
<1>3. ASSUME NEW s \in Slots, ContextRead(s) \/ Prepared(s)
      PROVE  Inv'
  BY <1>3, ContextReadKeeps, PreparedKeeps
<1>4. ASSUME NEW s \in Slots, ModelReturns(s)
      PROVE  Inv'
  <2>1. ASSUME NEW n \in {1, 2}, NEW asked \in [1..n -> Tools], ToolsAsked(s, asked)
        PROVE  Inv'
    <3>1. n \in Nat /\ n > 0
      OBVIOUS
    <3>2. asked \in Seq(Tools) /\ asked # <<>>
      BY <3>1
    <3>. QED BY <2>1, <3>2, ToolsAskedKeeps
  <2>. QED BY <1>4, <2>1, AnsweredKeeps, FailedKeeps DEF ModelReturns
<1>. QED BY <1>1, <1>2, <1>3, <1>4 DEF Next

-----------------------------------------------------------------------------
(* What a submission has used of its room, and whose message it is about to   *)
(* answer, stays true over every interleaving and crash.                      *)
THEOREM Invariance == Spec => []Inv
<1>1. Init => Inv
  BY InitInv
<1>2. Inv /\ [Next]_vars => Inv'
  BY StepInv, LimitsAssumption
<1>. QED BY <1>1, <1>2, PTL DEF Spec

(* Submissions that come one after the other never fill a conversation past   *)
(* what the page reads (submit's question for MAX_RECORDS_PER_SUBMIT).        *)
THEOREM RoomIsEnough == Spec => []ReadableAlone
<1>1. Inv => ReadableAlone
  BY DEF Inv, AloneInv, ReadableAlone
<1>. QED BY <1>1, Invariance, PTL

(* A message has at most one answer, and a key one message, except where live *)
(* submissions overlap (submit's search for a duplicate).                     *)
THEOREM OneAnswer == Spec => []AnsweredOnce
<1>1. Inv => AnsweredOnce
  <2>. SUFFICES ASSUME Inv PROVE AnsweredOnce
    OBVIOUS
  <2>1. MessagesInv(messages) /\ DOMAIN messages = 1..Len(messages)
    BY DEF Inv, MessagesInv
  <2>. QED BY <2>1 DEF MessagesInv, AnsweredOnce
<1>. QED BY <1>1, Invariance, PTL

=============================================================================
