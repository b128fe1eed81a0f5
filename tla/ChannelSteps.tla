---------------------------- MODULE ChannelSteps ----------------------------
(***************************************************************************)
(* The inductive invariant of the bounded channel, and that every step of  *)
(* a sender and of the receiver keeps it, for any number of senders, any   *)
(* capacity and any number of sends, closes and cancelled sends.           *)
(*                                                                         *)
(* The ring argument is about the window of positions between m_rpos and   *)
(* m_wpos.  m_count bounds it by the capacity, so two positions of it      *)
(* never share a slot; a ready slot and a claimed one belong to a position *)
(* of it.  The wake argument is about the receiver between its             *)
(* registration and its park: a push it cannot see has yet to wake it.     *)
(*                                                                         *)
(* The lemmas on a step that changes a count of senders assume Counting,   *)
(* how sets of senders are counted; ChannelProof proves it.                *)
(***************************************************************************)
EXTENDS Channel, TLAPS

(* The calls of a sender whose push is decided: values up to it were sent. *)
PendingSteps == {"check", "claim", "undo", "slot", "write", "lock", "enqueue", "parked"}
Pending(s) == spc[s] \in PendingSteps
Decided(s) == IF Pending(s) THEN calls[s] - 1 ELSE calls[s]

Live == {s \in Senders : calls[s] # MaxSends + 1}

Types ==
    /\ TypeOK
    /\ claim \in [Senders -> 0..Cap - 1]
    /\ calls \in [Senders -> 0..MaxSends + 1]
    /\ \A s \in Senders : Pending(s) => calls[s] \in 1..MaxSends
    /\ senders = Cardinality(Live)

(* m_count counts the claims on their way, the window and a value that is  *)
(* taken and not yet given back; all but the claims to be undone fit.      *)
Slots == {s \in Senders : spc[s] = "slot"}
Undos == {s \in Senders : spc[s] = "undo"}
Taken == IF rpc = "dec" THEN 1 ELSE 0

Counted ==
    /\ Cardinality(Slots) \in Nat /\ Cardinality(Undos) \in Nat /\ rpos <= wpos
    /\ count = Cardinality(Slots) + Cardinality(Undos) + (wpos - rpos) + Taken
    /\ Cardinality(Slots) + (wpos - rpos) + Taken <= Cap

Window == rpos .. wpos - 1
Slot(p) == p % Cap
At(p) == buf[Slot(p)]

(* A ready slot, and the slot of a producer about to write, is that of a   *)
(* position of the window.                                                 *)
ReadyIn == \A k \in 0..Cap - 1 : buf[k].ready => \E p \in Window : Slot(p) = k
WriteIn == \A s \in Senders : spc[s] = "write" => \E p \in Window : Slot(p) = claim[s]
Windowed == ReadyIn /\ WriteIn /\ NoOverwrite

(* What was received was sent, what is in the ring was sent and comes      *)
(* after what was received, later positions hold later values of a sender, *)
(* and past the slot a producer is about to write there is none of its.    *)
SentDecided == \A v \in sent : v[2] <= Decided(v[1])
RingSent == \A k \in 0..Cap - 1 : buf[k].ready => buf[k].data \in sent
GotFirst ==
    \A i \in 1..Len(got), k \in 0..Cap - 1 :
        buf[k].ready /\ got[i][1] = buf[k].data[1] => got[i][2] < buf[k].data[2]
RingOrder ==
    \A p, q \in Window :
        p < q /\ At(p).ready /\ At(q).ready /\ At(p).data[1] = At(q).data[1]
          => At(p).data[2] < At(q).data[2]
WriterLast ==
    \A s \in Senders, p, q \in Window :
        spc[s] = "write" /\ Slot(p) = claim[s] /\ p < q /\ At(q).ready => At(q).data[1] # s
Ordered == SentDecided /\ Fifo /\ RingSent /\ GotFirst /\ RingOrder /\ WriterLast

RingInv == Counted /\ Windowed /\ Ordered

(* From the registration to the park, a wake reaches the receiver's waker. *)
Armed ==
    /\ rpc = "exchange" => waker
    /\ rpc = "parked" => second
    /\ rpc \in {"load", "closed", "empty", "parked"} /\ second /\ ~rwoken =>
          waker /\ (cell = "waiting" \/ \E s \in Senders : spc[s] = "fire")

WakingSteps == {"slot", "write", "wakeall", "fireall", "wake", "fire"}

(* What the re-check did not see is about to be announced.                 *)
Quiet ==
    /\ rpc \in {"closed", "empty", "parked"} /\ second /\ ~rwoken /\ count # 0 => Waking
    /\ rpc = "parked" /\ ~rwoken /\ closed => Waking

WakeInv == Armed /\ Quiet

IInv == Types /\ RingInv /\ WakeInv

-----------------------------------------------------------------------------
(* The ring: two positions less than a capacity apart have different       *)
(* slots, and every position has one.                                      *)
LEMMA SlotsDiffer ==
    ASSUME NEW p \in Nat, NEW q \in Nat, p < q, q < p + Cap
    PROVE  Slot(p) # Slot(q)
  <1> USE DEF Slot
  <1> USE ChannelAssumption
  <1>1. /\ p = Cap * (p \div Cap) + (p % Cap) /\ q = Cap * (q \div Cap) + (q % Cap)
        /\ p \div Cap \in Nat /\ q \div Cap \in Nat /\ p % Cap \in 0..Cap - 1 /\ q % Cap \in 0..Cap - 1
    OBVIOUS
  <1>2. SUFFICES ASSUME p % Cap = q % Cap PROVE FALSE
    OBVIOUS
  <1> DEFINE a == p \div Cap
             b == q \div Cap
  <1>3. q - p = Cap * (b - a)
    BY <1>1, <1>2
  <1> HIDE DEF a, b
  <1>4. a \in Nat /\ b \in Nat
    BY <1>1 DEF a, b
  <1>5. CASE b <= a
    <2>1. Cap * (b - a) <= 0
      BY <1>4, <1>5
    <2>2. QED
      BY <2>1, <1>3
  <1>6. CASE b >= a + 1
    <2>1. Cap * (b - a) >= Cap
      BY <1>4, <1>6
    <2>2. QED
      BY <2>1, <1>3
  <1>7. QED
    BY <1>4, <1>5, <1>6

LEMMA SlotOf ==
    ASSUME NEW p \in Nat
    PROVE  Slot(p) \in 0..Cap - 1
  BY ChannelAssumption DEF Slot

(* What the inductive invariant says of the types, taken apart.            *)
Core ==
    /\ buf \in [0..Cap - 1 -> [ready : BOOLEAN, data : Values \cup {None}]]
    /\ count \in Nat /\ wpos \in Nat /\ rpos \in Nat /\ senders \in Nat
    /\ spc \in [Senders -> Steps] /\ rpc \in RSteps /\ got \in Seq(Values) /\ sent \subseteq Values

Rest ==
    /\ closed \in BOOLEAN /\ mtx \in Senders \cup {None} /\ writers \in Seq(Senders) /\ waiters \in Int
    /\ cell \in {"waiting", "registering", "waking", "both"} /\ waker \in BOOLEAN
    /\ mode \in [Senders -> {"fast", "locked", "try"}]
    /\ registered \in [Senders -> BOOLEAN] /\ swoken \in [Senders -> BOOLEAN]
    /\ rwoken \in BOOLEAN /\ second \in BOOLEAN

LEMMA TypeFacts == ASSUME IInv PROVE Core /\ Rest
  BY Zenon DEF IInv, Types, TypeOK, Core, Rest

LEMMA SpcType == ASSUME IInv PROVE spc \in [Senders -> Steps]
  BY Zenon, TypeFacts DEF Core

LEMMA CountFacts ==
    ASSUME IInv
    PROVE  /\ count \in Nat /\ wpos \in Nat /\ rpos \in Nat /\ Cap \in Nat /\ Cap > 0
           /\ Cardinality(Slots) \in Nat /\ Cardinality(Undos) \in Nat /\ Taken \in {0, 1}
           /\ rpos <= wpos
           /\ count = Cardinality(Slots) + Cardinality(Undos) + (wpos - rpos) + Taken
           /\ Cardinality(Slots) + (wpos - rpos) + Taken <= Cap
  <1>1. count \in Nat /\ wpos \in Nat /\ rpos \in Nat
    BY Zenon, TypeFacts DEF Core
  <1>2. Counted
    BY Zenon DEF IInv, RingInv
  <1>3. QED
    BY <1>1, <1>2, ChannelAssumption DEF Counted, Taken

LEMMA RingFacts ==
    ASSUME IInv
    PROVE  /\ ReadyIn /\ WriteIn /\ NoOverwrite
           /\ SentDecided /\ Fifo /\ RingSent /\ GotFirst /\ RingOrder /\ WriterLast
  BY Zenon DEF IInv, RingInv, Windowed, Ordered

(* Positions of the window are told apart by their slots.                  *)
LEMMA WindowSlots ==
    ASSUME IInv
    PROVE  /\ \A p \in Window : p \in Nat /\ Slot(p) \in 0..Cap - 1
           /\ \A p, q \in Window : Slot(p) = Slot(q) => p = q
  <1>1. /\ rpos \in Nat /\ wpos \in Nat /\ Cap \in Nat
        /\ Cardinality(Slots) + (wpos - rpos) + Taken <= Cap
    BY CountFacts
  <1>2. wpos - rpos <= Cap
    BY <1>1, CountFacts
  <1>3. ASSUME NEW p \in Window, NEW q \in Window
        PROVE  p \in Nat /\ q \in Nat /\ q < p + Cap
    BY <1>1, <1>2, <1>3 DEF Window
  <1>4. ASSUME NEW p \in Window, NEW q \in Window, Slot(p) = Slot(q)
        PROVE  p = q
    <2>1. p \in Nat /\ q \in Nat /\ q < p + Cap /\ p < q + Cap
      BY <1>3
    <2>2. ~(p < q)
      BY <2>1, <1>4, SlotsDiffer
    <2>3. ~(q < p)
      BY <2>1, <1>4, SlotsDiffer
    <2>4. QED
      BY <2>1, <2>2, <2>3
  <1>5. QED
    BY <1>3, <1>4, SlotOf

-----------------------------------------------------------------------------
(* How sets of senders are counted.                                        *)
Counting ==
    /\ Cardinality({}) = 0
    /\ \A S \in SUBSET Senders : Cardinality(S) \in Nat
    /\ \A S \in SUBSET Senders, s \in Senders :
          /\ s \notin S => Cardinality(S \cup {s}) = Cardinality(S) + 1
          /\ s \in S => Cardinality(S \ {s}) = Cardinality(S) - 1

LEMMA CountingFacts ==
    ASSUME Counting, NEW S, S \subseteq Senders
    PROVE  /\ Cardinality(S) \in Nat
           /\ \A s \in Senders : s \notin S => Cardinality(S \cup {s}) = Cardinality(S) + 1
           /\ \A s \in S : /\ Cardinality(S \ {s}) = Cardinality(S) - 1
                          /\ Cardinality(S \ {s}) \in Nat /\ Cardinality(S) >= 1
  <1>1. S \in SUBSET Senders /\ \A s \in S : s \in Senders /\ S \ {s} \in SUBSET Senders
    OBVIOUS
  <1>2. Cardinality(S) \in Nat /\ \A s \in S : Cardinality(S \ {s}) \in Nat
    BY Zenon, <1>1 DEF Counting
  <1>3. /\ \A s \in Senders : s \notin S => Cardinality(S \cup {s}) = Cardinality(S) + 1
        /\ \A s \in S : Cardinality(S \ {s}) = Cardinality(S) - 1
    BY Zenon, <1>1 DEF Counting
  <1>4. QED
    BY <1>2, <1>3

LEMMA Subsets == Slots \subseteq Senders /\ Undos \subseteq Senders /\ Live \subseteq Senders
  BY DEF Slots, Undos, Live

-----------------------------------------------------------------------------
(* What was sent stays decided.                                            *)
LEMMA DecidedType == ASSUME Types PROVE \A s \in Senders : Decided(s) \in Int /\ calls[s] \in Int
  BY ChannelAssumption DEF Types, Decided

LEMMA SentStays ==
    ASSUME Types, Ordered, Types', \A s \in Senders : Decided(s) <= Decided(s)'
    PROVE  \A v \in sent : v[1] \in Senders /\ v[2] \in Nat /\ v[2] <= Decided(v[1])'
  <1>1. SUFFICES ASSUME NEW v \in sent PROVE v[1] \in Senders /\ v[2] \in Nat /\ v[2] <= Decided(v[1])'
    OBVIOUS
  <1>2. v[1] \in Senders /\ v[2] \in Nat /\ v[2] <= Decided(v[1])
    <2>1. sent \subseteq Values /\ SentDecided
      BY Zenon DEF Ordered, Types, TypeOK
    <2>2. QED
      BY <2>1 DEF SentDecided, Values
  <1>3. Decided(v[1]) \in Int /\ Decided(v[1])' \in Int
    BY <1>2, ChannelAssumption DEF Decided, Types
  <1>4. QED
    BY <1>2, <1>3

(* The ring, the slots on their way and what was received stay: so does    *)
(* what the window says of them.                                           *)
LEMMA WindowSame ==
    ASSUME Types, Windowed, Ordered, Types', UNCHANGED <<buf, wpos, rpos, claim, got, sent>>,
           \A s \in Senders : spc'[s] = "write" <=> spc[s] = "write",
           \A s \in Senders : Decided(s) <= Decided(s)'
    PROVE  Windowed' /\ Ordered'
  <1>1. Window' = Window
    BY DEF Window
  <1>2. ReadyIn' /\ WriteIn'
    BY <1>1 DEF Windowed, ReadyIn, WriteIn
  <1>3. NoOverwrite'
    BY DEF Windowed, NoOverwrite
  <1>4. SentDecided'
    BY SentStays DEF SentDecided
  <1>5. Fifo' /\ RingSent' /\ GotFirst'
    BY DEF Ordered, Fifo, RangeOf, RingSent, GotFirst
  <1>6. \A p : At(p)' = At(p)
    BY DEF At
  <1>7. RingOrder' /\ WriterLast'
    BY <1>1, <1>6 DEF Ordered, RingOrder, WriterLast
  <1>8. QED
    BY <1>2, <1>3, <1>4, <1>5, <1>7 DEF Windowed, Ordered

(* A step that leaves the ring and what is on its way into it alone.       *)
InRing == {"slot", "undo", "write"}

LEMMA RingSame ==
    ASSUME Types, RingInv, Types', UNCHANGED <<buf, count, wpos, rpos, claim, got, sent>>,
           rpc' = "dec" <=> rpc = "dec",
           \A s \in Senders : \/ spc'[s] = spc[s]
                              \/ spc[s] \notin InRing /\ spc'[s] \notin InRing,
           \A s \in Senders : Decided(s) <= Decided(s)'
    PROVE  RingInv'
  <1>1. /\ Slots' = Slots /\ Undos' = Undos /\ Taken' = Taken
        /\ \A s \in Senders : spc'[s] = "write" <=> spc[s] = "write"
    BY DEF Slots, Undos, Taken, InRing
  <1>2. Counted'
    BY <1>1 DEF RingInv, Counted
  <1>3. Windowed' /\ Ordered'
    BY <1>1, WindowSame DEF RingInv
  <1>4. QED
    BY <1>2, <1>3 DEF RingInv

LEMMA TypesSame ==
    ASSUME Types, TypeOK', claim' = claim, calls' = calls, senders' = senders,
           \A s \in Senders : Pending(s)' => Pending(s)
    PROVE  Types' /\ \A s \in Senders : Decided(s) <= Decided(s)'
  <1>1. Live' = Live
    BY DEF Live
  <1>2. Types'
    BY <1>1 DEF Types
  <1>3. ASSUME NEW s \in Senders PROVE Decided(s) <= Decided(s)'
    <2>1. calls[s] \in Int /\ calls'[s] = calls[s] /\ (Pending(s)' => Pending(s))
      BY ChannelAssumption DEF Types
    <2>2. QED
      BY <2>1 DEF Decided
  <1>4. QED
    BY <1>2, <1>3

LEMMA SpcStep ==
    ASSUME IInv, NEW s \in Senders, NEW pc \in Steps, spc' = [spc EXCEPT ![s] = pc]
    PROVE  spc' \in [Senders -> Steps] /\ spc'[s] = pc /\ \A t \in Senders : t # s => spc'[t] = spc[t]
  BY SpcType

(* A sender goes from one step outside the ring to another.                *)
LEMMA SenderStep ==
    ASSUME IInv, NEW s \in Senders, NEW pc \in Steps, spc' = [spc EXCEPT ![s] = pc],
           UNCHANGED <<buf, count, wpos, rpos, senders, claim, calls, sent, got, rpc>>,
           spc[s] \notin InRing, pc \notin InRing, pc \in PendingSteps => spc[s] \in PendingSteps,
           Rest'
    PROVE  Types' /\ RingInv'
  <1>2. spc' \in [Senders -> Steps] /\ spc'[s] = pc /\ \A t \in Senders : t # s => spc'[t] = spc[t]
    BY Zenon, SpcStep
  <1>3. TypeOK'
    BY Zenon, <1>2, TypeFacts DEF TypeOK, Core, Rest
  <1>4. \A t \in Senders : Pending(t)' => Pending(t)
    BY <1>2 DEF Pending
  <1>5. Types' /\ \A t \in Senders : Decided(t) <= Decided(t)'
    BY <1>3, <1>4, TypesSame DEF IInv
  <1>6. \A t \in Senders : \/ spc'[t] = spc[t]
                           \/ spc[t] \notin InRing /\ spc'[t] \notin InRing
    BY <1>2
  <1>7. QED
    BY <1>5, <1>6, RingSame DEF IInv

(* It does so without a word to the receiver, or about to wake it.         *)
LEMMA SenderQuiet ==
    ASSUME IInv, NEW s \in Senders, NEW pc \in Steps, spc' = [spc EXCEPT ![s] = pc],
           UNCHANGED <<rpc, second, rwoken, cell, waker>>, spc[s] # "fire",
           spc[s] \in WakingSteps => pc \in WakingSteps,
           count' = count \/ count' = 0 \/ count # 0 \/ pc \in WakingSteps,
           closed' = closed \/ pc \in WakingSteps
    PROVE  WakeInv'
  <1>1. spc'[s] = pc /\ \A t \in Senders : t # s => spc'[t] = spc[t]
    BY Zenon, SpcStep
  <1>2. Waking => Waking'
    BY <1>1 DEF Waking, WakingSteps
  <1>3. pc \in WakingSteps => Waking'
    BY <1>1 DEF Waking, WakingSteps
  <1>4. Armed'
    <2>1. (\E t \in Senders : spc[t] = "fire") => \E t \in Senders : spc'[t] = "fire"
      BY <1>1
    <2>2. QED
      BY <2>1 DEF IInv, WakeInv, Armed
  <1>5. Quiet'
    BY <1>2, <1>3 DEF IInv, WakeInv, Quiet
  <1>6. QED
    BY <1>4, <1>5 DEF WakeInv

-----------------------------------------------------------------------------
(* A receiver that is not between its registration and its park.           *)
LEMMA NotArmed ==
    ASSUME rpc' \notin {"exchange", "parked"},
           rpc' \notin {"load", "closed", "empty"} \/ ~second' \/ rwoken'
    PROVE  WakeInv'
  BY DEF WakeInv, Armed, Quiet

(* try_pop takes the value of the first position of the window.            *)
LEMMA PopTakeKeeps == ASSUME IInv, PopTake PROVE IInv'
  <1> USE DEF others, fifo
  <1> DEFINE k0 == Slot(rpos)
             d == buf[k0].data
  <1>0. /\ rpc = "spin" /\ buf[k0].ready /\ got' = Append(got, d)
        /\ buf' = [buf EXCEPT ![k0] = [ready |-> FALSE, data |-> None]]
        /\ rpos' = rpos + 1 /\ rpc' = "dec"
        /\ UNCHANGED <<count, wpos, closed, senders, mtx, writers, waiters, cell, waker,
                       spc, mode, claim, calls, registered, swoken, second, rwoken, sent>>
    BY DEF PopTake, RStep, Slot
  <1>1. rpos \in Nat /\ wpos \in Nat /\ k0 \in 0..Cap - 1
    BY SlotOf, CountFacts
  <1>2. At(rpos) = buf[k0] /\ At(rpos).data = d
    BY DEF At
  <1>3. d \in sent /\ d \in Values
    BY <1>0, <1>1, RingFacts, TypeFacts DEF RingSent, Core
  <1> HIDE DEF d
  <1>4. rpos < wpos
    <2>1. PICK p \in Window : Slot(p) = k0
      BY <1>0, <1>1, RingFacts DEF ReadyIn
    <2>2. QED
      BY <1>1, <2>1 DEF Window
  <1>5. rpos \in Window /\ Window' = Window \ {rpos}
    BY <1>0, <1>1, <1>4 DEF Window
  <1>6. \A p \in Window : Slot(p) \in 0..Cap - 1 /\ (Slot(p) = k0 => p = rpos)
    BY <1>5, WindowSlots
  <1> HIDE DEF k0
  <1>7. /\ buf' \in [0..Cap - 1 -> [ready : BOOLEAN, data : Values \cup {None}]]
        /\ ~buf'[k0].ready /\ \A k \in 0..Cap - 1 : k # k0 => buf'[k] = buf[k]
    <2>1. buf \in [0..Cap - 1 -> [ready : BOOLEAN, data : Values \cup {None}]]
      BY Zenon, TypeFacts DEF Core
    <2>2. QED
      BY <1>0, <1>1, <2>1
  <1>8. /\ got' \in Seq(Values) /\ Len(got) \in Nat /\ Len(got') = Len(got) + 1
        /\ got'[Len(got) + 1] = d /\ \A i \in 1..Len(got) : got'[i] = got[i]
    <2>1. got \in Seq(Values)
      BY Zenon, TypeFacts DEF Core
    <2>2. QED
      BY <1>0, <1>3, <2>1
  <1>9. Types' /\ \A t \in Senders : Decided(t) <= Decided(t)'
    <2>1. rpos' \in Nat /\ rpc' \in RSteps
      BY <1>0, <1>1 DEF RSteps
    <2>2. TypeOK'
      BY Zenon, <1>0, <1>7, <1>8, <2>1, TypeFacts DEF TypeOK, Core, Rest
    <2>3. QED
      BY <1>0, <2>2, TypesSame DEF IInv, Pending
  <1>10. Counted'
    <2>1. Slots' = Slots /\ Undos' = Undos /\ Taken = 0 /\ Taken' = 1
      BY <1>0 DEF Slots, Undos, Taken
    <2>2. rpos' = rpos + 1 /\ wpos' = wpos /\ count' = count
      BY <1>0
    <2>3. QED
      BY <1>4, <2>1, <2>2, CountFacts DEF Counted
  <1>11. \A p \in Window' : p \in Window /\ rpos < p /\ At(p)' = At(p)
    <2>1. SUFFICES ASSUME NEW p \in Window' PROVE p \in Window /\ rpos < p /\ At(p)' = At(p)
      OBVIOUS
    <2>2. p \in Window /\ p # rpos
      BY <1>5
    <2>3. rpos < p
      BY <1>1, <2>2 DEF Window
    <2>4. QED
      BY <1>6, <1>7, <2>2, <2>3 DEF At
  <1>12. \A k \in 0..Cap - 1 : buf'[k].ready => k # k0 /\ buf'[k] = buf[k]
    BY <1>7
  <1>13. \A t \in Senders : spc[t] = "write" => claim[t] # k0
    BY <1>0, RingFacts DEF NoOverwrite
  <1>14. Windowed'
    <2>1. ReadyIn'
      <3>1. SUFFICES ASSUME NEW k \in 0..Cap - 1, buf'[k].ready PROVE \E p \in Window' : Slot(p) = k
        BY DEF ReadyIn
      <3>2. PICK p \in Window : Slot(p) = k
        BY <1>12, <3>1, RingFacts DEF ReadyIn
      <3>3. QED
        BY <1>5, <1>12, <3>1, <3>2 DEF k0
    <2>2. WriteIn'
      <3>1. SUFFICES ASSUME NEW t \in Senders, spc[t] = "write" PROVE \E p \in Window' : Slot(p) = claim[t]
        BY Zenon, <1>0 DEF WriteIn
      <3>2. PICK p \in Window : Slot(p) = claim[t]
        BY <3>1, RingFacts DEF WriteIn
      <3>3. QED
        BY <1>5, <1>13, <3>1, <3>2 DEF k0
    <2>3. NoOverwrite'
      <3>1. \A t \in Senders : claim[t] \in 0..Cap - 1
        BY DEF IInv, Types
      <3>2. QED
        BY ZenonT(20), <1>0, <1>12, <3>1, RingFacts DEF NoOverwrite
    <2>4. QED
      BY <2>1, <2>2, <2>3 DEF Windowed
  <1>15. Ordered'
    <2>1. SentDecided'
      BY <1>0, <1>9, SentStays DEF IInv, RingInv, SentDecided
    <2>2. Fifo'
      <3>1. ASSUME NEW i \in 1..Len(got') PROVE got'[i] \in sent'
        <4>1. i = Len(got) + 1 \/ i \in 1..Len(got)
          BY <1>8
        <4>2. i \in 1..Len(got) => got[i] \in sent
          BY RingFacts DEF Fifo, RangeOf
        <4>3. QED
          BY <1>0, <1>3, <1>8, <4>1, <4>2
      <3>2. ASSUME NEW i \in 1..Len(got'), NEW j \in 1..Len(got'), i < j, got'[i][1] = got'[j][1]
            PROVE  got'[i][2] < got'[j][2]
        <4>1. i \in 1..Len(got) /\ got'[i] = got[i]
          BY <1>8, <3>2
        <4>2. CASE j \in 1..Len(got)
          BY <1>8, <3>2, <4>1, <4>2, RingFacts DEF Fifo
        <4>3. CASE j = Len(got) + 1
          <5>1. got'[j] = buf[k0].data
            BY <1>8, <4>3 DEF d
          <5>2. QED
            BY Zenon, <1>0, <1>1, <3>2, <4>1, <5>1, RingFacts DEF GotFirst
        <4>4. QED
          BY <1>8, <4>2, <4>3
      <3>3. QED
        BY <3>1, <3>2 DEF Fifo, RangeOf
    <2>3. RingSent'
      BY <1>0, <1>12, RingFacts DEF RingSent
    <2>4. ASSUME NEW i \in 1..Len(got'), NEW k \in 0..Cap - 1, buf'[k].ready, got'[i][1] = buf'[k].data[1]
          PROVE  got'[i][2] < buf'[k].data[2]
      <3>1. buf'[k] = buf[k] /\ buf[k].ready
        BY <1>12, <2>4
      <3>2. CASE i \in 1..Len(got)
        <4>1. got'[i] = got[i]
          BY <1>8, <3>2
        <4>2. QED
          BY <2>4, <3>1, <3>2, <4>1, RingFacts DEF GotFirst
      <3>3. CASE i = Len(got) + 1
        <4>1. PICK q \in Window' : Slot(q) = k
          BY <1>14, <2>4 DEF Windowed, ReadyIn
        <4>2. q \in Window /\ rpos < q /\ At(q) = buf[k]
          BY <1>11, <4>1 DEF At
        <4>3. got'[i] = At(rpos).data /\ At(rpos).ready
          BY <1>0, <1>2, <1>8, <3>3
        <4>4. At(rpos).data[1] = At(q).data[1] /\ At(q).ready
          BY <2>4, <3>1, <4>2, <4>3
        <4>5. At(rpos).data[2] < At(q).data[2]
          BY <1>5, <4>2, <4>3, <4>4, RingFacts DEF RingOrder
        <4>6. QED
          BY <3>1, <4>2, <4>3, <4>5
      <3>4. QED
        BY <1>8, <3>2, <3>3
    <2>5. GotFirst'
      BY <2>4 DEF GotFirst
    <2>6. RingOrder'
      BY <1>11, RingFacts DEF RingOrder
    <2>7. WriterLast'
      BY ZenonT(20), <1>0, <1>11, RingFacts DEF WriterLast
    <2>8. QED
      BY <2>1, <2>2, <2>3, <2>5, <2>6, <2>7 DEF Ordered
  <1>16. QED
    BY <1>0, <1>9, <1>10, <1>14, <1>15, NotArmed DEF IInv, RingInv

LEMMA PopDecKeeps == ASSUME IInv, PopDec PROVE IInv'
  <1> USE DEF others, fifo
  <1>0. /\ rpc = "dec" /\ rpc' = "untake" /\ count' = count - 1
        /\ UNCHANGED <<buf, wpos, rpos, closed, senders, mtx, writers, waiters, cell, waker,
                       spc, mode, claim, calls, registered, swoken, second, rwoken, got, sent>>
    BY DEF PopDec, RStep
  <1>1. count' \in Nat /\ rpc' \in RSteps
    <2>1. Taken = 1 /\ rpc' \in RSteps
      BY <1>0 DEF Taken, RSteps
    <2>2. QED
      BY <1>0, <2>1, CountFacts
  <1>2. TypeOK'
    BY Zenon, <1>0, <1>1, TypeFacts DEF TypeOK, Core, Rest
  <1>3. Types' /\ \A t \in Senders : Decided(t) <= Decided(t)'
    BY <1>0, <1>2, TypesSame DEF IInv, Pending
  <1>4. Counted'
    <2>1. Slots' = Slots /\ Undos' = Undos /\ Taken = 1 /\ Taken' = 0
      BY <1>0 DEF Slots, Undos, Taken
    <2>2. QED
      BY <1>0, <2>1, CountFacts DEF Counted
  <1>5. Windowed' /\ Ordered'
    BY <1>0, <1>3, WindowSame DEF IInv, RingInv
  <1>6. QED
    BY <1>0, <1>3, <1>4, <1>5, NotArmed DEF IInv, RingInv

-----------------------------------------------------------------------------
(* try_push: the ring.                                                     *)

(* What a step of a sender inside the ring does not change.                *)
LEMMA PushTypes ==
    ASSUME IInv, NEW s \in Senders, NEW pc \in Steps, spc' = [spc EXCEPT ![s] = pc],
           spc[s] \in PendingSteps, Core', Rest', claim' \in [Senders -> 0..Cap - 1],
           UNCHANGED <<senders, calls>>
    PROVE  /\ Types'
           /\ \A t \in Senders : Decided(t) <= Decided(t)'
           /\ Decided(s) = calls[s] - 1 /\ calls[s] \in 1..MaxSends
           /\ pc \notin PendingSteps => Decided(s)' = calls[s]
  <1>2. spc' \in [Senders -> Steps] /\ spc'[s] = pc /\ \A t \in Senders : t # s => spc'[t] = spc[t]
    BY Zenon, SpcStep
  <1>3. TypeOK'
    BY Zenon DEF TypeOK, Core, Rest
  <1>4. Live' = Live
    BY DEF Live
  <1>5. \A t \in Senders : Pending(t)' => calls'[t] \in 1..MaxSends
    BY <1>2 DEF IInv, Types, Pending
  <1>6. Types'
    BY <1>3, <1>4, <1>5 DEF IInv, Types
  <1>7. calls[s] \in 1..MaxSends
    BY DEF IInv, Types, Pending
  <1>8. ASSUME NEW t \in Senders PROVE Decided(t) <= Decided(t)'
    <2>1. calls[t] \in Int /\ (Pending(t)' => Pending(t))
      BY <1>2, DecidedType DEF IInv, Pending
    <2>2. QED
      BY <2>1 DEF Decided
  <1>9. QED
    BY <1>2, <1>6, <1>7, <1>8 DEF Decided, Pending

LEMMA ClaimKeeps == ASSUME Counting, IInv, NEW s \in Senders, Claim(s) PROVE IInv'
  <1> USE DEF fifo, rcv
  <1>0. /\ spc[s] = "claim" /\ count' = count + 1
        /\ UNCHANGED <<buf, wpos, rpos, closed, senders, mtx, writers, waiters, cell, waker,
                       mode, claim, calls, registered, swoken, rpc, second, rwoken, got, sent>>
    BY DEF Claim
  <1>1. PICK pc \in {"undo", "slot"} : spc' = [spc EXCEPT ![s] = pc] /\ (pc = "slot" <=> count < Cap)
    <2>0. spc' = [spc EXCEPT ![s] = IF count >= Cap THEN "undo" ELSE "slot"]
      BY DEF Claim, Step
    <2>1. CASE count >= Cap
      <3>1. spc' = [spc EXCEPT ![s] = "undo"]
        BY Zenon, <2>0, <2>1
      <3>2. ~(count < Cap)
        BY <2>1, CountFacts
      <3>3. QED
        BY Zenon, <3>1, <3>2
    <2>2. CASE count < Cap
      <3>1. ~(count >= Cap)
        BY <2>2, CountFacts
      <3>2. spc' = [spc EXCEPT ![s] = "slot"]
        BY Zenon, <2>0, <3>1
      <3>3. QED
        BY Zenon, <2>2, <3>2
    <2>3. QED
      BY <2>1, <2>2, CountFacts
  <1>2. pc \in Steps /\ pc \in PendingSteps /\ spc[s] \in PendingSteps
    BY <1>0, <1>1 DEF Steps, PendingSteps
  <1>3. spc' \in [Senders -> Steps] /\ spc'[s] = pc /\ \A t \in Senders : t # s => spc'[t] = spc[t]
    BY Zenon, <1>1, <1>2, SpcStep
  <1>4. Types' /\ \A t \in Senders : Decided(t) <= Decided(t)'
    <2>1. count' \in Nat
      BY <1>0, CountFacts
    <2>2. Core' /\ Rest'
      BY Zenon, <1>0, <1>3, <2>1, TypeFacts DEF Core, Rest
    <2>3. claim' \in [Senders -> 0..Cap - 1]
      BY <1>0 DEF IInv, Types
    <2>4. QED
      BY Zenon, <1>0, <1>1, <1>2, <2>2, <2>3, PushTypes
  <1>5. Counted'
    <2>1. CASE pc = "undo"
      <3>1. s \notin Undos /\ Undos' = Undos \cup {s} /\ Slots' = Slots
        BY <1>0, <1>3, <2>1 DEF Undos, Slots
      <3>2. Cardinality(Undos') = Cardinality(Undos) + 1
        BY <3>1, Subsets, CountingFacts
      <3>3. QED
        BY <1>0, <3>1, <3>2, CountFacts DEF Counted, Taken
    <2>2. CASE pc = "slot"
      <3>1. s \notin Slots /\ Slots' = Slots \cup {s} /\ Undos' = Undos
        BY <1>0, <1>3, <2>2 DEF Undos, Slots
      <3>2. Cardinality(Slots') = Cardinality(Slots) + 1
        BY <3>1, Subsets, CountingFacts
      <3>3. QED
        BY <1>0, <1>1, <2>2, <3>1, <3>2, CountFacts DEF Counted, Taken
    <2>3. QED
      BY <1>1, <2>1, <2>2
  <1>6. \A t \in Senders : spc'[t] = "write" <=> spc[t] = "write"
    <2>1. spc[s] # "write" /\ pc # "write"
      BY ZenonT(20), <1>0, <1>1
    <2>2. QED
      BY Zenon, <1>3, <2>1
  <1>7. Windowed' /\ Ordered'
    BY Zenon, <1>0, <1>4, <1>6, WindowSame DEF IInv, RingInv
  <1>8. WakeInv'
    <2>1. spc[s] # "fire" /\ spc[s] \notin WakingSteps
      BY <1>0 DEF WakingSteps
    <2>2. count # 0 \/ pc \in WakingSteps
      BY <1>1, CountFacts DEF WakingSteps
    <2>3. QED
      BY Zenon, <1>0, <1>1, <1>2, <2>1, <2>2, SenderQuiet
  <1>9. QED
    BY <1>4, <1>5, <1>7, <1>8 DEF IInv, RingInv

LEMMA UndoKeeps == ASSUME Counting, IInv, NEW s \in Senders, Undo(s) PROVE IInv'
  <1> USE DEF fifo, rcv
  <1>0. /\ spc[s] = "undo" /\ count' = count - 1
        /\ UNCHANGED <<buf, wpos, rpos, closed, senders, mtx, writers, waiters, cell, waker,
                       mode, claim, calls, registered, swoken, rpc, second, rwoken, got, sent>>
    BY DEF Undo
  <1>1. \E pc \in {"lock", "enqueue", "idle"} : spc' = [spc EXCEPT ![s] = pc]
    <2>1. mode[s] \in {"fast", "locked", "try"}
      BY TypeFacts DEF Rest
    <2>2. QED
      BY Zenon, <2>1 DEF Undo, Step
  <1>2. PICK pc \in {"lock", "enqueue", "idle"} : spc' = [spc EXCEPT ![s] = pc]
    BY Zenon, <1>1
  <1>3. pc \in Steps /\ spc[s] \in PendingSteps
    BY <1>0, <1>2 DEF Steps, PendingSteps
  <1>4. spc' \in [Senders -> Steps] /\ spc'[s] = pc /\ \A t \in Senders : t # s => spc'[t] = spc[t]
    BY Zenon, <1>2, <1>3, SpcStep
  <1>5. count' \in Nat /\ count # 0
    <2>1. s \in Undos
      BY <1>0 DEF Undos
    <2>2. Cardinality(Undos) >= 1
      BY Zenon, <2>1, Subsets, CountingFacts
    <2>3. QED
      BY <1>0, <2>2, CountFacts
  <1>6. Types' /\ \A t \in Senders : Decided(t) <= Decided(t)'
    <2>1. Core' /\ Rest'
      BY Zenon, <1>0, <1>4, <1>5, TypeFacts DEF Core, Rest
    <2>2. claim' \in [Senders -> 0..Cap - 1]
      BY <1>0 DEF IInv, Types
    <2>3. QED
      BY Zenon, <1>0, <1>2, <1>3, <2>1, <2>2, PushTypes
  <1>7. Counted'
    <2>1. s \in Undos /\ Undos' = Undos \ {s} /\ Slots' = Slots
      BY <1>0, <1>2, <1>4 DEF Undos, Slots
    <2>2. Cardinality(Undos') = Cardinality(Undos) - 1 /\ Cardinality(Undos') \in Nat
      BY <2>1, Subsets, CountingFacts
    <2>3. QED
      BY <1>0, <2>1, <2>2, CountFacts DEF Counted, Taken
  <1>8. \A t \in Senders : spc'[t] = "write" <=> spc[t] = "write"
    BY SMTT(20), <1>0, <1>2, <1>4
  <1>9. Windowed' /\ Ordered'
    BY <1>0, <1>6, <1>8, WindowSame DEF IInv, RingInv
  <1>10. WakeInv'
    <2>1. spc[s] # "fire" /\ spc[s] \notin WakingSteps
      BY <1>0 DEF WakingSteps
    <2>2. QED
      BY Zenon, <1>0, <1>2, <1>3, <1>5, <2>1, SenderQuiet
  <1>11. QED
    BY <1>6, <1>7, <1>9, <1>10 DEF IInv, RingInv

(* The slot a producer claims is the next position's, which no position of *)
(* the window shares: it is empty, and no other producer's.                *)
LEMMA ClaimSlotKeeps == ASSUME Counting, IInv, NEW s \in Senders, ClaimSlot(s) PROVE IInv'
  <1> USE DEF fifo, rcv
  <1>0. /\ spc[s] = "slot" /\ claim' = [claim EXCEPT ![s] = Slot(wpos)] /\ wpos' = wpos + 1
        /\ spc' = [spc EXCEPT ![s] = "write"]
        /\ UNCHANGED <<buf, count, rpos, closed, senders, mtx, writers, waiters, cell, waker,
                       mode, calls, registered, swoken, rpc, second, rwoken, got, sent>>
    BY DEF ClaimSlot, Step, Slot
  <1>1. wpos' \in Nat /\ Slot(wpos) \in 0..Cap - 1
    BY <1>0, SlotOf, CountFacts
  <1>2. /\ claim' \in [Senders -> 0..Cap - 1] /\ claim'[s] = Slot(wpos)
        /\ \A t \in Senders : t # s => claim'[t] = claim[t]
    BY <1>0, <1>1 DEF IInv, Types
  <1>3. "write" \in Steps /\ spc[s] \in PendingSteps
    BY <1>0 DEF Steps, PendingSteps
  <1>4. spc' \in [Senders -> Steps] /\ spc'[s] = "write" /\ \A t \in Senders : t # s => spc'[t] = spc[t]
    BY Zenon, <1>0, <1>3, SpcStep
  <1>5. Types' /\ \A t \in Senders : Decided(t) <= Decided(t)'
    <2>1. Core' /\ Rest'
      BY Zenon, <1>0, <1>1, <1>4, TypeFacts DEF Core, Rest
    <2>2. QED
      BY Zenon, <1>0, <1>2, <1>3, <2>1, PushTypes
  <1>6. s \in Slots /\ Slots' = Slots \ {s} /\ Undos' = Undos
    BY <1>0, <1>4 DEF Undos, Slots
  <1>7. Cardinality(Slots') = Cardinality(Slots) - 1 /\ Cardinality(Slots') \in Nat
    BY <1>6, Subsets, CountingFacts
  <1>8. Counted'
    BY <1>0, <1>6, <1>7, CountFacts DEF Counted, Taken
  <1>9. \A p \in Window : p \in Nat /\ p < wpos /\ Slot(p) # Slot(wpos)
    <2>1. wpos < rpos + Cap
      BY <1>7, CountFacts
    <2>2. SUFFICES ASSUME NEW p \in Window PROVE p \in Nat /\ p < wpos /\ Slot(p) # Slot(wpos)
      OBVIOUS
    <2>3. p \in Nat /\ p < wpos /\ wpos < p + Cap
      BY <2>1, CountFacts DEF Window
    <2>4. QED
      BY <2>3, CountFacts, SlotsDiffer
  <1>10. Window' = Window \cup {wpos}
    BY <1>0, CountFacts DEF Window
  <1>11. ~buf[Slot(wpos)].ready
    BY <1>1, <1>9, RingFacts DEF ReadyIn
  <1>12. \A t \in Senders : spc[t] = "write" => claim[t] # Slot(wpos)
    BY <1>9, RingFacts DEF WriteIn
  <1>13. Windowed'
    <2>1. ReadyIn'
      BY <1>0, <1>10, RingFacts DEF ReadyIn
    <2>2. WriteIn'
      BY <1>2, <1>4, <1>10, RingFacts DEF WriteIn
    <2>3. NoOverwrite'
      BY <1>0, <1>2, <1>4, <1>11, <1>12, RingFacts DEF NoOverwrite
    <2>4. QED
      BY <2>1, <2>2, <2>3 DEF Windowed
  <1>14. \A p, q \in Window' : p < q /\ At(q)'.ready => p \in Window /\ q \in Window
    <2>1. SUFFICES ASSUME NEW p \in Window', NEW q \in Window', p < q, At(q)'.ready
                   PROVE  p \in Window /\ q \in Window
      OBVIOUS
    <2>2. q # wpos
      BY <1>0, <1>11, <2>1 DEF At
    <2>3. q \in Window
      BY <1>10, <2>2
    <2>4. p # wpos
      BY <1>9, <2>1, <2>3, CountFacts
    <2>5. QED
      BY <1>10, <2>3, <2>4
  <1>15. \A p : At(p)' = At(p)
    BY <1>0 DEF At
  <1>16. Ordered'
    <2>1. SentDecided'
      BY SMTT(20), <1>0, <1>5, SentStays DEF IInv, RingInv, SentDecided
    <2>2. Fifo' /\ RingSent' /\ GotFirst'
      BY <1>0, RingFacts DEF Fifo, RangeOf, RingSent, GotFirst
    <2>3. RingOrder'
      BY <1>14, <1>15, RingFacts DEF RingOrder
    <2>4. ASSUME NEW t \in Senders, NEW p \in Window', NEW q \in Window', spc'[t] = "write",
                 Slot(p) = claim'[t], p < q, At(q)'.ready
          PROVE  At(q)'.data[1] # t
      <3>1. p \in Window /\ q \in Window /\ At(q).ready
        BY <1>14, <1>15, <2>4
      <3>2. t # s
        BY <1>2, <1>9, <2>4, <3>1
      <3>3. spc[t] = "write" /\ Slot(p) = claim[t]
        BY <1>2, <1>4, <2>4, <3>2
      <3>4. At(q).data[1] # t
        BY <2>4, <3>1, <3>3, RingFacts DEF WriterLast
      <3>5. QED
        BY <1>15, <3>4
    <2>5. WriterLast'
      BY <2>4 DEF WriterLast
    <2>6. QED
      BY <2>1, <2>2, <2>3, <2>5 DEF Ordered
  <1>17. WakeInv'
    BY Zenon, <1>0, SenderQuiet DEF Steps, WakingSteps
  <1>18. QED
    BY <1>5, <1>8, <1>13, <1>16, <1>17 DEF IInv, RingInv

(* The value a producer writes is later than every value of its that was   *)
(* sent, and goes to a position of the window no other producer has.       *)
LEMMA WriteKeeps == ASSUME IInv, NEW s \in Senders, Write(s) PROVE IInv'
  <1> USE DEF rcv
  <1> DEFINE c == claim[s]
             new == <<s, calls[s]>>
  <1>0. /\ spc[s] = "write" /\ buf' = [buf EXCEPT ![c] = [ready |-> TRUE, data |-> new]]
        /\ sent' = sent \cup {new} /\ mtx' \in {mtx, None}
        /\ spc' = [spc EXCEPT ![s] = "wake"]
        /\ UNCHANGED <<count, wpos, rpos, closed, senders, writers, waiters, cell, waker,
                       mode, claim, calls, registered, swoken, rpc, second, rwoken, got>>
    BY DEF Write, Step, Value
  <1>1. c \in 0..Cap - 1 /\ calls[s] \in 1..MaxSends /\ new \in Values
    BY <1>0 DEF IInv, Types, Pending, PendingSteps, Values
  <1>2. new[1] = s /\ new[2] = calls[s]
    OBVIOUS
  <1> HIDE DEF c, new
  <1>3. /\ buf' \in [0..Cap - 1 -> [ready : BOOLEAN, data : Values \cup {None}]]
        /\ buf'[c].ready /\ buf'[c].data = new
        /\ \A k \in 0..Cap - 1 : k # c => buf'[k] = buf[k]
    <2>1. buf \in [0..Cap - 1 -> [ready : BOOLEAN, data : Values \cup {None}]]
      BY Zenon, TypeFacts DEF Core
    <2>2. QED
      BY <1>0, <1>1, <2>1
  <1>4. "wake" \in Steps /\ spc[s] \in PendingSteps /\ "wake" \notin PendingSteps
    BY <1>0 DEF Steps, PendingSteps
  <1>5. spc' \in [Senders -> Steps] /\ spc'[s] = "wake" /\ \A t \in Senders : t # s => spc'[t] = spc[t]
    BY Zenon, <1>0, <1>4, SpcStep
  <1>6. /\ Types' /\ \A t \in Senders : Decided(t) <= Decided(t)'
        /\ Decided(s) = calls[s] - 1 /\ Decided(s)' = calls[s]
    <2>1. sent' \subseteq Values /\ mtx' \in Senders \cup {None}
      BY <1>0, <1>1, TypeFacts DEF Core, Rest
    <2>2. Core' /\ Rest'
      BY Zenon, <1>0, <1>3, <1>5, <2>1, TypeFacts DEF Core, Rest
    <2>3. claim' \in [Senders -> 0..Cap - 1]
      BY <1>0 DEF IInv, Types
    <2>4. QED
      BY ZenonT(20), <1>0, <1>4, <2>2, <2>3, PushTypes
  <1>7. \A v \in sent : v[1] = s => v[2] < calls[s]
    <2>1. SUFFICES ASSUME NEW v \in sent, v[1] = s PROVE v[2] < calls[s]
      OBVIOUS
    <2>2. v[2] \in Nat
      BY TypeFacts DEF Core, Values
    <2>3. v[2] <= Decided(s)
      BY <2>1, RingFacts DEF SentDecided
    <2>4. QED
      BY <1>1, <1>6, <2>2, <2>3
  <1>8. PICK P \in Window : Slot(P) = c
    BY <1>0, RingFacts DEF WriteIn, c
  <1>9. /\ Window' = Window
        /\ \A p \in Window : p \in Nat /\ Slot(p) \in 0..Cap - 1 /\ (Slot(p) = c => p = P)
    BY <1>0, <1>8, WindowSlots DEF Window
  <1>10. Counted'
    <2>1. Slots' = Slots /\ Undos' = Undos
      BY <1>0, <1>5 DEF Slots, Undos
    <2>2. QED
      BY <1>0, <2>1 DEF IInv, RingInv, Counted, Taken
  <1>11. \A t \in Senders : t # s /\ spc[t] = "write" => claim[t] # c
    BY <1>0, RingFacts DEF NoOverwrite, c
  <1>12. Windowed'
    <2>1. ReadyIn'
      BY <1>3, <1>8, <1>9, RingFacts DEF ReadyIn
    <2>2. WriteIn'
      BY Zenon, <1>0, <1>5, <1>9, RingFacts DEF WriteIn
    <2>3. ASSUME NEW t \in Senders, spc'[t] = "write"
          PROVE  /\ ~buf'[claim'[t]].ready
                 /\ \A u \in Senders : spc'[u] = "write" /\ claim'[u] = claim'[t] => u = t
      <3>1. t # s /\ spc[t] = "write" /\ claim' = claim
        BY <1>0, <1>5, <2>3
      <3>2. claim[t] # c /\ claim[t] \in 0..Cap - 1
        BY <1>11, <3>1 DEF IInv, Types
      <3>3. ~buf[claim[t]].ready /\ \A u \in Senders : spc[u] = "write" /\ claim[u] = claim[t] => u = t
        BY <3>1, RingFacts DEF NoOverwrite
      <3>4. ~buf'[claim'[t]].ready
        BY <1>3, <3>1, <3>2, <3>3
      <3>5. QED
        BY <1>5, <3>1, <3>3, <3>4
    <2>4. NoOverwrite'
      BY <2>3 DEF NoOverwrite
    <2>5. QED
      BY <2>1, <2>2, <2>4 DEF Windowed
  <1>13. /\ At(P)'.ready /\ At(P)'.data = new
         /\ \A p \in Window : p # P => At(p)' = At(p)
    BY Zenon, <1>3, <1>8, <1>9 DEF At
  <1>14. Ordered'
    <2>1. SentDecided'
      <3>1. \A v \in sent : v[2] <= Decided(v[1])'
        BY <1>6, SentStays DEF IInv, RingInv
      <3>2. \A v : v = new => v[2] <= Decided(v[1])'
        BY SMTT(20), <1>1, <1>2, <1>6
      <3>3. QED
        BY <1>0, <3>1, <3>2 DEF SentDecided
    <2>2. Fifo'
      BY Zenon, <1>0, RingFacts DEF Fifo, RangeOf
    <2>3. RingSent'
      BY <1>0, <1>3, RingFacts DEF RingSent
    <2>4. ASSUME NEW i \in 1..Len(got), NEW k \in 0..Cap - 1, buf'[k].ready, got[i][1] = buf'[k].data[1]
          PROVE  got[i][2] < buf'[k].data[2]
      <3>1. CASE k = c
        <4>1. got[i] \in sent
          BY RingFacts DEF Fifo, RangeOf
        <4>2. QED
          BY <1>2, <1>3, <1>7, <2>4, <3>1, <4>1
      <3>2. CASE k # c
        <4>1. buf'[k] = buf[k]
          BY SMTT(20), <1>3, <3>2
        <4>2. QED
          BY <2>4, <4>1, RingFacts DEF GotFirst
      <3>3. QED
        BY <3>1, <3>2
    <2>5. GotFirst'
      BY Zenon, <1>0, <2>4 DEF GotFirst
    <2>6. ASSUME NEW p \in Window, NEW q \in Window, p < q, At(p)'.ready, At(q)'.ready,
                 At(p)'.data[1] = At(q)'.data[1]
          PROVE  At(p)'.data[2] < At(q)'.data[2]
      <3>1. p # q
        BY <1>9, <2>6
      <3>2. CASE q = P
        <4>1. At(p)' = At(p)
          BY <1>13, <3>1, <3>2
        <4>2. At(p).data \in sent
          BY <1>9, <2>6, <4>1, RingFacts DEF RingSent, At
        <4>3. QED
          BY <1>2, <1>7, <1>13, <2>6, <3>2, <4>1, <4>2
      <3>3. CASE p = P
        <4>1. At(q)' = At(q)
          BY <1>13, <3>1, <3>3
        <4>2. At(q).data[1] # s
          BY Zenon, <1>0, <1>8, <2>6, <3>3, <4>1, RingFacts DEF WriterLast, c
        <4>3. At(p)'.data[1] = s
          BY <1>2, <1>13, <3>3
        <4>4. QED
          BY <2>6, <4>1, <4>2, <4>3
      <3>4. CASE p # P /\ q # P
        <4>1. At(p)' = At(p) /\ At(q)' = At(q)
          BY <1>13, <3>4
        <4>2. QED
          BY <2>6, <4>1, RingFacts DEF RingOrder
      <3>5. QED
        BY <3>2, <3>3, <3>4
    <2>7. RingOrder'
      BY <1>9, <2>6 DEF RingOrder
    <2>8. ASSUME NEW t \in Senders, NEW p \in Window, NEW q \in Window, spc'[t] = "write",
                 Slot(p) = claim'[t], p < q, At(q)'.ready
          PROVE  At(q)'.data[1] # t
      <3>1. t # s /\ spc[t] = "write" /\ Slot(p) = claim[t]
        BY SMTT(20), <1>0, <1>5, <2>8
      <3>2. CASE q = P
        BY <1>2, <1>13, <3>1, <3>2
      <3>3. CASE q # P
        <4>1. At(q)' = At(q)
          BY SMTT(20), <1>13, <3>3
        <4>2. QED
          BY Zenon, <2>8, <3>1, <4>1, RingFacts DEF WriterLast
      <3>4. QED
        BY SMTT(20), <3>2, <3>3
    <2>9. WriterLast'
      BY <1>9, <2>8 DEF WriterLast
    <2>10. QED
      BY SMTT(20), <2>1, <2>2, <2>3, <2>5, <2>7, <2>9 DEF Ordered
  <1>15. WakeInv'
    BY Zenon, <1>0, SenderQuiet DEF Steps, WakingSteps
  <1>16. QED
    BY SMTT(20), <1>6, <1>10, <1>12, <1>14, <1>15 DEF IInv, RingInv

-----------------------------------------------------------------------------
(* The steps of a sender.                                                  *)
LEMMA SendKeeps == ASSUME IInv, NEW s \in Senders, Send(s) PROVE IInv'
  <1> USE DEF ring, fifo, rcv
  <1>0. /\ spc[s] = "idle" /\ calls[s] < MaxSends /\ calls' = [calls EXCEPT ![s] = @ + 1]
        /\ \E m \in {"fast", "try"} : mode' = [mode EXCEPT ![s] = m]
        /\ spc' = [spc EXCEPT ![s] = "check"]
        /\ UNCHANGED <<buf, count, wpos, rpos, closed, senders, mtx, writers, waiters, cell, waker,
                       claim, registered, swoken, rpc, second, rwoken, got, sent>>
    BY DEF Send, Step
  <1>1. /\ spc' \in [Senders -> Steps]
        /\ spc'[s] = "check" /\ \A t \in Senders : t # s => spc'[t] = spc[t]
    BY Zenon, <1>0, SpcStep DEF Steps
  <1>2. TypeOK'
    <2>1. mode' \in [Senders -> {"fast", "locked", "try"}]
      BY SMTT(20), <1>0, TypeFacts DEF Rest
    <2>2. QED
      BY Zenon, <1>0, <1>1, <2>1, TypeFacts DEF TypeOK, Core, Rest
  <1>3. /\ calls \in [Senders -> 0..MaxSends + 1] /\ calls' \in [Senders -> 0..MaxSends + 1]
        /\ calls'[s] = calls[s] + 1 /\ calls'[s] \in 1..MaxSends
        /\ \A t \in Senders : t # s => calls'[t] = calls[t]
    BY <1>0, ChannelAssumption DEF IInv, Types
  <1>4. Live' = Live
    BY SMTT(20), <1>0, <1>3, ChannelAssumption DEF Live
  <1>5. Types'
    <2>1. \A t \in Senders : Pending(t)' => calls'[t] \in 1..MaxSends
      BY <1>1, <1>3 DEF IInv, Types, Pending
    <2>2. QED
      BY <1>0, <1>2, <1>3, <1>4, <2>1 DEF IInv, Types
  <1>6. \A t \in Senders : Decided(t) <= Decided(t)'
    <2>1. SUFFICES ASSUME NEW t \in Senders PROVE Decided(t) <= Decided(t)'
      OBVIOUS
    <2>2. CASE t = s
      BY <1>0, <1>1, <1>3, <2>2 DEF Decided, Pending, PendingSteps
    <2>3. CASE t # s
      BY SMTT(20), <1>1, <1>3, <2>3 DEF Decided, Pending
    <2>4. QED
      BY <2>2, <2>3
  <1>7. \A t \in Senders : spc'[t] = spc[t] \/ (spc[t] \notin InRing /\ spc'[t] \notin InRing)
    BY <1>0, <1>1 DEF InRing
  <1>8. RingInv'
    BY <1>0, <1>5, <1>6, <1>7, RingSame DEF IInv
  <1>9. WakeInv'
    BY Zenon, <1>0, SenderQuiet DEF Steps, WakingSteps
  <1>10. QED
    BY <1>5, <1>8, <1>9 DEF IInv


(* Steps that neither touch the ring nor the receiver.                     *)
LEMMA PollKeeps == ASSUME IInv, NEW s \in Senders, Poll(s) \/ SpuriousPoll(s) PROVE IInv'
  <1> USE DEF ring, fifo, rcv
  <1>0. /\ spc[s] = "parked" /\ spc' = [spc EXCEPT ![s] = "check"]
        /\ mode' = [mode EXCEPT ![s] = "fast"]
        /\ swoken' = swoken \/ swoken' = [swoken EXCEPT ![s] = FALSE]
        /\ UNCHANGED <<buf, count, wpos, rpos, closed, senders, mtx, writers, waiters, cell, waker,
                       claim, calls, registered, rpc, second, rwoken, got, sent>>
    BY Zenon DEF Poll, SpuriousPoll, Step
  <1>1. mode' \in [Senders -> {"fast", "locked", "try"}] /\ swoken' \in [Senders -> BOOLEAN]
    BY Zenon, <1>0, TypeFacts DEF Rest, Core
  <1>2. Types' /\ RingInv'
    <2>1. Rest'
      BY Zenon, <1>0, <1>1, TypeFacts DEF Rest
    <2>2. /\ "check" \in Steps /\ "check" \notin InRing /\ spc[s] \notin InRing
          /\ "check" \in PendingSteps => spc[s] \in PendingSteps
      BY <1>0, <1>1 DEF Steps, InRing, PendingSteps
    <2>3. QED
      BY Zenon, <1>0, <1>1, <2>1, <2>2, SenderStep
  <1>3. WakeInv'
    BY Zenon, <1>0, SenderQuiet DEF Steps, WakingSteps
  <1>4. QED
    BY <1>2, <1>3 DEF IInv

LEMMA CheckClosedKeeps == ASSUME IInv, NEW s \in Senders, CheckClosed(s) PROVE IInv'
  <1> USE DEF ring, fifo, rcv
  <1>0. /\ spc[s] = "check"
        /\ \E pc \in {"claim", "idle", "lock"} : spc' = [spc EXCEPT ![s] = pc]
        /\ UNCHANGED <<buf, count, wpos, rpos, closed, senders, mtx, writers, waiters, cell, waker,
                       mode, claim, calls, registered, swoken, rpc, second, rwoken, got, sent>>
    BY Zenon DEF CheckClosed, Step
  <1>1. PICK pc \in {"claim", "idle", "lock"} : spc' = [spc EXCEPT ![s] = pc]
    BY Zenon, <1>0
  <1>2. Types' /\ RingInv'
    <2>1. Rest'
      BY ZenonT(20), <1>0, <1>1, TypeFacts DEF Rest
    <2>2. /\ pc \in Steps /\ pc \notin InRing /\ spc[s] \notin InRing
          /\ pc \in PendingSteps => spc[s] \in PendingSteps
      BY <1>0, <1>1 DEF Steps, InRing, PendingSteps
    <2>3. QED
      BY Zenon, <1>0, <1>1, <2>1, <2>2, SenderStep
  <1>3. WakeInv'
    BY Zenon, <1>0, <1>1, SenderQuiet DEF Steps, WakingSteps
  <1>4. QED
    BY <1>2, <1>3 DEF IInv

LEMMA LockKeeps == ASSUME IInv, NEW s \in Senders, Lock(s) PROVE IInv'
  <1> USE DEF ring, fifo, rcv
  <1>0. /\ spc[s] = "lock"
        /\ \E pc \in {"claim", "idle", "unregister"} : spc' = [spc EXCEPT ![s] = pc]
        /\ mtx' \in {mtx, s} /\ (mode' = mode \/ mode' = [mode EXCEPT ![s] = "locked"])
        /\ UNCHANGED <<buf, count, wpos, rpos, closed, senders, writers, waiters, cell, waker,
                       claim, calls, registered, swoken, rpc, second, rwoken, got, sent>>
    BY DEF Lock, Step, Done
  <1>1. PICK pc \in {"claim", "idle", "unregister"} : spc' = [spc EXCEPT ![s] = pc]
    BY ZenonT(20), <1>0
  <1>2. mode' \in [Senders -> {"fast", "locked", "try"}] /\ mtx' \in Senders \cup {None}
    BY <1>0, TypeFacts DEF Rest, Core
  <1>3. Types' /\ RingInv'
    <2>1. Rest'
      BY Zenon, <1>0, <1>1, <1>2, TypeFacts DEF Rest
    <2>2. /\ pc \in Steps /\ pc \notin InRing /\ spc[s] \notin InRing
          /\ pc \in PendingSteps => spc[s] \in PendingSteps
      BY <1>0, <1>1, <1>2 DEF Steps, InRing, PendingSteps
    <2>3. QED
      BY Zenon, <1>0, <1>1, <1>2, <2>1, <2>2, SenderStep
  <1>4. WakeInv'
    BY Zenon, <1>0, <1>1, SenderQuiet DEF Steps, WakingSteps
  <1>5. QED
    BY SMTT(20), <1>3, <1>4 DEF IInv

LEMMA EnqueueKeeps == ASSUME IInv, NEW s \in Senders, Enqueue(s) PROVE IInv'
  <1> USE DEF ring, fifo, rcv
  <1>0. /\ spc[s] = "enqueue" /\ spc' = [spc EXCEPT ![s] = "parked"] /\ mtx' = None
        /\ \/ UNCHANGED <<writers, waiters, registered>>
           \/ /\ writers' = Append(writers, s) /\ waiters' = waiters + 1
              /\ registered' = [registered EXCEPT ![s] = TRUE]
        /\ UNCHANGED <<buf, count, wpos, rpos, closed, senders, cell, waker,
                       mode, claim, calls, swoken, rpc, second, rwoken, got, sent>>
    BY DEF Enqueue, Step
  <1>1. writers' \in Seq(Senders) /\ waiters' \in Int
    <2>1. writers \in Seq(Senders) /\ waiters \in Int
      BY Zenon, TypeFacts DEF Rest
    <2>2. Append(writers, s) \in Seq(Senders)
      BY <2>1
    <2>3. waiters + 1 \in Int
      BY <2>1
    <2>4. QED
      BY Zenon, <1>0, <2>1, <2>2, <2>3
  <1>2. registered' \in [Senders -> BOOLEAN]
    BY Zenon, <1>0, TypeFacts DEF Rest, Core
  <1>3. Types' /\ RingInv'
    <2>1. Rest'
      BY Zenon, <1>0, <1>1, <1>2, TypeFacts DEF Rest
    <2>2. /\ "parked" \in Steps /\ "parked" \notin InRing /\ spc[s] \notin InRing
          /\ "parked" \in PendingSteps => spc[s] \in PendingSteps
      BY <1>0, <1>1, <1>2 DEF Steps, InRing, PendingSteps
    <2>3. QED
      BY Zenon, <1>0, <1>1, <1>2, <2>1, <2>2, SenderStep
  <1>4. WakeInv'
    BY Zenon, <1>0, SenderQuiet DEF Steps, WakingSteps
  <1>5. QED
    BY <1>3, <1>4 DEF IInv

LEMMA CancelKeeps == ASSUME IInv, NEW s \in Senders, Cancel(s) PROVE IInv'
  <1> USE DEF ring, fifo, rcv
  <1>0. /\ spc[s] = "parked"
        /\ \E pc \in {"idle", "unregister"} : spc' = [spc EXCEPT ![s] = pc]
        /\ swoken' = swoken \/ swoken' = [swoken EXCEPT ![s] = FALSE]
        /\ UNCHANGED <<buf, count, wpos, rpos, closed, senders, mtx, writers, waiters, cell, waker,
                       mode, claim, calls, registered, rpc, second, rwoken, got, sent>>
    BY DEF Cancel, Step
  <1>1. PICK pc \in {"idle", "unregister"} : spc' = [spc EXCEPT ![s] = pc]
    BY Zenon, <1>0
  <1>2. swoken' \in [Senders -> BOOLEAN]
    BY Zenon, <1>0, TypeFacts DEF Rest, Core
  <1>3. Types' /\ RingInv'
    <2>1. Rest'
      BY Zenon, <1>0, <1>1, <1>2, TypeFacts DEF Rest
    <2>2. /\ pc \in Steps /\ pc \notin InRing /\ spc[s] \notin InRing
          /\ pc \in PendingSteps => spc[s] \in PendingSteps
      BY <1>0, <1>1, <1>2 DEF Steps, InRing, PendingSteps
    <2>3. QED
      BY Zenon, <1>0, <1>1, <1>2, <2>1, <2>2, SenderStep
  <1>4. WakeInv'
    BY Zenon, <1>0, <1>1, SenderQuiet DEF Steps, WakingSteps
  <1>5. QED
    BY <1>3, <1>4 DEF IInv

LEMMA UnregisterKeeps == ASSUME IInv, NEW s \in Senders, Unregister(s) PROVE IInv'
  <1> USE DEF ring, fifo, rcv
  <1>0. /\ spc[s] = "unregister" /\ spc' = [spc EXCEPT ![s] = "idle"]
        /\ \/ \E i \in DOMAIN writers :
                writers' = SubSeq(writers, 1, i - 1) \o SubSeq(writers, i + 1, Len(writers))
           \/ writers' = <<>>
        /\ waiters' = waiters - 1 /\ registered' = [registered EXCEPT ![s] = FALSE]
        /\ swoken' = [swoken EXCEPT ![s] = FALSE]
        /\ UNCHANGED <<buf, count, wpos, rpos, closed, senders, mtx, cell, waker,
                       mode, claim, calls, rpc, second, rwoken, got, sent>>
    BY Zenon DEF Unregister, Step
  <1>1. writers' \in Seq(Senders)
    <2>1. writers \in Seq(Senders)
      BY Zenon, TypeFacts DEF Rest
    <2>2. ASSUME NEW i \in DOMAIN writers
          PROVE  SubSeq(writers, 1, i - 1) \o SubSeq(writers, i + 1, Len(writers)) \in Seq(Senders)
      BY <2>1
    <2>3. <<>> \in Seq(Senders)
      BY SMTT(20)
    <2>4. QED
      BY Zenon, <1>0, <2>2, <2>3
  <1>2. waiters' \in Int /\ registered' \in [Senders -> BOOLEAN] /\ swoken' \in [Senders -> BOOLEAN]
    BY <1>0, TypeFacts DEF Rest, Core
  <1>3. Types' /\ RingInv'
    <2>1. Rest'
      BY Zenon, <1>0, <1>1, <1>2, TypeFacts DEF Rest
    <2>2. /\ "idle" \in Steps /\ "idle" \notin InRing /\ spc[s] \notin InRing
          /\ "idle" \in PendingSteps => spc[s] \in PendingSteps
      BY <1>0, <1>1, <1>2 DEF Steps, InRing, PendingSteps
    <2>3. QED
      BY Zenon, <1>0, <1>1, <1>2, <2>1, <2>2, SenderStep
  <1>4. WakeInv'
    BY Zenon, <1>0, SenderQuiet DEF Steps, WakingSteps
  <1>5. QED
    BY <1>3, <1>4 DEF IInv


(* close(), and what it does to the parked senders.                        *)
LEMMA CloseKeeps == ASSUME IInv, NEW s \in Senders, Close(s) PROVE IInv'
  <1> USE DEF ring, fifo, rcv
  <1>0. /\ spc[s] = "idle" /\ spc' = [spc EXCEPT ![s] = "wakeall"] /\ closed' = TRUE
        /\ UNCHANGED <<buf, count, wpos, rpos, senders, mtx, writers, waiters, cell, waker,
                       mode, claim, calls, registered, swoken, rpc, second, rwoken, got, sent>>
    BY DEF Close, Step
  <1>1. Types' /\ RingInv'
    <2>1. Rest'
      BY Zenon, <1>0, TypeFacts DEF Rest
    <2>2. /\ "wakeall" \in Steps /\ "wakeall" \notin InRing /\ spc[s] \notin InRing
          /\ "wakeall" \in PendingSteps => spc[s] \in PendingSteps
      BY <1>0 DEF Steps, InRing, PendingSteps
    <2>3. QED
      BY Zenon, <1>0, <2>1, <2>2, SenderStep
  <1>2. WakeInv'
    BY ZenonT(20), <1>0, SenderQuiet DEF Steps, WakingSteps
  <1>3. QED
    BY <1>1, <1>2 DEF IInv

LEMMA DetachAllKeeps == ASSUME IInv, NEW s \in Senders, DetachAll(s) PROVE IInv'
  <1> USE DEF ring, fifo, rcv
  <1>0. /\ spc[s] = "wakeall" /\ spc' = [spc EXCEPT ![s] = "fireall"]
        /\ writers' = <<>> /\ waiters' = waiters - Len(writers)
        /\ registered' = [t \in Senders |-> registered[t] /\ t \notin RangeOf(writers)]
        /\ UNCHANGED <<buf, count, wpos, rpos, closed, senders, mtx, cell, waker,
                       mode, claim, calls, swoken, rpc, second, rwoken, got, sent>>
    BY Zenon DEF DetachAll, Step
  <1>1. writers' \in Seq(Senders) /\ waiters' \in Int
    BY <1>0, TypeFacts DEF Rest, Core
  <1>2. registered' \in [Senders -> BOOLEAN]
    BY <1>0
  <1>3. Types' /\ RingInv'
    <2>1. Rest'
      BY Zenon, <1>0, <1>1, <1>2, TypeFacts DEF Rest
    <2>2. /\ "fireall" \in Steps /\ "fireall" \notin InRing /\ spc[s] \notin InRing
          /\ "fireall" \in PendingSteps => spc[s] \in PendingSteps
      BY <1>0, <1>1, <1>2 DEF Steps, InRing, PendingSteps
    <2>3. QED
      BY Zenon, <1>0, <1>1, <1>2, <2>1, <2>2, SenderStep
  <1>4. WakeInv'
    BY Zenon, <1>0, SenderQuiet DEF Steps, WakingSteps
  <1>5. QED
    BY <1>3, <1>4 DEF IInv

LEMMA FireAllKeeps == ASSUME IInv, NEW s \in Senders, FireAll(s) PROVE IInv'
  <1> USE DEF ring, fifo, rcv
  <1>0. /\ spc[s] = "fireall"
        /\ \/ spc' = [spc EXCEPT ![s] = "wake"] /\ swoken' = swoken
           \/ spc' = spc /\ \E t : swoken' = [swoken EXCEPT ![t] = TRUE]
        /\ UNCHANGED <<buf, count, wpos, rpos, closed, senders, mtx, writers, waiters, cell, waker,
                       mode, claim, calls, registered, rpc, second, rwoken, got, sent>>
    BY SMTT(20) DEF FireAll, Step
  <1>1. \E pc \in {"wake", "fireall"} : spc' = [spc EXCEPT ![s] = pc]
    BY <1>0, TypeFacts DEF Rest, Core
  <1>2. PICK pc \in {"wake", "fireall"} : spc' = [spc EXCEPT ![s] = pc]
    BY Zenon, <1>1
  <1>3. swoken' \in [Senders -> BOOLEAN]
    BY Zenon, <1>0, TypeFacts DEF Rest, Core
  <1>4. Types' /\ RingInv'
    <2>1. Rest'
      BY ZenonT(20), <1>0, <1>2, <1>3, TypeFacts DEF Rest
    <2>2. /\ pc \in Steps /\ pc \notin InRing /\ spc[s] \notin InRing
          /\ pc \in PendingSteps => spc[s] \in PendingSteps
      BY <1>0, <1>2, <1>3 DEF Steps, InRing, PendingSteps
    <2>3. QED
      BY Zenon, <1>0, <1>2, <1>3, <2>1, <2>2, SenderStep
  <1>5. WakeInv'
    BY Zenon, <1>0, <1>2, SenderQuiet DEF Steps, WakingSteps
  <1>6. QED
    BY SMTT(20), <1>4, <1>5 DEF IInv

(* ~Sender: the count of senders follows.                                  *)
LEMMA DropKeeps == ASSUME Counting, IInv, NEW s \in Senders, Drop(s) PROVE IInv'
  <1> USE DEF ring, fifo, rcv
  <1>0. /\ spc[s] = "idle" /\ calls[s] <= MaxSends /\ senders' = senders - 1
        /\ calls' = [calls EXCEPT ![s] = MaxSends + 1]
        /\ \/ closed' = TRUE /\ spc' = [spc EXCEPT ![s] = "wakeall"]
           \/ UNCHANGED <<closed, spc>>
        /\ UNCHANGED <<buf, count, wpos, rpos, mtx, writers, waiters, cell, waker,
                       mode, claim, registered, swoken, rpc, second, rwoken, got, sent>>
    BY SMTT(20), ChannelAssumption DEF Drop, Step
  <1>1. \E pc \in {"wakeall", "idle"} : /\ spc' = [spc EXCEPT ![s] = pc]
                                        /\ closed' = closed \/ pc = "wakeall"
    BY <1>0, TypeFacts DEF Rest, Core
  <1>2. PICK pc \in {"wakeall", "idle"} : /\ spc' = [spc EXCEPT ![s] = pc]
                                          /\ closed' = closed \/ pc = "wakeall"
    BY Zenon, <1>1
  <1>3. /\ spc' \in [Senders -> Steps] /\ spc'[s] = pc
        /\ \A t \in Senders : t # s => spc'[t] = spc[t]
    BY ZenonT(20), <1>2, SpcStep DEF Steps
  <1>4. /\ calls \in [Senders -> 0..MaxSends + 1] /\ calls' \in [Senders -> 0..MaxSends + 1]
        /\ calls'[s] = MaxSends + 1 /\ \A t \in Senders : t # s => calls'[t] = calls[t]
    BY <1>0, ChannelAssumption DEF IInv, Types
  <1>5. senders' \in Nat /\ senders' = Cardinality(Live')
    <2>1. s \in Live /\ Live' = Live \ {s}
      BY <1>0, <1>4, ChannelAssumption DEF Live
    <2>2. Cardinality(Live') = Cardinality(Live) - 1 /\ Cardinality(Live') \in Nat
      BY <2>1, Subsets, CountingFacts
    <2>3. QED
      BY <1>0, <2>2 DEF IInv, Types
  <1>6. closed' \in BOOLEAN
    BY Zenon, <1>0, TypeFacts DEF Rest, Core
  <1>7. TypeOK'
    BY ZenonT(20), <1>0, <1>3, <1>5, <1>6, TypeFacts DEF TypeOK, Core, Rest
  <1>8. Types'
    <2>1. \A t \in Senders : Pending(t)' => calls'[t] \in 1..MaxSends
      BY <1>3, <1>4 DEF IInv, Types, Pending, PendingSteps
    <2>2. QED
      BY <1>0, <1>4, <1>5, <1>7, <2>1 DEF IInv, Types
  <1>9. \A t \in Senders : Decided(t) <= Decided(t)'
    <2>1. SUFFICES ASSUME NEW t \in Senders PROVE Decided(t) <= Decided(t)'
      OBVIOUS
    <2>2. CASE t = s
      BY <1>0, <1>3, <1>4, <2>2, ChannelAssumption DEF Decided, Pending, PendingSteps
    <2>3. CASE t # s
      BY SMTT(20), <1>3, <1>4, <2>3 DEF Decided, Pending
    <2>4. QED
      BY <2>2, <2>3
  <1>10. \A t \in Senders : spc'[t] = spc[t] \/ (spc[t] \notin InRing /\ spc'[t] \notin InRing)
    BY SMTT(20), <1>0, <1>3 DEF InRing
  <1>11. RingInv'
    BY <1>0, <1>8, <1>9, <1>10, RingSame DEF IInv
  <1>12. WakeInv'
    BY Zenon, <1>0, <1>2, SenderQuiet DEF Steps, WakingSteps
  <1>13. QED
    BY SMTT(20), <1>8, <1>11, <1>12 DEF IInv

-----------------------------------------------------------------------------
(* AtomicPromiseWaker::wake.                                               *)
LEMMA CellWakeKeeps == ASSUME IInv, NEW s \in Senders, CellWake(s) PROVE IInv'
  <1> USE DEF ring, fifo, rcv
  <1>0. /\ spc[s] = "wake"
        /\ \E pc \in {"fire", "unregister", "idle"} :
              /\ spc' = [spc EXCEPT ![s] = pc]
              /\ \/ cell = "waiting" /\ cell' = "waking" /\ pc = "fire"
                 \/ cell # "waiting" /\ cell' \in {"both", cell} /\ pc # "fire"
        /\ UNCHANGED <<buf, count, wpos, rpos, closed, senders, mtx, writers, waiters, waker,
                       mode, claim, calls, registered, swoken, rpc, second, rwoken, got, sent>>
    BY Zenon DEF CellWake, Step, Done
  <1>1. PICK pc \in {"fire", "unregister", "idle"} :
              /\ spc' = [spc EXCEPT ![s] = pc]
              /\ \/ cell = "waiting" /\ cell' = "waking" /\ pc = "fire"
                 \/ cell # "waiting" /\ cell' \in {"both", cell} /\ pc # "fire"
    BY Zenon, <1>0
  <1>2. Types' /\ RingInv'
    <2>1. Rest'
      BY Zenon, <1>0, <1>1, TypeFacts DEF Rest
    <2>2. /\ pc \in Steps /\ pc \notin InRing /\ spc[s] \notin InRing
          /\ pc \in PendingSteps => spc[s] \in PendingSteps
      BY <1>0, <1>1 DEF Steps, InRing, PendingSteps
    <2>3. QED
      BY Zenon, <1>0, <1>1, <2>1, <2>2, SenderStep
  <1>3. spc'[s] = pc /\ \A t \in Senders : t # s => spc'[t] = spc[t]
    BY <1>1, TypeFacts DEF Rest, Core
  <1>4. Armed'
    <2>1. CASE cell = "waiting"
      BY SMTT(20), <1>0, <1>1, <1>3, <2>1 DEF IInv, WakeInv, Armed
    <2>2. CASE cell # "waiting"
      <3>1. (\E t \in Senders : spc[t] = "fire") => \E t \in Senders : spc'[t] = "fire"
        BY <1>0, <1>3
      <3>2. QED
        BY <1>0, <2>2, <3>1 DEF IInv, WakeInv, Armed
    <2>3. QED
      BY <2>1, <2>2
  <1>5. Quiet'
    <2>1. CASE pc = "fire"
      <3>1. Waking'
        BY <1>3, <2>1 DEF Waking
      <3>2. QED
        BY <3>1 DEF Quiet
    <2>2. CASE pc # "fire"
      <3>1. cell # "waiting"
        BY <1>1, <2>2
      <3>2. rpc \in {"closed", "empty", "parked"} /\ second /\ ~rwoken => \E t \in Senders : spc[t] = "fire"
        BY SMTT(20), <3>1 DEF IInv, WakeInv, Armed
      <3>3. rpc \in {"closed", "empty", "parked"} /\ second /\ ~rwoken => Waking'
        BY <1>0, <1>3, <3>2 DEF Waking
      <3>4. QED
        BY <1>0, <3>3 DEF IInv, WakeInv, Armed, Quiet
    <2>3. QED
      BY <2>1, <2>2
  <1>6. QED
    BY <1>2, <1>4, <1>5 DEF IInv, WakeInv

LEMMA CellFireKeeps == ASSUME IInv, NEW s \in Senders, CellFire(s) PROVE IInv'
  <1> USE DEF ring, fifo
  <1>0. /\ spc[s] = "fire" /\ spc' = [spc EXCEPT ![s] = "release"] /\ rwoken' = (rwoken \/ waker)
        /\ UNCHANGED <<buf, count, wpos, rpos, closed, senders, mtx, writers, waiters, cell, waker,
                       mode, claim, calls, registered, swoken, rpc, second, got, sent>>
    BY SMTT(20) DEF CellFire, Step
  <1>1. rwoken' \in BOOLEAN
    BY <1>0, TypeFacts DEF Rest, Core
  <1>2. Types' /\ RingInv'
    <2>1. Rest'
      BY Zenon, <1>0, <1>1, TypeFacts DEF Rest
    <2>2. /\ "release" \in Steps /\ "release" \notin InRing /\ spc[s] \notin InRing
          /\ "release" \in PendingSteps => spc[s] \in PendingSteps
      BY <1>0, <1>1 DEF Steps, InRing, PendingSteps
    <2>3. QED
      BY Zenon, <1>0, <1>1, <2>1, <2>2, SenderStep
  <1>3. rpc \in {"load", "closed", "empty", "parked"} /\ second => rwoken'
    BY ZenonT(20), <1>0 DEF IInv, WakeInv, Armed
  <1>4. Armed' /\ Quiet'
    BY <1>0, <1>3 DEF IInv, WakeInv, Armed, Quiet
  <1>5. QED
    BY <1>2, <1>4 DEF IInv, WakeInv

LEMMA CellReleaseKeeps == ASSUME IInv, NEW s \in Senders, CellRelease(s) PROVE IInv'
  <1> USE DEF ring, fifo, rcv
  <1>0. /\ spc[s] = "release" /\ cell' = "waiting"
        /\ \E pc \in {"unregister", "idle"} : spc' = [spc EXCEPT ![s] = pc]
        /\ UNCHANGED <<buf, count, wpos, rpos, closed, senders, mtx, writers, waiters, waker,
                       mode, claim, calls, registered, swoken, rpc, second, rwoken, got, sent>>
    BY Zenon DEF CellRelease, Step, Done
  <1>1. PICK pc \in {"unregister", "idle"} : spc' = [spc EXCEPT ![s] = pc]
    BY Zenon, <1>0
  <1>2. Types' /\ RingInv'
    <2>1. Rest'
      BY Zenon, <1>0, <1>1, TypeFacts DEF Rest
    <2>2. /\ pc \in Steps /\ pc \notin InRing /\ spc[s] \notin InRing
          /\ pc \in PendingSteps => spc[s] \in PendingSteps
      BY <1>0, <1>1 DEF Steps, InRing, PendingSteps
    <2>3. QED
      BY Zenon, <1>0, <1>1, <2>1, <2>2, SenderStep
  <1>3. Waking => Waking'
    BY SMTT(20), <1>0, <1>1, SpcType DEF Waking
  <1>4. Armed' /\ Quiet'
    BY Zenon, <1>0, <1>3 DEF IInv, WakeInv, Armed, Quiet
  <1>5. QED
    BY <1>2, <1>4 DEF IInv, WakeInv

-----------------------------------------------------------------------------
(* The steps of the receiver outside the ring.                             *)
LEMMA RecvStep ==
    ASSUME IInv, rpc' \in RSteps, rpc # "dec", rpc' # "dec", Rest',
           UNCHANGED <<buf, count, wpos, rpos, senders, spc, claim, calls, sent, got>>
    PROVE  Types' /\ RingInv' /\ Waking' = Waking
  <1>1. TypeOK'
    BY Zenon, TypeFacts DEF TypeOK, Core, Rest
  <1>2. Types' /\ \A t \in Senders : Decided(t) <= Decided(t)'
    BY <1>1, TypesSame DEF IInv, Pending
  <1>3. RingInv'
    BY SMTT(20), <1>2, RingSame DEF IInv
  <1>4. QED
    BY <1>2, <1>3 DEF Waking

LEMMA RPollKeeps == ASSUME IInv, RPoll PROVE IInv'
  <1> USE DEF ring, others, fifo
  <1>0. /\ rpc \in {"poll", "parked"} /\ rwoken' = (rwoken /\ rpc = "poll") /\ second' = FALSE /\ rpc' = "load"
        /\ UNCHANGED <<buf, count, wpos, rpos, closed, senders, mtx, writers, waiters, cell, waker,
                       spc, mode, claim, calls, registered, swoken, got, sent>>
    BY DEF RPoll, RStep
  <1>1. rwoken' \in BOOLEAN
    BY SMTT(20), <1>0
  <1>2. Types' /\ RingInv'
    <2>1. Rest'
      BY ZenonT(20), <1>0, <1>1, TypeFacts DEF Rest
    <2>2. rpc # "dec" /\ rpc' # "dec" /\ rpc' \in RSteps
      BY <1>0, <1>1 DEF RSteps
    <2>3. QED
      BY <1>0, <1>1, <2>1, <2>2, RecvStep
  <1>3. QED
    BY SMTT(20), <1>0, <1>2, NotArmed DEF IInv

LEMMA PopLoadKeeps == ASSUME IInv, PopLoad PROVE IInv'
  <1> USE DEF ring, others, fifo
  <1>0. /\ rpc = "load" /\ ((rpc' = "closed" /\ count = 0) \/ rpc' = "spin")
        /\ UNCHANGED <<buf, count, wpos, rpos, closed, senders, mtx, writers, waiters, cell, waker,
                       spc, mode, claim, calls, registered, swoken, second, rwoken, got, sent>>
    BY SMTT(20) DEF PopLoad, RStep
  <1>1. Types' /\ RingInv'
    <2>1. Rest'
      BY Zenon, <1>0, TypeFacts DEF Rest
    <2>2. rpc # "dec" /\ rpc' # "dec" /\ rpc' \in RSteps
      BY SMTT(20), <1>0 DEF RSteps
    <2>3. QED
      BY <1>0, <2>1, <2>2, RecvStep
  <1>2. Armed' /\ Quiet'
    BY <1>0 DEF IInv, WakeInv, Armed, Quiet
  <1>3. QED
    BY SMTT(20), <1>1, <1>2 DEF IInv, WakeInv

LEMMA TakeWakerKeeps == ASSUME IInv, TakeWaker \/ TakeWakerEnd PROVE IInv'
  <1> USE DEF ring, others, fifo
  <1>0. /\ rpc \in {"untake", "endtake", "taken", "endtaken"}
        /\ rpc' \in {"taken", "endtaken", "waiters", "ended"}
        /\ cell' \in {cell, "registering", "waiting"} /\ waker' \in {waker, FALSE}
        /\ UNCHANGED <<buf, count, wpos, rpos, closed, senders, mtx, writers, waiters,
                       spc, mode, claim, calls, registered, swoken, second, rwoken, got, sent>>
    BY Zenon DEF TakeWaker, TakeWakerEnd, RStep
  <1>1. cell' \in {"waiting", "registering", "waking", "both"} /\ waker' \in BOOLEAN
    BY Zenon, <1>0, TypeFacts DEF Rest, Core
  <1>2. Types' /\ RingInv'
    <2>1. Rest'
      BY Zenon, <1>0, <1>1, TypeFacts DEF Rest
    <2>2. rpc # "dec" /\ rpc' # "dec" /\ rpc' \in RSteps
      BY <1>0, <1>1 DEF RSteps
    <2>3. QED
      BY <1>0, <1>1, <2>1, <2>2, RecvStep
  <1>3. QED
    BY <1>0, <1>2, NotArmed DEF IInv

LEMMA WakeOneKeeps == ASSUME IInv, WakeOneLoad \/ WakeOneTake \/ WakeOneFire PROVE IInv'
  <1> USE DEF ring, others, fifo
  <1>0. /\ rpc \in {"waiters", "take", "firew"} /\ rpc' \in {"poll", "take", "firew"}
        /\ \/ UNCHANGED <<writers, waiters>>
           \/ writers # <<>> /\ writers' = Tail(writers) /\ waiters' = waiters - 1
        /\ registered' = registered \/ \E t : registered' = [registered EXCEPT ![t] = FALSE]
        /\ swoken' = swoken \/ \E t, b : swoken' = [swoken EXCEPT ![t] = @ \/ b]
        /\ UNCHANGED <<buf, count, wpos, rpos, closed, senders, mtx, cell, waker,
                       spc, mode, claim, calls, second, rwoken, got, sent>>
    BY Zenon DEF WakeOneLoad, WakeOneTake, WakeOneFire, RStep
  <1>1. writers' \in Seq(Senders) /\ waiters' \in Int
    <2>1. writers \in Seq(Senders) /\ waiters \in Int
      BY Zenon, TypeFacts DEF Rest
    <2>2. writers # <<>> => Tail(writers) \in Seq(Senders)
      BY <2>1
    <2>3. QED
      BY <1>0, <2>1, <2>2
  <1>2. registered' \in [Senders -> BOOLEAN] /\ swoken' \in [Senders -> BOOLEAN]
    BY Zenon, <1>0, TypeFacts DEF Rest, Core
  <1>3. Types' /\ RingInv'
    <2>1. Rest'
      BY Zenon, <1>0, <1>1, <1>2, TypeFacts DEF Rest
    <2>2. rpc # "dec" /\ rpc' # "dec" /\ rpc' \in RSteps
      BY <1>0, <1>1, <1>2 DEF RSteps
    <2>3. QED
      BY <1>0, <1>1, <1>2, <2>1, <2>2, RecvStep
  <1>4. QED
    BY <1>0, <1>3, NotArmed DEF IInv

(* The re-check after the registration.                                    *)
LEMMA RClosedKeeps == ASSUME IInv, RClosed \/ REmpty PROVE IInv'
  <1> USE DEF ring, others, fifo
  <1>0. /\ \/ rpc = "closed" /\ (rpc' = "empty" \/ (rpc' = "parked" /\ second /\ ~closed) \/ rpc' = "register")
           \/ rpc = "empty" /\ (rpc' = "endtake" \/ (rpc' = "parked" /\ second /\ count # 0) \/ rpc' = "register")
        /\ UNCHANGED <<buf, count, wpos, rpos, closed, senders, mtx, writers, waiters, cell, waker,
                       spc, mode, claim, calls, registered, swoken, second, rwoken, got, sent>>
    BY DEF RClosed, REmpty, RStep
  <1>1. Types' /\ RingInv' /\ Waking' = Waking
    <2>1. Rest'
      BY Zenon, <1>0, TypeFacts DEF Rest
    <2>2. rpc # "dec" /\ rpc' # "dec" /\ rpc' \in RSteps
      BY <1>0 DEF RSteps
    <2>3. QED
      BY <1>0, <2>1, <2>2, RecvStep
  <1>2. Armed'
    BY <1>0 DEF IInv, WakeInv, Armed
  <1>3. Quiet'
    BY <1>0, <1>1 DEF IInv, WakeInv, Quiet
  <1>4. QED
    BY <1>1, <1>2, <1>3 DEF IInv, WakeInv

(* register_by_ref.                                                        *)
LEMMA RegisterKeeps == ASSUME IInv, Register \/ RegisterStore \/ RegisterExchange PROVE IInv'
  <1> USE DEF ring, others, fifo
  <1>0. /\ \/ /\ rpc = "register" /\ second' = TRUE /\ waker' = waker
              /\ \/ cell' = "registering" /\ rpc' = "store" /\ rwoken' = rwoken
                 \/ cell' = cell /\ rpc' = "load" /\ rwoken' = TRUE
           \/ rpc = "store" /\ rpc' = "exchange" /\ waker' = TRUE /\ UNCHANGED <<cell, second, rwoken>>
           \/ /\ rpc = "exchange" /\ rpc' = "load" /\ cell' = "waiting"
              /\ rwoken' = (rwoken \/ cell = "both") /\ UNCHANGED <<waker, second>>
        /\ UNCHANGED <<buf, count, wpos, rpos, closed, senders, mtx, writers, waiters,
                       spc, mode, claim, calls, registered, swoken, got, sent>>
    BY Zenon DEF Register, RegisterStore, RegisterExchange, RStep
  <1>1. /\ rpc \notin {"dec"} /\ rpc' \in {"store", "load", "exchange"}
        /\ cell' \in {"waiting", "registering", "waking", "both"}
        /\ waker' \in BOOLEAN /\ second' \in BOOLEAN /\ rwoken' \in BOOLEAN
    BY ZenonT(20), <1>0, TypeFacts DEF Rest, Core
  <1>2. Types' /\ RingInv'
    <2>1. Rest'
      BY ZenonT(20), <1>0, <1>1, TypeFacts DEF Rest
    <2>2. rpc # "dec" /\ rpc' # "dec" /\ rpc' \in RSteps
      BY SMTT(20), <1>0, <1>1 DEF RSteps
    <2>3. QED
      BY <1>0, <1>1, <2>1, <2>2, RecvStep
  <1>3. Armed' /\ Quiet'
    BY SMTT(20), <1>0 DEF IInv, WakeInv, Armed, Quiet
  <1>4. QED
    BY SMTT(20), <1>2, <1>3 DEF IInv, WakeInv
=============================================================================
