-------------------------- MODULE EventTimersProof --------------------------
(***************************************************************************)
(* For any number of timers, any delays and repeats and any stops from     *)
(* other threads: a timer struct is in one place, the loop's handles count *)
(* the pending timers, and a lifetime that was stopped never fires.        *)
(*                                                                         *)
(* The heap, the ready list and the pool are disjoint and hold no struct   *)
(* twice: a struct comes to the heap from the pool or the allocator, goes  *)
(* to the ready list when it is popped and to the pool when it is freed.   *)
(* No two pending timers are in the same lifetime, and none is in one that *)
(* was stopped.                                                            *)
(***************************************************************************)
EXTENDS EventTimers, FiniteSetTheorems, SequenceTheorems, TLAPS

Distinct(q) == \A i, j \in DOMAIN q : q[i] = q[j] => i = j

Pending == heap \cup RangeOf(ready)

Placed ==
    /\ Distinct(ready) /\ Distinct(pool) /\ Len(pool) <= PoolMax
    /\ heap \cap RangeOf(ready) = {} /\ Pending \cap RangeOf(pool) = {}

Counted == IsFiniteSet(heap) /\ active = Cardinality(heap) + Len(ready)

(* The ready list is worked off before the loop goes on.                   *)
Drained == lpc \in {"idle", "gone"} => ready = <<>>

Unfired == \A t \in heap : ~fired[t]

Lived ==
    /\ starts <= MaxStarts /\ stopped \subseteq 1..starts
    /\ \A t \in Pending : life[t] \in 1..starts /\ life[t] \notin stopped
    /\ \A t, u \in Pending : life[t] = life[u] => t = u

IInv == TypeOK /\ Placed /\ Counted /\ Drained /\ Unfired /\ Lived

(* The pop of a queue: every other entry moves up by one.                  *)
LEMMA TailEntries ==
    ASSUME NEW S, NEW s \in Seq(S), s # <<>>
    PROVE  /\ Head(s) = s[1] /\ 1 \in DOMAIN s
           /\ Tail(s) \in Seq(S)
           /\ DOMAIN Tail(s) = 1 .. Len(s) - 1 /\ DOMAIN s = 1 .. Len(s) /\ Len(s) \in Nat
           /\ \A i \in DOMAIN Tail(s) : i + 1 \in DOMAIN s /\ Tail(s)[i] = s[i + 1]
           /\ \A i \in DOMAIN s : i # 1 => i - 1 \in DOMAIN Tail(s) /\ Tail(s)[i - 1] = s[i]
  OBVIOUS

-----------------------------------------------------------------------------
(* The lists: what a push, a pop and a list of distinct structs hold.      *)
LEMMA ConsEntries ==
    ASSUME NEW s \in Seq(Timers), NEW t \in Timers, Distinct(s), t \notin RangeOf(s)
    PROVE  /\ <<t>> \o s \in Seq(Timers) /\ Len(<<t>> \o s) = Len(s) + 1
           /\ RangeOf(<<t>> \o s) = RangeOf(s) \cup {t} /\ Distinct(<<t>> \o s)
  <1> DEFINE q == <<t>> \o s
  <1>1. /\ q \in Seq(Timers) /\ Len(q) = Len(s) + 1 /\ Len(s) \in Nat
        /\ DOMAIN s = 1..Len(s) /\ DOMAIN q = 1..Len(s) + 1
        /\ q[1] = t /\ \A i \in 1..Len(s) : q[i + 1] = s[i]
    OBVIOUS
  <1> HIDE DEF q
  <1>2. \A i \in DOMAIN q : i = 1 \/ (i - 1 \in DOMAIN s /\ q[i] = s[i - 1])
    BY <1>1
  <1>3. RangeOf(q) = RangeOf(s) \cup {t}
    <2>1. RangeOf(q) \subseteq RangeOf(s) \cup {t}
      BY <1>1, <1>2 DEF RangeOf
    <2>2. ASSUME NEW i \in DOMAIN s PROVE s[i] \in RangeOf(q)
      <3>1. i + 1 \in DOMAIN q /\ q[i + 1] = s[i]
        BY <1>1
      <3>2. QED
        BY <3>1 DEF RangeOf
    <2>3. t \in RangeOf(q)
      BY <1>1 DEF RangeOf
    <2>4. QED
      BY Zenon, <2>1, <2>2, <2>3 DEF RangeOf
  <1>4. Distinct(q)
    <2>1. SUFFICES ASSUME NEW i \in DOMAIN q, NEW j \in DOMAIN q, q[i] = q[j] PROVE i = j
      BY DEF Distinct
    <2>2. i \in Int /\ j \in Int
      BY <1>1
    <2>3. CASE i # 1 /\ j # 1
      <3>1. i - 1 \in DOMAIN s /\ j - 1 \in DOMAIN s /\ s[i - 1] = s[j - 1]
        BY <1>2, <2>1, <2>3
      <3>2. i - 1 = j - 1
        BY <3>1 DEF Distinct
      <3>3. QED
        BY <2>2, <3>2
    <2>4. CASE i = 1 \/ j = 1
      BY <1>1, <1>2, <2>1, <2>4 DEF RangeOf
    <2>5. QED
      BY <2>3, <2>4
  <1>5. QED
    BY <1>1, <1>3, <1>4 DEF q

LEMMA TailOf ==
    ASSUME NEW s \in Seq(Timers), s # <<>>, Distinct(s)
    PROVE  /\ Head(s) \in Timers /\ Tail(s) \in Seq(Timers) /\ Len(Tail(s)) = Len(s) - 1
           /\ Head(s) \in RangeOf(s) /\ RangeOf(Tail(s)) = RangeOf(s) \ {Head(s)} /\ Distinct(Tail(s))
  <1>1. /\ Head(s) = s[1] /\ 1 \in DOMAIN s /\ Tail(s) \in Seq(Timers)
        /\ DOMAIN Tail(s) = 1 .. Len(s) - 1 /\ DOMAIN s = 1 .. Len(s) /\ Len(s) \in Nat
        /\ \A i \in DOMAIN Tail(s) : i + 1 \in DOMAIN s /\ Tail(s)[i] = s[i + 1]
        /\ \A i \in DOMAIN s : i # 1 => i - 1 \in DOMAIN Tail(s) /\ Tail(s)[i - 1] = s[i]
    BY TailEntries
  <1>2. Head(s) \in Timers /\ Len(Tail(s)) = Len(s) - 1
    BY <1>1
  <1>3. Distinct(Tail(s))
    <2>1. SUFFICES ASSUME NEW i \in DOMAIN Tail(s), NEW j \in DOMAIN Tail(s), Tail(s)[i] = Tail(s)[j]
                   PROVE  i = j
      BY DEF Distinct
    <2>2. i \in Int /\ j \in Int /\ i + 1 = j + 1
      BY <1>1, <2>1 DEF Distinct
    <2>3. QED
      BY <2>2
  <1>4. RangeOf(Tail(s)) \subseteq RangeOf(s) \ {Head(s)}
    <2>1. SUFFICES ASSUME NEW i \in DOMAIN Tail(s)
                   PROVE  Tail(s)[i] \in RangeOf(s) /\ Tail(s)[i] # Head(s)
      BY DEF RangeOf
    <2>2. i \in Nat /\ i >= 1 /\ i + 1 \in DOMAIN s /\ Tail(s)[i] = s[i + 1]
      BY <1>1
    <2>3. s[i + 1] # s[1]
      BY <1>1, <2>2 DEF Distinct
    <2>4. QED
      BY <1>1, <2>2, <2>3 DEF RangeOf
  <1>5. RangeOf(s) \ {Head(s)} \subseteq RangeOf(Tail(s))
    BY <1>1 DEF RangeOf
  <1>6. QED
    BY Zenon, <1>1, <1>2, <1>3, <1>4, <1>5 DEF RangeOf

LEMMA EntriesCount ==
    ASSUME NEW s \in Seq(Timers), Distinct(s)
    PROVE  /\ Len(s) \in Nat /\ RangeOf(s) \subseteq Timers
           /\ IsFiniteSet(RangeOf(s)) /\ Cardinality(RangeOf(s)) = Len(s)
  <1>1. Len(s) \in Nat /\ DOMAIN s = 1..Len(s) /\ RangeOf(s) \subseteq Timers
    BY DEF RangeOf
  <1>2. IsFiniteSet(1..Len(s)) /\ Cardinality(1..Len(s)) = Len(s)
    BY SMTT(20), <1>1, FS_Interval
  <1>3. s \in Bijection(1..Len(s), RangeOf(s))
    BY <1>1 DEF Distinct, RangeOf, Bijection, Injection, Surjection, IsInjective
  <1>4. QED
    BY <1>1, <1>2, <1>3, FS_Bijection DEF ExistsBijection

LEMMA DisjointCount ==
    ASSUME NEW S, NEW T, IsFiniteSet(S), IsFiniteSet(T), S \cap T = {}
    PROVE  IsFiniteSet(S \cup T) /\ Cardinality(S \cup T) = Cardinality(S) + Cardinality(T)
  <1>1. /\ IsFiniteSet(S \cup T)
        /\ Cardinality(S \cup T) = Cardinality(S) + Cardinality(T) - Cardinality(S \cap T)
    BY Zenon, FS_Union
  <1>2. Cardinality(S) \in Nat /\ Cardinality(T) \in Nat /\ Cardinality(S \cap T) = 0
    BY FS_CardinalityType, FS_EmptySet
  <1>3. QED
    BY <1>1, <1>2

LEMMA Facts ==
    ASSUME IInv
    PROVE  /\ clock \in 0 .. MaxTime /\ heap \subseteq Timers
           /\ ready \in Seq(Timers) /\ pool \in Seq(Timers)
           /\ deadline \in [Timers -> Nat] /\ repeat \in [Timers -> Nat]
           /\ fired \in [Timers -> BOOLEAN] /\ life \in [Timers -> 0 .. MaxStarts]
           /\ active \in Nat /\ posted \in Seq([timer : Timers, life : Lives])
           /\ lpc \in {"idle", "fire", "callback", "wild", "gone"}
           /\ starts \in Nat /\ crossstops \in Nat
           /\ fires \in [Lives -> Nat] /\ oncancels \in [Lives -> Nat] /\ stopped \subseteq Lives
  BY Zenon DEF IInv, TypeOK

LEMMA Places ==
    ASSUME IInv
    PROVE  /\ Distinct(ready) /\ Distinct(pool) /\ Len(pool) <= PoolMax /\ Len(pool) \in Nat
           /\ heap \cap RangeOf(ready) = {} /\ Pending \cap RangeOf(pool) = {}
           /\ RangeOf(ready) \subseteq Timers /\ RangeOf(pool) \subseteq Timers
           /\ IsFiniteSet(heap) /\ Cardinality(heap) \in Nat /\ Len(ready) \in Nat
           /\ active = Cardinality(heap) + Len(ready)
  <1>1. Placed /\ Counted
    BY Zenon DEF IInv
  <1>2. Cardinality(heap) \in Nat
    BY <1>1, FS_CardinalityType DEF Counted
  <1>3. QED
    BY <1>1, <1>2, Facts, EntriesCount DEF Placed, Counted

LEMMA Lives1 ==
    ASSUME IInv
    PROVE  /\ starts \in Nat /\ starts <= MaxStarts /\ stopped \subseteq 1..starts
           /\ \A t \in Pending : life[t] \in 1..starts /\ life[t] \notin stopped /\ life[t] \in Lives
           /\ \A t, u \in Pending : life[t] = life[u] => t = u
           /\ \A t \in heap : ~fired[t]
  <1>1. Lived /\ Unfired /\ starts \in Nat
    BY Zenon, Facts DEF IInv
  <1>2. QED
    BY <1>1, TimersAssumption DEF Lived, Unfired, Lives

(* A struct that goes back to the pool, or to the allocator.               *)
LEMMA PoolPush ==
    ASSUME IInv, NEW t \in Timers, t \notin RangeOf(pool), TimerFree(t)
    PROVE  /\ pool' \in Seq(Timers) /\ Distinct(pool') /\ Len(pool') <= PoolMax
           /\ RangeOf(pool') \subseteq RangeOf(pool) \cup {t}
  <1>1. CASE Len(pool) < PoolMax
    <2>1. pool' = <<t>> \o pool
      BY <1>1 DEF TimerFree
    <2>2. /\ <<t>> \o pool \in Seq(Timers) /\ Len(<<t>> \o pool) = Len(pool) + 1
          /\ RangeOf(<<t>> \o pool) = RangeOf(pool) \cup {t} /\ Distinct(<<t>> \o pool)
      BY Zenon, Facts, Places, ConsEntries
    <2>3. Len(pool) + 1 <= PoolMax
      BY <1>1, Places, TimersAssumption
    <2>4. QED
      BY Zenon, <2>1, <2>2, <2>3
  <1>2. CASE ~(Len(pool) < PoolMax)
    <2>1. pool' = pool
      BY <1>2 DEF TimerFree
    <2>2. QED
      BY <2>1, Facts, Places
  <1>3. QED
    BY <1>1, <1>2

(* A step that moves no struct.                                            *)
LEMMA StillKeeps ==
    ASSUME IInv, TypeOK', UNCHANGED <<heap, ready, pool, active, fired, life, starts, stopped>>,
           lpc' \in {"idle", "gone"} => ready = <<>>
    PROVE  IInv'
  <1>1. Pending' = Pending
    BY DEF Pending, RangeOf
  <1>2. Placed' /\ Counted' /\ Drained' /\ Unfired'
    BY <1>1 DEF IInv, Placed, Counted, Drained, Unfired, Distinct, RangeOf
  <1>3. Lived'
    BY <1>1 DEF IInv, Lived
  <1>4. QED
    BY <1>2, <1>3 DEF IInv

(* The struct xTimerStart gets is in no place.                             *)
LEMMA AllocFresh ==
    ASSUME IInv, NEW t \in Timers, TimerAlloc(t)
    PROVE  /\ t \notin Pending
           /\ pool' \in Seq(Timers) /\ Distinct(pool') /\ Len(pool') <= PoolMax
           /\ RangeOf(pool') \subseteq RangeOf(pool) \ {t}
  <1>1. CASE pool # <<>>
    <2>1. t = Head(pool) /\ pool' = Tail(pool)
      BY <1>1 DEF TimerAlloc
    <2>2. /\ Tail(pool) \in Seq(Timers) /\ Len(Tail(pool)) = Len(pool) - 1
          /\ Head(pool) \in RangeOf(pool) /\ RangeOf(Tail(pool)) = RangeOf(pool) \ {Head(pool)}
          /\ Distinct(Tail(pool))
      BY Zenon, <1>1, Facts, Places, TailOf
    <2>3. Len(pool) - 1 <= PoolMax
      BY Places, TimersAssumption
    <2>4. t \notin Pending
      BY <2>1, <2>2, Places
    <2>5. QED
      BY Zenon, <2>1, <2>2, <2>3, <2>4
  <1>2. CASE pool = <<>>
    <2>1. t \notin Allocated /\ pool' = pool
      BY <1>2 DEF TimerAlloc
    <2>2. t \notin Pending /\ t \notin RangeOf(pool)
      BY <2>1 DEF Allocated, Pending
    <2>3. QED
      BY <2>1, <2>2, Facts, Places
  <1>3. QED
    BY <1>1, <1>2

-----------------------------------------------------------------------------
LEMMA StartKeeps ==
    ASSUME IInv, NEW t \in Timers, NEW d \in Delays, NEW r \in Repeats, Start(t, d, r)
    PROVE  IInv'
  <1>0. /\ starts < MaxStarts /\ starts' = starts + 1 /\ TimerAlloc(t)
        /\ deadline' = [deadline EXCEPT ![t] = clock + d] /\ repeat' = [repeat EXCEPT ![t] = r]
        /\ fired' = [fired EXCEPT ![t] = FALSE] /\ life' = [life EXCEPT ![t] = starts + 1]
        /\ heap' = heap \cup {t} /\ active' = active + 1
        /\ UNCHANGED <<clock, ready, posted, lpc, crossstops, fires, oncancels, stopped>>
    BY Zenon DEF Start
  <1>1. /\ t \notin Pending
        /\ pool' \in Seq(Timers) /\ Distinct(pool') /\ Len(pool') <= PoolMax
        /\ RangeOf(pool') \subseteq RangeOf(pool) \ {t}
    BY Zenon, <1>0, AllocFresh
  <1>2. TypeOK'
    <2>1. clock + d \in Nat /\ r \in Nat /\ starts + 1 \in 0 .. MaxStarts /\ starts' \in Nat /\ active' \in Nat
      <3>1. clock \in 0 .. MaxTime /\ starts \in Nat /\ active \in Nat
        BY Zenon, Facts
      <3>2. starts < MaxStarts /\ starts' = starts + 1 /\ active' = active + 1
        BY Zenon, <1>0
      <3>3. QED
        BY <3>1, <3>2, TimersAssumption
    <2>2. /\ deadline' \in [Timers -> Nat] /\ repeat' \in [Timers -> Nat] /\ fired' \in [Timers -> BOOLEAN]
          /\ life' \in [Timers -> 0 .. MaxStarts] /\ heap' \subseteq Timers
      BY Zenon, <1>0, <2>1, Facts
    <2>3. QED
      BY Zenon, <1>0, <1>1, <2>1, <2>2, Facts DEF TypeOK
  <1>3. Pending' = Pending \cup {t}
    BY <1>0 DEF Pending
  <1>4. Placed'
    BY <1>0, <1>1, <1>3, Places DEF Placed, Pending
  <1>5. Counted'
    <2>1. t \notin heap
      BY <1>1 DEF Pending
    <2>2. IsFiniteSet(heap') /\ Cardinality(heap') = Cardinality(heap) + 1
      BY <1>0, <2>1, Places, FS_AddElement, FS_CardinalityType
    <2>3. QED
      BY <1>0, <2>2, Places DEF Counted
  <1>6. Drained'
    BY <1>0 DEF IInv, Drained
  <1>7. Unfired'
    BY Zenon, <1>0, Facts, Lives1 DEF Unfired
  <1>8. Lived'
    <2>1. life'[t] = starts + 1 /\ \A u \in Pending : u # t /\ u \in Timers /\ life'[u] = life[u]
      <3>1. life \in [Timers -> 0 .. MaxStarts] /\ Pending \subseteq Timers /\ t \notin Pending
        BY Zenon, <1>1, Facts, Places DEF Pending
      <3>2. life' = [life EXCEPT ![t] = starts + 1]
        BY Zenon, <1>0
      <3>3. QED
        BY <3>1, <3>2
    <2>2. stopped' \subseteq 1..starts' /\ starts' <= MaxStarts /\ starts + 1 \notin stopped
      <3>1. /\ starts \in Nat /\ starts < MaxStarts /\ starts' = starts + 1
            /\ stopped \subseteq 1..starts /\ stopped' = stopped
        BY Zenon, <1>0, Lives1
      <3>2. QED
        BY <3>1, TimersAssumption
    <2>3. \A u \in Pending : life'[u] \in 1..starts' /\ life'[u] \notin stopped' /\ life'[u] # starts + 1
      <3>1. /\ starts \in Nat /\ starts' = starts + 1 /\ stopped' = stopped
            /\ \A u \in Pending : life'[u] = life[u] /\ life[u] \in 1..starts /\ life[u] \notin stopped
        BY Zenon, <1>0, <2>1, Lives1
      <3>2. QED
        BY <3>1
    <2>4. starts + 1 \in 1..starts'
      BY <1>0, Lives1
    <2>5. QED
      BY <1>0, <1>3, <2>1, <2>2, <2>3, <2>4, Lives1 DEF Lived
  <1>9. QED
    BY Zenon, <1>2, <1>4, <1>5, <1>6, <1>7, <1>8 DEF IInv

(* timer_stop_direct, for a call on the loop's thread and for a post.      *)
LEMMA StopKeeps ==
    ASSUME IInv, NEW t \in Timers, StopDirect(t), posted' \in Seq([timer : Timers, life : Lives]),
           UNCHANGED <<clock, ready, deadline, repeat, fired, life, lpc, starts, crossstops,
                       fires, oncancels>>
    PROVE  IInv'
  <1>0. t \in heap /\ heap' = heap \ {t} /\ TimerFree(t) /\ active' = active - 1
        /\ stopped' = stopped \cup {life[t]}
    BY Zenon DEF StopDirect, TimerFree
  <1>1. t \in Pending /\ t \notin RangeOf(pool) /\ t \notin RangeOf(ready)
    BY <1>0, Places DEF Pending
  <1>2. /\ pool' \in Seq(Timers) /\ Distinct(pool') /\ Len(pool') <= PoolMax
        /\ RangeOf(pool') \subseteq RangeOf(pool) \cup {t}
    BY Zenon, <1>0, <1>1, PoolPush
  <1>3. IsFiniteSet(heap') /\ Cardinality(heap') = Cardinality(heap) - 1 /\ Cardinality(heap') \in Nat
    <2>1. IsFiniteSet(heap) /\ t \in heap /\ heap' = heap \ {t}
      BY Zenon, <1>0, Places
    <2>2. QED
      BY Zenon, <2>1, FS_RemoveElement, FS_CardinalityType
  <1>4. active' \in Nat /\ active' = Cardinality(heap') + Len(ready)
    BY <1>0, <1>3, Places
  <1>5. Pending' = Pending \ {t}
    BY <1>0, <1>1 DEF Pending
  <1>6. TypeOK'
    <2>1. heap' \subseteq Timers /\ stopped' \subseteq Lives
      BY Zenon, <1>0, <1>1, Facts, Lives1
    <2>2. QED
      BY Zenon, <1>2, <1>4, <2>1, Facts DEF TypeOK
  <1>7. Placed'
    BY <1>0, <1>1, <1>2, <1>5, Places DEF Placed
  <1>8. Counted' /\ Drained' /\ Unfired'
    BY <1>0, <1>3, <1>4 DEF IInv, Counted, Drained, Unfired
  <1>9. Lived'
    <2>1. \A u \in Pending' : u \in Pending /\ u # t /\ life[u] # life[t]
      BY <1>1, <1>5, Lives1
    <2>2. QED
      BY <1>0, <1>1, <2>1, Lives1 DEF Lived
  <1>10. QED
    BY Zenon, <1>6, <1>7, <1>8, <1>9 DEF IInv

LEMMA StopPostKeeps == ASSUME IInv, StopPost PROVE IInv'
  <1> DEFINE t == Head(posted).timer
  <1>0. /\ posted # <<>> /\ posted' = Tail(posted)
        /\ StopDirect(t) \/ UNCHANGED <<heap, active, pool, stopped>>
        /\ UNCHANGED <<clock, ready, deadline, repeat, fired, life, lpc, starts, crossstops,
                       fires, oncancels>>
    BY DEF StopPost
  <1>1. t \in Timers /\ posted' \in Seq([timer : Timers, life : Lives])
    <2>1. posted \in Seq([timer : Timers, life : Lives])
      BY Zenon, Facts
    <2>2. Head(posted) \in [timer : Timers, life : Lives] /\ Tail(posted) \in Seq([timer : Timers, life : Lives])
      <3> DEFINE M == [timer : Timers, life : Lives]
      <3>1. posted \in Seq(M) /\ posted # <<>>
        BY Zenon, <1>0, <2>1
      <3> HIDE DEF M
      <3>2. Head(posted) \in M /\ Tail(posted) \in Seq(M)
        BY <3>1
      <3>3. QED
        BY Zenon, <3>2 DEF M
    <2>3. Head(posted).timer \in Timers
      BY <2>2
    <2>4. QED
      BY Zenon, <1>0, <2>2, <2>3
  <1> HIDE DEF t
  <1>2. CASE StopDirect(t)
    BY Zenon, <1>0, <1>1, <1>2, StopKeeps
  <1>3. CASE UNCHANGED <<heap, active, pool, stopped>>
    <2>1. TypeOK'
      BY Zenon, <1>0, <1>1, <1>3, Facts DEF TypeOK
    <2>2. QED
      BY <1>0, <1>3, <2>1, StillKeeps DEF IInv, Drained
  <1>4. QED
    BY <1>0, <1>2, <1>3

LEMMA CrossStopKeeps == ASSUME IInv, NEW t \in Timers, CrossStop(t) PROVE IInv'
  <1>0. /\ t \in heap /\ crossstops' = crossstops + 1
        /\ posted' = Append(posted, [timer |-> t, life |-> life[t]])
        /\ UNCHANGED <<clock, heap, ready, pool, deadline, repeat, fired, life, active, lpc,
                       starts, fires, oncancels, stopped>>
    BY DEF CrossStop
  <1>1. life[t] \in Lives
    BY <1>0, Lives1 DEF Pending
  <1>2. posted' \in Seq([timer : Timers, life : Lives]) /\ crossstops' \in Nat
    <2>1. posted \in Seq([timer : Timers, life : Lives]) /\ crossstops \in Nat
      BY Zenon, Facts
    <2>2. QED
      BY <1>0, <1>1, <2>1
  <1>3. TypeOK'
    BY Zenon, <1>0, <1>2, Facts DEF TypeOK
  <1>4. QED
    BY <1>0, <1>3, StillKeeps DEF IInv, Drained

LEMMA TickKeeps == ASSUME IInv, Tick \/ CallbackReturns \/ UNCHANGED vars PROVE IInv'
  <1>0. /\ UNCHANGED <<heap, ready, pool, deadline, repeat, fired, life, active, posted,
                       starts, crossstops, fires, oncancels, stopped>>
        /\ clock' \in 0 .. MaxTime
        /\ lpc' = lpc \/ lpc' = (IF ready = <<>> THEN "idle" ELSE "fire")
    BY Facts, TimersAssumption DEF Tick, CallbackReturns, vars
  <1>1. lpc' \in {"idle", "fire", "callback", "wild", "gone"} /\ (lpc' \in {"idle", "gone"} => ready = <<>>)
    BY <1>0, Facts DEF IInv, Drained
  <1>2. TypeOK'
    BY Zenon, <1>0, <1>1, Facts DEF TypeOK
  <1>3. QED
    BY Zenon, <1>0, <1>1, <1>2, StillKeeps

(* loop_run_timers pops the expired timers, each once.                     *)
LEMMA PopExpiredKeeps == ASSUME IInv, PopExpired PROVE IInv'
  <1> DEFINE E == {t \in heap : deadline[t] <= clock}
  <1>0. /\ lpc = "idle" /\ lpc' = "fire"
        /\ UNCHANGED <<clock, pool, deadline, repeat, life, active, posted, starts, crossstops,
                       fires, oncancels, stopped>>
    BY DEF PopExpired
  <1>1. PICK s \in [1 .. Cardinality(E) -> heap] :
               /\ ByDeadline(E, s) /\ ready' = s /\ heap' = heap \ RangeOf(s)
               /\ fired' = [t \in Timers |-> fired[t] \/ t \in RangeOf(s)]
    BY Zenon DEF PopExpired
  <1>2. IsFiniteSet(E) /\ Cardinality(E) \in Nat /\ E \subseteq heap
    BY Places, FS_Subset, FS_CardinalityType
  <1> HIDE DEF E
  <1>3. /\ s \in Seq(Timers) /\ DOMAIN s = 1 .. Cardinality(E) /\ Len(s) = Cardinality(E)
        /\ RangeOf(s) = E
    <2>1. RangeOf(s) = E
      BY Zenon, <1>1 DEF ByDeadline
    <2>2. heap \subseteq Timers
      BY Zenon, Facts
    <2>3. QED
      BY <1>1, <1>2, <2>1, <2>2
  <1>4. Distinct(s)
    <2>1. s \in Surjection(1 .. Cardinality(E), E)
      BY <1>1, <1>3 DEF Surjection, RangeOf
    <2>2. IsFiniteSet(1 .. Cardinality(E)) /\ Cardinality(1 .. Cardinality(E)) = Cardinality(E)
      BY <1>2, FS_Interval
    <2>3. s \in Injection(1 .. Cardinality(E), E)
      BY Zenon, <2>1, <2>2, FS_SurjSameCardinalityImpliesInj
    <2>4. QED
      BY <1>3, <2>3 DEF Injection, IsInjective, Distinct
  <1>5. /\ IsFiniteSet(heap') /\ Cardinality(heap') = Cardinality(heap) - Cardinality(E)
    <2>1. heap \cap E = E /\ heap' = heap \ E
      BY <1>1, <1>2, <1>3
    <2>2. IsFiniteSet(heap)
      BY Zenon, Places
    <2>3. /\ IsFiniteSet(heap \ E)
          /\ Cardinality(heap \ E) = Cardinality(heap) - Cardinality(heap \cap E)
      BY Zenon, <2>2, FS_Difference
    <2>4. QED
      BY Zenon, <2>1, <2>3
  <1>6. ready = <<>> /\ Len(ready) = 0 /\ RangeOf(ready) = {}
    BY <1>0 DEF IInv, Drained, RangeOf
  <1>7. Pending' = Pending /\ heap' = heap \ E /\ RangeOf(ready)' = E /\ heap' \subseteq heap
    BY <1>1, <1>2, <1>3, <1>6 DEF Pending
  <1>8. TypeOK'
    <2>1. fired' \in [Timers -> BOOLEAN] /\ heap' \subseteq Timers
      BY <1>1, <1>7, Facts
    <2>2. QED
      BY Zenon, <1>0, <1>1, <1>3, <2>1, Facts DEF TypeOK
  <1>9. Placed'
    BY <1>0, <1>1, <1>4, <1>7, Places DEF Placed
  <1>10. Counted'
    BY <1>0, <1>1, <1>2, <1>3, <1>5, <1>6, Places DEF Counted
  <1>11. Drained'
    BY <1>0 DEF Drained
  <1>12. Unfired'
    BY <1>1, <1>3, <1>7, Facts, Lives1 DEF Unfired
  <1>13. Lived'
    BY <1>0, <1>7 DEF IInv, Lived
  <1>14. QED
    BY Zenon, <1>8, <1>9, <1>10, <1>11, <1>12, <1>13 DEF IInv

(* A repeating timer is put back on the heap before its callback, any      *)
(* other struct is recycled.                                               *)
LEMMA FireKeeps == ASSUME IInv, Fire PROVE IInv'
  <1> DEFINE t == Head(ready)
  <1>0. /\ ready # <<>> /\ ready' = Tail(ready)
        /\ \/ repeat[t] > 0 /\ Rearm(t)
           \/ TimerFree(t) /\ UNCHANGED <<deadline, heap, fired>>
        /\ fires' = [fires EXCEPT ![life[t]] = @ + 1]
        /\ lpc' \in {"wild", "callback"}
        /\ UNCHANGED <<clock, repeat, life, posted, starts, crossstops, oncancels, stopped>>
    BY DEF Fire
  <1>1. /\ t \in Timers /\ ready' \in Seq(Timers) /\ Len(ready') = Len(ready) - 1
        /\ t \in RangeOf(ready) /\ RangeOf(ready') = RangeOf(ready) \ {t} /\ Distinct(ready')
    BY Zenon, <1>0, Facts, Places, TailOf
  <1> HIDE DEF t
  <1>2. t \in Pending /\ t \notin heap /\ t \notin RangeOf(pool)
    BY <1>1, Places DEF Pending
  <1>3. fires' \in [Lives -> Nat]
    <2>1. life[t] \in Lives /\ fires \in [Lives -> Nat]
      BY Zenon, <1>2, Lives1, Facts
    <2>2. QED
      BY <1>0, <2>1
  <1>4. Drained'
    BY <1>0 DEF Drained
  <1>5. CASE repeat[t] > 0 /\ Rearm(t)
    <2>0. /\ deadline' = [deadline EXCEPT ![t] = @ + repeat[t]]
          /\ fired' = [fired EXCEPT ![t] = FALSE]
          /\ heap' = heap \cup {t} /\ active' = active /\ pool' = pool
      BY <1>5 DEF Rearm
    <2>1. Pending' = Pending
      BY <1>1, <2>0 DEF Pending
    <2>2. TypeOK'
      <3>1. /\ deadline \in [Timers -> Nat] /\ repeat \in [Timers -> Nat]
            /\ fired \in [Timers -> BOOLEAN] /\ heap \subseteq Timers /\ t \in Timers
        BY Zenon, <1>1, Facts
      <3>2. deadline' \in [Timers -> Nat] /\ fired' \in [Timers -> BOOLEAN] /\ heap' \subseteq Timers
        BY <2>0, <3>1
      <3>3. QED
        BY Zenon, <1>0, <1>1, <1>3, <2>0, <3>2, Facts DEF TypeOK
    <2>3. Placed'
      BY <1>1, <1>2, <2>0, <2>1, Places DEF Placed
    <2>4. Counted'
      <3>1. IsFiniteSet(heap') /\ Cardinality(heap') = Cardinality(heap) + 1
        BY <1>2, <2>0, Places, FS_AddElement, FS_CardinalityType
      <3>2. QED
        BY <1>1, <2>0, <3>1, Places DEF Counted
    <2>5. Unfired'
      BY Zenon, <1>1, <2>0, Facts, Lives1 DEF Unfired
    <2>6. Lived'
      BY <1>0, <2>1 DEF IInv, Lived
    <2>7. QED
      BY Zenon, <1>4, <2>2, <2>3, <2>4, <2>5, <2>6 DEF IInv
  <1>6. CASE TimerFree(t) /\ UNCHANGED <<deadline, heap, fired>>
    <2>0. active' = active - 1 /\ deadline' = deadline /\ heap' = heap /\ fired' = fired
      BY <1>6 DEF TimerFree
    <2>1. /\ pool' \in Seq(Timers) /\ Distinct(pool') /\ Len(pool') <= PoolMax
          /\ RangeOf(pool') \subseteq RangeOf(pool) \cup {t}
      BY Zenon, <1>1, <1>2, <1>6, PoolPush
    <2>2. Pending' = Pending \ {t}
      BY <1>1, <1>2, <2>0 DEF Pending
    <2>3. Len(ready') \in Nat /\ active' = Cardinality(heap') + Len(ready') /\ active' \in Nat
      BY <1>1, <2>0, Places
    <2>4. TypeOK'
      BY Zenon, <1>0, <1>1, <1>3, <2>0, <2>1, <2>3, Facts DEF TypeOK
    <2>5. Placed'
      BY <1>1, <2>0, <2>1, <2>2, Places DEF Placed
    <2>6. Counted' /\ Unfired'
      BY <2>0, <2>3 DEF IInv, Counted, Unfired
    <2>7. Lived'
      BY <1>0, <2>2 DEF IInv, Lived
    <2>8. QED
      BY Zenon, <1>4, <2>4, <2>5, <2>6, <2>7 DEF IInv
  <1>7. QED
    BY Zenon, <1>0, <1>5, <1>6

LEMMA DestroyKeeps == ASSUME IInv, Destroy PROVE IInv'
  <1>0. /\ lpc = "idle" /\ heap' = {} /\ pool' = <<>> /\ lpc' = "gone"
        /\ active' = active - Cardinality(heap)
        /\ oncancels' = [l \in Lives |-> oncancels[l] + Cardinality({t \in heap : life[t] = l})]
        /\ UNCHANGED <<clock, ready, deadline, repeat, fired, life, posted, starts, crossstops,
                       fires, stopped>>
    BY DEF Destroy
  <1>1. ready = <<>> /\ Len(ready) = 0 /\ RangeOf(ready) = {} /\ RangeOf(ready)' = {}
    BY <1>0 DEF IInv, Drained, RangeOf
  <1>2. /\ pool' \in Seq(Timers) /\ Len(pool') <= PoolMax /\ Distinct(pool') /\ RangeOf(pool') = {}
    BY <1>0, TimersAssumption DEF Distinct, RangeOf
  <1>3. oncancels' \in [Lives -> Nat]
    <2>1. ASSUME NEW l \in Lives PROVE Cardinality({t \in heap : life[t] = l}) \in Nat
      <3>1. {t \in heap : life[t] = l} \in SUBSET heap
        OBVIOUS
      <3>2. QED
        BY <3>1, Places, FS_Subset, FS_CardinalityType
    <2>2. oncancels \in [Lives -> Nat]
      BY Zenon, Facts
    <2>3. QED
      BY <1>0, <2>1, <2>2
  <1>4. active' = 0 /\ IsFiniteSet(heap') /\ Cardinality(heap') = 0
    BY <1>0, <1>1, Places, FS_EmptySet
  <1>5. Pending' = {}
    BY <1>0, <1>1 DEF Pending
  <1>6. TypeOK'
    <2>1. heap' \subseteq Timers /\ active' \in Nat
      BY <1>0, <1>4
    <2>2. QED
      BY Zenon, <1>0, <1>2, <1>3, <2>1, Facts DEF TypeOK
  <1>7. Placed'
    BY <1>0, <1>1, <1>2, <1>5, Places DEF Placed
  <1>8. Counted' /\ Drained' /\ Unfired'
    BY <1>0, <1>1, <1>4 DEF Counted, Drained, Unfired
  <1>9. Lived'
    BY <1>0, <1>5, Lives1 DEF Lived
  <1>10. QED
    BY Zenon, <1>6, <1>7, <1>8, <1>9 DEF IInv

LEMMA InitIInv == Init => IInv
  <1>1. SUFFICES ASSUME Init PROVE IInv
    OBVIOUS
  <1>2. /\ IsFiniteSet({}) /\ Cardinality({}) = 0 /\ RangeOf(ready) = {} /\ RangeOf(pool) = {}
        /\ heap = {} /\ ready = <<>> /\ pool = <<>> /\ Len(ready) = 0 /\ Len(pool) = 0
    BY <1>1, FS_EmptySet DEF Init, RangeOf
  <1>3. TypeOK
    <2>1. clock \in 0 .. MaxTime /\ starts \in Nat /\ crossstops \in Nat /\ active \in Nat
      BY <1>1, TimersAssumption DEF Init
    <2>2. /\ deadline \in [Timers -> Nat] /\ repeat \in [Timers -> Nat] /\ fired \in [Timers -> BOOLEAN]
          /\ life \in [Timers -> 0 .. MaxStarts] /\ fires \in [Lives -> Nat] /\ oncancels \in [Lives -> Nat]
      BY <1>1, TimersAssumption DEF Init
    <2>3. ready \in Seq(Timers) /\ pool \in Seq(Timers) /\ posted \in Seq([timer : Timers, life : Lives])
      BY <1>1 DEF Init
    <2>4. lpc \in {"idle", "fire", "callback", "wild", "gone"} /\ heap \subseteq Timers /\ stopped \subseteq Lives
      BY <1>1 DEF Init
    <2>5. QED
      BY Zenon, <2>1, <2>2, <2>3, <2>4 DEF TypeOK
  <1>4. Placed
    BY <1>2, TimersAssumption DEF Placed, Pending, Distinct
  <1>5. Counted /\ Drained /\ Unfired
    BY <1>1, <1>2 DEF Init, Counted, Drained, Unfired
  <1>6. Lived
    BY <1>1, <1>2, TimersAssumption DEF Init, Lived, Pending
  <1>7. QED
    BY Zenon, <1>3, <1>4, <1>5, <1>6 DEF IInv

LEMMA NextKeeps == IInv /\ [Next]_vars => IInv'
  <1>1. SUFFICES ASSUME IInv, [Next]_vars PROVE IInv'
    OBVIOUS
  <1>2. CASE Tick \/ CallbackReturns \/ UNCHANGED vars
    BY Zenon, <1>1, <1>2, TickKeeps
  <1>3. ASSUME NEW t \in Timers, NEW d \in Delays, NEW r \in Repeats, Start(t, d, r) PROVE IInv'
    BY Zenon, <1>1, <1>3, StartKeeps
  <1>4. ASSUME NEW t \in Timers, Stop(t) PROVE IInv'
    <2>1. /\ StopDirect(t) /\ posted' = posted
          /\ UNCHANGED <<clock, ready, deadline, repeat, fired, life, lpc, starts, crossstops,
                         fires, oncancels>>
      BY <1>4 DEF Stop
    <2>2. posted' \in Seq([timer : Timers, life : Lives])
      BY Zenon, <1>1, <2>1, Facts
    <2>3. QED
      BY Zenon, <1>1, <2>1, <2>2, StopKeeps
  <1>5. ASSUME NEW t \in Timers, CrossStop(t) PROVE IInv'
    BY Zenon, <1>1, <1>5, CrossStopKeeps
  <1>6. CASE StopPost
    BY Zenon, <1>1, <1>6, StopPostKeeps
  <1>7. CASE PopExpired
    BY Zenon, <1>1, <1>7, PopExpiredKeeps
  <1>8. CASE Fire
    BY Zenon, <1>1, <1>8, FireKeeps
  <1>9. CASE Destroy
    BY Zenon, <1>1, <1>9, DestroyKeeps
  <1>10. QED
    BY Zenon, <1>1, <1>2, <1>3, <1>4, <1>5, <1>6, <1>7, <1>8, <1>9 DEF Next, Terminated

-----------------------------------------------------------------------------
(* The structs, the lists, the handles and the lifetimes stay consistent   *)
(* through xTimerStart, xTimerStop, loop_run_timers and                    *)
(* timer_heap_destroy, for any number of timers and any delays.            *)
THEOREM TimersInvariant == Spec => []IInv
  BY InitIInv, NextKeeps, PTL DEF Spec

(* A timer struct is on the heap, on the ready list of loop_run_timers or  *)
(* in the pool, once; the pool keeps to its limit; and a timer on the heap *)
(* can be stopped.                                                         *)
THEOREM TimerOnePlaceAlways == Spec => []TimerOnePlace
  <1>1. IInv => TimerOnePlace
    <2>1. SUFFICES ASSUME IInv PROVE TimerOnePlace
      OBVIOUS
    <2> DEFINE R == RangeOf(ready)
               P == RangeOf(pool)
    <2>2. /\ IsFiniteSet(R) /\ Cardinality(R) = Len(ready) /\ IsFiniteSet(P) /\ Cardinality(P) = Len(pool)
      <3>1. ready \in Seq(Timers) /\ pool \in Seq(Timers) /\ Distinct(ready) /\ Distinct(pool)
        BY Zenon, <2>1, Facts, Places
      <3>2. IsFiniteSet(R) /\ Cardinality(R) = Len(ready)
        BY Zenon, <3>1, EntriesCount
      <3>3. IsFiniteSet(P) /\ Cardinality(P) = Len(pool)
        BY Zenon, <3>1, EntriesCount
      <3>4. QED
        BY Zenon, <3>2, <3>3
    <2>3. /\ IsFiniteSet(heap) /\ Cardinality(heap) \in Nat /\ Len(ready) \in Nat /\ Len(pool) \in Nat
          /\ Len(pool) <= PoolMax
      BY Zenon, <2>1, Places
    <2>4. heap \cap R = {} /\ (heap \cup R) \cap P = {} /\ Allocated = (heap \cup R) \cup P
      BY <2>1, Places DEF Pending, Allocated
    <2> HIDE DEF R, P
    <2>5. IsFiniteSet(heap \cup R) /\ Cardinality(heap \cup R) = Cardinality(heap) + Len(ready)
      BY Zenon, <2>2, <2>3, <2>4, DisjointCount
    <2>6. IsFiniteSet(P) /\ (heap \cup R) \cap P = {}
      BY Zenon, <2>2, <2>4
    <2>7. Cardinality((heap \cup R) \cup P) = Cardinality(heap \cup R) + Cardinality(P)
      BY Zenon, <2>5, <2>6, DisjointCount
    <2>8. QED
      BY <2>1, <2>2, <2>3, <2>4, <2>5, <2>7, Lives1 DEF TimerOnePlace
  <1>2. QED
    BY <1>1, TimersInvariant, PTL

(* The timers' share of loop->active_handles is the number of pending      *)
(* timers, so the loop stays alive exactly while one is pending.           *)
THEOREM TimerHandlesAlways == Spec => []TimerHandles
  <1>1. IInv => TimerHandles
    BY DEF IInv, Counted, TimerHandles
  <1>2. QED
    BY <1>1, TimersInvariant, PTL

(* After xTimerStop returned xErrno_Ok the lifetime neither fires nor is   *)
(* cancelled again, also when its struct is recycled for another timer.    *)
THEOREM StoppedNeverFiresAlways == Spec => StoppedNeverFires
  <1> DEFINE Silent == \A l \in Lives : l \in stopped => fires'[l] = fires[l] /\ oncancels'[l] = oncancels[l]
  <1>1. IInv /\ [Next]_vars => [Silent]_vars
    <2>1. SUFFICES ASSUME IInv, [Next]_vars, NEW l \in Lives, l \in stopped
                   PROVE  fires'[l] = fires[l] /\ oncancels'[l] = oncancels[l]
      BY Zenon
    <2>2. CASE Fire
      <3>1. /\ fires' = [fires EXCEPT ![life[Head(ready)]] = @ + 1] /\ oncancels' = oncancels
            /\ ready # <<>>
        BY <2>2 DEF Fire
      <3>2. Head(ready) \in Pending
        BY Zenon, <2>1, <3>1, Facts, Places, TailOf DEF Pending
      <3>3. life[Head(ready)] # l /\ fires \in [Lives -> Nat]
        BY Zenon, <2>1, <3>2, Lives1, Facts
      <3>4. QED
        BY <2>1, <3>1, <3>3
    <2>3. CASE Destroy
      <3>1. /\ fires' = fires
            /\ oncancels' = [k \in Lives |-> oncancels[k] + Cardinality({t \in heap : life[t] = k})]
        BY <2>3 DEF Destroy
      <3>2. {t \in heap : life[t] = l} = {}
        BY <2>1, Lives1 DEF Pending
      <3>3. Cardinality({t \in heap : life[t] = l}) = 0 /\ oncancels[l] \in Nat
        BY Zenon, <2>1, <3>2, Facts, FS_EmptySet
      <3>4. QED
        BY <2>1, <3>1, <3>3
    <2>4. CASE ~Fire /\ ~Destroy
      <3>1. fires' = fires /\ oncancels' = oncancels
        BY Zenon, <2>1, <2>4
           DEF Next, Tick, Start, Stop, CrossStop, StopPost, PopExpired, CallbackReturns, Terminated, vars
      <3>2. QED
        BY Zenon, <3>1
    <2>5. QED
      BY Zenon, <2>2, <2>3, <2>4
  <1>2. QED
    BY <1>1, TimersInvariant, PTL DEF Spec, StoppedNeverFires

=============================================================================
