---------------------------- MODULE EventTimers ----------------------------
(***************************************************************************)
(* The builtin timers of the event loop: xTimerStart, xTimerStop (direct   *)
(* and deferred from another thread), loop_run_timers, the pool of timer   *)
(* structs and timer_heap_destroy (src/libx/x/base/event_timer.c,          *)
(* event_private.c, event_private.h).                                      *)
(*                                                                         *)
(* A timer is the struct it lives in; a lifetime is one xTimerStart of it. *)
(* The heap is the set of timers on it, popped in order of deadline.       *)
(***************************************************************************)
EXTENDS Integers, Sequences, FiniteSets

CONSTANTS
    Timers,        \* timer structs the allocator can hand out
    PoolMax,       \* TIMER_POOL_MAX
    Delays,        \* timeout_ms
    Repeats,       \* repeat_ms, 0 for a one-shot timer
    MaxTime,       \* bound: the clock
    MaxStarts,     \* bound: lifetimes
    MaxCrossStops  \* bound: xTimerStop from another thread

ASSUME TimersAssumption ==
    /\ PoolMax \in Nat /\ Delays \subseteq Nat /\ Repeats \subseteq Nat
    /\ MaxTime \in Nat /\ MaxStarts \in Nat /\ MaxCrossStops \in Nat

VARIABLES
    clock,                       \* xMonoMs
    heap,                        \* timers on the heap
    ready,                       \* the ready list of loop_run_timers
    pool,                        \* loop->timer_free, top first
    deadline, repeat, fired,     \* fields of the timers
    life,                        \* the lifetime each timer is in, 0 if none
    active,                      \* its share of loop->active_handles
    posted,                      \* deferred stops on the done queue
    lpc,                         \* the loop thread
    starts, crossstops,
    fires, oncancels, stopped    \* history, per lifetime

vars == <<clock, heap, ready, pool, deadline, repeat, fired, life, active, posted, lpc,
          starts, crossstops, fires, oncancels, stopped>>

Lives == 1 .. MaxStarts
RangeOf(s) == {s[i] : i \in DOMAIN s}

Init ==
    /\ clock = 0
    /\ heap = {} /\ ready = <<>> /\ pool = <<>>
    /\ deadline = [t \in Timers |-> 0]
    /\ repeat = [t \in Timers |-> 0]
    /\ fired = [t \in Timers |-> FALSE]
    /\ life = [t \in Timers |-> 0]
    /\ active = 0
    /\ posted = <<>>
    /\ lpc = "idle"
    /\ starts = 0 /\ crossstops = 0
    /\ fires = [l \in Lives |-> 0]
    /\ oncancels = [l \in Lives |-> 0]
    /\ stopped = {}

Tick ==
    /\ clock < MaxTime
    /\ clock' = clock + 1
    /\ UNCHANGED <<heap, ready, pool, deadline, repeat, fired, life, active, posted, lpc,
                   starts, crossstops, fires, oncancels, stopped>>

(* The loop thread calls the API between callbacks or from one.            *)
MayCall == lpc \in {"idle", "callback"}

Allocated == heap \cup RangeOf(ready) \cup RangeOf(pool)

(* timer_alloc takes the top of the pool, or a new struct.                 *)
TimerAlloc(t) ==
    IF pool # <<>>
      THEN t = Head(pool) /\ pool' = Tail(pool)
      ELSE t \notin Allocated /\ UNCHANGED pool

(* timer_free puts the struct on the pool, or frees it.                    *)
TimerFree(t) ==
    /\ active' = active - 1
    /\ pool' = IF Len(pool) < PoolMax THEN <<t>> \o pool ELSE pool

(* xTimerStart                                                             *)
Start(t, delay, rep) ==
    /\ MayCall
    /\ starts < MaxStarts
    /\ starts' = starts + 1
    /\ TimerAlloc(t)
    /\ deadline' = [deadline EXCEPT ![t] = clock + delay]
    /\ repeat' = [repeat EXCEPT ![t] = rep]
    /\ fired' = [fired EXCEPT ![t] = FALSE]
    /\ life' = [life EXCEPT ![t] = starts + 1]
    /\ heap' = heap \cup {t}
    /\ active' = active + 1
    /\ UNCHANGED <<clock, ready, posted, lpc, crossstops, fires, oncancels, stopped>>

(* Mutant of StopDirect: a timer on the ready list is freed too.           *)
StopDirectFired(t) ==
    /\ t \in heap \cup RangeOf(ready)
    /\ heap' = heap \ {t}
    /\ TimerFree(t)
    /\ stopped' = stopped \cup {life[t]}

(* timer_stop_direct, when it returns xErrno_Ok.                           *)
StopDirect(t) ==
    /\ ~fired[t] /\ t \in heap
    /\ heap' = heap \ {t}
    /\ TimerFree(t)
    /\ stopped' = stopped \cup {life[t]}

(* xTimerStop on the loop thread; when the timer is not on the heap it     *)
(* returns xErrno_InvalidState and changes nothing.                        *)
Stop(t) ==
    /\ MayCall
    /\ StopDirect(t)
    /\ UNCHANGED <<clock, ready, deadline, repeat, fired, life, posted, lpc, starts,
                   crossstops, fires, oncancels>>

(* xTimerStop on another thread, with a handle that is valid at the call   *)
(* (event.h:66), posts the stop ...                                        *)
CrossStop(t) ==
    /\ crossstops < MaxCrossStops
    /\ lpc # "gone"
    /\ t \in heap
    /\ crossstops' = crossstops + 1
    /\ posted' = Append(posted, [timer |-> t, life |-> life[t]])
    /\ UNCHANGED <<clock, heap, ready, pool, deadline, repeat, fired, life, active, lpc,
                   starts, fires, oncancels, stopped>>

(* ... and timer_stop_post carries it out on the loop thread.              *)
StopPost ==
    /\ lpc = "idle" /\ posted # <<>>
    /\ posted' = Tail(posted)
    /\ LET t == Head(posted).timer
       IN  IF ~fired[t] /\ t \in heap
             THEN StopDirect(t)
             ELSE UNCHANGED <<heap, active, pool, stopped>>
    /\ UNCHANGED <<clock, ready, deadline, repeat, fired, life, lpc, starts, crossstops,
                   fires, oncancels>>

(* A list of the given timers in order of deadline.                        *)
ByDeadline(S, s) ==
    /\ Len(s) = Cardinality(S) /\ RangeOf(s) = S
    /\ \A i, j \in DOMAIN s : i < j => deadline[s[i]] <= deadline[s[j]]

(* loop_run_timers pops the expired timers onto the ready list ...         *)
PopExpired ==
    /\ lpc = "idle"
    /\ \E s \in [1 .. Cardinality({t \in heap : deadline[t] <= clock}) -> heap] :
         /\ ByDeadline({t \in heap : deadline[t] <= clock}, s)
         /\ s # <<>>
         /\ ready' = s
         /\ heap' = heap \ RangeOf(s)
         /\ fired' = [t \in Timers |-> fired[t] \/ t \in RangeOf(s)]
    /\ lpc' = "fire"
    /\ UNCHANGED <<clock, pool, deadline, repeat, life, active, posted, starts, crossstops,
                   fires, oncancels, stopped>>

(* Mutant of Rearm: the timer stays marked as fired.                       *)
RearmStillFired(t) ==
    /\ deadline' = [deadline EXCEPT ![t] = @ + repeat[t]]
    /\ heap' = heap \cup {t}
    /\ UNCHANGED <<active, pool, fired>>

Rearm(t) ==
    /\ deadline' = [deadline EXCEPT ![t] = @ + repeat[t]]
    /\ fired' = [fired EXCEPT ![t] = FALSE]
    /\ heap' = heap \cup {t}
    /\ UNCHANGED <<active, pool>>

(* ... and takes them one by one: re-armed or recycled first, then fn is   *)
(* read from the struct and called.  A struct that went back to the        *)
(* allocator may hold anything by then.                                    *)
Fire ==
    /\ lpc = "fire" /\ ready # <<>>
    /\ ready' = Tail(ready)
    /\ LET t == Head(ready)
       IN  /\ IF repeat[t] > 0
                THEN Rearm(t)
                ELSE TimerFree(t) /\ UNCHANGED <<deadline, heap, fired>>
           /\ fires' = [fires EXCEPT ![life[t]] = @ + 1]
           /\ lpc' = IF repeat[t] = 0 /\ Len(pool) = PoolMax THEN "wild" ELSE "callback"
    /\ UNCHANGED <<clock, repeat, life, posted, starts, crossstops, oncancels, stopped>>

(* fn returns.                                                             *)
CallbackReturns ==
    /\ lpc = "callback"
    /\ lpc' = IF ready = <<>> THEN "idle" ELSE "fire"
    /\ UNCHANGED <<clock, heap, ready, pool, deadline, repeat, fired, life, active, posted,
                   starts, crossstops, fires, oncancels, stopped>>

(* timer_heap_destroy and timer_pool_destroy.                              *)
Destroy ==
    /\ lpc = "idle"
    /\ oncancels' = [l \in Lives |->
                       oncancels[l] + Cardinality({t \in heap : life[t] = l})]
    /\ active' = active - Cardinality(heap)
    /\ heap' = {}
    /\ pool' = <<>>
    /\ lpc' = "gone"
    /\ UNCHANGED <<clock, ready, deadline, repeat, fired, life, posted, starts, crossstops,
                   fires, stopped>>

Terminated == lpc = "gone" /\ UNCHANGED vars

Next ==
    \/ Tick
    \/ \E t \in Timers, d \in Delays, r \in Repeats : Start(t, d, r)
    \/ \E t \in Timers : Stop(t) \/ CrossStop(t)
    \/ StopPost \/ PopExpired \/ Fire \/ CallbackReturns \/ Destroy \/ Terminated

Spec == Init /\ [][Next]_vars

-----------------------------------------------------------------------------
(* Properties *)

TypeOK ==
    /\ clock \in 0 .. MaxTime
    /\ heap \subseteq Timers /\ ready \in Seq(Timers) /\ pool \in Seq(Timers)
    /\ deadline \in [Timers -> Nat] /\ repeat \in [Timers -> Nat]
    /\ fired \in [Timers -> BOOLEAN]
    /\ life \in [Timers -> 0 .. MaxStarts]
    /\ active \in Nat
    /\ posted \in Seq([timer : Timers, life : Lives])
    /\ lpc \in {"idle", "fire", "callback", "wild", "gone"}
    /\ starts \in Nat /\ crossstops \in Nat
    /\ fires \in [Lives -> Nat] /\ oncancels \in [Lives -> Nat]
    /\ stopped \subseteq Lives

(* A struct is on the heap, on the ready list or in the pool, once; the    *)
(* pool never outgrows its limit; and a timer on the heap can be stopped:  *)
(* xTimerStop refuses only timers that are about to fire, so that a stop   *)
(* from a callback cannot recycle one the ready list still holds.          *)
TimerOnePlace ==
    /\ Cardinality(heap) + Len(ready) + Len(pool) = Cardinality(Allocated)
    /\ Len(pool) <= PoolMax
    /\ \A t \in heap : ~fired[t]

(* Each pending timer holds one handle, so the loop stays alive exactly    *)
(* while a timer is pending.                                               *)
TimerHandles == active = Cardinality(heap) + Len(ready)

(* Once xTimerStop has returned xErrno_Ok the lifetime never fires again,  *)
(* also when its struct is recycled for another timer.                     *)
StoppedNeverFires ==
    [][\A l \in Lives : l \in stopped => fires'[l] = fires[l] /\ oncancels'[l] = oncancels[l]]_vars

=============================================================================
