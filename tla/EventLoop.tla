----------------------------- MODULE EventLoop -----------------------------
(***************************************************************************)
(* The event loop driver of src/libx/x/base/event_run.c with the epoll     *)
(* backend: xEventLoopRun on the loop thread, xEventLoopPost,              *)
(* xEventLoopWake and xEventLoopStop on any thread, and the coalesced wake *)
(* flag between them.                                                      *)
(*                                                                         *)
(* The done queue is the abstract queue of MpscQueue (which Mpsc is proved *)
(* to implement) with the payloads left out: an entry is the thread whose  *)
(* push has not linked it yet, or Linked.  Deadlines are left out too: the *)
(* timers of the heap expire when they like.                               *)
(*                                                                         *)
(* A callback may call xEventLoopRun again (xpp's PromiseContext::park     *)
(* does, in X_RUN_ONCE mode), so the loop thread is a stack of frames.     *)
(***************************************************************************)
EXTENDS Naturals, Sequences

CONSTANTS
    Threads,      \* threads other than the loop thread
    Linked,       \* a done-queue entry whose push has returned
    BatchMax,     \* EVENT_DONE_BATCH_MAX
    Modes,        \* the run modes the program uses, of AllModes
    HasSource,    \* a registered fd keeps the loop alive
    MaxPosts,     \* bound: posts in a behaviour
    MaxStops,     \* bound: calls of xEventLoopStop
    MaxTimers,    \* bound: timers on the heap
    MaxDepth      \* bound: nested calls of xEventLoopRun

AllModes == {"DEFAULT", "ONCE", "NOWAIT"}

ASSUME LoopAssumption ==
    /\ Linked \notin Threads
    /\ BatchMax \in Nat \ {0}
    /\ Modes \subseteq AllModes
    /\ HasSource \in BOOLEAN
    /\ MaxPosts \in Nat /\ MaxStops \in Nat /\ MaxTimers \in Nat /\ MaxDepth \in Nat

VARIABLES
    q,              \* the done queue, front first
    wake_pending,   \* loop->wake_pending
    wakefd,         \* the eventfd counter is not zero
    stopped,        \* loop->stopped
    timers,         \* timers on the heap
    tpc,            \* what each other thread is about to do
    stack,          \* frames of xEventLoopRun on the loop thread
    posts, stops,   \* bounds used up
    cut             \* history: the last drain stopped at the batch limit

vars == <<q, wake_pending, wakefd, stopped, timers, tpc, stack, posts, stops, cut>>

Front(s) == s[Len(s)]
Running == stack # <<>>
At(pc) == Running /\ Front(stack).pc = pc
Goto(f) == stack' = [stack EXCEPT ![Len(stack)] = f]
Frame == Front(stack)

QueueVisible == q # <<>> /\ Head(q) = Linked

(* loop_alive: handles, timers, done queue.                                *)
Alive(queue, ntimers) ==
    HasSource \/ ntimers > 0 \/ (queue # <<>> /\ Head(queue) = Linked)

Init ==
    /\ q = <<>>
    /\ wake_pending = FALSE
    /\ wakefd = FALSE
    /\ stopped = FALSE
    /\ timers = 0
    /\ tpc = [t \in Threads |-> "idle"]
    /\ stack = <<>>
    /\ posts = 0
    /\ stops = 0
    /\ cut = FALSE

-----------------------------------------------------------------------------
(* The other threads *)

(* xEventLoopPost: the push takes its place in the done queue ...          *)
PostPush(t) ==
    /\ tpc[t] = "idle"
    /\ posts < MaxPosts
    /\ posts' = posts + 1
    /\ q' = Append(q, t)
    /\ tpc' = [tpc EXCEPT ![t] = "link"]
    /\ UNCHANGED <<wake_pending, wakefd, stopped, timers, stack, stops, cut>>

(* Mutant of PostLink: the post forgets to wake the loop.                  *)
PostLinkNoWake(t) ==
    /\ tpc[t] = "link"
    /\ q' = [i \in DOMAIN q |-> IF q[i] = t THEN Linked ELSE q[i]]
    /\ tpc' = [tpc EXCEPT ![t] = "idle"]
    /\ UNCHANGED <<wake_pending, wakefd, stopped, timers, stack, posts, stops, cut>>

(* ... and links its node.                                                 *)
PostLink(t) ==
    /\ tpc[t] = "link"
    /\ q' = [i \in DOMAIN q |-> IF q[i] = t THEN Linked ELSE q[i]]
    /\ tpc' = [tpc EXCEPT ![t] = "wake"]
    /\ UNCHANGED <<wake_pending, wakefd, stopped, timers, stack, posts, stops, cut>>

(* xEventLoopWake: only the first wake since the flag was cleared writes.  *)
Wake(t) ==
    /\ tpc[t] = "wake"
    /\ wake_pending' = TRUE
    /\ tpc' = [tpc EXCEPT ![t] = IF wake_pending THEN "idle" ELSE "write"]
    /\ UNCHANGED <<q, wakefd, stopped, timers, stack, posts, stops, cut>>

(* ep_wake *)
WriteWake(t) ==
    /\ tpc[t] = "write"
    /\ wakefd' = TRUE
    /\ tpc' = [tpc EXCEPT ![t] = "idle"]
    /\ UNCHANGED <<q, wake_pending, stopped, timers, stack, posts, stops, cut>>

(* Mutant of Stop: the flag alone.                                         *)
StopNoWake(t) ==
    /\ tpc[t] = "idle"
    /\ stops < MaxStops
    /\ stops' = stops + 1
    /\ stopped' = TRUE
    /\ UNCHANGED <<q, wake_pending, wakefd, timers, tpc, stack, posts, cut>>

(* xEventLoopStop: the flag, then a wake that is never coalesced.          *)
Stop(t) ==
    /\ tpc[t] = "idle"
    /\ stops < MaxStops
    /\ stops' = stops + 1
    /\ stopped' = TRUE
    /\ tpc' = [tpc EXCEPT ![t] = "write"]
    /\ UNCHANGED <<q, wake_pending, wakefd, timers, stack, posts, cut>>

-----------------------------------------------------------------------------
(* The loop thread *)

NewFrame(mode, queue) ==
    [pc |-> IF mode = "DEFAULT" /\ Alive(queue, timers) /\ ~stopped THEN "pretimers" ELSE "top",
     mode |-> mode, alive |-> Alive(queue, timers), cansleep |-> FALSE, tmo |-> "none", n |-> 0,
     seen |-> FALSE]

(* xEventLoopRun is called from outside any callback.                      *)
Run(mode) ==
    /\ ~Running
    /\ stack' = <<NewFrame(mode, q)>>
    /\ UNCHANGED <<q, wake_pending, wakefd, stopped, timers, tpc, posts, stops, cut>>

(* loop_run_timers before the first iteration of X_RUN_DEFAULT.            *)
PreTimers ==
    /\ At("pretimers")
    /\ timers' \in 0 .. timers
    /\ Goto([Frame EXCEPT !.pc = "top"])
    /\ UNCHANGED <<q, wake_pending, wakefd, stopped, tpc, posts, stops, cut>>

(* The loop condition, and the peek at the done queue.                     *)
Top ==
    /\ At("top")
    /\ Goto(IF Frame.alive /\ ~stopped
              THEN [Frame EXCEPT !.pc = "done1", !.cansleep = ~QueueVisible, !.n = 0]
              ELSE [Frame EXCEPT !.pc = "exit"])
    /\ UNCHANGED <<q, wake_pending, wakefd, stopped, timers, tpc, posts, stops, cut>>

DonePcs == {"done1", "done2", "done3"}
Draining == Running /\ Frame.pc \in DonePcs

(* One callback of loop_run_done, up to BatchMax of them.                  *)
RunItem ==
    /\ Draining
    /\ Frame.n < BatchMax
    /\ QueueVisible
    /\ Goto([Frame EXCEPT !.n = @ + 1, !.seen = TRUE])

Callback ==
    /\ RunItem
    /\ q' = Tail(q)
    /\ UNCHANGED <<wake_pending, wakefd, stopped, timers, tpc, posts, stops, cut>>

(* xEventLoopWake on the loop thread.                                      *)
LoopWake ==
    /\ wake_pending' = TRUE
    /\ wakefd' = (wakefd \/ ~wake_pending)

(* The callback posts another one.                                         *)
CallbackPosts ==
    /\ RunItem
    /\ posts < MaxPosts
    /\ posts' = posts + 1
    /\ q' = Append(Tail(q), Linked)
    /\ LoopWake
    /\ UNCHANGED <<stopped, timers, tpc, stops, cut>>

(* The callback starts a timer (submit_timer wakes the loop).              *)
CallbackStartsTimer ==
    /\ RunItem
    /\ timers < MaxTimers
    /\ timers' = timers + 1
    /\ q' = Tail(q)
    /\ LoopWake
    /\ UNCHANGED <<stopped, tpc, posts, stops, cut>>

(* The callback stops the loop.                                            *)
CallbackStops ==
    /\ RunItem
    /\ stops < MaxStops
    /\ stops' = stops + 1
    /\ stopped' = TRUE
    /\ wakefd' = TRUE
    /\ q' = Tail(q)
    /\ UNCHANGED <<wake_pending, timers, tpc, posts, cut>>

(* The callback awaits: it runs one iteration of the loop of its own.  The *)
(* node was popped before the call.                                        *)
CallbackNests ==
    /\ Draining
    /\ Frame.n < BatchMax
    /\ QueueVisible
    /\ Len(stack) < MaxDepth
    /\ q' = Tail(q)
    /\ stack' = Append([stack EXCEPT ![Len(stack)] = [Frame EXCEPT !.n = @ + 1, !.seen = TRUE]],
                       NewFrame("ONCE", Tail(q)))
    /\ UNCHANGED <<wake_pending, wakefd, stopped, timers, tpc, posts, stops, cut>>

(* loop_next_timeout *)
NextTimeout(f) ==
    CASE f.mode = "NOWAIT" -> "zero"
      [] f.mode = "ONCE" /\ ~f.cansleep -> "zero"
      [] OTHER -> IF timers > 0 THEN "timer"
                  ELSE IF f.mode = "ONCE" THEN "zero" ELSE "forever"

(* The end of loop_run_done: the queue looks empty, or the batch is full.  *)
DrainEnds ==
    /\ Draining
    /\ ~QueueVisible \/ Frame.n = BatchMax
    /\ cut' = (QueueVisible /\ Frame.n = BatchMax)
    /\ Goto(CASE Frame.pc = "done1" -> [Frame EXCEPT !.pc = "wait", !.tmo = NextTimeout(Frame)]
              [] Frame.pc = "done2" -> [Frame EXCEPT !.pc = "done3", !.n = 0]
              [] OTHER -> [Frame EXCEPT !.pc = "timers"])
    /\ UNCHANGED <<q, wake_pending, wakefd, stopped, timers, tpc, posts, stops>>

(* epoll_wait reports the eventfd ...                                      *)
PollWake ==
    /\ At("wait")
    /\ wakefd
    /\ Goto([Frame EXCEPT !.pc = "drain", !.seen = TRUE])
    /\ UNCHANGED <<q, wake_pending, wakefd, stopped, timers, tpc, posts, stops, cut>>

(* ... or other descriptors only ...                                       *)
PollIo ==
    /\ At("wait")
    /\ HasSource
    /\ ~wakefd
    /\ Goto([Frame EXCEPT !.pc = "done3", !.n = 0, !.seen = TRUE])
    /\ UNCHANGED <<q, wake_pending, wakefd, stopped, timers, tpc, posts, stops, cut>>

(* ... or nothing, when the timeout has passed.                            *)
PollTimeout ==
    /\ At("wait")
    /\ Frame.tmo # "forever"
    /\ ~wakefd
    /\ Goto([Frame EXCEPT !.pc = "done3", !.n = 0])
    /\ UNCHANGED <<q, wake_pending, wakefd, stopped, timers, tpc, posts, stops, cut>>

(* ep_poll reads the eventfd, ...                                          *)
DrainWake ==
    /\ At("drain")
    /\ wakefd' = FALSE
    /\ Goto([Frame EXCEPT !.pc = "clear"])
    /\ UNCHANGED <<q, wake_pending, stopped, timers, tpc, posts, stops, cut>>

(* Mutant of ClearWakePending: the flag is never reset.                    *)
ClearWakePendingNever ==
    /\ At("clear")
    /\ Goto([Frame EXCEPT !.pc = "done2", !.n = 0])
    /\ UNCHANGED <<q, wake_pending, wakefd, stopped, timers, tpc, posts, stops, cut>>

(* ... clears the pending flag, and drains the done queue.                 *)
ClearWakePending ==
    /\ At("clear")
    /\ wake_pending' = FALSE
    /\ Goto([Frame EXCEPT !.pc = "done2", !.n = 0])
    /\ UNCHANGED <<q, wakefd, stopped, timers, tpc, posts, stops, cut>>

(* loop_run_timers, loop_sweep and the second look at loop_alive.          *)
RunTimers ==
    /\ At("timers")
    /\ \E left \in 0 .. timers :
         /\ timers' = left
         /\ Goto([Frame EXCEPT
                    !.pc = IF Frame.mode = "DEFAULT" THEN "top" ELSE "exit",
                    !.alive = Alive(q, left),
                    !.seen = @ \/ left < timers])
    /\ UNCHANGED <<q, wake_pending, wakefd, stopped, tpc, posts, stops, cut>>

(* xEventLoopRun resets the stop flag and returns.                         *)
Return ==
    /\ At("exit")
    /\ stopped' = FALSE
    /\ stack' = SubSeq(stack, 1, Len(stack) - 1)
    /\ UNCHANGED <<q, wake_pending, wakefd, timers, tpc, posts, stops, cut>>

-----------------------------------------------------------------------------
ThreadStep(t) == PostPush(t) \/ PostLink(t) \/ Wake(t) \/ WriteWake(t) \/ Stop(t)

LoopStep ==
    \/ PreTimers \/ Top
    \/ Callback \/ CallbackPosts \/ CallbackStartsTimer \/ CallbackStops \/ CallbackNests
    \/ DrainEnds
    \/ PollWake \/ PollTimeout
    \/ DrainWake \/ ClearWakePending
    \/ RunTimers \/ Return

Next ==
    \/ \E t \in Threads : ThreadStep(t)
    \/ \E mode \in Modes : Run(mode)
    \/ LoopStep
    \/ PollIo

Spec == Init /\ [][Next]_vars

(* The loop thread keeps running, time passes (a poll with a timeout ends) *)
(* and a thread that has begun a post or a stop finishes it.  Descriptors  *)
(* need never become ready, nobody need ever post.                         *)
Fairness ==
    /\ WF_vars(LoopStep)
    /\ WF_vars(\E mode \in Modes : Run(mode))
    /\ \A t \in Threads : WF_vars(PostLink(t) \/ Wake(t) \/ WriteWake(t))

FairSpec == Spec /\ Fairness

-----------------------------------------------------------------------------
(* Properties *)

LoopPcs == {"pretimers", "top", "done1", "wait", "drain", "clear", "done2", "done3",
            "timers", "exit"}
Frames == [pc : LoopPcs, mode : AllModes, alive : BOOLEAN, cansleep : BOOLEAN,
           tmo : {"none", "zero", "timer", "forever"}, n : 0 .. BatchMax, seen : BOOLEAN]

TypeOK ==
    /\ q \in Seq(Threads \cup {Linked})
    /\ wake_pending \in BOOLEAN /\ wakefd \in BOOLEAN /\ stopped \in BOOLEAN
    /\ timers \in Nat
    /\ tpc \in [Threads -> {"idle", "link", "wake", "write"}]
    /\ stack \in Seq(Frames)
    /\ posts \in Nat /\ stops \in Nat
    /\ cut \in BOOLEAN

(* The pending flag never outlives its wake: while it is set, the eventfd  *)
(* is readable, or a thread is about to write it, or the loop is about to  *)
(* clear it.  A flag left set would silence every later wake.              *)
WakeNotLost ==
    wake_pending => \/ wakefd
                    \/ \E t \in Threads : tpc[t] = "write"
                    \/ At("clear")

Blocked == At("wait") /\ Frame.tmo = "forever" /\ ~wakefd

(* A post never waits for a sleeping loop: when the loop blocks without a  *)
(* timeout over a non-empty done queue, a posting thread is still about to *)
(* wake it, or the last drain stopped at the batch limit.                  *)
NoLostPost ==
    (Blocked /\ q # <<>> /\ ~cut) => \E t \in Threads : tpc[t] # "idle"

(* xEventLoopStop makes the outermost xEventLoopRun return.                *)
StopReturns == stopped ~> ~Running

(* event.h:311-312: a posted callback "will be dispatched during the next  *)
(* iteration": the done queue does not stay non-empty.                     *)
PostsRun == q # <<>> ~> q = <<>>

=============================================================================
