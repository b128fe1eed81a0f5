--------------------------- MODULE EventLoopProof ---------------------------
(***************************************************************************)
(* For any number of threads, posts, stops, timers and nested calls, and   *)
(* any batch limit: the pending flag never outlives its wake, and no post  *)
(* is lost to a sleeping loop.                                             *)
(***************************************************************************)
EXTENDS EventLoop, SequenceTheorems, TLAPS

(* A frame other than the innermost is inside a callback of loop_run_done. *)
OuterDrains == \A i \in 1 .. Len(stack) - 1 : stack[i].pc \in DonePcs

(* An unlinked entry of the done queue belongs to a push under way.        *)
StalledHasOwner == \A i \in DOMAIN q : q[i] \in Threads => tpc[q[i]] = "link"

(* At the poll, a post not yet dispatched is announced or cut off.         *)
PollAnnounced ==
    (At("wait") /\ q # <<>> /\ ~cut) => (wakefd \/ \E t \in Threads : tpc[t] # "idle")

IInv == TypeOK /\ WakeNotLost /\ OuterDrains /\ StalledHasOwner /\ PollAnnounced

USE DEF Front, Running

(* Replacing the innermost frame.                                          *)
LEMMA GotoFrame ==
    ASSUME stack \in Seq(Frames), Running, NEW f \in Frames, Goto(f)
    PROVE  /\ stack' \in Seq(Frames)
           /\ stack' # <<>> /\ Len(stack') = Len(stack)
           /\ stack'[Len(stack')] = f
           /\ \A i \in 1 .. Len(stack) - 1 : stack'[i] = stack[i]
  BY DEF Goto

LEMMA FrameType ==
    ASSUME stack \in Seq(Frames), Running
    PROVE  Frame \in Frames /\ Len(stack) \in Nat \ {0}
  BY DEF Frame

LEMMA NewFrameType ==
    ASSUME NEW mode \in AllModes, NEW s
    PROVE  NewFrame(mode, s) \in Frames /\ NewFrame(mode, s).pc \in {"pretimers", "top"}
  BY LoopAssumption DEF NewFrame, Frames, LoopPcs, Alive

LEMMA TailEntries ==
    ASSUME NEW S, NEW s \in Seq(S), s # <<>>
    PROVE  /\ Tail(s) \in Seq(S)
           /\ Len(Tail(s)) = Len(s) - 1
           /\ \A i \in 1 .. Len(s) - 1 : Tail(s)[i] = s[i + 1]
  OBVIOUS

LEMMA DropLast ==
    ASSUME NEW S, NEW s \in Seq(S), s # <<>>
    PROVE  LET r == SubSeq(s, 1, Len(s) - 1)
           IN  /\ r \in Seq(S) /\ Len(r) = Len(s) - 1
               /\ \A i \in 1 .. Len(s) - 1 : r[i] = s[i]
  <1>1. Len(s) - 1 \in Nat /\ \A i \in 1 .. Len(s) - 1 : s[i] \in S
    OBVIOUS
  <1> DEFINE n == Len(s) - 1
  <1> HIDE DEF n
  <1>2. n \in Nat /\ \A i \in 1 .. n : s[i] \in S
    BY <1>1 DEF n
  <1>3. /\ SubSeq(s, 1, n) \in Seq(S)
        /\ Len(SubSeq(s, 1, n)) = IF 1 <= n THEN n - 1 + 1 ELSE 0
        /\ \A i \in 1 .. n - 1 + 1 : SubSeq(s, 1, n)[i] = s[1 + i - 1]
    BY <1>2, SubSeqProperties
  <1>4. Len(SubSeq(s, 1, n)) = n /\ \A i \in 1 .. n : SubSeq(s, 1, n)[i] = s[i]
    BY <1>2, <1>3
  <1>5. QED
    BY <1>3, <1>4 DEF n

LEMMA InitIInv == Init => IInv
  <1> SUFFICES ASSUME Init PROVE IInv
    OBVIOUS
  <1>0. q \in Seq(Threads \cup {Linked}) /\ stack \in Seq(Frames)
    BY DEF Init
  <1>1. TypeOK
    BY Zenon, <1>0 DEF Init, TypeOK
  <1>2. WakeNotLost
    BY DEF Init, WakeNotLost
  <1>3. OuterDrains
    BY DEF Init, OuterDrains
  <1>4. StalledHasOwner
    BY DEF Init, StalledHasOwner
  <1>5. PollAnnounced
    BY DEF Init, PollAnnounced
  <1>6. QED
    BY <1>1, <1>2, <1>3, <1>4, <1>5 DEF IInv

LEMMA PostPushKeeps == ASSUME IInv, NEW t \in Threads, PostPush(t) PROVE IInv'
  <1>1. TypeOK'
    BY DEF IInv, TypeOK, PostPush
  <1>2. WakeNotLost'
    BY DEF IInv, TypeOK, PostPush, WakeNotLost, At
  <1>3. OuterDrains'
    BY DEF IInv, PostPush, OuterDrains
  <1>4. StalledHasOwner'
    BY DEF IInv, TypeOK, PostPush, StalledHasOwner
  <1>5. PollAnnounced'
    BY DEF IInv, TypeOK, PostPush, PollAnnounced
  <1>6. QED
    BY <1>1, <1>2, <1>3, <1>4, <1>5 DEF IInv

LEMMA PostLinkKeeps == ASSUME IInv, NEW t \in Threads, PostLink(t) PROVE IInv'
  <1>0. /\ q' \in Seq(Threads \cup {Linked})
        /\ DOMAIN q' = DOMAIN q
        /\ \A i \in DOMAIN q : q'[i] = IF q[i] = t THEN Linked ELSE q[i]
    BY DEF IInv, TypeOK, PostLink
  <1>1. TypeOK'
    BY <1>0 DEF IInv, TypeOK, PostLink
  <1>2. WakeNotLost'
    BY DEF IInv, TypeOK, PostLink, WakeNotLost, At
  <1>3. OuterDrains'
    BY DEF IInv, PostLink, OuterDrains
  <1>4. StalledHasOwner'
    BY <1>0, LoopAssumption DEF IInv, TypeOK, PostLink, StalledHasOwner
  <1>5. PollAnnounced'
    BY DEF IInv, TypeOK, PostLink, PollAnnounced
  <1>6. QED
    BY <1>1, <1>2, <1>3, <1>4, <1>5 DEF IInv

LEMMA WakeKeeps == ASSUME IInv, NEW t \in Threads, Wake(t) PROVE IInv'
  <1>1. TypeOK'
    BY DEF IInv, TypeOK, Wake
  <1>2. WakeNotLost'
    BY DEF IInv, TypeOK, Wake, WakeNotLost, At
  <1>3. OuterDrains'
    BY DEF IInv, Wake, OuterDrains
  <1>4. StalledHasOwner'
    BY DEF IInv, TypeOK, Wake, StalledHasOwner
  <1>5. PollAnnounced'
    <2>1. At("wait") => ~At("clear")
      BY DEF At
    <2>2. QED
      BY <1>2, <2>1 DEF IInv, TypeOK, Wake, WakeNotLost, PollAnnounced, At
  <1>6. QED
    BY <1>1, <1>2, <1>3, <1>4, <1>5 DEF IInv

LEMMA WriteWakeKeeps == ASSUME IInv, NEW t \in Threads, WriteWake(t) PROVE IInv'
  <1>1. TypeOK'
    BY DEF IInv, TypeOK, WriteWake
  <1>2. WakeNotLost'
    BY DEF WriteWake, WakeNotLost
  <1>3. OuterDrains'
    BY DEF IInv, WriteWake, OuterDrains
  <1>4. StalledHasOwner'
    BY DEF IInv, TypeOK, WriteWake, StalledHasOwner
  <1>5. PollAnnounced'
    BY DEF WriteWake, PollAnnounced
  <1>6. QED
    BY <1>1, <1>2, <1>3, <1>4, <1>5 DEF IInv

LEMMA StopKeeps == ASSUME IInv, NEW t \in Threads, Stop(t) PROVE IInv'
  <1>1. TypeOK'
    BY DEF IInv, TypeOK, Stop
  <1>2. WakeNotLost'
    BY DEF IInv, TypeOK, Stop, WakeNotLost, At
  <1>3. OuterDrains'
    BY DEF IInv, Stop, OuterDrains
  <1>4. StalledHasOwner'
    BY DEF IInv, TypeOK, Stop, StalledHasOwner
  <1>5. PollAnnounced'
    BY DEF IInv, TypeOK, Stop, PollAnnounced
  <1>6. QED
    BY <1>1, <1>2, <1>3, <1>4, <1>5 DEF IInv
-----------------------------------------------------------------------------
(* The loop thread.  A step that replaces the innermost frame and leaves   *)
(* the queue, the flag and the eventfd alone.                              *)
LEMMA QuietStep ==
    ASSUME IInv, Running, Frame.pc # "clear", NEW f \in Frames, f.pc # "wait", Goto(f),
           UNCHANGED <<q, wake_pending, wakefd, stopped, tpc, posts, stops>>,
           timers' \in Nat, cut' \in BOOLEAN
    PROVE  IInv'
  <1>1. /\ stack' \in Seq(Frames) /\ stack' # <<>> /\ Len(stack') = Len(stack)
        /\ stack'[Len(stack')] = f
        /\ \A i \in 1 .. Len(stack) - 1 : stack'[i] = stack[i]
    BY GotoFrame DEF IInv, TypeOK
  <1>2. TypeOK'
    BY <1>1 DEF IInv, TypeOK
  <1>3. WakeNotLost'
    BY <1>1 DEF IInv, WakeNotLost, At, Frame
  <1>4. OuterDrains'
    BY <1>1 DEF IInv, OuterDrains
  <1>5. StalledHasOwner'
    BY DEF IInv, StalledHasOwner
  <1>6. PollAnnounced'
    BY <1>1 DEF PollAnnounced, At
  <1>7. QED
    BY <1>2, <1>3, <1>4, <1>5, <1>6 DEF IInv

(* The frames a step may leave behind.                                     *)
LEMMA Updates ==
    ASSUME NEW g \in Frames, NEW b \in BOOLEAN
    PROVE  /\ [g EXCEPT !.pc = "done3", !.n = 0, !.seen = TRUE] \in Frames
           /\ [g EXCEPT !.pc = "done3", !.n = 0, !.seen = TRUE].pc = "done3"
           /\ [g EXCEPT !.pc = "done3", !.n = 0] \in Frames
           /\ [g EXCEPT !.pc = "done3", !.n = 0].pc = "done3"
           /\ [g EXCEPT !.pc = "done2", !.n = 0] \in Frames
           /\ [g EXCEPT !.pc = "done2", !.n = 0].pc = "done2"
           /\ [g EXCEPT !.pc = "done1", !.cansleep = b, !.n = 0] \in Frames
           /\ [g EXCEPT !.pc = "done1", !.cansleep = b, !.n = 0].pc = "done1"
           /\ [g EXCEPT !.pc = "exit"] \in Frames
           /\ [g EXCEPT !.pc = "exit"].pc = "exit"
  <1>1. 0 \in 0 .. BatchMax
    BY LoopAssumption
  <1>2. [g EXCEPT !.pc = "done3", !.n = 0, !.seen = TRUE] \in Frames
    BY Zenon, <1>1 DEF Frames, LoopPcs
  <1>3. [g EXCEPT !.pc = "done3", !.n = 0] \in Frames
    BY Zenon, <1>1 DEF Frames, LoopPcs
  <1>4. [g EXCEPT !.pc = "done2", !.n = 0] \in Frames
    BY Zenon, <1>1 DEF Frames, LoopPcs
  <1>5. [g EXCEPT !.pc = "done1", !.cansleep = b, !.n = 0] \in Frames
    BY Zenon, <1>1 DEF Frames, LoopPcs
  <1>6. [g EXCEPT !.pc = "exit"] \in Frames
    BY DEF Frames, LoopPcs
  <1>7. QED
    BY <1>2, <1>3, <1>4, <1>5, <1>6 DEF Frames

LEMMA PreTimersKeeps == ASSUME IInv, PreTimers PROVE IInv'
  <1>1. Running /\ Frame \in Frames /\ Frame.pc = "pretimers"
    BY FrameType DEF PreTimers, At, IInv, TypeOK, Frame
  <1>2. PICK f \in Frames : f.pc # "wait" /\ Goto(f)
    BY <1>1 DEF Frames, LoopPcs, PreTimers
  <1>3. timers' \in Nat /\ cut' \in BOOLEAN
    BY DEF PreTimers, IInv, TypeOK
  <1>4. QED
    BY <1>1, <1>2, <1>3, QuietStep DEF PreTimers

LEMMA TopKeeps == ASSUME IInv, Top PROVE IInv'
  <1>1. Running /\ Frame \in Frames /\ Frame.pc = "top"
    BY FrameType DEF Top, At, IInv, TypeOK, Frame
  <1>2. QueueVisible \in BOOLEAN
    BY SMTT(30) DEF QueueVisible
  <1>4. PICK f \in Frames : f.pc # "wait" /\ Goto(f)
    BY Zenon, <1>1, <1>2, Updates DEF Top
  <1>5. timers' \in Nat /\ cut' \in BOOLEAN
    BY DEF Top, IInv, TypeOK
  <1>6. QED
    BY <1>1, <1>4, <1>5, QuietStep DEF Top

LEMMA PollWakeKeeps == ASSUME IInv, PollWake PROVE IInv'
  <1>1. Running /\ Frame \in Frames /\ Frame.pc = "wait"
    BY FrameType DEF PollWake, At, IInv, TypeOK, Frame
  <1>2. PICK f \in Frames : f.pc # "wait" /\ Goto(f)
    BY Zenon, <1>1 DEF Frames, LoopPcs, PollWake
  <1>3. timers' \in Nat /\ cut' \in BOOLEAN
    BY DEF PollWake, IInv, TypeOK
  <1>4. QED
    BY <1>1, <1>2, <1>3, QuietStep DEF PollWake

LEMMA PollIoKeeps == ASSUME IInv, PollIo PROVE IInv'
  <1>1. Running /\ Frame \in Frames /\ Frame.pc = "wait"
    BY FrameType DEF PollIo, At, IInv, TypeOK, Frame
  <1>2. PICK f \in Frames : f.pc # "wait" /\ Goto(f)
    BY Zenon, <1>1, Updates DEF PollIo
  <1>3. timers' \in Nat /\ cut' \in BOOLEAN
    BY DEF PollIo, IInv, TypeOK
  <1>4. QED
    BY <1>1, <1>2, <1>3, QuietStep DEF PollIo

LEMMA PollTimeoutKeeps == ASSUME IInv, PollTimeout PROVE IInv'
  <1>1. Running /\ Frame \in Frames /\ Frame.pc = "wait"
    BY SMTT(30), FrameType DEF PollTimeout, At, IInv, TypeOK, Frame
  <1>2. PICK f \in Frames : f.pc # "wait" /\ Goto(f)
    BY Zenon, <1>1, Updates DEF PollTimeout
  <1>3. timers' \in Nat /\ cut' \in BOOLEAN
    BY DEF PollTimeout, IInv, TypeOK
  <1>4. QED
    BY <1>1, <1>2, <1>3, QuietStep DEF PollTimeout

LEMMA RunTimersKeeps == ASSUME IInv, RunTimers PROVE IInv'
  <1>1. Running /\ Frame \in Frames /\ Frame.pc = "timers"
    BY SMTT(30), FrameType DEF RunTimers, At, IInv, TypeOK, Frame
  <1>2. PICK left \in 0 .. timers :
          /\ timers' = left
          /\ Goto([Frame EXCEPT
                     !.pc = IF Frame.mode = "DEFAULT" THEN "top" ELSE "exit",
                     !.alive = Alive(q, left),
                     !.seen = @ \/ left < timers])
    BY Zenon DEF RunTimers
  <1>3. Alive(q, left) \in BOOLEAN /\ (Frame.seen \/ left < timers) \in BOOLEAN
    BY DEF Alive
  <1>4. PICK f \in Frames : f.pc # "wait" /\ Goto(f)
    BY Zenon, <1>1, <1>2, <1>3 DEF Frames, LoopPcs
  <1>5. timers' \in Nat /\ cut' \in BOOLEAN
    BY <1>2 DEF RunTimers, IInv, TypeOK
  <1>6. QED
    BY <1>1, <1>4, <1>5, QuietStep DEF RunTimers

(* Before the poll the queue is empty, cut off, or its front is a push     *)
(* under way, whose thread is not idle.                                    *)
LEMMA DrainEndsKeeps == ASSUME IInv, DrainEnds PROVE IInv'
  <1>1. Running /\ Frame \in Frames /\ Frame.pc \in DonePcs
    BY FrameType DEF DrainEnds, Draining, IInv, TypeOK
  <1>2. timers' \in Nat /\ cut' \in BOOLEAN
    BY DEF DrainEnds, QueueVisible, IInv, TypeOK
  <1>3. CASE Frame.pc = "done1"
    <2> DEFINE f == [Frame EXCEPT !.pc = "wait", !.tmo = NextTimeout(Frame)]
    <2>1. NextTimeout(Frame) \in {"none", "zero", "timer", "forever"}
      BY DEF NextTimeout
    <2>2. f \in Frames /\ f.pc = "wait"
      BY Zenon, <1>1, <2>1 DEF Frames, LoopPcs
    <2>3. Goto(f)
      BY <1>3 DEF DrainEnds
    <2> HIDE DEF f
    <2>4. /\ stack' \in Seq(Frames) /\ stack' # <<>> /\ Len(stack') = Len(stack)
          /\ stack'[Len(stack')] = f
          /\ \A i \in 1 .. Len(stack) - 1 : stack'[i] = stack[i]
      BY <1>1, <2>2, <2>3, GotoFrame DEF IInv, TypeOK
    <2>5. TypeOK'
      BY <1>2, <2>4 DEF IInv, TypeOK, DrainEnds
    <2>6. WakeNotLost'
      BY <1>3, <2>4 DEF IInv, WakeNotLost, At, Frame, DrainEnds
    <2>7. OuterDrains'
      BY <2>4 DEF IInv, OuterDrains
    <2>8. StalledHasOwner'
      BY DEF IInv, StalledHasOwner, DrainEnds
    <2>9. PollAnnounced'
      <3>1. (q # <<>> /\ ~QueueVisible) => 1 \in DOMAIN q /\ q[1] \in Threads
        BY DEF IInv, TypeOK, QueueVisible
      <3>2. (q # <<>> /\ ~QueueVisible) => \E t \in Threads : tpc[t] # "idle"
        BY <3>1 DEF IInv, StalledHasOwner
      <3>3. QueueVisible => cut'
        BY Zenon DEF DrainEnds
      <3>4. UNCHANGED <<q, tpc>>
        BY DEF DrainEnds
      <3>5. QED
        BY <3>2, <3>3, <3>4 DEF PollAnnounced
    <2>10. QED
      BY <2>5, <2>6, <2>7, <2>8, <2>9 DEF IInv
  <1>4. CASE Frame.pc = "done2"
    <2>1. PICK f \in Frames : f.pc # "wait" /\ Goto(f)
      BY Zenon, <1>1, <1>4, Updates DEF DrainEnds
    <2>2. QED
      BY <1>1, <1>2, <1>4, <2>1, QuietStep DEF DrainEnds
  <1>5. CASE Frame.pc = "done3"
    <2>1. PICK f \in Frames : f.pc # "wait" /\ Goto(f)
      BY <1>1, <1>5 DEF DrainEnds, Frames, LoopPcs
    <2>2. QED
      BY <1>1, <1>2, <1>5, <2>1, QuietStep DEF DrainEnds
  <1>6. QED
    BY <1>1, <1>3, <1>4, <1>5 DEF DonePcs

LEMMA DrainWakeKeeps == ASSUME IInv, DrainWake PROVE IInv'
  <1>1. Running /\ Frame \in Frames
    BY FrameType DEF DrainWake, At, IInv, TypeOK
  <1>2. PICK f \in Frames : f.pc = "clear" /\ Goto(f)
    BY <1>1 DEF Frames, LoopPcs, DrainWake
  <1>3. /\ stack' \in Seq(Frames) /\ stack' # <<>> /\ Len(stack') = Len(stack)
        /\ stack'[Len(stack')] = f
        /\ \A i \in 1 .. Len(stack) - 1 : stack'[i] = stack[i]
    BY <1>1, <1>2, GotoFrame DEF IInv, TypeOK
  <1>4. TypeOK'
    BY Zenon, <1>3 DEF IInv, TypeOK, DrainWake
  <1>5. WakeNotLost'
    BY <1>2, <1>3 DEF WakeNotLost, At
  <1>6. OuterDrains'
    BY <1>3 DEF IInv, OuterDrains
  <1>7. StalledHasOwner'
    BY DEF IInv, StalledHasOwner, DrainWake
  <1>8. PollAnnounced'
    BY <1>2, <1>3 DEF PollAnnounced, At
  <1>9. QED
    BY <1>4, <1>5, <1>6, <1>7, <1>8 DEF IInv

LEMMA ClearWakePendingKeeps == ASSUME IInv, ClearWakePending PROVE IInv'
  <1>1. Running /\ Frame \in Frames
    BY FrameType DEF ClearWakePending, At, IInv, TypeOK
  <1>2. PICK f \in Frames : f.pc = "done2" /\ Goto(f)
    BY Zenon, <1>1, Updates DEF ClearWakePending
  <1>3. /\ stack' \in Seq(Frames) /\ stack' # <<>> /\ Len(stack') = Len(stack)
        /\ stack'[Len(stack')] = f
        /\ \A i \in 1 .. Len(stack) - 1 : stack'[i] = stack[i]
    BY <1>1, <1>2, GotoFrame DEF IInv, TypeOK
  <1>4. TypeOK'
    BY Zenon, <1>3 DEF IInv, TypeOK, ClearWakePending
  <1>5. WakeNotLost'
    BY DEF WakeNotLost, ClearWakePending
  <1>6. OuterDrains'
    BY <1>3 DEF IInv, OuterDrains
  <1>7. StalledHasOwner'
    BY DEF IInv, StalledHasOwner, ClearWakePending
  <1>8. PollAnnounced'
    BY <1>2, <1>3 DEF PollAnnounced, At
  <1>9. QED
    BY <1>4, <1>5, <1>6, <1>7, <1>8 DEF IInv

-----------------------------------------------------------------------------
(* Callbacks.  Taking the front of the queue keeps owners of the rest.     *)
LEMMA TailOwned ==
    ASSUME IInv, QueueVisible
    PROVE  /\ Tail(q) \in Seq(Threads \cup {Linked})
           /\ Append(Tail(q), Linked) \in Seq(Threads \cup {Linked})
           /\ \A i \in DOMAIN Tail(q) : Tail(q)[i] \in Threads => tpc[Tail(q)[i]] = "link"
           /\ \A i \in DOMAIN Append(Tail(q), Linked) :
                Append(Tail(q), Linked)[i] \in Threads => tpc[Append(Tail(q), Linked)[i]] = "link"
  <1>1. /\ Tail(q) \in Seq(Threads \cup {Linked})
        /\ Len(Tail(q)) = Len(q) - 1
        /\ \A i \in 1 .. Len(q) - 1 : Tail(q)[i] = q[i + 1]
    BY TailEntries DEF IInv, TypeOK, QueueVisible
  <1>2. \A i \in DOMAIN Tail(q) : Tail(q)[i] \in Threads => tpc[Tail(q)[i]] = "link"
    BY <1>1 DEF IInv, TypeOK, StalledHasOwner
  <1> DEFINE tl == Tail(q)
  <1> HIDE DEF tl
  <1>3. tl \in Seq(Threads \cup {Linked}) /\ \A i \in DOMAIN tl : tl[i] \in Threads => tpc[tl[i]] = "link"
    BY <1>1, <1>2 DEF tl
  <1>4. \A i \in DOMAIN Append(tl, Linked) :
          Append(tl, Linked)[i] \in Threads => tpc[Append(tl, Linked)[i]] = "link"
    BY <1>3, LoopAssumption
  <1>5. Append(tl, Linked) \in Seq(Threads \cup {Linked})
    BY <1>3
  <1>6. QED
    BY <1>1, <1>2, <1>4, <1>5 DEF tl

LEMMA ItemFrame ==
    ASSUME IInv, RunItem
    PROVE  /\ Running /\ Frame.pc \in DonePcs
           /\ \E f \in Frames : f.pc = Frame.pc /\ Goto(f)
  <1>1. Running /\ Frame \in Frames /\ Frame.pc \in DonePcs
    BY FrameType DEF RunItem, Draining, IInv, TypeOK
  <1>2. Frame.n + 1 \in 0 .. BatchMax
    BY <1>1, LoopAssumption DEF RunItem, Frames
  <1>3. [Frame EXCEPT !.n = @ + 1, !.seen = TRUE] \in Frames
    BY Zenon, <1>1, <1>2 DEF Frames
  <1>4. [Frame EXCEPT !.n = @ + 1, !.seen = TRUE].pc = Frame.pc
    BY <1>1 DEF Frames
  <1>5. QED
    BY Zenon, <1>1, <1>3, <1>4 DEF RunItem

(* A callback that changes the queue as above and never hides a wake.      *)
LEMMA ItemStep ==
    ASSUME IInv, RunItem, UNCHANGED tpc, cut' = cut,
           q' = Tail(q) \/ q' = Append(Tail(q), Linked),
           wake_pending' \in BOOLEAN, wakefd' \in BOOLEAN, stopped' \in BOOLEAN,
           timers' \in Nat, posts' \in Nat, stops' \in Nat,
           wakefd => wakefd', (wake_pending' /\ ~wake_pending) => wakefd'
    PROVE  IInv'
  <1>1. Running /\ Frame.pc \in DonePcs
    BY ItemFrame
  <1>2. PICK f \in Frames : f.pc = Frame.pc /\ Goto(f)
    BY ItemFrame
  <1>3. /\ stack' \in Seq(Frames) /\ stack' # <<>> /\ Len(stack') = Len(stack)
        /\ stack'[Len(stack')] = f
        /\ \A i \in 1 .. Len(stack) - 1 : stack'[i] = stack[i]
    BY <1>1, <1>2, GotoFrame DEF IInv, TypeOK
  <1>4. QueueVisible
    BY DEF RunItem
  <1>5. q' \in Seq(Threads \cup {Linked})
    BY Zenon, <1>4, TailOwned
  <1>6. TypeOK'
    BY <1>3, <1>5 DEF IInv, TypeOK
  <1>7. WakeNotLost'
    <2>1. ~At("clear") /\ ~At("wait")
      BY <1>1 DEF At, Frame, DonePcs
    <2>2. QED
      BY <2>1 DEF IInv, WakeNotLost
  <1>8. OuterDrains'
    BY <1>3 DEF IInv, OuterDrains
  <1>9. StalledHasOwner'
    BY Zenon, <1>4, TailOwned DEF StalledHasOwner
  <1>10. PollAnnounced'
    BY <1>1, <1>2, <1>3 DEF PollAnnounced, At, DonePcs
  <1>11. QED
    BY <1>6, <1>7, <1>8, <1>9, <1>10 DEF IInv

LEMMA CallbackKeeps == ASSUME IInv, Callback PROVE IInv'
  BY ItemStep DEF Callback, IInv, TypeOK

LEMMA CallbackPostsKeeps == ASSUME IInv, CallbackPosts PROVE IInv'
  <1>1. posts' \in Nat /\ wakefd' \in BOOLEAN /\ wake_pending' \in BOOLEAN
    BY DEF CallbackPosts, LoopWake, IInv, TypeOK
  <1>2. (wakefd => wakefd') /\ ((wake_pending' /\ ~wake_pending) => wakefd')
    BY Zenon DEF CallbackPosts, LoopWake
  <1>3. QED
    BY <1>1, <1>2, ItemStep DEF CallbackPosts, IInv, TypeOK

LEMMA CallbackStartsTimerKeeps == ASSUME IInv, CallbackStartsTimer PROVE IInv'
  <1>1. timers' \in Nat /\ wakefd' \in BOOLEAN /\ wake_pending' \in BOOLEAN
    BY DEF CallbackStartsTimer, LoopWake, IInv, TypeOK
  <1>2. (wakefd => wakefd') /\ ((wake_pending' /\ ~wake_pending) => wakefd')
    BY Zenon DEF CallbackStartsTimer, LoopWake
  <1>3. QED
    BY <1>1, <1>2, ItemStep DEF CallbackStartsTimer, IInv, TypeOK

LEMMA CallbackStopsKeeps == ASSUME IInv, CallbackStops PROVE IInv'
  <1>1. stops' \in Nat /\ wakefd' \in BOOLEAN /\ stopped' \in BOOLEAN
    BY DEF CallbackStops, IInv, TypeOK
  <1>2. (wakefd => wakefd') /\ ((wake_pending' /\ ~wake_pending) => wakefd')
    BY DEF CallbackStops
  <1>3. QED
    BY <1>1, <1>2, ItemStep DEF CallbackStops, IInv, TypeOK

-----------------------------------------------------------------------------
(* Calls and returns of xEventLoopRun.                                     *)
LEMMA CallbackNestsKeeps == ASSUME IInv, CallbackNests PROVE IInv'
  <1> DEFINE g == [Frame EXCEPT !.n = @ + 1, !.seen = TRUE]
             base == [stack EXCEPT ![Len(stack)] = g]
             f == NewFrame("ONCE", Tail(q))
  <1>1. Running /\ Frame \in Frames /\ Frame.pc \in DonePcs /\ QueueVisible
    BY FrameType DEF CallbackNests, Draining, IInv, TypeOK
  <1>2. Frame.n + 1 \in 0 .. BatchMax
    BY <1>1, LoopAssumption DEF CallbackNests, Frames
  <1>3. g \in Frames /\ g.pc = Frame.pc
    BY Zenon, <1>1, <1>2 DEF Frames
  <1>4. f \in Frames /\ f.pc \in {"pretimers", "top"}
    BY NewFrameType DEF AllModes
  <1>5. stack' = Append(base, f) /\ q' = Tail(q)
    BY DEF CallbackNests
  <1> HIDE DEF g, f
  <1>6. /\ base \in Seq(Frames) /\ Len(base) = Len(stack)
        /\ base[Len(stack)] = g
        /\ \A i \in 1 .. Len(stack) - 1 : base[i] = stack[i]
    BY <1>1, <1>3 DEF IInv, TypeOK
  <1> HIDE DEF base
  <1>7. /\ stack' \in Seq(Frames) /\ stack' # <<>> /\ Len(stack') = Len(stack) + 1
        /\ stack'[Len(stack')] = f
        /\ \A i \in 1 .. Len(stack) : stack'[i] = base[i]
    BY <1>4, <1>5, <1>6, AppendProperties
  <1>8. q' \in Seq(Threads \cup {Linked})
    BY <1>1, <1>5, TailOwned
  <1>9. TypeOK'
    BY <1>7, <1>8 DEF IInv, TypeOK, CallbackNests
  <1>10. WakeNotLost'
    <2>1. ~At("clear")
      BY <1>1 DEF At, Frame, DonePcs
    <2>2. QED
      BY <2>1 DEF IInv, WakeNotLost, CallbackNests
  <1>11. OuterDrains'
    <2>1. ASSUME NEW i \in 1 .. Len(stack') - 1 PROVE stack'[i].pc \in DonePcs
      <3>1. i \in 1 .. Len(stack) /\ Len(stack) \in Nat
        BY <1>7 DEF IInv, TypeOK
      <3>2. CASE i = Len(stack)
        BY <1>1, <1>3, <1>6, <1>7, <3>1, <3>2
      <3>3. CASE i # Len(stack)
        BY <1>6, <1>7, <3>1, <3>3 DEF IInv, OuterDrains
      <3>4. QED
        BY <3>2, <3>3
    <2>2. QED
      BY <2>1 DEF OuterDrains
  <1>12. StalledHasOwner'
    BY <1>1, <1>5, TailOwned DEF StalledHasOwner, CallbackNests
  <1>13. PollAnnounced'
    BY <1>4, <1>7 DEF PollAnnounced, At
  <1>14. QED
    BY <1>9, <1>10, <1>11, <1>12, <1>13 DEF IInv

LEMMA RunKeeps == ASSUME IInv, NEW mode \in Modes, Run(mode) PROVE IInv'
  <1> DEFINE f == NewFrame(mode, q)
  <1>1. f \in Frames /\ f.pc \in {"pretimers", "top"}
    BY NewFrameType, LoopAssumption
  <1>2. stack = <<>> /\ stack' = <<f>>
    BY DEF Run
  <1> HIDE DEF f
  <1>3. stack' \in Seq(Frames) /\ stack' # <<>> /\ Len(stack') = 1 /\ stack'[1] = f
    BY <1>1, <1>2
  <1>4. TypeOK'
    BY <1>3 DEF IInv, TypeOK, Run
  <1>5. WakeNotLost'
    BY <1>2 DEF IInv, WakeNotLost, At, Run
  <1>6. OuterDrains'
    BY <1>3 DEF OuterDrains
  <1>7. StalledHasOwner'
    BY DEF IInv, StalledHasOwner, Run
  <1>8. PollAnnounced'
    BY <1>1, <1>3 DEF PollAnnounced, At
  <1>9. QED
    BY <1>4, <1>5, <1>6, <1>7, <1>8 DEF IInv

(* The frame uncovered is inside a drain, neither polling nor clearing.    *)
LEMMA ReturnKeeps == ASSUME IInv, Return PROVE IInv'
  <1>1. stack # <<>> /\ Frame.pc = "exit" /\ Len(stack) \in Nat \ {0}
    BY FrameType DEF Return, At, Frame, IInv, TypeOK
  <1>2. /\ stack' \in Seq(Frames) /\ Len(stack') = Len(stack) - 1
        /\ \A i \in 1 .. Len(stack) - 1 : stack'[i] = stack[i]
    BY <1>1, DropLast DEF Return, IInv, TypeOK
  <1>3. stack' # <<>> => stack'[Len(stack')].pc \in DonePcs
    BY <1>1, <1>2 DEF IInv, OuterDrains
  <1>4. TypeOK'
    BY Zenon, <1>2 DEF IInv, TypeOK, Return
  <1>5. WakeNotLost'
    BY <1>1 DEF IInv, WakeNotLost, At, Frame, Return
  <1>6. OuterDrains'
    BY <1>1, <1>2 DEF IInv, OuterDrains
  <1>7. StalledHasOwner'
    BY DEF IInv, StalledHasOwner, Return
  <1>8. PollAnnounced'
    BY <1>3 DEF PollAnnounced, At, DonePcs
  <1>9. QED
    BY <1>4, <1>5, <1>6, <1>7, <1>8 DEF IInv

LEMMA StutterKeeps == ASSUME IInv, UNCHANGED vars PROVE IInv'
  BY DEF IInv, TypeOK, WakeNotLost, OuterDrains, StalledHasOwner, PollAnnounced, At, vars

LEMMA NextIInv == ASSUME IInv, [Next]_vars PROVE IInv'
  <1>1. ASSUME NEW t \in Threads, ThreadStep(t) PROVE IInv'
    BY <1>1, PostPushKeeps, PostLinkKeeps, WakeKeeps, WriteWakeKeeps, StopKeeps DEF ThreadStep
  <1>2. ASSUME LoopStep PROVE IInv'
    BY <1>2, PreTimersKeeps, TopKeeps, CallbackKeeps, CallbackPostsKeeps,
       CallbackStartsTimerKeeps, CallbackStopsKeeps, CallbackNestsKeeps, DrainEndsKeeps,
       PollWakeKeeps, PollTimeoutKeeps, DrainWakeKeeps, ClearWakePendingKeeps,
       RunTimersKeeps, ReturnKeeps DEF LoopStep
  <1>3. QED
    BY <1>1, <1>2, RunKeeps, PollIoKeeps, StutterKeeps DEF Next

(* The inductive invariant.                                                *)
THEOREM Inductive == Spec => []IInv
  BY InitIInv, NextIInv, PTL DEF Spec

(* xEventLoopWake's flag (event_run.c:274) never outlives its wake, for    *)
(* any number of threads and any nesting of xEventLoopRun.                 *)
THEOREM WakeNotLostAlways == Spec => []WakeNotLost
  <1>1. IInv => WakeNotLost
    BY DEF IInv
  <1>2. QED
    BY <1>1, Inductive, PTL

(* A loop asleep in epoll_wait (event_run.c:174) over a non-empty done     *)
(* queue is about to be woken, unless the batch limit cut the drain.       *)
THEOREM NoLostPostAlways == Spec => []NoLostPost
  <1>1. IInv => NoLostPost
    BY DEF IInv, PollAnnounced, NoLostPost, Blocked
  <1>2. QED
    BY <1>1, Inductive, PTL

(* The variables keep their types; the batch counter stays within the      *)
(* limit of loop_run_done.                                                 *)
THEOREM LoopTypes == Spec => []TypeOK
  <1>1. IInv => TypeOK
    BY DEF IInv
  <1>2. QED
    BY <1>1, Inductive, PTL
=============================================================================
