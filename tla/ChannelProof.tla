---------------------------- MODULE ChannelProof ----------------------------
(***************************************************************************)
(* For any number of senders, any capacity and any number of sends, closes *)
(* and cancelled sends: the receiver of the bounded channel gets what was  *)
(* pushed in the order of each sender, no producer writes into a slot that *)
(* is not its own or still unread, and a parked receiver is not stranded.  *)
(* ChannelSteps has the inductive invariant and the steps that keep it.    *)
(***************************************************************************)
EXTENDS ChannelSteps, FiniteSetTheorems, SequenceTheorems, TLAPS

(* Senders are finitely many.                                              *)
LEMMA SendersCounted == Counting
  <1>1. \A S \in SUBSET Senders : IsFiniteSet(S) /\ Cardinality(S) \in Nat
    BY ChannelAssumption, FS_Subset, FS_CardinalityType
  <1>2. ASSUME NEW S \in SUBSET Senders, NEW s \in Senders
        PROVE  /\ s \notin S => Cardinality(S \cup {s}) = Cardinality(S) + 1
               /\ s \in S => Cardinality(S \ {s}) = Cardinality(S) - 1
    BY <1>1, FS_AddElement, FS_CardinalityType, FS_RemoveElement
  <1>3. QED
    BY Zenon, <1>1, <1>2, FS_EmptySet DEF Counting

-----------------------------------------------------------------------------
LEMMA InitIInv == ASSUME Init PROVE IInv
  <1>0. /\ buf = [i \in 0..Cap - 1 |-> [ready |-> FALSE, data |-> None]]
        /\ count = 0 /\ wpos = 0 /\ rpos = 0 /\ senders = Cardinality(Senders)
        /\ spc = [s \in Senders |-> "idle"] /\ claim = [s \in Senders |-> 0]
        /\ calls = [s \in Senders |-> 0] /\ rpc = "poll" /\ got = <<>> /\ sent = {}
    BY DEF Init
  <1>1. /\ \A k \in 0..Cap - 1 : ~buf[k].ready
        /\ \A s \in Senders : spc[s] = "idle" /\ calls[s] = 0
        /\ buf \in [0..Cap - 1 -> [ready : BOOLEAN, data : Values \cup {None}]]
    BY <1>0
  <1>2. Live = Senders /\ Cardinality(Senders) \in Nat
    BY <1>1, SendersCounted, ChannelAssumption DEF Live, Counting
  <1>3. TypeOK
    <2>1. /\ count \in Nat /\ wpos \in Nat /\ rpos \in Nat /\ senders \in Nat /\ waiters \in Int
          /\ writers \in Seq(Senders) /\ got \in Seq(Values) /\ rpc \in RSteps
      BY <1>2 DEF Init, RSteps
    <2>2. /\ spc \in [Senders -> Steps] /\ mode \in [Senders -> {"fast", "locked", "try"}]
          /\ registered \in [Senders -> BOOLEAN] /\ swoken \in [Senders -> BOOLEAN]
      BY DEF Init, Steps
    <2>3. QED
      BY Zenon, <1>1, <2>1, <2>2 DEF Init, TypeOK
  <1>4. Types
    <2>1. claim \in [Senders -> 0..Cap - 1] /\ calls \in [Senders -> 0..MaxSends + 1]
      BY <1>0, ChannelAssumption
    <2>2. QED
      BY <1>0, <1>1, <1>2, <1>3, <2>1 DEF Types, Pending, PendingSteps
  <1>5. Counted
    <2>1. Slots = {} /\ Undos = {} /\ Taken = 0
      BY <1>0, <1>1 DEF Slots, Undos, Taken
    <2>2. QED
      BY <1>0, <2>1, SendersCounted, ChannelAssumption DEF Counted, Counting
  <1>6. Windowed
    BY <1>1 DEF Windowed, ReadyIn, WriteIn, NoOverwrite
  <1>7. Window = {} /\ RangeOf(got) = {} /\ 1..Len(got) = {}
    BY <1>0 DEF Window, RangeOf
  <1>8. Ordered
    BY Zenon, <1>0, <1>1, <1>7 DEF Ordered, Fifo, SentDecided, RingSent, GotFirst, RingOrder, WriterLast
  <1>9. QED
    BY <1>0, <1>4, <1>5, <1>6, <1>8 DEF IInv, RingInv, WakeInv, Armed, Quiet

LEMMA StutterKeeps == ASSUME IInv, UNCHANGED vars PROVE IInv'
  <1>0. UNCHANGED <<buf, count, wpos, rpos, closed, senders, mtx, writers, waiters, cell, waker,
                    spc, mode, claim, calls, registered, swoken, rpc, second, rwoken, got, sent>>
    BY DEF vars
  <1>1. TypeOK'
    BY Zenon, <1>0, TypeFacts DEF TypeOK, Core, Rest
  <1>2. Types' /\ \A t \in Senders : Decided(t) <= Decided(t)'
    BY <1>0, <1>1, TypesSame DEF IInv, Pending
  <1>3. RingInv'
    BY <1>0, <1>2, RingSame DEF IInv
  <1>4. WakeInv'
    BY <1>0 DEF IInv, WakeInv, Armed, Quiet, Waking
  <1>5. QED
    BY <1>2, <1>3, <1>4 DEF IInv

LEMMA NextKeeps == ASSUME IInv, [Next]_vars PROVE IInv'
  <1>1. CASE Recv
    BY <1>1, RPollKeeps, PopLoadKeeps, PopTakeKeeps, PopDecKeeps, TakeWakerKeeps, WakeOneKeeps,
       RClosedKeeps, RegisterKeeps DEF Recv
  <1>2. ASSUME NEW s \in Senders,
               Send(s) \/ Poll(s) \/ SpuriousPoll(s) \/ Cancel(s) \/ Close(s) \/ Drop(s)
        PROVE  IInv'
    BY <1>2, SendersCounted, SendKeeps, PollKeeps, CancelKeeps, CloseKeeps, DropKeeps
  <1>3. ASSUME NEW s \in Senders, Push(s) PROVE IInv'
    BY <1>3, SendersCounted, CheckClosedKeeps, ClaimKeeps, UndoKeeps, ClaimSlotKeeps, WriteKeeps, LockKeeps,
       EnqueueKeeps DEF Push
  <1>4. ASSUME NEW s \in Senders, Wake(s) \/ Shut(s) PROVE IInv'
    BY <1>4, CellWakeKeeps, CellFireKeeps, CellReleaseKeeps, DetachAllKeeps, FireAllKeeps,
       UnregisterKeeps DEF Wake, Shut
  <1>5. QED
    BY <1>1, <1>2, <1>3, <1>4, StutterKeeps DEF Next

(* The inductive invariant of the channel: m_count covers the window of    *)
(* positions and the claims on their way, the ring holds the values of     *)
(* each sender in order, and a registered receiver will be woken.          *)
THEOREM ChannelInvariant == Spec => []IInv
  <1>1. Init => IInv
    BY InitIInv
  <1>2. IInv /\ [Next]_vars => IInv'
    BY NextKeeps
  <1>3. QED
    BY <1>1, <1>2, PTL DEF Spec

(* Whatever the capacity and the number of senders, what the receiver gets *)
(* was sent, in the order of each sender, and no producer writes into a    *)
(* slot that is not its own or still unread (list.h try_push, try_pop).    *)
THEOREM ChannelInOrderAlways == Spec => []ChannelInOrder
  <1>1. IInv => ChannelInOrder
    BY DEF IInv, Types, RingInv, Windowed, Ordered, ChannelInOrder
  <1>2. QED
    BY <1>1, ChannelInvariant, PTL

(* A ready slot is counted, so that the re-check after the registration    *)
(* saw it or the push has yet to wake the receiver: no receiver of any     *)
(* channel sleeps on a value or on the end (mpsc.h RecvPromiseNode::poll). *)
THEOREM ReceiverNotStrandedAlways == Spec => []ReceiverNotStranded
  <1>1. ASSUME IInv PROVE ReceiverNotStranded
    <2>1. SUFFICES ASSUME rpc = "parked", ~rwoken, ~Waking
                   PROVE  ~closed /\ \A k \in 0..Cap - 1 : ~buf[k].ready
      BY DEF ReceiverNotStranded
    <2>2. count = 0 /\ ~closed
      BY <1>1, <2>1 DEF IInv, WakeInv, Armed, Quiet
    <2>3. Window = {}
      BY <1>1, <2>2, CountFacts DEF Window
    <2>4. QED
      BY <1>1, <2>2, <2>3, RingFacts DEF ReadyIn
  <1>2. IInv => ReceiverNotStranded
    BY <1>1
  <1>3. QED
    BY <1>2, ChannelInvariant, PTL
=============================================================================
