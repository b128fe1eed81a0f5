------------------------------ MODULE MpscProof ------------------------------
(***************************************************************************)
(* Proofs about the lock-free queue of Mpsc.tla, for every set of          *)
(* producers and nodes.  Inv is inductive: one lemma per action, one step  *)
(* per conjunct.  The safety properties and the implementation of the      *)
(* abstract queue follow from it.                                          *)
(***************************************************************************)
EXTENDS Mpsc, SequenceTheorems, TLAPS

(* The queue that xMpscInit leaves has the shape.                          *)
LEMMA InitInv == Init => Inv
BY MpscAssumption
   DEF Init, Inv, TypeOK, Ptr, NodesConserved, ListShape, PushShape, HeadShape, PopShape, Linking

(* The exchange of the tail (mpsc.c:17-18) keeps the shape.                *)
LEMMA PushSwapKeeps ==
  ASSUME Inv, NEW p \in Producers, NEW n \in Nodes, PushSwap(p, n)
  PROVE  Inv'
<1> USE MpscAssumption DEF PushSwap, Linking
<1>1. TypeOK'
  BY DEF Inv, TypeOK, Ptr, NodesConserved, ListShape, PushShape, HeadShape, PopShape
<1>2. NodesConserved'
  BY DEF Inv, TypeOK, Ptr, NodesConserved, ListShape, PushShape, HeadShape, PopShape
<1>3. ListShape'
  BY DEF Inv, TypeOK, Ptr, NodesConserved, ListShape, PushShape, HeadShape, PopShape
<1>4. PushShape'
  BY DEF Inv, TypeOK, Ptr, NodesConserved, ListShape, PushShape, HeadShape, PopShape
<1>5. HeadShape'
  BY DEF Inv, TypeOK, Ptr, NodesConserved, ListShape, PushShape, HeadShape, PopShape
<1>6. PopShape'
  BY DEF Inv, TypeOK, Ptr, NodesConserved, ListShape, PushShape, HeadShape, PopShape
<1>7. QED BY <1>1, <1>2, <1>3, <1>4, <1>5, <1>6 DEF Inv

(* The link of a pushed node (mpsc.c:20-29) keeps the shape.               *)
LEMMA PushLinkKeeps ==
  ASSUME Inv, NEW p \in Producers, PushLink(p)
  PROVE  Inv'
<1> USE MpscAssumption DEF PushLink, Linking
<1>1. TypeOK'
  BY DEF Inv, TypeOK, Ptr, NodesConserved, ListShape, PushShape, HeadShape, PopShape
<1>2. NodesConserved'
  BY DEF Inv, TypeOK, Ptr, NodesConserved, ListShape, PushShape, HeadShape, PopShape
<1>3. ListShape'
  BY DEF Inv, TypeOK, Ptr, NodesConserved, ListShape, PushShape, HeadShape, PopShape
<1>4. PushShape'
  BY DEF Inv, TypeOK, Ptr, NodesConserved, ListShape, PushShape, HeadShape, PopShape
<1>5. HeadShape'
  BY DEF Inv, TypeOK, Ptr, NodesConserved, ListShape, PushShape, HeadShape, PopShape
<1>6. PopShape'
  BY DEF Inv, TypeOK, Ptr, NodesConserved, ListShape, PushShape, HeadShape, PopShape
<1>7. QED BY <1>1, <1>2, <1>3, <1>4, <1>5, <1>6 DEF Inv

(* The load of the head (mpsc.c:35) keeps the shape.                       *)
LEMMA PopLoadHeadKeeps ==
  ASSUME Inv, PopLoadHead
  PROVE  Inv'
<1> USE MpscAssumption DEF PopLoadHead, Linking
<1>1. TypeOK'
  BY DEF Inv, TypeOK, Ptr, NodesConserved, ListShape, PushShape, HeadShape, PopShape
<1>2. NodesConserved'
  BY DEF Inv, TypeOK, Ptr, NodesConserved, ListShape, PushShape, HeadShape, PopShape
<1>3. ListShape'
  BY DEF Inv, TypeOK, Ptr, NodesConserved, ListShape, PushShape, HeadShape, PopShape
<1>4. PushShape'
  BY DEF Inv, TypeOK, Ptr, NodesConserved, ListShape, PushShape, HeadShape, PopShape
<1>5. HeadShape'
  BY DEF Inv, TypeOK, Ptr, NodesConserved, ListShape, PushShape, HeadShape, PopShape
<1>6. PopShape'
  BY DEF Inv, TypeOK, Ptr, NodesConserved, ListShape, PushShape, HeadShape, PopShape
<1>7. QED BY <1>1, <1>2, <1>3, <1>4, <1>5, <1>6 DEF Inv

(* The load of the successor (mpsc.c:41) keeps the shape.                  *)
LEMMA PopLoadNextKeeps ==
  ASSUME Inv, PopLoadNext
  PROVE  Inv'
<1> USE MpscAssumption DEF PopLoadNext, Linking
<1>1. TypeOK'
  BY DEF Inv, TypeOK, Ptr, NodesConserved, ListShape, PushShape, HeadShape, PopShape
<1>2. NodesConserved'
  BY DEF Inv, TypeOK, Ptr, NodesConserved, ListShape, PushShape, HeadShape, PopShape
<1>3. ListShape'
  BY DEF Inv, TypeOK, Ptr, NodesConserved, ListShape, PushShape, HeadShape, PopShape
<1>4. PushShape'
  BY DEF Inv, TypeOK, Ptr, NodesConserved, ListShape, PushShape, HeadShape, PopShape
<1>5. HeadShape'
  BY DEF Inv, TypeOK, Ptr, NodesConserved, ListShape, PushShape, HeadShape, PopShape
<1>6. PopShape'
  BY DEF Inv, TypeOK, Ptr, NodesConserved, ListShape, PushShape, HeadShape, PopShape
<1>7. QED BY <1>1, <1>2, <1>3, <1>4, <1>5, <1>6 DEF Inv

(* The CAS of the tail (mpsc.c:47), won or lost, keeps the shape.          *)
LEMMA PopCasTailKeeps ==
  ASSUME Inv, PopCasTail
  PROVE  Inv'
<1> USE MpscAssumption DEF PopCasTail, LeaveFront, Linking
<1>1. TypeOK'
  BY DEF Inv, TypeOK, Ptr, NodesConserved, ListShape, PushShape, HeadShape, PopShape
<1>2. NodesConserved'
  BY DEF Inv, TypeOK, Ptr, NodesConserved, ListShape, PushShape, HeadShape, PopShape
<1>3. ListShape'
  BY DEF Inv, TypeOK, Ptr, NodesConserved, ListShape, PushShape, HeadShape, PopShape
<1>4. PushShape'
  BY DEF Inv, TypeOK, Ptr, NodesConserved, ListShape, PushShape, HeadShape, PopShape
<1>5. HeadShape'
  BY DEF Inv, TypeOK, Ptr, NodesConserved, ListShape, PushShape, HeadShape, PopShape
<1>6. PopShape'
  BY DEF Inv, TypeOK, Ptr, NodesConserved, ListShape, PushShape, HeadShape, PopShape
<1>7. QED BY <1>1, <1>2, <1>3, <1>4, <1>5, <1>6 DEF Inv

(* Leaving the spin (mpsc.c:50) keeps the shape.                           *)
LEMMA PopSpinKeeps ==
  ASSUME Inv, PopSpin
  PROVE  Inv'
<1> USE MpscAssumption DEF PopSpin, Linking
<1>1. TypeOK'
  BY DEF Inv, TypeOK, Ptr, NodesConserved, ListShape, PushShape, HeadShape, PopShape
<1>2. NodesConserved'
  BY DEF Inv, TypeOK, Ptr, NodesConserved, ListShape, PushShape, HeadShape, PopShape
<1>3. ListShape'
  BY DEF Inv, TypeOK, Ptr, NodesConserved, ListShape, PushShape, HeadShape, PopShape
<1>4. PushShape'
  BY DEF Inv, TypeOK, Ptr, NodesConserved, ListShape, PushShape, HeadShape, PopShape
<1>5. HeadShape'
  BY DEF Inv, TypeOK, Ptr, NodesConserved, ListShape, PushShape, HeadShape, PopShape
<1>6. PopShape'
  BY DEF Inv, TypeOK, Ptr, NodesConserved, ListShape, PushShape, HeadShape, PopShape
<1>7. QED BY <1>1, <1>2, <1>3, <1>4, <1>5, <1>6 DEF Inv

(* The CAS of the head (mpsc.c:60), won or lost, keeps the shape.          *)
LEMMA PopCasHeadKeeps ==
  ASSUME Inv, PopCasHead
  PROVE  Inv'
<1> USE MpscAssumption DEF PopCasHead, Linking
<1>1. TypeOK'
  BY DEF Inv, TypeOK, Ptr, NodesConserved, ListShape, PushShape, HeadShape, PopShape
<1>2. NodesConserved'
  BY DEF Inv, TypeOK, Ptr, NodesConserved, ListShape, PushShape, HeadShape, PopShape
<1>3. ListShape'
  BY DEF Inv, TypeOK, Ptr, NodesConserved, ListShape, PushShape, HeadShape, PopShape
<1>4. PushShape'
  BY DEF Inv, TypeOK, Ptr, NodesConserved, ListShape, PushShape, HeadShape, PopShape
<1>5. HeadShape'
  BY DEF Inv, TypeOK, Ptr, NodesConserved, ListShape, PushShape, HeadShape, PopShape
<1>6. PopShape'
  BY DEF Inv, TypeOK, Ptr, NodesConserved, ListShape, PushShape, HeadShape, PopShape
<1>7. QED BY <1>1, <1>2, <1>3, <1>4, <1>5, <1>6 DEF Inv

(* Advancing the head (mpsc.c:54, 64) keeps the shape.                     *)
LEMMA PopAdvanceKeeps ==
  ASSUME Inv, PopAdvance
  PROVE  Inv'
<1> USE MpscAssumption DEF PopAdvance, LeaveFront, Linking
<1>1. TypeOK'
  BY DEF Inv, TypeOK, Ptr, NodesConserved, ListShape, PushShape, HeadShape, PopShape
<1>2. NodesConserved'
  BY DEF Inv, TypeOK, Ptr, NodesConserved, ListShape, PushShape, HeadShape, PopShape
<1>3. ListShape'
  BY DEF Inv, TypeOK, Ptr, NodesConserved, ListShape, PushShape, HeadShape, PopShape
<1>4. PushShape'
  BY DEF Inv, TypeOK, Ptr, NodesConserved, ListShape, PushShape, HeadShape, PopShape
<1>5. HeadShape'
  BY DEF Inv, TypeOK, Ptr, NodesConserved, ListShape, PushShape, HeadShape, PopShape
<1>6. PopShape'
  BY DEF Inv, TypeOK, Ptr, NodesConserved, ListShape, PushShape, HeadShape, PopShape
<1>7. QED BY <1>1, <1>2, <1>3, <1>4, <1>5, <1>6 DEF Inv

(* A step that changes nothing keeps the shape.                            *)
LEMMA StutterKeeps == Inv /\ UNCHANGED vars => Inv'
BY DEF vars, Inv, TypeOK, Ptr, NodesConserved, ListShape, PushShape, HeadShape, PopShape, Linking

(* Inv is inductive.                                                       *)
LEMMA NextInv == Inv /\ [Next]_vars => Inv'
<1> SUFFICES ASSUME Inv, [Next]_vars PROVE Inv'
  OBVIOUS
<1>1. CASE Pop
  BY <1>1, PopLoadHeadKeeps, PopLoadNextKeeps, PopCasTailKeeps, PopSpinKeeps,
     PopCasHeadKeeps, PopAdvanceKeeps DEF Pop
<1>2. CASE \E p \in Producers : Push(p)
  <2>1. PICK p \in Producers : Push(p)
    BY <1>2
  <2>2. QED BY <2>1, PushSwapKeeps, PushLinkKeeps DEF Push
<1>3. CASE UNCHANGED vars
  BY <1>3, StutterKeeps
<1>4. QED BY <1>1, <1>2, <1>3 DEF Next

(* The list keeps its shape, and TypeOK with it, whatever the producers    *)
(* and the consumer of xMpscPush and xMpscPop do.                          *)
THEOREM Shape == Spec => []Inv
BY InitInv, NextInv, PTL DEF Spec

(* A pop that finds no node finds an empty queue, or a front node whose    *)
(* push is between its two steps (mpsc.c:36).                              *)
THEOREM EmptyIsEmptyAlways == Spec => []EmptyIsEmpty
<1>1. Inv => EmptyIsEmpty
  BY MpscAssumption DEF Inv, TypeOK, Ptr, HeadShape, PushShape, EmptyIsEmpty, FrontStalled, Linking
<1>2. QED BY <1>1, Shape, PTL

(* The consumer works on the oldest node of the queue, and on no node that *)
(* a caller may be pushing again.                                          *)
THEOREM PopsTheFrontAlways == Spec => []PopsTheFront
<1>1. Inv => PopsTheFront
  BY DEF Inv, TypeOK, Ptr, NodesConserved, PopShape, PopsTheFront
<1>2. QED BY <1>1, Shape, PTL

(* No node is lost and none is in two places.                              *)
THEOREM NodesConservedAlways == Spec => []NodesConserved
<1>1. Inv => NodesConserved
  BY DEF Inv
<1>2. QED BY <1>1, Shape, PTL

-----------------------------------------------------------------------------
(* The implementation of the abstract queue.                               *)

(* Order is the sequence of queued nodes by place.                         *)
LEMMA OrderSeq ==
  ASSUME Inv
  PROVE  /\ Order \in Seq(Nodes)
         /\ Len(Order) = len
         /\ \A i \in 1 .. len : Order[i] \in Nodes /\ pos[Order[i]] = i
<1>1. \A i \in 1 .. len : Order[i] \in Nodes /\ pos[Order[i]] = i
  BY DEF Order, Inv, ListShape
<1>2. len \in Nat
  BY DEF Inv, TypeOK
<1>3. Order \in [1 .. len -> Nodes]
  BY <1>1 DEF Order
<1>4. QED BY <1>1, <1>2, <1>3

(* The same of the next state.                                             *)
LEMMA OrderSeqNext ==
  ASSUME Inv'
  PROVE  /\ Order' \in Seq(Nodes)
         /\ Len(Order') = len'
         /\ \A i \in 1 .. len' : Order'[i] \in Nodes /\ pos'[Order'[i]] = i
<1>1. \A i \in 1 .. len' : Order'[i] \in Nodes /\ pos'[Order'[i]] = i
  BY DEF Order, Inv, ListShape
<1>2. len' \in Nat
  BY DEF Inv, TypeOK
<1>3. Order' \in [1 .. len' -> Nodes]
  BY <1>1 DEF Order
<1>4. QED BY <1>1, <1>2, <1>3

Stalled == {pnode[p] : p \in {r \in Producers : Linking(r)}}

(* The exchange of the tail is the abstract Enqueue.                       *)
LEMMA PushSwapEnqueues ==
  ASSUME Inv, Inv', NEW p \in Producers, NEW n \in Nodes, PushSwap(p, n)
  PROVE  Queue!Enqueue(n)
<1>1. \A i \in 1 .. Len(Order) : Order[i] # n
  BY OrderSeq DEF Inv, TypeOK, NodesConserved, PushSwap
<1>2. Order' = Append(Order, n)
  <2>2. /\ len \in Nat /\ pos \in [Nodes -> Nat]
        /\ len' = len + 1 /\ pos' = [pos EXCEPT ![n] = len + 1]
    BY DEF PushSwap, Inv, TypeOK
  <2>3. ASSUME NEW i \in 1 .. len PROVE Order'[i] = Order[i]
    <3>1. Order'[i] \in Nodes /\ pos'[Order'[i]] = i
      BY <2>2, OrderSeqNext
    <3>2. pos[Order'[i]] = i
      BY <2>2, <3>1
    <3>3. Order[i] \in Nodes /\ pos[Order[i]] = i
      BY OrderSeq
    <3>4. QED BY <3>1, <3>2, <3>3 DEF Inv, ListShape
  <2>4. Order'[len + 1] = n
    <3>1. Order'[len + 1] \in Nodes /\ pos'[Order'[len + 1]] = len + 1
      BY <2>2, OrderSeqNext
    <3>2. pos'[n] = len + 1
      BY <2>2
    <3>3. QED BY <2>2, <3>1, <3>2 DEF Inv, ListShape
  <2>5. QED BY <2>2, <2>3, <2>4, OrderSeq, OrderSeqNext
<1>3. Stalled' = Stalled \cup {n}
  BY DEF Stalled, PushSwap, Linking, Inv, TypeOK
<1>4. QED BY <1>1, <1>2, <1>3 DEF Queue!Enqueue, Stalled

(* The link is the abstract Publish.                                       *)
LEMMA PushLinkPublishes ==
  ASSUME Inv, NEW p \in Producers, PushLink(p)
  PROVE  Queue!Publish(pnode[p])
<1>1. Stalled' = Stalled \ {pnode[p]}
  BY DEF Stalled, PushLink, Linking, Inv, TypeOK, PushShape
<1>2. pnode[p] \in Stalled
  BY DEF Stalled, PushLink, Linking
<1>3. Order' = Order
  BY DEF Order, PushLink
<1>4. QED BY <1>1, <1>2, <1>3 DEF Queue!Publish, Stalled

(* The front node leaves: by the CAS of the tail when it is alone, by the  *)
(* store of its successor into head when it is not.                        *)
LEMMA LeaveFrontDequeues ==
  ASSUME Inv, Inv', len > 0, LeaveFront, UNCHANGED <<ppc, pnode>>,
         \A p \in Producers : Linking(p) => pos[pnode[p]] # 1
  PROVE  Queue!Dequeue
<1>1. /\ len \in Nat /\ pos \in [Nodes -> Nat]
      /\ len' = len - 1
      /\ \A n \in Nodes : pos'[n] = IF pos[n] = 0 THEN 0 ELSE pos[n] - 1
  BY DEF LeaveFront, Inv, TypeOK
<1>2. Order # <<>> /\ Head(Order) = Order[1] /\ pos[Order[1]] = 1
  BY <1>1, OrderSeq
<1>3. Head(Order) \notin Stalled
  BY <1>2 DEF Stalled
<1>4. ASSUME NEW i \in 1 .. len' PROVE Order'[i] = Order[i + 1]
  <2>1. Order'[i] \in Nodes /\ pos'[Order'[i]] = i
    BY OrderSeqNext
  <2>2. pos[Order'[i]] = i + 1
    BY <1>1, <2>1
  <2>3. Order[i + 1] \in Nodes /\ pos[Order[i + 1]] = i + 1
    BY SMTT(30), <1>1, OrderSeq
  <2>4. QED BY <2>1, <2>2, <2>3 DEF Inv, ListShape
<1>5. Order' = Tail(Order)
  <2>1. /\ Tail(Order) \in Seq(Nodes)
        /\ Len(Tail(Order)) = len'
        /\ \A i \in 1 .. len' : Tail(Order)[i] = Order[i + 1]
    BY <1>1, <1>2, OrderSeq, HeadTailProperties
  <2>2. QED BY <1>4, <2>1, OrderSeqNext, SeqEqual
<1>6. Stalled' = Stalled
  BY DEF Stalled, Linking
<1>7. QED BY <1>2, <1>3, <1>5, <1>6 DEF Queue!Dequeue, Stalled

(* Every other step of a pop is invisible to the caller.                   *)
LEMMA PopRefines ==
  ASSUME Inv, Inv', Pop
  PROVE  Queue!Dequeue \/ UNCHANGED Queue!qvars
<1>1. ASSUME UNCHANGED <<ppc, pnode, pos, len>>
      PROVE  UNCHANGED Queue!qvars
  <2>1. Order' = Order
    BY <1>1 DEF Order
  <2>2. Stalled' = Stalled
    BY SMTT(30), <1>1 DEF Stalled, Linking
  <2>3. QED BY <2>1, <2>2 DEF Queue!qvars, Stalled
<1>2. ASSUME cpc \in {"castail", "advance"}
      PROVE  len > 0 /\ \A p \in Producers : Linking(p) => pos[pnode[p]] # 1
  <2>1. chead # NULL /\ head = chead /\ pos[chead] = 1 /\ cpc # "cashead"
    BY <1>2 DEF Inv, PopShape
  <2>2. /\ chead \in Nodes /\ len \in Nat /\ pos \in [Nodes -> Nat]
        /\ pnode \in [Producers -> Ptr] /\ pprev \in [Producers -> Ptr]
    BY <2>1 DEF Inv, TypeOK, Ptr
  <2>3. len > 0
    BY <2>1, <2>2 DEF Inv, ListShape
  <2>4. ASSUME NEW p \in Producers, Linking(p) PROVE pos[pnode[p]] # 1
    <3>1. /\ pprev[p] # NULL
          /\ pos[pprev[p]] > 0 /\ pos[pnode[p]] = pos[pprev[p]] + 1
      BY <2>1, <2>4 DEF Inv, PushShape
    <3>2. pos[pprev[p]] \in Nat
      BY <2>2, <3>1 DEF Ptr
    <3>3. QED
      BY <3>1, <3>2
  <2>5. QED
    BY <2>3, <2>4
<1>3. CASE PopCasTail
  BY <1>1, <1>2, <1>3, LeaveFrontDequeues DEF PopCasTail
<1>4. CASE PopAdvance
  BY Zenon, <1>2, <1>4, LeaveFrontDequeues DEF PopAdvance
<1>5. CASE PopLoadHead \/ PopLoadNext \/ PopSpin \/ PopCasHead
  BY <1>1, <1>5 DEF PopLoadHead, PopLoadNext, PopSpin, PopCasHead
<1>6. QED BY <1>3, <1>4, <1>5 DEF Pop

(* xMpscPush and xMpscPop implement the abstract FIFO queue.               *)
THEOREM Refinement == Spec => ImplementsQueue
<1>1. Init => Queue!QInit
  <2> SUFFICES ASSUME Init PROVE Queue!QInit
    OBVIOUS
  <2>1. Order = <<>>
    BY DEF Init, Order
  <2>2. Stalled = {}
    BY DEF Init, Stalled, Linking
  <2>3. QED BY Zenon, <2>1, <2>2 DEF Queue!QInit, Stalled
<1>2. Inv /\ Inv' /\ [Next]_vars => [Queue!QNext]_Queue!qvars
  <2> SUFFICES ASSUME Inv, Inv', [Next]_vars PROVE [Queue!QNext]_Queue!qvars
    OBVIOUS
  <2>1. CASE Pop
    BY <2>1, PopRefines DEF Queue!QNext
  <2>2. CASE \E p \in Producers : Push(p)
    <3>1. PICK p \in Producers : Push(p)
      BY <2>2
    <3>2. ASSUME NEW n \in Nodes, PushSwap(p, n) PROVE Queue!QNext
      BY <3>2, PushSwapEnqueues DEF Queue!QNext
    <3>3. ASSUME PushLink(p) PROVE Queue!QNext
      <4>1. pnode[p] \in Nodes
        BY <3>3, MpscAssumption DEF PushLink, Linking, Inv, TypeOK, Ptr, PushShape
      <4>2. Queue!Publish(pnode[p])
        BY <3>3, PushLinkPublishes
      <4>3. QED BY <4>1, <4>2 DEF Queue!QNext, Queue!Publish
    <3>4. QED BY <3>1, <3>2, <3>3 DEF Push
  <2>3. CASE UNCHANGED vars
    <3>1. Order' = Order
      BY <2>3 DEF vars, Order
    <3>2. Stalled' = Stalled
      BY <2>3 DEF vars, Stalled, Linking
    <3>3. QED BY <3>1, <3>2 DEF Queue!qvars, Stalled
  <2>4. QED BY <2>1, <2>2, <2>3 DEF Next
<1>3. QED BY <1>1, <1>2, Shape, PTL DEF Spec, ImplementsQueue, Queue!QSpec
==============================================================================
