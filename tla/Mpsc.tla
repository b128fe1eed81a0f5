-------------------------------- MODULE Mpsc --------------------------------
(***************************************************************************)
(* The lock-free intrusive queue of src/libx/x/base/mpsc.c: any number of  *)
(* producers run xMpscPush, one consumer runs xMpscPop.  One action per    *)
(* atomic access; stores to a node its producer still owns are part of the *)
(* access that follows them.                                               *)
(*                                                                         *)
(* pos and len are history variables: pos[n] is the place of n in the FIFO *)
(* order (1 is the front), 0 when n is not in the queue.  No guard and no  *)
(* code variable depends on them.                                          *)
(***************************************************************************)
EXTENDS Naturals, Sequences

CONSTANTS
    Producers,   \* threads that push
    Nodes,       \* the intrusive nodes they push
    NULL

ASSUME MpscAssumption == NULL \notin Nodes

VARIABLES
    head, tail,            \* the two words of the queue
    next,                  \* node->next
    ppc, pnode, pprev,     \* per producer: step, node, _tail
    cpc, chead, cnext,     \* consumer: step, _head, _head_next
    own,                   \* nodes in the hands of callers, free to push
    pos, len               \* history: place of each node, length

vars  == <<head, tail, next, ppc, pnode, pprev, cpc, chead, cnext, own, pos, len>>

Ptr == Nodes \cup {NULL}

Init ==
    /\ head = NULL
    /\ tail = NULL
    /\ next = [n \in Nodes |-> NULL]
    /\ ppc = [p \in Producers |-> "idle"]
    /\ pnode = [p \in Producers |-> NULL]
    /\ pprev = [p \in Producers |-> NULL]
    /\ cpc = "idle"
    /\ chead = NULL
    /\ cnext = NULL
    /\ own = Nodes
    /\ pos = [n \in Nodes |-> 0]
    /\ len = 0

-----------------------------------------------------------------------------
(* xMpscPush *)

(* node->next = NULL, then the exchange of the tail.                       *)
PushSwap(p, n) ==
    /\ ppc[p] = "idle"
    /\ n \in own
    /\ next' = [next EXCEPT ![n] = NULL]
    /\ tail' = n
    /\ pprev' = [pprev EXCEPT ![p] = tail]
    /\ pnode' = [pnode EXCEPT ![p] = n]
    /\ ppc' = [ppc EXCEPT ![p] = "link"]
    /\ own' = own \ {n}
    /\ pos' = [pos EXCEPT ![n] = len + 1]
    /\ len' = len + 1
    /\ UNCHANGED <<head, cpc, chead, cnext>>

(* The release-store that makes the node reachable.                        *)
PushLink(p) ==
    /\ ppc[p] = "link"
    /\ IF pprev[p] # NULL
         THEN next' = [next EXCEPT ![pprev[p]] = pnode[p]] /\ UNCHANGED head
         ELSE head' = pnode[p] /\ UNCHANGED next
    /\ ppc' = [ppc EXCEPT ![p] = "idle"]
    /\ UNCHANGED <<tail, pnode, pprev, cpc, chead, cnext, own, pos, len>>

-----------------------------------------------------------------------------
(* xMpscPop *)

(* The load of head.  A NULL head returns at once and changes nothing.     *)
PopLoadHead ==
    /\ cpc = "idle"
    /\ head # NULL
    /\ chead' = head
    /\ cpc' = "next"
    /\ UNCHANGED <<head, tail, next, ppc, pnode, pprev, cnext, own, pos, len>>

PopLoadNext ==
    /\ cpc = "next"
    /\ cnext' = next[chead]
    /\ cpc' = IF next[chead] = NULL THEN "castail" ELSE "advance"
    /\ UNCHANGED <<head, tail, next, ppc, pnode, pprev, chead, own, pos, len>>

(* History: the front node leaves the FIFO order.                          *)
LeaveFront ==
    /\ len' = len - 1
    /\ pos' = [n \in Nodes |-> IF pos[n] = 0 THEN 0 ELSE pos[n] - 1]

(* Mutant: a tail that has moved on is taken for a node that is alone.     *)
PopCasTailBlind ==
    /\ cpc = "castail"
    /\ tail' = NULL
    /\ cpc' = "cashead"
    /\ LeaveFront
    /\ UNCHANGED <<head, next, ppc, pnode, pprev, chead, cnext, own>>

(* CAS of the tail from _head to NULL.                                     *)
PopCasTail ==
    /\ cpc = "castail"
    /\ \/ /\ tail = chead
          /\ tail' = NULL
          /\ cpc' = "cashead"
          /\ LeaveFront
       \/ /\ tail # chead
          /\ cpc' = "spin"
          /\ UNCHANGED <<tail, pos, len>>
    /\ UNCHANGED <<head, next, ppc, pnode, pprev, chead, cnext, own>>

(* The spin on _head->next leaves once the link of the next node is there. *)
PopSpin ==
    /\ cpc = "spin"
    /\ next[chead] # NULL
    /\ cnext' = next[chead]
    /\ cpc' = "advance"
    /\ UNCHANGED <<head, tail, next, ppc, pnode, pprev, chead, own, pos, len>>

(* Mutant: the head is overwritten instead of compared (a lost push).      *)
PopCasHeadBlind ==
    /\ cpc = "cashead"
    /\ head' = NULL
    /\ cpc' = "idle"
    /\ own' = own \cup {chead}
    /\ UNCHANGED <<tail, next, ppc, pnode, pprev, chead, cnext, pos, len>>

(* CAS of the head from _head to NULL: a concurrent first push may have    *)
(* stored its node there already, and then the CAS fails and keeps it.     *)
PopCasHead ==
    /\ cpc = "cashead"
    /\ head' = IF head = chead THEN NULL ELSE head
    /\ cpc' = "idle"
    /\ own' = own \cup {chead}
    /\ UNCHANGED <<tail, next, ppc, pnode, pprev, chead, cnext, pos, len>>

PopAdvance ==
    /\ cpc = "advance"
    /\ head' = cnext
    /\ cpc' = "idle"
    /\ own' = own \cup {chead}
    /\ LeaveFront
    /\ UNCHANGED <<tail, next, ppc, pnode, pprev, chead, cnext>>

-----------------------------------------------------------------------------
Push(p) == (\E n \in Nodes : PushSwap(p, n)) \/ PushLink(p)
Pop == PopLoadHead \/ PopLoadNext \/ PopCasTail \/ PopSpin \/ PopCasHead \/ PopAdvance

Next == Pop \/ \E p \in Producers : Push(p)

(* A thread that has started an operation keeps running: a started push    *)
(* links its node, and the consumer pops again and again.                  *)
Fairness ==
    /\ \A p \in Producers : WF_vars(PushLink(p))
    /\ WF_vars(Pop)

Spec == Init /\ [][Next]_vars
FairSpec == Spec /\ Fairness

-----------------------------------------------------------------------------
(* Properties *)

TypeOK ==
    /\ head \in Ptr /\ tail \in Ptr
    /\ next \in [Nodes -> Ptr]
    /\ ppc \in [Producers -> {"idle", "link"}]
    /\ pnode \in [Producers -> Ptr]
    /\ pprev \in [Producers -> Ptr]
    /\ cpc \in {"idle", "next", "castail", "spin", "cashead", "advance"}
    /\ chead \in Ptr /\ cnext \in Ptr
    /\ cpc # "idle" => chead \in Nodes
    /\ own \in SUBSET Nodes
    /\ pos \in [Nodes -> Nat]
    /\ len \in Nat

Linking(p) == ppc[p] = "link"

(* The push of the node at the front of the queue has not stored head yet. *)
FrontStalled == \E p \in Producers : Linking(p) /\ pos[pnode[p]] = 1

(* A pop reports "empty" (mpsc.c:36) only when the queue is empty or the   *)
(* push of its front node is between its two steps: once every push has    *)
(* returned, no node is ever unreachable.                                  *)
EmptyIsEmpty == head = NULL => (len = 0 \/ FrontStalled)

(* The node a pop returns is the oldest one in the queue, and the consumer *)
(* never works on a node that a producer may already be pushing again.     *)
PopsTheFront ==
    /\ cpc \in {"next", "castail", "spin", "advance"} => pos[chead] = 1
    /\ cpc # "idle" => chead \notin own

(* Two callers never hold one node, and none is lost: every node is in the *)
(* hands of a caller, in the queue, or the one the consumer is returning.  *)
NodesConserved ==
    \A n \in Nodes :
        \/ n \in own /\ pos[n] = 0
        \/ n \notin own /\ pos[n] > 0
        \/ n \notin own /\ pos[n] = 0 /\ cpc = "cashead" /\ n = chead

(* The shape of the list, in terms of the FIFO order, at every step of     *)
(* every push and pop.  It is inductive and implies the three above.       *)
ListShape ==
    /\ \A n \in Nodes : pos[n] <= len
    /\ \A m, n \in Nodes : pos[m] > 0 /\ pos[m] = pos[n] => m = n
    /\ \A i \in 1 .. len : \E n \in Nodes : pos[n] = i
    /\ IF tail = NULL THEN len = 0 ELSE len > 0 /\ pos[tail] = len
    /\ \A n \in Nodes : pos[n] > 0 =>
          IF next[n] = NULL
            THEN pos[n] = len \/ \E p \in Producers : Linking(p) /\ pprev[p] = n
            ELSE pos[next[n]] = pos[n] + 1

(* A push between its two steps: its node waits behind _tail, which has no *)
(* successor yet, or in front of a head that is empty or being emptied.    *)
PushShape ==
    /\ \A p \in Producers : Linking(p) =>
          /\ pnode[p] # NULL
          /\ pos[pnode[p]] > 0
          /\ IF pprev[p] = NULL
               THEN pos[pnode[p]] = 1 /\ (head = NULL \/ (cpc = "cashead" /\ head = chead))
               ELSE /\ pos[pprev[p]] > 0
                    /\ pos[pnode[p]] = pos[pprev[p]] + 1
                    /\ next[pprev[p]] = NULL
    /\ \A p, r \in Producers : Linking(p) /\ Linking(r) /\ pnode[p] = pnode[r] => p = r

HeadShape ==
    /\ head # NULL => pos[head] = 1 \/ (cpc = "cashead" /\ head = chead)
    /\ len > 0 => \/ head # NULL /\ pos[head] = 1
                  \/ \E p \in Producers : Linking(p) /\ pprev[p] = NULL

PopShape ==
    /\ cpc \in {"next", "castail", "spin", "advance"} =>
          chead # NULL /\ head = chead /\ pos[chead] = 1
    /\ cpc = "advance" => cnext # NULL /\ cnext = next[chead]
    /\ cpc = "spin" => len > 1
    /\ cpc = "cashead" => chead # NULL /\ pos[chead] = 0 /\ chead \notin own

Inv == TypeOK /\ NodesConserved /\ ListShape /\ PushShape /\ HeadShape /\ PopShape

(* Every node that is pushed is popped, so in particular the spin of a pop *)
(* (mpsc.c:49, "it is safe to spin") ends.                                 *)
EveryNodePopped == \A n \in Nodes : pos[n] > 0 ~> pos[n] = 0

-----------------------------------------------------------------------------
(* Refinement: the algorithm implements the abstract queue.                *)
Order == [i \in 1 .. len |-> CHOOSE n \in Nodes : pos[n] = i]
Queue == INSTANCE MpscQueue WITH
            q <- Order,
            stalled <- {pnode[p] : p \in {r \in Producers : Linking(r)}}

(* xMpsc is a FIFO queue whose nodes leave in exchange order, once each,   *)
(* and never before the push of the front node has linked it.              *)
ImplementsQueue == Queue!QSpec

-----------------------------------------------------------------------------
(***************************************************************************)
(* The unbounded list of libx++, src/libxpp/xpp/sync/list.h (UnboundedTx   *)
(* and UnboundedRx), behind mpsc::channel<T>().  push takes the steps of   *)
(* xMpscPush and try_pop those of xMpscPop, so they are the actions        *)
(* above, but for the last node: the head is then stored, not compared.    *)
(***************************************************************************)
(* push: allocate a node, exchange m_tail, link it.                        *)
ListPush(p) == (\E n \in Nodes : PushSwap(p, n)) \/ PushLink(p)

(* try_pop up to the node's successor.                                     *)
ListPopNext == PopLoadHead \/ PopLoadNext \/ PopCasTail \/ PopSpin

(* try_pop: m_head.store(next) of a node that was alone, and its delete.   *)
ListPopLast ==
    /\ cpc = "cashead"
    /\ head' = NULL
    /\ cpc' = "idle"
    /\ own' = own \cup {chead}
    /\ UNCHANGED <<tail, next, ppc, pnode, pprev, chead, cnext, pos, len>>

ListNext == (\E p \in Producers : ListPush(p)) \/ ListPopNext \/ ListPopLast \/ PopAdvance

ListSpec == Init /\ [][ListNext]_vars
=============================================================================
