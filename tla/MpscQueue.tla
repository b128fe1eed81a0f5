----------------------------- MODULE MpscQueue -----------------------------
(***************************************************************************)
(* What a multi-producer single-consumer queue promises (libx mpsc.h).     *)
(*                                                                         *)
(* A push takes effect in two steps.  The exchange of the tail pointer     *)
(* fixes the place of the node in the FIFO order; the link that follows    *)
(* makes the node reachable from the consumer.  Between the two the node   *)
(* is stalled: it hides itself and everything behind it, and a pop finds   *)
(* "no node" although pushes that began later have already returned.       *)
(***************************************************************************)
EXTENDS Naturals, Sequences

CONSTANT Nodes

VARIABLES
    q,        \* the nodes in the queue, front first, in exchange order
    stalled   \* the nodes whose push has not linked them yet

qvars == <<q, stalled>>

QInit == q = <<>> /\ stalled = {}

(* A push takes its place at the back, still unlinked.                     *)
Enqueue(n) ==
    /\ \A i \in 1 .. Len(q) : q[i] # n
    /\ q' = Append(q, n)
    /\ stalled' = stalled \cup {n}

(* The push returns: the node is reachable once everything before it is.   *)
Publish(n) ==
    /\ n \in stalled
    /\ stalled' = stalled \ {n}
    /\ UNCHANGED q

(* A pop removes the front node, never a stalled one.                      *)
Dequeue ==
    /\ q # <<>>
    /\ Head(q) \notin stalled
    /\ q' = Tail(q)
    /\ UNCHANGED stalled

QNext == Dequeue \/ \E n \in Nodes : Enqueue(n) \/ Publish(n)

QSpec == QInit /\ [][QNext]_qvars
=============================================================================
