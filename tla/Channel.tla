------------------------------ MODULE Channel -------------------------------
(***************************************************************************)
(* The bounded channel of libx++: the ring buffer of                       *)
(* src/libxpp/xpp/sync/list.h (Tx, Rx), the parking of senders and of the  *)
(* receiver in sync/mpsc.h (Chan, SendPromiseNode, RecvPromiseNode) and    *)
(* the receiver's waker cell, AtomicPromiseWaker of promise_waker.h.  One  *)
(* action per access to shared memory or per critical section of m_tx_mtx. *)
(* A wake leaves a token that lets its task poll again (external: the      *)
(* event loop of the task, modelled in EventLoop).                         *)
(***************************************************************************)
EXTENDS Naturals, Integers, Sequences, FiniteSets, TLC

CONSTANTS
    Senders,      \* threads, each with a Sender of its own
    Cap,          \* m_cap
    MaxSends,     \* bound: send() and try_send() calls of one sender
    TrySends,     \* TRUE when try_send() is used beside send()
    MaxOdd,       \* bound: calls of close(), parked sends that are dropped, and polls of a
                  \* parked send for another reason than its wake, together
    None

ASSUME ChannelAssumption ==
    /\ IsFiniteSet(Senders) /\ None \notin Senders
    /\ Cap \in Nat \ {0} /\ MaxSends \in Nat /\ MaxOdd \in Nat /\ TrySends \in BOOLEAN

VARIABLES
    buf, count, wpos, rpos,       \* the ring: slots, m_count, m_wpos, m_rpos
    closed, senders,              \* m_closed, m_sender_count
    mtx, writers, waiters,        \* m_tx_mtx, the FIFO of parked nodes, m_tx_waiter_count
    cell, waker,                  \* AtomicPromiseWaker: m_state, m_waker is set
    spc, mode, claim, calls,      \* per sender: step, kind of push, its slot, calls made
    registered, swoken, chain,    \* per sender: m_registered, wake token; nodes close() detached
    rpc, rnode, second, rwoken,   \* receiver: step, node to wake, after registering, wake token
    got, sent, odd                \* history: values received, values pushed; bound used

ring == <<buf, count, wpos>>
fifo == <<mtx, writers, waiters>>
snd  == <<spc, mode, claim, calls, registered, swoken, chain>>
rcv  == <<rpos, rpc, rnode, second, rwoken, got>>
vars == <<buf, count, wpos, rpos, closed, senders, mtx, writers, waiters, cell, waker, spc, mode,
          claim, calls, registered, swoken, chain, rpc, rnode, second, rwoken, got, sent,
          odd>>

RangeOf(q) == {q[i] : i \in 1..Len(q)}
Value(s) == <<s, calls[s]>>

Init ==
    /\ buf = [i \in 0..Cap - 1 |-> [ready |-> FALSE, data |-> None]]
    /\ count = 0 /\ wpos = 0 /\ rpos = 0
    /\ closed = FALSE /\ senders = Cardinality(Senders)
    /\ mtx = None /\ writers = <<>> /\ waiters = 0
    /\ cell = "waiting" /\ waker = FALSE
    /\ spc = [s \in Senders |-> "idle"] /\ mode = [s \in Senders |-> "fast"]
    /\ claim = [s \in Senders |-> 0] /\ calls = [s \in Senders |-> 0]
    /\ registered = [s \in Senders |-> FALSE] /\ swoken = [s \in Senders |-> FALSE]
    /\ chain = [s \in Senders |-> <<>>]
    /\ rpc = "poll" /\ rnode = None /\ second = FALSE /\ rwoken = FALSE
    /\ got = <<>> /\ sent = {} /\ odd = 0

Step(s, pc) == spc' = [spc EXCEPT ![s] = pc]

(* The poll is over: a node that is still in the FIFO leaves it when it is *)
(* destroyed.                                                              *)
Done(s) == IF registered[s] THEN "unregister" ELSE "idle"

-----------------------------------------------------------------------------
(* Sender: the calls, and the poll of a SendPromiseNode.                   *)

(* send(): the first poll of a new node; try_send(): no node.              *)
Send(s) ==
    /\ spc[s] = "idle" /\ calls[s] < MaxSends
    /\ calls' = [calls EXCEPT ![s] = @ + 1]
    /\ \/ mode' = [mode EXCEPT ![s] = "fast"]
       \/ TrySends /\ mode' = [mode EXCEPT ![s] = "try"]
    /\ Step(s, "check")
    /\ UNCHANGED <<ring, rcv, closed, senders, fifo, cell, waker, claim, registered, swoken,
                   chain, sent, odd>>

(* A woken node is polled again, from the start.                           *)
Poll(s) ==
    /\ spc[s] = "parked" /\ swoken[s]
    /\ swoken' = [swoken EXCEPT ![s] = FALSE]
    /\ mode' = [mode EXCEPT ![s] = "fast"]
    /\ Step(s, "check")
    /\ UNCHANGED <<ring, rcv, closed, senders, fifo, cell, waker, claim, calls, registered,
                   chain, sent, odd>>

(* A node inside a combinator is polled when another branch wakes the task.*)
SpuriousPoll(s) ==
    /\ spc[s] = "parked" /\ ~swoken[s]
    /\ odd < MaxOdd /\ odd' = odd + 1
    /\ mode' = [mode EXCEPT ![s] = "fast"]
    /\ Step(s, "check")
    /\ UNCHANGED <<ring, rcv, closed, senders, fifo, cell, waker, claim, calls, registered,
                   swoken, chain, sent>>

(* The first load of m_closed.                                             *)
CheckClosed(s) ==
    /\ spc[s] = "check"
    /\ Step(s, CASE ~closed -> "claim"
                 [] closed /\ mode[s] = "try" -> "idle"
                 [] OTHER -> "lock")
    /\ UNCHANGED <<ring, rcv, closed, senders, fifo, cell, waker, mode, claim, calls,
                   registered, swoken, chain, sent, odd>>

(* try_push: claim capacity.                                               *)
Claim(s) ==
    /\ spc[s] = "claim"
    /\ count' = count + 1
    /\ Step(s, IF count >= Cap THEN "undo" ELSE "slot")
    /\ UNCHANGED <<buf, wpos, rcv, closed, senders, fifo, cell, waker, mode, claim, calls,
                   registered, swoken, chain, sent, odd>>

(* try_push: full, the claim is undone; then what the caller does next.    *)
Undo(s) ==
    /\ spc[s] = "undo"
    /\ count' = count - 1
    /\ Step(s, CASE mode[s] = "fast" -> "lock"
                 [] mode[s] = "locked" -> "enqueue"
                 [] mode[s] = "try" -> "idle")
    /\ UNCHANGED <<buf, wpos, rcv, closed, senders, fifo, cell, waker, mode, claim, calls,
                   registered, swoken, chain, sent, odd>>

(* try_push: claim a slot.                                                 *)
ClaimSlot(s) ==
    /\ spc[s] = "slot"
    /\ claim' = [claim EXCEPT ![s] = wpos % Cap]
    /\ wpos' = wpos + 1
    /\ Step(s, "write")
    /\ UNCHANGED <<buf, count, rcv, closed, senders, fifo, cell, waker, mode, calls,
                   registered, swoken, chain, sent, odd>>

(* try_push: the value, then ready.  A slow path holds m_tx_mtx until here.*)
Write(s) ==
    /\ spc[s] = "write"
    /\ buf' = [buf EXCEPT ![claim[s]] = [ready |-> TRUE, data |-> Value(s)]]
    /\ sent' = sent \cup {Value(s)}
    /\ mtx' = IF mode[s] = "locked" THEN None ELSE mtx
    /\ Step(s, "wake")
    /\ UNCHANGED <<count, wpos, rcv, closed, senders, writers, waiters, cell, waker, mode,
                   claim, calls, registered, swoken, chain, odd>>

(* The slow path takes the mutex; m_closed is looked at first.             *)
Lock(s) ==
    /\ spc[s] = "lock" /\ mtx = None
    /\ IF closed
       THEN Step(s, Done(s)) /\ UNCHANGED <<mtx, mode>>
       ELSE Step(s, "claim") /\ mtx' = s /\ mode' = [mode EXCEPT ![s] = "locked"]
    /\ UNCHANGED <<ring, rcv, closed, senders, writers, waiters, cell, waker, claim, calls,
                   registered, swoken, chain, sent, odd>>

(* Still full: the node joins the FIFO, once, and the mutex is released.   *)
Enqueue(s) ==
    /\ spc[s] = "enqueue"
    /\ IF registered[s]
       THEN UNCHANGED <<writers, waiters, registered>>
       ELSE /\ writers' = Append(writers, s) /\ waiters' = waiters + 1
            /\ registered' = [registered EXCEPT ![s] = TRUE]
    /\ mtx' = None
    /\ Step(s, "parked")
    /\ UNCHANGED <<ring, rcv, closed, senders, cell, waker, mode, claim, calls, swoken,
                   chain, sent, odd>>

-----------------------------------------------------------------------------
(* AtomicPromiseWaker::wake on the receiver's cell.                        *)

(* The fetch_or: only the first of several wakers goes on to fire, and a   *)
(* registration in progress is told to fire for itself.                    *)
CellWake(s) ==
    /\ spc[s] = "wake"
    /\ cell' = CASE cell = "waiting" -> "waking"
                 [] cell = "registering" -> "both"
                 [] OTHER -> cell
    /\ Step(s, IF cell = "waiting" THEN "fire" ELSE Done(s))
    /\ UNCHANGED <<ring, rcv, closed, senders, fifo, waker, mode, claim, calls, registered,
                   swoken, chain, sent, odd>>

(* Fire the stored waker, if any.                                          *)
CellFire(s) ==
    /\ spc[s] = "fire"
    /\ rwoken' = (rwoken \/ waker)
    /\ Step(s, "release")
    /\ UNCHANGED <<ring, rpos, rpc, rnode, second, got, closed, senders, fifo, cell, waker,
                   mode, claim, calls, registered, swoken, chain, sent, odd>>

CellRelease(s) ==
    /\ spc[s] = "release"
    /\ cell' = "waiting"
    /\ Step(s, Done(s))
    /\ UNCHANGED <<ring, rcv, closed, senders, fifo, waker, mode, claim, calls, registered,
                   swoken, chain, sent, odd>>

-----------------------------------------------------------------------------
(* Sender: close, drop and the cancellation of a parked send.              *)

(* close(), explicit.                                                      *)
Close(s) ==
    /\ spc[s] = "idle" /\ calls[s] <= MaxSends
    /\ odd < MaxOdd /\ odd' = odd + 1
    /\ closed' = TRUE
    /\ Step(s, "wakeall")
    /\ UNCHANGED <<ring, rcv, senders, fifo, cell, waker, mode, claim, calls, registered,
                   swoken, chain, sent>>

(* ~Sender: the last one closes the channel.                               *)
Drop(s) ==
    /\ spc[s] = "idle" /\ calls[s] <= MaxSends
    /\ senders' = senders - 1
    /\ calls' = [calls EXCEPT ![s] = MaxSends + 1]
    /\ IF senders = 1
       THEN closed' = TRUE /\ Step(s, "wakeall")
       ELSE UNCHANGED <<closed, spc>>
    /\ UNCHANGED <<ring, rcv, fifo, cell, waker, mode, claim, registered, swoken, chain,
                   sent, odd>>

(* wake_all_writers: the FIFO is detached under the mutex ...              *)
DetachAll(s) ==
    /\ spc[s] = "wakeall" /\ mtx = None
    /\ chain' = [chain EXCEPT ![s] = writers]
    /\ writers' = <<>> /\ waiters' = waiters - Len(writers)
    /\ registered' = [t \in Senders |-> registered[t] /\ t \notin RangeOf(writers)]
    /\ Step(s, "fireall")
    /\ UNCHANGED <<ring, rcv, closed, senders, mtx, cell, waker, mode, claim, calls, swoken,
                   sent, odd>>

(* ... and its nodes are woken outside it; then the receiver.              *)
FireAll(s) ==
    /\ spc[s] = "fireall"
    /\ IF chain[s] = <<>>
       THEN Step(s, "wake") /\ UNCHANGED <<chain, swoken>>
       ELSE /\ swoken' = [swoken EXCEPT ![Head(chain[s])] = TRUE]
            /\ chain' = [chain EXCEPT ![s] = Tail(@)]
            /\ UNCHANGED spc
    /\ UNCHANGED <<ring, rcv, closed, senders, fifo, cell, waker, mode, claim, calls,
                   registered, sent, odd>>

(* ~SendPromiseNode: m_registered is read ...                              *)
Cancel(s) ==
    /\ spc[s] = "parked"
    /\ odd < MaxOdd /\ odd' = odd + 1
    /\ IF registered[s]
       THEN Step(s, "unregister") /\ UNCHANGED swoken
       ELSE Step(s, "idle") /\ swoken' = [swoken EXCEPT ![s] = FALSE]
    /\ UNCHANGED <<ring, rcv, closed, senders, fifo, cell, waker, mode, claim, calls,
                   registered, chain, sent>>

(* ... and unregister_locked unlinks the node under the mutex.  A node     *)
(* that was taken meanwhile has no links, and then both ends are cleared.  *)
Unregister(s) ==
    /\ spc[s] = "unregister" /\ mtx = None
    /\ \/ \E i \in DOMAIN writers :
              /\ writers[i] = s
              /\ writers' = SubSeq(writers, 1, i - 1) \o SubSeq(writers, i + 1, Len(writers))
       \/ s \notin RangeOf(writers) /\ writers' = <<>>
    /\ waiters' = waiters - 1
    /\ registered' = [registered EXCEPT ![s] = FALSE]
    /\ swoken' = [swoken EXCEPT ![s] = FALSE]
    /\ Step(s, "idle")
    /\ UNCHANGED <<ring, rcv, closed, senders, mtx, cell, waker, mode, claim, calls, chain,
                   sent, odd>>

-----------------------------------------------------------------------------
(* Receiver: the poll of a RecvPromiseNode, called again and again.        *)

others == <<closed, senders, fifo, spc, mode, claim, calls, registered, chain, sent, odd>>
RStep(pc) == rpc' = pc

(* A poll: the first one of a recv(), or one after a wake.                 *)
RPoll ==
    /\ rpc \in {"poll", "parked"} /\ (rpc = "parked" => rwoken)
    /\ rwoken' = (rwoken /\ rpc = "poll")
    /\ second' = FALSE
    /\ RStep("load")
    /\ UNCHANGED <<ring, rpos, rnode, got, cell, waker, swoken, others>>

(* try_pop: m_count.                                                       *)
PopLoad ==
    /\ rpc = "load"
    /\ RStep(IF count = 0 THEN "closed" ELSE "spin")
    /\ UNCHANGED <<ring, rpos, rnode, second, rwoken, got, cell, waker, swoken, others>>

(* Mutant of PopTake: the producer is not waited for.                      *)
PopTakeEarly ==
    /\ rpc = "spin"
    /\ got' = Append(got, buf[rpos % Cap].data)
    /\ buf' = [buf EXCEPT ![rpos % Cap] = [ready |-> FALSE, data |-> None]]
    /\ rpos' = rpos + 1
    /\ RStep("dec")
    /\ UNCHANGED <<count, wpos, rnode, second, rwoken, cell, waker, swoken, others>>

(* try_pop: spin until the slot is ready, then take the value.             *)
PopTake ==
    /\ rpc = "spin" /\ buf[rpos % Cap].ready
    /\ got' = Append(got, buf[rpos % Cap].data)
    /\ buf' = [buf EXCEPT ![rpos % Cap] = [ready |-> FALSE, data |-> None]]
    /\ rpos' = rpos + 1
    /\ RStep("dec")
    /\ UNCHANGED <<count, wpos, rnode, second, rwoken, cell, waker, swoken, others>>

PopDec ==
    /\ rpc = "dec"
    /\ count' = count - 1
    /\ RStep("untake")
    /\ UNCHANGED <<buf, wpos, rpos, rnode, second, rwoken, got, cell, waker, swoken, others>>

(* take_waker: fails while a wake is in flight.  Then the value is         *)
(* returned after waking a sender, or the end of the channel is.           *)
TakeWaker ==
    /\ rpc \in {"untake", "endtake"}
    /\ IF cell = "waiting"
       THEN waker' = FALSE /\ cell' = "registering" /\ RStep(IF rpc = "untake" THEN "taken" ELSE "endtaken")
       ELSE UNCHANGED <<cell, waker>> /\ RStep(IF rpc = "untake" THEN "waiters" ELSE "ended")
    /\ UNCHANGED <<ring, rpos, rnode, second, rwoken, got, swoken, others>>

TakeWakerEnd ==
    /\ rpc \in {"taken", "endtaken"}
    /\ cell' = "waiting"
    /\ RStep(IF rpc = "taken" THEN "waiters" ELSE "ended")
    /\ UNCHANGED <<ring, rpos, rnode, second, rwoken, got, waker, swoken, others>>

(* wake_one_writer: nobody parked, or take the front of the FIFO ...       *)
WakeOneLoad ==
    /\ rpc = "waiters"
    /\ RStep(IF waiters = 0 THEN "poll" ELSE "take")
    /\ UNCHANGED <<ring, rpos, rnode, second, rwoken, got, cell, waker, swoken, others>>

WakeOneTake ==
    /\ rpc = "take" /\ mtx = None
    /\ IF writers = <<>>
       THEN RStep("poll") /\ UNCHANGED <<writers, waiters, registered, rnode>>
       ELSE /\ rnode' = <<Head(writers), calls[Head(writers)]>>
            /\ registered' = [registered EXCEPT ![Head(writers)] = FALSE]
            /\ writers' = Tail(writers) /\ waiters' = waiters - 1
            /\ RStep("firew")
    /\ UNCHANGED <<ring, rpos, second, rwoken, got, closed, senders, mtx, cell, waker, spc,
                   mode, claim, calls, swoken, chain, sent, odd>>

(* ... and wake it, outside the mutex.                                     *)
WakeOneFire ==
    /\ rpc = "firew"
    /\ swoken' = [swoken EXCEPT ![rnode[1]] = @ \/ (spc[rnode[1]] # "idle" /\ calls[rnode[1]] = rnode[2])]
    /\ rnode' = None
    /\ RStep("poll")
    /\ UNCHANGED <<ring, rpos, second, rwoken, got, cell, waker, others>>

(* Nothing popped: m_closed, then m_count again.                           *)
RClosed ==
    /\ rpc = "closed"
    /\ RStep(CASE closed -> "empty"
               [] ~closed /\ second -> "parked"
               [] OTHER -> "register")
    /\ UNCHANGED <<ring, rpos, rnode, second, rwoken, got, cell, waker, swoken, others>>

REmpty ==
    /\ rpc = "empty"
    /\ RStep(CASE count = 0 -> "endtake"
               [] count # 0 /\ second -> "parked"
               [] OTHER -> "register")
    /\ UNCHANGED <<ring, rpos, rnode, second, rwoken, got, cell, waker, swoken, others>>

(* register_by_ref: the CAS; when a wake is in flight the task wakes       *)
(* itself instead of registering.                                          *)
Register ==
    /\ rpc = "register"
    /\ second' = TRUE
    /\ IF cell = "waiting"
       THEN cell' = "registering" /\ RStep("store") /\ UNCHANGED rwoken
       ELSE rwoken' = TRUE /\ RStep("load") /\ UNCHANGED cell
    /\ UNCHANGED <<ring, rpos, rnode, got, waker, swoken, others>>

RegisterStore ==
    /\ rpc = "store"
    /\ waker' = TRUE
    /\ RStep("exchange")
    /\ UNCHANGED <<ring, rpos, rnode, second, rwoken, got, cell, swoken, others>>

(* Mutant of RegisterExchange: no second try_pop after registering.        *)
RegisterNoRecheck ==
    /\ rpc = "exchange"
    /\ cell' = "waiting"
    /\ rwoken' = (rwoken \/ cell = "both")
    /\ RStep("parked")
    /\ UNCHANGED <<ring, rpos, rnode, second, got, waker, swoken, others>>

(* The exchange back: a wake that came meanwhile is fired here; then the   *)
(* re-check.                                                               *)
RegisterExchange ==
    /\ rpc = "exchange"
    /\ cell' = "waiting"
    /\ rwoken' = (rwoken \/ cell = "both")
    /\ RStep("load")
    /\ UNCHANGED <<ring, rpos, rnode, second, got, waker, swoken, others>>

-----------------------------------------------------------------------------
Symmetry == Permutations(Senders)

Push(s) == CheckClosed(s) \/ Claim(s) \/ Undo(s) \/ ClaimSlot(s) \/ Write(s) \/ Lock(s) \/ Enqueue(s)
Wake(s) == CellWake(s) \/ CellFire(s) \/ CellRelease(s)
Shut(s) == DetachAll(s) \/ FireAll(s) \/ Unregister(s)
Recv ==
    \/ RPoll \/ PopLoad \/ PopTake \/ PopDec \/ TakeWaker \/ TakeWakerEnd
    \/ WakeOneLoad \/ WakeOneTake \/ WakeOneFire
    \/ RClosed \/ REmpty \/ Register \/ RegisterStore \/ RegisterExchange

Next ==
    \/ Recv
    \/ \E s \in Senders :
           \/ Send(s) \/ Poll(s) \/ SpuriousPoll(s) \/ Cancel(s) \/ Close(s) \/ Drop(s)
           \/ Push(s) \/ Wake(s) \/ Shut(s)

Spec == Init /\ [][Next]_vars

-----------------------------------------------------------------------------
Steps == {"idle", "check", "claim", "undo", "slot", "write", "lock", "enqueue", "parked",
          "wake", "fire", "release", "wakeall", "fireall", "unregister"}
RSteps == {"poll", "load", "spin", "dec", "untake", "taken", "endtake", "endtaken", "waiters",
           "take", "firew", "closed", "empty", "register", "store", "exchange", "parked", "ended"}
Values == Senders \X (1..MaxSends)

TypeOK ==
    /\ buf \in [0..Cap - 1 -> [ready : BOOLEAN, data : Values \cup {None}]]
    /\ count \in Nat /\ wpos \in Nat /\ rpos \in Nat /\ senders \in Nat /\ closed \in BOOLEAN
    /\ mtx \in Senders \cup {None} /\ writers \in Seq(Senders) /\ waiters \in Int
    /\ cell \in {"waiting", "registering", "waking", "both"} /\ waker \in BOOLEAN
    /\ spc \in [Senders -> Steps] /\ mode \in [Senders -> {"fast", "locked", "try"}]
    /\ registered \in [Senders -> BOOLEAN] /\ swoken \in [Senders -> BOOLEAN]
    /\ rpc \in RSteps /\ rwoken \in BOOLEAN /\ second \in BOOLEAN
    /\ got \in Seq(Values) /\ sent \subseteq Values

(* The receiver gets every value once, the values of one sender in the     *)
(* order it sent them, and no value that was not pushed.                   *)
Fifo ==
    /\ RangeOf(got) \subseteq sent
    /\ \A i, j \in 1..Len(got) : i < j /\ got[i][1] = got[j][1] => got[i][2] < got[j][2]

(* A producer never writes into a slot whose value is still unread, and    *)
(* no two producers write to one slot.                                     *)
NoOverwrite ==
    \A s \in Senders : spc[s] = "write" =>
        /\ ~buf[claim[s]].ready
        /\ \A t \in Senders : spc[t] = "write" /\ claim[t] = claim[s] => t = s

(* What the receiver of a channel gets was sent, in the order of each      *)
(* sender, and no producer writes into a slot that is not its own or still *)
(* unread (list.h:110-128, list.h:174-204).                                *)
ChannelInOrder == TypeOK /\ Fifo /\ NoOverwrite

(* A push or a close that has not yet woken the receiver.                  *)
Waking == \E s \in Senders : spc[s] \in {"slot", "write", "wakeall", "fireall", "wake", "fire"}

(* The receiver does not sleep on a value, nor on the end of the channel:  *)
(* while a slot is ready or the channel closed, a parked receiver has a    *)
(* wake, or a sender is about to give it one (mpsc.h:24-26).               *)
ReceiverNotStranded ==
    rpc = "parked" /\ ~rwoken =>
        \/ Waking
        \/ ~closed /\ \A i \in 0..Cap - 1 : ~buf[i].ready

=============================================================================
