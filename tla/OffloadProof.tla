---------------------------- MODULE OffloadProof ----------------------------
(***************************************************************************)
(* For any number of work items and submissions, whether or not the group  *)
(* frees its tasks early: an offloaded work is called back once, is owned  *)
(* by one side at a time, and no worker reaches the loop once it is freed. *)
(*                                                                         *)
(* The argument: the item is with the worker until the push and on the     *)
(* done queue, or in the hands of the loop thread, after it; and inflight  *)
(* counts exactly the workers that may still reach the loop, so that a     *)
(* destroy that has seen 0 is alone with what is on the done queue.        *)
(***************************************************************************)
EXTENDS Offload, FiniteSetTheorems, SequenceTheorems, TLAPS

Queued(w) == \E i \in DOMAIN doneq : doneq[i] = w

(* Where an item is, by where its worker and the loop thread are.          *)
Placed ==
    /\ \A w \in Works : opc[w] # "idle" <=> task[w] = "RUNNING"
    /\ \A w \in Works : item[w] = "worker" <=> task[w] = "QUEUED" \/ opc[w] \in {"fn", "push"}
    /\ \A w \in Works : item[w] = "doneq" <=> Queued(w) \/ cur = w

QueueOnce ==
    /\ \A i, j \in DOMAIN doneq : doneq[i] = doneq[j] => i = j
    /\ \A i \in DOMAIN doneq : doneq[i] # cur
    /\ cur # NoWork <=> lpc \in {"taskwait", "cleanupwait"}

(* The works whose worker has yet to reach the loop for the last time.     *)
Flying == {w \in Works : task[w] = "QUEUED" \/ opc[w] \in {"fn", "push", "wake", "dec"}}

InflightExact == inflight = Cardinality(Flying)

Ending ==
    /\ lpc \in {"cleanup", "cleanupwait", "gone"} => inflight = 0
    /\ lpc = "gone" => doneq = <<>>

(* No callback before the item is freed, and one at most when it is.       *)
Called ==
    /\ \A w \in Works : item[w] # "free" => dones[w] = 0 /\ oncancels[w] = 0
    /\ \A w \in Works : dones[w] + oncancels[w] <= 1 /\ (cancelled[w] => dones[w] = 0)
    /\ lpc = "taskwait" => ~cancelled[cur]

IInv == TypeOK /\ Placed /\ QueueOnce /\ InflightExact /\ Ending /\ Called

(* The pop of a queue: every other entry moves up by one.                  *)
LEMMA TailEntries ==
    ASSUME NEW S, NEW s \in Seq(S), s # <<>>
    PROVE  /\ Head(s) = s[1] /\ 1 \in DOMAIN s
           /\ Tail(s) \in Seq(S)
           /\ DOMAIN Tail(s) = 1 .. Len(s) - 1 /\ DOMAIN s = 1 .. Len(s) /\ Len(s) \in Nat
           /\ \A i \in DOMAIN Tail(s) : i + 1 \in DOMAIN s /\ Tail(s)[i] = s[i + 1]
           /\ \A i \in DOMAIN s : i # 1 => i - 1 \in DOMAIN Tail(s) /\ Tail(s)[i - 1] = s[i]
  OBVIOUS

(* The push of a queue: every entry stays where it is.                     *)
LEMMA AppendEntries ==
    ASSUME NEW S, NEW s \in Seq(S), NEW x \in S
    PROVE  /\ Append(s, x) \in Seq(S)
           /\ DOMAIN Append(s, x) = 1 .. Len(s) + 1 /\ DOMAIN s = 1 .. Len(s) /\ Len(s) \in Nat
           /\ Append(s, x)[Len(s) + 1] = x
           /\ \A i \in DOMAIN s : Append(s, x)[i] = s[i]
  OBVIOUS

(* A queue without duplicates: what is popped is gone, the rest is left.   *)
LEMMA TailMembers ==
    ASSUME NEW S, NEW s \in Seq(S), s # <<>>,
           \A i, j \in DOMAIN s : s[i] = s[j] => i = j
    PROVE  /\ \A i, j \in DOMAIN Tail(s) : Tail(s)[i] = Tail(s)[j] => i = j
           /\ \A i \in DOMAIN Tail(s) : Tail(s)[i] # Head(s)
           /\ \A x : x # Head(s) =>
                ((\E i \in DOMAIN Tail(s) : Tail(s)[i] = x) <=> (\E i \in DOMAIN s : s[i] = x))
  <1>1. /\ \A i, j \in DOMAIN Tail(s) : Tail(s)[i] = Tail(s)[j] => i = j
        /\ \A i \in DOMAIN Tail(s) : Tail(s)[i] # Head(s)
    BY TailEntries
  <1>2. ASSUME NEW x, x # Head(s), NEW i \in DOMAIN Tail(s), Tail(s)[i] = x
        PROVE  \E j \in DOMAIN s : s[j] = x
    BY <1>2, TailEntries
  <1>3. ASSUME NEW x, x # Head(s), NEW j \in DOMAIN s, s[j] = x
        PROVE  \E i \in DOMAIN Tail(s) : Tail(s)[i] = x
    BY <1>3, TailEntries
  <1>4. QED
    BY Zenon, <1>1, <1>2, <1>3

-----------------------------------------------------------------------------
LEMMA FiniteFlying == IsFiniteSet(Flying) /\ Cardinality(Flying) \in Nat
  <1>1. Flying \subseteq Works
    BY DEF Flying
  <1>2. QED
    BY <1>1, OffloadAssumption, FS_Subset, FS_CardinalityType

LEMMA InitIInv == Init => IInv
  <1> SUFFICES ASSUME Init PROVE IInv
    OBVIOUS
  <1>0. doneq \in Seq(Works) /\ inflight \in Nat /\ submits \in Nat
        /\ dones \in [Works -> Nat] /\ oncancels \in [Works -> Nat]
    BY DEF Init
  <1>1. TypeOK
    BY Zenon, <1>0 DEF Init, TypeOK
  <1>2. Placed /\ QueueOnce
    BY OffloadAssumption DEF Init, Placed, Queued, QueueOnce
  <1>3. InflightExact
    <2>1. Flying = {}
      BY DEF Init, Flying
    <2>2. QED
      BY <2>1, FS_EmptySet DEF Init, InflightExact
  <1>4. Ending /\ Called
    BY DEF Init, Ending, Called
  <1>5. QED
    BY <1>1, <1>2, <1>3, <1>4 DEF IInv

-----------------------------------------------------------------------------
(* The worker. *)

(* A step within the worker that does not move the item.                   *)
LEMMA TaskStartsKeeps == ASSUME IInv, NEW w \in Works, TaskStarts(w) PROVE IInv'
  <1> USE DEF IInv, history
  <1>0. /\ task[w] = "QUEUED" /\ task' = [task EXCEPT ![w] = "RUNNING"]
        /\ opc' = [opc EXCEPT ![w] = "fn"]
        /\ UNCHANGED <<item, note, cancelled, doneq, inflight, lpc, cur, dones, oncancels, submits>>
    BY DEF TaskStarts
  <1>1. TypeOK'
    BY <1>0 DEF TypeOK
  <1>2. Placed' /\ QueueOnce'
    BY <1>0 DEF Placed, Queued, QueueOnce, TypeOK
  <1>3. Flying' = Flying
    BY <1>0 DEF Flying, TypeOK
  <1>4. InflightExact' /\ Ending' /\ Called'
    BY <1>0, <1>3 DEF InflightExact, Ending, Called
  <1>5. QED
    BY <1>1, <1>2, <1>4

LEMMA WorkerMovesKeeps ==
  ASSUME IInv, NEW w \in Works, WorkReturns(w) \/ WorkerWake(w) PROVE IInv'
  <1> USE DEF IInv, history
  <1>0. /\ \/ opc[w] = "fn" /\ opc' = [opc EXCEPT ![w] = "push"]
           \/ opc[w] = "wake" /\ opc' = [opc EXCEPT ![w] = "dec"]
        /\ UNCHANGED <<item, task, note, cancelled, doneq, inflight, lpc, cur, dones, oncancels, submits>>
    BY DEF WorkReturns, WorkerWake
  <1>1. TypeOK'
    BY Zenon, <1>0 DEF TypeOK
  <1>2. Placed' /\ QueueOnce'
    <2>1. /\ opc[w] \in {"fn", "wake"} /\ opc'[w] = IF opc[w] = "fn" THEN "push" ELSE "dec"
          /\ \A v \in Works : v # w => opc'[v] = opc[v]
      BY <1>0 DEF TypeOK
    <2>2. QED
      BY <1>0, <2>1 DEF Placed, Queued, QueueOnce
  <1>3. Flying' = Flying
    BY <1>0 DEF Flying, TypeOK
  <1>4. InflightExact' /\ Ending' /\ Called'
    BY <1>0, <1>3 DEF InflightExact, Ending, Called
  <1>5. QED
    BY <1>1, <1>2, <1>4

LEMMA PushedQueue ==
  ASSUME IInv, NEW w \in Works, item[w] = "worker", doneq' = Append(doneq, w),
         item' = [item EXCEPT ![w] = "doneq"], UNCHANGED <<cur, lpc>>
  PROVE  /\ QueueOnce' /\ doneq' \in Seq(Works)
         /\ \A v \in Works : item'[v] = "doneq" <=> Queued(v)' \/ cur' = v
  <1> USE DEF IInv
  <1>1. ~Queued(w) /\ cur # w
    BY DEF Placed
  <1>2. /\ doneq' \in Seq(Works) /\ DOMAIN doneq' = 1 .. Len(doneq) + 1
        /\ DOMAIN doneq = 1 .. Len(doneq) /\ Len(doneq) \in Nat
        /\ doneq'[Len(doneq) + 1] = w /\ \A i \in DOMAIN doneq : doneq'[i] = doneq[i]
    <2>1. doneq \in Seq(Works)
      BY DEF TypeOK
    <2>2. QED
      BY <2>1, AppendEntries
  <1>3. QueueOnce'
    BY <1>1, <1>2 DEF QueueOnce, Queued
  <1>4. \A v \in Works : Queued(v)' <=> Queued(v) \/ v = w
    BY <1>2 DEF Queued
  <1>5. item'[w] = "doneq" /\ \A v \in Works : v # w => item'[v] = item[v]
    BY DEF TypeOK
  <1>6. QED
    BY <1>2, <1>3, <1>4, <1>5 DEF Placed

LEMMA WorkerPushKeeps == ASSUME IInv, NEW w \in Works, WorkerPush(w) PROVE IInv'
  <1> USE DEF IInv, history
  <1>0. /\ opc[w] = "push" /\ opc' = [opc EXCEPT ![w] = "wake"]
        /\ doneq' = Append(doneq, w) /\ item' = [item EXCEPT ![w] = "doneq"]
        /\ UNCHANGED <<task, note, cancelled, inflight, lpc, cur, dones, oncancels, submits>>
    BY DEF WorkerPush
  <1>1. item[w] = "worker" /\ task[w] = "RUNNING"
    BY <1>0 DEF Placed
  <1>2. /\ QueueOnce' /\ doneq' \in Seq(Works)
        /\ \A v \in Works : item'[v] = "doneq" <=> Queued(v)' \/ cur' = v
    BY Zenon, <1>0, <1>1, PushedQueue
  <1>3. TypeOK'
    BY <1>0, <1>2 DEF TypeOK
  <1>4. /\ item'[w] = "doneq" /\ opc'[w] = "wake"
        /\ \A v \in Works : v # w => item'[v] = item[v] /\ opc'[v] = opc[v]
    BY <1>0 DEF TypeOK
  <1>5. Placed'
    BY <1>0, <1>1, <1>2, <1>4 DEF Placed
  <1>6. Flying' = Flying
    BY <1>0, <1>4 DEF Flying
  <1>7. Ending'
    <2>1. w \in Flying
      BY <1>0 DEF Flying
    <2>2. Cardinality(Flying) # 0
      BY <2>1, FiniteFlying, FS_EmptySet
    <2>3. QED
      BY <1>0, <2>2 DEF Ending, InflightExact
  <1>8. InflightExact' /\ Called'
    BY <1>0, <1>1, <1>4, <1>6 DEF InflightExact, Called
  <1>9. QED
    BY <1>2, <1>3, <1>5, <1>7, <1>8

LEMMA WorkerDecKeeps == ASSUME IInv, NEW w \in Works, WorkerDec(w) PROVE IInv'
  <1> USE DEF IInv, history
  <1>0. /\ opc[w] = "dec" /\ opc' = [opc EXCEPT ![w] = "return"] /\ inflight' = inflight - 1
        /\ UNCHANGED <<item, task, note, cancelled, doneq, lpc, cur, dones, oncancels, submits>>
    BY DEF WorkerDec
  <1>1. task[w] = "RUNNING"
    BY <1>0 DEF Placed
  <1>2. opc'[w] = "return" /\ \A v \in Works : v # w => opc'[v] = opc[v]
    BY <1>0 DEF TypeOK
  <1>3. Flying' = Flying \ {w} /\ w \in Flying
    BY <1>0, <1>1, <1>2 DEF Flying
  <1>4. Cardinality(Flying') = Cardinality(Flying) - 1 /\ Cardinality(Flying') \in Nat
    BY <1>3, FiniteFlying, FS_RemoveElement, FS_CardinalityType
  <1>5. TypeOK'
    BY <1>0, <1>4 DEF TypeOK, InflightExact
  <1>6. Placed' /\ QueueOnce'
    BY <1>0, <1>1, <1>2 DEF Placed, Queued, QueueOnce
  <1>7. InflightExact' /\ Ending' /\ Called'
    BY <1>0, <1>4, FiniteFlying DEF InflightExact, Ending, Called
  <1>8. QED
    BY <1>5, <1>6, <1>7

(* The end of the task, and of its slot.                                   *)
LEMMA TaskEndsKeeps ==
  ASSUME IInv, NEW w \in Works, TaskDone(w) \/ TaskFreed(w) PROVE IInv'
  <1> USE DEF IInv, history
  <1>0. /\ \/ /\ opc[w] = "return" /\ opc' = [opc EXCEPT ![w] = "idle"]
              /\ task' = [task EXCEPT ![w] = "DONE"]
           \/ /\ task[w] \in {"DONE", "CANCELLED"} /\ task' = [task EXCEPT ![w] = "FREED"]
              /\ UNCHANGED opc
        /\ \E b \in BOOLEAN : note' = [note EXCEPT ![w] = b]
        /\ UNCHANGED <<item, cancelled, doneq, inflight, lpc, cur, dones, oncancels, submits>>
    BY Zenon DEF TaskDone, TaskFreed
  <1>1. TypeOK'
    <2>1. \E x \in {"DONE", "FREED"} : task' = [task EXCEPT ![w] = x]
      BY <1>0
    <2>2. task' \in [Works -> {"QUEUED", "RUNNING", "DONE", "CANCELLED", "FREED"}]
      BY <2>1 DEF TypeOK
    <2>3. opc' = [opc EXCEPT ![w] = "idle"] \/ opc' = opc
      BY <1>0
    <2>4. opc' \in [Works -> {"idle", "fn", "push", "wake", "dec", "return"}]
      BY Zenon, <2>3 DEF TypeOK
    <2>5. note' \in [Works -> BOOLEAN]
      BY Zenon, <1>0 DEF TypeOK
    <2>6. QED
      BY Zenon, <1>0, <2>2, <2>4, <2>5 DEF TypeOK
  <1>2. Placed' /\ QueueOnce'
    <2>1. /\ opc'[w] = "idle" /\ task'[w] \in {"DONE", "FREED"}
          /\ opc[w] \in {"return", "idle"} /\ task[w] # "QUEUED"
          /\ \A v \in Works : v # w => opc'[v] = opc[v] /\ task'[v] = task[v]
      BY <1>0 DEF TypeOK, Placed
    <2>2. QED
      BY <1>0, <2>1 DEF Placed, Queued, QueueOnce
  <1>3. Flying' = Flying
    BY <1>0 DEF Flying, TypeOK, Placed
  <1>4. InflightExact' /\ Ending' /\ Called'
    BY <1>0, <1>3 DEF InflightExact, Ending, Called
  <1>5. QED
    BY <1>1, <1>2, <1>4

-----------------------------------------------------------------------------
(* The loop thread. *)

LEMMA SubmitKeeps == ASSUME IInv, NEW w \in Works, Submit(w) PROVE IInv'
  <1> USE DEF IInv
  <1>0. /\ lpc = "run" /\ item[w] = "free" /\ opc[w] = "idle"
        /\ item' = [item EXCEPT ![w] = "worker"] /\ task' = [task EXCEPT ![w] = "QUEUED"]
        /\ note' = [note EXCEPT ![w] = FALSE] /\ cancelled' = [cancelled EXCEPT ![w] = FALSE]
        /\ dones' = [dones EXCEPT ![w] = 0] /\ oncancels' = [oncancels EXCEPT ![w] = 0]
        /\ inflight' = inflight + 1 /\ submits' = submits + 1
        /\ UNCHANGED <<opc, doneq, lpc, cur>>
    BY DEF Submit
  <1>1. TypeOK'
    BY <1>0 DEF TypeOK
  <1>2. /\ item'[w] = "worker" /\ task'[w] = "QUEUED"
        /\ \A v \in Works : v # w => item'[v] = item[v] /\ task'[v] = task[v]
    BY <1>0 DEF TypeOK
  <1>3. task[w] # "QUEUED" /\ task[w] # "RUNNING" /\ ~Queued(w) /\ cur # w
    BY <1>0 DEF Placed
  <1>4. Placed'
    BY <1>0, <1>2, <1>3 DEF Placed, Queued
  <1>5. QueueOnce' /\ Ending'
    BY <1>0 DEF QueueOnce, Ending
  <1>6. InflightExact'
    <2>1. Flying' = Flying \cup {w} /\ w \notin Flying
      BY <1>0, <1>2, <1>3 DEF Flying
    <2>2. QED
      BY <1>0, <2>1, FiniteFlying, FS_AddElement, FS_CardinalityType DEF InflightExact
  <1>7. Called'
    <2>1. /\ dones'[w] = 0 /\ oncancels'[w] = 0 /\ ~cancelled'[w]
          /\ \A v \in Works : v # w => /\ dones'[v] = dones[v] /\ oncancels'[v] = oncancels[v]
                                       /\ cancelled'[v] = cancelled[v]
      BY <1>0 DEF TypeOK
    <2>2. QED
      BY <1>0, <1>2, <2>1 DEF Called
  <1>8. QED
    BY <1>1, <1>4, <1>5, <1>6, <1>7

LEMMA CancelKeeps == ASSUME IInv, NEW w \in Works, Cancel(w) PROVE IInv'
  <1> USE DEF IInv, history
  <1>0. /\ lpc = "run" /\ item[w] # "free" /\ cancelled' = [cancelled EXCEPT ![w] = TRUE]
        /\ UNCHANGED <<opc, lpc, cur, dones, oncancels, submits>>
    BY DEF Cancel
  <1>1. CASE task[w] = "QUEUED"
    <2>0. /\ task' = [task EXCEPT ![w] = "CANCELLED"] /\ note' = [note EXCEPT ![w] = TRUE]
          /\ doneq' = Append(doneq, w) /\ item' = [item EXCEPT ![w] = "doneq"]
          /\ inflight' = inflight - 1
      BY <1>1 DEF Cancel
    <2>1. item[w] = "worker" /\ opc[w] = "idle"
      BY <1>1 DEF Placed
    <2>2. /\ QueueOnce' /\ doneq' \in Seq(Works)
          /\ \A v \in Works : item'[v] = "doneq" <=> Queued(v)' \/ cur' = v
      BY Zenon, <1>0, <2>0, <2>1, PushedQueue
    <2>3. /\ item'[w] = "doneq" /\ task'[w] = "CANCELLED" /\ cancelled'[w]
          /\ \A v \in Works : v # w => /\ item'[v] = item[v] /\ task'[v] = task[v]
                                       /\ cancelled'[v] = cancelled[v]
      BY <1>0, <2>0 DEF TypeOK
    <2>4. Placed'
      BY <1>0, <2>1, <2>2, <2>3 DEF Placed
    <2>5. Flying' = Flying \ {w} /\ w \in Flying
      BY <1>0, <1>1, <2>1, <2>3 DEF Flying
    <2>6. Cardinality(Flying') = Cardinality(Flying) - 1 /\ Cardinality(Flying') \in Nat
      BY <2>5, FiniteFlying, FS_RemoveElement, FS_CardinalityType
    <2>7. TypeOK'
      BY <1>0, <2>0, <2>2, <2>6 DEF TypeOK, InflightExact
    <2>8. InflightExact' /\ Ending'
      BY <1>0, <2>0, <2>6 DEF InflightExact, Ending
    <2>9. Called'
      BY <1>0, <2>1, <2>3 DEF Called
    <2>10. QED
      BY <2>2, <2>4, <2>7, <2>8, <2>9
  <1>2. CASE task[w] # "QUEUED"
    <2>0. UNCHANGED <<task, note, doneq, item, inflight>>
      BY <1>2 DEF Cancel
    <2>1. TypeOK'
      BY <1>0, <2>0 DEF TypeOK
    <2>2. Placed' /\ QueueOnce' /\ InflightExact' /\ Ending'
      BY <1>0, <2>0 DEF Placed, Queued, QueueOnce, InflightExact, Flying, Ending
    <2>3. Called'
      BY Zenon, <1>0, <2>0 DEF Called, TypeOK
    <2>4. QED
      BY <2>1, <2>2, <2>3
  <1>3. QED
    BY <1>1, <1>2

(* What a pop of the done queue leaves.                                    *)
LEMMA PoppedQueue ==
  ASSUME IInv, doneq # <<>>, doneq' = Tail(doneq)
  PROVE  /\ Head(doneq) \in Works /\ item[Head(doneq)] = "doneq" /\ Head(doneq) # cur
         /\ doneq' \in Seq(Works)
         /\ \A i, j \in DOMAIN doneq' : doneq'[i] = doneq'[j] => i = j
         /\ \A i \in DOMAIN doneq' : doneq'[i] # Head(doneq) /\ doneq'[i] # cur
         /\ \A v \in Works : Queued(v)' <=> Queued(v) /\ v # Head(doneq)
  <1> USE DEF IInv
  <1>0. doneq \in Seq(Works)
    BY DEF TypeOK
  <1>1. /\ Head(doneq) = doneq[1] /\ 1 \in DOMAIN doneq /\ Head(doneq) \in Works
        /\ doneq' \in Seq(Works)
        /\ \A i \in DOMAIN doneq' : i + 1 \in DOMAIN doneq /\ doneq'[i] = doneq[i + 1]
    BY <1>0, TailEntries
  <1>2. /\ \A i, j \in DOMAIN doneq' : doneq'[i] = doneq'[j] => i = j
        /\ \A i \in DOMAIN doneq' : doneq'[i] # Head(doneq)
        /\ \A v \in Works : v # Head(doneq) => (Queued(v)' <=> Queued(v))
    <2>1. \A i, j \in DOMAIN doneq : doneq[i] = doneq[j] => i = j
      BY DEF QueueOnce
    <2>2. /\ \A i, j \in DOMAIN Tail(doneq) : Tail(doneq)[i] = Tail(doneq)[j] => i = j
          /\ \A i \in DOMAIN Tail(doneq) : Tail(doneq)[i] # Head(doneq)
          /\ \A x : x # Head(doneq) =>
               ((\E i \in DOMAIN Tail(doneq) : Tail(doneq)[i] = x) <=> (\E i \in DOMAIN doneq : doneq[i] = x))
      BY Zenon, <1>0, <2>1, TailMembers
    <2>3. QED
      BY Zenon, <2>2 DEF Queued
  <1>3. item[Head(doneq)] = "doneq" /\ Head(doneq) # cur
    BY <1>1 DEF Placed, Queued, QueueOnce
  <1>4. \A i \in DOMAIN doneq' : doneq'[i] # cur
    BY <1>1 DEF QueueOnce
  <1>5. \A v \in Works : v = Head(doneq) => ~Queued(v)'
    BY <1>2 DEF Queued
  <1>6. QED
    BY <1>1, <1>2, <1>3, <1>4, <1>5

(* loop_run_done and loop_wait_inflight free the item they popped.         *)
LEMMA FreesHeadKeeps == ASSUME IInv, DispatchCancelled \/ SpinFree PROVE IInv'
  <1> USE DEF IInv, history
  <1> DEFINE h == Head(doneq)
  <1>0. /\ doneq # <<>> /\ doneq' = Tail(doneq) /\ item' = [item EXCEPT ![h] = "free"]
        /\ lpc \in {"run", "spin"}
        /\ UNCHANGED <<task, note, opc, cancelled, inflight, lpc, cur, dones, submits>>
        /\ \/ cancelled[h] /\ oncancels' = [oncancels EXCEPT ![h] = @ + 1]
           \/ UNCHANGED oncancels
    BY DEF DispatchCancelled, SpinFree, Free
  <1>1. /\ h \in Works /\ item[h] = "doneq" /\ h # cur /\ doneq' \in Seq(Works)
        /\ \A i, j \in DOMAIN doneq' : doneq'[i] = doneq'[j] => i = j
        /\ \A i \in DOMAIN doneq' : doneq'[i] # cur
        /\ \A v \in Works : Queued(v)' <=> Queued(v) /\ v # h
    BY <1>0, PoppedQueue
  <1> HIDE DEF h
  <1>2. item'[h] = "free" /\ \A v \in Works : v # h => item'[v] = item[v]
    BY <1>0, <1>1 DEF TypeOK
  <1>3. TypeOK'
    <2>1. item' \in [Works -> {"free", "worker", "doneq"}]
      BY Zenon, <1>0 DEF TypeOK
    <2>2. oncancels' \in [Works -> Nat]
      BY <1>0 DEF TypeOK
    <2>3. QED
      BY Zenon, <1>0, <1>1, <2>1, <2>2 DEF TypeOK
  <1>4. Placed'
    BY <1>0, <1>1, <1>2 DEF Placed
  <1>5. QueueOnce' /\ InflightExact' /\ Ending'
    BY <1>0, <1>1 DEF QueueOnce, InflightExact, Flying, Ending
  <1>6. Called'
    <2>1. dones[h] = 0 /\ oncancels[h] = 0
      BY <1>1 DEF Called
    <2>2. oncancels'[h] \in {0, 1} /\ \A v \in Works : v # h => oncancels'[v] = oncancels[v]
      BY <1>0, <1>1, <2>1 DEF TypeOK
    <2>3. SUFFICES ASSUME NEW v \in Works
                   PROVE  /\ item'[v] # "free" => dones'[v] = 0 /\ oncancels'[v] = 0
                          /\ dones'[v] + oncancels'[v] <= 1 /\ (cancelled'[v] => dones'[v] = 0)
      BY <1>0 DEF Called
    <2>4. CASE v = h
      BY <1>0, <1>2, <2>1, <2>2, <2>4
    <2>5. CASE v # h
      BY <1>0, <1>2, <2>2, <2>5 DEF Called
    <2>6. QED
      BY <2>4, <2>5
  <1>7. QED
    BY <1>3, <1>4, <1>5, <1>6

(* Both waits for a task take its item off the queue ...                   *)
LEMMA TakesHeadKeeps == ASSUME IInv, DispatchWait \/ CleanupPop PROVE IInv'
  <1> USE DEF IInv, history
  <1> DEFINE h == Head(doneq)
  <1>0. /\ doneq # <<>> /\ doneq' = Tail(doneq) /\ cur' = h
        /\ \/ lpc = "run" /\ lpc' = "taskwait" /\ ~cancelled[h]
           \/ lpc = "cleanup" /\ lpc' = "cleanupwait"
        /\ UNCHANGED <<item, task, note, opc, cancelled, inflight, dones, oncancels, submits>>
    BY DEF DispatchWait, CleanupPop
  <1>1. /\ h \in Works /\ item[h] = "doneq" /\ doneq' \in Seq(Works)
        /\ \A i, j \in DOMAIN doneq' : doneq'[i] = doneq'[j] => i = j
        /\ \A i \in DOMAIN doneq' : doneq'[i] # h
        /\ \A v \in Works : Queued(v)' <=> Queued(v) /\ v # h
    BY <1>0, PoppedQueue
  <1> HIDE DEF h
  <1>2. cur = NoWork /\ NoWork \notin Works
    BY <1>0, OffloadAssumption DEF QueueOnce
  <1>3. TypeOK'
    BY <1>0, <1>1 DEF TypeOK
  <1>4. Placed'
    BY <1>0, <1>1, <1>2 DEF Placed
  <1>5. QueueOnce' /\ InflightExact' /\ Ending' /\ Called'
    BY <1>0, <1>1, <1>2 DEF QueueOnce, InflightExact, Flying, Ending, Called
  <1>6. QED
    BY <1>3, <1>4, <1>5

(* ... and free it when the task has finished.                             *)
LEMMA FreesTakenKeeps == ASSUME IInv, DispatchDone \/ CleanupFree PROVE IInv'
  <1> USE DEF IInv, history
  <1>0. /\ item' = [item EXCEPT ![cur] = "free"] /\ cur' = NoWork
        /\ \/ /\ lpc = "taskwait" /\ lpc' = "run" /\ dones' = [dones EXCEPT ![cur] = @ + 1]
           \/ lpc = "cleanupwait" /\ lpc' = "cleanup" /\ UNCHANGED dones
        /\ UNCHANGED <<task, note, opc, cancelled, doneq, inflight, oncancels, submits>>
    BY DEF DispatchDone, CleanupFree, Free
  <1>1. cur \in Works /\ NoWork \notin Works /\ item[cur] = "doneq" /\ ~Queued(cur)
    BY <1>0, OffloadAssumption DEF QueueOnce, Placed, TypeOK, Queued
  <1>2. item'[cur] = "free" /\ \A v \in Works : v # cur => item'[v] = item[v]
    BY <1>0, <1>1 DEF TypeOK
  <1>3. TypeOK'
    BY <1>0, <1>1 DEF TypeOK
  <1>4. Placed'
    BY <1>0, <1>1, <1>2 DEF Placed, Queued
  <1>5. QueueOnce' /\ InflightExact' /\ Ending'
    BY <1>0, <1>1 DEF QueueOnce, InflightExact, Flying, Ending, TypeOK
  <1>6. Called'
    <2>1. dones[cur] = 0 /\ oncancels[cur] = 0 /\ (lpc = "taskwait" => ~cancelled[cur])
      BY <1>1 DEF Called
    <2>2. /\ dones'[cur] \in {0, 1} /\ (dones'[cur] = 1 => lpc = "taskwait")
          /\ \A v \in Works : v # cur => dones'[v] = dones[v]
      BY <1>0, <1>1, <2>1 DEF TypeOK
    <2>3. SUFFICES ASSUME NEW v \in Works
                   PROVE  /\ item'[v] # "free" => dones'[v] = 0 /\ oncancels'[v] = 0
                          /\ dones'[v] + oncancels'[v] <= 1 /\ (cancelled'[v] => dones'[v] = 0)
      BY <1>0 DEF Called
    <2>4. CASE v = cur
      BY <1>0, <1>2, <2>1, <2>2, <2>4
    <2>5. CASE v # cur
      BY <1>0, <1>2, <2>2, <2>5 DEF Called
    <2>6. QED
      BY <2>4, <2>5
  <1>7. QED
    BY <1>3, <1>4, <1>5, <1>6

(* The phases of xEventLoopDestroy.                                        *)
LEMMA PhasesKeep == ASSUME IInv, Destroy \/ SpinEnds \/ FreeLoop PROVE IInv'
  <1> USE DEF IInv, history
  <1>0. /\ \/ lpc = "run" /\ lpc' = "spin"
           \/ lpc = "spin" /\ inflight = 0 /\ lpc' = "cleanup"
           \/ lpc = "cleanup" /\ doneq = <<>> /\ lpc' = "gone"
        /\ UNCHANGED <<item, task, note, opc, cancelled, doneq, inflight, cur, dones, oncancels, submits>>
    BY DEF Destroy, SpinEnds, FreeLoop
  <1>1. TypeOK'
    BY <1>0 DEF TypeOK
  <1>2. Placed' /\ QueueOnce'
    BY <1>0 DEF Placed, Queued, QueueOnce
  <1>3. InflightExact' /\ Ending' /\ Called'
    BY <1>0 DEF InflightExact, Flying, Ending, Called, Placed
  <1>4. QED
    BY <1>1, <1>2, <1>3

LEMMA StutterKeeps == ASSUME IInv, UNCHANGED vars PROVE IInv'
  <1>0. UNCHANGED <<item, task, note, opc, cancelled, doneq, inflight, lpc, cur, dones, oncancels, submits>>
    BY DEF vars
  <1>1. TypeOK'
    BY <1>0 DEF IInv, TypeOK
  <1>2. \A w \in Works : Queued(w)' = Queued(w)
    BY <1>0 DEF Queued
  <1>3. Placed'
    BY <1>0, <1>2 DEF IInv, Placed
  <1>4. QueueOnce'
    BY <1>0 DEF IInv, QueueOnce
  <1>5. InflightExact' /\ Ending' /\ Called'
    BY <1>0 DEF IInv, InflightExact, Flying, Ending, Called
  <1>6. QED
    BY <1>1, <1>3, <1>4, <1>5 DEF IInv

LEMMA NextKeeps == ASSUME IInv, [Next]_vars PROVE IInv'
  <1>1. CASE \E w \in Works : WorkerStep(w) \/ TaskFreed(w)
    BY <1>1, TaskStartsKeeps, WorkerMovesKeeps, WorkerPushKeeps, WorkerDecKeeps, TaskEndsKeeps
       DEF WorkerStep
  <1>2. CASE \E w \in Works : Submit(w) \/ Cancel(w)
    BY <1>2, SubmitKeeps, CancelKeeps
  <1>3. CASE LoopStep \/ Destroy
    BY <1>3, FreesHeadKeeps, TakesHeadKeeps, FreesTakenKeeps, PhasesKeep DEF LoopStep
  <1>4. CASE UNCHANGED vars
    BY <1>4, StutterKeeps
  <1>5. QED
    BY <1>1, <1>2, <1>3, <1>4 DEF Next, SpinYield, Terminated

-----------------------------------------------------------------------------
(* Where every item is, and what inflight counts, in every reachable state *)
(* of the loop, its workers and its destroy.                               *)
THEOREM ItemsPlaced == Spec => []IInv
  <1>1. IInv /\ [Next]_vars => IInv'
    BY NextKeeps
  <1>2. QED
    BY InitIInv, <1>1, PTL DEF Spec

(* A work is called back once, and never by done_fn once xWorkCancel took  *)
(* it; its item is owned by one side at a time and none is left behind by  *)
(* xEventLoopDestroy, after which no worker reaches the loop: for every    *)
(* number of works and however the group frees its tasks.                  *)
THEOREM WorkSafeAlways == Spec => []WorkSafe
  <1>1. IInv => WorkSafe
    <2> SUFFICES ASSUME IInv PROVE WorkSafe
      OBVIOUS
    <2> USE DEF IInv
    <2>1. OneCallback
      BY DEF OneCallback, Called
    <2>2. lpc = "gone" => \A w \in Works : task[w] # "QUEUED" /\ opc[w] \notin {"fn", "push", "wake", "dec"}
      <3>1. lpc = "gone" => Flying = {}
        BY FiniteFlying, FS_EmptySet DEF Ending, InflightExact
      <3>2. QED
        BY <3>1 DEF Flying
    <2>3. NoWorkerAfterFree
      BY <2>2 DEF NoWorkerAfterFree
    <2>4. ItemOwned
      <3>1. \A i \in DOMAIN doneq : doneq[i] \in Works
        BY DEF TypeOK
      <3>2. /\ \A w \in Works : opc[w] \in {"fn", "push"} => item[w] = "worker"
            /\ \A i \in DOMAIN doneq : item[doneq[i]] = "doneq"
        BY <3>1 DEF Placed, Queued
      <3>3. lpc = "gone" => \A w \in Works : item[w] = "free"
        BY <2>2, OffloadAssumption DEF Placed, Queued, QueueOnce, Ending, TypeOK
      <3>4. QED
        BY <3>2, <3>3 DEF ItemOwned, QueueOnce
    <2>5. QED
      BY <2>1, <2>3, <2>4 DEF WorkSafe
  <1>2. QED
    BY <1>1, ItemsPlaced, PTL
=============================================================================
