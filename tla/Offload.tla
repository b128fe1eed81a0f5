------------------------------ MODULE Offload ------------------------------
(***************************************************************************)
(* Work offloaded from the event loop to the thread pool                   *)
(* (src/libx/x/base/event_offload.c) and collected on the loop thread by   *)
(* loop_run_done and the destroy path (event_private.c).                   *)
(*                                                                         *)
(* The pool is reduced to what TaskGroup shows of it: a queued task is     *)
(* started once or cancelled once, its note is set when it has finished or *)
(* was cancelled, and its slot is freed by xTaskGroupWait or               *)
(* xTaskGroupDestroy some time after that.  A work item and its task are   *)
(* one element of Works; the done queue is FIFO (MpscQueue).               *)
(***************************************************************************)
EXTENDS Integers, Sequences, FiniteSets

CONSTANTS
    Works,        \* work items
    NoWork,
    GroupFrees,   \* the group is waited for or destroyed while works remain
    MaxSubmits    \* bound: calls of xWorkSubmit

ASSUME OffloadAssumption ==
    /\ IsFiniteSet(Works) /\ NoWork \notin Works
    /\ GroupFrees \in BOOLEAN
    /\ MaxSubmits \in Nat

VARIABLES
    item,        \* who owns the work item: "free", "worker" or "doneq"
    task,        \* state of its task, "FREED" when its slot is gone
    note,        \* the task's note
    opc,         \* where offload_worker is
    cancelled,   \* w->cancelled
    doneq,       \* loop->done_head .. done_tail
    inflight,    \* loop->inflight
    lpc, cur,    \* the loop thread, and the work it waits for
    dones, oncancels,   \* history: callbacks fired for the last submission
    submits

vars == <<item, task, note, opc, cancelled, doneq, inflight, lpc, cur, dones, oncancels, submits>>
history == <<dones, oncancels, submits>>

Init ==
    /\ item = [w \in Works |-> "free"]
    /\ task = [w \in Works |-> "FREED"]
    /\ note = [w \in Works |-> FALSE]
    /\ opc = [w \in Works |-> "idle"]
    /\ cancelled = [w \in Works |-> FALSE]
    /\ doneq = <<>>
    /\ inflight = 0
    /\ lpc = "run" /\ cur = NoWork
    /\ dones = [w \in Works |-> 0]
    /\ oncancels = [w \in Works |-> 0]
    /\ submits = 0

-----------------------------------------------------------------------------
(* offload_worker *)

(* A pool worker starts the task and with it work_fn.                      *)
TaskStarts(w) ==
    /\ task[w] = "QUEUED"
    /\ task' = [task EXCEPT ![w] = "RUNNING"]
    /\ opc' = [opc EXCEPT ![w] = "fn"]
    /\ UNCHANGED <<item, note, cancelled, doneq, inflight, lpc, cur, history>>

WorkReturns(w) ==
    /\ opc[w] = "fn"
    /\ opc' = [opc EXCEPT ![w] = "push"]
    /\ UNCHANGED <<item, task, note, cancelled, doneq, inflight, lpc, cur, history>>

(* The push hands the item to the loop thread.                             *)
WorkerPush(w) ==
    /\ opc[w] = "push"
    /\ doneq' = Append(doneq, w)
    /\ item' = [item EXCEPT ![w] = "doneq"]
    /\ opc' = [opc EXCEPT ![w] = "wake"]
    /\ UNCHANGED <<task, note, cancelled, inflight, lpc, cur, history>>

(* xEventLoopWake, see EventLoop.                                          *)
WorkerWake(w) ==
    /\ opc[w] = "wake"
    /\ opc' = [opc EXCEPT ![w] = "dec"]
    /\ UNCHANGED <<item, task, note, cancelled, doneq, inflight, lpc, cur, history>>

(* The worker's last access to the loop.                                   *)
WorkerDec(w) ==
    /\ opc[w] = "dec"
    /\ inflight' = inflight - 1
    /\ opc' = [opc EXCEPT ![w] = "return"]
    /\ UNCHANGED <<item, task, note, cancelled, doneq, lpc, cur, history>>

(* worker_loop stores DONE and signals the note.                           *)
TaskDone(w) ==
    /\ opc[w] = "return"
    /\ task' = [task EXCEPT ![w] = "DONE"]
    /\ note' = [note EXCEPT ![w] = TRUE]
    /\ opc' = [opc EXCEPT ![w] = "idle"]
    /\ UNCHANGED <<item, cancelled, doneq, inflight, lpc, cur, history>>

(* drain_done of the group frees the finished task, whose slot may then    *)
(* hold anything.  Unless GroupFrees, the program waits for the group and  *)
(* destroys it only after the loop has collected its works.                *)
TaskFreed(w) ==
    /\ task[w] \in {"DONE", "CANCELLED"}
    /\ GroupFrees \/ item[w] = "free"
    /\ task' = [task EXCEPT ![w] = "FREED"]
    /\ \E b \in BOOLEAN : note' = [note EXCEPT ![w] = b]
    /\ UNCHANGED <<item, opc, cancelled, doneq, inflight, lpc, cur, history>>

-----------------------------------------------------------------------------
(* The loop thread *)

(* xWorkSubmit (a failed xTaskSubmit is rolled back and changes nothing).  *)
Submit(w) ==
    /\ lpc = "run"
    /\ item[w] = "free" /\ opc[w] = "idle"
    /\ submits < MaxSubmits
    /\ submits' = submits + 1
    /\ item' = [item EXCEPT ![w] = "worker"]
    /\ task' = [task EXCEPT ![w] = "QUEUED"]
    /\ note' = [note EXCEPT ![w] = FALSE]
    /\ cancelled' = [cancelled EXCEPT ![w] = FALSE]
    /\ dones' = [dones EXCEPT ![w] = 0]
    /\ oncancels' = [oncancels EXCEPT ![w] = 0]
    /\ inflight' = inflight + 1
    /\ UNCHANGED <<opc, doneq, lpc, cur>>

(* Mutant of Cancel: nobody pushes the item of a task that will not run.   *)
CancelForgets(w) ==
    /\ lpc = "run"
    /\ item[w] # "free" /\ task[w] # "FREED"
    /\ ~cancelled[w]
    /\ cancelled' = [cancelled EXCEPT ![w] = TRUE]
    /\ task' = [task EXCEPT ![w] = IF @ = "QUEUED" THEN "CANCELLED" ELSE @]
    /\ note' = [note EXCEPT ![w] = @ \/ task[w] = "QUEUED"]
    /\ UNCHANGED <<doneq, item, inflight, opc, lpc, cur, history>>

(* xWorkCancel on the loop thread, while the item is not collected yet: if *)
(* the task was still queued, the loop thread pushes the item itself.      *)
Cancel(w) ==
    /\ lpc = "run"
    /\ item[w] # "free" /\ task[w] # "FREED"
    /\ ~cancelled[w]
    /\ cancelled' = [cancelled EXCEPT ![w] = TRUE]
    /\ IF task[w] = "QUEUED"
         THEN /\ task' = [task EXCEPT ![w] = "CANCELLED"]
              /\ note' = [note EXCEPT ![w] = TRUE]
              /\ doneq' = Append(doneq, w)
              /\ item' = [item EXCEPT ![w] = "doneq"]
              /\ inflight' = inflight - 1
         ELSE UNCHANGED <<task, note, doneq, item, inflight>>
    /\ UNCHANGED <<opc, lpc, cur, history>>

Free(w) == item' = [item EXCEPT ![w] = "free"]

(* loop_run_done: a cancelled item ...                                     *)
DispatchCancelled ==
    /\ lpc = "run" /\ doneq # <<>>
    /\ cancelled[Head(doneq)]
    /\ oncancels' = [oncancels EXCEPT ![Head(doneq)] = @ + 1]
    /\ Free(Head(doneq))
    /\ doneq' = Tail(doneq)
    /\ UNCHANGED <<task, note, opc, cancelled, inflight, lpc, cur, dones, submits>>

(* ... or a finished one, whose task is waited for ...                     *)
DispatchWait ==
    /\ lpc = "run" /\ doneq # <<>>
    /\ ~cancelled[Head(doneq)]
    /\ cur' = Head(doneq)
    /\ doneq' = Tail(doneq)
    /\ lpc' = "taskwait"
    /\ UNCHANGED <<item, task, note, opc, cancelled, inflight, history>>

(* ... before done_fn.                                                     *)
DispatchDone ==
    /\ lpc = "taskwait"
    /\ note[cur]
    /\ dones' = [dones EXCEPT ![cur] = @ + 1]
    /\ Free(cur)
    /\ cur' = NoWork
    /\ lpc' = "run"
    /\ UNCHANGED <<task, note, opc, cancelled, doneq, inflight, oncancels, submits>>

(* xEventLoopDestroy                                                       *)
Destroy ==
    /\ lpc = "run"
    /\ lpc' = "spin"
    /\ UNCHANGED <<item, task, note, opc, cancelled, doneq, inflight, cur, history>>

(* loop_wait_inflight frees what has come back ...                         *)
SpinFree ==
    /\ lpc = "spin" /\ inflight > 0
    /\ doneq # <<>>
    /\ Free(Head(doneq))
    /\ doneq' = Tail(doneq)
    /\ UNCHANGED <<task, note, opc, cancelled, inflight, lpc, cur, history>>

(* ... or sleeps a little ...                                              *)
SpinYield ==
    /\ lpc = "spin" /\ inflight > 0
    /\ doneq = <<>>
    /\ UNCHANGED vars

(* Mutant of SpinEnds: an empty done queue ends the wait.                  *)
SpinEndsEarly ==
    /\ lpc = "spin"
    /\ inflight = 0 \/ doneq = <<>>
    /\ lpc' = "cleanup"
    /\ UNCHANGED <<item, task, note, opc, cancelled, doneq, inflight, cur, history>>

(* ... until no worker is left.                                            *)
SpinEnds ==
    /\ lpc = "spin"
    /\ inflight = 0
    /\ lpc' = "cleanup"
    /\ UNCHANGED <<item, task, note, opc, cancelled, doneq, inflight, cur, history>>

(* loop_cleanup_done pops, waits for the task, and frees.                  *)
CleanupPop ==
    /\ lpc = "cleanup" /\ doneq # <<>>
    /\ cur' = Head(doneq)
    /\ doneq' = Tail(doneq)
    /\ lpc' = "cleanupwait"
    /\ UNCHANGED <<item, task, note, opc, cancelled, inflight, history>>

CleanupFree ==
    /\ lpc = "cleanupwait"
    /\ note[cur]
    /\ Free(cur)
    /\ cur' = NoWork
    /\ lpc' = "cleanup"
    /\ UNCHANGED <<task, note, opc, cancelled, doneq, inflight, history>>

(* free(loop)                                                              *)
FreeLoop ==
    /\ lpc = "cleanup" /\ doneq = <<>>
    /\ lpc' = "gone"
    /\ UNCHANGED <<item, task, note, opc, cancelled, doneq, inflight, cur, history>>

Terminated == lpc = "gone" /\ UNCHANGED vars

-----------------------------------------------------------------------------
WorkerStep(w) ==
    TaskStarts(w) \/ WorkReturns(w) \/ WorkerPush(w) \/ WorkerWake(w) \/ WorkerDec(w) \/ TaskDone(w)

LoopStep ==
    \/ DispatchCancelled \/ DispatchWait \/ DispatchDone
    \/ SpinFree \/ SpinEnds \/ CleanupPop \/ CleanupFree \/ FreeLoop

Next ==
    \/ \E w \in Works : WorkerStep(w) \/ TaskFreed(w) \/ Submit(w) \/ Cancel(w)
    \/ LoopStep
    \/ Destroy
    \/ SpinYield
    \/ Terminated

Spec == Init /\ [][Next]_vars

(* Pool workers and the loop run; work functions return.                   *)
Fairness ==
    /\ \A w \in Works : WF_vars(WorkerStep(w))
    /\ WF_vars(LoopStep)

FairSpec == Spec /\ Fairness

-----------------------------------------------------------------------------
(* Properties *)

TypeOK ==
    /\ item \in [Works -> {"free", "worker", "doneq"}]
    /\ task \in [Works -> {"QUEUED", "RUNNING", "DONE", "CANCELLED", "FREED"}]
    /\ note \in [Works -> BOOLEAN]
    /\ opc \in [Works -> {"idle", "fn", "push", "wake", "dec", "return"}]
    /\ cancelled \in [Works -> BOOLEAN]
    /\ doneq \in Seq(Works)
    /\ inflight \in Nat
    /\ lpc \in {"run", "taskwait", "spin", "cleanup", "cleanupwait", "gone"}
    /\ cur \in Works \cup {NoWork}
    /\ dones \in [Works -> Nat] /\ oncancels \in [Works -> Nat]
    /\ submits \in Nat

(* A work gets one callback at most, and a work cancelled before it was    *)
(* collected gets on_cancel, never done_fn, whatever the worker was doing. *)
OneCallback ==
    \A w \in Works :
      /\ dones[w] + oncancels[w] <= 1
      /\ cancelled[w] => dones[w] = 0

(* No worker touches the loop once it is freed (event_private.c:156).      *)
NoWorkerAfterFree ==
    lpc = "gone" => \A w \in Works : opc[w] \notin {"fn", "push", "wake", "dec"} /\ task[w] # "QUEUED"

(* The item is the worker's until the push and the loop's after it: it is  *)
(* never freed under a worker, never on the done queue twice, and none is  *)
(* left behind by the destroy path.                                        *)
ItemOwned ==
    /\ \A w \in Works : opc[w] \in {"fn", "push"} => item[w] = "worker"
    /\ \A i, j \in DOMAIN doneq : doneq[i] = doneq[j] => i = j
    /\ \A i \in DOMAIN doneq : item[doneq[i]] = "doneq"
    /\ lpc = "gone" => \A w \in Works : item[w] = "free"

(* Every submitted work is collected, by a callback or the destroy path.   *)
WorksCollected == \A w \in Works : item[w] # "free" ~> item[w] = "free"

(* xEventLoopDestroy returns.                                              *)
DestroyReturns == lpc = "spin" ~> lpc = "gone"

(* An offloaded work is called back once, owned by one side at a time, and *)
(* never outlives the loop it reports to.                                  *)
WorkSafe == TypeOK /\ OneCallback /\ ItemOwned /\ NoWorkerAfterFree

(* Every work is collected, and the destroy of a loop with works in flight *)
(* returns.                                                                *)
WorksEnd == WorksCollected /\ DestroyReturns
=============================================================================
