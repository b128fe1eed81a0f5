----------------------------- MODULE TaskGroup -----------------------------
(***************************************************************************)
(* The thread pool of src/libx/x/base/task.c: lazily spawned workers, the  *)
(* task queue under qlock, the lock-free done queue, the CAS protocol of   *)
(* xTaskCancel, xTaskGroupWait and xTaskGroupDestroy.                      *)
(*                                                                         *)
(* A critical section of qlock is one step.  A task is the slab slot it    *)
(* lives in: drain_done frees the slot and a later xTaskSubmit reuses it.  *)
(* Main is the thread that may call xTaskGroupWait and xTaskGroupDestroy;  *)
(* the done queue has one consumer.                                        *)
(***************************************************************************)
EXTENDS Integers, Sequences, FiniteSets

CONSTANTS
    Workers,      \* worker slots: max_threads of them
    Tasks,        \* slots of the task slab
    Clients,      \* threads that call the API
    Main,         \* the client that waits for the group and destroys it
    NoTask,
    QCap,         \* qcap, 0 for none
    SpawnMayFail, \* xThreadCreate or realloc may fail
    MaxSubmits,   \* bound: calls of xTaskSubmit
    MaxCancels    \* bound: successful calls of xTaskCancel

ASSUME TaskAssumption ==
    /\ IsFiniteSet(Workers) /\ IsFiniteSet(Tasks) /\ IsFiniteSet(Clients)
    /\ Main \in Clients
    /\ NoTask \notin Tasks
    /\ QCap \in Nat
    /\ SpawnMayFail \in BOOLEAN
    /\ MaxSubmits \in Nat /\ MaxCancels \in Nat

VARIABLES
    state,     \* task->state, or "FREE" when the slot is on the slab
    note,      \* task->note
    queue,     \* qhead .. qtail
    done,      \* the tasks on the done queue
    pending, idle, shutdown,
    wpc, wtask,      \* where each worker is, and the task it holds
    cpc, ctask,      \* where each client is, and the task it cancels
    submits, cancels

vars == <<state, note, queue, done, pending, idle, shutdown, wpc, wtask, cpc, ctask,
          submits, cancels>>
taskvars == <<state, note, queue, done, pending>>
clientvars == <<cpc, ctask, submits, cancels>>

Init ==
    /\ state = [t \in Tasks |-> "FREE"]
    /\ note = [t \in Tasks |-> FALSE]
    /\ queue = <<>>
    /\ done = {}
    /\ pending = 0
    /\ idle = 0
    /\ shutdown = FALSE
    /\ wpc = [w \in Workers |-> "off"]
    /\ wtask = [w \in Workers |-> NoTask]
    /\ cpc = [c \in Clients |-> "idle"]
    /\ ctask = [c \in Clients |-> NoTask]
    /\ submits = 0
    /\ cancels = 0

-----------------------------------------------------------------------------
(* worker_loop *)

(* Mutant of Dequeue: shutdown alone ends the worker.                      *)
DequeueQuits(w) ==
    IF queue = <<>> \/ shutdown
      THEN /\ wpc' = [wpc EXCEPT ![w] = "exited"]
           /\ UNCHANGED <<queue, wtask>>
      ELSE /\ wpc' = [wpc EXCEPT ![w] = "cas"]
           /\ wtask' = [wtask EXCEPT ![w] = Head(queue)]
           /\ queue' = Tail(queue)

(* The rest of the first critical section, once there is work or shutdown. *)
Dequeue(w) ==
    IF queue = <<>>
      THEN /\ wpc' = [wpc EXCEPT ![w] = "exited"]
           /\ UNCHANGED <<queue, wtask>>
      ELSE /\ wpc' = [wpc EXCEPT ![w] = "cas"]
           /\ wtask' = [wtask EXCEPT ![w] = Head(queue)]
           /\ queue' = Tail(queue)

WorkerLock(w) ==
    /\ wpc[w] = "start"
    /\ IF queue = <<>> /\ ~shutdown
         THEN /\ idle' = idle + 1
              /\ wpc' = [wpc EXCEPT ![w] = "cond"]
              /\ UNCHANGED <<queue, wtask>>
         ELSE Dequeue(w) /\ UNCHANGED idle
    /\ UNCHANGED <<state, note, done, pending, shutdown, clientvars>>

(* xCondWait(&g->qcond) returns.                                           *)
WorkerWake(w) ==
    /\ wpc[w] = "woken"
    /\ IF queue = <<>> /\ ~shutdown
         THEN /\ wpc' = [wpc EXCEPT ![w] = "cond"]
              /\ UNCHANGED <<queue, wtask, idle>>
         ELSE Dequeue(w) /\ idle' = idle - 1
    /\ UNCHANGED <<state, note, done, pending, shutdown, clientvars>>

(* Mutant of WorkerCas: the state is stored, not compared.                 *)
WorkerCasBlind(w) ==
    /\ wpc[w] = "cas"
    /\ state' = [state EXCEPT ![wtask[w]] = "RUNNING"]
    /\ wpc' = [wpc EXCEPT ![w] = "run"]
    /\ UNCHANGED <<note, queue, done, pending, idle, shutdown, wtask, clientvars>>

(* QUEUED -> RUNNING, unless the task was cancelled.                       *)
WorkerCas(w) ==
    /\ wpc[w] = "cas"
    /\ IF state[wtask[w]] = "QUEUED"
         THEN /\ state' = [state EXCEPT ![wtask[w]] = "RUNNING"]
              /\ wpc' = [wpc EXCEPT ![w] = "run"]
         ELSE /\ wpc' = [wpc EXCEPT ![w] = "pushcancelled"]
              /\ UNCHANGED state
    /\ UNCHANGED <<note, queue, done, pending, idle, shutdown, wtask, clientvars>>

(* fn returns and the result is stored.                                    *)
WorkerFinish(w) ==
    /\ wpc[w] = "run"
    /\ state' = [state EXCEPT ![wtask[w]] = "DONE"]
    /\ wpc' = [wpc EXCEPT ![w] = "push"]
    /\ UNCHANGED <<note, queue, done, pending, idle, shutdown, wtask, clientvars>>

(* xMpscPush onto the done queue ...                                       *)
WorkerPush(w) ==
    /\ wpc[w] \in {"push", "pushcancelled"}
    /\ done' = done \cup {wtask[w]}
    /\ wpc' = [wpc EXCEPT ![w] = IF @ = "push" THEN "signal" ELSE "signalcancelled"]
    /\ UNCHANGED <<state, note, queue, pending, idle, shutdown, wtask, clientvars>>

(* ... then xNoteSignal, also for a cancelled task.                        *)
WorkerSignal(w) ==
    /\ wpc[w] \in {"signal", "signalcancelled"}
    /\ note' = [note EXCEPT ![wtask[w]] = TRUE]
    /\ wpc' = [wpc EXCEPT ![w] = IF @ = "signal" THEN "count" ELSE "start"]
    /\ wtask' = [wtask EXCEPT ![w] = NoTask]
    /\ UNCHANGED <<state, queue, done, pending, idle, shutdown, clientvars>>

(* The counters of an executed task.                                       *)
WorkerCount(w) ==
    /\ wpc[w] = "count"
    /\ pending' = pending - 1
    /\ wpc' = [wpc EXCEPT ![w] = IF pending = 1 THEN "wsignal" ELSE "start"]
    /\ UNCHANGED <<state, note, queue, done, idle, shutdown, wtask, clientvars>>

(* xCondSignal(&g->wcond)                                                  *)
WorkerSignalGroup(w) ==
    /\ wpc[w] = "wsignal"
    /\ cpc' = [c \in Clients |-> IF cpc[c] = "gwait" THEN "gcheck" ELSE cpc[c]]
    /\ wpc' = [wpc EXCEPT ![w] = "start"]
    /\ UNCHANGED <<taskvars, idle, shutdown, wtask, ctask, submits, cancels>>

-----------------------------------------------------------------------------
(* The API *)

(* xCondSignal(&g->qcond): one waiting worker, if there is one.            *)
SignalOne(pcs) ==
    LET waiting == {w \in Workers : wpc[w] = "cond"}
    IN  IF waiting = {} THEN wpc' = pcs
        ELSE \E w \in waiting : wpc' = [pcs EXCEPT ![w] = "woken"]

(* spawn_one_worker; the new thread may also fail to start.                *)
Spawn ==
    \/ \E w \in Workers : wpc[w] = "off" /\ SignalOne([wpc EXCEPT ![w] = "start"])
    \/ /\ SpawnMayFail \/ \A w \in Workers : wpc[w] # "off"
       /\ UNCHANGED wpc

(* Mutant of Dispatch: the waiting worker is not signalled.                *)
DispatchQuiet == IF idle > 0 THEN UNCHANGED wpc ELSE Spawn

(* An idle worker first; a new one only when none is idle.                 *)
Dispatch == IF idle > 0 THEN SignalOne(wpc) ELSE Spawn

(* xTaskSubmit; a full queue leaves everything as it was.                  *)
Submit(c, t) ==
    /\ cpc[c] = "idle" /\ ~shutdown
    /\ state[t] = "FREE"
    /\ submits < MaxSubmits
    /\ QCap = 0 \/ Len(queue) < QCap
    /\ submits' = submits + 1
    /\ state' = [state EXCEPT ![t] = "QUEUED"]
    /\ note' = [note EXCEPT ![t] = FALSE]
    /\ queue' = Append(queue, t)
    /\ pending' = pending + 1
    /\ Dispatch
    /\ UNCHANGED <<done, idle, shutdown, wtask, cpc, ctask, cancels>>

(* xTaskCancel: the CAS (when it fails nothing happens) ...                *)
CancelCas(c, t) ==
    /\ cpc[c] = "idle" /\ ~shutdown
    /\ state[t] = "QUEUED"
    /\ cancels < MaxCancels
    /\ cancels' = cancels + 1
    /\ state' = [state EXCEPT ![t] = "CANCELLED"]
    /\ cpc' = [cpc EXCEPT ![c] = "cnote"]
    /\ ctask' = [ctask EXCEPT ![c] = t]
    /\ UNCHANGED <<note, queue, done, pending, idle, shutdown, wpc, wtask, submits>>

(* ... the note ...                                                        *)
CancelNote(c) ==
    /\ cpc[c] = "cnote"
    /\ note' = [note EXCEPT ![ctask[c]] = TRUE]
    /\ cpc' = [cpc EXCEPT ![c] = "cpending"]
    /\ UNCHANGED <<state, queue, done, pending, idle, shutdown, wpc, wtask, ctask, submits, cancels>>

(* ... and the pending count.                                              *)
CancelPending(c) ==
    /\ cpc[c] = "cpending"
    /\ pending' = pending - 1
    /\ cpc' = [cpc EXCEPT ![c] = "idle"]
    /\ ctask' = [ctask EXCEPT ![c] = NoTask]
    /\ UNCHANGED <<state, note, queue, done, idle, shutdown, wpc, wtask, submits, cancels>>

(* xTaskGroupWait                                                          *)
GroupWait ==
    /\ cpc[Main] = "idle" /\ ~shutdown
    /\ cpc' = [cpc EXCEPT ![Main] = "gcheck"]
    /\ UNCHANGED <<taskvars, idle, shutdown, wpc, wtask, ctask, submits, cancels>>

GroupCheck ==
    /\ cpc[Main] = "gcheck"
    /\ cpc' = [cpc EXCEPT ![Main] = IF pending > 0 THEN "gwait" ELSE "drain"]
    /\ UNCHANGED <<taskvars, idle, shutdown, wpc, wtask, ctask, submits, cancels>>

(* drain_done frees one task after the other.                              *)
DrainOne(t) ==
    /\ cpc[Main] = "drain"
    /\ t \in done
    /\ done' = done \ {t}
    /\ state' = [state EXCEPT ![t] = "FREE"]
    /\ UNCHANGED <<note, queue, pending, idle, shutdown, wpc, wtask, clientvars>>

DrainEnd ==
    /\ cpc[Main] = "drain"
    /\ done = {}
    /\ cpc' = [cpc EXCEPT ![Main] = "idle"]
    /\ UNCHANGED <<taskvars, idle, shutdown, wpc, wtask, ctask, submits, cancels>>

(* xTaskGroupDestroy, once no other client uses the group: broadcast ...   *)
Shutdown ==
    /\ \A c \in Clients : cpc[c] = "idle"
    /\ shutdown' = TRUE
    /\ wpc' = [w \in Workers |-> IF wpc[w] = "cond" THEN "woken" ELSE wpc[w]]
    /\ cpc' = [cpc EXCEPT ![Main] = "join"]
    /\ UNCHANGED <<taskvars, idle, wtask, ctask, submits, cancels>>

(* ... and, all workers joined, free what is left.                         *)
JoinAndFree ==
    /\ cpc[Main] = "join"
    /\ \A w \in Workers : wpc[w] \in {"off", "exited"}
    /\ state' = [t \in Tasks |->
                   IF t \in done \/ \E i \in DOMAIN queue : queue[i] = t THEN "FREE" ELSE state[t]]
    /\ queue' = <<>>
    /\ done' = {}
    /\ cpc' = [cpc EXCEPT ![Main] = "gone"]
    /\ UNCHANGED <<note, pending, idle, shutdown, wpc, wtask, ctask, submits, cancels>>

(* The group is destroyed.                                                 *)
Terminated == cpc[Main] = "gone" /\ UNCHANGED vars

-----------------------------------------------------------------------------
WorkerStep(w) ==
    \/ WorkerLock(w) \/ WorkerWake(w) \/ WorkerCas(w) \/ WorkerFinish(w)
    \/ WorkerPush(w) \/ WorkerSignal(w) \/ WorkerCount(w) \/ WorkerSignalGroup(w)

MainStep == GroupCheck \/ DrainEnd \/ JoinAndFree \/ \E t \in Tasks : DrainOne(t)

Next ==
    \/ \E w \in Workers : WorkerStep(w)
    \/ \E c \in Clients, t \in Tasks : Submit(c, t) \/ CancelCas(c, t)
    \/ \E c \in Clients : CancelNote(c) \/ CancelPending(c)
    \/ MainStep
    \/ GroupWait
    \/ Shutdown
    \/ Terminated

Spec == Init /\ [][Next]_vars

(* Threads that can run do, and the task functions return.  Nobody need    *)
(* submit, cancel, wait for or destroy anything.                           *)
Fairness ==
    /\ \A w \in Workers : WF_vars(WorkerStep(w))
    /\ \A c \in Clients : WF_vars(CancelNote(c) \/ CancelPending(c))
    /\ WF_vars(MainStep)

FairSpec == Spec /\ Fairness

-----------------------------------------------------------------------------
(* Properties *)

WorkerPcs == {"off", "start", "cond", "woken", "cas", "run", "push", "pushcancelled",
              "signal", "signalcancelled", "count", "wsignal", "exited"}

TypeOK ==
    /\ state \in [Tasks -> {"FREE", "QUEUED", "RUNNING", "DONE", "CANCELLED"}]
    /\ note \in [Tasks -> BOOLEAN]
    /\ queue \in Seq(Tasks)
    /\ done \subseteq Tasks
    /\ pending \in Nat
    /\ idle \in Nat
    /\ shutdown \in BOOLEAN
    /\ wpc \in [Workers -> WorkerPcs]
    /\ wtask \in [Workers -> Tasks \cup {NoTask}]
    /\ cpc \in [Clients -> {"idle", "cnote", "cpending", "gcheck", "gwait", "drain", "join", "gone"}]
    /\ ctask \in [Clients -> Tasks \cup {NoTask}]
    /\ submits \in Nat /\ cancels \in Nat

(* pending is the number of tasks submitted and not yet accounted for by   *)
(* the worker that ran them or the client that cancelled them: neither a   *)
(* cancel racing the worker nor a reused slot counts a task twice.         *)
PendingExact ==
    ~shutdown =>
      pending = Cardinality({t \in Tasks : state[t] \in {"QUEUED", "RUNNING"}})
              + Cardinality({w \in Workers : wpc[w] \in {"push", "signal", "count"}})
              + Cardinality({c \in Clients : cpc[c] \in {"cnote", "cpending"}})

(* While tasks are queued some started worker is on its way to the queue:  *)
(* no signal of qcond is lost.                                             *)
QueueAttended ==
    (queue # <<>> /\ \E w \in Workers : wpc[w] # "off")
      => \E w \in Workers : wpc[w] \notin {"off", "cond", "exited"}

(* xTaskGroupDestroy frees no task that still waits to run, when a worker  *)
(* could be started (task.h:57, "Waits for all pending tasks to            *)
(* complete").                                                             *)
DestroyRunsAll ==
    (cpc[Main] = "gone" /\ \E w \in Workers : wpc[w] # "off") => pending = 0

(* A cancelled task never runs (task.h:86): its state leaves CANCELLED     *)
(* only when the slot is freed.                                            *)
CancelledNeverRuns ==
    [][\A t \in Tasks : state[t] = "CANCELLED" => state'[t] \in {"CANCELLED", "FREE"}]_vars

(* Every submitted task is finished with, even if submitters keep coming.  *)
TasksFinish == \A t \in Tasks : state[t] = "QUEUED" ~> state[t] \in {"DONE", "CANCELLED", "FREE"}

(* The books of a group and what they are for: pending is exact, so that   *)
(* waiters wake when and only when all is done; a queued task has a worker *)
(* on its way; and a destroy leaves nothing that waits to run.             *)
GroupAccounts == TypeOK /\ PendingExact /\ QueueAttended /\ DestroyRunsAll
=============================================================================
