--------------------------- MODULE TaskGroupProof ---------------------------
(***************************************************************************)
(* For any number of workers, clients and task slots, any queue limit, and *)
(* threads that may fail to start: the books of the group are exact, a     *)
(* queued task has a worker on its way, a destroy runs what was queued,    *)
(* and a cancelled task never runs.                                        *)
(*                                                                         *)
(* The argument is about who owns a task.  From xTaskSubmit to drain_done  *)
(* a task is in one place: in the queue, with one worker, or on the done   *)
(* queue; and the place tells its state.                                   *)
(***************************************************************************)
EXTENDS TaskGroup, FiniteSetTheorems, SequenceTheorems, TLAPS

(* A worker owns its task from the dequeue to the push onto the done queue. *)
Holds(w) == wpc[w] \in {"cas", "run", "push", "pushcancelled"}

(* The state a worker's task is in, by where the worker is.                *)
HeldState(pc) ==
    CASE pc = "cas" -> {"QUEUED", "CANCELLED"}
      [] pc = "run" -> {"RUNNING"}
      [] pc = "push" -> {"DONE"}
      [] OTHER -> {"CANCELLED"}

QueueOwns ==
    /\ \A i, j \in DOMAIN queue : i # j => queue[i] # queue[j]
    /\ \A i \in DOMAIN queue : state[queue[i]] \in {"QUEUED", "CANCELLED"} /\ queue[i] \notin done

WorkersOwn ==
    \A w \in Workers : Holds(w) =>
      /\ wtask[w] \in Tasks \ done
      /\ state[wtask[w]] \in HeldState(wpc[w])
      /\ \A i \in DOMAIN queue : queue[i] # wtask[w]
      /\ \A v \in Workers : v # w /\ Holds(v) => wtask[v] # wtask[w]

DoneFinished == \A t \in done : state[t] \in {"DONE", "CANCELLED"}

(* A task that has yet to run, or runs, is in the queue or with a worker.  *)
UnfinishedOwned ==
    \A t \in Tasks : state[t] \in {"QUEUED", "RUNNING"} =>
      \/ \E i \in DOMAIN queue : queue[i] = t
      \/ \E w \in Workers : Holds(w) /\ wtask[w] = t

(* What pending is to count, until the group is gone.                      *)
Unfinished == {t \in Tasks : state[t] \in {"QUEUED", "RUNNING"}}
Counting == {w \in Workers : wpc[w] \in {"push", "signal", "count"}}
Cancelling == {c \in Clients : cpc[c] \in {"cnote", "cpending"}}
Owed == Cardinality(Unfinished) + Cardinality(Counting) + Cardinality(Cancelling)

Books ==
    /\ cpc[Main] # "gone" => pending = Owed
    /\ idle = Cardinality({w \in Workers : wpc[w] \in {"cond", "woken"}})

(* Once the group is being destroyed nobody calls it; a worker leaves only *)
(* then, and only when the queue is empty.                                 *)
Closing ==
    /\ shutdown <=> cpc[Main] \in {"join", "gone"}
    /\ shutdown => \A c \in Clients \ {Main} : cpc[c] = "idle"
    /\ (\E w \in Workers : wpc[w] = "exited") => shutdown /\ queue = <<>>
    /\ cpc[Main] = "gone" => \A w \in Workers : wpc[w] \in {"off", "exited"}

IInv ==
    /\ TypeOK /\ QueueOwns /\ WorkersOwn /\ DoneFinished /\ UnfinishedOwned
    /\ Books /\ Closing /\ QueueAttended /\ DestroyRunsAll

-----------------------------------------------------------------------------
Idlers == {w \in Workers : wpc[w] \in {"cond", "woken"}}

(* The pop of a queue: every other entry moves up by one.                  *)
LEMMA TailEntries ==
    ASSUME NEW S, NEW s \in Seq(S), s # <<>>
    PROVE  /\ Head(s) = s[1] /\ 1 \in DOMAIN s
           /\ Tail(s) \in Seq(S)
           /\ DOMAIN Tail(s) = 1 .. Len(s) - 1 /\ DOMAIN s = 1 .. Len(s) /\ Len(s) \in Nat
           /\ \A i \in DOMAIN Tail(s) : i + 1 \in DOMAIN s /\ Tail(s)[i] = s[i + 1]
           /\ \A i \in DOMAIN s : i # 1 => i - 1 \in DOMAIN Tail(s) /\ Tail(s)[i - 1] = s[i]
  OBVIOUS

(* The push of a queue: every entry stays where it is.                     *)
LEMMA AppendEntries ==
    ASSUME NEW S, NEW s \in Seq(S), NEW x \in S
    PROVE  /\ Append(s, x) \in Seq(S)
           /\ DOMAIN Append(s, x) = 1 .. Len(s) + 1 /\ DOMAIN s = 1 .. Len(s) /\ Len(s) \in Nat
           /\ Append(s, x)[Len(s) + 1] = x
           /\ \A i \in DOMAIN s : Append(s, x)[i] = s[i]
  OBVIOUS

LEMMA FiniteBooks ==
    /\ IsFiniteSet(Unfinished) /\ IsFiniteSet(Counting) /\ IsFiniteSet(Cancelling)
    /\ IsFiniteSet(Idlers)
    /\ Cardinality(Unfinished) \in Nat /\ Cardinality(Counting) \in Nat
    /\ Cardinality(Cancelling) \in Nat /\ Cardinality(Idlers) \in Nat
  <1>1. /\ Unfinished \subseteq Tasks /\ Counting \subseteq Workers
        /\ Cancelling \subseteq Clients /\ Idlers \subseteq Workers
    BY DEF Unfinished, Counting, Cancelling, Idlers
  <1>2. /\ IsFiniteSet(Unfinished) /\ IsFiniteSet(Counting) /\ IsFiniteSet(Cancelling)
        /\ IsFiniteSet(Idlers)
    BY <1>1, TaskAssumption, FS_Subset
  <1>3. QED
    BY <1>2, FS_CardinalityType

LEMMA InitIInv == Init => IInv
  <1> SUFFICES ASSUME Init PROVE IInv
    OBVIOUS
  <1>0. queue \in Seq(Tasks) /\ pending \in Nat /\ idle \in Nat /\ submits \in Nat /\ cancels \in Nat
    BY DEF Init
  <1>1. TypeOK
    BY Zenon, <1>0 DEF Init, TypeOK, WorkerPcs
  <1>2. QueueOwns /\ DoneFinished /\ UnfinishedOwned
    BY DEF Init, QueueOwns, DoneFinished, UnfinishedOwned
  <1>3. WorkersOwn
    BY DEF Init, WorkersOwn, Holds
  <1>4. Books
    <2>1. Unfinished = {} /\ Counting = {} /\ Cancelling = {} /\ Idlers = {}
      BY DEF Init, Unfinished, Counting, Cancelling, Idlers
    <2>2. Owed = 0 /\ Cardinality(Idlers) = 0
      BY <2>1, FS_EmptySet DEF Owed
    <2>3. QED
      BY <2>2 DEF Init, Books, Idlers
  <1>5. Closing /\ QueueAttended /\ DestroyRunsAll
    BY TaskAssumption DEF Init, Closing, QueueAttended, DestroyRunsAll
  <1>6. QED
    BY <1>1, <1>2, <1>3, <1>4, <1>5 DEF IInv

-----------------------------------------------------------------------------
(* A step that moves no task: nothing changes hands.                       *)
LEMMA OwnersSame ==
    ASSUME QueueOwns, DoneFinished, WorkersOwn, UnfinishedOwned,
           state' = state, queue' = queue, done' = done,
           \A w \in Workers : /\ Holds(w)' = Holds(w)
                              /\ Holds(w) => wpc'[w] = wpc[w] /\ wtask'[w] = wtask[w]
    PROVE  QueueOwns' /\ DoneFinished' /\ WorkersOwn' /\ UnfinishedOwned'
  <1>1. QueueOwns'
    BY DEF QueueOwns
  <1>2. DoneFinished'
    BY DEF DoneFinished
  <1>3. WorkersOwn'
    BY DEF WorkersOwn
  <1>4. UnfinishedOwned'
    BY DEF UnfinishedOwned
  <1>5. QED
    BY <1>1, <1>2, <1>3, <1>4

(* A step that changes the state of one task the queue does not own, and   *)
(* may take it off the done queue.                                         *)
LEMMA OthersOwned ==
    ASSUME TypeOK, QueueOwns, DoneFinished, NEW t \in Tasks,
           \A i \in DOMAIN queue : queue[i] # t, queue' = queue,
           done' \subseteq done, t \notin done',
           \A x \in Tasks : x # t => state'[x] = state[x]
    PROVE  QueueOwns' /\ DoneFinished'
  <1>1. (\A i \in DOMAIN queue : queue[i] \in Tasks) /\ done \subseteq Tasks
    BY DEF TypeOK
  <1>2. QueueOwns'
    BY <1>1 DEF QueueOwns
  <1>3. DoneFinished'
    BY <1>1 DEF DoneFinished
  <1>4. QED
    BY <1>2, <1>3

(* A worker goes on with its task, whose state follows.                    *)
LEMMA HolderOwns ==
    ASSUME WorkersOwn, NEW w \in Workers, Holds(w),
           \A v \in Workers : Holds(v)' = Holds(v) /\ (v # w => wpc'[v] = wpc[v]),
           \A x \in Tasks : x # wtask[w] => state'[x] = state[x],
           state'[wtask[w]] \in HeldState(wpc'[w]),
           wtask' = wtask, queue' = queue, done' = done
    PROVE  WorkersOwn'
  <1>1. SUFFICES ASSUME NEW v \in Workers, Holds(v)
                 PROVE  state'[wtask[v]] \in HeldState(wpc'[v])
    BY DEF WorkersOwn
  <1>2. CASE v = w
    BY <1>2
  <1>3. CASE v # w
    BY <1>1, <1>3 DEF WorkersOwn
  <1>4. QED
    BY <1>2, <1>3

LEMMA OwnersUnmoved ==
    ASSUME QueueOwns, DoneFinished, WorkersOwn, UnfinishedOwned,
           state' = state, queue' = queue, done' = done, wpc' = wpc, wtask' = wtask
    PROVE  QueueOwns' /\ DoneFinished' /\ WorkersOwn' /\ UnfinishedOwned'
  <1>1. \A w \in Workers : /\ Holds(w)' = Holds(w)
                           /\ Holds(w) => wpc'[w] = wpc[w] /\ wtask'[w] = wtask[w]
    BY DEF Holds
  <1>2. QED
    BY <1>1, OwnersSame

-----------------------------------------------------------------------------
(* Workers.                                                                *)

(* The worker takes the head of the queue: the queue owned it.             *)
LEMMA DequeueKeeps ==
    ASSUME IInv, NEW w \in Workers, wpc[w] \in {"start", "woken"}, Dequeue(w),
           queue = <<>> => shutdown,
           UNCHANGED <<state, note, done, pending, shutdown, clientvars>>
    PROVE  /\ QueueOwns' /\ WorkersOwn' /\ DoneFinished' /\ UnfinishedOwned'
           /\ Closing' /\ QueueAttended' /\ DestroyRunsAll'
           /\ queue' \in Seq(Tasks) /\ wpc' \in [Workers -> WorkerPcs]
           /\ wtask' \in [Workers -> Tasks \cup {NoTask}]
           /\ Unfinished' = Unfinished /\ Counting' = Counting /\ Cancelling' = Cancelling
           /\ wpc'[w] \notin {"cond", "woken"} /\ \A v \in Workers \ {w} : wpc'[v] = wpc[v]
  <1> USE DEF IInv, TypeOK, clientvars
  <1>0. wpc' \in [Workers -> WorkerPcs] /\ wpc'[w] \in {"cas", "exited"}
        /\ \A v \in Workers \ {w} : wpc'[v] = wpc[v]
    BY DEF Dequeue, WorkerPcs
  <1>1. CASE queue = <<>>
    <2>1. UNCHANGED <<queue, wtask>> /\ wpc' = [wpc EXCEPT ![w] = "exited"]
      BY <1>1 DEF Dequeue
    <2>2. QueueOwns' /\ DoneFinished'
      BY <2>1 DEF QueueOwns, DoneFinished
    <2>3. \A v \in Workers : Holds(v)' = Holds(v) /\ (Holds(v) => wpc'[v] = wpc[v])
      BY <2>1 DEF Holds
    <2>4. WorkersOwn' /\ UnfinishedOwned'
      BY <2>1, <2>3 DEF WorkersOwn, UnfinishedOwned
    <2>5. Closing' /\ QueueAttended'
      BY <1>1, <2>1 DEF Closing, QueueAttended
    <2>6. DestroyRunsAll'
      BY <2>1 DEF DestroyRunsAll, Closing
    <2>7. Unfinished' = Unfinished /\ Counting' = Counting /\ Cancelling' = Cancelling
      BY <2>1 DEF Unfinished, Counting, Cancelling
    <2>8. QED
      BY <1>0, <2>1, <2>2, <2>4, <2>5, <2>6, <2>7
  <1>2. CASE queue # <<>>
    <2>0. wtask' = [wtask EXCEPT ![w] = queue[1]] /\ queue' = Tail(queue)
          /\ wpc' = [wpc EXCEPT ![w] = "cas"]
      BY <1>2, TailEntries DEF Dequeue
    <2>1. /\ 1 \in DOMAIN queue /\ queue[1] \in Tasks /\ queue' \in Seq(Tasks)
          /\ \A i \in DOMAIN queue' : i + 1 \in DOMAIN queue /\ queue'[i] = queue[i + 1] /\ i + 1 # 1
          /\ \A i, j \in DOMAIN queue' : i # j => i + 1 # j + 1
          /\ \A i \in DOMAIN queue : i # 1 => i - 1 \in DOMAIN queue' /\ queue'[i - 1] = queue[i]
      BY <1>2, <2>0, TailEntries
    <2>2. QueueOwns' /\ DoneFinished'
      BY <2>1 DEF QueueOwns, DoneFinished
    <2>3. \A v \in Workers : v # w => Holds(v)' = Holds(v) /\ wpc'[v] = wpc[v] /\ wtask'[v] = wtask[v]
      BY <2>0 DEF Holds
    <2>4. Holds(w)' /\ wtask'[w] = queue[1] /\ ~Holds(w) /\ wpc'[w] = "cas"
      BY <2>0 DEF Holds
    <2>5. WorkersOwn'
      <3> SUFFICES ASSUME NEW v \in Workers, Holds(v)'
                   PROVE  /\ wtask'[v] \in Tasks \ done'
                          /\ state'[wtask'[v]] \in HeldState(wpc'[v])
                          /\ \A i \in DOMAIN queue' : queue'[i] # wtask'[v]
                          /\ \A u \in Workers : u # v /\ Holds(u)' => wtask'[u] # wtask'[v]
        BY DEF WorkersOwn
      <3>1. CASE v = w
        BY <3>1, <2>1, <2>3, <2>4 DEF WorkersOwn, QueueOwns, HeldState
      <3>2. CASE v # w
        <4>1. /\ wtask[v] \in Tasks \ done /\ state[wtask[v]] \in HeldState(wpc[v])
              /\ \A i \in DOMAIN queue : queue[i] # wtask[v]
              /\ \A u \in Workers : u # v /\ Holds(u) => wtask[u] # wtask[v]
          BY <3>2, <2>3 DEF WorkersOwn
        <4>2. wpc'[v] = wpc[v] /\ wtask'[v] = wtask[v] /\ state' = state /\ done' = done
          BY <3>2, <2>3
        <4>3. \A i \in DOMAIN queue' : queue'[i] # wtask[v]
          BY <4>1, <2>1
        <4>4. \A u \in Workers : u # v /\ Holds(u)' => wtask'[u] # wtask[v]
          <5>1. wtask'[w] = queue[1]
            BY <2>0
          <5>2. queue[1] # wtask[v]
            BY <4>1, <2>1
          <5>3. QED
            BY <4>1, <5>1, <5>2, <2>3, <2>4
        <4>5. QED
          BY <4>1, <4>2, <4>3, <4>4
      <3>3. QED
        BY <3>1, <3>2
    <2>6. UnfinishedOwned'
      <3> SUFFICES ASSUME NEW t \in Tasks, state[t] \in {"QUEUED", "RUNNING"}
                   PROVE  \/ \E i \in DOMAIN queue' : queue'[i] = t
                          \/ \E v \in Workers : Holds(v)' /\ wtask'[v] = t
        BY DEF UnfinishedOwned
      <3>1. CASE \E i \in DOMAIN queue : queue[i] = t
        <4>1. PICK i \in DOMAIN queue : queue[i] = t
          BY <3>1
        <4>2. CASE i = 1
          BY <4>1, <4>2, <2>4
        <4>3. CASE i # 1
          BY <4>1, <4>3, <2>1
        <4>4. QED
          BY <4>2, <4>3
      <3>2. CASE \E v \in Workers : Holds(v) /\ wtask[v] = t
        BY <3>2, <2>3, <2>4
      <3>3. QED
        BY <3>1, <3>2 DEF UnfinishedOwned
    <2>7. Closing' /\ QueueAttended'
      BY <1>2, <2>0 DEF Closing, QueueAttended
    <2>8. DestroyRunsAll'
      BY <2>0 DEF DestroyRunsAll, Closing
    <2>9. Unfinished' = Unfinished /\ Counting' = Counting /\ Cancelling' = Cancelling
      BY <2>0 DEF Unfinished, Counting, Cancelling
    <2>10. QED
      BY <1>0, <2>0, <2>1, <2>2, <2>5, <2>6, <2>7, <2>8, <2>9
  <1>3. QED
    BY <1>1, <1>2

LEMMA WorkerLockKeeps == ASSUME IInv, NEW w \in Workers, WorkerLock(w) PROVE IInv'
  <1> USE DEF IInv, clientvars
  <1>1. CASE queue = <<>> /\ ~shutdown
    <2>1. /\ idle' = idle + 1 /\ wpc' = [wpc EXCEPT ![w] = "cond"]
          /\ UNCHANGED <<queue, wtask, state, note, done, pending, shutdown, clientvars>>
          /\ wpc[w] = "start"
      BY <1>1 DEF WorkerLock
    <2>2. TypeOK'
      BY <2>1 DEF TypeOK, WorkerPcs
    <2>3. QueueOwns' /\ DoneFinished'
      BY <2>1 DEF QueueOwns, DoneFinished
    <2>4. \A v \in Workers : Holds(v)' = Holds(v) /\ (Holds(v) => wpc'[v] = wpc[v])
      BY <2>1 DEF Holds, TypeOK
    <2>5. WorkersOwn' /\ UnfinishedOwned'
      BY <2>1, <2>4 DEF WorkersOwn, UnfinishedOwned
    <2>6. Books'
      <3>1. Unfinished' = Unfinished /\ Counting' = Counting /\ Cancelling' = Cancelling
        BY <2>1 DEF Unfinished, Counting, Cancelling, TypeOK
      <3>2. Idlers' = Idlers \cup {w} /\ w \notin Idlers
        BY <2>1 DEF Idlers, TypeOK
      <3>3. Cardinality(Idlers') = Cardinality(Idlers) + 1
        BY <3>2, FiniteBooks, FS_AddElement, FS_CardinalityType
      <3>4. QED
        BY <2>1, <3>1, <3>3 DEF Books, Owed, Idlers
    <2>7. Closing' /\ QueueAttended' /\ DestroyRunsAll'
      BY <1>1, <2>1 DEF Closing, QueueAttended, DestroyRunsAll, TypeOK
    <2>8. QED
      BY <2>2, <2>3, <2>5, <2>6, <2>7
  <1>2. CASE ~(queue = <<>> /\ ~shutdown)
    <2>1. /\ Dequeue(w) /\ wpc[w] = "start"
          /\ UNCHANGED <<state, note, done, pending, shutdown, clientvars, idle>>
      BY <1>2 DEF WorkerLock
    <2>2. /\ QueueOwns' /\ WorkersOwn' /\ DoneFinished' /\ UnfinishedOwned'
          /\ Closing' /\ QueueAttended' /\ DestroyRunsAll'
          /\ queue' \in Seq(Tasks) /\ wpc' \in [Workers -> WorkerPcs]
          /\ wtask' \in [Workers -> Tasks \cup {NoTask}]
          /\ Unfinished' = Unfinished /\ Counting' = Counting /\ Cancelling' = Cancelling
          /\ wpc'[w] \notin {"cond", "woken"} /\ \A v \in Workers \ {w} : wpc'[v] = wpc[v]
      BY <1>2, <2>1, DequeueKeeps
    <2>3. TypeOK'
      BY <2>1, <2>2 DEF TypeOK
    <2>4. Idlers' = Idlers
      BY <2>1, <2>2 DEF Idlers
    <2>5. Books'
      BY Zenon, <2>1, <2>2, <2>4 DEF Books, Owed, Idlers
    <2>6. QED
      BY <2>2, <2>3, <2>5
  <1>3. QED
    BY <1>1, <1>2

LEMMA WorkerWakeKeeps == ASSUME IInv, NEW w \in Workers, WorkerWake(w) PROVE IInv'
  <1> USE DEF IInv, clientvars
  <1>1. CASE queue = <<>> /\ ~shutdown
    <2>1. /\ wpc' = [wpc EXCEPT ![w] = "cond"] /\ wpc[w] = "woken"
          /\ UNCHANGED <<queue, wtask, idle, state, note, done, pending, shutdown, clientvars>>
      BY <1>1 DEF WorkerWake
    <2>2. TypeOK'
      BY <2>1 DEF TypeOK, WorkerPcs
    <2>3. QueueOwns' /\ DoneFinished'
      BY <2>1 DEF QueueOwns, DoneFinished
    <2>4. \A v \in Workers : Holds(v)' = Holds(v) /\ (Holds(v) => wpc'[v] = wpc[v])
      BY <2>1 DEF Holds, TypeOK
    <2>5. WorkersOwn' /\ UnfinishedOwned'
      BY <2>1, <2>4 DEF WorkersOwn, UnfinishedOwned
    <2>6. Books'
      <3>1. Unfinished' = Unfinished /\ Counting' = Counting /\ Cancelling' = Cancelling
            /\ Idlers' = Idlers
        BY <2>1 DEF Unfinished, Counting, Cancelling, Idlers, TypeOK
      <3>2. QED
        BY <2>1, <3>1 DEF Books, Owed, Idlers
    <2>7. Closing' /\ QueueAttended' /\ DestroyRunsAll'
      BY <1>1, <2>1 DEF Closing, QueueAttended, DestroyRunsAll, TypeOK
    <2>8. QED
      BY <2>2, <2>3, <2>5, <2>6, <2>7
  <1>2. CASE ~(queue = <<>> /\ ~shutdown)
    <2>1. /\ Dequeue(w) /\ wpc[w] = "woken" /\ idle' = idle - 1
          /\ UNCHANGED <<state, note, done, pending, shutdown, clientvars>>
      BY <1>2 DEF WorkerWake
    <2>2. /\ QueueOwns' /\ WorkersOwn' /\ DoneFinished' /\ UnfinishedOwned'
          /\ Closing' /\ QueueAttended' /\ DestroyRunsAll'
          /\ queue' \in Seq(Tasks) /\ wpc' \in [Workers -> WorkerPcs]
          /\ wtask' \in [Workers -> Tasks \cup {NoTask}]
          /\ Unfinished' = Unfinished /\ Counting' = Counting /\ Cancelling' = Cancelling
          /\ wpc'[w] \notin {"cond", "woken"} /\ \A v \in Workers \ {w} : wpc'[v] = wpc[v]
      BY <1>2, <2>1, DequeueKeeps
    <2>3. Idlers' = Idlers \ {w} /\ w \in Idlers
      BY <2>1, <2>2 DEF Idlers
    <2>4. Cardinality(Idlers') = Cardinality(Idlers) - 1 /\ Cardinality(Idlers') \in Nat
      BY <2>3, FiniteBooks, FS_RemoveElement, FS_CardinalityType
    <2>5. Books'
      BY <2>1, <2>2, <2>4 DEF Books, Owed, Idlers
    <2>6. TypeOK'
      BY <2>1, <2>2, <2>4 DEF TypeOK, Books, Idlers
    <2>7. QED
      BY <2>2, <2>5, <2>6
  <1>3. QED
    BY <1>1, <1>2

LEMMA WorkerCasKeeps == ASSUME IInv, NEW w \in Workers, WorkerCas(w) PROVE IInv'
  <1> USE DEF IInv, clientvars
  <1> DEFINE t == wtask[w]
  <1>0. /\ wpc[w] = "cas" /\ Holds(w)
        /\ UNCHANGED <<note, queue, done, pending, idle, shutdown, wtask, clientvars>>
    BY DEF WorkerCas, Holds
  <1>1. /\ t \in Tasks \ done /\ state[t] \in {"QUEUED", "CANCELLED"}
        /\ \A i \in DOMAIN queue : queue[i] # t
        /\ \A v \in Workers : v # w /\ Holds(v) => wtask[v] # t
    BY <1>0 DEF WorkersOwn, HeldState
  <1>2. /\ wpc' = [wpc EXCEPT ![w] = IF state[t] = "QUEUED" THEN "run" ELSE "pushcancelled"]
        /\ state' = [state EXCEPT ![t] = IF state[t] = "QUEUED" THEN "RUNNING" ELSE "CANCELLED"]
    BY <1>1 DEF WorkerCas, TypeOK
  <1>3. TypeOK'
    BY Zenon, <1>0, <1>2 DEF TypeOK, WorkerPcs
  <1>4. \A v \in Workers : Holds(v)' = Holds(v) /\ (v # w => wpc'[v] = wpc[v])
    BY <1>0, <1>2 DEF Holds, TypeOK
  <1>5. \A x \in Tasks : x # t => state'[x] = state[x]
    BY <1>2 DEF TypeOK
  <1>6. QueueOwns' /\ DoneFinished'
    BY <1>0, <1>1, <1>5, OthersOwned
  <1>7. WorkersOwn'
    <2>1. state'[t] \in HeldState(wpc'[w])
      BY <1>1, <1>2 DEF HeldState, TypeOK
    <2>2. QED
      BY <1>0, <1>1, <1>4, <1>5, <2>1, HolderOwns
  <1>8. UnfinishedOwned'
    BY <1>0, <1>4, <1>5 DEF UnfinishedOwned
  <1>9. Books'
    <2>1. Unfinished' = Unfinished /\ Counting' = Counting /\ Cancelling' = Cancelling
          /\ Idlers' = Idlers
      BY <1>0, <1>1, <1>2 DEF Unfinished, Counting, Cancelling, Idlers, TypeOK
    <2>2. QED
      BY Zenon, <1>0, <2>1 DEF Books, Owed, Idlers
  <1>10. Closing' /\ QueueAttended' /\ DestroyRunsAll'
    BY <1>0, <1>2 DEF Closing, QueueAttended, DestroyRunsAll, TypeOK
  <1>11. QED
    BY <1>3, <1>6, <1>7, <1>8, <1>9, <1>10

LEMMA WorkerFinishKeeps == ASSUME IInv, NEW w \in Workers, WorkerFinish(w) PROVE IInv'
  <1> USE DEF IInv, clientvars
  <1> DEFINE t == wtask[w]
  <1>0. /\ wpc[w] = "run" /\ Holds(w)
        /\ wpc' = [wpc EXCEPT ![w] = "push"] /\ state' = [state EXCEPT ![t] = "DONE"]
        /\ UNCHANGED <<note, queue, done, pending, idle, shutdown, wtask, clientvars>>
    BY DEF WorkerFinish, Holds
  <1>1. /\ t \in Tasks \ done /\ state[t] = "RUNNING"
        /\ \A i \in DOMAIN queue : queue[i] # t
        /\ \A v \in Workers : v # w /\ Holds(v) => wtask[v] # t
    BY <1>0 DEF WorkersOwn, HeldState
  <1>3. TypeOK'
    BY Zenon, <1>0 DEF TypeOK, WorkerPcs
  <1>4. \A v \in Workers : Holds(v)' = Holds(v) /\ (v # w => wpc'[v] = wpc[v])
    BY <1>0 DEF Holds, TypeOK
  <1>5. state'[t] = "DONE" /\ wpc'[w] = "push" /\ \A x \in Tasks : x # t => state'[x] = state[x]
    BY <1>0, <1>1 DEF TypeOK
  <1>6. QueueOwns' /\ DoneFinished'
    BY <1>0, <1>1, <1>5, OthersOwned
  <1>7. WorkersOwn'
    <2>1. state'[t] \in HeldState(wpc'[w])
      BY <1>5 DEF HeldState
    <2>2. QED
      BY <1>0, <1>1, <1>4, <1>5, <2>1, HolderOwns
  <1>8. UnfinishedOwned'
    BY <1>0, <1>4, <1>5 DEF UnfinishedOwned
  <1>9. Books'
    <2>1. /\ Unfinished' = Unfinished \ {t} /\ t \in Unfinished
          /\ Counting' = Counting \cup {w} /\ w \notin Counting
          /\ Cancelling' = Cancelling /\ Idlers' = Idlers
      BY <1>0, <1>1, <1>5 DEF Unfinished, Counting, Cancelling, Idlers, TypeOK
    <2>2. Cardinality(Unfinished') = Cardinality(Unfinished) - 1
      BY Zenon, <2>1, FiniteBooks, FS_RemoveElement, FS_CardinalityType
    <2>3. Cardinality(Counting') = Cardinality(Counting) + 1
      BY <2>1, FiniteBooks, FS_AddElement, FS_CardinalityType
    <2>4. Owed' = Owed
      <3>1. Cancelling' = Cancelling
        BY <2>1
      <3>2. QED
        BY <2>2, <2>3, <3>1, FiniteBooks DEF Owed
    <2>5. QED
      BY Zenon, <1>0, <2>1, <2>4 DEF Books, Idlers
  <1>10. Closing' /\ QueueAttended' /\ DestroyRunsAll'
    BY <1>0 DEF Closing, QueueAttended, DestroyRunsAll, TypeOK
  <1>11. QED
    BY <1>3, <1>6, <1>7, <1>8, <1>9, <1>10

LEMMA WorkerPushKeeps == ASSUME IInv, NEW w \in Workers, WorkerPush(w) PROVE IInv'
  <1> USE DEF IInv, clientvars
  <1> DEFINE t == wtask[w]
  <1>0. /\ wpc[w] \in {"push", "pushcancelled"} /\ Holds(w) /\ done' = done \cup {t}
        /\ wpc' = [wpc EXCEPT ![w] = IF wpc[w] = "push" THEN "signal" ELSE "signalcancelled"]
        /\ UNCHANGED <<state, note, queue, pending, idle, shutdown, wtask, clientvars>>
    BY DEF WorkerPush, Holds, TypeOK
  <1>1. /\ t \in Tasks \ done /\ state[t] \in {"DONE", "CANCELLED"}
        /\ \A i \in DOMAIN queue : queue[i] # t
        /\ \A v \in Workers : v # w /\ Holds(v) => wtask[v] # t
    BY <1>0 DEF WorkersOwn, HeldState
  <1>3. TypeOK'
    BY <1>0, <1>1 DEF TypeOK, WorkerPcs
  <1>4. ~Holds(w)' /\ \A v \in Workers : v # w => Holds(v)' = Holds(v) /\ wpc'[v] = wpc[v]
    BY <1>0 DEF Holds, TypeOK
  <1>6. QueueOwns' /\ DoneFinished'
    BY <1>0, <1>1 DEF QueueOwns, DoneFinished
  <1>7. WorkersOwn'
    BY Zenon, <1>0, <1>1, <1>4 DEF WorkersOwn
  <1>8. UnfinishedOwned'
    <2>1. \A x \in Tasks : state'[x] = state[x]
      BY <1>0
    <2>2. QED
      BY <1>0, <1>1, <1>4, <2>1 DEF UnfinishedOwned
  <1>9. Books'
    <2>1. Unfinished' = Unfinished /\ Counting' = Counting /\ Cancelling' = Cancelling
          /\ Idlers' = Idlers
      BY <1>0 DEF Unfinished, Counting, Cancelling, Idlers, TypeOK
    <2>2. QED
      BY Zenon, <1>0, <2>1 DEF Books, Owed, Idlers
  <1>10. Closing' /\ QueueAttended' /\ DestroyRunsAll'
    BY <1>0 DEF Closing, QueueAttended, DestroyRunsAll, TypeOK
  <1>11. QED
    BY <1>3, <1>6, <1>7, <1>8, <1>9, <1>10

LEMMA WorkerSignalKeeps == ASSUME IInv, NEW w \in Workers, WorkerSignal(w) PROVE IInv'
  <1> USE DEF IInv, clientvars
  <1>0. /\ wpc[w] \in {"signal", "signalcancelled"} /\ ~Holds(w)
        /\ wpc' = [wpc EXCEPT ![w] = IF wpc[w] = "signal" THEN "count" ELSE "start"]
        /\ wtask' = [wtask EXCEPT ![w] = NoTask] /\ note' = [note EXCEPT ![wtask[w]] = TRUE]
        /\ UNCHANGED <<state, queue, done, pending, idle, shutdown, clientvars>>
    BY DEF WorkerSignal, Holds, TypeOK
  <1>3. TypeOK'
    BY Zenon, <1>0 DEF TypeOK, WorkerPcs
  <1>4. \A v \in Workers : /\ Holds(v)' = Holds(v)
                           /\ Holds(v) => wpc'[v] = wpc[v] /\ wtask'[v] = wtask[v]
    BY <1>0 DEF Holds, TypeOK
  <1>7. QueueOwns' /\ DoneFinished' /\ WorkersOwn' /\ UnfinishedOwned'
    BY <1>0, <1>4, OwnersSame
  <1>9. Books'
    <2>1. Unfinished' = Unfinished /\ Counting' = Counting /\ Cancelling' = Cancelling
          /\ Idlers' = Idlers
      BY <1>0 DEF Unfinished, Counting, Cancelling, Idlers, TypeOK
    <2>2. QED
      BY <1>0, <2>1 DEF Books, Owed, Idlers
  <1>10. Closing' /\ QueueAttended' /\ DestroyRunsAll'
    BY <1>0 DEF Closing, QueueAttended, DestroyRunsAll, TypeOK
  <1>11. QED
    BY <1>3, <1>7, <1>9, <1>10

LEMMA WorkerCountKeeps == ASSUME IInv, NEW w \in Workers, WorkerCount(w) PROVE IInv'
  <1> USE DEF IInv, clientvars
  <1>0. /\ wpc[w] = "count" /\ ~Holds(w) /\ pending' = pending - 1
        /\ wpc' = [wpc EXCEPT ![w] = IF pending = 1 THEN "wsignal" ELSE "start"]
        /\ UNCHANGED <<state, note, queue, done, idle, shutdown, wtask, clientvars>>
    BY DEF WorkerCount, Holds
  <1>1. cpc[Main] # "gone"
    BY <1>0 DEF Closing
  <1>2. wpc' \in [Workers -> WorkerPcs] /\ wpc'[w] \in {"wsignal", "start"}
        /\ \A v \in Workers : v # w => wpc'[v] = wpc[v]
    BY <1>0 DEF TypeOK, WorkerPcs
  <1>4. \A v \in Workers : Holds(v)' = Holds(v) /\ (Holds(v) => wpc'[v] = wpc[v])
    BY <1>0, <1>2 DEF Holds
  <1>7. QueueOwns' /\ DoneFinished' /\ WorkersOwn' /\ UnfinishedOwned'
    BY <1>0, <1>4, OwnersSame
  <1>8. Owed' = Owed - 1 /\ Owed' \in Nat /\ Idlers' = Idlers
    <2>1. /\ Unfinished' = Unfinished /\ Cancelling' = Cancelling /\ Idlers' = Idlers
          /\ Counting' = Counting \ {w} /\ w \in Counting
      BY <1>0, <1>2 DEF Unfinished, Counting, Cancelling, Idlers
    <2>2. Cardinality(Counting') = Cardinality(Counting) - 1 /\ Cardinality(Counting') \in Nat
      BY <2>1, FiniteBooks, FS_RemoveElement, FS_CardinalityType
    <2>3. QED
      BY <2>1, <2>2, FiniteBooks DEF Owed
  <1>9. Books'
    BY <1>0, <1>1, <1>8 DEF Books, Idlers
  <1>10. TypeOK'
    BY <1>0, <1>1, <1>2, <1>8 DEF TypeOK, Books
  <1>11. Closing' /\ QueueAttended' /\ DestroyRunsAll'
    BY <1>0, <1>1, <1>2 DEF Closing, QueueAttended, DestroyRunsAll
  <1>12. QED
    BY <1>7, <1>9, <1>10, <1>11

LEMMA WorkerSignalGroupKeeps == ASSUME IInv, NEW w \in Workers, WorkerSignalGroup(w) PROVE IInv'
  <1> USE DEF IInv, taskvars
  <1>0. /\ wpc[w] = "wsignal" /\ wpc' = [wpc EXCEPT ![w] = "start"]
        /\ cpc' = [c \in Clients |-> IF cpc[c] = "gwait" THEN "gcheck" ELSE cpc[c]]
        /\ UNCHANGED <<state, note, queue, done, pending, idle, shutdown, wtask, ctask, submits, cancels>>
    BY DEF WorkerSignalGroup
  <1>1. TypeOK'
    BY <1>0 DEF TypeOK, WorkerPcs
  <1>4. \A v \in Workers : Holds(v)' = Holds(v) /\ (Holds(v) => wpc'[v] = wpc[v])
    BY <1>0 DEF Holds, TypeOK
  <1>7. QueueOwns' /\ DoneFinished' /\ WorkersOwn' /\ UnfinishedOwned'
    BY <1>0, <1>4, OwnersSame
  <1>8. cpc'[Main] = "gone" <=> cpc[Main] = "gone"
    BY <1>0, TaskAssumption DEF TypeOK
  <1>9. Books'
    <2>1. Unfinished' = Unfinished /\ Counting' = Counting /\ Cancelling' = Cancelling
          /\ Idlers' = Idlers
      BY <1>0 DEF Unfinished, Counting, Cancelling, Idlers, TypeOK
    <2>2. QED
      BY <1>0, <1>8, <2>1 DEF Books, Owed, Idlers
  <1>10. Closing' /\ QueueAttended' /\ DestroyRunsAll'
    BY <1>0, <1>8, TaskAssumption DEF Closing, QueueAttended, DestroyRunsAll, TypeOK
  <1>11. QED
    BY <1>1, <1>7, <1>9, <1>10

-----------------------------------------------------------------------------
(* The API *)

(* Dispatch wakes waiting workers and starts new ones, and whenever a      *)
(* worker was ever started one is then on its way: idle counts exactly the *)
(* workers at qcond, so idle = 0 means that none waits for a signal.       *)
LEMMA DispatchAttends ==
  ASSUME IInv, ~shutdown, Dispatch
  PROVE  /\ wpc' \in [Workers -> WorkerPcs]
         /\ \A w \in Workers : \/ wpc'[w] = wpc[w]
                               \/ wpc[w] = "cond" /\ wpc'[w] = "woken"
                               \/ wpc[w] = "off" /\ wpc'[w] = "start"
         /\ (\E w \in Workers : wpc'[w] # "off")
              => \E w \in Workers : wpc'[w] \notin {"off", "cond", "exited"}
  <1> USE DEF IInv
  <1> DEFINE Ready == \E w \in Workers : wpc'[w] \notin {"off", "cond", "exited"}
  <1>0. idle = Cardinality(Idlers) /\ IsFiniteSet(Idlers) /\ idle \in Nat
    BY FiniteBooks DEF Books, Idlers, TypeOK
  <1>1. CASE idle > 0
    <2>1. SignalOne(wpc)
      BY <1>1 DEF Dispatch
    <2>2. CASE \E w \in Workers : wpc[w] = "cond"
      <3>1. PICK w \in Workers : wpc[w] = "cond" /\ wpc' = [wpc EXCEPT ![w] = "woken"]
        BY <2>1, <2>2 DEF SignalOne
      <3>2. QED
        BY <3>1 DEF TypeOK, WorkerPcs
    <2>3. CASE \A w \in Workers : wpc[w] # "cond"
      <3>1. wpc' = wpc
        BY <2>1, <2>3 DEF SignalOne
      <3>2. Idlers # {}
        BY <1>0, <1>1, FS_EmptySet
      <3>3. PICK w \in Workers : wpc[w] = "woken"
        BY <2>3, <3>2 DEF Idlers
      <3>4. QED
        BY <3>1, <3>3 DEF TypeOK
    <2>4. QED
      BY <2>2, <2>3
  <1>2. CASE idle = 0
    <2>1. \A w \in Workers : wpc[w] # "cond"
      <3>1. Idlers = {}
        BY Zenon, <1>0, <1>2, FS_EmptySet
      <3>2. QED
        BY <3>1 DEF Idlers
    <2>2. Spawn
      BY <1>2 DEF Dispatch
    <2>3. CASE UNCHANGED wpc
      <3>1. \A w \in Workers : wpc[w] # "exited"
        BY DEF Closing
      <3>2. QED
        BY <2>1, <2>3, <3>1 DEF TypeOK
    <2>4. CASE \E w \in Workers : wpc[w] = "off" /\ SignalOne([wpc EXCEPT ![w] = "start"])
      <3>1. PICK w \in Workers : wpc[w] = "off" /\ wpc' = [wpc EXCEPT ![w] = "start"]
        BY <2>1, <2>4 DEF SignalOne
      <3>2. QED
        BY <3>1 DEF TypeOK, WorkerPcs
    <2>5. QED
      BY <2>2, <2>3, <2>4 DEF Spawn
  <1>3. QED
    BY <1>0, <1>1, <1>2

LEMMA SubmitKeeps == ASSUME IInv, NEW c \in Clients, NEW t \in Tasks, Submit(c, t) PROVE IInv'
  <1> USE DEF IInv
  <1>0. /\ ~shutdown /\ state[t] = "FREE" /\ queue' = Append(queue, t) /\ pending' = pending + 1
        /\ state' = [state EXCEPT ![t] = "QUEUED"] /\ note' = [note EXCEPT ![t] = FALSE]
        /\ submits' = submits + 1
        /\ UNCHANGED <<done, idle, shutdown, wtask, cpc, ctask, cancels>>
    BY DEF Submit
  <1>1. /\ wpc' \in [Workers -> WorkerPcs]
        /\ \A w \in Workers : \/ wpc'[w] = wpc[w]
                              \/ wpc[w] = "cond" /\ wpc'[w] = "woken"
                              \/ wpc[w] = "off" /\ wpc'[w] = "start"
        /\ (\E w \in Workers : wpc'[w] # "off")
              => \E w \in Workers : wpc'[w] \notin {"off", "cond", "exited"}
    BY <1>0, DispatchAttends DEF Submit
  <1>2. /\ queue' \in Seq(Tasks) /\ DOMAIN queue' = 1 .. Len(queue) + 1
        /\ DOMAIN queue = 1 .. Len(queue) /\ Len(queue) \in Nat
        /\ queue'[Len(queue) + 1] = t
        /\ \A i \in DOMAIN queue : queue'[i] = queue[i] /\ queue[i] \in Tasks
    <2>1. queue \in Seq(Tasks) /\ queue' = Append(queue, t)
      BY <1>0 DEF TypeOK
    <2>2. \A i \in DOMAIN queue : queue[i] \in Tasks
      BY <2>1
    <2>3. QED
      BY <2>1, <2>2, AppendEntries
  <1>3. TypeOK'
    <2>1. /\ state' \in [Tasks -> {"FREE", "QUEUED", "RUNNING", "DONE", "CANCELLED"}]
          /\ note' \in [Tasks -> BOOLEAN] /\ pending' \in Nat /\ submits' \in Nat
      BY <1>0 DEF TypeOK
    <2>2. QED
      BY Zenon, <1>0, <1>1, <1>2, <2>1 DEF TypeOK
  <1>4. state'[t] = "QUEUED" /\ \A x \in Tasks : x # t => state'[x] = state[x]
    BY <1>0 DEF TypeOK
  <1>5. /\ t \notin done
        /\ \A i \in DOMAIN queue : queue[i] # t
        /\ \A w \in Workers : Holds(w) => wtask[w] # t
    BY <1>0 DEF DoneFinished, QueueOwns, WorkersOwn, HeldState
  <1>6. QueueOwns'
    <2>1. \A i \in DOMAIN queue : state'[queue'[i]] = state[queue[i]]
      BY <1>2, <1>4, <1>5
    <2>2. \A i, j \in DOMAIN queue' : i # j => queue'[i] # queue'[j]
      <3>1. \A i, j \in DOMAIN queue : i # j => queue'[i] # queue'[j]
        BY <1>2 DEF QueueOwns
      <3>2. \A i \in DOMAIN queue : queue'[i] # t
        BY <1>2, <1>5
      <3>3. QED
        BY <1>2, <3>1, <3>2
    <2>3. \A i \in DOMAIN queue' : state'[queue'[i]] \in {"QUEUED", "CANCELLED"} /\ queue'[i] \notin done
      <3>1. SUFFICES ASSUME NEW i \in DOMAIN queue'
                     PROVE  state'[queue'[i]] \in {"QUEUED", "CANCELLED"} /\ queue'[i] \notin done
        OBVIOUS
      <3>2. CASE i \in DOMAIN queue
        <4>1. queue'[i] = queue[i]
          BY <1>2, <3>2
        <4>2. QED
          BY <2>1, <3>2, <4>1 DEF QueueOwns
      <3>3. CASE i = Len(queue) + 1
        BY <1>2, <1>4, <1>5, <3>3
      <3>4. QED
        BY <1>2, <3>2, <3>3
    <2>4. QED
      BY <1>0, <2>2, <2>3 DEF QueueOwns
  <1>7. DoneFinished'
    BY <1>0, <1>4, <1>5 DEF DoneFinished, TypeOK
  <1>8. \A w \in Workers : Holds(w)' = Holds(w) /\ (Holds(w) => wpc'[w] = wpc[w])
    BY <1>1 DEF Holds
  <1>9. WorkersOwn'
    <2>1. ASSUME NEW w \in Workers, Holds(w)
          PROVE  /\ wtask[w] \in Tasks \ done /\ state'[wtask[w]] \in HeldState(wpc'[w])
                 /\ \A i \in DOMAIN queue' : queue'[i] # wtask[w]
                 /\ \A v \in Workers : v # w /\ Holds(v) => wtask[v] # wtask[w]
      <3>1. /\ wtask[w] \in Tasks \ done /\ state[wtask[w]] \in HeldState(wpc[w])
            /\ \A i \in DOMAIN queue : queue[i] # wtask[w]
            /\ \A v \in Workers : v # w /\ Holds(v) => wtask[v] # wtask[w]
        BY Zenon, <2>1 DEF WorkersOwn
      <3>2. wtask[w] # t /\ wpc'[w] = wpc[w]
        BY Zenon, <2>1, <1>5, <1>8
      <3>3. state'[wtask[w]] \in HeldState(wpc'[w])
        BY Zenon, <3>1, <3>2, <1>4
      <3>4. \A i \in DOMAIN queue' : queue'[i] # wtask[w]
        <4>1. \A i \in DOMAIN queue : queue'[i] = queue[i]
          BY Zenon, <1>2
        <4>2. \A i \in DOMAIN queue' : i \in DOMAIN queue \/ i = Len(queue) + 1
          BY <1>2
        <4>3. QED
          BY Zenon, <1>2, <3>1, <3>2, <4>1, <4>2
      <3>5. QED
        BY Zenon, <3>1, <3>3, <3>4
    <2>2. QED
      BY Zenon, <1>0, <1>8, <2>1 DEF WorkersOwn
  <1>10. UnfinishedOwned'
    <2>1. SUFFICES ASSUME NEW x \in Tasks, state'[x] \in {"QUEUED", "RUNNING"}
                   PROVE  \/ \E i \in DOMAIN queue' : queue'[i] = x
                          \/ \E w \in Workers : Holds(w) /\ wtask[w] = x
      BY Zenon, <1>0, <1>8 DEF UnfinishedOwned
    <2>2. CASE x = t
      BY <1>2, <2>2
    <2>3. CASE x # t
      <3>1. \/ \E i \in DOMAIN queue : queue[i] = x
            \/ \E w \in Workers : Holds(w) /\ wtask[w] = x
        BY <1>4, <2>1, <2>3 DEF UnfinishedOwned
      <3>2. QED
        BY <1>2, <3>1
    <2>4. QED
      BY Zenon, <2>2, <2>3
  <1>11. Books'
    <2>1. /\ Unfinished' = Unfinished \cup {t} /\ t \notin Unfinished
          /\ Counting' = Counting /\ Cancelling' = Cancelling /\ Idlers' = Idlers
      BY <1>0, <1>1, <1>4 DEF Unfinished, Counting, Cancelling, Idlers
    <2>2. Cardinality(Unfinished') = Cardinality(Unfinished) + 1
      BY <2>1, FiniteBooks, FS_AddElement, FS_CardinalityType
    <2>3. Owed' = Owed + 1
      BY <2>1, <2>2, FiniteBooks DEF Owed
    <2>4. QED
      BY Zenon, <1>0, <2>1, <2>3 DEF Books, Idlers, Closing
  <1>12. Closing' /\ QueueAttended' /\ DestroyRunsAll'
    BY <1>0, <1>1 DEF Closing, QueueAttended, DestroyRunsAll
  <1>13. QED
    BY <1>3, <1>6, <1>7, <1>9, <1>10, <1>11, <1>12

LEMMA CancelCasKeeps == ASSUME IInv, NEW c \in Clients, NEW t \in Tasks, CancelCas(c, t) PROVE IInv'
  <1> USE DEF IInv
  <1>0. /\ cpc[c] = "idle" /\ ~shutdown /\ state[t] = "QUEUED" /\ cancels' = cancels + 1
        /\ state' = [state EXCEPT ![t] = "CANCELLED"]
        /\ cpc' = [cpc EXCEPT ![c] = "cnote"] /\ ctask' = [ctask EXCEPT ![c] = t]
        /\ UNCHANGED <<note, queue, done, pending, idle, shutdown, wpc, wtask, submits>>
    BY DEF CancelCas
  <1>1. TypeOK'
    BY <1>0 DEF TypeOK
  <1>2. state'[t] = "CANCELLED" /\ \A x \in Tasks : x # t => state'[x] = state[x]
    BY <1>0 DEF TypeOK
  <1>3. QueueOwns' /\ DoneFinished'
    BY <1>0, <1>2 DEF QueueOwns, DoneFinished, TypeOK
  <1>4. \A w \in Workers : Holds(w)' = Holds(w)
    BY <1>0 DEF Holds
  <1>5. WorkersOwn'
    <2>1. \A w \in Workers : Holds(w) => state'[wtask[w]] \in HeldState(wpc[w])
      <3>1. SUFFICES ASSUME NEW w \in Workers, Holds(w)
                     PROVE  state'[wtask[w]] \in HeldState(wpc[w])
        OBVIOUS
      <3>2. wtask[w] \in Tasks /\ state[wtask[w]] \in HeldState(wpc[w])
        BY Zenon, <3>1 DEF WorkersOwn
      <3>3. QED
        BY <1>0, <1>2, <3>2 DEF HeldState
    <2>2. QED
      BY Zenon, <1>0, <1>4, <2>1 DEF WorkersOwn
  <1>6. UnfinishedOwned'
    BY Zenon, <1>0, <1>2, <1>4 DEF UnfinishedOwned
  <1>7. cpc'[c] = "cnote" /\ \A d \in Clients : d # c => cpc'[d] = cpc[d]
    BY <1>0 DEF TypeOK
  <1>8. Books'
    <2>1. /\ Unfinished' = Unfinished \ {t} /\ t \in Unfinished
          /\ Cancelling' = Cancelling \cup {c} /\ c \notin Cancelling
          /\ Counting' = Counting /\ Idlers' = Idlers
      BY <1>0, <1>2, <1>7 DEF Unfinished, Counting, Cancelling, Idlers
    <2>2. Cardinality(Unfinished') = Cardinality(Unfinished) - 1
      BY <2>1, FiniteBooks, FS_RemoveElement, FS_CardinalityType
    <2>3. Cardinality(Cancelling') = Cardinality(Cancelling) + 1
      BY <2>1, FiniteBooks, FS_AddElement, FS_CardinalityType
    <2>4. Owed' = Owed
      BY <2>1, <2>2, <2>3, FiniteBooks DEF Owed
    <2>5. QED
      BY <1>0, <2>1, <2>4 DEF Books, Idlers, Closing
  <1>9. Closing' /\ QueueAttended' /\ DestroyRunsAll'
    BY Zenon, <1>0, <1>7, TaskAssumption DEF Closing, QueueAttended, DestroyRunsAll
  <1>10. QED
    BY <1>1, <1>3, <1>5, <1>6, <1>8, <1>9

LEMMA CancelNoteKeeps == ASSUME IInv, NEW c \in Clients, CancelNote(c) PROVE IInv'
  <1> USE DEF IInv
  <1>0. /\ cpc[c] = "cnote" /\ cpc' = [cpc EXCEPT ![c] = "cpending"]
        /\ note' = [note EXCEPT ![ctask[c]] = TRUE]
        /\ UNCHANGED <<state, queue, done, pending, idle, shutdown, wpc, wtask, ctask, submits, cancels>>
    BY Zenon DEF CancelNote
  <1>1. TypeOK'
    BY Zenon, <1>0 DEF TypeOK
  <1>2. QueueOwns' /\ DoneFinished' /\ WorkersOwn' /\ UnfinishedOwned'
    BY <1>0, OwnersUnmoved
  <1>3. cpc'[c] = "cpending" /\ \A d \in Clients : d # c => cpc'[d] = cpc[d]
    BY <1>0 DEF TypeOK
  <1>4. Unfinished' = Unfinished /\ Counting' = Counting /\ Cancelling' = Cancelling
        /\ Idlers' = Idlers
    BY <1>0, <1>3 DEF Unfinished, Counting, Cancelling, Idlers
  <1>5. Books'
    BY <1>0, <1>3, <1>4 DEF Books, Owed, Idlers
  <1>6. Closing' /\ QueueAttended' /\ DestroyRunsAll'
    BY <1>0, <1>3, TaskAssumption DEF Closing, QueueAttended, DestroyRunsAll
  <1>7. QED
    BY <1>1, <1>2, <1>5, <1>6

LEMMA CancelPendingKeeps == ASSUME IInv, NEW c \in Clients, CancelPending(c) PROVE IInv'
  <1> USE DEF IInv
  <1>0. /\ cpc[c] = "cpending" /\ cpc' = [cpc EXCEPT ![c] = "idle"] /\ pending' = pending - 1
        /\ ctask' = [ctask EXCEPT ![c] = NoTask]
        /\ UNCHANGED <<state, note, queue, done, idle, shutdown, wpc, wtask, submits, cancels>>
    BY DEF CancelPending
  <1>1. cpc'[c] = "idle" /\ \A d \in Clients : d # c => cpc'[d] = cpc[d]
    BY <1>0 DEF TypeOK
  <1>2. ~shutdown /\ cpc[Main] # "gone"
    BY <1>0, TaskAssumption DEF Closing
  <1>3. QueueOwns' /\ DoneFinished' /\ WorkersOwn' /\ UnfinishedOwned'
    BY <1>0, OwnersUnmoved
  <1>4. Owed' = Owed - 1 /\ Owed' \in Nat /\ Idlers' = Idlers
    <2>1. /\ Unfinished' = Unfinished /\ Counting' = Counting /\ Idlers' = Idlers
          /\ Cancelling' = Cancelling \ {c} /\ c \in Cancelling
      BY <1>0, <1>1 DEF Unfinished, Counting, Cancelling, Idlers
    <2>2. Cardinality(Cancelling') = Cardinality(Cancelling) - 1 /\ Cardinality(Cancelling') \in Nat
      BY <2>1, FiniteBooks, FS_RemoveElement, FS_CardinalityType
    <2>3. QED
      BY <2>1, <2>2, FiniteBooks DEF Owed
  <1>5. Books'
    BY <1>0, <1>2, <1>4 DEF Books, Idlers
  <1>6. TypeOK'
    BY <1>0, <1>2, <1>4 DEF TypeOK, Books
  <1>7. Closing' /\ QueueAttended' /\ DestroyRunsAll'
    BY Zenon, <1>0, <1>1, <1>2, TaskAssumption DEF Closing, QueueAttended, DestroyRunsAll
  <1>8. QED
    BY <1>3, <1>5, <1>6, <1>7

(* The steps of xTaskGroupWait, and the end of drain_done, only move Main. *)
LEMMA MainMovesKeeps ==
  ASSUME IInv, GroupWait \/ GroupCheck \/ DrainEnd PROVE IInv'
  <1> USE DEF IInv, taskvars
  <1>0. /\ cpc[Main] \in {"idle", "gcheck", "drain"}
        /\ \E pc \in {"gcheck", "gwait", "drain", "idle"} : cpc' = [cpc EXCEPT ![Main] = pc]
        /\ UNCHANGED <<state, note, queue, done, pending, idle, shutdown, wpc, wtask, ctask,
                       submits, cancels>>
    BY DEF GroupWait, GroupCheck, DrainEnd
  <1>1. TypeOK'
    BY Zenon, <1>0 DEF TypeOK
  <1>2. QueueOwns' /\ DoneFinished' /\ WorkersOwn' /\ UnfinishedOwned'
    BY <1>0, OwnersUnmoved
  <1>3. /\ cpc'[Main] \in {"gcheck", "gwait", "drain", "idle"}
        /\ \A d \in Clients : d # Main => cpc'[d] = cpc[d]
    BY <1>0, TaskAssumption DEF TypeOK
  <1>4. Unfinished' = Unfinished /\ Counting' = Counting /\ Cancelling' = Cancelling
        /\ Idlers' = Idlers
    BY <1>0, <1>3 DEF Unfinished, Counting, Cancelling, Idlers
  <1>5. Books'
    BY <1>0, <1>3, <1>4 DEF Books, Owed, Idlers
  <1>6. Closing' /\ QueueAttended' /\ DestroyRunsAll'
    BY <1>0, <1>3 DEF Closing, QueueAttended, DestroyRunsAll
  <1>7. QED
    BY <1>1, <1>2, <1>5, <1>6

LEMMA DrainOneKeeps == ASSUME IInv, NEW t \in Tasks, DrainOne(t) PROVE IInv'
  <1> USE DEF IInv, clientvars
  <1>0. /\ cpc[Main] = "drain" /\ t \in done /\ done' = done \ {t}
        /\ state' = [state EXCEPT ![t] = "FREE"]
        /\ UNCHANGED <<note, queue, pending, idle, shutdown, wpc, wtask, clientvars>>
    BY DEF DrainOne
  <1>1. TypeOK'
    BY <1>0 DEF TypeOK
  <1>2. state'[t] = "FREE" /\ \A x \in Tasks : x # t => state'[x] = state[x]
    BY <1>0 DEF TypeOK
  <1>3. QueueOwns' /\ DoneFinished'
    <2>1. \A i \in DOMAIN queue : queue[i] # t
      BY <1>0 DEF QueueOwns
    <2>2. QED
      BY <1>0, <1>2, <2>1, OthersOwned
  <1>4. WorkersOwn'
    BY Zenon, <1>0, <1>2 DEF WorkersOwn, Holds
  <1>5. UnfinishedOwned'
    <2>1. \A x \in Tasks : state'[x] \in {"QUEUED", "RUNNING"} => state[x] \in {"QUEUED", "RUNNING"}
      BY <1>2
    <2>2. \A w \in Workers : Holds(w)' = Holds(w)
      BY <1>0 DEF Holds
    <2>3. QED
      BY Zenon, <1>0, <2>1, <2>2 DEF UnfinishedOwned
  <1>6. Books'
    <2>1. Unfinished' = Unfinished /\ Counting' = Counting /\ Cancelling' = Cancelling
          /\ Idlers' = Idlers
      BY <1>0, <1>2 DEF Unfinished, Counting, Cancelling, Idlers, DoneFinished
    <2>2. QED
      BY <1>0, <2>1 DEF Books, Owed, Idlers
  <1>7. Closing' /\ QueueAttended' /\ DestroyRunsAll'
    BY <1>0 DEF Closing, QueueAttended, DestroyRunsAll
  <1>8. QED
    BY <1>1, <1>3, <1>4, <1>5, <1>6, <1>7

LEMMA ShutdownKeeps == ASSUME IInv, Shutdown PROVE IInv'
  <1> USE DEF IInv, taskvars
  <1>0. /\ \A c \in Clients : cpc[c] = "idle"
        /\ shutdown' = TRUE /\ cpc' = [cpc EXCEPT ![Main] = "join"]
        /\ wpc' = [w \in Workers |-> IF wpc[w] = "cond" THEN "woken" ELSE wpc[w]]
        /\ UNCHANGED <<state, note, queue, done, pending, idle, wtask, ctask, submits, cancels>>
    BY DEF Shutdown
  <1>1. TypeOK'
    BY Zenon, <1>0 DEF TypeOK, WorkerPcs
  <1>3. \A w \in Workers : Holds(w)' = Holds(w) /\ (Holds(w) => wpc'[w] = wpc[w])
    BY <1>0 DEF Holds
  <1>4. QueueOwns' /\ DoneFinished' /\ WorkersOwn' /\ UnfinishedOwned'
    BY <1>0, <1>3, OwnersSame
  <1>5. cpc'[Main] = "join" /\ \A d \in Clients : d # Main => cpc'[d] = cpc[d]
    BY <1>0, TaskAssumption DEF TypeOK
  <1>6. Books'
    <2>1. Unfinished' = Unfinished /\ Counting' = Counting /\ Cancelling' = Cancelling
          /\ Idlers' = Idlers
      BY <1>0, <1>5 DEF Unfinished, Counting, Cancelling, Idlers
    <2>2. QED
      BY <1>0, <1>5, <2>1, TaskAssumption DEF Books, Owed, Idlers
  <1>7. Closing'
    BY <1>0, <1>5, TaskAssumption DEF Closing
  <1>8. QueueAttended' /\ DestroyRunsAll'
    BY Zenon, <1>0, <1>5, TaskAssumption DEF QueueAttended, DestroyRunsAll, Closing
  <1>9. QED
    BY <1>1, <1>4, <1>6, <1>7, <1>8

(* When all workers are joined nothing is unfinished, unless none was ever *)
(* started: a worker leaves only when the queue is empty, and takes no     *)
(* task with it.                                                           *)
LEMMA JoinAndFreeKeeps == ASSUME IInv, JoinAndFree PROVE IInv'
  <1> USE DEF IInv
  <1>0. /\ cpc[Main] = "join" /\ \A w \in Workers : wpc[w] \in {"off", "exited"}
        /\ state' = [t \in Tasks |->
              IF t \in done \/ \E i \in DOMAIN queue : queue[i] = t THEN "FREE" ELSE state[t]]
        /\ queue' = <<>> /\ done' = {} /\ cpc' = [cpc EXCEPT ![Main] = "gone"]
        /\ UNCHANGED <<note, pending, idle, shutdown, wpc, wtask, ctask, submits, cancels>>
    BY Zenon DEF JoinAndFree
  <1>1. \A w \in Workers : ~Holds(w) /\ ~Holds(w)'
    BY <1>0 DEF Holds
  <1>2. TypeOK'
    <2>1. state' \in [Tasks -> {"FREE", "QUEUED", "RUNNING", "DONE", "CANCELLED"}]
      BY <1>0 DEF TypeOK
    <2>2. queue' \in Seq(Tasks) /\ done' \subseteq Tasks
      BY <1>0
    <2>3. cpc' \in [Clients -> {"idle", "cnote", "cpending", "gcheck", "gwait", "drain", "join", "gone"}]
      BY Zenon, <1>0 DEF TypeOK
    <2>4. QED
      BY Zenon, <1>0, <2>1, <2>2, <2>3 DEF TypeOK
  <1>3. QueueOwns' /\ DoneFinished' /\ WorkersOwn'
    <2>1. DOMAIN queue' = {}
      BY <1>0
    <2>2. QueueOwns' /\ DoneFinished'
      BY <1>0, <2>1 DEF QueueOwns, DoneFinished
    <2>3. WorkersOwn'
      BY Zenon, <1>1 DEF WorkersOwn
    <2>4. QED
      BY <2>2, <2>3
  <1>4. UnfinishedOwned'
    BY <1>0, <1>1 DEF UnfinishedOwned, TypeOK
  <1>5. cpc'[Main] = "gone" /\ \A d \in Clients : d # Main => cpc'[d] = cpc[d]
    BY <1>0, TaskAssumption DEF TypeOK
  <1>6. Books'
    BY Zenon, <1>0, <1>5 DEF Books
  <1>7. Closing' /\ QueueAttended'
    BY <1>0, <1>5 DEF Closing, QueueAttended
  <1>8. DestroyRunsAll'
    <2>1. SUFFICES ASSUME \E w \in Workers : wpc[w] # "off" PROVE pending = 0
      BY <1>0 DEF DestroyRunsAll
    <2>2. queue = <<>>
      BY <1>0, <2>1 DEF Closing
    <2>3. Unfinished = {}
      BY <1>1, <2>2 DEF UnfinishedOwned, Unfinished
    <2>4. Counting = {}
      BY <1>0 DEF Counting
    <2>5. Cancelling = {}
      BY <1>0 DEF Cancelling, Closing
    <2>6. Owed = 0
      BY <2>3, <2>4, <2>5, FS_EmptySet DEF Owed
    <2>7. QED
      BY <1>0, <2>6 DEF Books
  <1>9. QED
    BY <1>2, <1>3, <1>4, <1>6, <1>7, <1>8

LEMMA StutterKeeps == ASSUME IInv, UNCHANGED vars PROVE IInv'
  <1>0. UNCHANGED <<state, note, queue, done, pending, idle, shutdown, wpc, wtask, cpc, ctask,
                    submits, cancels>>
    BY DEF vars
  <1>1. TypeOK' /\ Books' /\ Closing' /\ QueueAttended' /\ DestroyRunsAll'
    BY Zenon, <1>0 DEF IInv, TypeOK, Books, Owed, Unfinished, Counting, Cancelling, Closing,
                QueueAttended, DestroyRunsAll
  <1>2. QueueOwns' /\ DoneFinished' /\ WorkersOwn' /\ UnfinishedOwned'
    BY <1>0, OwnersUnmoved DEF IInv
  <1>3. QED
    BY <1>1, <1>2 DEF IInv

LEMMA NextKeeps == ASSUME IInv, [Next]_vars PROVE IInv'
  <1>1. CASE \E w \in Workers : WorkerStep(w)
    BY <1>1, WorkerLockKeeps, WorkerWakeKeeps, WorkerCasKeeps, WorkerFinishKeeps, WorkerPushKeeps,
       WorkerSignalKeeps, WorkerCountKeeps, WorkerSignalGroupKeeps DEF WorkerStep
  <1>2. CASE \E c \in Clients, t \in Tasks : Submit(c, t) \/ CancelCas(c, t)
    BY <1>2, SubmitKeeps, CancelCasKeeps
  <1>3. CASE \E c \in Clients : CancelNote(c) \/ CancelPending(c)
    BY <1>3, CancelNoteKeeps, CancelPendingKeeps
  <1>4. CASE MainStep \/ GroupWait
    BY <1>4, MainMovesKeeps, DrainOneKeeps, JoinAndFreeKeeps DEF MainStep
  <1>5. CASE Shutdown
    BY <1>5, ShutdownKeeps
  <1>6. CASE UNCHANGED vars
    BY <1>6, StutterKeeps
  <1>7. QED
    BY <1>1, <1>2, <1>3, <1>4, <1>5, <1>6 DEF Next, Terminated

-----------------------------------------------------------------------------
(* Who owns a task, and what the counters count, in every reachable state. *)
THEOREM TasksOwned == Spec => []IInv
  <1>1. IInv /\ [Next]_vars => IInv'
    BY NextKeeps
  <1>2. QED
    BY InitIInv, <1>1, PTL DEF Spec

(* pending counts exactly the tasks that were submitted and are not yet    *)
(* accounted for, a queued task has a worker on its way, and               *)
(* xTaskGroupDestroy leaves nothing that waits to run: for every number of *)
(* threads and tasks, and also when threads fail to start.                 *)
THEOREM GroupAccountsAlways == Spec => []GroupAccounts
  <1>1. IInv => GroupAccounts
    BY DEF IInv, GroupAccounts, PendingExact, Books, Owed, Unfinished, Counting, Cancelling, Closing
  <1>2. QED
    BY <1>1, TasksOwned, PTL

(* No interleaving of xTaskCancel with the worker that has already taken   *)
(* the task off the queue makes a cancelled task run (task.h:86).          *)
THEOREM CancelledNeverRunsAlways == Spec => CancelledNeverRuns
  <1> DEFINE Safe == \A t \in Tasks : state[t] = "CANCELLED" => state'[t] \in {"CANCELLED", "FREE"}
  <1>1. ASSUME IInv, [Next]_vars PROVE [Safe]_vars
    <2>0. state \in [Tasks -> {"FREE", "QUEUED", "RUNNING", "DONE", "CANCELLED"}]
      BY <1>1 DEF IInv, TypeOK
    <2>1. ASSUME NEW w \in Workers, WorkerStep(w) PROVE Safe
      <3>1. CASE WorkerCas(w)
        BY <2>0, <3>1 DEF WorkerCas
      <3>2. CASE WorkerFinish(w)
        <4>1. wtask[w] \in Tasks /\ state[wtask[w]] = "RUNNING"
          BY <1>1, <3>2 DEF IInv, WorkersOwn, Holds, HeldState, WorkerFinish
        <4>2. QED
          BY <2>0, <3>2, <4>1 DEF WorkerFinish
      <3>3. CASE UNCHANGED state
        BY <3>3
      <3>4. QED
        BY Zenon, <2>1, <3>1, <3>2, <3>3 DEF WorkerStep, WorkerLock, WorkerWake, WorkerPush, WorkerSignal,
           WorkerCount, WorkerSignalGroup, taskvars
    <2>2. ASSUME NEW c \in Clients, NEW t \in Tasks, Submit(c, t) \/ CancelCas(c, t) PROVE Safe
      BY <2>0, <2>2 DEF Submit, CancelCas
    <2>3. ASSUME NEW t \in Tasks, DrainOne(t) PROVE Safe
      BY <2>0, <2>3 DEF DrainOne
    <2>4. CASE JoinAndFree
      BY <2>0, <2>4 DEF JoinAndFree
    <2>5. CASE UNCHANGED state
      BY <2>5
    <2>6. QED
      BY Zenon, <1>1, <2>1, <2>2, <2>3, <2>4, <2>5 DEF Next, MainStep, CancelNote, CancelPending, GroupWait,
         GroupCheck, DrainEnd, Shutdown, Terminated, taskvars, vars
  <1>2. QED
    BY <1>1, TasksOwned, PTL DEF Spec, CancelledNeverRuns
=============================================================================
