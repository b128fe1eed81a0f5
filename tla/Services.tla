------------------------------ MODULE Services ------------------------------
(***************************************************************************)
(* Services on a loop or beside it: the logger, the relay between loops,   *)
(* fibers and file requests, each with a state of its own.                 *)
(***************************************************************************)
EXTENDS Integers, Sequences, FiniteSets

-----------------------------------------------------------------------------
(***************************************************************************)
(* xLogger: entries formatted by the threads that log, queued, and written *)
(* by the event loop, on a timer, on a byte in a pipe, or on request.  The *)
(* queue is the one Mpsc.tla models, reduced to what a consumer sees of    *)
(* it: an entry whose push is not finished hides those behind it.          *)
(*                                                                         *)
(* log.queue   entries pushed and not popped: [id, linked]                 *)
(* log.pc, log.mine  a producer: "idle", "link", "notify"; its entry       *)
(* log.pipe, log.req  a byte in the notify pipe, in the flush request pipe *)
(* log.loop, log.cur  the loop: "idle", "pop", "write"; the entry popped   *)
(* log.files   files[1] the current file, files[i + 1] the one named ".i"; *)
(*             log.old what the rotation removed, log.fp is the file open  *)
(* log.flush   the thread in xLoggerFlush                                  *)
(* log.lost    history: entries popped with no file to write to            *)
(* log.mode    how the loop hears of an entry                              *)
(***************************************************************************)

CONSTANTS Producers,
          LogModes,      \* some of "timer", "notify", "mixed"
          MaxEntries,    \* bound: entries logged
          MaxFileSize,   \* max_size, in entries
          MaxFiles,      \* max_files
          MayFail        \* whether the reopening of the file may fail

VARIABLE log

Ids(q) == [i \in 1 .. Len(q) |-> q[i].id]

LogInit == \E mode \in LogModes : log = [mode |-> mode, queue |-> <<>>, next |-> 1,
                pc |-> [p \in Producers |-> "idle"], mine |-> [p \in Producers |-> 0],
                urgent |-> [p \in Producers |-> FALSE],
                pipe |-> FALSE, req |-> FALSE, loop |-> "idle", cur |-> 0,
                files |-> [i \in 1 .. MaxFiles |-> <<>>], old |-> <<>>, fp |-> TRUE,
                flush |-> "idle", lost |-> <<>>]

-----------------------------------------------------------------------------
\* xLoggerLog and bridge_callback: the exchange of the tail makes the place.
xLoggerLog(p) ==
    /\ log.pc[p] = "idle" /\ log.next <= MaxEntries
    /\ \E urgent \in BOOLEAN :
          log' = [log EXCEPT !.pc[p] = "link", !.mine[p] = log.next, !.next = @ + 1, !.urgent[p] = urgent,
                             !.queue = Append(@, [id |-> log.next, linked |-> FALSE])]

\* The push's second half: the entry before it points to it.
Link(p) ==
    /\ log.pc[p] = "link"
    /\ log' = [log EXCEPT !.pc[p] = "notify",
                          !.queue = [i \in 1 .. Len(@) |-> IF @[i].id = log.mine[p] THEN [@[i] EXCEPT !.linked = TRUE] ELSE @[i]]]

\* Every entry in notify mode, the errors in mixed mode.
Notifies(p) == log.mode = "notify" \/ (log.mode = "mixed" /\ log.urgent[p])

logger_notify(p) ==
    /\ log.pc[p] = "notify"
    /\ log' = [log EXCEPT !.pc[p] = "idle", !.mine[p] = 0, !.pipe = @ \/ Notifies(p)]

-----------------------------------------------------------------------------
\* The callbacks of the loop all end in logger_flush_entries.
logger_timer_cb == /\ log.mode \in {"timer", "mixed"} /\ log.loop = "idle" /\ log.queue # <<>>
                   /\ log' = [log EXCEPT !.loop = "pop"]
logger_pipe_cb == /\ log.loop = "idle" /\ log.pipe
                  /\ log' = [log EXCEPT !.loop = "pop", !.pipe = FALSE]
logger_flush_req_cb == /\ log.loop = "idle" /\ log.req
                       /\ log' = [log EXCEPT !.loop = "pop", !.req = FALSE]

Poppable == log.queue # <<>> /\ Head(log.queue).linked

WrittenAll(s) == LET RECURSIVE From(_)
                     From(i) == IF i = 0 THEN <<>> ELSE s.files[i] \o From(i - 1)
                 IN  s.old \o From(MaxFiles)

\* xMpscPop: nothing when the queue is empty or its first push is unfinished;
\* then the loop flushes the file and is done.
Pop ==
    /\ log.loop = "pop"
    /\ log' = IF Poppable THEN [log EXCEPT !.loop = "write", !.cur = Head(log.queue).id, !.queue = Tail(@)]
              ELSE [log EXCEPT !.loop = "idle"]

\* The oldest goes, every file takes the next name, the current one ".1".
\* fclose puts it on disk.
logger_rotate(s, reopened) ==
    [s EXCEPT !.old = @ \o s.files[MaxFiles], !.fp = reopened,
              !.files = [i \in 1 .. MaxFiles |-> IF i = 1 THEN <<>> ELSE s.files[i - 1]]]

logger_write_entry ==
    /\ log.loop = "write"
    /\ LET s == [log EXCEPT !.loop = "pop", !.cur = 0]
           w == [s EXCEPT !.files[1] = Append(@, log.cur)]
       IN  IF ~log.fp THEN log' = [s EXCEPT !.lost = Append(@, log.cur)]
           ELSE IF MaxFiles > 1 /\ Len(w.files[1]) >= MaxFileSize
                THEN \E ok \in {TRUE} \union (IF MayFail THEN {FALSE} ELSE {}) :
                        log' = logger_rotate(w, ok)
                ELSE log' = w

-----------------------------------------------------------------------------
\* The request, then a look at the queue every millisecond, a thousand times.
xLoggerFlush == /\ log.flush = "idle"
                /\ log' = [log EXCEPT !.flush = "wait", !.req = TRUE]
FlushSees == /\ log.flush = "wait" /\ log.queue = <<>>
             /\ log' = [log EXCEPT !.flush = "returned"]

\* The logger's last flush, by the thread that owns it, the loop idle.
xLoggerDestroy ==
    /\ log.loop = "idle" /\ log.next > MaxEntries /\ \A p \in Producers : log.pc[p] = "idle"
    /\ log.queue # <<>>
    /\ log' = [log EXCEPT !.loop = "pop"]

LogNext == \/ \E p \in Producers : xLoggerLog(p) \/ Link(p) \/ logger_notify(p)
           \/ logger_timer_cb \/ logger_pipe_cb \/ logger_flush_req_cb
           \/ Pop \/ logger_write_entry \/ xLoggerFlush \/ FlushSees \/ xLoggerDestroy

\* A thread goes on with its call, the timer comes again and again, and the
\* loop dispatches what is ready.
Fairness == /\ \A p \in Producers : WF_log(Link(p)) /\ WF_log(logger_notify(p))
            /\ WF_log(logger_timer_cb) /\ WF_log(logger_pipe_cb) /\ WF_log(Pop) /\ WF_log(logger_write_entry)

LogSpec == LogInit /\ [][LogNext]_log
FairSpec == LogSpec /\ Fairness

-----------------------------------------------------------------------------
\* What is on disk, across the rotated files, and what is still queued are
\* all the entries, in the order they were queued; only after the file could
\* not be opened again do entries go missing (logger.c:349-406).
EntriesInOrder ==
    WrittenAll(log) \o log.lost \o (IF log.cur # 0 THEN <<log.cur>> ELSE <<>>) \o Ids(log.queue)
    = [i \in 1 .. log.next - 1 |-> i]

Queued(i) == i < log.next
OnDisk(i) == \E k \in 1 .. Len(WrittenAll(log)) : WrittenAll(log)[k] = i

-----------------------------------------------------------------------------
(***************************************************************************)
(* xRelay: an emit snapshots the subscribers under the lock and, outside   *)
(* it, calls those of its own loop and posts to the loops of the others.   *)
(* A thread runs one loop, or none (loop 0); a callback may emit again.    *)
(*                                                                         *)
(* relay.subs  the subscriber list: records [id, loop] relay.frames  per   *)
(* thread, the emits it is inside of, innermost last relay.posted  per     *)
(* loop, the dispatches on its queue relay.due, relay.got  <<subscription, *)
(* message>> snapshotted, and delivered relay.astray  history: a callback  *)
(* ran on another loop than its own                                        *)
(***************************************************************************)

CONSTANTS Loops,      \* the threads with a loop, 1 .. n; thread 0 has none
          MaxSubs,    \* bound: calls of xRelayOn
          MaxMsgs     \* bound: calls of xRelayEmit

VARIABLE relay

RelayThreads == {0} \union Loops

RelayInit == relay = [subs |-> <<>>, ons |-> 0, msgs |-> 0,
                      frames |-> [t \in RelayThreads |-> <<>>], posted |-> [t \in Loops |-> <<>>],
                      due |-> {}, got |-> <<>>, astray |-> FALSE]

\* Code may run on a thread: always, for the callbacks are inside its frames.
xRelayOn(t) ==
    /\ relay.ons < MaxSubs
    /\ relay' = [relay EXCEPT !.subs = Append(@, [id |-> relay.ons + 1, loop |-> t]), !.ons = @ + 1]

\* The first match is taken out and freed; snapshots hold copies.
xRelayOff ==
    \E i \in 1 .. Len(relay.subs) :
       relay' = [relay EXCEPT !.subs = SubSeq(@, 1, i - 1) \o SubSeq(@, i + 1, Len(@))]

\* The lock is held from the count to the last copy.
Snapshot(t) ==
    /\ relay.msgs < MaxMsgs
    /\ LET m == relay.msgs + 1
       IN  relay' = [relay EXCEPT !.msgs = m,
                                  !.frames[t] = IF relay.subs = <<>> THEN @ ELSE Append(@, [msg |-> m, rest |-> relay.subs]),
                                  !.due = @ \union {<<relay.subs[i].id, m>> : i \in 1 .. Len(relay.subs)}]

IsLocal(s, t) == s.loop = t \/ s.loop = 0

Deliver(st, s, m, t) == [st EXCEPT !.got = Append(@, <<s.id, m>>),
                                   !.astray = @ \/ (s.loop # 0 /\ s.loop # t)]

\* The next subscriber of the snapshot: called, or posted to with a copy.
xRelayEmit(t) ==
    /\ relay.frames[t] # <<>>
    /\ LET n == Len(relay.frames[t])
           f == relay.frames[t][n]
           s == Head(f.rest)
           w == [relay EXCEPT !.frames[t] = IF Len(f.rest) = 1 THEN SubSeq(@, 1, n - 1)
                                            ELSE [@ EXCEPT ![n].rest = Tail(@)]]
       IN  relay' = IF IsLocal(s, t) THEN Deliver(w, s, f.msg, t)
                    ELSE [w EXCEPT !.posted[s.loop] = Append(@, <<s, f.msg>>)]

\* The subscriber's loop runs the dispatch and frees the copy.
dispatch_fn(t) ==
    /\ relay.posted[t] # <<>> /\ relay.frames[t] = <<>>
    /\ relay' = Deliver([relay EXCEPT !.posted[t] = Tail(@)], Head(relay.posted[t])[1], Head(relay.posted[t])[2], t)

RelayNext == \/ \E t \in RelayThreads : xRelayOn(t) \/ Snapshot(t) \/ xRelayEmit(t)
             \/ \E t \in Loops : dispatch_fn(t)
             \/ xRelayOff

RelaySpec == RelayInit /\ [][RelayNext]_relay

-----------------------------------------------------------------------------
Posted == UNION {{<<relay.posted[t][i][1].id, relay.posted[t][i][2]>> : i \in 1 .. Len(relay.posted[t])} : t \in Loops}
InFrames == UNION {UNION {{<<relay.frames[t][k].rest[i].id, relay.frames[t][k].msg>> : i \in 1 .. Len(relay.frames[t][k].rest)}
                          : k \in 1 .. Len(relay.frames[t])} : t \in RelayThreads}

\* Whatever is subscribed and unsubscribed while an emit runs, in its own
\* callbacks or on other threads, every subscriber of its snapshot is called
\* exactly once, on the loop it subscribed on (relay.c:158-262).
OnceOnItsLoop ==
    /\ ~relay.astray
    /\ Cardinality({relay.got[i] : i \in 1 .. Len(relay.got)}) = Len(relay.got)
    /\ {relay.got[i] : i \in 1 .. Len(relay.got)} = relay.due \ (Posted \union InFrames)

-----------------------------------------------------------------------------
(***************************************************************************)
(* xFiber, on Unix (fiber.c) and Windows (fiber_win.c): stacks that switch *)
(* to one another on one thread, and the thread's record of which one      *)
(* runs.                                                                   *)
(*                                                                         *)
(* fiber.tl  tl_fiber; 0 is NULL, 1 the main fiber                         *)
(* fiber.on  the stack the thread really is on                             *)
(* fiber.st  a fiber: "none", "new", "running", "left" (inside its         *)
(*   Switch),                                                              *)
(*           "freed"                                                       *)
(* fiber.parent  the parent field; fiber.me the fiber each trampoline      *)
(*   found itself                                                          *)
(*           to be; fiber.got the argument it passed                       *)
(***************************************************************************)

CONSTANT NFibers,     \* fibers with a stack of their own: 2 .. NFibers + 1
         Platforms    \* subset of {"unix", "windows"}

VARIABLE fiber

Fs == 2 .. NFibers + 1

FiberInit == \E pf \in Platforms :
               fiber = [pf |-> pf, tl |-> 0, on |-> 1,
                        st |-> [f \in 1 .. NFibers + 1 |-> IF f = 1 THEN "running" ELSE "none"],
                        parent |-> [f \in 1 .. NFibers + 1 |-> 0],
                        me |-> [f \in 1 .. NFibers + 1 |-> 0], got |-> [f \in 1 .. NFibers + 1 |-> 0]]

\* The main fiber is made once; the thread becomes it.
xFiberMain(s) == IF s.tl = 0 THEN [s EXCEPT !.tl = 1] ELSE s

\* The stack and its guard, the descriptor, the entry context; the parent is
\* the fiber that runs.
xFiberCreate ==
    \E f \in Fs : /\ fiber.st[f] = "none"
                  /\ fiber' = [fiber EXCEPT !.st[f] = "new", !.parent[f] = fiber.tl]

\* The argument is the descriptor's; on Windows the parameter of the fiber,
\* which xFiberCreate sets to NULL.
fiber_trampoline(s) ==
    [s EXCEPT !.me[s.on] = s.tl,
              !.got[s.on] = IF s.pf = "windows" THEN 0 ELSE s.tl]

\* swapcontext: a new fiber starts in its trampoline, one that left comes
\* back from its own xFiberSwitch and puts itself on record.
Enter(s, target) ==
    LET w == [s EXCEPT !.tl = target, !.st[s.on] = "left", !.on = target, !.st[target] = "running"]
    IN  IF s.st[target] = "new" THEN fiber_trampoline(w) ELSE [w EXCEPT !.tl = target]

xFiberSwitch ==
    \E target \in 1 .. NFibers + 1 :
       /\ fiber.st[target] \in {"new", "left"} \/ target = fiber.on
       /\ LET s == xFiberMain(fiber)
          IN  fiber' = IF target = fiber.on THEN s ELSE Enter(s, target)

\* To the parent, or to the main fiber.
xFiberYield ==
    /\ fiber.tl # 0
    /\ LET target == IF fiber.parent[fiber.tl] # 0 THEN fiber.parent[fiber.tl] ELSE 1
       IN  fiber' = IF target = fiber.on THEN fiber ELSE Enter(fiber, target)

\* A fiber that has left for good, or never ran; not one with a child.
xFiberDestroy ==
    \E f \in Fs :
       /\ fiber.st[f] \in {"new", "left"} /\ f # fiber.tl
       /\ \A g \in Fs : fiber.parent[g] = f => fiber.st[g] = "freed"
       /\ fiber' = [fiber EXCEPT !.st[f] = "freed"]

FiberNext == xFiberCreate \/ xFiberSwitch \/ xFiberYield \/ xFiberDestroy
FiberSpec == FiberInit /\ [][FiberNext]_fiber

-----------------------------------------------------------------------------
\* The thread's record names the fiber it is on, each fiber found its own
\* descriptor when it started, and control is never on a freed stack
\* (fiber.c:117-128, 251-277).
RecordRight ==
    /\ fiber.tl \in {0, fiber.on} /\ (fiber.tl = 0 => fiber.on = 1)
    /\ fiber.st[fiber.on] = "running"
    /\ \A f \in Fs : fiber.me[f] \in {0, f}

-----------------------------------------------------------------------------
(***************************************************************************)
(* File requests (fs.c, fs_win32.c): run by the caller when no callback is *)
(* given, else by a worker of the loop's pool with the callback on the     *)
(* loop's thread.  The system's files are its table of descriptors; what   *)
(* files contain is left out, and every system call may fail.              *)
(*                                                                         *)
(* A handle is a number: on POSIX the descriptor itself, on Windows a      *)
(* HANDLE, which is no descriptor of the C runtime.  0 is the null handle. *)
(***************************************************************************)

CONSTANTS Reqs,         \* request structures
          FsPlatforms,  \* subset of {"posix", "win32"}
          Stdin,        \* whether descriptor 0 is taken at start: subset of BOOLEAN
          MaxFd,        \* highest descriptor the system gives out
          MayRelease    \* whether a request is released as soon as it is cancelled

VARIABLE fs

Null == 0
FdNumbers == 0..MaxFd
HANDLE(n) == n + 100

Fd(h) == IF h >= 100 THEN h - 100 ELSE h

FsOps == {"open", "close", "read", "write", "stat", "mkdir", "rmdir", "unlink", "rename"}

NoReq == [op |-> "none", file |-> Null, cb |-> FALSE, pc |-> "idle", cancelled |-> FALSE,
          result |-> "none", out |-> Null, alive |-> TRUE]

FreeFds(x) == FdNumbers \ x.fds
Lowest(S) == CHOOSE n \in S : \A k \in S : n <= k

\* What a request leaves once its worker ran: `ok` says whether the system
\* call succeeds.
PutResult(x, r, result, out) ==
  [x EXCEPT !.req[r].result = result, !.req[r].out = out,
            !.touched = @ \/ ~x.req[r].alive]

SysResult(ok) == IF ok THEN "Ok" ELSE "SysError"

fs_worker(x, r, ok) ==
  LET q == x.req[r]
      fd == Lowest(FreeFds(x))
  IN CASE q.op = "open" /\ ok ->
            [PutResult(x, r, "Ok", fd) EXCEPT !.fds = @ \cup {fd}]
       [] q.op = "close" ->
            IF q.file = Null THEN PutResult(x, r, "Ok", Null)
            ELSE [PutResult(x, r, SysResult(ok), Null) EXCEPT !.fds = @ \ {q.file}]
       [] q.op \in {"read", "write"} /\ q.file = Null -> PutResult(x, r, "InvalidArg", Null)
       [] OTHER -> PutResult(x, r, SysResult(ok), Null)

\* _get_osfhandle: only a descriptor of the C runtime has a HANDLE.
xfile_to_handle(file) == IF file \in FdNumbers \ {0} THEN HANDLE(file) ELSE -1

win32_open(x, r) ==
  LET fd == Lowest(FreeFds(x)) IN [PutResult(x, r, "Ok", HANDLE(fd)) EXCEPT !.fds = @ \cup {fd}]

fs_worker_win32(x, r, ok) ==
  LET q == x.req[r]
  IN CASE q.op = "open" /\ ok -> win32_open(x, r)
       [] q.op = "close" ->
            IF q.file = Null THEN PutResult(x, r, "Ok", Null)
            ELSE IF xfile_to_handle(q.file) = -1 THEN PutResult(x, r, "SysError", Null)
            ELSE [PutResult(x, r, SysResult(ok), Null) EXCEPT !.fds = @ \ {q.file}]
       [] q.op \in {"read", "write"} /\ xfile_to_handle(q.file) = -1 ->
            PutResult(x, r, "InvalidArg", Null)
       [] q.op = "rmdir" -> PutResult(x, r, "InvalidArg", Null)
       [] OTHER -> PutResult(x, r, SysResult(ok), Null)

Work(x, r, ok) ==
  IF x.plat = "posix" THEN fs_worker(x, r, ok) ELSE fs_worker_win32(x, r, ok)

\* An open needs a free descriptor to succeed.
MayBe(x, r, ok) == ok /\ x.req[r].op = "open" => FreeFds(x) # {}

-----------------------------------------------------------------------------
\* The caller learns the result: an opened file is theirs, one that could not
\* be closed stays open.
Told(x, r) ==
  LET q == x.req[r]
  IN [x EXCEPT !.req[r] = NoReq,
               !.held = @ \cup (IF q.op = "open" /\ q.result = "Ok" THEN {q.out} ELSE {}),
               !.missed = @ \cup (IF q.op = "close" /\ q.result # "Ok" THEN {q.file} ELSE {}),
               !.refused = @ \/ (q.file # Null /\ q.result = "InvalidArg")]

FsInit ==
  fs \in [req : {[r \in Reqs |-> NoReq]}, plat : FsPlatforms, held : {{}},
          refused : {FALSE}, touched : {FALSE}, missed : {{}},
          fds : {IF s THEN {0} ELSE {} : s \in Stdin}]

\* A request: on a handle the caller holds, when it is about one.
Ask(r, op, file, cb) ==
  [fs EXCEPT !.req[r] = [NoReq EXCEPT !.op = op, !.file = file, !.cb = cb,
                                     !.pc = IF cb THEN "queued" ELSE "running"],
             !.held = IF op = "close" THEN @ \ {file} ELSE @]

\* xFsReqSubmit without a callback.
SubmitSync(r, op, file, ok) ==
  /\ fs.req[r].pc = "idle"
  /\ LET x == Ask(r, op, file, FALSE) IN MayBe(x, r, ok) /\ fs' = Told(Work(x, r, ok), r)

\* xFsReqSubmit with one: the work is queued.
SubmitAsync(r, op, file) ==
  /\ fs.req[r].pc = "idle"
  /\ fs' = Ask(r, op, file, TRUE)

WorkerTakes(r) ==
  /\ fs.req[r].pc = "queued"
  /\ fs' = [fs EXCEPT !.req[r].pc = "running"]

WorkerDone(r, ok) ==
  /\ fs.req[r].pc = "running"
  /\ MayBe(fs, r, ok)
  /\ fs' = [Work(fs, r, ok) EXCEPT !.req[r].pc = "posted"]

\* The loop collects a finished item: the callback, unless it was cancelled.
\* A cancelled open that succeeded leaves its descriptor to nobody, and so
\* does a close that never ran.
fs_done(x, r) ==
  LET q == x.req[r]
      lost == IF q.op = "open" /\ q.result = "Ok" THEN {q.out}
              ELSE IF q.op = "close" /\ q.result # "Ok" THEN {q.file} ELSE {}
  IN IF q.cancelled THEN [x EXCEPT !.req[r] = NoReq, !.missed = @ \cup lost]
     ELSE Told(x, r)

FsDone(r) ==
  /\ fs.req[r].pc = "posted"
  /\ fs' = fs_done(fs, r)

\* xFsReqCancel: a queued item is taken from the worker, a running one is only
\* marked.  Its caller may go on to release the request.
FsCancel(r) ==
  /\ fs.req[r].pc \in {"queued", "running", "posted"}
  /\ ~fs.req[r].cancelled
  /\ \E release \in MayRelease :
       fs' = [fs EXCEPT !.req[r].cancelled = TRUE,
                        !.req[r].pc = IF @ = "queued" THEN "posted" ELSE @,
                        !.req[r].alive = ~release]

Handles(op) == IF op \in {"close", "read", "write"} THEN fs.held \cup {Null} ELSE {Null}

FsNext ==
  \E r \in Reqs :
    \/ \E op \in FsOps : \E file \in Handles(op) :
         \/ SubmitAsync(r, op, file)
         \/ \E ok \in BOOLEAN : SubmitSync(r, op, file, ok)
    \/ WorkerTakes(r)
    \/ \E ok \in BOOLEAN : WorkerDone(r, ok)
    \/ FsDone(r)
    \/ FsCancel(r)

FsSpec == FsInit /\ [][FsNext]_fs
-----------------------------------------------------------------------------
Carried == {fs.req[r].out : r \in {s \in Reqs : fs.req[s].pc = "posted"}}
Closing == {fs.req[r].file : r \in {s \in Reqs : fs.req[s].op = "close"}}

\* Every descriptor that requests opened is known to someone: the caller
\* holds its handle, a request is bringing it or closing it, the open was
\* cancelled after it happened or the close before it did (fs.c:146 gives
\* xWorkSubmit no on_cancel), or the close was refused.
FilesHeld ==
  \A n \in fs.fds \ {0} :
    n \in {Fd(h) : h \in fs.held \cup Carried \cup Closing \cup fs.missed}
=============================================================================
