------------------------------ MODULE Commands ------------------------------
(***************************************************************************)
(* Child processes: the POSIX executor (command_posix.c) and the Windows   *)
(* one (command_windows.c), each with a state of its own.                  *)
(***************************************************************************)
EXTENDS Naturals, Sequences, FiniteSets, SequencesExt

-----------------------------------------------------------------------------
(***************************************************************************)
(* xCommandExecutor on POSIX: executors on one event loop, the list of the *)
(* running ones that one SIGCHLD handler walks, and the three events (both *)
(* outputs at their end, the child reaped) whose last one ends a run.      *)
(*                                                                         *)
(* posix.list  g_sigchld_head, posix.count g_sigchld_count, posix.sig a    *)
(*   SIGCHLD to be                                                         *)
(*           delivered (the kernel keeps one, however many children exit)  *)
(* posix.ex[e]  the executor: its conf (pty, out, err: watched or          *)
(*   discarded),                                                           *)
(*           its child, the write ends other processes hold (wout, werr),  *)
(*           its sources, ends and timers; done counts on_done of this run *)
(***************************************************************************)

CONSTANTS Execs,       \* the executors
          MaxRuns      \* runs of one executor

VARIABLE posix

NewExec == [st |-> "idle", live |-> TRUE, pty |-> FALSE, out |-> FALSE, err |-> FALSE,
            child |-> "none", wout |-> FALSE, werr |-> FALSE,
            ssrc |-> FALSE, esrc |-> FALSE, fds |-> FALSE,
            soeof |-> FALSE, seeof |-> FALSE, exited |-> FALSE,
            timeout |-> FALSE, cancel |-> FALSE, done |-> 0, runs |-> 0]

PosixInit == posix = [ex |-> [e \in Execs |-> NewExec], list |-> <<>>, count |-> 0, sig |-> FALSE]

sigchld_add(y, e) == [y EXCEPT !.list = <<e>> \o @, !.count = @ + 1]

\* sigchld_remove and sigchld_unregister.
sigchld_remove(y, e) == [y EXCEPT !.list = SelectSeq(@, LAMBDA o : o # e),
                                  !.count = @ - 1]

cmd_cleanup(r) == [r EXCEPT !.ssrc = FALSE, !.esrc = FALSE, !.fds = FALSE]

Confs == [out : BOOLEAN, err : BOOLEAN, timed : BOOLEAN]

\* The fork and what follows it: fast says that the child is gone before the
\* probe with waitpid, which reaps it without looking at the outputs.
SubmitPipe(y, e, conf, fast) ==
    [sigchld_add(y, e) EXCEPT
       !.sig = @ \/ fast,
       !.ex[e] = [NewExec EXCEPT
          !.st = "running", !.out = conf.out, !.err = conf.err, !.fds = TRUE,
          !.child = IF fast THEN "reaped" ELSE "alive", !.exited = fast,
          !.wout = ~fast, !.werr = ~fast,
          !.ssrc = conf.out, !.esrc = conf.err,
          !.soeof = ~conf.out, !.seeof = ~conf.err,
          !.timeout = conf.timed, !.runs = y.ex[e].runs + 1]]

\* The run ends: timers, list, descriptors; idle before on_done, which may
\* submit again (again).
cmd_fire_done(y, e, again) ==
    LET z == [sigchld_remove(y, e) EXCEPT
                !.ex[e] = [cmd_cleanup(@) EXCEPT !.timeout = FALSE, !.cancel = FALSE,
                                                 !.st = "idle", !.done = @ + 1]]
    IN  IF again /\ z.ex[e].runs < MaxRuns
        THEN SubmitPipe(z, e, [out |-> TRUE, err |-> FALSE, timed |-> TRUE], FALSE)
        ELSE z

\* The end of the outputs not awaited.
cmd_check_completion_early(y, e, again) ==
    IF y.ex[e].exited THEN cmd_fire_done(y, e, again) ELSE y

cmd_check_completion(y, e, again) ==
    IF y.ex[e].soeof /\ y.ex[e].seeof /\ y.ex[e].exited
    THEN cmd_fire_done(y, e, again) ELSE y

\* The terminal's submit probes after it has registered its source, drains
\* what the dead child left (its end seen if nobody else holds the slave) and
\* completes; the timer and the state are set after that.
SubmitPty(y, e, conf, fast, drained, again) ==
    LET z == [sigchld_add(y, e) EXCEPT
                !.sig = @ \/ fast,
                !.ex[e] = [NewExec EXCEPT
                   !.pty = TRUE, !.out = TRUE, !.fds = TRUE, !.seeof = TRUE,
                   !.child = IF fast THEN "reaped" ELSE "alive", !.exited = fast,
                   !.wout = ~(fast /\ drained), !.soeof = fast /\ drained,
                   !.ssrc = ~(fast /\ drained), !.runs = y.ex[e].runs + 1]]
        w == IF fast THEN cmd_check_completion(z, e, again) ELSE z
    IN  [w EXCEPT !.ex[e].timeout = conf.timed \/ @, !.ex[e].st = "running"]

Usable(e) == posix.ex[e].live

xCommandExecutorSubmit(e) ==
    /\ Usable(e) /\ posix.ex[e].st = "idle" /\ posix.ex[e].runs < MaxRuns
    /\ \E conf \in Confs, fast, drained, again \in BOOLEAN :
          \/ posix' = SubmitPipe(posix, e, conf, fast)
          \/ conf.out /\ ~conf.err /\ posix' = SubmitPty(posix, e, conf, fast, drained, again)

\* A failure before the child runs, or after it: what was set up is undone.
SubmitFails(e) ==
    /\ Usable(e) /\ posix.ex[e].st = "idle" /\ posix.ex[e].runs < MaxRuns
    /\ posix' = [posix EXCEPT !.ex[e] = [NewExec EXCEPT !.runs = posix.ex[e].runs + 1]]

-----------------------------------------------------------------------------
\* The child's world: it exits, and the last holder of an output closes it.
Exits(e) ==
    /\ posix.ex[e].child = "alive"
    /\ posix' = [posix EXCEPT !.ex[e].child = "zombie", !.sig = TRUE]

Closes(e) ==
    \/ posix.ex[e].wout /\ posix' = [posix EXCEPT !.ex[e].wout = FALSE]
    \/ posix.ex[e].werr /\ posix' = [posix EXCEPT !.ex[e].werr = FALSE]

\* on_stdout_readable and on_pty_readable: the read that finds the end.
on_stdout_readable(e) ==
    /\ posix.ex[e].ssrc /\ ~posix.ex[e].wout
    /\ \E again \in BOOLEAN :
          posix' = cmd_check_completion([posix EXCEPT !.ex[e].ssrc = FALSE, !.ex[e].soeof = TRUE],
                                        e, again)

on_stderr_readable(e) ==
    /\ posix.ex[e].esrc /\ ~posix.ex[e].werr
    /\ \E again \in BOOLEAN :
          posix' = cmd_check_completion([posix EXCEPT !.ex[e].esrc = FALSE, !.ex[e].seeof = TRUE],
                                        e, again)

\* cmd_kill_pg: SIGKILL ends the child; SIGTERM leaves it to the child.
Killed(y, e) ==
    IF y.ex[e].child = "alive" THEN [y EXCEPT !.ex[e].child = "zombie", !.sig = TRUE] ELSE y

\* xCommandExecutorCancel, and on_timeout's same turn to cancelling.
Cancelling(y, e) == [y EXCEPT !.ex[e].st = "cancelling", !.ex[e].cancel = TRUE]

xCommandExecutorCancel(e) ==
    /\ Usable(e) /\ posix.ex[e].st = "running"
    /\ posix' = Cancelling(posix, e)

on_timeout(e) ==
    /\ Usable(e) /\ posix.ex[e].timeout
    /\ LET y == [posix EXCEPT !.ex[e].timeout = FALSE]
       IN  posix' = IF y.ex[e].st = "running" THEN Cancelling(y, e) ELSE y

on_cancel_grace(e) ==
    /\ Usable(e) /\ posix.ex[e].cancel
    /\ LET y == [posix EXCEPT !.ex[e].cancel = FALSE]
       IN  posix' = IF y.ex[e].st = "cancelling" THEN Killed(y, e) ELSE y

\* exec->next after the executor has been looked at: NULL once it has been
\* taken from the list, the rest of the list otherwise.
NextOf(y, e) ==
    IF \E i \in 1 .. Len(y.list) - 1 : y.list[i] = e
    THEN y.list[(CHOOSE i \in 1 .. Len(y.list) - 1 : y.list[i] = e) + 1]
    ELSE "nil"

RECURSIVE Walk(_, _, _)
Walk(y, e, again) ==
    IF e = "nil" THEN y
    ELSE LET z == IF y.ex[e].child = "zombie" /\ ~y.ex[e].exited
                  THEN cmd_check_completion([y EXCEPT !.ex[e].child = "reaped",
                                                      !.ex[e].exited = TRUE], e, again)
                  ELSE y
         IN  Walk(z, NextOf(z, e), again)

sigchld_handler ==
    /\ posix.sig /\ posix.count > 0
    /\ \E again \in BOOLEAN :
          LET y == [posix EXCEPT !.sig = FALSE]
          IN  posix' = IF y.list = <<>> THEN y ELSE Walk(y, Head(y.list), again)

\* The child is killed and reaped at once; the timers are left as they are.
xCommandExecutorDestroy(e) ==
    /\ Usable(e)
    /\ posix' = [(IF posix.ex[e].st # "idle" THEN sigchld_remove(Killed(posix, e), e) ELSE posix) EXCEPT
                   !.ex[e] = [NewExec EXCEPT !.live = FALSE, !.timeout = posix.ex[e].timeout,
                                             !.cancel = posix.ex[e].cancel]]

PosixNext == \/ sigchld_handler
             \/ \E e \in Execs : \/ xCommandExecutorSubmit(e) \/ SubmitFails(e)
                                 \/ Exits(e) \/ Closes(e)
                                 \/ on_stdout_readable(e) \/ on_stderr_readable(e)
                                 \/ xCommandExecutorCancel(e) \/ on_timeout(e)
                                 \/ on_cancel_grace(e) \/ xCommandExecutorDestroy(e)

PosixSpec == PosixInit /\ [][PosixNext]_posix

-----------------------------------------------------------------------------
\* on_done is called at most once a run, whatever the order of the two ends
\* and the child's exit, and only after all three; from then on the run holds
\* no source and no place in the list.  A run that has not ended is in the
\* list once, so that a SIGCHLD can find it (command_posix.c:971-1023).
DoneOnce ==
    \A e \in Execs :
       LET r == posix.ex[e] IN
       /\ r.done <= 1
       /\ r.done = 1 => r.soeof /\ r.seeof /\ r.child = "reaped" /\ ~r.ssrc /\ ~r.esrc /\ ~r.fds
       /\ r.live => (r.done = 0 /\ r.st # "idle" <=> e \in Range(posix.list))
       /\ Len(posix.list) = Cardinality(Range(posix.list))

-----------------------------------------------------------------------------
(***************************************************************************)
(* xCommandExecutor on Windows: one reader thread per watched output, the  *)
(* pool's callback on the process's exit, and the loop that runs what they *)
(* post, for one executor used for several runs.                           *)
(*                                                                         *)
(* win.rd[s]  the reader of output s: off, reading, gone (its end posted)  *)
(* win.wait  hWait is registered; win.cb: the pool's callback is past its  *)
(*            test of destroying and has not posted yet                    *)
(* win.q      what is posted to the loop, [k: kind, run: the run it is of] *)
(* win.con  hConPty is open; win.bad: the loop used a freed executor       *)
(***************************************************************************)

CONSTANT MaxRunsWin

VARIABLE win

Outs == {"out", "err"}

Fresh(n) == [st |-> "idle", live |-> TRUE, destroying |-> FALSE, pty |-> FALSE,
             child |-> "none", con |-> FALSE, wait |-> FALSE, cb |-> FALSE,
             rd |-> [s \in Outs |-> "off"], eof |-> [s \in Outs |-> FALSE],
             exited |-> FALSE, timeout |-> FALSE, cancel |-> FALSE,
             done |-> 0, run |-> n, q |-> <<>>, bad |-> FALSE]

WinInit == win = Fresh(0)

Post(v, k) == [v EXCEPT !.q = Append(@, [k |-> k, run |-> v.run])]

\* Timers, the wait (not awaited), the readers (awaited), every handle; idle
\* before on_done.
cmd_fire_done_win(v) ==
    [v EXCEPT !.timeout = FALSE, !.cancel = FALSE, !.wait = FALSE, !.con = FALSE,
              !.rd = [s \in Outs |-> "off"], !.st = "idle", !.done = @ + 1]

\* The pseudo console is closed as soon as the child is gone, which ends the
\* reader of its output.
cmd_check_completion_win(v) ==
    LET z == IF v.exited /\ v.pty THEN [v EXCEPT !.con = FALSE] ELSE v
    IN  IF z.eof["out"] /\ z.eof["err"] /\ z.exited THEN cmd_fire_done_win(z) ELSE z

\* Everything of the last run is reset; the posts of it are not.
Started(outs, isPty, timed) ==
    [Fresh(win.run + 1) EXCEPT
       !.q = win.q, !.bad = win.bad, !.cb = win.cb, !.pty = isPty, !.con = isPty,
       !.child = "alive", !.wait = TRUE, !.timeout = timed,
       !.rd = [s \in Outs |-> IF s \in outs THEN "reading" ELSE "off"],
       !.eof = [s \in Outs |-> s \notin outs]]

\* The probe with GetExitCodeProcess completes inside the submit; the state
\* is set after it.
Probe(v, fast) ==
    [(IF fast THEN cmd_check_completion_win([v EXCEPT !.child = "dead", !.exited = TRUE])
      ELSE v) EXCEPT !.st = "running"]

Ready == win.live /\ win.st = "idle" /\ win.run < MaxRunsWin

xCommandExecutorSubmit_win ==
    /\ Ready
    /\ \E outs \in SUBSET Outs, timed, fast \in BOOLEAN :
          win' = Probe(Started(outs, FALSE, timed), fast)

xCommandExecutorSubmitPty ==
    /\ Ready
    /\ \E timed, fast \in BOOLEAN : win' = Probe(Started({"out"}, TRUE, timed), fast)

\* No pipe, process or thread: what was started is ended and joined.
WinSubmitFails == Ready /\ win' = [Fresh(win.run + 1) EXCEPT !.q = win.q, !.bad = win.bad, !.cb = win.cb]

WinExits == win.child = "alive" /\ win' = [win EXCEPT !.child = "dead"]

\* The reader meets the end: of the child's writers, or of the console.
pipe_reader_thread(s) ==
    /\ win.rd[s] = "reading"
    /\ IF win.pty THEN ~win.con ELSE win.child = "dead"
    /\ win' = [Post(win, s) EXCEPT !.rd[s] = "gone"]

\* The pool's callback, in its two steps: the test, and the post.
on_process_exit ==
    \/ /\ win.wait /\ win.child = "dead" /\ ~win.cb /\ ~win.destroying
       /\ win' = [win EXCEPT !.cb = TRUE, !.wait = FALSE]
    \/ win.cb /\ win' = [Post(win, "exit") EXCEPT !.cb = FALSE]

\* on_pipe_chunk (its end) and on_process_exit_posted.
Run(v) ==
    LET m == Head(v.q)
        z == [v EXCEPT !.q = Tail(@)]
    IN  IF ~v.live THEN [z EXCEPT !.bad = TRUE]
        ELSE IF v.destroying THEN z
        ELSE IF m.k \in Outs THEN cmd_check_completion_win([z EXCEPT !.eof[m.k] = TRUE])
        ELSE IF ~v.exited THEN cmd_check_completion_win([z EXCEPT !.exited = TRUE])
        ELSE z

Loop == win.q # <<>> /\ win' = Run(win)

\* xCommandExecutorCancel, and on_timeout_win's same turn.
WinCancelling(v) == [v EXCEPT !.st = "cancelling", !.cancel = TRUE,
                              !.child = IF @ = "alive" THEN "dead" ELSE @]

xCommandExecutorCancel_win == win.live /\ win.st = "running" /\ win' = WinCancelling(win)

on_timeout_win ==
    /\ win.live /\ win.timeout
    /\ win' = IF win.st = "running" THEN WinCancelling([win EXCEPT !.timeout = FALSE])
              ELSE [win EXCEPT !.timeout = FALSE]

on_cancel_grace_win ==
    /\ win.live /\ win.cancel
    /\ win' = [win EXCEPT !.cancel = FALSE,
                          !.child = IF @ = "alive" /\ win.st = "cancelling" THEN "dead" ELSE @]

\* Destroyed at work: the child ended, the callback and the readers awaited,
\* what they posted run down (it finds destroying set), the timers stopped.
Stopped(v) ==
    [v EXCEPT !.child = "dead", !.wait = FALSE, !.cb = FALSE, !.con = FALSE,
              !.rd = [s \in Outs |-> "off"], !.q = <<>>,
              !.timeout = FALSE, !.cancel = FALSE]

\* Destroyed idle: freed at once.
xCommandExecutorDestroy_win ==
    /\ win.live
    /\ win' = [(IF win.st # "idle" THEN Stopped(win) ELSE win) EXCEPT
                 !.live = FALSE, !.destroying = win.st # "idle"]

WinNext == \/ xCommandExecutorSubmit_win \/ xCommandExecutorSubmitPty \/ WinSubmitFails
           \/ WinExits \/ on_process_exit \/ Loop \/ xCommandExecutorCancel_win
           \/ on_timeout_win \/ on_cancel_grace_win \/ xCommandExecutorDestroy_win
           \/ \E s \in Outs : pipe_reader_thread(s)

WinSpec == WinInit /\ [][WinNext]_win

-----------------------------------------------------------------------------
\* The posts of the run in hand.
Mine == {i \in 1 .. Len(win.q) : win.q[i].run = win.run}

\* on_done comes once a run and after both outputs' ends; by then no reader
\* thread is left, and nothing of a destroyed executor runs on: no thread, no
\* callback, no timer (command_windows.c:310-419, 534-626).
WinDoneOnce ==
    /\ win.done <= 1
    /\ win.done = 1 => win.eof["out"] /\ win.eof["err"] /\ win.exited
                       /\ \A s \in Outs : win.rd[s] # "reading"
    /\ \A s \in Outs : win.rd[s] = "gone" /\ ~win.eof[s] =>
          \E i \in Mine : win.q[i].k = s
    /\ win.destroying => ~win.timeout /\ ~win.cancel /\ ~win.cb /\ win.q = <<>>
=============================================================================
