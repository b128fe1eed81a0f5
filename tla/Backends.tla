------------------------------ MODULE Backends ------------------------------
(***************************************************************************)
(* Under the event loop: the poll, WSAPoll and kqueue backends, and        *)
(* signals, each with a state of its own.                                  *)
(***************************************************************************)
EXTENDS Naturals, Sequences, FiniteSets, FiniteSetsExt

-----------------------------------------------------------------------------
(***************************************************************************)
(* The other backends of the event loop: poll (event_poll.c), WSAPoll      *)
(* (event_wsapoll.c) and kqueue (event_kqueue.c).  The first two rebuild   *)
(* an array of descriptors beside the sources before each poll, and        *)
(* imitate edges by clearing the mask of a source they report.             *)
(*                                                                         *)
(* poll.items  loop->sources: want is the mask the application asked for,  *)
(*            mask the one in the struct, told that an event was reported  *)
(* poll.data, poll.room  descriptors with unread bytes, with room to write *)
(* poll.edge  kqueue: the filters of each descriptor that have fired       *)
(* poll.kq    kqueue: the filters registered                               *)
(* poll.sigs, poll.sigbyte  signals watched, and those with a byte in the  *)
(*   pipe                                                                  *)
(* poll.wake  a posted callback waits                                      *)
(* poll.evs   the events being dispatched: <<"fd", id, mask>>, <<"sig">>   *)
(***************************************************************************)

CONSTANTS PollFds,       \* descriptors; a source is known by its descriptor
          Backends,      \* subset of {"poll", "wsapoll", "kqueue"}
          MaxAdded       \* bound: calls of xEventAdd

VARIABLE poll

RW == {"r", "w"}

PollInit == \E be \in Backends :
              poll = [be |-> be, items |-> <<>>, data |-> {}, room |-> {},
                      edge |-> [f \in PollFds |-> {}], kq |-> [f \in PollFds |-> {}],
                      sig |-> FALSE, sigbyte |-> FALSE, wake |-> FALSE, evs |-> <<>>,
                      busy |-> FALSE, adds |-> 0]

Live == {i \in 1 .. Len(poll.items) : ~poll.items[i].deleted}
Registered(s, f) == \E i \in 1 .. Len(s.items) : s.items[i].fd = f /\ ~s.items[i].deleted

-----------------------------------------------------------------------------
\* One change for each filter: added, or deleted and ENOENT ignored.  Adding
\* a filter that is ready fires it.
kq_apply(s, f, mask) ==
    [s EXCEPT !.kq[f] = mask,
              !.edge[f] = (@ \intersect mask)
                          \union ({x \in mask : (x = "r" /\ f \in s.data) \/ (x = "w" /\ f \in s.room)})]

poll_add(s, f, mask) == IF s.be = "kqueue" THEN kq_apply(s, f, mask) ELSE s

xEventAdd(s, f, mask, lt) ==
    poll_add([s EXCEPT !.items = Append(@, [fd |-> f, want |-> mask, mask |-> mask, lt |-> lt,
                                            deleted |-> FALSE, told |-> {}]),
                       !.adds = @ + 1], f, mask)

\* poll_mod and wsapoll_mod only write the mask.
xEventMod(s, f, mask) ==
    LET w == [s EXCEPT !.items = [i \in 1 .. Len(@) |->
                 IF @[i].fd = f /\ ~@[i].deleted
                 THEN [@[i] EXCEPT !.want = mask, !.mask = mask, !.told = {}] ELSE @[i]]]
    IN  IF s.be = "kqueue" THEN kq_apply(w, f, mask) ELSE w

\* The struct stays until the sweep.
xEventDel(s, f) ==
    LET w == [s EXCEPT !.items = [i \in 1 .. Len(@) |->
                 IF @[i].fd = f THEN [@[i] EXCEPT !.deleted = TRUE] ELSE @[i]]]
    IN  IF s.be = "kqueue" THEN [w EXCEPT !.kq[f] = {}, !.edge[f] = {}] ELSE w

\* The calls code on the loop's thread may make.
Calls(s) ==
    {s}
    \union {xEventAdd(s, f, m, lt) : f \in {g \in PollFds : s.adds < MaxAdded /\ \A i \in 1 .. Len(s.items) : s.items[i].fd # g},
                                     m \in {{"r"}, {"w"}, RW}, lt \in BOOLEAN}
    \union {xEventMod(s, f, m) : f \in {g \in PollFds : Registered(s, g)}, m \in {{}, {"r"}, RW}}
    \union {xEventDel(s, f) : f \in {g \in PollFds : Registered(s, g)}}

App == ~poll.busy /\ poll' \in Calls(poll) \ {poll}

\* xSignal: the pipe is made or closed.  WSAPoll has no signals.
poll_signal == /\ ~poll.busy /\ poll.be # "wsapoll"
               /\ poll' = [poll EXCEPT !.sig = ~@, !.sigbyte = FALSE]

-----------------------------------------------------------------------------
\* The world: bytes arrive, the peer makes room, a thread posts, a signal.
Arrives(f) == f \notin poll.data /\ poll' = [poll EXCEPT !.data = @ \union {f}, !.edge[f] = @ \union ({"r"} \intersect poll.kq[f])]
Room(f) == f \notin poll.room /\ poll' = [poll EXCEPT !.room = @ \union {f}, !.edge[f] = @ \union ({"w"} \intersect poll.kq[f])]
Posted == ~poll.wake /\ poll' = [poll EXCEPT !.wake = TRUE]
Signalled == poll.sig /\ ~poll.sigbyte /\ poll' = [poll EXCEPT !.sigbyte = TRUE]

-----------------------------------------------------------------------------
ReadyOf(s, f) == (IF f \in s.data THEN {"r"} ELSE {}) \union (IF f \in s.room THEN {"w"} ELSE {})

\* pfd_rebuild and poll(): the descriptors of the sources, then the signal's.
pfd_rebuild(s) ==
    [i \in 1 .. Len(s.items) |-> ReadyOf(s, s.items[i].fd) \intersect s.items[i].mask]
    \o (IF s.sig THEN <<IF s.sigbyte THEN {"r"} ELSE {}>> ELSE <<>>)

\* The mask is restored where nothing is left to read; nothing has run yet
\* that could have read.
Rearm_none(s, src) == {}

Rearm(s, src) == (IF src.fd \in s.data THEN {} ELSE src.mask \intersect {"r"})
                 \union (src.mask \intersect {"w"})

\* The scan of the sources beside the array built before the posted
\* callbacks ran; a source they added has the next slot, or none.
RECURSIVE Scan(_, _, _)
Scan(s, pfds, i) ==
    IF i > Len(s.items) THEN s
    ELSE LET src   == s.items[i]
             ready == IF i <= Len(pfds) THEN pfds[i] ELSE {}
         IN  IF ready = {} \/ src.deleted THEN Scan(s, pfds, i + 1)
             ELSE LET w == IF s.be = "poll" /\ src.lt THEN s
                           ELSE [s EXCEPT !.items[i].mask = Rearm(s, src)]
                  IN  Scan([w EXCEPT !.items[i].told = @ \union ready,
                                     !.evs = Append(@, <<"fd", src.fd, ready>>)], pfds, i + 1)

\* The signal's slot is looked for after the sources of now.
ScanSignal(s, pfds) ==
    IF s.sig /\ Len(s.items) + 1 <= Len(pfds) /\ "r" \in pfds[Len(s.items) + 1]
    THEN [s EXCEPT !.sigbyte = FALSE, !.evs = Append(@, <<"sig">>)] ELSE s

\* poll_poll and wsapoll_poll.  A wake runs the posted callbacks first.
poll_poll ==
    /\ ~poll.busy /\ poll.be # "kqueue"
    /\ LET pfds == pfd_rebuild(poll)
       IN  /\ poll.wake \/ \E i \in 1 .. Len(pfds) : pfds[i] # {}
           /\ \E s \in IF poll.wake THEN Calls([poll EXCEPT !.wake = FALSE]) ELSE {poll} :
                 poll' = ScanSignal(Scan([s EXCEPT !.busy = TRUE], pfds, 1), pfds)

\* The filters that fired, one event each; a level-triggered one stays.
RECURSIVE KqScan(_, _)
KqScan(s, i) ==
    IF i > Len(s.items) THEN s
    ELSE LET src == s.items[i]
             lvl == IF src.lt THEN ReadyOf(s, src.fd) \intersect s.kq[src.fd] ELSE s.edge[src.fd]
             evs == (IF "r" \in lvl THEN <<<<"fd", src.fd, {"r"}>>>> ELSE <<>>)
                    \o (IF "w" \in lvl THEN <<<<"fd", src.fd, {"w"}>>>> ELSE <<>>)
         IN  IF src.deleted THEN KqScan(s, i + 1)
             ELSE KqScan([s EXCEPT !.edge[src.fd] = {}, !.evs = @ \o evs], i + 1)

kq_poll ==
    /\ ~poll.busy /\ poll.be = "kqueue"
    /\ \/ poll.wake \/ poll.sigbyte
       \/ \E i \in Live : \/ poll.edge[poll.items[i].fd] # {}
                          \/ poll.items[i].lt /\ ReadyOf(poll, poll.items[i].fd) \intersect poll.kq[poll.items[i].fd] # {}
    /\ \E s \in IF poll.wake THEN Calls([poll EXCEPT !.wake = FALSE]) ELSE {poll} :
          LET w == KqScan([s EXCEPT !.busy = TRUE], 1)
          IN  poll' = IF poll.sig /\ poll.sigbyte THEN [w EXCEPT !.sigbyte = FALSE, !.evs = Append(@, <<"sig">>)] ELSE w

\* The callback drains its descriptor and fills it, and may make a call.
loop_dispatch ==
    /\ poll.evs # <<>>
    /\ LET e == Head(poll.evs)
           s == [poll EXCEPT !.evs = Tail(@)]
       IN  IF e[1] = "fd" /\ Registered(poll, e[2])
           THEN poll' \in Calls([s EXCEPT !.data = IF "r" \in e[3] THEN @ \ {e[2]} ELSE @,
                                          !.edge[e[2]] = IF "r" \in e[3] THEN @ \ {"r"} ELSE @,
                                          !.room = IF "w" \in e[3] THEN @ \ {e[2]} ELSE @])
           ELSE poll' = s

source_array_sweep ==
    /\ poll.busy /\ poll.evs = <<>>
    /\ poll' = [poll EXCEPT !.busy = FALSE, !.items = SelectSeq(@, LAMBDA x : ~x.deleted)]

PollNext == \/ App \/ poll_signal \/ Posted \/ Signalled
            \/ \E f \in PollFds : Arrives(f) \/ Room(f)
            \/ poll_poll \/ kq_poll \/ loop_dispatch \/ source_array_sweep

PollSpec == PollInit /\ [][PollNext]_poll

-----------------------------------------------------------------------------
\* No source goes deaf unannounced: kqueue's filters are the mask asked for,
\* and poll clears no interest of a level-triggered source, never the one in
\* writing, and the one in reading only with an event (event_poll.c:189-220,
\* event_kqueue.c:33-60).
SourceArmed ==
    \A i \in Live :
       LET s == poll.items[i]
       IN  /\ poll.be = "kqueue" => poll.kq[s.fd] = s.want
           /\ poll.be = "poll" /\ s.lt => s.mask = s.want
           /\ s.want # s.mask => s.want \ s.mask = {"r"} /\ s.told # {}

-----------------------------------------------------------------------------
(***************************************************************************)
(* Watching one POSIX signal from several event loops, each on a thread of *)
(* its own: xSignal, the self-pipes of the epoll and poll backends with    *)
(* the handler they share, and kqueue's filters.                           *)
(*                                                                         *)
(* sig.be     the backend of this build                                    *)
(* sig.disp   the process's disposition of the signal                      *)
(* sig.gw     g_signal_pipe_w: the descriptor the handler writes to, or 0  *)
(* sig.open   what each open descriptor is: a loop's pipe, or another file *)
(* sig.loops  each loop: alive, its callback, its pipe's write end, a byte *)
(*            waiting in the pipe (or a kqueue event)                      *)
(* sig.shared, sig.left  history: two loops watched at once; a loop went   *)
(*   away                                                                  *)
(*            with its watch                                               *)
(* sig.lost, sig.stray  history: a loop that watched was not told of a     *)
(*            signal; the handler wrote into what is no live loop's pipe   *)
(***************************************************************************)

CONSTANTS SigLoops, SigBackends, MaxRaised
SigFds == 1..(Cardinality(SigLoops) + 1)

VARIABLE sig

SigLoop == [alive |-> TRUE, fn |-> 0, w |-> 0, ready |-> FALSE]

SignalInit ==
  sig \in [be : SigBackends, disp : {"default"}, gw : {0}, open : {[f \in SigFds |-> "no"]},
           loops : {[l \in SigLoops |-> SigLoop]}, raised : {0}, dead : {FALSE},
           shared : {FALSE}, left : {FALSE}, lost : {FALSE}, stray : {FALSE}]

Watching == {l \in SigLoops : sig.loops[l].alive /\ sig.loops[l].fn # 0}
Lowest == Min({f \in SigFds : sig.open[f] = "no"})

-----------------------------------------------------------------------------
\* The backend's part of a registration: a pipe whose read end the loop polls,
\* the handler's descriptor, the handler.  `refused` is the step that fails.
ep_signal_set(l, refused) ==
  LET made == [sig EXCEPT !.open[Lowest] = "pipe", !.gw = Lowest, !.disp = "handler",
                          !.loops[l].w = Lowest, !.loops[l].ready = FALSE]
  IN CASE refused = "pipe" -> sig
       [] refused = "sigaction" -> [sig EXCEPT !.gw = 0]
       [] OTHER -> made

kq_signal_set(l, refused) ==
  IF refused = "pipe" THEN [sig EXCEPT !.disp = "default"]
  ELSE [sig EXCEPT !.disp = "handler", !.loops[l].w = 0, !.loops[l].ready = FALSE]

\* And of a cancellation.
ep_signal_off(l) ==
  [sig EXCEPT !.disp = "default", !.gw = 0, !.open[sig.loops[l].w] = "no",
              !.loops[l].w = 0, !.loops[l].ready = FALSE]

kq_signal_off(l) == [sig EXCEPT !.disp = "default", !.loops[l].ready = FALSE]

\* xSignal(signo, fn) on the loop's thread; a replaced callback does not reach
\* the backend.
xSignal(l, fn, refused) ==
  LET set == IF sig.be = "kqueue" THEN kq_signal_set(l, refused) ELSE ep_signal_set(l, refused)
  IN /\ sig.loops[l].alive
     /\ sig' = IF sig.loops[l].fn # 0 THEN [sig EXCEPT !.loops[l].fn = fn]
               ELSE IF refused # "none"
               THEN [set EXCEPT !.shared = @ \/ Watching # {}]
               ELSE [set EXCEPT !.loops[l].fn = fn, !.shared = @ \/ Watching # {}]

Cancel(l) ==
  /\ sig.loops[l].alive /\ sig.loops[l].fn # 0
  /\ sig' = [IF sig.be = "kqueue" THEN kq_signal_off(l) ELSE ep_signal_off(l)
               EXCEPT !.loops[l].fn = 0]

\* The loop is destroyed: its pipe is closed, the handler and its descriptor
\* stay as they are.
ep_destroy(l) ==
  /\ sig.loops[l].alive
  /\ LET w == sig.loops[l].w
     IN sig' = [sig EXCEPT !.loops[l] = [SigLoop EXCEPT !.alive = FALSE],
                           !.open = [f \in SigFds |-> IF f = w THEN "no" ELSE @[f]],
                           !.left = @ \/ sig.loops[l].fn # 0]

\* Somebody else opens a file, or closes it.
File ==
  \E f \in SigFds :
    \/ /\ \A e \in SigFds : sig.open[e] # "file"
       /\ f = Lowest
       /\ sig' = [sig EXCEPT !.open[f] = "file"]
    \/ /\ sig.open[f] = "file"
       /\ sig' = [sig EXCEPT !.open[f] = "no"]

-----------------------------------------------------------------------------
\* The signal arrives.  Its default disposition ends the process.
signal_handler ==
  LET to == {l \in SigLoops : sig.loops[l].alive /\ sig.loops[l].w = sig.gw /\ sig.gw # 0}
      heard == IF sig.be = "kqueue" THEN Watching ELSE to
  IN /\ ~sig.dead /\ sig.raised < MaxRaised
     /\ sig' = IF sig.disp = "default" THEN [sig EXCEPT !.dead = TRUE, !.raised = @ + 1,
                                                        !.lost = @ \/ Watching # {}]
               ELSE [sig EXCEPT
                        !.raised = @ + 1,
                        !.loops = [l \in SigLoops |->
                                    IF l \in heard THEN [@[l] EXCEPT !.ready = TRUE] ELSE @[l]],
                        !.lost = @ \/ ~(Watching \subseteq heard),
                        !.stray = @ \/ (sig.be # "kqueue" /\ sig.gw # 0 /\ to = {}
                                        /\ sig.open[sig.gw] # "no")]

\* The loop polls: the pipe is drained, and the event reported reaches the
\* callback of now.
ep_poll(l) ==
  /\ sig.loops[l].alive /\ sig.loops[l].ready
  /\ sig' = [sig EXCEPT !.loops[l].ready = FALSE]

SignalNext ==
  \/ ~sig.dead /\ (\/ \E l \in SigLoops, fn \in 1..2, refused \in {"none", "pipe", "sigaction"} :
                        xSignal(l, fn, refused)
                   \/ \E l \in SigLoops : Cancel(l) \/ ep_destroy(l) \/ ep_poll(l)
                   \/ File)
  \/ signal_handler

SignalSpec == SignalInit /\ [][SignalNext]_sig
-----------------------------------------------------------------------------
\* A signal reaches the loop that watches it, whatever registrations were
\* refused, replaced and cancelled before, as long as no two loops watched it
\* at the same time; and the handler writes into no descriptor but a watching
\* loop's pipe as long as no loop went away with its watch.  The pipe a
\* callback stands for is open.
SignalsHeard ==
  /\ sig.lost => sig.shared
  /\ sig.stray => sig.left
  /\ sig.be # "kqueue" =>
         \A l \in SigLoops : sig.loops[l].fn # 0 => /\ sig.loops[l].w # 0
                                                    /\ sig.open[sig.loops[l].w] = "pipe"
=============================================================================
