------------------------------- MODULE CxxIo --------------------------------
(***************************************************************************)
(* The streams of libx++: in-memory pipes, buffered readers and writers,   *)
(* asynchronous descriptors and files, each with a state of its own.       *)
(***************************************************************************)
EXTENDS Naturals, Sequences, FiniteSets, TLC

-----------------------------------------------------------------------------
(***************************************************************************)
(* In-memory pipes of the C++ library: a simplex pipe is one RingBuf, a    *)
(* duplex pipe is two, ring i read by stream i and written by the other.   *)
(* Everything runs on one loop; a parked read or write resumes in a later  *)
(* turn, after its waiter was resolved.                                    *)
(*                                                                         *)
(* pipe.kind  "simplex" (ring 0 only) or "duplex"                          *)
(* pipe.ring[i] buf, rpos, wpos, count, closed                             *)
(* pipe.rd[i]  the read of ring i: "idle", "parked" (its resolver is in    *)
(*           read_waiter), "woken"; pipe.rlen[i] its len; pipe.wr,         *)
(*             pipe.wlen alike                                             *)
(* pipe.sent[i] how many bytes were accepted, numbered from 1; pipe.got[i] *)
(*   read                                                                  *)
(***************************************************************************)

CONSTANTS PipeCap,     \* the size given to simplex() or duplex()
          ReadLens,    \* lengths of reads
          WriteLens,   \* lengths of writes
          MaxBytes     \* bound on the bytes written into a ring

VARIABLE pipe

Rings == {0, 1}
Used(q) == IF q.kind = "simplex" THEN {0} ELSE Rings

RingBuf == [buf |-> [k \in 0 .. PipeCap - 1 |-> 0], rpos |-> 0, wpos |-> 0, count |-> 0,
            closed |-> FALSE]

PipeInit ==
        \E kind \in {"simplex", "duplex"} :
           pipe = [kind |-> kind, ring |-> [i \in Rings |-> RingBuf],
                   rd |-> [i \in Rings |-> "idle"], wr |-> [i \in Rings |-> "idle"],
                   rlen |-> [i \in Rings |-> 0], wlen |-> [i \in Rings |-> 0],
                   sent |-> [i \in Rings |-> 0], got |-> [i \in Rings |-> <<>>]]
-----------------------------------------------------------------------------
MinOf(a, b) == IF a < b THEN a ELSE b

\* Bytes [from, from + n) of the ring, in two pieces when they wrap.
Bytes(r, from, n) ==
    IF from + n > PipeCap
    THEN [k \in 1 .. PipeCap - from |-> r.buf[from + k - 1]]
            \o [k \in 1 .. n - (PipeCap - from) |-> r.buf[k - 1]]
    ELSE [k \in 1 .. n |-> r.buf[from + k - 1]]

\* A position may rest at PipeCap: the next copy then wraps at once.
Advanced(pos, n) == IF pos + n > PipeCap THEN n - (PipeCap - pos) ELSE pos + n

do_read(r, n) == [r EXCEPT !.rpos = Advanced(@, n), !.count = @ - n]

do_write(r, first, n) ==
    [r EXCEPT !.buf = [k \in 0 .. PipeCap - 1 |->
                         LET off == IF k >= r.wpos THEN k - r.wpos ELSE k + PipeCap - r.wpos
                         IN  IF off < n THEN first + off ELSE @[k]],
              !.wpos = Advanced(@, n), !.count = @ + n]

wake_reader(q, i) == IF q.rd[i] = "parked" THEN [q EXCEPT !.rd[i] = "woken"] ELSE q
wake_writer(q, i) == IF q.wr[i] = "parked" THEN [q EXCEPT !.wr[i] = "woken"] ELSE q
wake_all(q, i) == wake_writer(wake_reader(q, i), i)

\* One pass of the read loop over ring i.
ReadLoop(q, i, len) ==
    LET r == q.ring[i]
        n == MinOf(len, r.count)
    IN  IF r.count > 0
        THEN wake_writer([q EXCEPT !.rd[i] = "idle", !.rlen[i] = 0, !.ring[i] = do_read(r, n),
                                   !.got[i] = @ \o Bytes(r, r.rpos, n)], i)
        ELSE IF r.closed THEN [q EXCEPT !.rd[i] = "idle", !.rlen[i] = 0]      \* 0
        ELSE [q EXCEPT !.rd[i] = "parked", !.rlen[i] = len]

\* One pass of the write loop: all of it or none.
WriteLoop(q, i, len) ==
    LET r == q.ring[i]
    IN  IF r.count + len <= PipeCap
        THEN wake_reader([q EXCEPT !.wr[i] = "idle", !.wlen[i] = 0, !.sent[i] = @ + len,
                                   !.ring[i] = do_write(r, q.sent[i] + 1, len)], i)
        ELSE IF r.closed THEN [q EXCEPT !.wr[i] = "idle", !.wlen[i] = 0]      \* -1
        ELSE [q EXCEPT !.wr[i] = "parked", !.wlen[i] = len]

-----------------------------------------------------------------------------
\* read and write of one end; an end has at most one of each under way.
SimplexRead ==
    /\ pipe.kind = "simplex" /\ pipe.rd[0] = "idle"
    /\ \E len \in ReadLens : pipe' = ReadLoop(pipe, 0, len)

SimplexWrite ==
    /\ pipe.kind = "simplex" /\ pipe.wr[0] = "idle"
    /\ \E len \in WriteLens : pipe.sent[0] + len <= MaxBytes /\ pipe' = WriteLoop(pipe, 0, len)

SimplexClose ==
    /\ pipe.kind = "simplex" /\ ~ pipe.ring[0].closed
    /\ pipe' = wake_all([pipe EXCEPT !.ring[0].closed = TRUE], 0)

DuplexRead ==
    /\ pipe.kind = "duplex"
    /\ \E i \in Rings, len \in ReadLens : pipe.rd[i] = "idle" /\ pipe' = ReadLoop(pipe, i, len)

DuplexWrite ==
    /\ pipe.kind = "duplex"
    /\ \E i \in Rings, len \in WriteLens :
          /\ pipe.wr[i] = "idle" /\ pipe.sent[i] + len <= MaxBytes
          /\ pipe' = WriteLoop(pipe, i, len)

\* A stream closes the ring it writes; the ring it reads stays open.
DuplexClose ==
    /\ pipe.kind = "duplex"
    /\ \E i \in Rings : /\ ~ pipe.ring[i].closed
                        /\ pipe' = wake_all([pipe EXCEPT !.ring[i].closed = TRUE], i)

\* A later turn of the loop runs what was resolved.
ReadWoken == \E i \in Used(pipe) : pipe.rd[i] = "woken" /\ pipe' = ReadLoop(pipe, i, pipe.rlen[i])
WriteWoken == \E i \in Used(pipe) : pipe.wr[i] = "woken" /\ pipe' = WriteLoop(pipe, i, pipe.wlen[i])

\* The promise of a read or a write is dropped before it is done.
Dropped ==
    \E i \in Used(pipe) :
       \/ pipe.rd[i] # "idle" /\ pipe' = [pipe EXCEPT !.rd[i] = "idle", !.rlen[i] = 0]
       \/ pipe.wr[i] # "idle" /\ pipe' = [pipe EXCEPT !.wr[i] = "idle", !.wlen[i] = 0]

PipeNext == \/ SimplexRead \/ SimplexWrite \/ SimplexClose
            \/ DuplexRead \/ DuplexWrite \/ DuplexClose
            \/ ReadWoken \/ WriteWoken \/ Dropped

PipeSpec == PipeInit /\ [][PipeNext]_pipe
-----------------------------------------------------------------------------
\* What the reader got, with what the ring still holds, is what writes were
\* told was accepted, in order (ring_buf.h:73-105); and nobody sleeps on what
\* it waits for: a parked read has an empty, open ring, a parked write one
\* that is open and has no room for it.
PipesRight ==
    \A i \in Used(pipe) :
       /\ pipe.ring[i].count <= PipeCap
       /\ pipe.got[i] \o Bytes(pipe.ring[i], pipe.ring[i].rpos, pipe.ring[i].count) = [k \in 1 .. pipe.sent[i] |-> k]
       /\ pipe.rd[i] = "parked" => pipe.ring[i].count = 0 /\ ~ pipe.ring[i].closed
       /\ pipe.wr[i] = "parked" => pipe.ring[i].count + pipe.wlen[i] > PipeCap /\ ~ pipe.ring[i].closed

-----------------------------------------------------------------------------
(***************************************************************************)
(* Readers and writers stacked on others: BufReader over a Take over a     *)
(* source, BufWriter over a sink, and the loops copy and read_all.  The    *)
(* bytes of the source and those given to the writer are numbered from 1.  *)
(* A source returns any part of what is asked; a "short" sink any part of  *)
(* what it is given, a "whole" one (the in-memory pipe) all of it.         *)
(*                                                                         *)
(* bio.mode  who drives: "buffered" a caller of read, write and flush,     *)
(*         "copy" copy(take, sink), "read_all" read_all(take)              *)
(* bio.taken bytes the source has given; bio.rem the limit left in the     *)
(*   Take                                                                  *)
(* bio.buf  BufReader's buffer, bio.pos of its bytes handed out already    *)
(* bio.rd, bio.rlen  the read under way and its length                     *)
(* bio.wbuf  BufWriter's buffer; bio.wr, bio.wlen the write under way      *)
(* bio.given bytes accepted by write; bio.sink what reached the sink       *)
(***************************************************************************)

CONSTANTS BufSize,    \* kBufSize
          SourceLen,  \* bytes the source has
          Limits,     \* limits given to the Take
          IoLens,     \* lengths of reads and writes
          MaxGiven    \* bound on the bytes given to write

VARIABLE bio

Iota(n) == [k \in 1 .. n |-> k]
Upto(from, n) == [k \in 1 .. n |-> from + k]
Lesser(m, n) == IF m < n THEN m ELSE n

BioInit ==
       bio \in [mode : {"buffered", "copy", "read_all"}, kind : {"whole", "short"},
                taken : {0}, rem : Limits, buf : {<<>>}, pos : {0}, rd : {"idle"}, rlen : {0},
                got : {<<>>}, ended : {FALSE},
                wbuf : {<<>>}, wr : {"idle"}, wlen : {0}, given : {0}, sink : {<<>>}]

-----------------------------------------------------------------------------
\* Take::read, resolved: no inner read once the limit is used up, else part of
\* what fits under it.  0 is the end; a failed read ends the loops likewise
\* and is left out.
TakeRead(len) ==
    IF bio.rem = 0 THEN {0}
    ELSE LET limit == Lesser(len, bio.rem)
             left  == SourceLen - bio.taken
         IN  IF left = 0 THEN {0} ELSE 1 .. Lesser(limit, left)

Took(x, n) == [x EXCEPT !.taken = @ + n, !.rem = @ - n]

\* Path 1 is answered at once from the buffer; the others ask the inner reader.
Read(len) ==
    /\ bio.mode = "buffered" /\ bio.rd = "idle" /\ ~bio.ended
    /\ LET avail == Len(bio.buf) - bio.pos
           n     == Lesser(len, avail)
       IN  bio' = IF avail > 0
                  THEN [bio EXCEPT !.pos = @ + n, !.got = @ \o SubSeq(bio.buf, bio.pos + 1, bio.pos + n)]
                  ELSE [bio EXCEPT !.pos = 0, !.buf = <<>>, !.rlen = len,
                                   !.rd = IF len >= BufSize THEN "direct" ELSE "refill"]

\* Path 2: the caller's own buffer was filled.
ReadDirect ==
    /\ bio.rd = "direct"
    /\ \E n \in TakeRead(bio.rlen) :
         bio' = [Took(bio, n) EXCEPT !.rd = "idle", !.rlen = 0, !.ended = (n = 0),
                                     !.got = @ \o Upto(bio.taken, n)]

\* Path 3: the buffer was refilled, and the caller gets its first bytes.
Refilled(n) ==
    LET copy == Lesser(bio.rlen, n)
    IN  [Took(bio, n) EXCEPT !.rd = "idle", !.rlen = 0, !.ended = (n = 0),
                             !.buf = Upto(bio.taken, n), !.pos = copy,
                             !.got = @ \o Upto(bio.taken, copy)]

ReadRefill ==
    /\ bio.rd = "refill"
    /\ \E n \in TakeRead(BufSize) : bio' = Refilled(n)

-----------------------------------------------------------------------------
\* The inner write has returned a count, which nobody looks at except the
\* caller of a direct write.
Sunk(x, bytes) ==
    {[x EXCEPT !.sink = @ \o SubSeq(bytes, 1, n)] :
        n \in IF x.kind = "whole" THEN {Len(bytes)} ELSE 1 .. Len(bytes)}

Buffered(x, len) == [x EXCEPT !.wbuf = @ \o Upto(x.given, len), !.given = @ + len, !.wr = "idle",
                              !.wlen = 0]

\* After flush(), whose buffer is empty now: on to the inner write, to the
\* buffer, or back to the caller.
AfterFlush(x) ==
    LET y == [x EXCEPT !.wbuf = <<>>]
    IN  CASE x.wr = "before direct" -> [y EXCEPT !.wr = "direct"]
          [] x.wr = "before buffer" -> Buffered(y, x.wlen)
          [] x.wr = "flush"         -> [y EXCEPT !.wr = "idle"]

\* The buffer is written where there is something in it.
Flushing(x) == IF x.wbuf = <<>> THEN AfterFlush(x) ELSE x

Write(len) ==
    /\ bio.mode = "buffered" /\ bio.wr = "idle" /\ bio.given + len <= MaxGiven
    /\ LET x == [bio EXCEPT !.wlen = len]
       IN  bio' = IF len >= BufSize THEN Flushing([x EXCEPT !.wr = "before direct"])
                  ELSE IF Len(bio.wbuf) + len > BufSize THEN Flushing([x EXCEPT !.wr = "before buffer"])
                  ELSE Buffered(x, len)

Flush ==
    /\ bio.mode = "buffered" /\ bio.wr = "idle" /\ bio.wbuf # <<>>
    /\ bio' = Flushing([bio EXCEPT !.wr = "flush"])

\* The write of flush() is done.
Flushed ==
    /\ bio.wr \in {"before direct", "before buffer", "flush"}
    /\ \E x \in Sunk(bio, bio.wbuf) : bio' = AfterFlush(x)

\* The direct write is done; its caller learns how many bytes went out and
\* gives the others again.
DirectDone ==
    /\ bio.wr = "direct"
    /\ \E x \in Sunk(bio, Upto(bio.given, bio.wlen)) :
         bio' = [x EXCEPT !.wr = "idle", !.wlen = 0, !.given = @ + Len(x.sink) - Len(bio.sink)]

-----------------------------------------------------------------------------
\* copy: a block is read, then written; it ends with the reader.
CopyRead ==
    /\ bio.mode = "copy" /\ bio.wr = "idle" /\ ~bio.ended
    /\ \E n \in TakeRead(BufSize) :
         bio' = IF n = 0 THEN [bio EXCEPT !.ended = TRUE]
                ELSE [Took(bio, n) EXCEPT !.wr = "copy", !.wlen = n, !.got = @ \o Upto(bio.taken, n)]

CopyWrite ==
    /\ bio.wr = "copy"
    /\ \E x \in Sunk(bio, Upto(bio.given, bio.wlen)) :
         bio' = [x EXCEPT !.wr = "idle", !.given = @ + bio.wlen, !.wlen = 0]

ReadAll ==
    /\ bio.mode = "read_all" /\ ~bio.ended
    /\ \E n \in TakeRead(BufSize) :
         bio' = [Took(bio, n) EXCEPT !.got = @ \o Upto(bio.taken, n), !.ended = (n = 0)]

BioNext ==
       \/ \E len \in IoLens : Read(len) \/ Write(len)
       \/ ReadDirect \/ ReadRefill
       \/ Flush \/ Flushed \/ DirectDone
       \/ CopyRead \/ CopyWrite \/ ReadAll

BioSpec == BioInit /\ [][BioNext]_bio

-----------------------------------------------------------------------------
BioTypeOK ==
    /\ bio.rd \in {"idle", "direct", "refill"}
    /\ bio.wr \in {"idle", "direct", "before direct", "before buffer", "flush", "copy"}
    /\ bio.pos <= Len(bio.buf) /\ Len(bio.buf) <= BufSize /\ Len(bio.wbuf) <= BufSize

\* What has been read is the source's beginning, never past the limit of the
\* Take, and what the source gave and the caller does not have yet is in the
\* buffer; the end is told when everything was handed out.  What reached the
\* sink is in the order it was given, nothing twice, and with a sink that
\* takes all it is given, the sink and the buffer hold every byte accepted.
StreamsKept ==
    /\ bio.got \o SubSeq(bio.buf, bio.pos + 1, Len(bio.buf)) = Iota(bio.taken)
    /\ \E limit \in Limits : bio.taken + bio.rem = limit
    /\ bio.ended => /\ bio.pos = Len(bio.buf)
                    /\ bio.rem = 0 \/ bio.taken = SourceLen
                    /\ bio.mode = "copy" /\ bio.kind = "whole" => bio.sink = Iota(bio.taken)
    /\ LET out == bio.sink \o (IF bio.wr = "direct" \/ bio.mode = "copy" THEN <<>> ELSE bio.wbuf)
       IN  \A i, j \in 1 .. Len(out) : i < j => out[i] < out[j]
    /\ bio.kind = "whole" => bio.sink \o bio.wbuf = Iota(bio.given)

-----------------------------------------------------------------------------
(***************************************************************************)
(* AsyncFd and the sockets on it (TcpStream, UdpSocket): a descriptor      *)
(* registered once, edge-triggered, for both directions; readiness kept in *)
(* two flags and one waiter per direction.  The loop is one thread.        *)
(*                                                                         *)
(* afd.kind    "tcp", "udp" (recv_from, send_to), "raw" (a caller's fd)    *)
(* afd.backend  of the loop; afd.src: registered; afd.open: m_fd >= 0      *)
(* afd.flag[d]  m_readable, m_writable                                     *)
(* afd.op[d]   "idle", "parked" (its resolver is the waiter of d), "ready" *)
(* afd.what[d]  "io" (read, write, recv...) or "wait" (readable, writable) *)
(* afd.lev[d]  kernel: bytes to read, room to write; afd.edge[d] an edge   *)
(*   the                                                                   *)
(*             loop has not delivered                                      *)
(* afd.moved[d]  the operation captured this of an object moved from since *)
(* afd.taken   the number of the closed descriptor was given out again     *)
(* afd.res[d]  how the last operation ended                                *)
(***************************************************************************)

CONSTANTS FdKinds, FdBackends, MaxLevel, MaxMoves

VARIABLE afd

Dirs == {"r", "w"}
Each(v) == [d \in Dirs |-> v]

\* EPOLL_CTL_ADD refuses a descriptor that is registered, as that of a TCP
\* connection is by its xSocket; the other backends take it.
Registers(kind, backend) == kind = "tcp" => backend # "epoll"

\* A new registration reports what is ready.
Edges(s) == [d \in Dirs |-> s.src /\ s.lev[d] > 0]

AfdInit ==
       \E k \in FdKinds, b \in FdBackends, r \in 0 .. MaxLevel, w \in 0 .. MaxLevel :
          LET s == [kind |-> k, backend |-> b, src |-> Registers(k, b), open |-> TRUE,
                    flag |-> Each(FALSE), op |-> Each("idle"), what |-> Each("io"),
                    lev |-> ("r" :> r @@ "w" :> w), edge |-> Each(FALSE), moved |-> Each(FALSE),
                    taken |-> FALSE, res |-> Each("ok"), moves |-> 0]
          IN  afd = [s EXCEPT !.edge = Edges(s)]
-----------------------------------------------------------------------------
wake(s, d) ==
    IF s.op[d] = "parked" THEN [s EXCEPT !.flag[d] = FALSE, !.op[d] = "ready"] ELSE s

\* For each direction in the mask: the waiter is resolved, or else the flag set.
on_event(s, mask) ==
    [s EXCEPT !.flag = [d \in Dirs |-> IF d \in mask THEN s.op[d] # "parked" ELSE @[d]],
              !.op = [d \in Dirs |-> IF d \in mask /\ @[d] = "parked" THEN "ready" ELSE @[d]]]

\* The loop delivers: epoll one event with all that is ready, kqueue one for
\* each direction.
Event ==
    \E d \in Dirs :
       LET mask == IF afd.backend = "epoll" THEN {e \in Dirs : afd.lev[e] > 0} ELSE {d}
       IN  /\ afd.edge[d]
           /\ afd' = [on_event(afd, mask) EXCEPT
                        !.edge = [e \in Dirs |-> afd.backend # "epoll" /\ e # d /\ @[e]]]

\* The peer sent, or took what was sent.
Kernel ==
    \E d \in Dirs : /\ afd.open /\ afd.lev[d] < MaxLevel
                    /\ afd' = [afd EXCEPT !.lev[d] = @ + 1, !.edge[d] = afd.src]

\* readable() and writable(): a flag is used up; a closed object resolves at
\* once; else the resolver becomes the waiter.
readable(s, d) ==
    IF s.flag[d] THEN [s EXCEPT !.flag[d] = FALSE, !.op[d] = "ready"]
    ELSE IF ~ s.open THEN [s EXCEPT !.op[d] = "ready"]
    ELSE [s EXCEPT !.op[d] = "parked"]

\* The system call succeeds with some of what there is.
Some(s, d, n) == [s EXCEPT !.lev[d] = @ - n, !.op[d] = "idle", !.res[d] = "ok", !.moved[d] = FALSE]

\* read, write, recv, send, peek: the call is tried, EAGAIN waits.
read(s, d) ==
    IF s.lev[d] > 0 THEN {Some(s, d, n) : n \in 1 .. s.lev[d]}
    ELSE {readable([s EXCEPT !.what[d] = "io", !.moved[d] = FALSE, !.res[d] = "ok"], d)}

AfdRead ==
       \E d \in Dirs : /\ afd.open /\ afd.op[d] = "idle"
                       /\ afd' \in read(afd, d)

\* readable() called by the user.
Wait ==
    \E d \in Dirs : /\ afd.open /\ afd.op[d] = "idle"
                    /\ afd' = readable([afd EXCEPT !.what[d] = "wait", !.moved[d] = FALSE], d)

\* try_read, try_write.
TryRead ==
    \E d \in Dirs, n \in 1 .. MaxLevel :
       afd.open /\ n <= afd.lev[d] /\ afd' = [afd EXCEPT !.lev[d] = @ - n]

\* The continuation.  read() calls again once, on the descriptor it kept;
\* recv_from and send_to start over on the object they were called on.
Retry ==
    \E d \in Dirs :
       /\ afd.op[d] = "ready"
       /\ IF afd.what[d] = "wait" THEN afd' = [afd EXCEPT !.op[d] = "idle", !.what[d] = "io", !.moved[d] = FALSE]
          ELSE IF afd.kind = "udp"
          THEN IF afd.open /\ ~ afd.moved[d] THEN afd' \in read(afd, d)
               ELSE afd' = [afd EXCEPT !.op[d] = "idle", !.res[d] = "closed"]
          ELSE IF ~ afd.open
          THEN afd' = [afd EXCEPT !.op[d] = "idle",
                                  !.res[d] = IF afd.taken THEN "other" ELSE "closed"]
          ELSE IF afd.lev[d] = 0 THEN afd' = [afd EXCEPT !.op[d] = "idle", !.res[d] = "again"]
          ELSE \E n \in 1 .. afd.lev[d] : afd' = Some(afd, d, n)

\* The promise of an operation is dropped; its waiter is no longer pending.
AfdDropped == \E d \in Dirs : afd.op[d] # "idle" /\ afd' = [afd EXCEPT !.op[d] = "idle", !.what[d] = "io",
                                                                        !.moved[d] = FALSE]

\* The object is moved: flags and waiters go along, and the descriptor is
\* registered anew with the new address.
Move ==
    /\ afd.open /\ afd.moves < MaxMoves
    /\ afd' = [afd EXCEPT !.moves = @ + 1, !.edge = Edges(afd), !.moved = [d \in Dirs |-> afd.op[d] # "idle"]]

\* close(), also by the destructor: the registration is removed, the waiters
\* are resolved, and the owner closes the descriptor.
Close ==
    /\ afd.open
    /\ afd' = wake(wake([afd EXCEPT !.open = FALSE, !.src = FALSE, !.edge = Each(FALSE),
                                    !.lev = Each(0)], "r"), "w")

\* Somebody else opens a descriptor and gets the number.
Taken == ~ afd.open /\ ~ afd.taken /\ afd' = [afd EXCEPT !.taken = TRUE]

AfdNext == Event \/ Kernel \/ AfdRead \/ Wait \/ TryRead \/ Retry \/ AfdDropped \/ Move \/ Close \/ Taken

AfdSpec == AfdInit /\ [][AfdNext]_afd
-----------------------------------------------------------------------------
\* Nobody waits on a closed object, and a read or write that found nothing and
\* waits on a registered descriptor has nothing, or an edge is on its way: no
\* edge is used up by a flag the waiter does not see, nor lost by a move
\* (async_fd.h:153-258).
WaitersHeard ==
    \A d \in Dirs :
       afd.op[d] = "parked" =>
            /\ afd.open /\ ~ afd.flag[d]
            /\ afd.src /\ afd.what[d] = "io" /\ afd.lev[d] > 0 => afd.edge[d]

-----------------------------------------------------------------------------
(***************************************************************************)
(* The C++ File: a descriptor and a cursor owned by one object, its        *)
(* operations requests that a worker runs and the loop completes           *)
(* (FsAdapterBase over the file requests of Services).  A promise may be   *)
(* dropped before its operation completes, which cancels the request.      *)
(*                                                                         *)
(* file.file[h]  File object h: fd (0 for none), open, cursor; `nread`     *)
(*   counts                                                                *)
(*            the bytes read by cursor, `skips` says that some were not    *)
(*            the next ones                                                *)
(* file.op[i]  an operation under way: what it does, `this`, its fd and    *)
(*            offset, the file it is meant for, and where it is            *)
(* file.table  the system's descriptors: the file behind each, 0 for none  *)
(* file.lost  descriptors nobody can close any more                        *)
(* file.wrong  whether a request acted on another file than it was for     *)
(* file.careful  whether the caller leaves a File alone while one of its   *)
(*            operations is under way                                      *)
(***************************************************************************)

CONSTANTS Files,     \* File objects
          FileSlots,     \* operations that may be under way at once
          MaxFd,     \* descriptors the system gives out: 1 .. MaxFd
          MaxOpens,  \* bound on files opened
          MaxOff     \* bound on a cursor

VARIABLE file

Closed == [fd |-> 0, open |-> FALSE, cursor |-> 0, nread |-> 0, skips |-> FALSE]
NoOp   == [k |-> "none", this |-> "none", fd |-> 0, off |-> 0, on |-> 0, pc |-> "none", n |-> 0]

FileInit ==
        file \in [file : {[h \in Files |-> Closed]}, op : {[i \in FileSlots |-> NoOp]}, table : {[d \in 1 .. MaxFd |-> 0]},
                  opens : {0}, lost : {{}}, wrong : {FALSE}, careful : BOOLEAN]

Busy(h) == \E i \in FileSlots : file.op[i].k # "none" /\ file.op[i].this = h
Touches(h) == file.careful => ~Busy(h)

\* A request is submitted: the descriptor and the offset are taken now.
Submit(x, i, k, h, off) ==
    LET fd == x.file[h].fd
    IN  [x EXCEPT !.op[i] = [k |-> k, this |-> h, fd |-> fd, off |-> off,
                             on |-> IF fd = 0 THEN 0 ELSE x.table[fd], pc |-> "queued", n |-> 0]]

Free(i) == file.op[i].k = "none"
-----------------------------------------------------------------------------
\* File::open and create; the File of the promise is assigned to h.
Open(i, h) ==
    /\ Free(i) /\ Touches(h)
    /\ file' = [file EXCEPT !.op[i] = [NoOp EXCEPT !.k = "open", !.this = h, !.pc = "queued"]]

\* The cursor operations, refused by a closed File; read and write differ
\* only in the system call.
FileRead(i, h) ==
        /\ Free(i) /\ file.file[h].open /\ Touches(h)
        /\ file' = Submit(file, i, "read", h, file.file[h].cursor)

\* At an explicit offset; and sync_all, stat,
\* read_all, read_to_string, write_all: a function over the descriptor for a
\* worker.  No continuation of theirs uses the File.
Work(i, h) ==
    /\ Free(i) /\ file.file[h].fd # 0
    /\ file.careful => \A j \in FileSlots : file.op[j].this = h => file.op[j].k # "open"
    /\ file' = Submit(file, i, "work", h, 0)

\* close(): the File forgets the descriptor at once, the request closes it.
FileClose(i, h) ==
    /\ Free(i) /\ file.file[h].open /\ Touches(h)
    /\ file' = [Submit(file, i, "close", h, 0) EXCEPT !.file[h].fd = 0, !.file[h].open = FALSE]

-----------------------------------------------------------------------------
close_sync(x, h) ==
    IF x.file[h].open /\ x.file[h].fd # 0
    THEN [x EXCEPT !.table[x.file[h].fd] = 0, !.file[h].fd = 0, !.file[h].open = FALSE]
    ELSE [x EXCEPT !.file[h].fd = 0, !.file[h].open = FALSE]

\* Move assignment.
Assign(x, h, f) == [close_sync(x, h) EXCEPT !.file[h] = f]

FileMove(g, h) ==
        /\ g # h /\ file.file[g].open
        /\ Touches(g) /\ Touches(h)
        /\ file' = [Assign(file, h, file.file[g]) EXCEPT !.file[g] = Closed]

Destroy(h) ==
    /\ file.file[h].open /\ Touches(h)
    /\ file' = [close_sync(file, h) EXCEPT !.file[h] = Closed]
-----------------------------------------------------------------------------
LowestFree(x) == LET free == {d \in 1 .. MaxFd : x.table[d] = 0}
                 IN  CHOOSE d \in free : \A e \in free : d <= e

\* A worker runs the request.  A system call on a descriptor acts on whatever
\* is behind it by now.
RunOpen(i) ==
    /\ file.op[i].k = "open" /\ file.op[i].pc = "queued"
    /\ \/ file' = [file EXCEPT !.op[i].pc = "done"]                    \* File(-1)
       \/ /\ file.opens < MaxOpens
          /\ \E d \in 1 .. MaxFd : file.table[d] = 0
          /\ LET d == LowestFree(file)
             IN  file' = [file EXCEPT !.op[i].pc = "done", !.op[i].fd = d, !.op[i].on = file.opens + 1,
                                      !.table[d] = file.opens + 1, !.opens = @ + 1]

RunOther(i) ==
    LET q == file.op[i]
        behind == IF q.fd = 0 THEN 0 ELSE file.table[q.fd]
        w == [file EXCEPT !.op[i].pc = "done", !.wrong = @ \/ behind \notin {0, q.on}]
    IN  /\ q.k \notin {"none", "open"} /\ q.pc = "queued"
        /\ IF q.k = "close" THEN file' = [w EXCEPT !.table[q.fd] = 0]
           ELSE IF q.k = "work" THEN file' = [w EXCEPT !.op[i] = NoOp]
           ELSE \E n \in IF behind # 0 /\ q.off < MaxOff THEN {0, 1} ELSE {0} :
                  file' = [w EXCEPT !.op[i].n = n]

\* on_complete and the continuations after it, which use `this`.
OpenDone(i) ==
    LET q == file.op[i]
        f == [fd |-> q.fd, open |-> q.fd # 0, cursor |-> 0, nread |-> 0, skips |-> FALSE]
    IN  /\ q.k = "open" /\ q.pc = "done"
        /\ file' = [Assign(file, q.this, f) EXCEPT !.op[i] = NoOp]

Advance(x, q) ==
    IF q.k = "read" /\ q.n > 0
    THEN [x EXCEPT !.file[q.this].cursor = @ + q.n, !.file[q.this].nread = @ + q.n,
                   !.file[q.this].skips = @ \/ q.off # x.file[q.this].nread]
    ELSE x

OtherDone(i) ==
    /\ file.op[i].k \notin {"none", "open"} /\ file.op[i].pc = "done"
    /\ file' = [Advance(file, file.op[i]) EXCEPT !.op[i] = NoOp]

\* ~FsAdapterBase before it is done: the callback will not come.  A request
\* that no worker ran yet never runs.
Drop(i) ==
    LET q == file.op[i]
    IN  /\ q.k # "none"
        /\ file' = [file EXCEPT !.op[i] = NoOp,
                                !.lost = @ \cup (IF \/ q.k = "open" /\ q.fd # 0
                                                    \/ q.k = "close" /\ q.pc = "queued"
                                                 THEN {q.on} ELSE {})]

FileNext ==
        \/ \E i \in FileSlots :
              \/ \E h \in Files : Open(i, h) \/ FileRead(i, h) \/ Work(i, h) \/ FileClose(i, h)
              \/ RunOpen(i) \/ RunOther(i) \/ OpenDone(i) \/ OtherDone(i) \/ Drop(i)
        \/ \E h \in Files : Destroy(h) \/ \E g \in Files : FileMove(g, h)

FileSpec == FileInit /\ [][FileNext]_file
-----------------------------------------------------------------------------
FileTypeOK ==
    /\ \A h \in Files : file.file[h].fd \in 0 .. MaxFd /\ file.file[h].open \in BOOLEAN
    /\ \A i \in FileSlots : file.op[i].pc \in {"none", "queued", "done"}

Holds(h) == file.file[h].open
Carries(i) == file.op[i].fd # 0 /\ \/ file.op[i].k = "open" /\ file.op[i].pc = "done"
                                   \/ file.op[i].k = "close" /\ file.op[i].pc = "queued"

\* A descriptor is open exactly as long as somebody will close it: one File,
\* or the one request that brings or closes it, unless its promise was dropped
\* at the wrong time.  No two of them have it, so nothing is closed twice.
\* When the caller leaves a File alone during its operations, these act on the
\* file they were asked for, and the cursor is where the bytes read last end.
FdsOwned ==
    /\ \A d \in 1 .. MaxFd :
         LET owners == {h \in Files : Holds(h) /\ file.file[h].fd = d}
             ops    == {i \in FileSlots : Carries(i) /\ file.op[i].fd = d}
         IN  IF file.table[d] \in {0} \cup file.lost THEN owners = {} /\ ops = {}
             ELSE Cardinality(owners) + Cardinality(ops) = 1
    /\ file.careful => \A h \in Files : Holds(h) => ~file.file[h].skips
    /\ file.careful => ~file.wrong
=============================================================================
