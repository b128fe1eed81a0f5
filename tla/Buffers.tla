------------------------------ MODULE Buffers -------------------------------
(***************************************************************************)
(* The byte containers of src/libx/x/buf: ring (ring.c), growing buffer    *)
(* (buf.c), chained blocks (io.c) and string (string.c), each with a state *)
(* of its own.                                                             *)
(***************************************************************************)
EXTENDS Naturals, Sequences, SequencesExt, FiniteSetsExt

-----------------------------------------------------------------------------
(***************************************************************************)
(* xRingBuffer: a ring of bytes between two cursors that only grow and     *)
(* wrap with the word.                                                     *)
(*                                                                         *)
(* ring.head, ring.tail  the cursors, modulo Word; ring.data the bytes of  *)
(* the ring ring.ref     the bytes written and not read; ring.next the     *)
(* next byte                                                               *)
(***************************************************************************)

CONSTANTS RingCap,     \* cap, a power of two (next_pow2)
          Word,        \* the cursors' modulus, a multiple of RingCap
          MaxByte      \* byte values, used again after the last

VARIABLE ring

Byte(n, i) == ((n + i - 1) % MaxByte) + 1

RingInit == ring = [head |-> 0, tail |-> 0, data |-> [i \in 0 .. RingCap - 1 |-> 0],
                    ref |-> <<>>, next |-> 0]

-----------------------------------------------------------------------------
xRingBufferLen(s) == (s.head + Word - s.tail) % Word

\* Two copies around the wrap; what does not fit is left.  Also
\* xRingBufferReadFd, whose vectors are these two pieces.
xRingBufferWrite ==
    \E len \in 1 .. RingCap :
       LET n == IF len > RingCap - xRingBufferLen(ring) THEN RingCap - xRingBufferLen(ring) ELSE len
           pos == ring.head % RingCap
       IN  /\ n > 0
           /\ ring' = [ring EXCEPT
                   !.data = [i \in 0 .. RingCap - 1 |->
                               LET k == (i + RingCap - pos) % RingCap
                               IN  IF k < n THEN Byte(ring.next, k) ELSE @[i]],
                   !.ref = @ \o [i \in 1 .. n |-> Byte(ring.next, i - 1)],
                   !.head = (@ + n) % Word, !.next = (@ + n) % MaxByte]

ring_copy_out(s, len) ==
    LET n == IF len > xRingBufferLen(s) THEN xRingBufferLen(s) ELSE len
        pos == s.tail % RingCap
    IN  [i \in 1 .. n |-> s.data[(pos + i - 1) % RingCap]]

\* xRingBufferRead, xRingBufferDiscard and xRingBufferWriteFd.
xRingBufferRead ==
    /\ \E len \in 1 .. xRingBufferLen(ring) :
          ring' = [ring EXCEPT !.tail = (@ + len) % Word, !.ref = SubSeq(@, len + 1, Len(@))]

xRingBufferReset ==
    ring' = [ring EXCEPT !.head = 0, !.tail = 0, !.ref = <<>>]

RingNext == xRingBufferWrite \/ xRingBufferRead \/ xRingBufferReset

RingSpec == RingInit /\ [][RingNext]_ring

-----------------------------------------------------------------------------
\* The ring gives back exactly the bytes put in, in order, wherever the
\* cursors have wrapped (ring.c:115-188).
RingInOrder ==
    /\ xRingBufferLen(ring) = Len(ring.ref) /\ xRingBufferLen(ring) <= RingCap
    /\ ring_copy_out(ring, RingCap) = ring.ref

-----------------------------------------------------------------------------
(***************************************************************************)
(* xBuffer: a linear buffer between a read and a write position that       *)
(* compacts, or doubles, to make room.                                     *)
(*                                                                         *)
(* buf.rpos, buf.wpos, buf.cap, buf.data  the fields of xBuffer_           *)
(* buf.ref       the bytes appended and not consumed; buf.next the next    *)
(***************************************************************************)

CONSTANTS MinCap,      \* the initial capacity
          MaxBufCap    \* the largest buffer

VARIABLE buf


BufInit == buf = [rpos |-> 0, wpos |-> 0, cap |-> MinCap,
                  data |-> [i \in 0 .. MaxBufCap - 1 |-> 0], ref |-> <<>>, next |-> 0]

-----------------------------------------------------------------------------
RECURSIVE buf_next_cap(_, _)
buf_next_cap(c, needed) == IF c >= needed THEN c ELSE buf_next_cap(2 * c, needed)

\* The unread bytes slid to the front.
xBufferCompact(s) ==
    LET n == s.wpos - s.rpos
    IN  [s EXCEPT !.data = [i \in 0 .. MaxBufCap - 1 |->
                              IF i < n THEN s.data[s.rpos + i] ELSE s.data[i]],
                  !.rpos = 0, !.wpos = n]

\* The compaction that would make room is tried only when the buffer is too
\* small for it to.
buf_grow(s, needed) ==
    IF needed <= s.cap THEN s
    ELSE IF s.rpos > 0 /\ s.wpos - s.rpos + needed <= s.cap THEN xBufferCompact(s)
    ELSE [s EXCEPT !.cap = buf_next_cap(s.cap, needed)]

Put(s, n) ==
    [s EXCEPT !.data = [i \in 0 .. MaxBufCap - 1 |->
                          IF i >= s.wpos /\ i < s.wpos + n THEN Byte(s.next, i - s.wpos) ELSE @[i]],
              !.wpos = @ + n, !.next = (@ + n) % MaxByte,
              !.ref = @ \o [i \in 1 .. n |-> Byte(s.next, i - 1)]]

xBufferAppend ==
    /\ \E n \in 1 .. MinCap :
          LET s == buf_grow(buf, buf.wpos + n)
          IN  s.cap <= MaxBufCap /\ buf' = Put(s, n)

\* xBufferReserve compacts first; xBufferReadFd then fills what there is.
xBufferReserve ==
    /\ \E n \in 1 .. MinCap :
          LET s == xBufferCompact(buf)
              w == buf_grow(s, s.wpos + n)
          IN  w.cap <= MaxBufCap /\ buf' = w

xBufferReadFd ==
    /\ \E n \in 1 .. buf.cap - buf.wpos : buf' = Put(buf, n)

\* xBufferConsume, xBufferWriteFd.
xBufferConsume ==
    /\ \E n \in 1 .. buf.wpos - buf.rpos :
          buf' = IF n = buf.wpos - buf.rpos THEN [buf EXCEPT !.rpos = 0, !.wpos = 0, !.ref = <<>>]
                 ELSE [buf EXCEPT !.rpos = @ + n, !.ref = SubSeq(@, n + 1, Len(@))]

BufNext == xBufferAppend \/ xBufferReserve \/ xBufferReadFd \/ xBufferConsume

BufSpec == BufInit /\ [][BufNext]_buf

-----------------------------------------------------------------------------
\* The buffer holds exactly the bytes put in and not consumed, in order,
\* however it has moved them (buf.c:47-75, 106-196).
BufInOrder ==
    /\ buf.rpos <= buf.wpos /\ buf.wpos <= buf.cap
    /\ [i \in 1 .. buf.wpos - buf.rpos |-> buf.data[buf.rpos + i - 1]] = buf.ref

-----------------------------------------------------------------------------
(***************************************************************************)
(* xIOBuffer: byte strings made of slices of reference-counted blocks that *)
(* buffers share after a cut, for two buffers (io.c).                      *)
(*                                                                         *)
(* iob.refs[q]  the slices [b, o, n] of buffer q: block, offset, length    *)
(* iob.nb[q]  io->nbytes; iob.cnt[b] the block's references; iob.data[b]   *)
(*   bytes                                                                 *)
(* iob.ref[q]  the bytes that q was given and has not lost                 *)
(* iob.next  the next byte value appended; iob.spoilt: an append wrote     *)
(*   into                                                                  *)
(*            bytes of a block that another slice covers                   *)
(***************************************************************************)

CONSTANTS BlockSize,   \* XIOBUFFER_BLOCK_SIZE
          Blocks,      \* blocks, numbers from 1
          MaxIoByte      \* bytes ever appended

VARIABLE iob

Bufs == {"a", "b"}
EmptyBlock == [i \in 1 .. BlockSize |-> 0]

IoInit == iob = [refs |-> [q \in Bufs |-> <<>>], nb |-> [q \in Bufs |-> 0],
                 cnt |-> [b \in Blocks |-> 0], data |-> [b \in Blocks |-> EmptyBlock],
                 ref |-> [q \in Bufs |-> <<>>], next |-> 1, spoilt |-> FALSE]

Other(q) == IF q = "a" THEN "b" ELSE "a"

\* xIOBlockAcquire: a block of the pool, or a new one.
Fresh(s) == Min({b \in Blocks : s.cnt[b] = 0})
Room(s) == \E b \in Blocks : s.cnt[b] = 0

xIOBlockRelease(s, b) ==
    [s EXCEPT !.cnt[b] = @ - 1, !.data[b] = IF s.cnt[b] = 1 THEN EmptyBlock ELSE @]

iobuf_push_ref(s, q, b, o, n) ==
    [s EXCEPT !.refs[q] = Append(@, [b |-> b, o |-> o, n |-> n])]

\* Bytes from s.next on written to a block from offset o.
Fill(s, b, o, n) ==
    [s EXCEPT !.data[b] = [i \in 1 .. BlockSize |->
                             IF i > o /\ i <= o + n THEN s.next + i - o - 1 ELSE @[i]],
              !.next = @ + n]

\* The slice of another buffer, or another slice, over those bytes.
Covered(s, b, o, n) ==
    \E q \in Bufs : \E i \in 1 .. Len(s.refs[q]) :
       LET r == s.refs[q][i] IN r.b = b /\ r.o < o + n /\ o < r.o + r.n

\* The rest of the tail block, and then a new block (of one at most: the
\* bounds leave no more).
Room1(s, q) ==
    IF s.refs[q] = <<>> THEN 0 ELSE LET r == Last(s.refs[q]) IN BlockSize - (r.o + r.n)

ToTail(s, q, n) ==
    LET m == Len(s.refs[q])
        r == s.refs[q][m]
        w == Fill(s, r.b, r.o + r.n, n)
    IN  IF n = 0 THEN s
        ELSE [w EXCEPT !.refs[q][m].n = @ + n, !.nb[q] = @ + n,
                       !.ref[q] = @ \o [i \in 1 .. n |-> s.next + i - 1],
                       !.spoilt = @ \/ Covered(s, r.b, r.o + r.n, n)]

ToBlock(s, q, n) ==
    LET b == Fresh(s)
        w == iobuf_push_ref(Fill([s EXCEPT !.cnt[b] = 1], b, 0, n), q, b, 0, n)
    IN  IF n = 0 THEN s
        ELSE [w EXCEPT !.nb[q] = @ + n, !.ref[q] = @ \o [i \in 1 .. n |-> s.next + i - 1]]

xIOBufferAppend(q) ==
    \E n \in 1 .. BlockSize :
       LET k == Min({n, Room1(iob, q)})
           s == ToTail(iob, q, k)
       IN  /\ iob.next + n - 1 <= MaxIoByte /\ (k < n => Room(s))
           /\ iob' = ToBlock(s, q, n - k)

\* One read fills the tail block's rest, or a new block, never both.
xIOBufferReadFd(q) ==
    \E n \in 1 .. BlockSize :
       /\ iob.next + n - 1 <= MaxIoByte
       /\ IF Room1(iob, q) > 0 THEN n <= Room1(iob, q) /\ iob' = ToTail(iob, q, n)
          ELSE Room(iob) /\ iob' = ToBlock(iob, q, n)

\* Ownership of every slice moves.
xIOBufferAppendIOBuffer(q) ==
    /\ iob.refs[Other(q)] # <<>>
    /\ iob' = [iob EXCEPT !.refs = [p \in Bufs |-> IF p = q THEN iob.refs[q] \o iob.refs[Other(q)] ELSE <<>>],
                          !.nb = [p \in Bufs |-> IF p = q THEN iob.nb[q] + iob.nb[Other(q)] ELSE 0],
                          !.ref = [p \in Bufs |-> IF p = q THEN iob.ref[q] \o iob.ref[Other(q)] ELSE <<>>]]

\* The first n bytes: whole slices are released, the last one shortened.
RECURSIVE Dropped(_, _, _)
Dropped(s, q, n) ==
    IF n = 0 \/ s.refs[q] = <<>> THEN s
    ELSE LET r == Head(s.refs[q]) IN
         IF r.n <= n
         THEN Dropped(xIOBlockRelease([s EXCEPT !.refs[q] = Tail(@), !.nb[q] = @ - r.n], r.b),
                      q, n - r.n)
         ELSE [s EXCEPT !.refs[q][1] = [r EXCEPT !.o = @ + n, !.n = @ - n], !.nb[q] = @ - n]

\* xIOBufferConsume, and xIOBufferRead and the writes, which end in it.
xIOBufferConsume(q) ==
    \E n \in 1 .. iob.nb[q] :
       iob' = [Dropped(iob, q, n) EXCEPT !.ref[q] = SubSeq(@, n + 1, Len(@))]

\* The boundary slice: its block is shared by both buffers.
Split(s, q, r, n) ==
    [iobuf_push_ref(s, Other(q), r.b, r.o, n) EXCEPT
       !.cnt[r.b] = @ + 1,
       !.refs[q][1] = [r EXCEPT !.o = @ + n, !.n = @ - n]]

RECURSIVE CutOff(_, _, _)
CutOff(s, q, n) ==
    IF n = 0 \/ s.refs[q] = <<>> THEN s
    ELSE LET r == Head(s.refs[q]) IN
         IF r.n <= n
         THEN CutOff([iobuf_push_ref(s, Other(q), r.b, r.o, r.n) EXCEPT !.refs[q] = Tail(@)],
                     q, n - r.n)
         ELSE Split(s, q, r, n)

xIOBufferCut(q) ==
    \E n \in 1 .. iob.nb[q] :
       LET s == CutOff(iob, q, n)
       IN  iob' = [s EXCEPT !.nb[q] = @ - n, !.nb[Other(q)] = @ + n,
                            !.ref[q] = SubSeq(@, n + 1, Len(@)),
                            !.ref[Other(q)] = @ \o SubSeq(iob.ref[q], 1, n)]

\* xIOBufferReset and xIOBufferDeinit.
xIOBufferReset(q) ==
    /\ iob.refs[q] # <<>>
    /\ iob' = [Dropped(iob, q, iob.nb[q]) EXCEPT !.ref[q] = <<>>]

IoNext == \E q \in Bufs : \/ xIOBufferAppend(q) \/ xIOBufferReadFd(q) \/ xIOBufferCut(q)
                          \/ xIOBufferAppendIOBuffer(q) \/ xIOBufferConsume(q)
                          \/ xIOBufferReset(q)

IoSpec == IoInit /\ [][IoNext]_iob

-----------------------------------------------------------------------------
\* xIOBufferCopyTo: what a reader of q finds.
xIOBufferCopyTo(q) ==
    FoldLeft(LAMBDA acc, r : acc \o SubSeq(iob.data[r.b], r.o + 1, r.o + r.n), <<>>, iob.refs[q])

Slices(b) == UNION {{<<q, i>> : i \in {j \in 1 .. Len(iob.refs[q]) : iob.refs[q][j].b = b}} : q \in Bufs}

\* A block's count is the number of slices over it, so that it goes back to
\* the pool with its last one and never before; every slice lies within its
\* block and is not empty; the cached length is the slices'; and a buffer
\* holds the bytes it was given, in order, as long as nobody appended into a
\* shared block (io.c:72-82, 147-173, 233-422).
BlocksHeld ==
    /\ \A b \in Blocks : iob.cnt[b] = Cardinality(Slices(b))
    /\ \A q \in Bufs :
          /\ \A i \in 1 .. Len(iob.refs[q]) :
                LET r == iob.refs[q][i] IN r.n > 0 /\ r.o + r.n <= BlockSize
          /\ iob.nb[q] = FoldLeft(LAMBDA acc, r : acc + r.n, 0, iob.refs[q])
          /\ ~iob.spoilt => xIOBufferCopyTo(q) = iob.ref[q]

-----------------------------------------------------------------------------
(***************************************************************************)
(* xString, the growing NUL-terminated string: a header with len and cap   *)
(* before the bytes.  A failed allocation leaves the old string.           *)
(*                                                                         *)
(* str.len, str.cap  the header; str.data the bytes, the NUL (0) among     *)
(* them str.ref      the bytes the string stands for; str.next the next    *)
(* byte str.stuck      the growth loop of xstring_ensure does not end      *)
(***************************************************************************)

CONSTANTS StrMin,      \* XSTRING_MIN_CAP
          StrStep,     \* 1 MB: below it the capacity doubles
          MaxStr,      \* bound: the largest capacity
          MaxStrByte      \* byte values, used again after the last

VARIABLE str

StrByte(n, i) == ((n + i - 1) % MaxStrByte) + 1

\* xstring_alloc: the least capacity is StrMin.
StrInit == str = [len |-> 0, cap |-> StrMin, data |-> [i \in 0 .. MaxStr |-> 0],
                  ref |-> <<>>, next |-> 0, stuck |-> FALSE]

\* The loop doubles, and adds a step from StrStep on; doubling nothing goes
\* on for ever.
RECURSIVE NewCap(_, _)
NewCap(cap, needed) ==
    IF cap >= needed THEN cap
    ELSE IF cap < StrStep THEN NewCap(2 * cap, needed)
    ELSE NewCap(IF cap + StrStep < needed THEN needed ELSE cap + StrStep, needed)

Hangs(t, add) == t.cap = 0 /\ t.cap < t.len + add + 1

xstring_ensure(t, add) ==
    IF t.cap >= t.len + add + 1 THEN t ELSE [t EXCEPT !.cap = NewCap(@, t.len + add + 1)]

StrPut(t, n) == [t EXCEPT !.data = [i \in 0 .. MaxStr |->
                                      IF i >= t.len /\ i < t.len + n THEN StrByte(t.next, i - t.len)
                                      ELSE IF i = t.len + n THEN 0 ELSE t.data[i]],
                          !.len = @ + n, !.next = (@ + n) % MaxStrByte,
                          !.ref = @ \o [i \in 1 .. n |-> StrByte(t.next, i - 1)]]

Fits(t) == t.cap <= MaxStr

\* xStringAppendLen; xStringAppend measures first.
xStringAppendLen ==
    \E n \in 1 .. 3 :
       IF Hangs(str, n) THEN str' = [str EXCEPT !.stuck = TRUE]
       ELSE LET t == xstring_ensure(str, n) IN Fits(t) /\ str' = StrPut(t, n)

\* The text is printed into the room there is, cut off with its NUL; what
\* does not fit is printed again after the growth, which may fail.
xStringAppendFormat ==
    \E n \in 1 .. 3, fails \in BOOLEAN :
       LET avail == str.cap - str.len
           cut   == [StrPut(str, IF n <= avail THEN n ELSE avail) EXCEPT !.len = str.len, !.ref = str.ref, !.next = str.next]
       IN  IF n <= avail THEN ~fails /\ str' = StrPut(str, n)
           ELSE IF Hangs(str, n) THEN str' = [str EXCEPT !.stuck = TRUE]
           ELSE IF fails THEN str' = cut
           ELSE LET t == xstring_ensure(cut, n) IN Fits(t) /\ str' = StrPut(t, n)

\* xStringTruncate and xStringClear.
xStringTruncate ==
    \E n \in 0 .. str.len :
       str' = [str EXCEPT !.len = n, !.data[n] = 0, !.ref = SubSeq(@, 1, n)]

xStringGrow == \E n \in 1 .. 3 :
    IF Hangs(str, n) THEN str' = [str EXCEPT !.stuck = TRUE]
    ELSE LET t == xstring_ensure(str, n) IN Fits(t) /\ str' = t

\* The bytes past the NUL are given back.
xStringShrinkToFit == str' = [str EXCEPT !.cap = str.len,
                                         !.data = [i \in 0 .. MaxStr |-> IF i <= str.len THEN str.data[i] ELSE 0]]

StrNext == /\ ~str.stuck
           /\ \/ xStringAppendLen \/ xStringAppendFormat \/ xStringTruncate
              \/ xStringGrow \/ xStringShrinkToFit
StrSpec == StrInit /\ [][StrNext]_str

-----------------------------------------------------------------------------
\* The string holds what was appended, its NUL inside the memory it has
\* (cap + 1 bytes), whatever was grown, cut and shrunk (string.c:51-229).
StringHolds ==
    /\ str.len <= str.cap
    /\ [i \in 1 .. str.len |-> str.data[i - 1]] = str.ref
=============================================================================
