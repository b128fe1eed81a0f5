------------------------------ MODULE Dlproxy -------------------------------
(***************************************************************************)
(* The download proxy: its cache on disk, the scheduler between players    *)
(* and fetches, and playlists, each with a state of its own.               *)
(***************************************************************************)
EXTENDS Integers, Sequences, FiniteSets, SequencesExt

-----------------------------------------------------------------------------
(***************************************************************************)
(* dlproxy's chunk cache, one clip: blocks of pieces, the bitmap set       *)
(* before an asynchronous write is dispatched, the .meta file that         *)
(* persists it, and what a crash or a restart between any two steps leaves *)
(* behind.                                                                 *)
(*                                                                         *)
(* cache.open  the clip is open in a living process                        *)
(* cache.total  total_size, 0 when unknown; cache.bc: block_count          *)
(* cache.block  the blocks that exist: size, done, dirty, pieces           *)
(* cache.writes  writes in flight: their range and whether the disk has it *)
(* cache.disk  bytes of the data file that hold what was written           *)
(* cache.meta  the .meta file: absent, cut short, or a header and bitmaps  *)
(* cache.handed  bytes ever accepted by dlp_cache_write, in any life       *)
(* cache.clean  the pieces when the last life ended with nothing in flight *)
(***************************************************************************)

CONSTANTS FileSize,      \* the size of the file, in bytes
          PieceSize,     \* DL_PIECE_SIZE
          BlockPieces,   \* DL_PIECES_PER_BLOCK
          UnknownCount,  \* block_count of a clip whose size is not known
          MaxChunk,      \* the longest chunk written
          MaxWrites,     \* writes accepted in a behaviour
          MaxLives       \* times the process starts

VARIABLE cache

BlockSize == PieceSize * BlockPieces
CeilDiv(a, b) == (a + b - 1) \div b
LeastOf(a, b) == IF a < b THEN a ELSE b

NoBits == [i \in {} |-> {}]

CacheInit == cache = [open |-> FALSE, total |-> 0, bc |-> 0, block |-> NoBits,
                      writes |-> {}, disk |-> {}, meta |-> [is |-> "absent"],
                      handed |-> {}, clean |-> [is |-> "none"], n |-> 0, lives |-> 0,
                      sized |-> TRUE]

-----------------------------------------------------------------------------
\* Blocks.
PieceCount(b) == CeilDiv(b.size, PieceSize)

dlp_block_check_done(b) ==
    [b EXCEPT !.done = @ \/ 0 .. (PieceCount(b) - 1) \subseteq b.pieces]

dlp_block_mark_range(b, boff, len) ==
    LET end == LeastOf((boff + len - 1) \div PieceSize, PieceCount(b) - 1)
        new == boff \div PieceSize .. end
    IN  dlp_block_check_done([b EXCEPT !.pieces = @ \cup new, !.dirty = @ \/ new # {}])

\* A block just made: the last one is shorter when the size is known.
NewBlock(total, bno) ==
    LET rem == total - bno * BlockSize
    IN  [size |-> IF total > 0 /\ rem > 0 /\ rem < BlockSize THEN rem ELSE BlockSize,
         done |-> FALSE, dirty |-> FALSE, pieces |-> {}]

dlp_block_ensure(c, bno) ==
    IF bno \in DOMAIN c.block THEN c
    ELSE [c EXCEPT !.bc = IF bno < @ THEN @ ELSE 2 * @,
                   !.block = [i \in DOMAIN @ \cup {bno} |->
                                IF i = bno THEN NewBlock(c.total, bno) ELSE @[i]]]

-----------------------------------------------------------------------------
\* The .meta file.
Pieces(c, i) == IF i \in DOMAIN c.block THEN c.block[i].pieces ELSE {}

AllDone(c) == \A i \in 0 .. c.bc - 1 : i \in DOMAIN c.block /\ c.block[i].done

meta_save(c) ==
    [is |-> "whole", bc |-> c.bc, ts |-> c.total,
     bits |-> [i \in 0 .. c.bc - 1 |-> Pieces(c, i)]]

\* A file of another shape is removed; one whose clip is complete also.
meta_load(c) ==
    IF c.meta.is # "whole" THEN c
    ELSE IF c.meta.bc # c.bc \/ c.meta.ts # c.total
    THEN [c EXCEPT !.meta = [is |-> "absent"]]
    ELSE LET l == [c EXCEPT !.block = [i \in 0 .. c.bc - 1 |->
                     dlp_block_check_done([NewBlock(c.total, i)
                                             EXCEPT !.pieces = c.meta.bits[i]])]]
         IN  IF AllDone(l) THEN [l EXCEPT !.meta = [is |-> "absent"]] ELSE l

\* The size is the one of the file or not known yet.
dlp_cache_open_clip(size) ==
    /\ ~cache.open /\ cache.lives < MaxLives
    /\ cache' = meta_load([cache EXCEPT !.open = TRUE, !.total = size, !.lives = @ + 1,
                                !.sized = size > 0, !.block = NoBits,
                                !.bc = IF size = 0 THEN UnknownCount ELSE CeilDiv(size, BlockSize)])

\* total_size changes, block_count does not; only the last block is re-sized.
dlp_cache_set_file_size ==
    /\ cache.open
    /\ LET c == [cache EXCEPT !.total = FileSize]
           k == (FileSize - 1) \div BlockSize
       IN  cache' = IF k \in DOMAIN c.block
                    THEN [c EXCEPT !.block[k] = dlp_block_check_done(
                                       [@ EXCEPT !.size = FileSize - k * BlockSize])]
                    ELSE c

-----------------------------------------------------------------------------
\* Marks the pieces of [off, off + len), block by block.
RECURSIVE MarkRange(_, _, _)
MarkRange(c, pos, end) ==
    IF pos >= end THEN c
    ELSE LET bno   == pos \div BlockSize
             boff  == pos % BlockSize
             chunk == LeastOf(BlockSize - boff, end - pos)
             e     == dlp_block_ensure(c, bno)
         IN  MarkRange([e EXCEPT !.block[bno] = dlp_block_mark_range(@, boff, chunk)],
                       pos + chunk, end)

\* The bitmap is updated first; the dispatch may fail after that.
dlp_cache_write(off, len) ==
    /\ cache.open /\ cache.n < MaxWrites
    /\ \E ok \in BOOLEAN :
         cache' = [MarkRange(cache, off, off + len) EXCEPT
                     !.n = @ + 1,
                     !.handed = @ \cup (off .. off + len - 1),
                     !.writes = IF ok THEN @ \cup {[off |-> off, len |-> len, at |-> "worker"]}
                                ELSE @]

\* A worker of the file system pool writes, or fails to.
Written(w, ok) ==
    /\ w.at = "worker"
    /\ cache' = [cache EXCEPT !.writes = (@ \ {w}) \cup {[w EXCEPT !.at = "done"]},
                              !.disk = IF ok THEN @ \cup (w.off .. w.off + w.len - 1) ELSE @]

\* Only a block that is done is worth a save, yet every flag is cleared.
on_write_done_blocks(w) ==
    /\ w.at = "done"
    /\ LET c == [cache EXCEPT !.writes = @ \ {w}]
           s == [c EXCEPT !.meta = IF \E i \in DOMAIN c.block : c.block[i].dirty /\ c.block[i].done
                                   THEN meta_save(c) ELSE @,
                          !.block = [i \in DOMAIN @ |-> [@[i] EXCEPT !.dirty = FALSE]]]
       IN  cache' = IF AllDone(s) THEN [s EXCEPT !.meta = [is |-> "absent"]] ELSE s

\* All bitmaps are saved when any is dirty; a complete clip loses its .meta.
on_write_done(w) ==
    /\ w.at = "done"
    /\ LET c == [cache EXCEPT !.writes = @ \ {w}]
           s == IF \E i \in DOMAIN c.block : c.block[i].dirty
                THEN [c EXCEPT !.meta = meta_save(c),
                               !.block = [i \in DOMAIN @ |-> [@[i] EXCEPT !.dirty = FALSE]]]
                ELSE c
       IN  cache' = IF AllDone(s) THEN [s EXCEPT !.meta = [is |-> "absent"]] ELSE s

\* The end of the process: what is on the disk stays.  A restart that finds
\* nothing in flight and nothing unsaved is remembered as clean.
Dies(meta) ==
    cache' = [cache EXCEPT !.open = FALSE, !.writes = {}, !.block = NoBits, !.meta = meta,
                    !.clean = IF /\ cache.writes = {} /\ cache.sized
                                 /\ \A i \in DOMAIN cache.block : ~cache.block[i].dirty
                              THEN [is |-> "clean", all |-> AllDone(cache),
                                    bits |-> [i \in 0 .. cache.bc - 1 |-> Pieces(cache, i)]]
                              ELSE [is |-> "none"]]

Crash == cache.open /\ Dies(cache.meta)

\* The .meta file was truncated for writing and not written.
CrashInSave == /\ cache.open /\ Dies([is |-> "short"])
               /\ \E w \in cache.writes : w.at = "done"

CacheNext ==
         \/ \E size \in {0, FileSize} : dlp_cache_open_clip(size)
         \/ dlp_cache_set_file_size
         \/ \E off \in 0 .. FileSize - 1, len \in 1 .. MaxChunk :
               off + len <= FileSize /\ dlp_cache_write(off, len)
         \/ \E w \in cache.writes : on_write_done(w) \/ \E ok \in BOOLEAN : Written(w, ok)
         \/ Crash \/ CrashInSave

CacheSpec == CacheInit /\ [][CacheNext]_cache

-----------------------------------------------------------------------------
Ready(c) == {i \in DOMAIN c.block : c.block[i].done}

\* dlp_cache_is_ready answers 1 only for blocks every piece of which some
\* accepted write touched, in this life or, through the .meta file, in an
\* earlier one (cache.c:49-72, 172-264, 546-562).
ReadyHanded ==
    \A i \in Ready(cache) : \A p \in 0 .. PieceCount(cache.block[i]) - 1 :
       \E x \in cache.handed : x \div BlockSize = i /\ (x % BlockSize) \div PieceSize = p

\* A clip of known size that was closed with nothing in flight and blocks
\* still missing is reopened with exactly the pieces it had
\* (cache.c:123-264, 417-443).
ResumedStep ==
    ~cache.open /\ cache'.open /\ cache'.sized /\ cache.clean.is = "clean" /\ ~cache.clean.all
           => \A i \in 0 .. cache'.bc - 1 : Pieces(cache', i) = cache.clean.bits[i]

-----------------------------------------------------------------------------
(***************************************************************************)
(* dlproxy around its cache: a task with its MP4 or HLS scheduler, the     *)
(* downloads it starts, the bus, and the player's requests that wait for   *)
(* them.  A unit is a block of the MP4 clip or a segment of the playlist;  *)
(* it arrives in Chunks chunks.  Every unit has its own bus key under HLS; *)
(* the blocks of an MP4 share one.  Allocation failures are left out.      *)
(*                                                                         *)
(* proxy.t  the task: live, listed (in task_map), running, at (read_offset *)
(*          or read_segment), remain (remain_time in units), pulling,      *)
(*          down (downloading_off or downloading_seg), list (the playlist) *)
(* proxy.got  the chunks of each unit the bitmap claims; proxy.size: known *)
(*   sizes                                                                 *)
(* proxy.f  the fetch contexts: at none, on or freed; ok (status_ok), sent *)
(*          (chunks from the network), recv, pend, all                     *)
(* proxy.req  the player's requests: where each is and the unit it wants   *)
(* proxy.subs  the subscribers of each bus key, newest first               *)
(***************************************************************************)

CONSTANTS Units,       \* 0 .. n, the blocks or segments
          Chunks,      \* chunks of a unit
          Requests,    \* requests of the player
          Fetches,     \* fetch contexts
          Emergency,   \* emergency_ms in units
          Safe         \* safe_ms in units

VARIABLE proxy

None == -1             \* (uint64_t)-1, (uint32_t)-1: no download in progress

NoFetch == [at |-> "none", u |-> None, ok |-> FALSE, sent |-> 0, recv |-> 0,
            pend |-> 0, all |-> TRUE]

Key(q, u) == IF q.fmt = "mp4" THEN 0 ELSE u

\* dlp_task_create.
ProxyInit ==
         proxy \in [fmt : {"mp4", "hls"},
                    t : {[live |-> TRUE, listed |-> TRUE, running |-> FALSE, at |-> 0,
                          remain |-> 0, pulling |-> FALSE, down |-> None, list |-> "none"]},
                    got : {[u \in Units |-> {}]},
                    size : {[u \in Units |-> 0]},
                    f : {[i \in Fetches |-> NoFetch]},
                    req : {[r \in Requests |-> [at |-> "idle", u |-> None]]},
                    subs : {[u \in Units |-> <<>>]},
                    stale : {FALSE}]

-----------------------------------------------------------------------------
\* The cache.  An MP4 block is as long as its range; the size of a segment is
\* known when its fetch has ended.
dlp_cache_is_ready(q, u) ==
    /\ u \in Units
    /\ LET n == IF q.fmt = "mp4" THEN Chunks ELSE q.size[u]
       IN  n > 0 /\ 1 .. n \subseteq q.got[u]

Ahead(q) == {u \in Units : \A v \in q.t.at .. u : dlp_cache_is_ready(q, v)}
Cached(q) == Cardinality({u \in Ahead(q) : u >= q.t.at})

-----------------------------------------------------------------------------
\* The bus.
dlp_bus_subscribe(q, r) ==
    [q EXCEPT !.subs[Key(q, q.req[r].u)] = <<r>> \o @, !.req[r].at = "sub"]

\* A read that finds the data not ready is not dispatched: nobody answers.
on_chunk_ready(q, r) ==
    [q EXCEPT !.req[r].at = IF dlp_cache_is_ready(q, q.req[r].u) THEN "read" ELSE "lost"]

\* The list is detached before its subscribers are called.
dlp_bus_publish(q, k) ==
    FoldLeft(on_chunk_ready, [q EXCEPT !.subs[k] = <<>>], q.subs[k])

-----------------------------------------------------------------------------
\* Downloads.  xHttpClientDo may refuse; the context is then leaked.
dlp_http_fetch(q, u, ok) ==
    LET i == CHOOSE i \in Fetches : q.f[i].at # "on"
    IN  IF ~ok THEN q
        ELSE [q EXCEPT !.f[i] = [NoFetch EXCEPT !.at = "on", !.u = u, !.all = FALSE]]

Room(q) == \E i \in Fetches : q.f[i].at # "on"

should_pull(q, remain) == remain < Emergency \/ (remain < Safe /\ q.t.pulling)

mp4_on_tick(q, ok) ==
    IF ~should_pull(q, q.t.remain) THEN [q EXCEPT !.t.pulling = FALSE]
    ELSE IF dlp_cache_is_ready(q, q.t.at) THEN [q EXCEPT !.t.pulling = TRUE]
    ELSE IF q.t.down = q.t.at THEN q
    ELSE dlp_http_fetch([q EXCEPT !.t.down = q.t.at, !.t.pulling = TRUE], q.t.at, ok)

\* The playlist is fetched first; then the first segment that is not cached.
hls_on_tick(q, ok) ==
    IF q.t.list # "have"
    THEN [q EXCEPT !.t.list = IF @ # "none" THEN @ ELSE IF ok THEN "fetching" ELSE "stuck"]
    ELSE LET s    == [q EXCEPT !.t.remain = Cached(q)]
             miss == {u \in Units : u >= q.t.at /\ ~dlp_cache_is_ready(q, u)}
             u    == CHOOSE u \in miss : \A v \in miss : u <= v
         IN  IF ~should_pull(s, s.t.remain) THEN [s EXCEPT !.t.pulling = FALSE]
             ELSE IF miss = {} THEN [s EXCEPT !.t.pulling = FALSE]
             ELSE LET c == [s EXCEPT !.t.pulling = @ \/ u > q.t.at] IN
                  IF c.t.down = u THEN c
                  ELSE dlp_http_fetch([c EXCEPT !.t.down = u, !.t.pulling = TRUE], u, ok)

Sched(q, ok) == [ (IF q.fmt = "mp4" THEN mp4_on_tick(q, ok) ELSE hls_on_tick(q, ok))
                  EXCEPT !.stale = @ \/ ~q.t.live ]

\* MP4 leaves 0, the first block, where dlp_task_start has (uint64_t)-1.
mp4_on_block_done(q, u) ==
    LET s == [q EXCEPT !.t.down = IF @ = u THEN 0 ELSE @]
    IN  [s EXCEPT !.t.remain = Cached(s)]

hls_on_block_done(q) == [q EXCEPT !.t.down = None]

\* Publication, the scheduler's turn, and the end of the context.
Finish(q, i) ==
    LET b == dlp_bus_publish(q, Key(q, q.f[i].u))
        s == IF q.fmt = "mp4" THEN mp4_on_block_done(b, q.f[i].u) ELSE hls_on_block_done(b)
    IN  [s EXCEPT !.f[i] = [NoFetch EXCEPT !.at = "freed", !.pend = q.f[i].pend,
                                           !.all = q.f[i].all],
                  !.stale = @ \/ ~q.t.live]

on_http_response(i) ==
    /\ proxy.f[i].at = "on" /\ ~proxy.f[i].all /\ proxy.f[i].sent = 0 /\ ~proxy.f[i].ok
    /\ proxy' = [proxy EXCEPT !.f[i].ok = TRUE]

\* The cache takes the chunk at offset + received, marks it, and dispatches the
\* write, or refuses it; then the chunk is skipped.
on_http_data(i) ==
    LET f == proxy.f[i] IN
    /\ f.at = "on" /\ ~f.all /\ f.ok /\ f.sent < Chunks
    /\ \E w \in {"ok", "marked", "refused"} :
         proxy' = [proxy EXCEPT !.f[i].sent = @ + 1,
                         !.f[i].recv = IF w = "ok" THEN @ + 1 ELSE @,
                         !.f[i].pend = IF w = "ok" THEN @ + 1 ELSE @,
                         !.got[f.u] = IF w = "refused" THEN @ ELSE @ \cup {f.recv + 1}]

\* The transfer ends: whole, or cut short anywhere.
on_http_done(i) ==
    LET f == proxy.f[i]
        s == [proxy EXCEPT !.f[i].all = TRUE,
                           !.size[f.u] = IF proxy.fmt = "hls" /\ f.recv > 0 THEN f.recv ELSE @]
    IN  /\ f.at = "on" /\ ~f.all
        /\ proxy' = IF f.pend = 0 THEN Finish(s, i) ELSE s

on_fetch_write_done(i) ==
    /\ proxy.f[i].pend > 0
    /\ LET s == [proxy EXCEPT !.f[i].pend = @ - 1]
       IN  proxy' = IF s.f[i].pend = 0 /\ s.f[i].all THEN Finish(s, i) ELSE s

on_m3u8_done ==
    /\ proxy.t.list = "fetching"
    /\ \E r \in {"none", "have"} : proxy' = [proxy EXCEPT !.t.list = r, !.stale = @ \/ ~proxy.t.live]

-----------------------------------------------------------------------------
\* The proxy.
Serve(r, u) ==
    LET q == [proxy EXCEPT !.t.at = u, !.req[r].u = u, !.stale = @ \/ ~proxy.t.live] IN
    IF dlp_cache_is_ready(q, u) THEN [q EXCEPT !.req[r].at = "read"]
    ELSE dlp_bus_subscribe(q, r)

\* serve_mp4 ticks a task that is stopped as well.
serve_mp4(r, u) ==
    /\ proxy.fmt = "mp4" /\ proxy.t.listed /\ proxy.req[r].at = "idle" /\ Room(proxy)
    /\ LET q == Serve(r, u) IN
       IF q.req[r].at = "read" THEN proxy' = q
       ELSE \E ok \in BOOLEAN : proxy' = Sched(q, ok)

serve_segment(r, u) ==
    /\ proxy.fmt = "hls" /\ proxy.t.listed /\ proxy.req[r].at = "idle" /\ Room(proxy)
    /\ LET q == Serve(r, u) IN
       IF q.req[r].at = "read" \/ ~q.t.running THEN proxy' = q
       ELSE \E ok \in BOOLEAN : proxy' = Sched(q, ok)

serve_m3u8(r) ==
    /\ proxy.fmt = "hls" /\ proxy.t.listed /\ proxy.req[r].at = "idle"
    /\ IF proxy.t.list = "have" THEN proxy' = [proxy EXCEPT !.req[r].at = "ok", !.stale = @ \/ ~proxy.t.live]
       ELSE \E ok \in BOOLEAN :
            proxy' = [(IF proxy.t.running THEN Sched(proxy, ok) ELSE proxy) EXCEPT !.req[r].at = "error"]

on_cache_read_done(r) ==
    /\ proxy.req[r].at = "read"
    /\ \E e \in {"ok", "error"} : proxy' = [proxy EXCEPT !.req[r].at = e]

-----------------------------------------------------------------------------
\* The task.
dlp_task_start ==
    proxy.t.live /\ ~proxy.t.running
    /\ proxy' = [proxy EXCEPT !.t.running = TRUE, !.t.pulling = FALSE, !.t.down = None]

on_tick == proxy.t.running /\ Room(proxy) /\ \E ok \in BOOLEAN : proxy' = Sched(proxy, ok)

\* A download in flight goes on.
dlp_task_stop == proxy.t.live /\ proxy.t.running /\ proxy' = [proxy EXCEPT !.t.running = FALSE]

dlp_task_update_position(u, remain) ==
    proxy.t.live /\ proxy' = [proxy EXCEPT !.t.at = u, !.t.remain = remain]

\* The task leaves url_map, not task_map.
dlp_task_destroy ==
    proxy.t.live /\ proxy' = [proxy EXCEPT !.t.running = FALSE, !.t.live = FALSE]

ProxyNext ==
         \/ \E i \in Fetches : \/ on_http_response(i) \/ on_http_data(i)
                               \/ on_http_done(i) \/ on_fetch_write_done(i)
         \/ on_m3u8_done \/ on_tick
         \/ \E r \in Requests : \/ serve_m3u8(r) \/ on_cache_read_done(r)
                                \/ \E u \in Units : serve_mp4(r, u) \/ serve_segment(r, u)
         \/ dlp_task_start \/ dlp_task_stop \/ dlp_task_destroy
         \/ \E u \in Units, remain \in {0, Safe} : dlp_task_update_position(u, remain)

ProxySpec == ProxyInit /\ [][ProxyNext]_proxy

-----------------------------------------------------------------------------
\* A fetch context is freed once, after the transfer has ended and every write
\* it dispatched has completed, whichever of the two callbacks comes last
\* (http.c:38-53, 99-125).
FetchFreedLast == \A i \in Fetches : proxy.f[i].at = "freed" => proxy.f[i].pend = 0 /\ proxy.f[i].all

\* A deferred request hangs on exactly one subscription, that of its key; one
\* that is being read, is answered or was dropped hangs on none, so no request
\* is answered twice (bus.c:41-80, proxy.c:107-140).
RequestHeldOnce ==
    \A r \in Requests : \A k \in Units :
       Cardinality({j \in DOMAIN proxy.subs[k] : proxy.subs[k][j] = r})
         = IF proxy.req[r].at = "sub" /\ k = Key(proxy, proxy.req[r].u) THEN 1 ELSE 0

-----------------------------------------------------------------------------
(***************************************************************************)
(* hls_parse_playlist: the line-by-line parser of an HLS playlist, and     *)
(* resolve_uri.  A line is a record of its kind and its value; the         *)
(* parser's state (m3u.s) is what it has when the line is consumed,        *)
(* m3u.lines are the lines so far.  A base URL is its scheme, host and     *)
(* path tokens.                                                            *)
(***************************************************************************)

CONSTANTS MaxLines,    \* lines of a playlist after #EXTM3U
          Wrap,        \* 2^64 in the model: byte offsets are modulo Wrap
          MaxTokens    \* tokens of a path

VARIABLE m3u

Omitted == Wrap - 1    \* (uint64_t)-1

Tag(k, v) == [k |-> k, v |-> v]
Lines == {Tag("inf", 0), Tag("range", 5), Tag("range", Omitted), Tag("stream", 0),
          Tag("stream", 3),
          Tag("seq", 7), Tag("uri", 1), Tag("uri", 2), Tag("other", 0)}

RangeLen == 2          \* the length in every #EXT-X-BYTERANGE

Start == [segs |-> <<>>, vars |-> <<>>, dur |-> FALSE, range |-> FALSE, off |-> 0,
          len |-> 0, seq |-> 0, media |-> 0]

Segment(s, uri, range) ==
    [seq |-> s.seq, uri |-> uri, range |-> range, off |-> IF range THEN s.off ELSE 0,
     len |-> IF range THEN s.len ELSE 0]

\* A URI: of the last variant if it still lacks one, or a segment.  Only a
\* segment with #EXTINF takes the pending byte range.
UriLine(s, uri) ==
    IF s.vars # <<>> /\ s.vars[Len(s.vars)] = 0
    THEN [s EXCEPT !.vars[Len(s.vars)] = uri]
    ELSE IF s.dur
    THEN [s EXCEPT !.segs = Append(@, Segment(s, uri, s.range)), !.seq = @ + 1,
                   !.dur = FALSE, !.range = FALSE, !.off = 0, !.len = 0]
    ELSE [s EXCEPT !.segs = Append(@, Segment(s, uri, FALSE)), !.seq = @ + 1]

hls_parse_line(s, l) ==
    CASE l.k = "inf"    -> [s EXCEPT !.dur = TRUE]
      [] l.k = "range"  -> [s EXCEPT !.range = TRUE, !.off = l.v, !.len = RangeLen]
      [] l.k = "stream" -> [s EXCEPT !.vars = Append(@, l.v)]
      [] l.k = "seq"    -> [s EXCEPT !.media = l.v, !.seq = l.v]
      [] l.k = "uri"    -> UriLine(s, l.v)
      [] l.k = "other"  -> s

\* After the last line: an omitted offset follows the last earlier segment of
\* the same URI, or is 0.  The first segment is not looked at.
RECURSIVE Continue(_, _)
Continue(segs, i) ==
    IF i > Len(segs) THEN segs
    ELSE IF ~(segs[i].range /\ segs[i].off = Omitted) THEN Continue(segs, i + 1)
    ELSE LET same == {j \in 1 .. i - 1 : segs[j].uri = segs[i].uri}
             j    == CHOOSE x \in same : \A y \in same : y <= x
             o    == IF same = {} THEN 0 ELSE (segs[j].off + segs[j].len) % Wrap
         IN  Continue([segs EXCEPT ![i].off = IF o = Omitted THEN 0 ELSE o], i + 1)

hls_parse_playlist(s) == Continue(s.segs, 2)

-----------------------------------------------------------------------------
Tokens == {"/", "a"}
Paths == UNION {[1 .. n -> Tokens] : n \in 0 .. MaxTokens}
Bases == {<<"http", "://", "host">> \o x : x \in {y \in Paths : y = <<>> \/ y[1] = "/"}}

LastSlash(b) == {i \in 4 .. Len(b) : b[i] = "/" /\ \A j \in i + 1 .. Len(b) : b[j] # "/"}

\* The path from the first slash on, instead of up to the last one.
resolve_uri_root(uri, b) ==
    SubSeq(b, 1, IF Len(b) > 3 THEN 4 ELSE 3) \o uri

\* uri has no scheme of its own.
resolve_uri(uri, b) ==
    IF Len(uri) >= 2 /\ uri[1] = "/" /\ uri[2] = "/" THEN <<"http", ":">> \o uri
    ELSE IF uri # <<>> /\ uri[1] = "/" THEN SubSeq(b, 1, 3) \o uri
    ELSE IF LastSlash(b) = {} THEN b \o <<"/">> \o uri
    ELSE SubSeq(b, 1, CHOOSE i \in LastSlash(b) : TRUE) \o uri

PlaylistInit == m3u = [lines |-> <<>>, s |-> Start, uri |-> <<>>, base |-> <<>>, got |-> <<>>]

PlaylistNext ==
            \/ /\ Len(m3u.lines) < MaxLines /\ m3u.base = <<>>
               /\ \E l \in Lines : m3u' = [m3u EXCEPT !.lines = Append(@, l),
                                                      !.s = hls_parse_line(@, l)]
            \/ /\ m3u.lines = <<>> /\ m3u.base = <<>>
               /\ \E u \in Paths, b \in Bases :
                    m3u' = [m3u EXCEPT !.uri = u, !.base = b, !.got = resolve_uri(u, b)]

PlaylistSpec == PlaylistInit /\ [][PlaylistNext]_m3u

-----------------------------------------------------------------------------
UriAt == {i \in DOMAIN m3u.lines : m3u.lines[i].k = "uri"}
\* A variant's URI: its #EXT-X-STREAM-INF has none inline, and neither another
\* URI nor another variant is between the two.
OfVariant(i) == \E j \in 1 .. i - 1 : /\ m3u.lines[j] = Tag("stream", 0)
                                      /\ \A k \in j + 1 .. i - 1 : k \notin UriAt /\ m3u.lines[k].k # "stream"
SegAt == {i \in UriAt : ~OfVariant(i)}
Timed(i) == \E j \in 1 .. i - 1 : m3u.lines[j].k = "inf" /\ \A k \in j + 1 .. i - 1 : k \notin SegAt
\* The range a segment is to have: the last one announced since the previous
\* segment with a duration.
Ranges(i) == {j \in 1 .. i - 1 : /\ m3u.lines[j].k = "range"
                                 /\ \A k \in j + 1 .. i - 1 : ~(k \in SegAt /\ Timed(k))}
NthSeg(n) == CHOOSE i \in SegAt : Cardinality({j \in SegAt : j < i}) = n - 1
Seqs(i) == {j \in 1 .. i - 1 : m3u.lines[j].k = "seq"}

\* Every URI line is a segment or a variant's, in order; a segment carries the
\* number that #EXT-X-MEDIA-SEQUENCE and its place give it, and the byte range
\* announced for it; an omitted offset continues the last segment of the same
\* URI (m3u8.c:202-415).
SegmentsRight ==
    LET segs == hls_parse_playlist(m3u.s) IN
    /\ Len(segs) = Cardinality(SegAt)
    /\ \A n \in 1 .. Len(segs) :
         LET i == NthSeg(n)  g == segs[n]  from == Seqs(i) IN
         /\ g.uri = m3u.lines[i].v
         /\ g.seq = IF from = {} THEN n - 1
                    ELSE LET j == CHOOSE x \in from : \A y \in from : y <= x
                         IN  7 + Cardinality({k \in SegAt : k > j /\ k < i})
         /\ g.range = (Timed(i) /\ Ranges(i) # {})
         /\ g.range /\ n > 1 =>
              LET j    == CHOOSE x \in Ranges(i) : \A y \in Ranges(i) : y <= x
                  same == {k \in 1 .. n - 1 : segs[k].uri = g.uri}
                  k    == CHOOSE x \in same : \A y \in same : y <= x
              IN  g.off = IF m3u.lines[j].v # Omitted THEN m3u.lines[j].v
                          ELSE IF same = {} THEN 0
                          ELSE (segs[k].off + segs[k].len) % Wrap

\* A reference resolves as in RFC 3986 without dot segments: a network path
\* keeps the scheme, an absolute path the host, a relative one the directory
\* (m3u8.c:96-170).
ResolvedRight ==
    m3u.base # <<>> =>
        LET host == SubSeq(m3u.base, 1, 3)
            path == SubSeq(m3u.base, 4, Len(m3u.base))
            dirs == {n \in 1 .. Len(path) : path[n] = "/"}
            keep == IF dirs = {} THEN <<"/">>
                    ELSE SubSeq(path, 1, CHOOSE n \in dirs : \A k \in dirs : k <= n)
        IN  m3u.got = IF Len(m3u.uri) > 1 /\ SubSeq(m3u.uri, 1, 2) = <<"/", "/">> THEN <<"http", ":">> \o m3u.uri
                      ELSE IF m3u.uri # <<>> /\ m3u.uri[1] = "/" THEN host \o m3u.uri
                      ELSE host \o keep \o m3u.uri

PlaylistRight == SegmentsRight /\ ResolvedRight
=============================================================================
