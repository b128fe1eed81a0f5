------------------------------ MODULE CxxHttp -------------------------------
(***************************************************************************)
(* HTTP in libx++: the dispatch of the server to handlers and the bodies   *)
(* of the client, each with a state of its own.                            *)
(***************************************************************************)
EXTENDS Naturals, Sequences, FiniteSets, SequencesExt

-----------------------------------------------------------------------------
(***************************************************************************)
(* The C++ HTTP server over the C one: srv_on_request_cb composes and      *)
(* spawns a handler chain, on_data and on_done feed and end its body       *)
(* channel, on_close warns it that the stream goes.  A chain outlives its  *)
(* stream, and knows it only by the address of its ctx; the flags closed   *)
(* and destroyed are what keeps it from touching a freed one.  The C       *)
(* server (module HttpServer, over HTTP/1.1: one stream per connection,    *)
(* used again by the next request) is here what these callbacks see of it. *)
(*                                                                         *)
(* disp.ctx[c]  the stream at address c: st "free", "open" (no request),   *)
(*            "body" or "complete"; its request and whether it was         *)
(*              answered                                                   *)
(* disp.reqs[c]  m_reqs: the request whose state is kept under the address *)
(* disp.conns[c] m_conns: the request whose flag is                        *)
(* disp.q[i]  request i: its address, its chain, its body channel (tx and  *)
(*            the chunks in it), its closed flag, what was answered        *)
(***************************************************************************)

CONSTANTS Ctxs,        \* addresses of streams
          MaxRequests, \* bound on requests
          BodyCap,     \* capacity of the request body channel
          MaxChunks,   \* bound on the chunks of a body
          Reuses,      \* whether malloc gives a freed stream's address to the next one
                       \* while a chain still knows it: subset of BOOLEAN
          Early        \* whether handlers answer before they read the body: likewise

VARIABLE disp

Requests == 1 .. MaxRequests

NoStream == [st |-> "free", req |-> 0, sent |-> FALSE, keep |-> TRUE]
Unasked  == [ctx |-> "none", chain |-> "none", tx |-> "none", chunks |-> 0, fed |-> 0,
             closed |-> FALSE, out |-> "none"]

DispatchInit ==
            disp \in [ctx : {[c \in Ctxs |-> NoStream]}, reqs : {[c \in Ctxs |-> 0]},
                      conns : {[c \in Ctxs |-> 0]}, q : {[i \in Requests |-> Unasked]}, n : {0},
                      destroyed : {FALSE}, touched : {FALSE}, cut : {FALSE}, reuse : Reuses, early : Early]

Running(x, i) == x.q[i].chain \notin {"none", "done"}
Knows(x, c) == \E i \in Requests : Running(x, i) /\ x.q[i].ctx = c
-----------------------------------------------------------------------------
\* The map's entry goes, whoever it is of.
Erase(x, c) == [x EXCEPT !.conns[c] = 0]


srv_on_close_cb(x, c) ==
    IF x.conns[c] = 0 THEN x ELSE Erase([x EXCEPT !.q[x.conns[c]].closed = TRUE], c)

\* The connection ends: a stream with a route hears on_close, then is freed.
xHttpConnClose(x, c) ==
    LET told == IF x.ctx[c].st \in {"body", "complete"} THEN srv_on_close_cb(x, c) ELSE x
    IN  [told EXCEPT !.ctx[c] = NoStream]

\* An answer is out: the connection closes, or its stream is reset for the next
\* request, wherever the parser is in this one.
AfterResponse(x, c) ==
    IF ~x.ctx[c].keep THEN xHttpConnClose(x, c)
    ELSE [x EXCEPT !.ctx[c] = [NoStream EXCEPT !.st = "open"],
                   !.cut = @ \/ x.ctx[c].st = "body"]

-----------------------------------------------------------------------------
\* The peer connects.
Accept(c) ==
    /\ ~disp.destroyed /\ disp.ctx[c].st = "free" /\ (disp.reuse \/ ~Knows(disp, c))
    /\ disp' = [disp EXCEPT !.ctx[c].st = "open"]

\* m_reqs[ctx] is replaced, which drops the old sender; emplace keeps what
\* m_conns has.
srv_on_request_cb(c, keep) ==
    LET i == disp.n + 1
        x == IF disp.reqs[c] # 0 /\ disp.q[disp.reqs[c]].tx = "open"
             THEN [disp EXCEPT !.q[disp.reqs[c]].tx = "closed"] ELSE disp
    IN  /\ disp.ctx[c].st = "open" /\ i \in Requests
        /\ disp' = [x EXCEPT !.n = i, !.reqs[c] = i, !.conns[c] = IF @ = 0 THEN i ELSE @,
                             !.q[i] = [Unasked EXCEPT !.ctx = c, !.chain = "spawned", !.tx = "open"],
                             !.ctx[c] = [st |-> "body", req |-> i, sent |-> FALSE, keep |-> keep]]

\* A chunk for a full channel makes the server answer 413 and close.
srv_on_data_cb(c) ==
    LET i == disp.ctx[c].req
    IN  /\ disp.ctx[c].st = "body" /\ disp.q[i].fed < MaxChunks
        /\ disp' = IF disp.q[i].chunks < BodyCap
                   THEN [disp EXCEPT !.q[i].chunks = @ + 1, !.q[i].fed = @ + 1]
                   ELSE xHttpConnClose(disp, c)

srv_on_done_cb(c) ==
    /\ disp.ctx[c].st = "body"
    /\ disp' = [disp EXCEPT !.ctx[c].st = "complete", !.reqs[c] = 0, !.q[disp.ctx[c].req].tx = "closed"]

\* The peer leaves, or the idle timer fires.
Disconnect(c) ==
    /\ disp.ctx[c].st # "free"
    /\ disp' = xHttpConnClose(disp, c)

-----------------------------------------------------------------------------
\* The chain of request i runs in later turns of the loop.  Its handler
\* answers, or reads its body to the end first.
Handler(i) ==
    /\ disp.q[i].chain = "spawned"
    /\ \E to \in {"reading"} \cup (IF disp.early THEN {"answered"} ELSE {}) :
         disp' = [disp EXCEPT !.q[i].chain = to]

ReadBody(i) ==
    /\ disp.q[i].chain = "reading"
    /\ \/ disp.q[i].chunks > 0 /\ disp' = [disp EXCEPT !.q[i].chunks = @ - 1]
       \/ disp.q[i].chunks = 0 /\ disp.q[i].tx = "closed" /\ disp' = [disp EXCEPT !.q[i].chain = "answered"]

Gone(x, i) == x.destroyed \/ x.q[i].closed

\* The ctx is used, whether it is still there or not.
Touch(x, i) ==
    [x EXCEPT !.touched = @ \/ x.ctx[x.q[i].ctx].req # i]

Drop(x, i) == Erase([x EXCEPT !.q[i].chain = "done"], x.q[i].ctx)

\* xHttpCtxSend: refused where an answer was sent; else out it goes.
Sent(x, i) ==
    LET c == x.q[i].ctx
        y == [Touch(x, i) EXCEPT !.q[i].out = "full"]
    IN  IF x.ctx[c].req # i \/ x.ctx[c].sent THEN Touch(x, i) ELSE AfterResponse(y, c)

\* An error or a body at hand is sent at once; a channel body is streamed.
write_response(i) ==
    /\ disp.q[i].chain = "answered"
    /\ \/ Gone(disp, i) /\ disp' = Drop(disp, i)
       \/ ~Gone(disp, i) /\ disp' = Drop(Sent(disp, i), i)
       \/ ~Gone(disp, i) /\ disp' = [Touch(disp, i) EXCEPT !.q[i].chain = "streaming"]

\* Each chunk of it: the flags are looked at after the wait, xHttpCtxWrite
\* gives up keeping the connection, and the end closes it.
stream_channel_body(i) ==
    LET c == disp.q[i].ctx
    IN  /\ disp.q[i].chain = "streaming"
        /\ \/ Gone(disp, i) /\ disp' = Drop(disp, i)
           \/ /\ ~Gone(disp, i)
              /\ disp' = [Touch(disp, i) EXCEPT !.ctx[c].keep = @ /\ disp.ctx[c].req # i,
                                                !.q[i].out = "part"]
           \/ /\ ~Gone(disp, i)
              /\ disp' = LET y == [Touch(disp, i) EXCEPT !.q[i].out = "full"]
                         IN  Drop(IF disp.ctx[c].req = i THEN AfterResponse(y, c) ELSE y, i)

\* ~Server: the flag, then every connection closes.
Destroy ==
    /\ ~disp.destroyed
    /\ disp' = [disp EXCEPT !.destroyed = TRUE, !.ctx = [c \in Ctxs |-> NoStream],
                            !.conns = [c \in Ctxs |-> IF disp.ctx[c].st \in {"body", "complete"} THEN 0 ELSE @[c]],
                            !.reqs = [c \in Ctxs |-> 0],
                            !.q = [i \in Requests |->
                                     [@[i] EXCEPT !.closed = @ \/ \E c \in Ctxs : disp.conns[c] = i /\ disp.ctx[c].req = i,
                                                  !.tx = IF @ = "open" THEN "closed" ELSE @]]]

DispatchNext ==
            \/ \E c \in Ctxs : \/ Accept(c) \/ srv_on_data_cb(c) \/ srv_on_done_cb(c) \/ Disconnect(c)
                               \/ \E keep \in BOOLEAN : srv_on_request_cb(c, keep)
            \/ \E i \in Requests : Handler(i) \/ ReadBody(i) \/ write_response(i) \/ stream_channel_body(i)
            \/ Destroy

DispatchSpec == DispatchInit /\ [][DispatchNext]_disp
-----------------------------------------------------------------------------
DispatchTypeOK ==
    /\ disp.n \in 0 .. MaxRequests
    /\ \A c \in Ctxs : disp.ctx[c].st \in {"free", "open", "body", "complete"}
    /\ \A i \in Requests : disp.q[i].tx \in {"none", "open", "closed"} /\ disp.q[i].chunks <= BodyCap

\* Where a freed address stays unused while a chain knows it: no chain touches
\* a stream that is freed or serves another request; the flag of every chain
\* that may still touch its stream is in the map, so that on_close finds it;
\* and a handler that reads its body to the end never ends it early: the
\* channel is closed by on_done or together with the stream.
DispatchRight ==
    disp.reuse \/
         /\ ~disp.touched
         /\ \A i \in Requests :
              Running(disp, i) /\ ~Gone(disp, i) => disp.ctx[disp.q[i].ctx].req = i /\ disp.conns[disp.q[i].ctx] = i
         /\ \A c \in Ctxs : disp.conns[c] # 0 => Running(disp, disp.conns[c]) /\ ~disp.q[disp.conns[c]].closed
         /\ ~disp.early => ~disp.cut

-----------------------------------------------------------------------------
(***************************************************************************)
(* A request of the C++ HTTP client: Client::send with its SendAdapter,    *)
(* the callbacks the C client (module HttpClient) makes, and the Body the  *)
(* answer is read through, fed by a channel and slowed down by it.  The    *)
(* bytes of the answer are numbered from 1 and come in chunks.             *)
(*                                                                         *)
(* body.send  "idle", "flying", or how the promise was resolved: "ok",     *)
(*            "status" (an error status), "failed"; `times` counts         *)
(* body.adapter  "none", "live" or "deleted"                               *)
(* body.up    bytes of the request body still to be pulled                 *)
(* body.chan  chunks in the channel, body.tx whether it is open            *)
(* body.held  the chunk the C client keeps while the transfer is paused    *)
(* body.came  bytes of the answer that arrived; body.end how the transfer  *)
(*            ended                                                        *)
(* body.rd    the reader: "idle", "waiting" in recv, "eof" or "error"      *)
(* body.pending  rest of a chunk larger than the reader's buffer           *)
(***************************************************************************)

CONSTANTS UpLens,    \* lengths of request bodies
          PullLens,  \* sizes of the C client's upload buffer
          ChunkLens, \* lengths of chunks
          ReadLens,  \* lengths of reads
          ChanCap,   \* capacity of the channel
          MaxCame    \* bound on the answer's length

VARIABLE body

Iota(from, n) == [k \in 1 .. n |-> from + k]
Lesser(m, n) == IF m < n THEN m ELSE n

BodyInit ==
        body = [send |-> "idle", times |-> 0, adapter |-> "none", up |-> 0, headers_done |-> FALSE,
                discard |-> FALSE, chan |-> <<>>, tx |-> "none", held |-> <<>>, came |-> 0,
                end |-> "none", xfer_error |-> FALSE, rd |-> "none", rlen |-> 0, pending |-> <<>>,
                got |-> <<>>]

Resolve(x, how) == [x EXCEPT !.send = how, !.times = @ + 1]

\* A channel body, an empty URL and CONNECT are refused before anything is
\* made; a refused submission deletes the adapter.
SendRefused ==
    /\ body.send = "idle"
    /\ body' = Resolve(body, "failed")

SendFails ==
    /\ body.send = "idle"
    /\ body' = [Resolve(body, "failed") EXCEPT !.adapter = "deleted"]

Send(len) ==
    /\ body.send = "idle"
    /\ body' = [body EXCEPT !.send = "flying", !.adapter = "live", !.up = len, !.tx = "open"]

Flying == body.adapter = "live" /\ body.end = "none"

on_read_cb(bufsize) ==
    /\ Flying /\ ~body.headers_done /\ body.up > 0
    /\ body' = [body EXCEPT !.up = @ - Lesser(@, bufsize)]

\* The headers are there.  An answer with an error status has no body for the
\* caller; with any other the promise has its Response, whose body streams.
on_response_cb(status) ==
    /\ Flying /\ ~body.headers_done
    /\ body' = IF status = "error"
               THEN [Resolve(body, "status") EXCEPT !.headers_done = TRUE, !.discard = TRUE]
               ELSE [Resolve(body, "ok") EXCEPT !.headers_done = TRUE, !.rd = "idle"]

\* A recv that waits takes the chunk in a later turn.
Offered(x, chunk) ==
    IF x.discard THEN x
    ELSE IF Len(x.chan) < ChanCap THEN [x EXCEPT !.chan = Append(@, chunk), !.held = <<>>]
    ELSE [x EXCEPT !.held = chunk]

\* A chunk from the network; none comes while the transfer is paused.
on_data_cb(len) ==
    /\ Flying /\ body.headers_done /\ body.held = <<>> /\ body.came + len <= MaxCame
    /\ body' = [Offered(body, Iota(body.came, len)) EXCEPT !.came = @ + len]

\* The transfer ends; a paused one only by failing.
Ended(x, ok) ==
    LET z == [x EXCEPT !.end = IF ok THEN "done" ELSE "failed", !.tx = "closed",
                       !.adapter = "deleted", !.held = <<>>]
    IN  IF z.send = "flying" THEN Resolve(z, "failed")
        ELSE [z EXCEPT !.xfer_error = ~ok /\ z.send = "ok"]

on_done_cb(ok) ==
    /\ Flying
    /\ ok => body.headers_done /\ body.held = <<>>
    /\ body' = Ended(body, ok)

-----------------------------------------------------------------------------
\* xHttpClientResume, with the adapter it was given for: the chunk kept is
\* offered again.
on_drain(x) ==
    IF x.adapter # "deleted" /\ x.held # <<>> THEN Offered(x, x.held) ELSE x

\* What is left of the last chunk first, else recv.
Read(len) ==
    /\ body.rd = "idle"
    /\ LET n == Lesser(len, Len(body.pending))
       IN  body' = IF body.pending # <<>>
                   THEN [body EXCEPT !.got = @ \o SubSeq(body.pending, 1, n),
                                     !.pending = SubSeq(@, n + 1, Len(@))]
                   ELSE [body EXCEPT !.rd = "waiting", !.rlen = len]


take_chunk ==
    LET chunk == Head(body.chan)
        n     == Lesser(body.rlen, Len(chunk))
    IN  /\ body.rd = "waiting" /\ body.chan # <<>>
        /\ body' = on_drain([body EXCEPT !.chan = Tail(@), !.rd = "idle", !.rlen = 0,
                                         !.got = @ \o SubSeq(chunk, 1, n),
                                         !.pending = SubSeq(chunk, n + 1, Len(chunk))])

channel_eof ==
    /\ body.rd = "waiting" /\ body.chan = <<>> /\ body.tx = "closed"
    /\ body' = [body EXCEPT !.rd = IF body.xfer_error THEN "error" ELSE "eof", !.rlen = 0]

BodyNext ==
        \/ SendRefused \/ SendFails
        \/ \E len \in UpLens : Send(len)
        \/ \E n \in PullLens : on_read_cb(n)
        \/ \E status \in {"error", "other"} : on_response_cb(status)
        \/ \E len \in ChunkLens : on_data_cb(len)
        \/ \E ok \in BOOLEAN : on_done_cb(ok)
        \/ \E len \in ReadLens : Read(len)
        \/ take_chunk \/ channel_eof

BodySpec == BodyInit /\ [][BodyNext]_body
-----------------------------------------------------------------------------
BodyTypeOK ==
    /\ body.send \in {"idle", "flying", "ok", "status", "failed"}
    /\ body.adapter \in {"none", "live", "deleted"}
    /\ body.rd \in {"none", "idle", "waiting", "eof", "error"} /\ Len(body.chan) <= ChanCap

\* The promise of a request is resolved once, at the latest when the transfer
\* ends.  What the reader got, with the rest of its chunk, the channel and the
\* chunk kept back, is the answer as far as it came; the reader hears the end
\* only after all of a transfer that succeeded, and an error if it failed.
AnswerKept ==
    /\ body.times <= 1 /\ (body.times = 0) = (body.send \in {"idle", "flying"})
    /\ body.adapter = "deleted" => body.times = 1
    /\ body.send = "ok" /\ body.end # "failed" =>
            body.got \o body.pending \o FlattenSeq(body.chan) \o body.held = Iota(0, body.came)
    /\ body.got = Iota(0, Len(body.got))
    /\ body.rd = "eof" => body.end = "done" /\ body.got = Iota(0, body.came)
    /\ body.rd = "waiting" /\ body.held # <<>> => body.chan # <<>>
=============================================================================
