---- MODULE HttpServer ----
(***************************************************************************)
(* One connection of the HTTP server: the accept, the socket event handler *)
(* and the response life cycle of libx/x/http/server.c over the HTTP/1.1   *)
(* protocol of proto_h1.c and the HTTP/2 protocol of proto_h2.c.           *)
(*                                                                         *)
(* The record c holds the connection, its stream objects and what is       *)
(* observed of it.  A handler is an operator from records to records, put  *)
(* together the way the code calls its functions; w is what the kernel     *)
(* says to the writes of one handler ("all" taken, "block" for EAGAIN, or  *)
(* "error", which then stays).  HTTP/1.1 reuses stream object 1 for every  *)
(* request, HTTP/2 gives request k the object k.  A piece of an answer is  *)
(* a pair <<request, part>>.  An application answers from on_done or       *)
(* later, never from on_request, and asks for one answer per request.      *)
(***************************************************************************)
EXTENDS Naturals, Sequences, SequencesExt

CONSTANTS
    MaxReq,       \* requests on the connection
    MaxPending,   \* XHTTP_H2_MAX_PENDING_DISPATCH
    MaxChunks,    \* pieces of a streamed answer
    Protos,       \* protocols the peer may speak
    Writes,       \* what the kernel may say to a write
    PeerResets    \* may an HTTP/2 peer reset a stream?

VARIABLE c        \* the connection

Reqs == 1..MaxReq

\* A stream that was just allocated, for request r.
xHttpStreamCreate(r) ==
    [live |-> TRUE, req |-> r, route |-> FALSE, err |-> "none",
     aborted |-> FALSE, complete |-> FALSE, sent |-> FALSE,
     streaming |-> FALSE, flagged |-> FALSE, open |-> TRUE]

NoStream == [xHttpStreamCreate(0) EXCEPT !.live = FALSE, !.open = FALSE]

\* What a keep-alive connection clears before its next request.
xHttpStreamReset(s) ==
    [s EXCEPT !.route = FALSE, !.err = "none", !.aborted = FALSE,
              !.complete = FALSE, !.sent = FALSE, !.streaming = FALSE]

\* The connection an accept loop makes: plain, or waiting for its handshake.
Accepted(tls) ==
    [conn |-> "open", hs |-> ~tls, proto |-> "none", keep |-> TRUE,
     writing |-> FALSE, broken |-> FALSE, buf |-> <<>>, out |-> <<>>,
     sub |-> <<>>, cur |-> 0, s |-> [k \in Reqs |-> NoStream], ps |-> "start",
     pend |-> <<>>, app |-> [r \in Reqs |-> "none"], asked |-> 0]

New == [Accepted(FALSE) EXCEPT !.conn = "none"]

Live(x) == x.conn = "open"
Handle(x, r) == IF x.proto = "h1" THEN 1 ELSE r

-----------------------------------------------------------------------------
(* Closing, resetting and flushing *)

\* The application of the current stream hears on_close, if it has a route.
Told(x) ==
    LET r == x.s[x.cur].req
    IN  IF x.cur # 0 /\ x.s[x.cur].route /\ x.app[r] = "open"
        THEN [x EXCEPT !.app[r] = "told"] ELSE x

FreeCur(x) ==
    IF x.cur = 0 THEN x ELSE [x EXCEPT !.s[x.cur].live = FALSE, !.cur = 0]

xHttpConnClose(x) ==
    IF Live(x) THEN [FreeCur(Told(x)) EXCEPT !.conn = "freed"] ELSE x

\* The connection leaves HTTP; its stream goes without a word.
xHttpConnHijack(x) == [FreeCur(x) EXCEPT !.conn = "hijacked"]

conn_reset_request_state(x) ==
    LET y == IF x.cur = 0 THEN x
             ELSE [x EXCEPT !.s[x.cur] = xHttpStreamReset(@)]
    IN  IF x.proto = "h1" THEN [y EXCEPT !.ps = "start"] ELSE y

\* Writes until the kernel blocks, fails or the buffer is empty.
conn_try_flush(x, w) ==
    IF x.buf = <<>> \/ w = "all"
    THEN [x EXCEPT !.out = @ \o x.buf, !.buf = <<>>, !.writing = FALSE]
    ELSE IF w = "block" THEN [x EXCEPT !.writing = TRUE]
    ELSE [x EXCEPT !.keep = FALSE, !.broken = TRUE]

\* With nothing left to write, a kept connection is ready for another request.
Settled(x) ==
    IF x.buf # <<>> THEN x
    ELSE IF x.keep THEN conn_reset_request_state(x) ELSE xHttpConnClose(x)

xHttpConnFlushWriteInternal(x, w) == Settled(conn_try_flush(x, w))

conn_after_response(x, w) ==
    IF x.proto = "h2" /\ x.keep /\ x.cur # 0
    THEN IF x.s[x.cur].flagged THEN FreeCur(x) ELSE x
    ELSE IF x.buf = <<>> THEN Settled(x)
    ELSE IF x.writing THEN x ELSE xHttpConnFlushWriteInternal(x, w)

-----------------------------------------------------------------------------
(* The two protocols: what a handler hands to the connection *)

\* The peer and the server are done with HTTP/2 stream k.
h2_on_stream_close_callback(x, k) ==
    [x EXCEPT !.s[k].open = FALSE,
              !.s[k].flagged = @ \/ x.cur = k,
              !.s[k].live = x.cur = k]

Ends(part) == part \in {"full", "error", "end"}
Begins(part) == part \in {"full", "error", "head"}

\* One queued frame leaves the session, unless its stream is closed or has
\* begun its answer already.
SendFrame(x, it) ==
    LET k == it[1]
        begun == \E i \in DOMAIN (x.out \o x.buf) :
                    (x.out \o x.buf)[i][1] = k
        y == [x EXCEPT !.buf = Append(@, it)]
    IN  IF ~x.s[k].open \/ (Begins(it[2]) /\ begun) THEN x
        ELSE IF Ends(it[2]) /\ x.s[k].complete
        THEN h2_on_stream_close_callback(y, k) ELSE y

\* nghttp2_session_send: everything submitted goes to the write buffer.
nghttp2_session_send(x) ==
    [FoldLeft(SendFrame, x, x.sub) EXCEPT !.sub = <<>>]

send_response(x, k, part) ==
    IF x.proto = "h1" THEN [x EXCEPT !.buf = Append(@, <<x.s[k].req, part>>)]
    ELSE [x EXCEPT !.sub = Append(@, <<k, part>>)]

Chunk(r, begun) == IF begun THEN <<<<r, "data">>>> ELSE <<<<r, "head">>, <<r, "data">>>>

\* The first chunk of an HTTP/1.1 answer gives up keeping the connection.
h1_write_data(x, k) ==
    [x EXCEPT !.keep = @ /\ x.s[k].streaming, !.s[k].streaming = TRUE,
              !.buf = @ \o Chunk(x.s[k].req, x.s[k].streaming)]

h2_write_data(x, k) ==
    IF ~x.s[k].open THEN x
    ELSE nghttp2_session_send([x EXCEPT !.s[k].streaming = TRUE,
                                        !.sub = @ \o Chunk(k, x.s[k].streaming)])

h1_end_stream(x, k) == [x EXCEPT !.s[k].sent = TRUE]

h2_end_stream(x, k) ==
    LET y == [x EXCEPT !.s[k].sent = TRUE]
    IN  IF x.s[k].open
        THEN nghttp2_session_send([y EXCEPT !.sub = Append(@, <<k, "end">>)])
        ELSE y

-----------------------------------------------------------------------------
(* Answers: errors the server sends and what an application asks for *)

xHttpConnSendErrorAgain(x, w) ==
    IF x.cur = 0 THEN [x EXCEPT !.keep = FALSE]
    ELSE LET y == [x EXCEPT !.keep = @ /\ x.proto = "h2", !.s[x.cur].sent = TRUE]
         IN  conn_try_flush(send_response(y, x.cur, "error"), w)

\* An error answer, once; over HTTP/1.1 the connection closes after it.
xHttpConnSendError(x, w) ==
    IF x.cur = 0 \/ x.s[x.cur].sent THEN [x EXCEPT !.keep = FALSE]
    ELSE LET y == [x EXCEPT !.keep = @ /\ x.proto = "h2", !.s[x.cur].sent = TRUE]
         IN  conn_try_flush(send_response(y, x.cur, "error"), w)

\* The pending error of the current stream, or 400, and the end of the request.
Refuse(x, w) ==
    LET y == IF x.cur = 0 THEN x ELSE [x EXCEPT !.s[x.cur].err = "none"]
    IN  conn_after_response(xHttpConnSendError(y, w), w)

xHttpCtxSend(x, k, w) ==
    IF x.s[k].sent \/ x.s[k].streaming THEN x
    ELSE LET y == [x EXCEPT !.s[k].sent = TRUE, !.app[x.s[k].req] = "ended"]
         IN  conn_after_response(conn_try_flush(send_response(y, k, "full"), w), w)

xHttpCtxWrite(x, k, w) ==
    IF x.s[k].sent THEN x
    ELSE conn_try_flush(IF x.proto = "h1" THEN h1_write_data(x, k)
                        ELSE h2_write_data(x, k), w)

xHttpCtxEndStream(x, k, w) ==
    LET e == IF x.proto = "h1" THEN h1_end_stream(x, k) ELSE h2_end_stream(x, k)
        y == IF x.s[k].streaming /\ ~x.s[k].sent THEN conn_try_flush(e, w) ELSE x
    IN  conn_after_response([y EXCEPT !.app[x.s[k].req] = "ended"], w)

\* A request that is not a WebSocket handshake is refused but not closed; the
\* other leaves with the socket once its 101 answer was handed to the kernel.
xWsUpgrade(x, ok, w) ==
    LET r == x.s[x.cur].req
        y == [x EXCEPT !.app[r] = "ended"]
    IN  IF ok THEN xHttpConnHijack(conn_try_flush([y EXCEPT !.buf = Append(@, <<r, "full">>)], w))
        ELSE xHttpConnSendError(y, w)

\* What an application does inside on_done.
OnDone(x, do, w) ==
    LET y == [x EXCEPT !.app[x.s[x.cur].req] = "open"]
    IN  CASE do = "send" -> xHttpCtxSend(y, x.cur, w)
          [] do = "write" -> xHttpCtxWrite(y, x.cur, w)
          [] do = "upgrade" -> xWsUpgrade(y, TRUE, w)
          [] do = "refuse" -> xWsUpgrade(y, FALSE, w)
          [] do = "defer" -> y

conn_dispatch_request(x, do, w) ==
    LET s == x.s[x.cur]
    IN  IF s.err # "none" THEN Refuse(x, w)
        ELSE IF s.aborted
        THEN conn_after_response(IF s.sent \/ s.streaming THEN x
                                 ELSE xHttpConnSendError(x, w), w)
        ELSE IF s.route THEN OnDone(x, do, w) ELSE x

-----------------------------------------------------------------------------
(* Input: resolution, the HTTP/1.1 parser and the HTTP/2 frames *)

\* The route of stream k, whose on_request may abort the request.
xHttpStreamResolve(x, k, res) ==
    [x EXCEPT !.s[k].route = res # "missing",
              !.s[k].err = IF res = "missing" THEN "404" ELSE @,
              !.s[k].aborted = res = "abort"]

\* The parser meets the end of the headers, or gives up before it.
on_headers_complete(x, it) ==
    LET y == [x EXCEPT !.asked = @ + 1, !.s[1].req = x.asked + 1]
    IN  CASE it.res = "bad" -> [y EXCEPT !.ps = "dead"]
          [] it.res = "toolong" -> [y EXCEPT !.ps = "dead", !.s[1].err = "431"]
          [] OTHER -> xHttpStreamResolve([y EXCEPT !.keep = it.keep, !.ps = "body"],
                                         1, it.res)

on_body(x, it) ==
    IF it.res = "big" /\ ~x.s[1].aborted /\ x.s[1].route
    THEN [x EXCEPT !.s[1].err = "413", !.ps = "dead"] ELSE x

on_message_complete(x) == [x EXCEPT !.s[1].complete = TRUE, !.ps = "paused"]

\* A paused parser drops what it is given, a failed one keeps failing.
llhttp_execute(x, it) ==
    IF x.ps \in {"paused", "dead"} THEN x
    ELSE LET y == IF it.kind = "head" THEN on_headers_complete(x, it)
                  ELSE on_body(x, it)
         IN  IF it.last /\ y.ps = "body" THEN on_message_complete(y) ELSE y

h1_on_data(x) ==
    IF x.s[1].err # "none" THEN "error"
    ELSE IF x.s[1].complete THEN "complete"
    ELSE IF x.ps = "dead" THEN "error" ELSE "more"

\* What the event handler makes of one read of an HTTP/1.1 connection.
ReadH1(x, it, do, w) ==
    LET y == llhttp_execute(x, it)
    IN  CASE h1_on_data(y) = "error" -> Refuse(y, w)
          [] h1_on_data(y) = "complete" ->
                conn_dispatch_request([y EXCEPT !.s[1].complete = FALSE], do, w)
          [] OTHER -> y

h2_on_begin_headers_callback(x, k) ==
    [x EXCEPT !.s[k] = xHttpStreamCreate(k), !.cur = k, !.asked = k]

h2_on_data_chunk_recv_callback(x, k, res) ==
    IF res = "big" /\ x.s[k].err = "none" /\ ~x.s[k].aborted /\ x.s[k].route
    THEN [x EXCEPT !.s[k].err = "413"] ELSE x

\* END_STREAM puts the stream in the list to dispatch, while it has room.
h2_on_frame_recv_callback(x, f) ==
    LET y == IF f.kind = "head" THEN xHttpStreamResolve(x, f.k, f.res) ELSE x
    IN  IF ~f.last THEN y
        ELSE [y EXCEPT !.s[f.k].complete = TRUE,
                       !.pend = IF Len(@) < MaxPending THEN Append(@, f.k) ELSE @]

Frame(x, f) ==
    CASE f.kind = "head" -> h2_on_frame_recv_callback(h2_on_begin_headers_callback(x, f.k), f)
      [] f.kind = "data" -> h2_on_frame_recv_callback(h2_on_data_chunk_recv_callback(x, f.k, f.res), f)
      [] f.kind = "rst" -> h2_on_stream_close_callback(x, f.k)

\* The frames of one read, then a dispatch of every stream they completed; one
\* that was freed meanwhile leaves the model, which says nothing of it then.
h2_on_data(x, fs, do, w) ==
    LET got == nghttp2_session_send(FoldLeft(Frame, [x EXCEPT !.pend = <<>>], fs))
        One(y, k) == IF y.s[k].live THEN conn_dispatch_request([y EXCEPT !.cur = k], do, w)
                     ELSE [y EXCEPT !.conn = "wild"]
        done == FoldLeft(One, got, got.pend)
    IN  IF Live(done) THEN conn_try_flush(nghttp2_session_send([done EXCEPT !.pend = <<>>]), w)
        ELSE done

-----------------------------------------------------------------------------
(* The events of the connection *)

Kernel(w) == c.broken => w = "error"

\* on_listen_event and on_tls_listen_event
Accept == c.conn = "none" /\ \E tls \in BOOLEAN : c' = Accepted(tls)

\* The TLS handshake ends; its failure closes the connection.
Handshake ==
    /\ Live(c) /\ ~c.hs
    /\ \E ok \in BOOLEAN : c' = IF ok THEN [c EXCEPT !.hs = TRUE] ELSE xHttpConnClose(c)

\* The first bytes, or ALPN, say which protocol the connection speaks.
Detect ==
    /\ Live(c) /\ c.hs /\ c.proto = "none"
    /\ \E p \in Protos :
          c' = IF p = "h1" THEN [c EXCEPT !.proto = p, !.cur = 1, !.s[1] = xHttpStreamCreate(0)]
               ELSE [c EXCEPT !.proto = p, !.keep = TRUE]

\* The peer has the whole answer to request r.
Answered(r) == \E i \in DOMAIN c.out : c.out[i] = <<r, "full">>

Results == {"ok", "abort", "missing"}
OnDones(p) == {"send", "write", "defer"} \cup IF p = "h1" THEN {"upgrade", "refuse"} ELSE {}

\* A peer of HTTP/1.1 sends a request when it has the answer to the last one.
Heads ==
    IF c.ps = "start" /\ c.asked < MaxReq /\ (c.asked = 0 \/ Answered(c.asked))
    THEN [kind : {"head"}, res : Results, keep : BOOLEAN, last : BOOLEAN]
           \cup [kind : {"head"}, res : {"bad", "toolong"}, keep : {FALSE}, last : {FALSE}]
    ELSE {}
Bodies ==
    IF c.ps \in {"body", "dead"}
    THEN [kind : {"body"}, res : {"ok", "big"}, last : BOOLEAN] ELSE {}

ReadsH1 ==
    /\ Live(c) /\ c.proto = "h1"
    /\ \E it \in Heads \cup Bodies, w \in Writes :
          /\ Kernel(w)
          /\ \E do \in OnDones("h1") : c' = ReadH1(c, it, do, w)

\* One or two frames of an HTTP/2 peer that keeps to the protocol.
FramesOf(x) ==
    [kind : {"head"}, k : {x.asked + 1} \cap Reqs, res : Results, last : BOOLEAN]
      \cup [kind : {"data"}, k : {k \in Reqs : x.s[k].open /\ ~x.s[k].complete},
            res : {"ok", "big"}, last : BOOLEAN]
      \cup [kind : {"rst"}, k : {k \in Reqs : PeerResets /\ x.s[k].open}]

ReadsH2 ==
    /\ Live(c) /\ c.proto = "h2"
    /\ \E f \in FramesOf(c), w \in Writes, do \in OnDones("h2") :
          /\ Kernel(w)
          /\ \/ c' = h2_on_data(c, <<f>>, do, w)
             \/ \E g \in FramesOf(Frame([c EXCEPT !.pend = <<>>], f)) :
                   c' = h2_on_data(c, <<f, g>>, do, w)

\* The socket of a blocked connection is writable.
conn_write_ready ==
    /\ Live(c) /\ c.writing
    /\ \E w \in Writes \ {"block"} : Kernel(w) /\ c' = xHttpConnFlushWriteInternal(c, w)

\* The peer hangs up, the idle timeout expires or the server is destroyed.
ConnEnds == Live(c) /\ c' = xHttpConnClose(c)

\* The application answers request r later, from a callback of its own.
Held(r) == Live(c) /\ c.app[r] = "open" /\ c.s[Handle(c, r)].live

Chunks(r) ==
    LET all == c.out \o c.buf \o c.sub
    IN  {i \in DOMAIN all : all[i] = <<r, "data">>}

AppSend ==
    \E r \in Reqs, w \in Writes :
        /\ Held(r) /\ Kernel(w) /\ Chunks(r) = {}
        /\ c' = xHttpCtxSend(c, Handle(c, r), w)

AppWrite ==
    \E r \in Reqs, w \in Writes :
        /\ Held(r) /\ Kernel(w) /\ ~ \E i, j \in Chunks(r) : j - i >= MaxChunks - 1
        /\ c' = xHttpCtxWrite(c, Handle(c, r), w)

AppEnd ==
    \E r \in Reqs, w \in Writes :
        /\ Held(r) /\ Kernel(w) /\ Chunks(r) # {}
        /\ c' = xHttpCtxEndStream(c, Handle(c, r), w)

Init == c = New

Next ==
    \/ Accept \/ Handshake \/ Detect \/ ReadsH1 \/ ReadsH2
    \/ conn_write_ready \/ ConnEnds \/ AppSend \/ AppWrite \/ AppEnd

Spec == Init /\ [][Next]_c

-----------------------------------------------------------------------------
Wire == c.out \o c.buf

\* Type invariant of the connection and its streams.
TypeOK ==
    /\ c.conn \in {"none", "open", "freed", "hijacked", "wild"}
    /\ c.proto \in {"none", "h1", "h2"} /\ c.cur \in 0..MaxReq /\ c.asked \in 0..MaxReq
    /\ c.app \in [Reqs -> {"none", "open", "ended", "told"}]
    /\ \A k \in Reqs : c.s[k].err \in {"none", "404", "413", "431"}

\* The answers on the wire can be told apart: each request has one beginning
\* and nothing after its end, and over HTTP/1.1 the answers come in the order
\* of the requests.  Late bodies, errors met twice and blocked writes do not
\* put a second answer into the first.
AnswersFramed ==
    \A i, j \in DOMAIN Wire :
        i < j =>
        /\ Wire[i][1] = Wire[j][1] => ~Begins(Wire[j][2]) /\ ~Ends(Wire[i][2])
        /\ c.proto = "h1" => Wire[i][1] <= Wire[j][1]

\* A context the application may still use is the live one of its request:
\* before a connection takes it away the application hears on_close.
CtxKept(r) ==
    c.app[r] = "open" => Live(c) /\ c.s[Handle(c, r)].live /\ c.s[Handle(c, r)].req = r

CtxValid == c.proto = "h1" => \A r \in Reqs : CtxKept(r)

\* An answer the application finished has left, or waits for a writable
\* event the connection asked for: nothing else is needed to send it.
Leaves(r) ==
    c.app[r] = "ended" /\ Live(c) /\ ~c.writing /\ ~c.broken =>
        c.buf = <<>> /\ \E i \in DOMAIN c.out : c.out[i][1] = r /\ (Ends(c.out[i][2]) \/ c.proto = "h1")

AnswersLeave == c.proto = "h1" => \A r \in Reqs : Leaves(r)

====
