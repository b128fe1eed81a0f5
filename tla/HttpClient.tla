----------------------------- MODULE HttpClient -----------------------------
(***************************************************************************)
(* The HTTP client and the parser of event streams, each with a state of   *)
(* its own.                                                                *)
(***************************************************************************)
EXTENDS Naturals, Sequences, SequencesExt

-----------------------------------------------------------------------------
(***************************************************************************)
(* The HTTP client (libx/x/http/client.c) and its event-stream requests    *)
(* (sse.c) over libcurl's multi interface.  The record h holds the client  *)
(* and its requests; a response body is the chunks 1..MaxBody.  libcurl    *)
(* is external: in one call it writes at most one chunk to a request that  *)
(* is not paused, ends any number of transfers and may set its timer.      *)
(***************************************************************************)

CONSTANTS Reqs,          \* requests
          MaxBody,     \* chunks of a response body
          ReadTimeout,   \* is read_timeout_ms set?
          Kinds          \* of requests: "plain", "sse"

VARIABLE client

None == [st |-> "none", kind |-> "plain", hdr |-> 0, paused |-> FALSE, pbuf |-> <<>>,
         sent |-> 0, got |-> <<>>, rt |-> FALSE, told |-> 0, result |-> "none"]

New == [alive |-> TRUE, timer |-> FALSE, q |-> [r \in Reqs |-> None]]

Running(x) == {r \in Reqs : x.q[r].st = "run"}
Ended(x) == {r \in Reqs : x.q[r].st = "ended"}

-----------------------------------------------------------------------------
(* Callbacks from libcurl into a request q *)

req_maybe_call_on_response(q) == [q EXCEPT !.hdr = 1]

\* d is what on_data answers; on an abort libcurl ends the transfer.
write_callback(q, d) ==
    LET n == q.sent + 1
        y == [req_maybe_call_on_response(q) EXCEPT !.sent = n, !.rt = ReadTimeout]
    IN  CASE d = "abort" -> [y EXCEPT !.st = "ended", !.result = "error"]
          [] d = "pause" -> [y EXCEPT !.pbuf = Append(@, n), !.paused = TRUE]
          [] d = "go" -> [y EXCEPT !.got = Append(@, n)]

\* An event-stream request parses the chunk; the user may close the stream.
sse_write_callback(q, d) ==
    LET n == q.sent + 1
    IN  IF d = "abort" THEN [q EXCEPT !.sent = n, !.st = "ended", !.result = "error"]
        ELSE [q EXCEPT !.sent = n, !.got = Append(@, n)]

oneshot_on_done_unflushed(q) ==
    [q EXCEPT !.hdr = 1, !.told = @ + 1]

\* on_response if it has not been called, the chunks of a paused transfer,
\* then on_done.
oneshot_on_done(q) ==
    [q EXCEPT !.hdr = 1, !.got = @ \o q.pbuf, !.pbuf = <<>>, !.paused = FALSE,
              !.told = @ + 1]

sse_on_done(q) == [q EXCEPT !.told = @ + 1]

\* Unlinked, removed from libcurl, its timer stopped, freed.
Cleanup(q) == [q EXCEPT !.st = "gone", !.rt = FALSE]

\* Every transfer libcurl has ended is told and freed.
check_multi_info(x) ==
    [x EXCEPT !.q = [r \in Reqs |->
        IF r \notin Ended(x) THEN x.q[r]
        ELSE Cleanup(IF x.q[r].kind = "sse" THEN sse_on_done(x.q[r])
                     ELSE oneshot_on_done(x.q[r]))]]

\* A request is given up: base.on_done is told, which an event-stream request
\* does not set.
destroy_req(q, result) ==
    Cleanup([q EXCEPT !.told = IF q.kind = "sse" THEN @ ELSE @ + 1, !.result = result])

-----------------------------------------------------------------------------
\* One call of curl_multi_socket_action: W is the request written to (or none),
\* d what its callback answers, E the transfers that end and how.
curl_multi_socket_action(x, W, d, E, res) ==
    LET wrote == [r \in Reqs |->
            IF r \notin W THEN x.q[r]
            ELSE IF x.q[r].kind = "sse" THEN sse_write_callback(x.q[r], d)
            ELSE write_callback(x.q[r], d)]
    IN  [x EXCEPT !.q = [r \in Reqs |->
            IF r \in E /\ wrote[r].st = "run"
            THEN [wrote[r] EXCEPT !.st = "ended", !.result = res] ELSE wrote[r]]]

Writable(x) == {r \in Running(x) : ~x.q[r].paused /\ x.q[r].sent < MaxBody}

\* A transfer succeeds once its body is written, and may fail at any time.
MayEnd(x, W, res) ==
    {r \in Running(x) : res = "error" \/ x.q[r].sent + (IF r \in W THEN 1 ELSE 0) = MaxBody}

\* timer_callback: libcurl asks for a timer, asks for none, or does not ask.
timer_callback(x, t) ==
    CASE t = "set" -> [x EXCEPT !.timer = TRUE]
      [] t = "none" -> [x EXCEPT !.timer = FALSE]
      [] OTHER -> x

xHttpClientDo(r, kind) ==
    /\ client.alive /\ client.q[r].st = "none"
    /\ client' = timer_callback([client EXCEPT !.q[r] = [None EXCEPT !.st = "run", !.kind = kind]], "set")

\* Every way one call of curl_multi_socket_action may go.
CurlDoes(x) ==
    UNION {{timer_callback(curl_multi_socket_action(x, W, d, E, res), t) : E \in SUBSET MayEnd(x, W, res)} :
           W \in {{}} \cup {{r} : r \in Writable(x)}, d \in {"go", "pause", "abort"},
           res \in {"ok", "error"}, t \in {"set", "none", "keep"}}

fd_ready_callback ==
    /\ client.alive /\ Running(client) # {}
    /\ \E y \in CurlDoes(client) : client' = check_multi_info(y)

\* The timer polls on while transfers run, also when libcurl set none.
on_timeout ==
    /\ client.alive /\ client.timer
    /\ \E y \in CurlDoes([client EXCEPT !.timer = FALSE]) :
          client' = [check_multi_info(y) EXCEPT !.timer = @ \/ Running(y) # {}]

on_read_timeout(r) ==
    /\ client.q[r].rt
    /\ client' = [client EXCEPT !.q[r] = destroy_req(@, "timeout")]

\* The buffered chunks are offered again; unless they are taken the transfer
\* stays paused.
xHttpClientResume(r) ==
    /\ client.alive /\ client.q[r].st = "run" /\ client.q[r].paused
    /\ \/ client' = [client EXCEPT !.q[r] = [@ EXCEPT !.got = @ \o client.q[r].pbuf, !.pbuf = <<>>,
                                                      !.paused = FALSE]]
       \/ UNCHANGED client

xHttpClientDestroy ==
    /\ client.alive
    /\ client' = [client EXCEPT !.alive = FALSE, !.timer = FALSE,
                                !.q = [r \in Reqs |-> IF client.q[r].st = "run"
                                                      THEN destroy_req(client.q[r], "aborted") ELSE client.q[r]]]

ClientInit == client = New

ClientNext ==
          \/ \E r \in Reqs : (\E kind \in Kinds : xHttpClientDo(r, kind))
                             \/ on_read_timeout(r) \/ xHttpClientResume(r)
          \/ fd_ready_callback \/ on_timeout \/ xHttpClientDestroy

ClientSpec == ClientInit /\ [][ClientNext]_client

-----------------------------------------------------------------------------
\* Type invariant of the client.
ClientTypeOK ==
    \A r \in Reqs : /\ client.q[r].st \in {"none", "run", "gone"} /\ client.q[r].hdr \in 0..1
                    /\ client.q[r].sent \in 0..MaxBody /\ client.q[r].paused \in BOOLEAN

\* on_done comes exactly once for every plain request, whichever of
\* completion, read timeout and the client's end comes first, and a request or
\* client that is gone has left no timer behind.
DoneOnce ==
    /\ \A r \in Reqs : LET q == client.q[r] IN
          /\ q.kind = "plain" => q.told = IF q.st = "gone" THEN 1 ELSE 0
          /\ q.st # "run" => ~q.rt
    /\ ~client.alive => ~client.timer /\ Running(client) = {}

\* A body comes in order and without gaps, however often it is paused, and a
\* request that ends well has had all of it before on_done.
BodyWhole ==
    \A r \in Reqs : LET q == client.q[r] IN
        /\ q.got = [i \in 1..Len(q.got) |-> i]
        /\ q.result = "ok" => Len(q.got) = MaxBody
        /\ q.st = "run" => q.got \o q.pbuf = [i \in 1..q.sent |-> i]

-----------------------------------------------------------------------------
(***************************************************************************)
(* The event-stream parser of libx/x/http/sse.c, fed with the pieces the   *)
(* network makes of a text.  A character is a line end ("CR", "LF") or     *)
(* stands for a run of characters that begins like a field: "D" data, "E"  *)
(* event, "I" id, "C" a comment; inside a line it is part of the value.    *)
(***************************************************************************)

CONSTANTS Chars,      \* characters of a text
          MaxText     \* length of a text

VARIABLE sse            \* the text, how much of it was fed, the parser

sse_parser_init == [line |-> <<>>, ev |-> <<>>, data |-> <<>>, has |-> FALSE, id |-> <<>>,
                    events |-> <<>>]

sse_parser_reset_event(p) == [p EXCEPT !.ev = <<>>, !.data = <<>>, !.has = FALSE]

parse_sse_field(p) ==
    LET v == Tail(p.line)
    IN  CASE Head(p.line) = "E" -> [p EXCEPT !.ev = v]
          [] Head(p.line) = "D" -> [p EXCEPT !.data = IF p.has THEN Append(@, "LF") \o v ELSE v,
                                             !.has = TRUE]
          [] Head(p.line) = "I" -> [p EXCEPT !.id = IF v = <<>> THEN @ ELSE v]
          [] OTHER -> p

\* An empty line dispatches an event that has data; any other is a field.
EndLine(p) ==
    LET q == IF p.line # <<>> THEN parse_sse_field(p)
             ELSE IF ~p.has THEN p
             ELSE sse_parser_reset_event([p EXCEPT
                    !.events = Append(@, [ev |-> p.ev, data |-> p.data, id |-> p.id])])
    IN  [q EXCEPT !.line = <<>>]

\* The unfinished line of the last piece is continued; of a CR LF pair the LF
\* is passed over when it is in the buffer together with the CR.
sse_parser_feed(p, piece) ==
    LET One(x, c) ==
            IF c = "LF" /\ x.cr THEN [x EXCEPT !.cr = FALSE]
            ELSE IF c \in {"CR", "LF"} THEN [p |-> EndLine(x.p), cr |-> c = "CR"]
            ELSE [p |-> [x.p EXCEPT !.line = Append(@, c)], cr |-> FALSE]
    IN  FoldLeft(One, [p |-> p, cr |-> FALSE], piece).p

SseInit == sse \in [text : UNION {[1..n -> Chars] : n \in 1..MaxText}, fed : {0},
                    p : {sse_parser_init}]

sse_parse(n) ==
    /\ sse.fed + n <= Len(sse.text)
    /\ sse' = [sse EXCEPT !.fed = @ + n,
                          !.p = sse_parser_feed(@, SubSeq(sse.text, sse.fed + 1, sse.fed + n))]

SseNext == \E n \in 1..MaxText : sse_parse(n)

SseSpec == SseInit /\ [][SseNext]_sse

\* "Advance past the line terminator (\r\n counts as one)" (sse.c:166): how the
\* network cuts a text into pieces does not change the events it is parsed to.
SplitFree ==
    sse.p.events = sse_parser_feed(sse_parser_init, SubSeq(sse.text, 1, sse.fed)).events
=============================================================================
