----------------------------- MODULE WebSocket ------------------------------
(***************************************************************************)
(* WebSocket: two connected ends, frames, the handshake with what it       *)
(* negotiates for compression, and the connector, each with a state of its *)
(* own.                                                                    *)
(***************************************************************************)
EXTENDS Integers, Sequences, FiniteSets, SequencesExt

-----------------------------------------------------------------------------
(***************************************************************************)
(* Two ends of a WebSocket connection, both running libx/x/http/ws.c: the  *)
(* server's end "sv" and the client's end "cl".  The record c holds both   *)
(* connections, the frames on their way to each end (net) and whether the  *)
(* other end's socket is closed behind them (eof).  With Raw > 0 the       *)
(* client may be another implementation, which also fragments, pings and   *)
(* sends what the frame parser rejects.                                    *)
(*                                                                         *)
(* A message is the sequence of its pieces.  r is what the kernel says to  *)
(* the writes of one handler: all taken, blocked, or failed, which happens *)
(* once the other end is closed.                                           *)
(***************************************************************************)

CONSTANTS
    MaxSends,      \* messages each application sends
    Raw,           \* frames of its own making a foreign client sends
    Timers,        \* may timers expire?
    Destroys       \* may the HTTP server be destroyed?

VARIABLE ws         \* both ends and the wire between them

Ends == {"sv", "cl"}
Other(e) == IF e = "sv" THEN "cl" ELSE "sv"

\* Only a server's connection has an idle timeout (xWsConnect passes 0).
Idle(e) == IF e = "sv" THEN "idle" ELSE "none"

xWsConnCreate(e) ==
    [alive |-> TRUE, st |-> "open", code |-> "none", wbuf |-> <<>>, writing |-> FALSE,
     rbuf |-> <<>>, frag |-> <<>>, timer |-> Idle(e), closes |-> 0, with |-> "none",
     got |-> <<>>, said |-> <<>>, n |-> 0]

New ==
    [w |-> [e \in Ends |-> xWsConnCreate(e)], net |-> [e \in Ends |-> <<>>],
     eof |-> [e \in Ends |-> FALSE], raw |-> 0, part |-> <<>>,
     bad |-> FALSE]

-----------------------------------------------------------------------------
(* Closing and flushing *)

\* on_close, once; the connection is destroyed by whoever handles the event.
ws_fire_close(x, e, code) ==
    IF x.w[e].st = "closed" THEN x
    ELSE [x EXCEPT !.w[e].st = "closed", !.w[e].closes = @ + 1, !.w[e].with = code]

xWsConnDestroy(x, e) ==
    [x EXCEPT !.w[e] = [@ EXCEPT !.alive = FALSE, !.timer = "none", !.wbuf = <<>>,
                                 !.rbuf = <<>>, !.frag = <<>>],
              !.net[e] = <<>>, !.eof[Other(e)] = TRUE]

\* What is written reaches the other end, unless it is gone.
ws_try_flush(x, e, r) ==
    LET sent == [x EXCEPT !.net[Other(e)] = IF x.eof[e] THEN @ ELSE @ \o x.w[e].wbuf,
                          !.w[e].wbuf = <<>>, !.w[e].writing = FALSE]
    IN  IF x.w[e].wbuf = <<>> \/ r = "all"
        THEN IF x.w[e].st = "recv" THEN ws_fire_close(sent, e, x.w[e].code) ELSE sent
        ELSE IF r = "block" THEN [x EXCEPT !.w[e].writing = TRUE]
        ELSE ws_fire_close(x, e, "abnormal")

Put(x, e, f) == [x EXCEPT !.w[e].wbuf = Append(@, f)]

CloseFrame(code) == [op |-> "close", n |-> code]

\* Sends a Close frame and waits five seconds for the answer.
xWsConnClose(x, e, code, r) ==
    IF x.w[e].st # "open" THEN x
    ELSE LET y == Put([x EXCEPT !.w[e].st = "sent", !.w[e].code = code],
                      e, CloseFrame(code))
         IN  [ws_try_flush(y, e, r) EXCEPT !.w[e].timer = "close"]

xWsSend(x, e, r) ==
    LET m == <<x.w[e].n + 1>>
    IN  ws_try_flush(Put([x EXCEPT !.w[e].n = @ + 1, !.w[e].said = Append(@, m)],
                         e, [op |-> "text", n |-> m]), e, r)

-----------------------------------------------------------------------------
(* Frames *)

on_message(x, e, m) == [x EXCEPT !.w[e].got = Append(@, m)]

\* An answer to the peer's Close, or the end of the handshake this end began.
OnClose(x, e, code, r) ==
    CASE x.w[e].st = "open" ->
            ws_try_flush(Put([x EXCEPT !.w[e].st = "recv", !.w[e].code = code],
                             e, CloseFrame(code)), e, r)
      [] x.w[e].st = "sent" -> ws_fire_close(x, e, code)
      [] OTHER -> x

ws_process_frame(x, e, f, r) ==
    LET in == x.w[e].frag # <<>>
        bad == xWsConnClose(x, e, "proto", r)
    IN  CASE f.op = "ping" -> ws_try_flush(Put(x, e, [op |-> "pong", n |-> <<>>]), e, r)
          [] f.op = "pong" -> x
          [] f.op = "close" -> OnClose(x, e, f.n, r)
          [] f.op = "text" -> IF in THEN bad ELSE on_message(x, e, f.n)
          [] f.op = "first" -> IF in THEN bad ELSE [x EXCEPT !.w[e].frag = f.n]
          [] f.op = "cont" -> IF ~in THEN bad ELSE [x EXCEPT !.w[e].frag = @ \o f.n]
          [] f.op = "last" -> IF ~in THEN bad
                              ELSE on_message([x EXCEPT !.w[e].frag = <<>>],
                                              e, x.w[e].frag \o f.n)

\* The frames of the read buffer, until the connection is closed or the parser
\* meets what it rejects, which stays where it is.
ParseFrames(x, e, r) ==
    LET One(y, f) ==
            IF y.w[e].st = "closed" \/ Head(y.w[e].rbuf) # f THEN y
            ELSE IF f.op = "junk" THEN xWsConnClose(y, e, "proto", r)
            ELSE ws_process_frame([y EXCEPT !.w[e].rbuf = Tail(@)], e, f, r)
    IN  FoldLeft(One, x, x.w[e].rbuf)

Reap(x, e) == IF x.w[e].st = "closed" THEN xWsConnDestroy(x, e) ELSE x

ws_reset_idle_timer(x, e) ==
    IF Idle(e) = "none" THEN x ELSE [x EXCEPT !.w[e].timer = "idle"]

\* A readable event: everything that arrived (k frames, perhaps the end of the
\* stream behind them) is read before the first frame is looked at.
ReadEvent(x, e, k, end, r) ==
    IF x.w[e].st = "closed" THEN xWsConnDestroy(x, e)
    ELSE IF end THEN xWsConnDestroy(ws_fire_close(x, e, "abnormal"), e)
    ELSE LET y == [x EXCEPT !.w[e].rbuf = @ \o SubSeq(x.net[e], 1, k),
                            !.net[e] = SubSeq(@, k + 1, Len(@))]
         IN  Reap(ParseFrames(ws_reset_idle_timer(y, e), e, r), e)

WriteEvent(x, e, r) ==
    IF x.w[e].st = "closed" THEN xWsConnDestroy(x, e) ELSE Reap(ws_try_flush(x, e, r), e)

ws_idle_timeout(x, e, r) ==
    LET y == [x EXCEPT !.w[e].timer = "none"]
    IN  IF x.w[e].st = "open" THEN xWsConnClose(y, e, "away", r)
        ELSE xWsConnDestroy(ws_fire_close(y, e, x.w[e].code), e)

-----------------------------------------------------------------------------
(* Events of either end *)

Alive(e) == ws.w[e].alive
Results(e) == {"all", "block"} \cup IF ws.eof[e] THEN {"error"} ELSE {}

Reads(e) ==
    /\ Alive(e)
    /\ \E k \in 0..Len(ws.net[e]), end \in BOOLEAN, r \in Results(e) :
          /\ end => ws.eof[e] /\ k = Len(ws.net[e])
          /\ k > 0 \/ end
          /\ ws' = ReadEvent(ws, e, k, end, r)

Writable(e) ==
    /\ Alive(e) /\ ws.w[e].writing
    /\ \E r \in Results(e) \ {"block"} : ws' = WriteEvent(ws, e, r)

TimerFires(e) ==
    /\ Timers /\ Alive(e) /\ ws.w[e].timer # "none"
    /\ \E r \in Results(e) : ws' = ws_idle_timeout(ws, e, r)

\* The application may use the connection until on_close.
Sends(e) ==
    /\ Alive(e) /\ ws.w[e].st = "open" /\ ws.w[e].n < MaxSends
    /\ e = "cl" => ws.part = <<>>
    /\ \E r \in Results(e) : ws' = xWsSend(ws, e, r)

xWsClose(e) ==
    /\ Alive(e) /\ ws.w[e].st = "open"
    /\ \E r \in Results(e) : ws' = xWsConnClose(ws, e, "normal", r)

\* A foreign client's frame; part holds the message it is in the middle of.
ForeignFrame ==
    /\ ws.raw < Raw /\ Alive("cl") /\ Alive("sv") /\ ws.w["cl"].st = "open"
    /\ ws.w["cl"].wbuf = <<>>
    /\ \E op \in {"ping", "first", "cont", "last", "junk"} :
          LET m == <<100 + ws.raw>>
              f == [op |-> op, n |-> IF op \in {"ping", "junk"} THEN <<>> ELSE m]
          IN  ws' = [ws EXCEPT !.raw = @ + 1, !.net["sv"] = Append(@, f),
                     !.bad = @ \/ op = "junk" \/ (op = "first" /\ ws.part # <<>>)
                               \/ (op \in {"cont", "last"} /\ ws.part = <<>>),
                     !.part = CASE op = "first" /\ @ = <<>> -> m
                                [] op = "cont" /\ @ # <<>> -> @ \o m
                                [] op = "last" -> <<>>
                                [] OTHER -> @,
                     !.w["cl"].said = IF op = "last" /\ ws.part # <<>>
                                      THEN Append(@, ws.part \o m) ELSE @]

\* xHttpServerDestroy closes its WebSocket connections and forgets them.
ServerDestroy ==
    /\ Destroys /\ Alive("sv")
    /\ \E r \in Results("sv") :
          ws' = [xWsConnDestroy(xWsConnClose(ws, "sv", "away", r), "sv")
                   EXCEPT !.w["sv"].with = IF @ = "none" THEN "dropped" ELSE @]

WsInit == ws = New

WsNext ==
      \/ \E e \in Ends : Reads(e) \/ Writable(e) \/ TimerFires(e) \/ Sends(e) \/ xWsClose(e)
      \/ ForeignFrame \/ ServerDestroy

\* The loop delivers events and expired timers, and a blocked socket of a
\* living peer becomes writable.
Fairness ==
    \A e \in Ends : WF_ws(Reads(e)) /\ WF_ws(Writable(e)) /\ WF_ws(TimerFires(e))

WsSpec == WsInit /\ [][WsNext]_ws

FairSpec == WsSpec /\ Fairness

-----------------------------------------------------------------------------
\* Type invariant of the two connections.
WsTypeOK ==
    \A e \in Ends :
        /\ ws.w[e].st \in {"open", "sent", "recv", "closed"}
        /\ ws.w[e].timer \in {"none", "idle", "close"}
        /\ ws.w[e].closes \in 0..1 /\ ws.w[e].n \in 0..MaxSends

\* What on_message hears is what the other end said, whole, in order and
\* from the beginning: reassembled fragments, pings between them, blocked
\* writes and closing in between do not lose, repeat or mix a message.  (Past
\* a peer's protocol error the server goes on delivering what still parses.)
MessagesInOrder ==
    \A e \in Ends : ws.bad \/ IsPrefix(ws.w[e].got, ws.w[Other(e)].said)

\* on_close comes exactly once: a connection that is gone has had it, one
\* whose handle is still good has not, and one that waits for the peer's Close
\* has a timer that will end the wait.  (A server that is destroyed drops its
\* connections without a word.)
ClosedOnce ==
    \A e \in Ends :
        /\ ws.w[e].closes <= 1
        /\ ~Alive(e) => ws.w[e].timer = "none" /\ (ws.w[e].closes = 1 \/ ws.w[e].with = "dropped")
        /\ (ws.w[e].st = "closed") = (ws.w[e].closes = 1)
        /\ Alive(e) /\ ws.w[e].st = "sent" => ws.w[e].timer # "none"

-----------------------------------------------------------------------------
(***************************************************************************)
(* The WebSocket frame codec of libx/x/http/ws_frame.c.  A frame's header  *)
(* is its bytes; its payload, masking key included, is only counted.  The  *)
(* parser is called on whatever of the frame has arrived, in its phases    *)
(* header, len16, len64, mask, payload.                                    *)
(***************************************************************************)

CONSTANTS Lens,          \* payload lengths
          MaxPayload     \* largest payload the parser allocates

VARIABLE frame               \* the frame sent, what is to arrive, buffer, parser

Opcodes == {0, 1, 8, 9}
is_control_opcode(op) == op >= 8
Bit(b, n) == (b \div 2^n) % 2
Key == <<1, 2, 3, 4>>

\* byte i (from the most significant) of an n-byte number
Byte(v, n, i) == IF n - i >= 4 THEN 0 ELSE (v \div 256^(n - i)) % 256
Bytes(v, n) == [i \in 1..n |-> Byte(v, n, i)]
Number(bs) == LET at[i \in 0..Len(bs)] == IF i = 0 THEN 0 ELSE at[i - 1] * 256 + bs[i]
              IN  at[Len(bs)]

\* The header with the shortest length field that holds the length.
xWsFrameEncodeEx(fr) ==
    LET m == IF fr.masked THEN 128 ELSE 0
    IN  <<fr.fin * 128 + fr.op>>
        \o (IF fr.len < 126 THEN <<m + fr.len>>
            ELSE IF fr.len <= 65535 THEN <<m + 126>> \o Bytes(fr.len, 2)
            ELSE <<m + 127>> \o Bytes(fr.len, 8))
        \o (IF fr.masked THEN Key ELSE <<>>)

-----------------------------------------------------------------------------
(* The phases of xWsFrameParse: each is skipped unless the parser is in it. *)

xWsFrameParserReset == [phase |-> "header", fin |-> 0, op |-> 0, masked |-> FALSE, len |-> 0,
                        read |-> 0, res |-> "more"]

Eat(x, n) == [x EXCEPT !.io = SubSeq(@, n + 1, Len(@))]
Fails(x) == [x EXCEPT !.p.res = "error"]
AfterLen(x) == IF x.p.masked THEN "mask" ELSE "payload"

ParseHeader(x, masked) ==
    LET b0 == x.io[1]
        b1 == x.io[2]
        len == b1 % 128
        y == [x EXCEPT !.p = [@ EXCEPT !.fin = Bit(b0, 7), !.op = b0 % 16,
                                       !.masked = Bit(b1, 7) = 1, !.len = len]]
        next == IF len < 126 THEN AfterLen(y) ELSE IF len = 126 THEN "len16" ELSE "len64"
    IN  IF x.p.phase # "header" \/ Len(x.io) < 2 THEN x
        ELSE IF Bit(b0, 4) + Bit(b0, 5) + Bit(b0, 6) > 0 \/ y.p.masked # masked THEN Fails(y)
        ELSE IF is_control_opcode(y.p.op) /\ (y.p.fin = 0 \/ len >= 126) THEN Fails(Eat(y, 2))
        ELSE Eat([y EXCEPT !.p.phase = next], 2)

ParseLen(x, phase, n) ==
    IF x.p.phase # phase \/ x.p.res = "error" \/ Len(x.io) < n THEN x
    ELSE Eat([x EXCEPT !.p.len = Number(SubSeq(x.io, 1, n)), !.p.phase = AfterLen(x)], n)

ParseMask(x) ==
    IF x.p.phase # "mask" \/ x.p.res = "error" \/ Len(x.io) < 4 THEN x
    ELSE Eat([x EXCEPT !.p.phase = "payload"], 4)

ParsePayload(x) ==
    LET take == IF x.got < x.p.len - x.p.read THEN x.got ELSE x.p.len - x.p.read
    IN  IF x.p.phase # "payload" \/ x.p.res = "error" THEN x
        ELSE IF x.p.len > MaxPayload THEN Fails(x)
        ELSE [x EXCEPT !.got = @ - take, !.p.read = @ + take,
                       !.p.res = IF x.p.read + take = x.p.len THEN "ok" ELSE "more"]

xWsFrameParse(x, masked) ==
    IF x.p.res # "more" THEN x
    ELSE ParsePayload(ParseMask(ParseLen(ParseLen(ParseHeader(x, masked), "len16", 2),
                                         "len64", 8)))

-----------------------------------------------------------------------------
\* side: does the reading end expect masked frames (a server does)?
FrameInit ==
         \E fin \in {0, 1}, op \in Opcodes, masked, side \in BOOLEAN, len \in Lens :
             LET fr == [fin |-> fin, op |-> op, masked |-> masked, len |-> len]
             IN  frame = [sent |-> fr, side |-> side, wire |-> xWsFrameEncodeEx(fr), left |-> len,
                          io |-> <<>>, got |-> 0, p |-> xWsFrameParserReset]

\* n bytes of the header arrive, or all of it and part of the payload.
Arrives ==
    \/ \E n \in 1..Len(frame.wire) :
          frame' = xWsFrameParse([frame EXCEPT !.io = @ \o SubSeq(frame.wire, 1, n),
                                               !.wire = SubSeq(@, n + 1, Len(@))], frame.side)
    \/ /\ frame.left > 0
       /\ \E n \in {1, frame.left} :
             frame' = xWsFrameParse([frame EXCEPT !.io = @ \o frame.wire, !.wire = <<>>,
                                                  !.left = @ - n, !.got = @ + n], frame.side)

FrameNext == frame.p.res = "more" /\ frame.p.read < 3 /\ Arrives

FrameSpec == FrameInit /\ [][FrameNext]_frame

\* A frame that the protocol and the parser's limit allow.
Legal(fr, side) ==
    /\ fr.masked = side /\ fr.len <= MaxPayload
    /\ is_control_opcode(fr.op) => fr.fin = 1 /\ fr.len <= 125

\* However a frame is cut into pieces, the parser recognises it exactly when
\* the last byte of it has arrived, as the frame that was encoded and with
\* nothing of the buffer left or missing; it rejects an illegal one, and only
\* that.
FrameRight ==
    LET all == frame.wire = <<>> /\ frame.left = 0
    IN  /\ frame.p.res = "ok" => /\ all /\ frame.io = <<>> /\ frame.got = 0
                                 /\ [fin |-> frame.p.fin, op |-> frame.p.op, masked |-> frame.p.masked,
                                     len |-> frame.p.len] = frame.sent
        /\ frame.p.res = "error" => ~Legal(frame.sent, frame.side)
        /\ all => frame.p.res # "more"
        /\ frame.p.res = "ok" => Legal(frame.sent, frame.side)

-----------------------------------------------------------------------------
(***************************************************************************)
(* The WebSocket opening handshake and permessage-deflate (libx/x/http/    *)
(* ws_handshake_client.c, ws_handshake_server.c, ws_deflate.c): a client,  *)
(* the library's own or another one that makes a richer offer, asks for    *)
(* the upgrade; the server answers; both configure their zlib streams from *)
(* the answer and exchange messages.                                       *)
(*                                                                         *)
(* A header section is a sequence of lines [key, val], a value a sequence  *)
(* of tokens; an extension is [name, params], a parameter [name, bits]. A  *)
(* zlib stream is the sequence of messages that went through it since its  *)
(* last reset: what it may refer back to.                                  *)
(***************************************************************************)

CONSTANTS WindowBits,   \* values of the *_max_window_bits parameters of other clients
          DeflateFails, \* whether xWsDeflateCompress may fail for want of memory
          MaxMsgs,      \* messages each end sends
          InitBuf, MaxInflated   \* DEFLATE_INIT_BUF_SIZE and the 64 MB limit, scaled

VARIABLE hs
HandshakeVars == hs

NoBits == 0
Sides == {"client", "server"}
Peer(e) == IF e = "client" THEN "server" ELSE "client"
None == <<>>   \* no header, no context

----------------------------------------------------------------------------
\* find_header, find_resp_header: the value of the first line with the key, if it has one
find_header(lines, key) ==
    LET hits == SelectSeq(lines, LAMBDA l : l.key = key /\ l.val # <<>>) IN
    IF hits = <<>> THEN None ELSE hits[1].val

\* header_contains_token, header_token_match
header_contains_token(val, token) == \E i \in DOMAIN val : val[i] = token

\* xWsDeflateParseOffer: the first permessage-deflate, its parameters in turn
Params == [server_no_ct |-> FALSE, client_no_ct |-> FALSE, server_bits |-> 15, client_bits |-> 15]

Param(p, a) ==
    CASE a.name = "server_no_ct" -> [p EXCEPT !.server_no_ct = TRUE]
      [] a.name = "client_no_ct" -> [p EXCEPT !.client_no_ct = TRUE]
      [] a.name = "server_bits" -> IF a.bits \in 8..15 THEN [p EXCEPT !.server_bits = a.bits] ELSE p
      [] a.name = "client_bits" -> IF a.bits \in 8..15 THEN [p EXCEPT !.client_bits = a.bits] ELSE p
      [] OTHER -> p

xWsDeflateParseOffer(exts) ==
    LET hits == SelectSeq(exts, LAMBDA x : x.name = "deflate") IN
    IF hits = <<>> THEN None ELSE <<FoldLeft(Param, Params, hits[1].params)>>

\* xWsDeflateBuildServerResponse: what differs from the defaults
xWsDeflateBuildServerResponse_takeover(p) ==
    <<[name |-> "deflate",
       params |-> (IF p.server_bits < 15 THEN <<[name |-> "server_bits", bits |-> p.server_bits]>> ELSE <<>>)
               \o (IF p.client_bits < 15 THEN <<[name |-> "client_bits", bits |-> p.client_bits]>> ELSE <<>>)]>>

xWsDeflateBuildServerResponse(p) ==
    <<[name |-> "deflate",
       params |-> (IF p.server_no_ct THEN <<[name |-> "server_no_ct", bits |-> NoBits]>> ELSE <<>>)
               \o (IF p.client_no_ct THEN <<[name |-> "client_no_ct", bits |-> NoBits]>> ELSE <<>>)
               \o (IF p.server_bits < 15 THEN <<[name |-> "server_bits", bits |-> p.server_bits]>> ELSE <<>>)
               \o (IF p.client_bits < 15 THEN <<[name |-> "client_bits", bits |-> p.client_bits]>> ELSE <<>>)]>>

\* zlib: raw streams of 8 bits inflate, but deflateInit2 refuses them
deflateInit2(bits) == bits \in 9..15
inflateInit2(bits) == bits \in 8..15

\* xWsDeflateCreate
xWsDeflateCreate(p, end) ==
    LET send == IF end = "client" THEN p.client_bits ELSE p.server_bits
        recv == IF end = "client" THEN p.server_bits ELSE p.client_bits
    IN IF ~deflateInit2(send) \/ ~inflateInit2(recv) THEN None
       ELSE <<[no_ct_send |-> IF end = "client" THEN p.client_no_ct ELSE p.server_no_ct,
               no_ct_recv |-> IF end = "client" THEN p.server_no_ct ELSE p.client_no_ct,
               out |-> <<>>, in |-> <<>>]>>

----------------------------------------------------------------------------
\* xWsDeflateBuildClientOffer, and what other clients may offer
OwnOffer == <<[name |-> "deflate", params |-> <<[name |-> "client_bits", bits |-> NoBits]>>]>>
Named == {[name |-> n, bits |-> NoBits] : n \in {"server_no_ct", "client_no_ct", "client_bits", "unknown"}}
         \cup {[name |-> n, bits |-> b] : n \in {"server_bits", "client_bits"}, b \in WindowBits}
Offers == {<<[name |-> "deflate", params |-> ps]>> : ps \in {<<>>} \cup {<<a>> : a \in Named} \cup {<<a, b>> : a \in Named, b \in Named}}

Line(key, val) == [key |-> key, val |-> val]

\* xWsClientBuildUpgradeRequest; the key and the accept value computed from it are the same token
BuildUpgradeRequest(exts) ==
    <<Line("Upgrade", <<"websocket">>), Line("Connection", <<"Upgrade">>), Line("Key", <<"k1">>),
      Line("Version", <<"13">>), Line("Extensions", exts)>>

Strange == {<<[name |-> "other", params |-> <<>>]>>} \cup {<<[name |-> "other", params |-> <<>>], OwnOffer[1]>>}

Requests ==
    {BuildUpgradeRequest(o) : o \in Offers \cup Strange}
    \cup {Tail(BuildUpgradeRequest(OwnOffer))}                                         \* no Upgrade
    \cup {[BuildUpgradeRequest(OwnOffer) EXCEPT ![2].val = v] : v \in {<<>>, <<"keep-alive">>, <<"keep-alive", "Upgrade">>}}
    \cup {[BuildUpgradeRequest(OwnOffer) EXCEPT ![3].val = <<>>], [BuildUpgradeRequest(OwnOffer) EXCEPT ![4].val = <<"8">>]}

HandshakeInit == \E r \in Requests :
             hs = [pc |-> "asked", own |-> r = BuildUpgradeRequest(OwnOffer), req |-> r, resp |-> <<>>,
                   ctx |-> [e \in Sides |-> None], wire |-> [e \in Sides |-> <<>>],
                   sent |-> [e \in Sides |-> <<>>], got |-> [e \in Sides |-> <<>>]]

\* xWsUpgrade, its checks, its answer and the server's streams
xWsUpgrade ==
    /\ hs.pc = "asked"
    /\ LET exts == find_header(hs.req, "Extensions")
           parsed == xWsDeflateParseOffer(exts)
           ok == /\ header_contains_token(find_header(hs.req, "Upgrade"), "websocket")
                 /\ header_contains_token(find_header(hs.req, "Connection"), "Upgrade")
                 /\ find_header(hs.req, "Version") = <<"13">>
                 /\ find_header(hs.req, "Key") # None
       IN hs' = IF ~ok THEN [hs EXCEPT !.pc = "refused"]
                ELSE [hs EXCEPT !.pc = "answered",
                          !.resp = <<Line("Upgrade", <<"websocket">>), Line("Connection", <<"Upgrade">>),
                                     Line("Accept", find_header(hs.req, "Key"))>>
                                   \o (IF parsed = None THEN <<>> ELSE <<Line("Extensions", xWsDeflateBuildServerResponse(parsed[1]))>>),
                          !.ctx["server"] = IF parsed = None THEN None ELSE xWsDeflateCreate(parsed[1], "server")]

\* another server, or an intermediary, answers a library client in its own way
OtherAnswer == \E drop \in 1..3, other \in BOOLEAN :
    /\ hs.pc = "answered" /\ hs.own /\ hs.resp[1].key = "Upgrade"
    /\ hs' = [hs EXCEPT !.resp = IF other THEN [@ EXCEPT ![drop].val = <<"x">>]
                                 ELSE SubSeq(@, 1, drop - 1) \o SubSeq(@, drop + 1, Len(@)), !.pc = "tampered"]

\* xWsClientValidateUpgradeResponse, xWsClientParseDeflateResponse; other clients do as much
ValidateUpgradeResponse(resp) ==
    /\ header_contains_token(find_header(resp, "Upgrade"), "websocket")
    /\ header_contains_token(find_header(resp, "Connection"), "Upgrade")
    /\ find_header(resp, "Accept") = find_header(hs.req, "Key")

ParseDeflateResponse(resp) == xWsDeflateParseOffer(find_header(resp, "Extensions"))

ClientOpens ==
    /\ hs.pc \in {"answered", "tampered"}
    /\ LET parsed == ParseDeflateResponse(hs.resp) IN
       hs' = IF ~ValidateUpgradeResponse(hs.resp) THEN [hs EXCEPT !.pc = "failed"]
             ELSE [hs EXCEPT !.pc = "open", !.ctx["client"] = IF parsed = None THEN None ELSE xWsDeflateCreate(parsed[1], "client")]

----------------------------------------------------------------------------
\* xWsDeflateCompress: a reset, and the stream remembers the message; when memory
\* runs out after deflate() the stream remembers a message nobody gets
xWsDeflateCompress(c, m) == [c EXCEPT !.out = Append(IF c.no_ct_send THEN <<>> ELSE @, m)]

\* xWsSend: an empty message, or one that was not compressed, goes as it is
Send(e) == \E size \in {0, MaxInflated, MaxInflated + 1}, fails \in IF DeflateFails THEN BOOLEAN ELSE {FALSE} :
    /\ hs.pc = "open" /\ Len(hs.sent[e]) < MaxMsgs
    /\ LET m == [n |-> Len(hs.sent[e]) + 1, size |-> size]
           c == IF hs.ctx[e] = None \/ size = 0 THEN hs.ctx[e] ELSE <<xWsDeflateCompress(hs.ctx[e][1], m)>>
           packed == c # hs.ctx[e] /\ ~fails
       IN hs' = [hs EXCEPT !.sent[e] = Append(@, m), !.ctx[e] = c,
                           !.wire[Peer(e)] = Append(@, [msg |-> m, rsv1 |-> packed, needs |-> IF packed THEN Front(c[1].out) ELSE <<>>])]

\* the output buffer doubles while there is input left, up to the limit
Fits(size, in) ==
    LET start == IF 4 * in > InitBuf THEN 4 * in ELSE InitBuf IN
    size <= start \/ \E k \in 1..5 : size <= start * 2^k /\ start * 2^k <= MaxInflated

\* xWsDeflateDecompress: the stream must hold what the message refers to
xWsDeflateDecompress(c, f) ==
    LET in == IF c.no_ct_recv THEN <<>> ELSE c.in IN
    IF ~IsSuffix(f.needs, in) \/ ~Fits(f.msg.size, 1) THEN None
    ELSE <<[c EXCEPT !.in = Append(in, f.msg)]>>

\* a frame: the parser refuses RSV1 without a context, a bad message closes the connection
Receive(e) ==
    /\ hs.pc = "open" /\ hs.wire[e] # <<>>
    /\ LET f == Head(hs.wire[e])
           r == IF f.rsv1 /\ hs.ctx[e] # None THEN xWsDeflateDecompress(hs.ctx[e][1], f) ELSE hs.ctx[e]
           bad == f.rsv1 /\ (hs.ctx[e] = None \/ r = None)
       IN hs' = IF bad THEN [hs EXCEPT !.pc = "protocol_error"]
                ELSE [hs EXCEPT !.wire[e] = Tail(@), !.ctx[e] = r, !.got[e] = Append(@, f.msg)]

HandshakeNext == xWsUpgrade \/ OtherAnswer \/ ClientOpens \/ \E e \in Sides : Send(e) \/ Receive(e)

HandshakeSpec == HandshakeInit /\ [][HandshakeNext]_HandshakeVars

----------------------------------------------------------------------------
(* Whatever a client offers, the answer it is given configures both ends
   alike, so that every message is read back as it was sent and the
   connection fails over its compression only when a message inflates past
   the limit: with and without context takeover, after empty messages, in
   both directions (ws_deflate.c:51-61, ws_deflate.c:104, ws_deflate.c:165,
   ws_deflate.c:197). *)
MessagesInflate ==
    /\ hs.pc = "protocol_error" => \E e \in Sides : \E i \in DOMAIN hs.sent[e] : hs.sent[e][i].size > MaxInflated
    /\ \A e \in Sides : IsPrefix(hs.got[e], hs.sent[Peer(e)])
    /\ hs.pc = "open" => (hs.ctx["client"] = None <=> hs.ctx["server"] = None)

-----------------------------------------------------------------------------
(***************************************************************************)
(* xWsConnect (libx/x/http/ws_connect.c): name resolution, TCP connect     *)
(* over the resolved addresses, TLS handshake, HTTP upgrade, and the       *)
(* handover of the socket to a WebSocket connection, under one timer.      *)
(*                                                                         *)
(* The record k is the connector.  A handler takes the answers of the      *)
(* kernel, of the TLS library and of the server as a function a from       *)
(* question to answer, chosen by the action.                               *)
(***************************************************************************)

CONSTANTS MaxAddrs,    \* addresses a name resolves to
          MaxReads     \* reads the upgrade response is spread over

VARIABLE wsc

NoConnector == [phase |-> "idle", tls |-> FALSE, addrs |-> 0, sock |-> "none", mask |-> "none",
                timer |-> FALSE, query |-> FALSE, ctx |-> FALSE, buf |-> FALSE, resp |-> 0,
                opens |-> 0, closes |-> 0, code |-> "none"]

\* Every resource of the connector is released; a handed over socket is not.
connector_destroy(x) ==
    [x EXCEPT !.phase = "freed", !.timer = FALSE, !.query = FALSE, !.ctx = FALSE,
              !.buf = FALSE, !.mask = "none",
              !.sock = IF x.sock = "given" THEN "given" ELSE "none"]

connector_fail(x, code) ==
    [connector_destroy(x) EXCEPT !.closes = @ + 1, !.code = code]

\* The request is flushed; when it is out, the response is awaited.
FlushRequest(x, a) ==
    CASE a.write = "error" -> connector_fail(x, "abnormal")
      [] a.write = "block" -> [x EXCEPT !.mask = "write"]
      [] OTHER -> [x EXCEPT !.buf = FALSE, !.phase = "read", !.resp = 0, !.mask = "read"]

connector_do_http_upgrade(x, a) ==
    FlushRequest([x EXCEPT !.phase = "write", !.buf = TRUE], a)

Shake(x, a) ==
    CASE a.shake = "done" -> connector_do_http_upgrade(x, a)
      [] a.shake = "read" -> [x EXCEPT !.mask = "read"]
      [] a.shake = "write" -> [x EXCEPT !.mask = "write"]
      [] OTHER -> connector_fail(x, "abnormal")

connector_do_tls_handshake(x, a) ==
    IF ~a.ctx THEN connector_fail(x, "abnormal") ELSE Shake([x EXCEPT !.ctx = TRUE], a)

Connected(x, a) ==
    IF x.tls THEN connector_do_tls_handshake([x EXCEPT !.phase = "tls"], a)
    ELSE connector_do_http_upgrade(x, a)

\* The addresses in order: one that fails at once is passed over.
connector_do_tcp_connect(x, a) ==
    LET tried == {i \in 1..x.addrs : a.connect[i] # "refused"}
        first == CHOOSE i \in tried : \A j \in tried : i >= j
        y == [x EXCEPT !.sock = "own", !.mask = "write", !.addrs = first]
    IN  IF tried = {} THEN connector_fail([x EXCEPT !.addrs = 0], "abnormal")
        ELSE IF a.connect[first] = "now" THEN Connected(y, a) ELSE y

connector_try_next_addr(x, a) ==
    connector_do_tcp_connect([x EXCEPT !.sock = "none", !.mask = "none", !.addrs = @ - 1], a)

connector_dns_cb(x, n, a) ==
    LET y == [x EXCEPT !.query = FALSE]
    IN  IF n = 0 THEN connector_fail(y, "abnormal")
        ELSE connector_do_tcp_connect([y EXCEPT !.phase = "tcp", !.addrs = n], a)

connector_on_writable(x, a) ==
    CASE x.phase = "tcp" -> IF a.error THEN connector_try_next_addr(x, a) ELSE Connected(x, a)
      [] x.phase = "tls" -> Shake(x, a)
      [] x.phase = "write" -> FlushRequest(x, a)
      [] OTHER -> x

\* The response may be refused, incomplete, or good; what follows the headers
\* goes to the new connection's read buffer.
ReadResponse(x, a) ==
    CASE x.resp = MaxReads -> connector_fail(x, "proto")
      [] a.read = "error" -> connector_fail(x, "abnormal")
      [] a.read = "part" -> [x EXCEPT !.resp = @ + 1]
      [] a.read = "bad" -> connector_fail(x, "proto")
      [] a.read = "nomem" -> [connector_destroy(x) EXCEPT !.closes = @ + 1, !.code = "abnormal"]
      [] OTHER -> [connector_destroy([x EXCEPT !.sock = "given", !.timer = FALSE])
                      EXCEPT !.opens = @ + 1]

connector_on_readable(x, a) ==
    CASE x.phase = "tls" -> Shake(x, a)
      [] x.phase = "read" -> ReadResponse(x, a)
      [] OTHER -> x

-----------------------------------------------------------------------------
\* The answers a handler does not ask for.
Given == [connect |-> [i \in 1..MaxAddrs |-> "later"], error |-> FALSE, shake |-> "done", ctx |-> TRUE,
          write |-> "all", read |-> "good"]

xWsConnect ==
    /\ wsc.phase = "idle"
    /\ \E tls \in BOOLEAN :
          wsc' = [wsc EXCEPT !.phase = "dns", !.tls = tls, !.timer = TRUE, !.query = TRUE]

Resolved ==
    /\ wsc.query
    /\ \E n \in 0..MaxAddrs, c \in [1..MaxAddrs -> {"now", "later", "refused"}],
          s \in {"done", "read", "write", "fail"}, w \in {"all", "block", "error"} :
          wsc' = connector_dns_cb(wsc, n, [Given EXCEPT !.connect = c, !.shake = s, !.write = w])

ConnectorWritable ==
    /\ wsc.sock = "own" /\ wsc.mask = "write"
    /\ \E e \in BOOLEAN, c \in [1..MaxAddrs -> {"now", "later", "refused"}], x \in BOOLEAN,
          s \in {"done", "read", "write", "fail"}, w \in {"all", "block", "error"} :
          wsc' = connector_on_writable(wsc, [Given EXCEPT !.connect = c, !.error = e, !.ctx = x,
                                                          !.shake = s, !.write = w])

Readable ==
    /\ wsc.sock = "own" /\ wsc.mask = "read"
    /\ \E s \in {"done", "read", "write", "fail"}, w \in {"all", "block", "error"},
          r \in {"error", "part", "bad", "nomem", "good"} :
          wsc' = connector_on_readable(wsc, [Given EXCEPT !.shake = s, !.write = w, !.read = r])

connector_timeout_cb ==
    /\ wsc.timer
    /\ wsc' = connector_fail([wsc EXCEPT !.timer = FALSE], "abnormal")

WsConnectInit == wsc = NoConnector
WsConnectNext == xWsConnect \/ Resolved \/ ConnectorWritable \/ Readable \/ connector_timeout_cb
WsConnectSpec == WsConnectInit /\ [][WsConnectNext]_wsc

\* Type invariant of the connector.
WsConnectTypeOK ==
    /\ wsc.phase \in {"idle", "dns", "tcp", "tls", "write", "read", "freed"}
    /\ wsc.addrs \in 0..MaxAddrs /\ wsc.resp \in 0..MaxReads /\ wsc.opens + wsc.closes <= 2

\* An attempt ends in exactly one of on_open and on_close, whichever of the
\* timeout, the resolver and the socket is first, and then no timer, query or
\* socket is left that could call back into the freed connector.
OneOutcome ==
    /\ wsc.opens + wsc.closes = IF wsc.phase = "freed" THEN 1 ELSE 0
    /\ wsc.phase = "freed" => ~wsc.timer /\ ~wsc.query /\ wsc.sock # "own"
    /\ wsc.phase = "freed" => ((wsc.sock = "given") = (wsc.opens = 1))

\* An attempt under way always waits for something besides its timeout: the
\* resolver, or the one socket event that its phase is about.
NeverStuck ==
    wsc.phase \notin {"idle", "freed"} =>
          /\ wsc.timer
          /\ wsc.query = (wsc.phase = "dns") /\ (wsc.sock = "own") = (wsc.phase # "dns")
          /\ wsc.phase \in {"tcp", "write"} => wsc.mask = "write"
          /\ wsc.phase = "read" => wsc.mask = "read"
          /\ wsc.phase = "tls" => wsc.mask # "none"
=============================================================================
