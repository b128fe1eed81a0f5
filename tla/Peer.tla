-------------------------------- MODULE Peer --------------------------------
(***************************************************************************)
(* Two connected peers: peer connections, data channels and DTLS, each     *)
(* with a state of its own.                                                *)
(***************************************************************************)
EXTENDS Integers, Sequences, FiniteSets

-----------------------------------------------------------------------------
(***************************************************************************)
(* Two peer connections (src/libx/x/p2p/peer_connection.c) and what each   *)
(* one owns: the DTLS transport (dtls_transport.c), the SCTP transport     *)
(* (sctp_transport.c) and the data channel manager (datachannel.c), over   *)
(* an ICE agent known by the states it reports (IceAgent).                 *)
(*                                                                         *)
(* A peer is one record.  A channel is [sid, st, label]; its label is the  *)
(* peer that opened it and a count, which no code sees.  net[p] is what    *)
(* SCTP will deliver to p, in order.  The DTLS and SCTP libraries are      *)
(* external: a handshake or an association may succeed once both ends are  *)
(* at it, or fail.                                                         *)
(***************************************************************************)

CONSTANTS Openers,       \* peers whose application creates channels
          MaxChannels,   \* XDC_MAX_CHANNELS
          MaxCreates,    \* bound: channels an application asks for
          MaxSends       \* bound: messages an application sends

VARIABLES pc, net, misled

Peers == {1, 2}
Other(p) == 3 - p

Peer == [state |-> "New", ice |-> "New", offerer |-> FALSE, described |-> FALSE, remoteSet |-> FALSE,
         dtls |-> "none", role |-> "passive", handshake |-> FALSE, sctp |-> "none", assoc |-> FALSE,
         mgr |-> FALSE, chans |-> <<>>, next |-> 0, pending |-> 0, alive |-> TRUE,
         out |-> <<>>, creates |-> 0, sends |-> 0]
PeerInit == pc = [p \in Peers |-> Peer] /\ net = [p \in Peers |-> <<>>] /\ misled = FALSE

(* What a handler sent goes to the other peer.                             *)
Become(p, x) == [pc EXCEPT ![p] = [x EXCEPT !.out = <<>>]]
Handle(p, x) == /\ pc' = Become(p, x)
                /\ net' = [net EXCEPT ![Other(p)] = @ \o x.out]
                /\ UNCHANGED misled

SetState(x, s) == [x EXCEPT !.state = s]

-----------------------------------------------------------------------------
(* Data channels.                                                          *)

(* find_channel: the first one with the stream.                            *)
Find(x, sid) ==
    LET S == {i \in DOMAIN x.chans : x.chans[i].sid = sid}
    IN  IF S = {} THEN 0 ELSE CHOOSE i \in S : \A j \in S : i <= j

(* xSctpTransportSend, and add_channel                                     *)
SctpSend(x, kind, sid, label) ==
    IF x.sctp = "Up" THEN [x EXCEPT !.out = Append(@, [kind |-> kind, sid |-> sid, label |-> label])] ELSE x
AddChannel(x, sid, st, label) == [x EXCEPT !.chans = Append(@, [sid |-> sid, st |-> st, label |-> label])]

(* xDataChannelCreate: the stream number is used up even if it fails.      *)
ChannelCreate(x, p, ok) ==
    LET y == [x EXCEPT !.next = @ + 2]
        label == <<p, x.next>>
    IN  IF Len(x.chans) >= MaxChannels \/ x.sctp # "Up" \/ ~ok THEN y
        ELSE SctpSend(AddChannel(y, x.next, "Connecting", label), "open", x.next, label)
RECURSIVE CreatePending(_, _, _)
CreatePending(x, p, n) == IF n = 0 THEN x ELSE CreatePending(ChannelCreate(x, p, TRUE), p, n - 1)

(* xDataChannelMgrOnData for OPEN and ACK, and xDataChannelMgrOnStreamClose *)
OnOpen(x, m) ==
    IF Len(x.chans) >= MaxChannels THEN x
    ELSE SctpSend(AddChannel(x, m.sid, "Open", m.label), "ack", m.sid, m.label)
OnAck(x, m) ==
    LET i == Find(x, m.sid)
    IN  IF i # 0 /\ x.chans[i].st = "Connecting" THEN [x EXCEPT !.chans[i].st = "Open"] ELSE x
OnStreamClose(x, m) ==
    LET i == Find(x, m.sid) IN IF i = 0 THEN x ELSE [x EXCEPT !.chans[i].st = "Closed"]

-----------------------------------------------------------------------------
(* The application of p.                                                   *)
Alive(p) == pc[p].alive

(* xPeerConnectionCreateOffer: the first peer starts the exchange.         *)
CreateOffer(p) ==
    /\ Alive(p) /\ p = 1 /\ ~pc[p].described
    /\ Handle(p, [pc[p] EXCEPT !.offerer = TRUE, !.described = TRUE, !.ice = "Gathering",
                               !.dtls = "New", !.role = "passive"])

(* xPeerConnectionCreateAnswer, to an offer of setup:actpass               *)
CreateAnswer(p) ==
    /\ Alive(p) /\ p = 2 /\ pc[p].remoteSet /\ ~pc[p].described
    /\ Handle(p, [pc[p] EXCEPT !.described = TRUE, !.ice = "Gathering", !.dtls = "New",
                               !.role = "passive"])

(* xPeerConnectionSetRemoteDescription with xDtlsTransportSetRole          *)
SetRemoteDescription(p) ==
    /\ Alive(p) /\ pc[Other(p)].described /\ ~pc[p].remoteSet
    /\ LET x == [pc[p] EXCEPT !.remoteSet = TRUE]
       IN  Handle(p, IF x.offerer /\ x.dtls = "New"
                     THEN [x EXCEPT !.role = IF pc[Other(p)].role = "active" THEN "passive" ELSE "active"]
                     ELSE x)

(* xPeerConnectionCreateDataChannel: now, or when the association is up.   *)
CreateDataChannel(p) ==
    /\ Alive(p) /\ p \in Openers /\ pc[p].creates < MaxCreates
    /\ LET x == [pc[p] EXCEPT !.creates = @ + 1]
       IN  \E ok \in BOOLEAN :
             Handle(p, IF x.mgr THEN ChannelCreate(x, p, ok)
                       ELSE IF x.pending < MaxChannels THEN [x EXCEPT !.pending = @ + 1] ELSE x)

(* xDataChannelSendString, xDataChannelSendBinary and xDataChannelClose    *)
Send(p, i) ==
    /\ Alive(p) /\ i \in DOMAIN pc[p].chans /\ pc[p].chans[i].st = "Open" /\ pc[p].sends < MaxSends
    /\ Handle(p, SctpSend([pc[p] EXCEPT !.sends = @ + 1], "data", pc[p].chans[i].sid, pc[p].chans[i].label))
CloseChannel(p, i) ==
    /\ Alive(p) /\ i \in DOMAIN pc[p].chans /\ pc[p].chans[i].st \notin {"Closing", "Closed"}
    /\ Handle(p, SctpSend([pc[p] EXCEPT !.chans[i].st = "Closing"], "reset", pc[p].chans[i].sid,
                          pc[p].chans[i].label))

(* xPeerConnectionDestroy                                                  *)
Destroy(p) == /\ Alive(p)
              /\ Handle(p, [Peer EXCEPT !.state = "Closed", !.alive = FALSE])

-----------------------------------------------------------------------------
(* What the layers below report to p.                                      *)

(* The changes of state an agent reports; the ones it makes within one     *)
(* call may be seen as one.                                                *)
IceStep(s, t) ==
    \/ s = "New" /\ t = "Gathering"
    \/ s \in {"New", "Gathering", "Checking"} /\ t = "Failed"
    \/ s \in {"New", "Gathering", "Failed"} /\ t = "Checking"
    \/ s \in {"Checking", "Failed"} /\ t = "Connected"
    \/ t = "Closed"

(* on_ice_state_change; xDtlsTransportStart when ICE is connected.         *)
IceChange(p, s) ==
    /\ Alive(p) /\ IceStep(pc[p].ice, s)
    /\ s \in {"Checking", "Connected"} => pc[p].remoteSet
    /\ LET x == [pc[p] EXCEPT !.ice = s]
       IN  Handle(p, CASE s = "Checking" -> SetState(x, "Connecting")
                       [] s = "Failed" -> SetState(x, "Failed")
                       [] OTHER -> IF x.dtls = "none" THEN SetState(x, "Failed")
                                   ELSE IF x.dtls = "New"
                                   THEN [x EXCEPT !.dtls = "Connecting", !.handshake = TRUE] ELSE x)

(* drive_handshake comes to an end, or handshake_timeout_cb;               *)
(* pc_dtls_state_changed, xSctpTransportCreate and xSctpTransportStart.    *)
HandshakeDone(p) ==
    /\ Alive(p) /\ pc[p].dtls = "Connecting"
    /\ pc[Other(p)].dtls \in {"Connecting", "Connected"} /\ pc[p].role # pc[Other(p)].role
    /\ \E made, started \in BOOLEAN :
         LET x == [pc[p] EXCEPT !.dtls = "Connected", !.handshake = FALSE]
         IN  Handle(p, IF made THEN [x EXCEPT !.sctp = "Starting", !.assoc = started]
                       ELSE SetState(x, "Failed"))
HandshakeFailed(p) ==
    /\ Alive(p) /\ pc[p].dtls = "Connecting"
    /\ Handle(p, SetState([pc[p] EXCEPT !.dtls = "Failed"], "Failed"))
HandshakeTimeout(p) ==
    /\ Alive(p) /\ pc[p].handshake
    /\ LET x == [pc[p] EXCEPT !.handshake = FALSE]
       IN  Handle(p, IF x.dtls = "Connecting" THEN SetState([x EXCEPT !.dtls = "Failed"], "Failed") ELSE x)

(* sctp_recv_cb for SCTP_COMM_UP, with pc_sctp_state_changed               *)
AssocUp(p) ==
    /\ Alive(p) /\ pc[p].sctp = "Starting" /\ pc[Other(p)].sctp \in {"Starting", "Up"}
    /\ LET x == [pc[p] EXCEPT !.sctp = "Up", !.assoc = FALSE, !.mgr = TRUE]
       IN  Handle(p, SetState([CreatePending(x, p, x.pending) EXCEPT !.pending = 0], "Connected"))

(* SCTP_COMM_LOST, and assoc_timeout_cb: nothing follows in the connection. *)
AssocLost(p) == Alive(p) /\ pc[p].sctp = "Up" /\ Handle(p, [pc[p] EXCEPT !.sctp = "Lost"])
AssocTimeout(p) == Alive(p) /\ pc[p].assoc /\ Handle(p, [pc[p] EXCEPT !.assoc = FALSE])

(* sctp_recv_cb for data and stream resets.  A reset is confirmed to the   *)
(* peer that asked for it by an event of the same kind.                    *)
Receive(p) ==
    /\ net[p] # <<>>
    /\ LET m == Head(net[p])
           x == pc[p]
           i == Find(x, m.sid)
           y == CASE m.kind = "open" -> OnOpen(x, m)
                  [] m.kind = "ack" -> OnAck(x, m)
                  [] m.kind = "reset" -> SctpSend(OnStreamClose(x, m), "confirm", m.sid, m.label)
                  [] m.kind = "confirm" -> OnStreamClose(x, m)
                  [] OTHER -> x
           up == x.alive /\ x.sctp = "Up"
       IN  /\ x.alive => x.sctp # "Starting"
           /\ pc' = IF up THEN Become(p, y) ELSE pc
           /\ net' = [[net EXCEPT ![p] = Tail(@)] EXCEPT ![Other(p)] = @ \o (IF up THEN y.out ELSE <<>>)]
           /\ misled' = (misled \/ (up /\ m.kind = "data" /\ i # 0 /\ x.chans[i].st = "Open"
                                       /\ x.chans[i].label # m.label))

PeerNext ==
        \E p \in Peers :
            \/ CreateOffer(p) \/ CreateAnswer(p) \/ SetRemoteDescription(p) \/ CreateDataChannel(p)
            \/ \E i \in 1 .. MaxChannels : Send(p, i) \/ CloseChannel(p, i)
            \/ Destroy(p)
            \/ \E s \in {"Checking", "Connected", "Failed"} : IceChange(p, s)
            \/ HandshakeDone(p) \/ HandshakeFailed(p) \/ HandshakeTimeout(p)
            \/ AssocUp(p) \/ AssocLost(p) \/ AssocTimeout(p) \/ Receive(p)

PeerVars == <<pc, net, misled>>
PeerSpec == PeerInit /\ [][PeerNext]_PeerVars

-----------------------------------------------------------------------------
(* Two DTLS transports that are at their handshake, or through it, have    *)
(* opposite roles, in whatever order the descriptions were exchanged and   *)
(* ICE connected.                                                          *)
RolesOpposite ==
    (\A p \in Peers : pc[p].dtls \in {"Connecting", "Connected"}) => pc[1].role # pc[2].role

(* A channel that the peer that created it holds open is in the table of   *)
(* the other peer too: DATA_CHANNEL_ACK comes from nobody else.            *)
OpenIsShared ==
    \A p \in Peers : \A i \in DOMAIN pc[p].chans :
        LET c == pc[p].chans[i]
            q == pc[Other(p)]
        IN  c.label[1] = p /\ c.st = "Open" /\ q.alive =>
                \E j \in DOMAIN q.chans : q.chans[j].label = c.label

(* A message is delivered to the channel it was sent on.                   *)
OnItsChannel == ~misled

-----------------------------------------------------------------------------
(***************************************************************************)
(* One side's data channel manager over its SCTP transport: the DCEP open  *)
(* message and its decoding, the life of a channel, the amounts buffered,  *)
(* and what usrsctp's notifications do.  The part before has two sides     *)
(* and the opening handshake between them; here the other side is any      *)
(* sequence of messages and notifications.                                 *)
(*                                                                         *)
(* dc.assoc  "none", "connecting", "up", "down"; dc.timer the assoc timer  *)
(* dc.chs    channels in the order of their slots: sid, st, buf the        *)
(*           buffered amount, and history: what the application was told,  *)
(*           sent the bytes it has had accepted since the last drain       *)
(* dc.next  next_stream_id; dc.said what on_state_change said, in order    *)
(***************************************************************************)

CONSTANTS MaxDcChannels,   \* XDC_MAX_CHANNELS
          MaxLabel,      \* XDC_MAX_LABEL_LEN: a label is shorter
          Sids,          \* the streams the other side uses
          MaxTold,       \* bound: messages told to a channel
          MaxBuffered    \* bound: bytes buffered on a channel

VARIABLE dc

Confs == [ordered : BOOLEAN, rtx : {0, 1}, life : {0, 1}, label : 0 .. MaxLabel - 1]

-----------------------------------------------------------------------------
\* The fields the message carries: a limit of retransmissions hides a limit of
\* life time; the label goes with its length.
dcep_encode_open(c) ==
    [type |-> IF c.rtx > 0 THEN "rtxs" ELSE IF c.life > 0 THEN "time" ELSE "reliable",
     unordered |-> ~c.ordered, rel |-> IF c.rtx > 0 THEN c.rtx ELSE c.life,
     label_len |-> c.label, body |-> c.label]

\* A message shorter than its lengths say is refused; a label that does not
\* fit is left empty.
dcep_decode_open(o) ==
    IF o.label_len > o.body THEN [ok |-> FALSE]
    ELSE [ok |-> TRUE, ordered |-> ~o.unordered,
          rtx |-> IF o.type = "rtxs" THEN o.rel ELSE 0, life |-> IF o.type = "time" THEN o.rel ELSE 0,
          label |-> IF o.label_len < MaxLabel THEN o.label_len ELSE 0]

\* What a peer may send: lengths that are wrong or too long included.
Opens == [type : {"rtxs", "time", "reliable"}, unordered : BOOLEAN, rel : {0, 1},
          label_len : {0, MaxLabel}, body : {0, MaxLabel}]

DcInit == dc = [assoc |-> "none", timer |-> FALSE, chs |-> <<>>, next |-> 0, said |-> <<>>]

find_channel(s, sid) ==
    LET found == {i \in 1 .. Len(s.chs) : s.chs[i].sid = sid}
    IN  IF found = {} THEN 0 ELSE CHOOSE i \in found : \A k \in found : i <= k

NewChannel(sid) == [sid |-> sid, st |-> "connecting", buf |-> 0, sent |-> 0, told |-> <<>>]
add_channel(s, sid) == [s EXCEPT !.chs = Append(@, NewChannel(sid))]
Told(s, i, what) == [s EXCEPT !.chs[i].told = Append(@, what)]

-----------------------------------------------------------------------------
\* Both sides connect; the timer runs until the association is up.
xSctpTransportStart(ok) ==
    /\ dc.assoc = "none"
    /\ dc' = IF ok THEN [dc EXCEPT !.assoc = "connecting", !.timer = TRUE] ELSE dc

\* SCTP_COMM_UP.
CommUp == /\ dc.assoc = "connecting"
          /\ dc' = [dc EXCEPT !.assoc = "up", !.timer = FALSE, !.said = Append(@, TRUE)]
CommLost == /\ dc.assoc \in {"connecting", "up"}
            /\ dc' = [dc EXCEPT !.assoc = "down", !.said = Append(@, FALSE)]
assoc_timeout_cb ==
    /\ dc.timer
    /\ dc' = [dc EXCEPT !.timer = FALSE, !.said = IF dc.assoc # "up" THEN Append(@, FALSE) ELSE @]

\* Accepted whole, or EAGAIN, or an error.
SendResults == IF dc.assoc = "up" THEN {"ok", "again"} ELSE {"invalid"}

xDataChannelCreate(sent) ==
    /\ sent \in SendResults
    /\ dc' = IF Len(dc.chs) >= MaxDcChannels \/ sent # "ok" THEN [dc EXCEPT !.next = @ + 2]
             ELSE add_channel([dc EXCEPT !.next = @ + 2], dc.next)

\* xDataChannelMgrOnData for the three kinds of message.
DcOnOpen(sid, o) ==
    LET c == dcep_decode_open(o)
        s == add_channel(dc, sid)
        n == Len(dc.chs) + 1
    IN  /\ dc.assoc = "up" /\ find_channel(dc, sid) = 0
        /\ dc' = IF ~c.ok \/ Len(dc.chs) >= MaxDcChannels THEN dc
                 ELSE Told([s EXCEPT !.chs[n].st = "open"], n, "open")
DcOnAck(sid) ==
    LET i == find_channel(dc, sid)
    IN  /\ dc.assoc = "up" /\ i # 0
        /\ dc.chs[i].st = "connecting"
        /\ dc' = Told([dc EXCEPT !.chs[i].st = "open"], i, "open")
OnMessage(sid) ==
    LET i == find_channel(dc, sid)
    IN  /\ dc.assoc = "up" /\ i # 0
        /\ dc' = IF dc.chs[i].st = "open" THEN Told(dc, i, "message") ELSE dc

\* SCTP_STREAM_RESET_EVENT: the streams the other side, or this one, reset.
xDataChannelMgrOnStreamClose(sid) ==
    LET i == find_channel(dc, sid)
    IN  /\ dc.assoc = "up" /\ i # 0
        /\ dc' = Told([dc EXCEPT !.chs[i].st = "closed"], i, "close")

xDataChannelSendString(i, sent) ==
    /\ dc.chs[i].st = "open" /\ sent \in SendResults
    /\ dc' = IF sent = "ok" THEN [dc EXCEPT !.chs[i].sent = @ + 1] ELSE dc
xDataChannelSendBinary(i, sent) ==
    /\ dc.chs[i].st = "open" /\ sent \in SendResults
    /\ dc' = IF sent = "ok" THEN [dc EXCEPT !.chs[i].sent = @ + 1, !.chs[i].buf = @ + 1] ELSE dc

\* SCTP_SENDER_DRY_EVENT, through xDataChannelMgrOnBufferedAmountLow: the open
\* channels are told.
SenderDry ==
    /\ dc.assoc = "up"
    /\ dc' = [dc EXCEPT !.chs = [i \in 1 .. Len(@) |->
                    IF @[i].st = "open" THEN [@[i] EXCEPT !.buf = 0, !.sent = 0, !.told = Append(@, "low")] ELSE [@[i] EXCEPT !.sent = 0]]]

\* The reset of the stream is asked for; whether it can be is not looked at.
xDataChannelClose(i) ==
    /\ dc.chs[i].st \notin {"closed", "closing"}
    /\ dc' = [dc EXCEPT !.chs[i].st = "closing"]

Bounded == \A i \in 1 .. Len(dc'.chs) : Len(dc'.chs[i].told) <= MaxTold /\ dc'.chs[i].sent <= MaxBuffered

DcNext == /\ \/ \E ok \in BOOLEAN : xSctpTransportStart(ok)
             \/ CommUp \/ CommLost \/ assoc_timeout_cb \/ SenderDry
             \/ dc.next < 4 /\ \E sent \in {"ok", "again", "invalid"} : xDataChannelCreate(sent)
             \/ \E sid \in Sids, o \in Opens : DcOnOpen(sid, o)
             \/ \E sid \in Sids \union {0, 2} : DcOnAck(sid) \/ OnMessage(sid) \/ xDataChannelMgrOnStreamClose(sid)
             \/ \E i \in 1 .. Len(dc.chs), sent \in {"ok", "again", "invalid"} :
                   xDataChannelSendString(i, sent) \/ xDataChannelSendBinary(i, sent)
             \/ \E i \in 1 .. Len(dc.chs) : xDataChannelClose(i)
          /\ Bounded

DcSpec == DcInit /\ [][DcNext]_dc

-----------------------------------------------------------------------------
\* A channel speaks in order: it is opened once, before its first message, and
\* says nothing but "closed" after it was closed; the open message carries a
\* channel's configuration, but for a life time next to a limit of
\* retransmissions; and a transport is said to be up at most once.
ChannelsInOrder ==
    /\ \A i \in 1 .. Len(dc.chs) : \E t \in {dc.chs[i].told} : \A k \in 1 .. Len(t) :
          /\ t[k] = "open" <=> (k = 1 /\ t[1] # "close")
          /\ t[k] # "close" => \A n \in 1 .. k - 1 : t[n] # "close"
    /\ \A c \in Confs : dcep_decode_open(dcep_encode_open(c)) =
          [ok |-> TRUE, ordered |-> c.ordered, rtx |-> c.rtx, life |-> IF c.rtx > 0 THEN 0 ELSE c.life, label |-> c.label]
    /\ \A k, n \in 1 .. Len(dc.said) : dc.said[k] /\ dc.said[n] => k = n

-----------------------------------------------------------------------------
(***************************************************************************)
(* Two xDtlsTransports and the datagrams between them.  With dtls.sync the *)
(* send callback hands a datagram to the peer inside the call that made it *)
(* (the loop-back of the tests); otherwise it goes through a network that  *)
(* reorders datagrams and loses up to MaxLost of them.  The DTLS library   *)
(* is external: a handshake of the flights 1 (active), 2 (passive), 3      *)
(* (active) and 4 (passive), which takes a datagram it is not waiting for  *)
(* for a stray; "openssl" keeps its output until it is flushed, "mbedtls"  *)
(* sends as it goes.  5 is application data, sent when a side is           *)
(* connected, as the SCTP transport does.                                  *)
(*                                                                         *)
(* d[x] for a side x: st the state, role the effective role (the backend's *)
(* is brole: the last one asked of it, built or not), timer the handshake  *)
(* timer, driving and fed the re-entrancy flags, step how far the backend  *)
(* is (9 done, -1 no SSL object), inb and outb its buffers, fp whether the *)
(* peer's fingerprint is the expected one, got data delivered.             *)
(***************************************************************************)

CONSTANTS DtlsBackends,  \* some of "openssl", "mbedtls"
          IoBufCap,      \* MBEDTLS_IO_BUF_SIZE, in datagrams
          MaxLost        \* bound: datagrams lost

VARIABLE dtls

Sides == {"a", "b"}
DtlsPeer(x) == IF x = "a" THEN "b" ELSE "a"

\* A backend context: its certificate, and an SSL object for the role.
openssl_create(role) == [brole |-> role, step |-> 0, inb |-> <<>>, outb |-> <<>>]
mbedtls_create(role) == [brole |-> role, step |-> 0, inb |-> <<>>, outb |-> <<>>]

\* The role "actpass" is passive; the fingerprint the descriptions said is
\* the peer's, or the other side is somebody else.
xDtlsTransportCreate(backend, role, fp) ==
    LET ctx == IF backend = "openssl" THEN openssl_create(role) ELSE mbedtls_create(role)
    IN  [st |-> "new", role |-> role, brole |-> ctx.brole, timer |-> FALSE, driving |-> FALSE, fed |-> FALSE,
         step |-> ctx.step, inb |-> ctx.inb, outb |-> ctx.outb, fp |-> fp, got |-> 0]

DtlsInit == \E backend \in DtlsBackends, sync \in BOOLEAN, fp \in BOOLEAN, role \in {"active", "passive"} :
               dtls = [a |-> xDtlsTransportCreate(backend, "active", TRUE), b |-> xDtlsTransportCreate(backend, role, fp),
                       net |-> {}, lost |-> 0,
                       backend |-> backend, sync |-> sync]

-----------------------------------------------------------------------------
\* What the library waits for at a step, what it sends on it, where it gets to.
Waits(s) == IF s.role = "active" THEN (IF s.step = 1 THEN 2 ELSE IF s.step = 3 THEN 4 ELSE 0)
            ELSE (IF s.step = 0 THEN 1 ELSE IF s.step = 2 THEN 3 ELSE 0)

RECURSIVE xDtlsTransportFeedInput(_, _, _)
RECURSIVE drive_handshake(_, _)
RECURSIVE Handshake(_, _)

SendFn(s, x, m) == IF s.sync THEN xDtlsTransportFeedInput(s, DtlsPeer(x), m)
                   ELSE [s EXCEPT !.net = @ \union {<<DtlsPeer(x), m>>}]

\* A flight leaves the library: at once, or into its output buffer.
Emit(s, x, m) == IF s.backend = "mbedtls" THEN SendFn(s, x, m)
                 ELSE [s EXCEPT ![x].outb = Append(@, m)]

RECURSIVE flush_bio_out(_, _)
flush_bio_out(s, x) ==
    IF s[x].outb = <<>> THEN s
    ELSE flush_bio_out(SendFn([s EXCEPT ![x].outb = Tail(@)], x, Head(s[x].outb)), x)

\* SSL_do_handshake, mbedtls_ssl_handshake: as far as the input goes.  The
\* data of a peer that is done earlier stays in the buffer, for the read.
Handshake(s, x) ==
    LET me == s[x]
    IN  IF me.step = 9 \/ me.step = -1 THEN s
        ELSE IF me.role = "active" /\ me.step = 0
             THEN Handshake(Emit([s EXCEPT ![x].step = 1], x, 1), x)
        ELSE IF me.inb = <<>> THEN s
        ELSE LET t == [s EXCEPT ![x].inb = Tail(@)]
             IN  IF Head(me.inb) # Waits(me) THEN Handshake(t, x)
                 ELSE IF me.role = "active"
                      THEN IF me.step = 1 THEN Handshake(Emit([t EXCEPT ![x].step = 3], x, 3), x)
                           ELSE [t EXCEPT ![x].step = 9]
                      ELSE IF me.step = 0 THEN Handshake(Emit([t EXCEPT ![x].step = 2], x, 2), x)
                           ELSE Emit([t EXCEPT ![x].step = 9], x, 4)

\* Every datagram the SSL object holds is decrypted and handed on.
drain_decrypted(s, x) ==
    [s EXCEPT ![x].got = IF 5 \in {s[x].inb[i] : i \in 1 .. Len(s[x].inb)} THEN 1 ELSE @, ![x].inb = <<>>]

\* The callback of a side that is connected sends at once.
Connected(s, x) ==
    LET t == Emit([s EXCEPT ![x].st = "connected", ![x].timer = FALSE], x, 5)
        u == flush_bio_out(t, x)
    IN  [u EXCEPT ![x].driving = FALSE]

\* It stops at the first "again", whatever came in meanwhile.
drive_handshake_once(s0, x) ==
    IF s0[x].st # "connecting" \/ s0[x].driving THEN s0
    ELSE LET s == flush_bio_out(Handshake([s0 EXCEPT ![x].driving = TRUE, ![x].fed = FALSE], x), x)
         IN  IF s[x].step = 9 /\ s[x].fp THEN Connected(s, x)
             ELSE [s EXCEPT ![x].driving = FALSE, ![x].st = IF s[x].step \in {9, -1} THEN "failed" ELSE @]

\* The loop of the code: once more while data came in during the handshake or
\* during the flush.
drive_handshake(s0, x) ==
    IF s0[x].st # "connecting" \/ s0[x].driving THEN s0
    ELSE LET s == flush_bio_out(Handshake([s0 EXCEPT ![x].driving = TRUE, ![x].fed = FALSE], x), x)
         IN  IF s[x].step = 9 /\ s[x].fp THEN Connected(s, x)
             ELSE IF s[x].step \in {9, -1} THEN [s EXCEPT ![x].st = "failed", ![x].driving = FALSE]
             ELSE IF s[x].fed THEN drive_handshake([s EXCEPT ![x].driving = FALSE], x)
             ELSE [s EXCEPT ![x].driving = FALSE]

\* A memory BIO takes every datagram, the ring buffer what fits.
openssl_feed_input(s, x, m) == [s EXCEPT ![x].inb = Append(@, m)]
mbedtls_backend_feed_input(s, x, m) ==
    IF Len(s[x].inb) < IoBufCap THEN [s EXCEPT ![x].inb = Append(@, m)] ELSE s

\* The datagram goes into the backend; then the handshake, then the data.
xDtlsTransportFeedInput(s0, x, m) ==
    LET b == IF s0.backend = "openssl" THEN openssl_feed_input(s0, x, m) ELSE mbedtls_backend_feed_input(s0, x, m)
        f == [b EXCEPT ![x].fed = @ \/ s0[x].driving]
        h == IF f[x].st = "connecting" THEN drive_handshake(f, x) ELSE f
    IN  IF s0[x].st = "closed" \/ b = s0 THEN s0
        ELSE IF h[x].st = "connected" /\ ~h[x].driving THEN drain_decrypted(h, x) ELSE h

-----------------------------------------------------------------------------
xDtlsTransportStart(x) ==
    /\ dtls[x].st = "new"
    /\ dtls' = drive_handshake([dtls EXCEPT ![x].st = "connecting", ![x].timer = TRUE], x)

\* The backend notes the role and tears its SSL object down before it makes
\* the new one, which may fail; asked for the role it has, it does nothing.
openssl_set_role(s, x, role, ok) ==
    IF s[x].brole = role THEN s
    ELSE [s EXCEPT ![x].brole = role, ![x].step = IF ok THEN 0 ELSE -1, ![x].inb = <<>>, ![x].outb = <<>>]
mbedtls_backend_set_role(s, x, role, ok) ==
    IF s[x].brole = role THEN s
    ELSE [s EXCEPT ![x].brole = role, ![x].step = IF ok THEN 0 ELSE -1, ![x].inb = <<>>]

xDtlsTransportSetRole(x, ok) ==
    /\ dtls[x].st = "new" /\ ~dtls.sync
    /\ LET role == IF dtls[x].role = "active" THEN "passive" ELSE "active"
           s == IF dtls.backend = "openssl" THEN openssl_set_role(dtls, x, role, ok)
                ELSE mbedtls_backend_set_role(dtls, x, role, ok)
       IN  dtls' = IF s = dtls \/ ok THEN [s EXCEPT ![x].role = role] ELSE s

Arrives == \E p \in dtls.net : dtls' = xDtlsTransportFeedInput([dtls EXCEPT !.net = @ \ {p}], p[1], p[2])
Lost == dtls.lost < MaxLost /\ \E p \in dtls.net : dtls' = [dtls EXCEPT !.net = @ \ {p}, !.lost = @ + 1]

\* Ten seconds: the network has delivered or lost what was sent.
handshake_timeout_cb(x) ==
    /\ dtls[x].timer /\ dtls.net = {}
    /\ dtls' = [dtls EXCEPT ![x].timer = FALSE, ![x].st = IF @ = "connecting" THEN "failed" ELSE @]

xDtlsTransportDestroy(x) ==
    /\ ~dtls.sync /\ dtls[x].st # "closed"
    /\ dtls' = [dtls EXCEPT ![x].st = "closed", ![x].timer = FALSE, ![x].inb = <<>>, ![x].outb = <<>>]

DtlsNext == \/ \E x \in Sides : xDtlsTransportStart(x) \/ handshake_timeout_cb(x) \/ xDtlsTransportDestroy(x)
            \/ \E x \in Sides, ok \in BOOLEAN : xDtlsTransportSetRole(x, ok)
            \/ Arrives \/ Lost

\* The network delivers what it does not lose, and the timer fires.
FairSpec == DtlsInit /\ [][DtlsNext]_dtls /\ WF_dtls(Arrives) /\ \A x \in Sides : WF_dtls(handshake_timeout_cb(x))
DtlsSpec == DtlsInit /\ [][DtlsNext]_dtls

-----------------------------------------------------------------------------
\* A side is connected only when its handshake is done with a peer of the
\* other role whose certificate has the expected fingerprint, and the
\* re-entrancy guard is never left set, so that a later datagram is not
\* ignored (dtls_transport.c:79-153).
ConnectedVerified ==
    \A x \in Sides : /\ ~dtls[x].driving
                     /\ dtls[x].st = "connected" => dtls[x].step = 9 /\ dtls[x].fp
                     /\ dtls[x].st = "connecting" => dtls[x].timer /\ dtls[x].inb = <<>> /\ dtls[x].outb = <<>>

\* When datagrams are handed over inside the send, both sides are connected as
\* soon as both are started: nothing is left for a datagram nobody will send.
LoopbackConnects ==
    dtls.sync /\ dtls.a.role # dtls.b.role /\ dtls.b.fp /\ {dtls.a.st, dtls.b.st} \intersect {"new", "failed"} = {}
           => dtls.a.st = "connected" /\ dtls.b.st = "connected"

\* Both of the above.
DtlsSound == ConnectedVerified /\ LoopbackConnects

Connecting(x) == dtls[x].st = "connecting"
=============================================================================
