-------------------------------- MODULE Stun --------------------------------
(***************************************************************************)
(* What peers use to find each other: STUN messages, data through a TURN   *)
(* server, the NAT probe and session descriptions, each with a state of    *)
(* its own.                                                                *)
(***************************************************************************)
EXTENDS Integers, Sequences, FiniteSets, TLC, SequencesExt, Bitwise

-----------------------------------------------------------------------------
(***************************************************************************)
(* STUN messages (libx/x/p2p/stun_msg.c, stun_attr.c): the writer that     *)
(* appends attributes, the iterator that reads them back, addresses hidden *)
(* by XOR, and the two attributes that seal what stands before them.       *)
(* A cell stands for a field: an attribute is <<type, length>> followed by *)
(* its value padded to a multiple of Align cells.  A digest is the tuple   *)
(* of what was hashed: the key, the length field and the cells before it.  *)
(***************************************************************************)

CONSTANTS Align,       \* XSTUN_ALIGN4 in cells
          Cookie,      \* the cell of the magic cookie
          Txn,         \* the cell of the transaction id
          Cells,       \* the values of one address cell
          Keys,        \* integrity keys
          AttrCap,     \* the room of a writer, in cells
          MaxAttrs     \* attributes one message gets

VARIABLE stun    \* the message: attrs, the writer's cells; wrote, what was
                 \* asked for in order; key, the sealing key; got, what the
                 \* other side read; phase
StunVars == stun

Hdr == 2
Padded(n) == ((n + Align - 1) \div Align) * Align
Zeros(n) == [i \in 1 .. n |-> 0]

\* a digest fills one cell in the model: what the receiver recomputes
Digest(key, len, cells) == <<key, len, cells>>

attr_write_raw(w, type, value) ==
    LET padded == Padded(Len(value)) IN
    IF Len(w) + Hdr + padded > AttrCap THEN w
    ELSE w \o <<type, Len(value)>> \o value \o Zeros(padded - Len(value))

\* IPv4 hides the port and the address behind the cookie; IPv6 the second
\* half of the address behind the transaction id
encode_address(addr, xor) ==
    LET H(c, k) == IF xor THEN c ^^ k ELSE c IN
    IF addr.family = "v4" THEN <<0, 1, H(addr.port, Cookie), H(addr.ip[1], Cookie)>>
    ELSE <<0, 2, H(addr.port, Cookie), H(addr.ip[1], Cookie), H(addr.ip[2], Txn)>>

decode_address(value, xor) ==
    LET H(c, k) == IF xor THEN c ^^ k ELSE c IN
    IF Len(value) < 4 THEN [family |-> "bad"]
    ELSE IF value[2] = 1
         THEN [family |-> "v4", port |-> H(value[3], Cookie), ip |-> <<H(value[4], Cookie)>>]
         ELSE IF value[2] = 2 /\ Len(value) >= 5
              THEN [family |-> "v6", port |-> H(value[3], Cookie),
                    ip |-> <<H(value[4], Cookie), H(value[5], Txn)>>]
              ELSE [family |-> "bad"]

\* class and number; the reader keeps three bits of the class
xStunAttrWriteErrorCode(code) == <<0, 0, code \div 100, code % 100>>
xStunAttrDecodeErrorCode(value) == (value[3] % 8) * 100 + value[4]

\* the length field counts up to and including the sealing attribute,
\* whatever the header says at that moment
xStunAttrWriteMessageIntegrity(w, key) ==
    attr_write_raw(w, "mi", <<Digest(key, Len(w) + Hdr + 1, w)>>)

xStunAttrWriteFingerprint(w) ==
    attr_write_raw(w, "fp", <<Digest("crc", Len(w) + Hdr + 1, w)>>)

\* at: where the attribute's header begins.  The sealing attribute's own
\* padding is not counted by either side
xStunAttrVerifyMessageIntegrity_whole(cells, at, value, key) ==
    Len(value) = 1 /\ value[1] = Digest(key, Len(cells), SubSeq(cells, 1, at - 1))

xStunAttrVerifyMessageIntegrity(cells, at, value, key) ==
    Len(value) = 1
        /\ value[1] = Digest(key, (at - 1) + Hdr + 1, SubSeq(cells, 1, at - 1))

xStunAttrVerifyFingerprint(cells, at, value) ==
    Len(value) = 1
        /\ value[1] = Digest("crc", (at - 1) + Hdr + 1, SubSeq(cells, 1, at - 1))

Advance(n) == Hdr + Padded(n)

RECURSIVE Iterate(_, _)
\* xStunAttrIterNext until it refuses: a header that does not fit, or a
\* length past the end
Iterate(cells, pos) ==
    IF pos + Hdr > Len(cells) THEN << >>
    ELSE LET len == cells[pos + 2] IN
         IF pos + Hdr + len > Len(cells) THEN << >>
         ELSE <<[type |-> cells[pos + 1], at |-> pos + 1,
                 value |-> SubSeq(cells, pos + Hdr + 1, pos + Hdr + len)]>>
              \o Iterate(cells, pos + Advance(len))

\* header and payload; the decoder takes the payload the length announces
xStunMsgEncode(cells) == [len |-> Len(cells), body |-> cells]
xStunMsgDecode(pkt) ==
    IF pkt.len > Len(pkt.body) THEN << >> ELSE SubSeq(pkt.body, 1, pkt.len)

Addrs == [family: {"v4"}, port: Cells, ip: [1 .. 1 -> Cells]]
         \cup [family: {"v6"}, port: Cells, ip: [1 .. 2 -> Cells]]

Value(want) == CASE want.type = "addr"  -> encode_address(want.v, FALSE)
                 [] want.type = "xaddr" -> encode_address(want.v, TRUE)
                 [] want.type = "error" -> xStunAttrWriteErrorCode(want.v)
                 [] want.type = "use"   -> << >>
                 [] want.type = "user"  -> <<7, 8, 9>>

Decoded(a) == CASE a.type = "addr"  -> [type |-> a.type, v |-> decode_address(a.value, FALSE)]
                [] a.type = "xaddr" -> [type |-> a.type, v |-> decode_address(a.value, TRUE)]
                [] a.type = "error" -> [type |-> a.type, v |-> xStunAttrDecodeErrorCode(a.value)]
                [] a.type = "use"   -> [type |-> a.type, v |-> Len(a.value)]
                [] a.type = "user"  -> [type |-> a.type, v |-> IF a.value = <<7, 8, 9>> THEN 0 ELSE 1]
                [] OTHER -> [type |-> a.type, v |-> a.at]

StunInit == stun = [phase |-> "write", cells |-> << >>, wrote |-> << >>, key |-> "none", pkt |-> [len |-> 0, body |-> << >>],
                    changed |-> FALSE]

Write(want) ==
    /\ stun.phase = "write"
    /\ Len(stun.wrote) < MaxAttrs
    /\ LET w == attr_write_raw(stun.cells, want.type, Value(want)) IN
       stun' = [stun EXCEPT !.cells = w, !.wrote = IF w = stun.cells THEN @ ELSE Append(@, want)]

\* every request and answer ends with MESSAGE-INTEGRITY, when there is a
\* key, and FINGERPRINT
Seal(key) ==
    /\ stun.phase = "write"
    /\ LET a == IF key = "none" THEN stun.cells ELSE xStunAttrWriteMessageIntegrity(stun.cells, key)
           b == xStunAttrWriteFingerprint(a)
       IN stun' = [stun EXCEPT !.phase = "sent", !.key = key, !.cells = b, !.pkt = xStunMsgEncode(b)]

\* one cell of a value changes on the way
Change(i, j, c) ==
    /\ stun.phase = "sent" /\ ~stun.changed
    /\ LET as == Iterate(stun.pkt.body, 0) IN
       /\ i \in 1 .. Len(as) /\ as[i].type \notin {"mi", "fp"}
       /\ j \in 1 .. Len(as[i].value) /\ as[i].value[j] # c
       /\ stun' = [stun EXCEPT !.pkt.body[as[i].at + Hdr + j - 1] = c, !.changed = TRUE]

\* what the callers write: an address, hidden or not, an error code, a name
\* and the flag without a value
WriteWanted ==
    \/ \E type \in {"addr", "xaddr"}, v \in Addrs : Write([type |-> type, v |-> v])
    \/ \E v \in {300, 401, 487, 699} : Write([type |-> "error", v |-> v])
    \/ \E type \in {"use", "user"} : Write([type |-> type, v |-> 0])

StunNext == \/ WriteWanted
            \/ \E key \in Keys \cup {"none"} : Seal(key)
            \/ \E i \in 1 .. MaxAttrs, j \in 1 .. AttrCap, c \in Cells : Change(i, j, c)

StunSpec == StunInit /\ [][StunNext]_StunVars

----------------------------------------------------------------------------
Got == xStunMsgDecode(stun.pkt)
Attrs == Iterate(Got, 0)
Plain == SelectSeq(Attrs, LAMBDA a : a.type \notin {"mi", "fp"})
Sealed(type) == {a \in ToSet(Attrs) : a.type = type}

\* A message that arrives as it was sent reads back as what was written, in
\* order and with the same values, and every seal in it verifies under the
\* sender's key alone; in a message changed on the way no seal that stands
\* after the change verifies (stun_attr.c: writer and iterator agree on the
\* padding, sender and receiver on the length that is hashed).
MessagesRight ==
    stun.phase = "sent" =>
           IF ~stun.changed
           THEN /\ [i \in 1 .. Len(Plain) |-> Decoded(Plain[i])] = stun.wrote
                /\ \A a \in Sealed("mi") : \A k \in Keys :
                       xStunAttrVerifyMessageIntegrity(Got, a.at, a.value, k) <=> k = stun.key
                /\ \A a \in Sealed("fp") : xStunAttrVerifyFingerprint(Got, a.at, a.value)
           ELSE \A a \in Sealed("fp") : SubSeq(Got, 1, a.at - 1) # SubSeq(stun.cells, 1, a.at - 1)
                    => ~xStunAttrVerifyFingerprint(Got, a.at, a.value)

-----------------------------------------------------------------------------
(***************************************************************************)
(* Data through a TURN relay (turn_client.c, turn_channel.c): permissions, *)
(* channels, and data both ways, over a network that loses, repeats and    *)
(* reorders.  Allocation and its refreshes are IceAgent's.  The server is  *)
(* external: it follows RFC 5766, and may refuse a request.                *)
(*                                                                         *)
(* A peer is <<ip, port>>.  Data is a sequence of bytes, padded on the     *)
(* wire to a multiple of Pad (4 in the code).                              *)
(***************************************************************************)

CONSTANTS Ips, PortsT,     \* addresses of peers
          Pad,             \* alignment of channel data
          MinChannel, MaxChannel,
          MaxChannels, MaxPermissions,
          Payloads,        \* lengths of the data sent
          Refuses          \* whether the server may refuse requests

VARIABLE turn

TurnPeers == Ips \X PortsT
Data(n) == [i \in 1..n |-> n]
AlignUp(n) == ((n + Pad - 1) \div Pad) * Pad

\* Channel data on the wire: number, length, padded bytes.
xTurnChannelDataEncode(ch, data) ==
  [kind |-> "channel", ch |-> ch, len |-> Len(data),
   bytes |-> data \o [i \in 1..(AlignUp(Len(data)) - Len(data)) |-> 0]]

xTurnChannelDataDecode(msg) ==
  IF msg.ch < MinChannel \/ msg.ch > MaxChannel \/ msg.len > Len(msg.bytes)
  THEN [ok |-> FALSE, data |-> <<>>]
  ELSE [ok |-> TRUE, data |-> SubSeq(msg.bytes, 1, msg.len)]

Send(x, msg) == [x EXCEPT !.net = @ \cup {msg}]

xTurnClientCreatePermission(x, peer) ==
  IF Len(x.permissions) >= MaxPermissions THEN x
  ELSE Send([x EXCEPT !.permissions = Append(@, peer)], [kind |-> "permit", peer |-> peer])

\* The binding counts from the moment it is asked for.
xTurnClientChannelBind(x, peer) ==
  IF Len(x.channels) >= MaxChannels \/ x.next > MaxChannel THEN x
  ELSE Send([x EXCEPT !.channels = Append(@, [number |-> x.next, peer |-> peer, bound |-> TRUE]),
                      !.next = @ + 1],
            [kind |-> "bind", ch |-> x.next, peer |-> peer])

\* Whatever the server answers, only a log line comes of it.
on_permission_response(x) == x
on_channel_bind_response(x) == x

First(S) == CHOOSE i \in S : \A j \in S : i <= j

\* The first channel bound to the peer's address and port, or none.
find_channel_for_peer(x, peer) ==
  LET found == {i \in 1..Len(x.channels) : x.channels[i].bound /\ x.channels[i].peer = peer}
  IN IF found = {} THEN 0 ELSE x.channels[First(found)].number

xTurnClientSendData(x, peer, data) ==
  LET ch == find_channel_for_peer(x, peer)
  IN Send(x,
          IF ch # 0 THEN xTurnChannelDataEncode(ch, data)
          ELSE [kind |-> "send", peer |-> peer, data |-> data])

on_data(x, data, from) == [x EXCEPT !.told = @ \cup {<<data, from>>}]

\* Responses go to their transaction; a data indication to the user.
xTurnClientOnMessage(x, msg) ==
  CASE msg.kind = "permitted" -> on_permission_response(x)
    [] msg.kind = "bound" -> on_channel_bind_response(x)
    [] OTHER -> on_data(x, msg.data, msg.peer)

xTurnClientOnChannelData(x, msg) ==
  LET read == xTurnChannelDataDecode(msg)
      found == {i \in 1..Len(x.channels) : x.channels[i].number = msg.ch /\ x.channels[i].bound}
  IN IF read.ok /\ found # {} THEN on_data(x, read.data, x.channels[First(found)].peer) ELSE x

-----------------------------------------------------------------------------
\* The server.  `bindings` maps channel numbers to peers.
Bound(x, peer) == {ch \in DOMAIN x.bindings : x.bindings[ch] = peer}

ServeBind(x, msg, yes) ==
  LET free == msg.ch \notin DOMAIN x.bindings /\ Bound(x, msg.peer) = {}
      same == msg.ch \in DOMAIN x.bindings /\ x.bindings[msg.ch] = msg.peer
      ok == yes /\ (free \/ same)
  IN [x EXCEPT !.bindings = IF ok THEN (msg.ch :> msg.peer) @@ @ ELSE @,
               !.back = @ \cup {[kind |-> "bound", ch |-> msg.ch, ok |-> ok]},
               !.allowed = IF ok THEN @ \cup {msg.peer} ELSE @]

ServePermit(x, msg, yes) ==
  [x EXCEPT !.allowed = IF yes THEN @ \cup {msg.peer} ELSE @,
            !.back = @ \cup {[kind |-> "permitted", ok |-> yes]}]

Arrives(x, peer, data) == [x EXCEPT !.arrived = @ \cup {<<data, peer>>}]

Serve(x, msg, yes) ==
  CASE msg.kind = "bind" -> ServeBind(x, msg, yes)
    [] msg.kind = "permit" -> ServePermit(x, msg, yes)
    [] msg.kind = "send" -> IF msg.peer \in x.allowed THEN Arrives(x, msg.peer, msg.data) ELSE x
    [] OTHER -> IF msg.ch \in DOMAIN x.bindings
                THEN Arrives(x, x.bindings[msg.ch], SubSeq(msg.bytes, 1, msg.len)) ELSE x

\* A peer writes to the relayed address.
Relay(x, peer, data) ==
  LET chs == Bound(x, peer)
  IN IF peer \notin x.allowed THEN x
     ELSE IF chs # {} THEN [x EXCEPT !.back = @ \cup {xTurnChannelDataEncode(First(chs), data)}]
     ELSE [x EXCEPT !.back = @ \cup {[kind |-> "data", peer |-> peer, data |-> data]}]

-----------------------------------------------------------------------------
TurnInit ==
  turn = [channels |-> <<>>, next |-> MinChannel, permissions |-> <<>>, net |-> {}, back |-> {},
          bindings |-> [ch \in {} |-> <<>>], allowed |-> {},
          sent |-> {}, said |-> {}, arrived |-> {}, told |-> {}]

Permission(peer) == turn' = xTurnClientCreatePermission(turn, peer)
Bind(peer) == turn' = xTurnClientChannelBind(turn, peer)

SendData(peer, n) ==
  turn' = [xTurnClientSendData(turn, peer, Data(n)) EXCEPT !.sent = @ \cup {<<Data(n), peer>>}]

Says(peer, n) ==
  /\ peer \in turn.allowed
  /\ turn' = [Relay(turn, peer, Data(n)) EXCEPT !.said = @ \cup {<<Data(n), peer>>}]

\* Messages stay in the network: any of them may come again, or never.
ServerHears(msg, yes) == turn' = Serve(turn, msg, yes)

ClientHears(msg) ==
  turn' = IF msg.kind = "channel" THEN xTurnClientOnChannelData(turn, msg)
          ELSE xTurnClientOnMessage(turn, msg)

TurnNext ==
  \/ \E peer \in TurnPeers :
       \/ Permission(peer)
       \/ Bind(peer)
       \/ \E n \in Payloads : SendData(peer, n) \/ Says(peer, n)
  \/ \E msg \in turn.net, yes \in (IF Refuses THEN BOOLEAN ELSE {TRUE}) : ServerHears(msg, yes)
  \/ \E msg \in turn.back : ClientHears(msg)

TurnSpec == TurnInit /\ [][TurnNext]_turn
-----------------------------------------------------------------------------
\* What reaches a peer was sent to it, and what the user is handed came from
\* the peer it is said to come from, whole and without padding: whatever was
\* bound meanwhile, whichever bindings the server refused, and however the
\* network repeats and reorders.
RelayedRight == turn.arrived \subseteq turn.sent /\ turn.told \subseteq turn.said

-----------------------------------------------------------------------------
(***************************************************************************)
(* The NAT type probe (src/libx/x/p2p/nat_probe.c): two names are resolved *)
(* one after the other, two tests share one socket towards two servers     *)
(* and, if they saw different ports, three more sockets ask one server.    *)
(*                                                                         *)
(* The probe is one record.  A test is [st, port, fd, sock]; a descriptor  *)
(* is a number, the lowest free one when it is opened; sock says that the  *)
(* test owns an xSocket.  Answers may be lost, late or for no test.        *)
(***************************************************************************)

CONSTANTS MappedPorts,   \* ports a server may report
          MaxFd          \* bound: descriptors of the process

VARIABLE probe

Test == [st |-> "idle", port |-> 0, fd |-> 0, sock |-> FALSE]
Probe == [phase |-> "none", dns |-> FALSE, t1 |-> <<Test, Test>>, t2 |-> <<Test, Test, Test>>,
          count1 |-> 0, count2 |-> 0, timer |-> FALSE, open |-> {},
          alive |-> FALSE, cancelled |-> FALSE, calls |-> 0, result |-> <<>>, wild |-> FALSE]
ProbeInit == probe = Probe

-----------------------------------------------------------------------------
(* Descriptors are the lowest free numbers; two tests may share one.       *)
Free(x) == (1 .. MaxFd) \ x.open
Lowest(S) == CHOOSE f \in S : \A g \in S : f <= g
Close(x, f) == [x EXCEPT !.open = @ \ {f}]

(* One test of nat_probe_free: its xSocket, or the descriptor it kept.     *)
CloseTest(x, t) == IF t.sock \/ t.fd > 0 THEN Close(x, t.fd) ELSE x
NatFree(x) ==
    LET y == CloseTest(CloseTest(x, x.t1[1]), x.t1[2])
        z == CloseTest(CloseTest(CloseTest(y, x.t2[1]), x.t2[2]), x.t2[3])
    IN  [z EXCEPT !.alive = FALSE, !.timer = FALSE]

Done(ts) == {i \in DOMAIN ts : ts[i].st = "done"}

(* nat_classify_phase2                                                     *)
Classify(a, b, c) ==
    IF b - a = c - b /\ b # a THEN <<"SymmetricSequential", b - a>> ELSE <<"SymmetricRandom", 0>>

(* Mutant of Verdict: unanswered tests are compared like answered ones.    *)
VerdictHasty(x, timedOut) ==
    IF timedOut THEN <<"Unknown", 0>>
    ELSE IF x.t1[1].port = x.t1[2].port THEN <<"Cone", 0>>
    ELSE IF Done(x.t2) # {1, 2, 3} THEN <<"SymmetricRandom", 0>>
    ELSE Classify(x.t2[1].port, x.t2[2].port, x.t2[3].port)

(* nat_probe_finish                                                        *)
Verdict(x, timedOut) ==
    IF timedOut \/ Done(x.t1) # {1, 2} THEN <<"Unknown", 0>>
    ELSE IF x.t1[1].port = x.t1[2].port THEN <<"Cone", 0>>
    ELSE IF Done(x.t2) # {1, 2, 3} THEN <<"SymmetricRandom", 0>>
    ELSE Classify(x.t2[1].port, x.t2[2].port, x.t2[3].port)
Finish(x, timedOut) ==
    NatFree([x EXCEPT !.calls = @ + 1, !.result = Verdict(x, timedOut)])

(* nat_probe_check_phase2_done and nat_probe_start_phase2: sent says which *)
(* requests left, made how many sockets could be created.                  *)
CheckPhase2(x) == IF x.count2 < 3 THEN x ELSE Finish(x, FALSE)
RECURSIVE OpenAll(_, _, _)
OpenAll(x, i, n) ==
    IF i > n \/ Free(x) = {} THEN x
    ELSE LET f == Lowest(Free(x))
         IN  OpenAll([x EXCEPT !.open = @ \cup {f}, !.t2[i].fd = f, !.t2[i].sock = TRUE], i + 1, n)
StartPhase2(x, made, sent) ==
    LET y == OpenAll([x EXCEPT !.phase = "Phase2"], 1, made)
        z == [y EXCEPT !.t2 = [i \in 1 .. 3 |->
                                 [y.t2[i] EXCEPT !.st = IF i \in sent THEN "waiting" ELSE "failed"]],
                       !.count2 = 3 - Cardinality(sent)]
    IN  IF made < 3 THEN Finish(y, FALSE) ELSE CheckPhase2(z)

(* nat_probe_check_phase1_done: the shared socket is closed through the    *)
(* test that owns it; the other keeps its copy of the descriptor.          *)
CloseShared(x) == [Close(x, x.t1[1].fd) EXCEPT !.t1[1].fd = 0, !.t1[1].sock = FALSE]
CheckPhase1(x, made, sent) ==
    IF x.count1 < 2 THEN x
    ELSE IF Done(x.t1) # {1, 2} THEN Finish(x, FALSE)
    ELSE IF x.t1[1].port = x.t1[2].port THEN Finish(CloseShared(x), FALSE)
    ELSE StartPhase2(CloseShared(x), made, sent)

-----------------------------------------------------------------------------
Live == probe.alive /\ ~probe.wild
Later == [made : {2, 3}, sent : SUBSET (1 .. 3)]

(* xNatProbeStart                                                          *)
Start == probe.phase = "none" /\ probe' = [probe EXCEPT !.phase = "DNS1", !.dns = TRUE, !.timer = TRUE, !.alive = TRUE]

(* nat_probe_on_dns1; the second query may be refused.                     *)
Dns1(found, asked) ==
    /\ probe.phase = "DNS1" /\ probe.dns /\ Live
    /\ LET x == [probe EXCEPT !.dns = FALSE]
       IN  probe' = IF found /\ asked THEN [x EXCEPT !.phase = "DNS2", !.dns = TRUE] ELSE Finish(x, FALSE)

(* nat_probe_on_dns2 with nat_probe_start_phase1                           *)
Dns2(found, made, sent) ==
    /\ probe.phase = "DNS2" /\ probe.dns /\ Live
    /\ LET f == Lowest(Free(probe))
           x == [probe EXCEPT !.dns = FALSE]
           y == [x EXCEPT !.phase = "Phase1", !.open = @ \cup {f},
                          !.t1 = [i \in 1 .. 2 |-> [st |-> IF i \in sent THEN "waiting" ELSE "failed",
                                                     port |-> 0, fd |-> f, sock |-> i = 1]],
                          !.count1 = 2 - Cardinality(sent)]
       IN  probe' = IF found /\ made /\ Free(probe) # {} THEN CheckPhase1(y, 3, {}) ELSE Finish(x, FALSE)

(* An answer arrives after the probe is gone: the query was not cancelled. *)
DnsLate == probe.dns /\ ~probe.alive /\ ~probe.wild /\ probe' = [probe EXCEPT !.dns = FALSE, !.wild = TRUE]

(* nat_probe_phase1_on_readable: a batch of answers, or the read timeout.  *)
Answer(x, i, port) ==
    IF x.t1[i].st # "waiting" THEN x
    ELSE [x EXCEPT !.t1[i].st = "done", !.t1[i].port = port, !.count1 = @ + 1]
Readable1(batch) ==
    /\ probe.phase = "Phase1" /\ Live
    /\ LET x == Answer(probe, batch[1].test, batch[1].port)
           y == IF Len(batch) = 2 THEN Answer(x, batch[2].test, batch[2].port) ELSE x
       IN  \E l \in Later : probe' = CheckPhase1(y, l.made, l.sent)
TimeoutPhase1 ==
    /\ probe.phase = "Phase1" /\ Live
    /\ probe' = CheckPhase1([probe EXCEPT !.t1 = [i \in 1 .. 2 |-> IF @[i].st = "waiting"
                                                                   THEN [@[i] EXCEPT !.st = "failed"] ELSE @[i]],
                                          !.count1 = 2], 3, {})

(* nat_probe_phase2_on_readable                                            *)
Readable2(i, port) ==
    /\ probe.phase = "Phase2" /\ Live /\ probe.t2[i].st = "waiting"
    /\ probe' = CheckPhase2([probe EXCEPT !.t2[i].st = "done", !.t2[i].port = port, !.count2 = @ + 1])
TimeoutPhase2(i) ==
    /\ probe.phase = "Phase2" /\ Live /\ probe.t2[i].st = "waiting"
    /\ probe' = CheckPhase2([probe EXCEPT !.t2[i].st = "failed", !.count2 = @ + 1])

(* nat_probe_on_timeout and xNatProbeCancel                                *)
Timeout == Live /\ probe.timer /\ probe' = Finish(probe, TRUE)
Cancel == Live /\ probe' = NatFree([probe EXCEPT !.dns = FALSE, !.cancelled = TRUE])

Batches == LET A == [test : {1, 2}, port : MappedPorts] IN {<<a>> : a \in A} \cup {<<a, b>> : a, b \in A}
ProbeNext ==
         \/ Start \/ DnsLate \/ TimeoutPhase1 \/ Timeout \/ Cancel
         \/ \E found, asked \in BOOLEAN : Dns1(found, asked)
         \/ \E found, made \in BOOLEAN, sent \in SUBSET {1, 2} : Dns2(found, made, sent)
         \/ \E b \in Batches : Readable1(b)
         \/ \E i \in 1 .. 3 : TimeoutPhase2(i) \/ \E port \in MappedPorts : Readable2(i, port)

ProbeVars == <<probe>>
ProbeSpec == ProbeInit /\ [][ProbeNext]_ProbeVars

-----------------------------------------------------------------------------
(* A probe has one end: it is alive with its timer armed and has not       *)
(* reported, or it is gone and has reported exactly once, or it was        *)
(* cancelled and never reports.                                            *)
ReportsOnce ==
    probe.phase # "none" =>
            IF probe.alive THEN probe.timer /\ probe.calls = 0 ELSE probe.calls = (IF probe.cancelled THEN 0 ELSE 1)

(* A verdict rests on answers: both first tests were answered, and a       *)
(* symmetric NAT is called random only once all second tests have ended.   *)
VerdictWhole ==
    probe.calls = 1 /\ probe.result[1] \in {"Cone", "SymmetricSequential", "SymmetricRandom"} =>
            /\ Done(probe.t1) = {1, 2}
            /\ probe.result[1] = "SymmetricRandom" => \A i \in 1 .. 3 : probe.t2[i].st # "waiting"

-----------------------------------------------------------------------------
(***************************************************************************)
(* The session description (libx/x/p2p/sdp.c): what one side writes, plain *)
(* or for WebRTC, and what the other reads from it.  A text is a sequence  *)
(* of lines, a line a record of the fields sscanf would take from it; a    *)
(* line the transport lost is cut at a field.  The reader keeps what it    *)
(* read until it refuses the whole text.                                   *)
(***************************************************************************)

CONSTANTS SdpIps,           \* addresses; "0.0.0.0" is one of them
          Ports,         \* ports the sockets have
          MaxCands,      \* XICE_MAX_CANDIDATES
          MaxOut,        \* the lines the caller's buffer has room for
          MaxSent        \* candidates one side gathers

VARIABLE sdp     \* what is sent, the text, and what is read
SdpVars == sdp

None == [ip |-> "none", port |-> 0]
Types == {"host", "srflx", "prflx", "relay"}
Socks == [ip: SdpIps, port: Ports]
Candidate == [type: Types, addr: Socks, rel: Socks \cup {None}]

\* a candidate behind a NAT names the address it came from, and 0.0.0.0
\* when none was recorded; a host candidate names none
xIceSdpEncodeCandidate(c) ==
    [k |-> "candidate", typ |-> c.type, addr |-> c.addr,
     raddr |-> IF c.type = "host" THEN None
               ELSE IF c.rel = None THEN [ip |-> "0.0.0.0", port |-> 0] ELSE c.rel]

xIceSdpDecodeCandidate(l) ==
    IF l.addr.ip = "junk" \/ l.typ \notin Types THEN [bad |-> TRUE]
    ELSE [bad |-> FALSE, c |-> [type |-> l.typ, addr |-> l.addr, rel |-> l.raddr]]

Line(k, v) == [k |-> k, v |-> v]

\* the lines before the candidates; -1 when the buffer is too short
Header(s) ==
    (IF s.webrtc
     THEN <<Line("m", "webrtc"), Line("mid", s.mid), Line("ufrag", s.ufrag), Line("pwd", s.pwd),
            Line("fingerprint", s.fingerprint), Line("setup", s.setup)>>
     ELSE <<Line("m", "ice"), Line("ufrag", s.ufrag), Line("pwd", s.pwd)>>)
    \o (IF s.trickle THEN <<Line("options", "trickle")>> ELSE << >>)

xIceSdpEncode(s) ==
    LET text == Header(s) \o [i \in 1 .. Len(s.cands) |-> xIceSdpEncodeCandidate(s.cands[i])] IN
    IF Len(text) >= MaxOut THEN [ok |-> FALSE, text |-> << >>] ELSE [ok |-> TRUE, text |-> text]

Blank == [ok |-> FALSE, webrtc |-> FALSE, trickle |-> FALSE, end |-> FALSE, ufrag |-> "", pwd |-> "",
          fingerprint |-> "", setup |-> "none", mid |-> "", cands |-> << >>]

\* one line; a candidate beyond the array, or one that does not parse, is
\* passed over
ReadLine(o, l) ==
    CASE l.k = "ufrag"       -> [o EXCEPT !.ufrag = l.v]
      [] l.k = "pwd"         -> [o EXCEPT !.pwd = l.v]
      [] l.k = "options"     -> [o EXCEPT !.trickle = @ \/ l.v = "trickle"]
      [] l.k = "end"         -> [o EXCEPT !.end = TRUE]
      [] l.k = "fingerprint" -> [o EXCEPT !.fingerprint = l.v]
      [] l.k = "setup"       -> IF l.v \in {"active", "passive", "actpass"} THEN [o EXCEPT !.setup = l.v] ELSE o
      [] l.k = "mid"         -> [o EXCEPT !.mid = l.v]
      [] l.k = "m"           -> [o EXCEPT !.webrtc = @ \/ l.v = "webrtc"]
      [] l.k = "candidate"   ->
            LET d == xIceSdpDecodeCandidate(l) IN
            IF Len(o.cands) >= MaxCands \/ d.bad THEN o ELSE [o EXCEPT !.cands = Append(@, d.c)]
      [] OTHER -> o

\* credentials are required, and for WebRTC the fingerprint
xIceSdpDecode(text) ==
    LET o == FoldLeft(ReadLine, Blank, text) IN
    [o EXCEPT !.ok = o.ufrag # "" /\ o.pwd # "" /\ (o.webrtc => o.fingerprint # "")]

Sessions ==
    [webrtc: BOOLEAN, trickle: BOOLEAN, ufrag: {"u"}, pwd: {"p"}, fingerprint: {"f"},
     setup: {"active", "passive", "actpass"}, mid: {"0"}, cands: {<< >>}]

SdpInit == /\ \E s \in Sessions : sdp = [s |-> s, phase |-> "gather", text |-> << >>, sent |-> FALSE,
                                         got |-> Blank, lost |-> FALSE]

Gather(c) ==
    /\ sdp.phase = "gather" /\ Len(sdp.s.cands) < MaxSent
    /\ c.type = "host" => c.rel = None
    /\ sdp' = [sdp EXCEPT !.s.cands = Append(@, c)]

SdpSend ==
       /\ sdp.phase = "gather"
       /\ LET e == xIceSdpEncode(sdp.s) IN
          sdp' = [sdp EXCEPT !.phase = "sent", !.sent = e.ok, !.text = e.text]

\* signalling is the application's: it may add what this side never wrote
\* (the end mark, a candidate of a kind this side does not know) or leave
\* lines out
AddLine(l) ==
    /\ sdp.phase = "sent" /\ sdp.sent /\ Len(sdp.text) < MaxOut /\ l \notin ToSet(sdp.text)
    /\ sdp' = [sdp EXCEPT !.text = Append(@, l), !.lost = @]
Foreign == {Line("end", ""), Line("other", ""),
            [k |-> "candidate", typ |-> "tcp", addr |-> CHOOSE a \in Socks : TRUE, raddr |-> None]}

DropLine(i) ==
    /\ sdp.phase = "sent" /\ sdp.sent /\ ~sdp.lost /\ i \in 1 .. Len(sdp.text)
    /\ sdp' = [sdp EXCEPT !.text = RemoveAt(@, i), !.lost = TRUE]

Receive ==
    /\ sdp.phase = "sent" /\ sdp.sent
    /\ sdp' = [sdp EXCEPT !.phase = "read", !.got = xIceSdpDecode(sdp.text)]

SdpNext == \/ \E c \in Candidate : Gather(c)
           \/ SdpSend
           \/ \E l \in Foreign : AddLine(l)
           \/ \E i \in 1 .. MaxOut : DropLine(i)
           \/ Receive

SdpSpec == SdpInit /\ [][SdpNext]_SdpVars

----------------------------------------------------------------------------
Named(c) == [c EXCEPT !.rel = IF c.type # "host" /\ c.rel = None THEN [ip |-> "0.0.0.0", port |-> 0] ELSE c.rel]

\* What one side sends the other reads: the credentials, the role, the
\* fingerprint and the candidates up to the array's length, in order, and
\* lines it does not know change nothing; a text that lost a line is either
\* refused or read with that line's field alone missing, and never read as
\* another session (sdp.c: xIceSdpEncode*, xIceSdpDecode).
SessionsAgree ==
    sdp.phase = "read" =>
          /\ ~sdp.lost =>
                 /\ sdp.got.ok
                 /\ \A f \in {"webrtc", "trickle", "ufrag", "pwd"} : sdp.got[f] = sdp.s[f]
                 /\ sdp.s.webrtc => \A f \in {"fingerprint", "setup", "mid"} : sdp.got[f] = sdp.s[f]
                 /\ sdp.got.cands = [i \in 1 .. (IF Len(sdp.s.cands) < MaxCands THEN Len(sdp.s.cands) ELSE MaxCands)
                                         |-> Named(sdp.s.cands[i])]
          /\ sdp.got.ok => /\ sdp.got.ufrag = sdp.s.ufrag /\ sdp.got.pwd = sdp.s.pwd
                           /\ sdp.got.webrtc => sdp.s.webrtc /\ sdp.got.fingerprint = sdp.s.fingerprint
                           /\ ToSet(sdp.got.cands) \subseteq {Named(c) : c \in ToSet(sdp.s.cands)}
=============================================================================
