-------------------------------- MODULE Dns ---------------------------------
(***************************************************************************)
(* DNS beside the client: the server with its zones, the names of a packet *)
(* and whole messages, each with a state of its own.                       *)
(***************************************************************************)
EXTENDS Naturals, Sequences, FiniteSets, SequencesExt

-----------------------------------------------------------------------------
(***************************************************************************)
(* xDnsServer: authoritative zones, a filter and a forwarder behind one    *)
(* UDP socket.                                                             *)
(*                                                                         *)
(* server.zones  the registered zones, each the sequence of its records,   *)
(*   the                                                                   *)
(*           newest first                                                  *)
(* server.inbox  queries the socket holds; server.fwd: queries handed to   *)
(*   the                                                                   *)
(*           forwarder; server.sent: responses, in order                   *)
(***************************************************************************)

CONSTANTS Names, Types,     \* names and record types; "other" is a type the
                            \* client library cannot ask for
          Blocked,          \* names the filter blocks
          MaxZones, MaxRecs, MaxQueries

VARIABLE server

NoRecords == <<>>

NewServer ==
    [live |-> TRUE, sock |-> FALSE, fwder |-> TRUE, zones |-> <<>>, inbox |-> <<>>,
     fwd |-> {}, sent |-> <<>>, asked |-> 0, dropped |-> 0]

-----------------------------------------------------------------------------
\* Zones.
Rec == [name : Names, type : Types \ {"other"}]

xDnsServerAddZone ==
    /\ server.live /\ Len(server.zones) < MaxZones
    /\ server' = [server EXCEPT !.zones = Append(@, <<>>)]

xDnsZoneAdd ==
    \E z \in 1 .. Len(server.zones), r \in Rec :
       /\ server.live /\ Len(server.zones[z]) < MaxRecs
       /\ server' = [server EXCEPT !.zones[z] = <<[name |-> r.name, type |-> r.type,
                                                   data |-> <<z, Len(@) + 1>>]>> \o @]

zone_lookup(z, q) == SelectSeq(z, LAMBDA r : r.type = q.type /\ r.name = q.name)

-----------------------------------------------------------------------------
\* Answering.  A response that cannot be built is not sent at all.
send_response(x, q, rcode, recs, fits) ==
    IF fits THEN [x EXCEPT !.sent = Append(@, [q |-> q, rcode |-> rcode, recs |-> recs])]
    ELSE [x EXCEPT !.dropped = @ + 1]

\* The last zone that knows the name answers.
FirstMatchLast(x, q) ==
    LET hits == {i \in 1 .. Len(x.zones) : zone_lookup(x.zones[i], q) # NoRecords}
    IN  IF hits = {} THEN 0 ELSE CHOOSE i \in hits : \A j \in hits : i >= j

\* The scan of the zones in registration order, up to the first that answers.
FirstMatch(x, q) ==
    LET Step(found, i) ==
            IF found # 0 \/ zone_lookup(x.zones[i], q) = NoRecords THEN found ELSE i
    IN  FoldLeft(Step, 0, [i \in 1 .. Len(x.zones) |-> i])

handle_query(x, q, fits, does) ==
    LET z == FirstMatch(x, q)
    IN  IF q.kind # "query" THEN [x EXCEPT !.dropped = @ + 1]   \* garbage or a response
        ELSE IF q.name \in Blocked THEN send_response(x, q, "nxdomain", NoRecords, fits)
        ELSE IF z # 0 THEN send_response(x, q, "ok", zone_lookup(x.zones[z], q), fits)
        ELSE IF ~x.fwder \/ q.type = "other"
             THEN send_response(x, q, "nxdomain", NoRecords, fits)
        ELSE CASE does = "asks"   -> [x EXCEPT !.fwd = @ \cup {q}]
               [] does = "fails"  -> send_response(x, q, "servfail", NoRecords, fits)
               [] does = "memory" -> [x EXCEPT !.dropped = @ + 1]

\* The handler drains the socket.
on_server_readable ==
    /\ server.live /\ server.sock /\ server.inbox # <<>>
    /\ \E fits \in BOOLEAN, does \in {"asks", "fails", "memory"} :
          server' = [FoldLeft(LAMBDA x, q : handle_query(x, q, fits, does), server, server.inbox)
                       EXCEPT !.inbox = <<>>]

\* The forwarder's answer, for a server that may be gone.
on_forward_done ==
    \E q \in server.fwd, err \in {"ok", "notfound", "timeout"}, fits \in BOOLEAN :
       LET rcode == CASE err = "ok" -> "ok" [] err = "notfound" -> "nxdomain"
                      [] OTHER -> "servfail"
           recs  == IF err = "ok" THEN <<[name |-> q.name, type |-> q.type, data |-> <<0, 0>>]>>
                    ELSE NoRecords
           x     == [server EXCEPT !.fwd = @ \ {q}]
       IN  server' = IF server.live THEN send_response(x, q, rcode, recs, fits)
                     ELSE x

\* bind_socket: IPv6 for both families, IPv4 otherwise, or an error.
xDnsServerListen ==
    /\ server.live /\ ~server.sock
    /\ \E ok \in BOOLEAN : server' = [server EXCEPT !.sock = ok]

\* The zones stay with their owner and the forwarder with its own; nobody
\* takes the forwarded queries back.
xDnsServerDestroy ==
    server.live /\ server' = [server EXCEPT !.live = FALSE, !.sock = FALSE, !.inbox = <<>>]

\* A datagram from a client.
Arrives ==
    /\ server.sock /\ server.asked < MaxQueries
    /\ \E n \in Names, t \in Types, kind \in {"query", "other"} :
          server' = [server EXCEPT !.asked = @ + 1,
                                   !.inbox = Append(@, [id |-> server.asked, name |-> n, type |-> t,
                                                        kind |-> kind])]

ServerInit == server \in {NewServer, [NewServer EXCEPT !.fwder = FALSE]}

ServerNext == \/ xDnsServerAddZone \/ xDnsZoneAdd \/ xDnsServerListen \/ xDnsServerDestroy
              \/ Arrives \/ on_server_readable \/ on_forward_done

ServerSpec == ServerInit /\ [][ServerNext]_server

-----------------------------------------------------------------------------
\* Every datagram read is answered once, waits with the forwarder, or was
\* dropped for a reason, whatever is read and forwarded meanwhile, and no
\* response is to something that was not asked (dns_server.c:291-412).
QueriesAccounted ==
    /\ server.live => server.asked = Len(server.inbox) + Cardinality(server.fwd) + Len(server.sent) + server.dropped
    /\ \A i, j \in 1 .. Len(server.sent) : server.sent[i].q.id = server.sent[j].q.id => i = j
    /\ \A i \in 1 .. Len(server.sent) :
          /\ server.sent[i].q.kind = "query" /\ server.sent[i].q \notin server.fwd
          /\ server.sent[i].rcode # "ok" => server.sent[i].recs = NoRecords
          /\ server.sent[i].q.name \in Blocked => server.sent[i].rcode = "nxdomain"

\* "The server checks all zones in registration order; first match wins"
\* (dns.h:228-229): a zone's answer is all it has for the question, and the
\* zones before it have nothing (dns_server.c:337-347).
FirstZoneStep ==
    \A i \in Len(server.sent) + 1 .. Len(server'.sent) :
       LET r == server'.sent[i] IN
       r.rcode = "ok" /\ r.q \notin server.fwd =>
          \E z \in 1 .. Len(server.zones) :
             /\ ToSet(r.recs) = {x \in ToSet(server.zones[z]) :
                                    x.name = r.q.name /\ x.type = r.q.type}
             /\ \A y \in 1 .. z - 1 : \A x \in ToSet(server.zones[y]) :
                   <<x.name, x.type>> # <<r.q.name, r.q.type>>

-----------------------------------------------------------------------------
(***************************************************************************)
(* Domain names on the wire: encode_name, and parse_name with compression  *)
(* pointers, on every short packet.  A byte below Ptr is a label's length  *)
(* or a letter of it; Ptr begins a pointer whose target is the next byte.  *)
(***************************************************************************)

CONSTANTS Bytes,       \* byte values of a packet
          MaxPacket,   \* longest packet
          MaxSeen,     \* pointers followed before giving up (64 in the code)
          OutCap       \* room for the decoded name (256 in the code)

VARIABLE wire

Ptr == 192
LabelMax == 63

\* Labels are sequences of letters; "" is the root.
encode_name(labels) ==
    FlattenSeq([i \in 1 .. Len(labels) |-> <<Len(labels[i])>> \o labels[i]]) \o <<0>>

Start(pos) == [cur |-> pos, out |-> <<>>, used |-> 0, end |-> 0, seen |-> <<>>, rc |-> "on"]

\* Offsets count from 0; buf[i] is buf[i + 1] here.
At(buf, i) == buf[i + 1]

\* One turn of parse_name's loop.
Turn(buf, x) ==
    LET c == At(buf, x.cur)
        to == At(buf, x.cur + 1) IN
    IF x.rc # "on" THEN x
    ELSE IF x.cur >= Len(buf) THEN [x EXCEPT !.rc = "bad"]
    ELSE IF c = Ptr THEN
        IF x.cur + 1 >= Len(buf) THEN [x EXCEPT !.rc = "bad"]
        ELSE IF to \in ToSet(x.seen) \/ Len(x.seen) >= MaxSeen
        THEN [x EXCEPT !.rc = "bad"]
        ELSE [x EXCEPT !.cur = to, !.seen = Append(@, to),
                       !.end = IF @ = 0 THEN x.cur + 2 ELSE @]
    ELSE IF c > LabelMax THEN [x EXCEPT !.rc = "bad"]
    ELSE IF c = 0 THEN [x EXCEPT !.rc = "ok", !.end = IF @ = 0 THEN x.cur + 1 ELSE @]
    ELSE IF x.cur + 1 + c > Len(buf) \/ x.used + c + 1 >= OutCap THEN [x EXCEPT !.rc = "bad"]
    ELSE [x EXCEPT !.out = Append(@, SubSeq(buf, x.cur + 2, x.cur + 1 + c)),
                   !.used = @ + c + 1, !.cur = x.cur + 1 + c]

\* Enough turns for any packet: each pointer is followed once and every
\* stretch between two of them is a walk forward.
Turns(buf) == (Len(buf) + 1) * (MaxSeen + 2)

RECURSIVE Run(_, _, _)
Run(buf, x, n) == IF x.rc # "on" \/ n = 0 THEN x ELSE Run(buf, Turn(buf, x), n - 1)

parse_name(buf, pos) == Run(buf, Start(pos), Turns(buf))

-----------------------------------------------------------------------------
Packets == UNION {[1 .. n -> Bytes] : n \in 1 .. MaxPacket}

PacketInit == wire \in [buf : Packets, read : {FALSE}]

PacketNext == ~wire.read /\ wire' = [wire EXCEPT !.read = TRUE]

PacketSpec == PacketInit /\ [][PacketNext]_wire

-----------------------------------------------------------------------------
\* The name a packet holds at a position, read forward with no pointer.
Plain(buf, pos) == LET x == parse_name(buf, pos) IN x.rc = "ok" /\ x.seen = <<>>

\* Parsing any packet ends, inside the packet and inside the buffer for the
\* name; what is read back without pointers is what encode_name writes there;
\* and a pointer stands for the name it points to (dns_packet.c:36-138).
NamesRight ==
    \A pos \in 0 .. Len(wire.buf) :
       LET x == parse_name(wire.buf, pos) IN
       /\ x.rc \in {"ok", "bad"}
       /\ x.rc = "ok" => x.end > pos /\ x.end <= Len(wire.buf) /\ x.used < OutCap
       /\ Plain(wire.buf, pos) => SubSeq(wire.buf, pos + 1, x.end) = encode_name(x.out)
       /\ pos + 1 < Len(wire.buf) /\ At(wire.buf, pos) = Ptr /\ x.rc = "ok" =>
             x.out = parse_name(wire.buf, At(wire.buf, pos + 1)).out /\ x.end = pos + 2

-----------------------------------------------------------------------------
(***************************************************************************)
(* DNS messages (dns_packet.c): queries and responses built, cut short on  *)
(* the way or not, and parsed; lists of records cloned.  A packet is a     *)
(* sequence of cells: <<"u", n>> a number, <<"name", nm>> an encoded name  *)
(* (the part before is about those), <<"data", d>> a piece of a record's   *)
(* data. The n-th allocation may be refused, and `live` counts what is     *)
(* held.                                                                   *)
(***************************************************************************)

CONSTANTS MsgNames,    \* domain names
          Half,        \* 65536 in the code: a TTL is two numbers below it
          Ttls,        \* TTLs tried
          MaxAnswers,  \* records in a response
          MaxAllocs    \* refused allocations tried: 0 for none

VARIABLE dmsg

None == <<>>
U(n) == <<"u", n>>
QType == [A |-> 1, CNAME |-> 5, OPT |-> 41]
QClassIn == 1
FlagRD == 256
FlagQR == 32768
FlagRA == 128

Header(id, flags, an, ar) == <<U(id), U(flags), U(1), U(an), U(0), U(ar)>>
Question(nm, type) == <<<<"name", nm>>, U(type), U(QClassIn)>>

\* The OPT record at the end announces the size of UDP packets taken.
Opt == <<<<"name", None>>, U(QType.OPT), U(4096), U(0), U(0), U(0)>>

dns_build_query(id, nm, type) == Header(id, FlagRD, 0, 1) \o Question(nm, type) \o Opt

\* A record has no name when it answers for the question's.
Answer(r, qname) ==
  <<<<"name", IF r.name = None THEN qname ELSE r.name>>, U(r.type), U(QClassIn),
    U(r.ttl \div Half), U(r.ttl % Half)>>
  \o (IF r.type = QType.CNAME THEN <<U(1), <<"name", r.rdata[1]>>>>
      ELSE <<U(Len(r.rdata))>> \o [i \in 1..Len(r.rdata) |-> <<"data", r.rdata[i]>>])

dns_build_response(id, rcode, qname, type, answers) ==
  Header(id, FlagQR + FlagRA + rcode, Len(answers), 0) \o Question(qname, type)
  \o FlattenSeq([i \in 1..Len(answers) |-> Answer(answers[i], qname)])

-----------------------------------------------------------------------------
\* Reading.  `x` is what the parser has: the offset, the records so far, the
\* allocations made and the ones held.
Num(buf, off) == buf[off][2]
Have(buf, x, n) == x.off + n - 1 <= Len(buf)
IsName(buf, x) == Have(buf, x, 1) /\ buf[x.off][1] = "name"

\* Record, name and data, each unless refused: how many are asked for before
\* the refused one, and whether all are given.
Granted(x, n) == x.fail = 0 \/ x.allocs >= x.fail \/ x.allocs + n < x.fail

\* dns_records_free, of the list and of the record under construction.
dns_records_free(x) == [x EXCEPT !.recs = <<>>, !.live = 0]
Fail(x) == [dns_records_free(x) EXCEPT !.rc = "DnsError"]

Take(x, n, rec) ==
  [x EXCEPT !.recs = Append(@, rec), !.allocs = @ + n, !.live = @ + n]

\* One answer: owner, fixed fields, data.  OPT records are skipped.
Record(buf, x) ==
  LET y == [x EXCEPT !.off = @ + 1]
      type == Num(buf, y.off)
      rdlen == Num(buf, y.off + 4)
      at == y.off + 5
      data == IF type = QType.CNAME THEN <<buf[at][2]>>
              ELSE [i \in 1..rdlen |-> buf[at + i - 1][2]]
      n == IF data = <<>> THEN 2 ELSE 3
  IN IF x.rc # "Ok" THEN x
     ELSE IF ~IsName(buf, x) \/ ~Have(buf, y, 5) \/ at + rdlen - 1 > Len(buf) THEN Fail(x)
     ELSE IF type = QType.OPT THEN [x EXCEPT !.off = at + rdlen]
     ELSE IF ~Granted(x, n) THEN Fail(x)
     ELSE [Take(x, n, [name |-> buf[x.off][2], type |-> type,
                       ttl |-> Num(buf, y.off + 2) * Half + Num(buf, y.off + 3),
                       rdata |-> data])
             EXCEPT !.off = at + rdlen]

Reader(fail) == [off |-> 7, rc |-> "Ok", id |-> 0, qname |-> None, qtype |-> 0,
                 recs |-> <<>>, allocs |-> 0, live |-> 0, fail |-> fail]

dns_parse(buf, fail) ==
  LET x == Reader(fail)
      q == [x EXCEPT !.id = Num(buf, 1), !.qname = buf[7][2], !.qtype = Num(buf, 8), !.off = 10]
      n == Num(buf, 4)
  IN IF Len(buf) < 6 THEN [x EXCEPT !.rc = "InvalidArg"]
     ELSE IF Len(buf) < 9 THEN [x EXCEPT !.rc = "DnsError"]
     ELSE FoldLeft(LAMBDA y, i : Record(buf, y), q, [i \in 1..n |-> i])

\* A copy of a list: all of it or nothing.
dns_records_clone(recs, fail) ==
  FoldLeft(LAMBDA x, r :
             LET n == (IF r.name = None THEN 1 ELSE 2) + (IF r.rdata = <<>> THEN 0 ELSE 1)
             IN IF x.rc # "Ok" THEN x ELSE IF Granted(x, n) THEN Take(x, n, r) ELSE Fail(x),
           Reader(fail), recs)

-----------------------------------------------------------------------------
Records ==
  [name : MsgNames \cup {None}, type : {QType.A, QType.OPT}, ttl : Ttls, rdata : {<<"d">>, <<>>}]
  \cup [name : MsgNames \cup {None}, type : {QType.CNAME}, ttl : Ttls,
        rdata : {<<nm>> : nm \in MsgNames}]

MsgInit ==
  dmsg \in [pc : {"asked"}, name : MsgNames, type : {QType.A, QType.CNAME}, fail : 0..MaxAllocs,
            answers : {<<>>}, packet : {<<>>}, cut : {FALSE}, got : {None}, copy : {None}]

\* A query reaches the server, whole.
Query ==
  /\ dmsg.pc = "asked"
  /\ dmsg' = [dmsg EXCEPT !.pc = "served", !.packet = dns_build_query(7, dmsg.name, dmsg.type),
                          !.got = dns_parse(dns_build_query(7, dmsg.name, dmsg.type), 0)]

\* The server adds a record to its answer.
Add(r) ==
  /\ dmsg.pc = "served"
  /\ Len(dmsg.answers) < MaxAnswers
  /\ dmsg' = [dmsg EXCEPT !.answers = Append(@, r)]

\* The response comes back, cut after any cell.
Respond(n) ==
  /\ dmsg.pc = "served"
  /\ LET whole == dns_build_response(7, 0, dmsg.name, dmsg.type, dmsg.answers)
         packet == SubSeq(whole, 1, n)
     IN /\ n <= Len(whole)
        /\ dmsg' = [dmsg EXCEPT !.pc = "over", !.packet = packet, !.cut = n < Len(whole),
                                !.got = dns_parse(packet, dmsg.fail),
                                !.copy = dns_records_clone(dmsg.answers, dmsg.fail)]

MaxCells == 9 + MaxAnswers * 7

MsgNext == Query \/ (\E r \in Records : Add(r)) \/ (\E n \in 0..MaxCells : Respond(n))

MsgSpec == MsgInit /\ [][MsgNext]_dmsg
-----------------------------------------------------------------------------
Kept == SelectSeq(dmsg.answers, LAMBDA r : r.type # QType.OPT)
Named == [i \in 1..Len(Kept) |->
            [Kept[i] EXCEPT !.name = IF @ = None THEN dmsg.name ELSE @]]

\* The client reads from a whole response the question it asked and the
\* records the server gave, owner and TTL included; of one cut short, or when
\* memory is short, it has an error and no record stays allocated; a copy of
\* a list is the list or nothing.
MessagesRight ==
  /\ dmsg.got # None /\ dmsg.pc = "served" =>
          dmsg.got.rc = "Ok" /\ dmsg.got.qname = dmsg.name /\ dmsg.got.qtype = dmsg.type /\ dmsg.got.recs = <<>>
  /\ dmsg.pc = "over" =>
          /\ dmsg.cut => dmsg.got.rc # "Ok" \/ dmsg.got.recs = Named
          /\ ~dmsg.cut /\ dmsg.fail = 0 => dmsg.got.rc = "Ok" /\ dmsg.got.id = 7 /\ dmsg.got.recs = Named
          /\ dmsg.got.rc = "Ok" => dmsg.got.qname = dmsg.name /\ dmsg.got.qtype = dmsg.type
          /\ dmsg.got.rc # "Ok" => dmsg.got.live = 0
          /\ IF dmsg.copy.rc = "Ok" THEN dmsg.copy.recs = dmsg.answers ELSE dmsg.copy.live = 0
=============================================================================
