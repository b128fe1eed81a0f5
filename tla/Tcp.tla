-------------------------------- MODULE Tcp ---------------------------------
(***************************************************************************)
(* TCP: connector, listener, sockets with timeouts and TLS contexts of     *)
(* libx, and the TCP streams of libx++ on them, each with a state of its   *)
(* own.                                                                    *)
(***************************************************************************)
EXTENDS Integers, Sequences

-----------------------------------------------------------------------------
(***************************************************************************)
(* xTcpConnect: one connector, from the name look-up on a worker thread to *)
(* the connection handed to the user, and the connection afterwards.       *)
(*                                                                         *)
(* conn.phase  the connector's phase; "freed" once connector_destroy ran   *)
(* conn.req  the xDnsRequest_ and its work item: queued, running, done     *)
(*           (its completion is posted to the loop), and `cancel' the flag *)
(*           xWorkCancel sets; "none" once the request is freed            *)
(* conn.sock, conn.tr  the socket and the transport, and who holds them    *)
(* conn.mask  the events the socket waits for                              *)
(* conn.ctx  the TLS context the connector made itself                     *)
(***************************************************************************)

CONSTANT Tls          \* how conf asks for TLS: a subset of {"plain", "shared", "own"}

VARIABLE conn

NewConnector ==
    [phase |-> "idle", tls |-> "plain", timer |-> FALSE, query |-> FALSE,
     req |-> "none", cancel |-> FALSE, result |-> "none",
     sock |-> "none", tr |-> "none", mask |-> {}, shaken |-> FALSE,
     ctx |-> "none", cb |-> 0, err |-> "none", late |-> FALSE]

-----------------------------------------------------------------------------
\* Cleaning up.

\* Only the work is marked: the request is freed on the loop, by its
\* completion or by dns_on_cancel.
xDnsCancel(x) == [x EXCEPT !.cancel = TRUE]

Drop(holder) == IF holder = "connector" THEN "closed" ELSE holder

connector_destroy(x) ==
    LET y == IF x.query THEN xDnsCancel(x) ELSE x
    IN  [y EXCEPT !.phase = "freed", !.timer = FALSE, !.query = FALSE,
                  !.result = "none", !.tr = Drop(@), !.sock = Drop(@),
                  !.ctx = Drop(@)]

\* Without the stop the deadline would fire into the freed connector.
connector_fail_timed(x, err) ==
    [connector_destroy(x) EXCEPT !.cb = @ + 1, !.err = err, !.timer = x.timer]

\* The completion callback is the user's: whatever it does to the connector
\* would be done to freed memory, so it is called after the destruction.
connector_fail(x, err) ==
    [connector_destroy(x) EXCEPT !.cb = @ + 1, !.err = err]

\* The socket loses its callback and its events before it changes hands.
connector_succeed(x, memory) ==
    LET y == [x EXCEPT !.timer = FALSE, !.mask = {}]
    IN  IF memory
        THEN [connector_destroy([y EXCEPT !.sock = "conn", !.tr = "conn"])
                EXCEPT !.cb = @ + 1, !.err = "ok"]
        ELSE [connector_destroy([y EXCEPT !.sock = "closed", !.tr = "closed"])
                EXCEPT !.cb = @ + 1, !.err = "memory"]

-----------------------------------------------------------------------------
\* Phases.  What the kernel and the TLS library answer is an argument.

Handshakes == {"done", "read", "write", "error"}

Shake(x, hs) ==
    CASE hs = "done"  -> connector_succeed([x EXCEPT !.shaken = TRUE], TRUE)
      [] hs = "read"  -> [x EXCEPT !.mask = {"read"}]
      [] hs = "write" -> [x EXCEPT !.mask = {"write"}]
      [] hs = "error" -> connector_fail(x, "sys")

connector_do_tls_handshake(x, hs) ==
    LET y == [x EXCEPT !.phase = "tls",
                       !.ctx = IF x.tls = "own" THEN "connector" ELSE "none"]
    IN  IF hs = "noctx" THEN connector_fail([y EXCEPT !.ctx = "none"], "sys")
        ELSE IF hs = "noinit" THEN connector_fail(y, "sys")
        ELSE Shake([y EXCEPT !.tr = "connector"], hs)

\* xTransportPlainInit needs memory, and so does xTcpConnCreate_.
Connected(x, hs) ==
    IF x.tls # "plain" THEN connector_do_tls_handshake(x, hs)
    ELSE IF hs = "notransport" THEN connector_fail(x, "memory")
    ELSE connector_succeed([x EXCEPT !.tr = "connector"], hs = "done")

Answers(x) ==
    IF x.tls = "plain" THEN {"done", "noconn", "notransport"}
    ELSE Handshakes \cup {"noinit"}
         \cup (IF x.tls = "own" THEN {"noctx"} ELSE {})

\* Only the first address of the result is tried.
connector_do_tcp_connect(x, made, hs) ==
    LET y == [x EXCEPT !.sock = "connector", !.mask = {"write"}]
    IN  CASE made = "nosocket" -> connector_fail(x, "sys")
          [] made = "now"      -> Connected(y, hs)
          [] made = "progress" -> y
          [] made = "refused"  -> connector_fail(y, "sys")

connector_dns_cb(x, made, hs) ==
    LET y == [x EXCEPT !.query = FALSE, !.phase = "connect"]
    IN  IF x.result # "addrs" THEN connector_fail(y, x.result)
        ELSE connector_do_tcp_connect(y, made, hs)

connector_on_writable(x, soerr, hs) ==
    CASE x.phase = "connect" -> IF soerr THEN connector_fail(x, "sys")
                                ELSE Connected(x, hs)
      [] x.phase = "tls"     -> Shake(x, hs)

connector_on_readable(x, hs) == Shake(x, hs)

-----------------------------------------------------------------------------
\* The steps of the user, the worker thread and the loop.

xTcpConnect(tls) ==
    /\ conn.phase = "idle"
    /\ conn' = [NewConnector EXCEPT !.phase = "dns", !.tls = tls, !.timer = TRUE,
                                    !.query = TRUE, !.req = "queued"]

\* The pool's worker takes the item, unless it was cancelled before.
dns_work_fn ==
    \/ conn.req = "queued" /\ ~conn.cancel /\ conn' = [conn EXCEPT !.req = "running"]
    \/ /\ conn.req = "running"
       /\ \E r \in {"addrs", "notfound", "tempfail", "memory", "dns"} :
             conn' = [conn EXCEPT !.req = "done", !.result = IF conn.query THEN r ELSE "none"]

dns_done_fn ==
    /\ conn.req = "done" /\ ~conn.cancel
    /\ \E made \in {"nosocket", "now", "progress", "refused"}, hs \in Answers(conn) :
          conn' = connector_dns_cb([conn EXCEPT !.req = "none"], made, hs)

\* A request cancelled before it ran is dropped at once, any other one when
\* its completion arrives.
dns_on_cancel ==
    /\ conn.cancel /\ conn.req \in {"queued", "done"}
    /\ conn' = [conn EXCEPT !.req = "none", !.cancel = FALSE]

\* A callback for a freed connector would be a use after free: it is
\* recorded, and nothing more is assumed of it.
connector_sock_cb ==
    \E e \in conn.mask :
       IF conn.sock # "connector"
       THEN ~conn.late /\ conn.sock \notin {"none", "closed"} /\ conn' = [conn EXCEPT !.late = TRUE]
       ELSE \E hs \in IF conn.phase = "tls" THEN Handshakes ELSE Answers(conn),
               soerr \in BOOLEAN :
               conn' = IF e = "write" THEN connector_on_writable(conn, soerr, hs)
                       ELSE connector_on_readable(conn, hs)

connector_timeout_cb ==
    /\ conn.timer
    /\ IF conn.phase = "freed" THEN ~conn.late /\ conn' = [conn EXCEPT !.late = TRUE]
       ELSE conn' = connector_fail([conn EXCEPT !.timer = FALSE], "timeout")

\* What the user does with the connection: take its parts, or close it.
xTcpConnTakeSocket ==
    conn.phase = "freed" /\ conn.sock = "conn" /\ conn' = [conn EXCEPT !.sock = "user"]

xTcpConnTakeTransport ==
    conn.phase = "freed" /\ conn.tr = "conn" /\ conn' = [conn EXCEPT !.tr = "user"]

xTcpConnClose ==
    /\ conn.phase = "freed" /\ conn.err = "ok"
    /\ "conn" \in {conn.sock, conn.tr}
    /\ conn' = [conn EXCEPT !.sock = IF @ = "conn" THEN "closed" ELSE @,
                            !.tr = IF @ = "conn" THEN "closed" ELSE @,
                            !.err = "closed"]

ConnectInit == conn = NewConnector

Loop == \/ dns_done_fn \/ dns_on_cancel \/ connector_sock_cb
        \/ connector_timeout_cb

ConnectNext == \/ \E tls \in Tls : xTcpConnect(tls)
               \/ dns_work_fn \/ Loop
               \/ xTcpConnTakeSocket \/ xTcpConnTakeTransport \/ xTcpConnClose

ConnectSpec == ConnectInit /\ [][ConnectNext]_conn

\* The pool's threads run, the loop runs, and its timers fire.
FairSpec == ConnectSpec /\ WF_conn(dns_work_fn) /\ WF_conn(dns_done_fn) /\ WF_conn(dns_on_cancel)
                        /\ WF_conn(connector_timeout_cb)

-----------------------------------------------------------------------------
\* A connect that was started answers once and only once, and from then on
\* nothing of the connector can run: its timer is stopped, its query is
\* cancelled or done, its socket waits for nothing and calls nobody
\* (tcp_connect.c:137-190).
ConnectOnce ==
    /\ conn.cb <= 1 /\ ~conn.late
    /\ conn.cb = 1 <=> conn.phase = "freed"
    /\ conn.phase = "freed" => ~conn.timer /\ (conn.req # "none" => conn.cancel)

\* Success hands over the socket and the transport together, and a plain
\* transport or a finished handshake; failure leaves no descriptor, transport
\* or private TLS context behind (tcp_connect.c:106-190).
PartsOwned ==
    /\ conn.err = "ok" => /\ conn.sock \in {"conn", "user"} /\ conn.tr \in {"conn", "user"}
                          /\ conn.tls # "plain" => conn.shaken
    /\ conn.phase = "freed" /\ conn.err \notin {"ok", "closed"} =>
             conn.sock \in {"none", "closed"} /\ conn.tr \in {"none", "closed"}
    /\ conn.phase = "freed" => conn.ctx # "connector"

Started == conn.phase # "idle"
Over == conn.phase = "freed" /\ conn.req = "none"

-----------------------------------------------------------------------------
(***************************************************************************)
(* xTcpListener: the accept loop on an edge-triggered listening socket,    *)
(* the TLS handshakes it leaves pending, the connections it hands to the   *)
(* user, and the destruction of the listener at any time.                  *)
(*                                                                         *)
(* lsn.open  the listener exists; lsn.tls: conf->tls_ctx is set            *)
(* lsn.edge   the kernel has readiness of the listening socket to report   *)
(* lsn.queue  peers the kernel has accepted for us, in order               *)
(* lsn.failed  the last accept loop was left by an error                   *)
(* c[p]       what became of peer p: its descriptor's holder, the events a *)
(*            pending handshake waits for and what it needs                *)
(***************************************************************************)

CONSTANT Peers         \* the peers that may connect

VARIABLES lsn, acc

ListenVars == <<lsn, acc>>

NewConn == [at |-> "away", mask |-> {}, wants |-> "none", tr |-> FALSE,
            told |-> 0]

ListenInit ==
          /\ lsn \in [tls : BOOLEAN, open : {TRUE}, edge : {FALSE}, queue : {<<>>},
                     failed : {FALSE}]
          /\ acc = [p \in Peers |-> NewConn]

-----------------------------------------------------------------------------
\* A peer connects: the kernel queues it and reports readiness anew.
Connects(p) ==
    /\ lsn.open /\ acc[p].at = "away"
    /\ lsn' = [lsn EXCEPT !.queue = Append(@, p), !.edge = TRUE]
    /\ acc' = [acc EXCEPT ![p].at = "queued"]

\* xTcpConnCreate_ succeeded and the listener's callback takes the connection.
Deliver(x) == [x EXCEPT !.at = "conn", !.mask = {}, !.told = @ + 1]

Close(x) == [x EXCEPT !.at = "closed", !.mask = {}, !.tr = FALSE, !.wants = "none"]

\* The step of a handshake that is still pending.
Pending(x, hs) ==
    CASE hs = "done"  -> Deliver([x EXCEPT !.wants = "none"])
      [] hs = "read"  -> [x EXCEPT !.mask = {"read"}, !.wants = "read"]
      [] hs = "write" -> [x EXCEPT !.mask = {"write"}, !.wants = "write"]
      [] hs \in {"error", "memory"} -> Close(x)

AcceptHandshakes == {"done", "read", "write", "error", "memory"}

\* One accepted descriptor: handed over at once, or kept for its handshake.
Accept(x, hs) ==
    IF hs = "nothing" THEN Close(x)              \* no transport, socket or memory
    ELSE IF lsn.tls THEN Pending([x EXCEPT !.at = "pending", !.tr = TRUE,
                                            !.mask = {"read", "write"}], hs)
    ELSE IF hs = "done" THEN [Deliver([x EXCEPT !.tr = TRUE]) EXCEPT !.mask = {"read"}]
    ELSE Close(x)

Kernel(hss) == [1 .. Len(lsn.queue) -> hss]

\* The whole accept loop: n descriptors, and then EAGAIN or an error that
\* leaves the rest of the queue where it is.
listener_on_event ==
    /\ lsn.open /\ lsn.edge
    /\ \E n \in 0 .. Len(lsn.queue), hs \in Kernel(AcceptHandshakes \cup {"nothing"}) :
          LET took == {lsn.queue[i] : i \in 1 .. n}
              Ix(p) == CHOOSE i \in 1 .. n : lsn.queue[i] = p
          IN  /\ lsn' = [lsn EXCEPT !.edge = FALSE, !.failed = n < Len(lsn.queue),
                                    !.queue = SubSeq(@, n + 1, Len(@))]
              /\ acc' = [p \in Peers |-> IF p \in took THEN Accept(acc[p], hs[Ix(p)])
                                         ELSE acc[p]]

\* A pending handshake goes on when what it needs has come and its mask lets
\* it know.  Its end calls the listener, which may be gone by then.
pending_conn_on_event(p) ==
    /\ acc[p].at = "pending" /\ acc[p].wants \in acc[p].mask
    /\ \E hs \in AcceptHandshakes :
          acc' = [acc EXCEPT ![p] = Pending(@, hs)]
    /\ UNCHANGED lsn

CloseAccepted(p) ==
    acc[p].at = "conn" /\ acc' = [acc EXCEPT ![p] = Close(@)] /\ UNCHANGED lsn

\* The descriptor of the listening socket is closed and the kernel resets
\* what nobody accepted.  Pending handshakes are left alone.
xTcpListenerDestroy ==
    /\ lsn.open
    /\ lsn' = [lsn EXCEPT !.open = FALSE, !.edge = FALSE, !.queue = <<>>]
    /\ acc' = [p \in Peers |-> IF acc[p].at = "queued" THEN Close(acc[p]) ELSE acc[p]]

ListenNext == \/ listener_on_event \/ xTcpListenerDestroy
              \/ \E p \in Peers : Connects(p) \/ pending_conn_on_event(p) \/ CloseAccepted(p)

ListenSpec == ListenInit /\ [][ListenNext]_ListenVars

-----------------------------------------------------------------------------
\* After the accept loop no peer waits unseen on the edge-triggered socket,
\* unless an accept error cut the loop short (tcp_listener.c:160-172).
AcceptDrains == lsn.queue # <<>> => lsn.edge \/ lsn.failed

\* Each accepted peer is delivered at most once, with its transport, its
\* handshake finished; one still shaking hands listens for exactly what the
\* handshake needs, so its edge-triggered events cannot strand it; one that
\* failed holds nothing (tcp_listener.c:78-147, 174-235).
PendingHeard ==
    \A p \in Peers :
       LET x == acc[p] IN
       /\ x.told <= 1 /\ (x.at = "conn" => x.told = 1 /\ x.tr /\ x.wants = "none")
       /\ x.at = "pending" => x.mask = {x.wants} /\ x.tr
       /\ x.at = "closed" => ~x.tr

-----------------------------------------------------------------------------
(***************************************************************************)
(* xSocket: the event source, callback and two idle timers of one socket.  *)
(* Time is counted in ticks; a timer holds the tick it is due.             *)
(***************************************************************************)

CONSTANTS MaxTimeout,  \* largest timeout, in ticks; 0 is none
          MaxTime      \* ticks a behaviour may last

VARIABLE sock

Sides == {"read", "write"}
Off == -1

NewSocket ==
    [open |-> TRUE, mask |-> {"read"}, timeout |-> [d \in Sides |-> 0],
     timer |-> [d \in Sides |-> Off], now |-> 0,
     heard |-> [d \in Sides |-> 0],       \* history: the last event of a side
     armed |-> [d \in Sides |-> 0],       \* history: the last change of timeouts
     told |-> "none", early |-> FALSE]

Cancel(x, d) == [x EXCEPT !.timer[d] = Off]

Start(x, d) == [x EXCEPT !.timer[d] = x.now + x.timeout[d]]

\* reset_read_timer and reset_write_timer
Reset(x, d) == IF x.timeout[d] <= 0 THEN x ELSE Start(Cancel(x, d), d)

\* The callback: it may set the mask, the timeouts, or destroy the socket.
xSocketDestroy(x) == [x EXCEPT !.open = FALSE, !.timer = [d \in Sides |-> Off],
                               !.mask = {}]

xSocketSetMask(x, m) == [x EXCEPT !.mask = m]

xSocketSetTimeout(x, r, w) ==
    LET One(y, d, t) ==
            LET z == [y EXCEPT !.timeout[d] = t, !.armed[d] = y.now]
            IN  IF t > 0 THEN Start(Cancel(z, d), d) ELSE Cancel(z, d)
    IN  One(One(x, "read", r), "write", w)

Callback(x, what) == [x EXCEPT !.told = what]

-----------------------------------------------------------------------------
\* The loop reports the sides of the mask that are ready.
trampoline ==
    \E ready \in SUBSET sock.mask :
       /\ sock.open /\ ready # {}
       /\ LET a == IF "read" \in ready THEN Reset(sock, "read") ELSE sock
              b == IF "write" \in ready THEN Reset(a, "write") ELSE a
          IN  sock' = Callback([b EXCEPT !.heard =
                           [d \in Sides |-> IF d \in ready THEN sock.now ELSE sock.heard[d]]],
                           "event")

\* read_timeout_cb and write_timeout_cb: one shot, named by its side.
timeout_cb(d) ==
    /\ sock.timer[d] # Off /\ sock.timer[d] <= sock.now
    /\ sock' = [Callback(Cancel(sock, d), d) EXCEPT
                  !.early = ~sock.open \/ sock.now < sock.heard[d] + sock.timeout[d]
                                       \/ sock.now < sock.armed[d] + sock.timeout[d]]

\* A due timer fires before time goes on.
Tick ==
    /\ sock.now < MaxTime
    /\ \A d \in Sides : sock.timer[d] = Off \/ sock.timer[d] > sock.now
    /\ sock' = [sock EXCEPT !.now = @ + 1]

User ==
    /\ sock.open
    /\ \/ \E m \in SUBSET Sides : sock' = xSocketSetMask(sock, m)
       \/ \E r, w \in 0 .. MaxTimeout : sock' = xSocketSetTimeout(sock, r, w)
       \/ sock' = xSocketDestroy(sock)

SocketInit == sock = NewSocket

SocketNext == trampoline \/ (\E d \in Sides : timeout_cb(d)) \/ Tick \/ User

SocketSpec == SocketInit /\ [][SocketNext]_sock

-----------------------------------------------------------------------------
\* A timeout is reported only for a live socket whose side was silent for the
\* whole timeout since the later of its last event and its last setting, and
\* a side with no timeout has no timer (socket.c:52-105, 256-279).
IdleTimeouts ==
    /\ ~sock.early
    /\ \A d \in Sides : sock.timer[d] # Off => sock.open /\ sock.timeout[d] > 0

-----------------------------------------------------------------------------
(***************************************************************************)
(* xTlsCtx: the server context both TLS back ends build from the files of  *)
(* an xTlsConf, and xTlsCtxReload, which replaces its parts one by one     *)
(* while the listener keeps accepting.  A file holds material of one       *)
(* generation or cannot be read (Bad); a certificate and a key match when  *)
(* they are of one generation.                                             *)
(***************************************************************************)

CONSTANTS Backends,     \* a subset of {"openssl", "mbedtls"}
          Gens          \* generations of certificate material

VARIABLE tls

Bad == 0
None == 99            \* conf->ca is NULL

Confs == [cert : Gens \cup {Bad}, key : Gens \cup {Bad},
          ca : Gens \cup {Bad, None}, verify : BOOLEAN]

NoCtx == [cert |-> Bad, key |-> Bad, ca |-> None, verify |-> TRUE]

\* One loading step after another; the first failure keeps what came before.
Load(x, part, gen) ==
    IF x.rc # 0 THEN x
    ELSE IF gen = Bad THEN [x EXCEPT !.rc = 1]
    ELSE [x EXCEPT !.ctx = [@ EXCEPT ![part] = gen]]

Matches(ctx) == ctx.cert = ctx.key

CheckKey(x) == IF x.rc = 0 /\ ~Matches(x.ctx) THEN [x EXCEPT !.rc = 1] ELSE x

LoadCa(x, conf) == IF conf.ca = None THEN x ELSE Load(x, "ca", conf.ca)

Verify(x, conf) ==
    IF x.rc # 0 THEN x ELSE [x EXCEPT !.ctx = [@ EXCEPT !.verify = conf.verify]]

\* tls_openssl.c loads into the live SSL_CTX.  (What the library does to a key
\* that no longer fits a new certificate is left to the library.)
openssl_load(ctx, conf) ==
    Verify(LoadCa(CheckKey(Load(Load([ctx |-> ctx, rc |-> 0], "cert", conf.cert),
                                "key", conf.key)), conf), conf)

\* tls_mbedtls.c parses certificate and key aside, swaps both in, and then
\* goes on with the CA; the library's own_cert does not compare them.
mbedtls_load(ctx, conf) ==
    IF conf.cert = Bad \/ conf.key = Bad THEN [ctx |-> ctx, rc |-> 1]
    ELSE Verify(LoadCa([ctx |-> [ctx EXCEPT !.cert = conf.cert, !.key = conf.key],
                        rc |-> 0], conf), conf)

Loads(b, ctx, conf) == IF b = "openssl" THEN openssl_load(ctx, conf)
                       ELSE mbedtls_load(ctx, conf)

-----------------------------------------------------------------------------
CtxInit == \E b \in Backends :
              tls = [b |-> b, live |-> FALSE, ctx |-> NoCtx, rc |-> 0,
                     conf |-> NoCtx, was |-> NoCtx]

\* A context that fails to load is freed.
xTlsCtxCreate ==
    /\ ~tls.live
    /\ \E conf \in Confs :
          LET r == Loads(tls.b, NoCtx, conf)
          IN  tls' = [tls EXCEPT !.live = r.rc = 0, !.rc = r.rc, !.conf = conf, !.was = NoCtx,
                                 !.ctx = IF r.rc = 0 THEN r.ctx ELSE NoCtx]

xTlsCtxReload ==
    /\ tls.live
    /\ \E conf \in Confs :
          LET r == Loads(tls.b, tls.ctx, conf)
          IN  tls' = [tls EXCEPT !.ctx = r.ctx, !.rc = r.rc, !.conf = conf, !.was = tls.ctx]

xTlsCtxDestroy == tls.live /\ tls' = [tls EXCEPT !.live = FALSE, !.ctx = NoCtx, !.rc = 0]

CtxNext == xTlsCtxCreate \/ xTlsCtxReload \/ xTlsCtxDestroy

CtxSpec == CtxInit /\ [][CtxNext]_tls

-----------------------------------------------------------------------------
\* Success means what was asked for: every part of the configuration is in
\* the context, and OpenSSL's certificate and key belong together; a CA that
\* a new configuration leaves out stays from before (tls_openssl.c:59-264,
\* tls_mbedtls.c:67-345).
LoadedWhole ==
    tls.live /\ tls.rc = 0 =>
         /\ tls.ctx.cert = tls.conf.cert /\ tls.ctx.key = tls.conf.key
         /\ tls.ctx.verify = tls.conf.verify
         /\ tls.ctx.ca = IF tls.conf.ca = None THEN tls.was.ca ELSE tls.conf.ca
         /\ tls.b = "openssl" => Matches(tls.ctx)

-----------------------------------------------------------------------------
(***************************************************************************)
(* TCP in the C++ library: TcpStream::connect over the name lookup and     *)
(* xTcpConnect (try_next over the addresses found), and TcpListener with   *)
(* its one pending accept.  A promise may be dropped at any time; an       *)
(* adapter of a connect lives until its callback.                          *)
(*                                                                         *)
(* tcp.call   the connect: "idle", "lookup", "trying", "ok", "failed",     *)
(*            "not found" or "dropped"; tcp.port the port asked for        *)
(* tcp.addrs  addresses the lookup found, tcp.idx how many were tried      *)
(* tcp.tries  the attempts: what was asked of xTcpConnect, and "flying",   *)
(*            "made", "failed", or "refused" when it never calls back      *)
(* tcp.conn   connections made: who owns them ("stream", "closed")         *)
(* tcp.lst    the listener: "none", "open" or "destroyed"                  *)
(* tcp.acc    accepts: "pending", "resolved", "dropped", "replaced";       *)
(*            tcp.peer connections that came: which accept got it, or 0    *)
(***************************************************************************)

CONSTANTS Ports,      \* ports asked for, none of them 0
          MaxAddrs,   \* addresses a lookup finds at most
          MaxAccepts, \* bound on accepts
          MaxPeers    \* bound on peers that connect

VARIABLE tcp

StreamInit ==
          tcp \in [call : {"idle"}, port : {0}, addrs : {<<>>}, idx : {0}, tries : {<<>>},
                   conn : {<<>>}, lst : {"none"}, acc : {<<>>}, peer : {<<>>}]

-----------------------------------------------------------------------------
\* xTcpConnect with the adapter; it may fail without calling back.
connect_with_conf(x, port) ==
    {[x EXCEPT !.tries = Append(@, [port |-> port, st |-> st])] : st \in {"flying", "refused"}}

\* An address literal needs no lookup; a string that is neither is refused.
ConnectInvalid ==
    /\ tcp.call = "idle"
    /\ tcp' = [tcp EXCEPT !.call = "failed"]

ConnectAddr(port) ==
    /\ tcp.call = "idle"
    /\ tcp' \in connect_with_conf([tcp EXCEPT !.call = "trying", !.port = port, !.addrs = <<port>>,
                                              !.idx = 1], port)

Connect(port) ==
    /\ tcp.call = "idle"
    /\ tcp' = [tcp EXCEPT !.call = "lookup", !.port = port]

\* The addresses are looked up without a service: their port is 0.
on_resolve(n) ==
    /\ tcp.call = "lookup"
    /\ IF n = 0 THEN tcp' = [tcp EXCEPT !.call = "not found"]
       ELSE tcp' \in connect_with_conf([tcp EXCEPT !.call = "trying", !.idx = 1,
                                                   !.addrs = [k \in 1 .. n |-> 0]], 0)

\* The attempt ends, and the adapter with it: the stream goes to the promise,
\* or is closed where it is gone; after a failure the next address is tried.
on_connect(ok) ==
    LET k == Len(tcp.tries)
        x == [tcp EXCEPT !.tries[k].st = IF ok THEN "made" ELSE "failed"]
    IN  /\ k > 0 /\ tcp.tries[k].st = "flying"
        /\ IF ok
           THEN tcp' = [x EXCEPT !.call = IF @ = "trying" THEN "ok" ELSE @,
                                 !.conn = Append(@, IF tcp.call = "trying" THEN "stream" ELSE "closed")]
           ELSE IF tcp.call # "trying" THEN tcp' = x
           ELSE IF tcp.idx >= Len(tcp.addrs) THEN tcp' = [x EXCEPT !.call = "failed"]
           ELSE tcp' \in connect_with_conf([x EXCEPT !.idx = @ + 1], tcp.addrs[tcp.idx + 1])

\* The promise is dropped: a lookup is cancelled, an attempt goes on.
DropConnect ==
    /\ tcp.call \in {"lookup", "trying"}
    /\ tcp' = [tcp EXCEPT !.call = "dropped"]

-----------------------------------------------------------------------------
Listen == tcp.lst = "none" /\ tcp' = [tcp EXCEPT !.lst = "open"]

StreamPending(x) == {k \in DOMAIN x.acc : x.acc[k] = "pending"}

\* The listener has room for one resolver.
StreamAccept ==
    /\ tcp.lst = "open" /\ Len(tcp.acc) < MaxAccepts
    /\ tcp' = [tcp EXCEPT !.acc = Append([k \in DOMAIN @ |-> IF @[k] = "pending" THEN "replaced" ELSE @[k]],
                                         "pending")]

\* A connection nobody waits for is closed.
on_accept ==
    /\ tcp.lst = "open" /\ Len(tcp.peer) < MaxPeers
    /\ IF StreamPending(tcp) = {} THEN tcp' = [tcp EXCEPT !.peer = Append(@, 0)]
       ELSE \E k \in StreamPending(tcp) :
              tcp' = [tcp EXCEPT !.acc[k] = "resolved", !.peer = Append(@, k)]

DropAccept(k) == k \in StreamPending(tcp) /\ tcp' = [tcp EXCEPT !.acc[k] = "dropped"]

\* The last owner of the state goes, the listener and the resolver with it.
CloseListener ==
    /\ tcp.lst = "open"
    /\ tcp' = [tcp EXCEPT !.lst = "destroyed",
                          !.acc = [k \in DOMAIN @ |-> IF @[k] = "pending" THEN "replaced" ELSE @[k]]]

StreamNext ==
          \/ ConnectInvalid \/ DropConnect
          \/ \E port \in Ports : ConnectAddr(port) \/ Connect(port)
          \/ \E n \in 0 .. MaxAddrs : on_resolve(n)
          \/ \E ok \in BOOLEAN : on_connect(ok)
          \/ Listen \/ StreamAccept \/ on_accept \/ CloseListener
          \/ \E k \in DOMAIN tcp.acc : DropAccept(k)

StreamSpec == StreamInit /\ [][StreamNext]_tcp
-----------------------------------------------------------------------------
StreamTypeOK ==
    /\ tcp.call \in {"idle", "lookup", "trying", "ok", "failed", "not found", "dropped"}
    /\ tcp.lst \in {"none", "open", "destroyed"} /\ Len(tcp.tries) <= MaxAddrs + 1

\* Addresses are tried one at a time, another only after the one before it
\* failed, and none after a success or once the promise is dropped; a connect
\* that failed has tried them all.  A connection made belongs to the stream of
\* the promise or is closed.  Each connection that came went to one accept, in
\* the order of the accepts, or was closed, and at most one accept waits.
StreamsOwned ==
    /\ \A k \in DOMAIN tcp.tries : k < Len(tcp.tries) => tcp.tries[k].st = "failed"
    /\ tcp.call = "ok" => /\ tcp.tries[Len(tcp.tries)].st = "made"
                          /\ tcp.conn = <<"stream">>
    /\ tcp.call = "failed" /\ tcp.addrs # <<>> =>
           Len(tcp.tries) = Len(tcp.addrs) /\ tcp.tries[Len(tcp.tries)].st = "failed"
    /\ Len(tcp.conn) <= 1 /\ (tcp.conn = <<"stream">> => tcp.call = "ok")
    /\ \A k, j \in StreamPending(tcp) : k = j
    /\ \A i \in DOMAIN tcp.peer : tcp.peer[i] # 0 =>
         /\ tcp.acc[tcp.peer[i]] = "resolved"
         /\ \A j \in DOMAIN tcp.peer : j < i => tcp.peer[j] < tcp.peer[i]
    /\ \A k \in DOMAIN tcp.acc : tcp.acc[k] = "resolved" => \E i \in DOMAIN tcp.peer : tcp.peer[i] = k
=============================================================================
