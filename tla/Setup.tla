-------------------------------- MODULE Setup --------------------------------
(***************************************************************************)
(* Constructors that acquire several resources one after the other, any    *)
(* of which may be refused, and the destructors of what they make.         *)
(*                                                                         *)
(* A constructor is the sequence of its steps.  A step acquires `gets` and *)
(* releases `drops` when it succeeds; when it is refused the constructor   *)
(* releases `frees` whatever they are and those of `tries` that it holds   *)
(* (the code's `if (x) free(x)`), and returns.  A step whose result nobody *)
(* looks at goes on without it, and a step that cannot be refused is       *)
(* "sure".  Calling a constructor from another one is Nested: the callee's *)
(* own clean-up runs, then the caller's.                                   *)
(***************************************************************************)
EXTENDS Sequences, FiniteSets, Naturals

VARIABLE s   \* [what, at, held, stray, pc]: the constructor, its next step,
             \* what is held, what was released without being held

Get(gets, frees) ==
  [gets |-> gets, drops |-> {}, frees |-> frees, tries |-> {}, on |-> "fail"]

Check(frees) == Get({}, frees)

Sure(gets, drops) ==
  [gets |-> gets, drops |-> drops, frees |-> {}, tries |-> {}, on |-> "sure"]

Lax(gets) == [Get(gets, {}) EXCEPT !.on = "lax"]

\* Steps that share one guarded clean-up label.
Each(gets, tries) ==
  [i \in DOMAIN gets |-> [Get(gets[i], {}) EXCEPT !.tries = tries]]

\* The steps of a callee, seen from a caller that releases more when the
\* callee is refused.
Nested(steps, frees, tries) ==
  [i \in DOMAIN steps |->
    [steps[i] EXCEPT !.frees = @ \cup frees, !.tries = @ \cup tries]]

-----------------------------------------------------------------------------
\* The event loop and its backends.  The task group handed over in the
\* configuration counts as held as long as the loop's field names it; each
\* backend's init starts by clearing that field.

xHeapCreate == <<Get({"heap"}, {}), Get({"heap data"}, {"heap"})>>

Heap == {"heap", "heap data"}

ep_init_noheap ==
  <<Sure({}, {"group"})>> \o xHeapCreate
    \o Each(<<{"epfd"}, {"wake"}, {}>>, {"epfd", "wake"})

ep_init ==
  <<Sure({}, {"group"})>> \o xHeapCreate
    \o Each(<<{"epfd"}, {"wake"}, {}>>, {"epfd", "wake"} \cup Heap)

ep_destroy == {"epfd", "wake"} \cup Heap

kq_init ==
  <<Sure({}, {"group"})>> \o xHeapCreate
    \o Each(<<{"kqfd"}, {}>>, {"kqfd"} \cup Heap)

kq_destroy == {"kqfd"} \cup Heap

poll_init ==
  <<Sure({}, {"group"})>> \o xHeapCreate
    \o Each(<<{"wake r", "wake w"}, {}, {}>>, {"wake r", "wake w"} \cup Heap)

poll_destroy == {"wake r", "wake w"} \cup Heap

wake_socket_pair ==
  Each(<<{"listener"}, {}, {}, {}, {"wake w"}, {}, {"wake r"}, {}>>,
       {"listener", "wake w", "wake r"})
    \o <<Sure({}, {"listener"})>>

\* The clean-up compares the two sockets with INVALID_SOCKET, which the
\* zeroed loop's fields are not, so it closes them whether they are open or
\* not: descriptor 0, as `zero`.
wsapoll_init ==
  <<Sure({}, {"group"})>> \o Nested(xHeapCreate, {"zero"}, {})
    \o Nested(wake_socket_pair, {"zero"}, Heap)

wsapoll_destroy == {"wake r", "wake w"} \cup Heap

xEventLoopCreateWithConf(init) ==
  <<Get({"loop"}, {}), Sure({"group"}, {})>> \o Nested(init, {"loop"}, {"group"})

xEventLoopDestroy(destroy) == destroy \cup {"loop"}

-----------------------------------------------------------------------------
\* HTTP and WebSocket servers, the HTTP client's requests.

xSocketCreateFromFd == <<Check({}), Get({"socket"}, {}), Get({"source"}, {"socket"})>>

xHttpServerCreate == <<Check({}), Get({"server"}, {})>>

xHttpServerListen ==
  <<Get({"fd"}, {}), Check({"fd"}), Check({"fd"}), Check({"fd"})>>
    \o Nested(xSocketCreateFromFd, {"fd"}, {})

\* The listening socket closes its descriptor; the auxiliary data goes with
\* the server it is attached to.
xHttpServerDestroy(aux) == {"server", "fd", "socket", "source", "tls"} \cup aux

xHttpServerListenTls ==
  <<Get({"tls"}, {}), Get({"fd"}, {"tls"}), Check({"fd", "tls"}),
    Check({"fd", "tls"}), Check({"fd", "tls"})>>
    \o Nested(xSocketCreateFromFd, {"fd", "tls"}, {})

xWsServeAuxFree == {"ctx", "mux", "aux"}

xWsServe ==
  <<Check({}), Get({"mux"}, {}), Get({"ctx"}, {"mux"}), Check({"ctx", "mux"})>>
    \o Nested(xHttpServerCreate, {"ctx", "mux"}, {})
    \o <<Get({"aux"}, {"server", "ctx", "mux"})>>
    \o Nested(xHttpServerListen, {}, xHttpServerDestroy(xWsServeAuxFree))

xHttpProtoH1Init == <<Get({"h1"}, {}), Get({"stream"}, {"h1"})>>

xHttpProtoH2Init ==
  <<Get({"h2"}, {}), Get({"callbacks"}, {"h2"}),
    [Get({"session"}, {"callbacks", "h2"}) EXCEPT !.drops = {"callbacks"}],
    Check({"session", "h2"}), Check({"session", "h2"})>>

http_req_new ==
  <<Get({"req"}, {}), Get({"easy"}, {"req"}), Get({"header_buf"}, {"easy", "req"}),
    Get({"paused_buf"}, {"header_buf", "easy", "req"})>>

\* The refused request's pause buffer is not among what is released.
http_submit ==
  <<[Get({"added"}, {"easy", "header_buf", "req"}) EXCEPT !.tries = {"req_headers"}]>>

xHttpClientDo == http_req_new \o <<Lax({"req_headers"})>> \o http_submit

xHttpClientDoSse ==
  <<Get({"req", "parser"}, {}), Get({"easy"}, {"parser", "req"}),
    Get({"sse_headers"}, {"easy", "parser", "req"}),
    Get({"added"}, {"easy", "sse_headers", "parser", "req"})>>

\* The context kept for a descriptor libcurl wants watched.
socket_callback == <<Get({"ctx"}, {}), Get({"src"}, {"ctx"})>>

-----------------------------------------------------------------------------
\* TLS connections, certificates, SCTP.

mbed_ServerInit == <<Check({}), Get({"t", "ssl"}, {}), Check({"ssl", "t"})>>

mbed_ClientInit ==
  <<Check({}), Get({"t", "ssl"}, {}), Check({"ssl", "t"}), Check({"ssl", "t"})>>

mbed_destroy == {"ssl", "t"}

openssl_ServerInit == <<Check({}), Get({"t"}, {}), Get({"ssl"}, {"t"})>>

openssl_ClientInit == <<Check({}), Get({"ssl"}, {}), Get({"t"}, {"ssl"})>>

openssl_destroy == {"ssl", "t"}

\* Key and certificate of a DTLS transport, with OpenSSL and with mbedTLS.
openssl_cert ==
  Each(<<{"pctx"}, {}, {}, {"pkey"}>>, {"pctx"})
    \o <<Sure({}, {"pctx"})>>
    \o Each(<<{"cert"}, {}>>, {"pkey", "cert"})

\* What fails here leaves the key to its caller, which releases the context.
mbedtls_cert ==
  <<Get({"pkey"}, {}), Check({}), Sure({"crt"}, {}), Check({"crt"}), Check({"crt"}),
    Check({"crt"}), Check({"crt"}), Sure({}, {"crt"}), Check({}), Get({"cert"}, {})>>

mbedtls_create ==
  <<Get({"ctx", "rng"}, {})>>
    \o Nested(<<Check({})>> \o mbedtls_cert \o <<Check({}), Check({}), Get({"ssl"}, {})>>,
              {"ctx", "rng"}, {"pkey", "cert", "ssl"})

xSctpTransportCreate ==
  <<Check({}), Get({"t"}, {}), Get({"sock"}, {"t"}), Sure({"address"}, {})>>

xSctpTransportDestroy == {"sock", "address", "t"}

-----------------------------------------------------------------------------
\* The download proxy, pseudo consoles, fibers and small objects.

dlp_proxy_init ==
  <<Get({"p"}, {}), Sure({"entered"}, {}), Get({"mux"}, {"entered", "p"})>>
    \o Nested(xHttpServerCreate \o
              Nested(xHttpServerListen, {}, xHttpServerDestroy({})),
              {"mux", "entered", "p"}, {})
    \o <<Sure({}, {"entered"})>>

dlp_proxy_deinit == xHttpServerDestroy({}) \cup {"mux", "p"}

\* Only the loop's creation is looked at.
dlp_init ==
  <<Get({"ctx"}, {}), Get({"loop"}, {"ctx"}), Sure({"entered"}, {})>>
    \o [i \in 1..5 |-> Lax({<<"url_map", "task_map", "bus", "cache", "dl_http">>[i]})]
    \o <<Sure({}, {"entered"})>>

\* The ends handed to the console are closed whether it was made or not; when
\* it was not, the two others stay open.
xCommandExecutorSubmitPty ==
  LET Ends == {"in write", "out read"}
      Conpty == Ends \cup {"conpty"}
  IN Nested(<<Get({"stdout_buf"}, {}),
       Get({"in read", "in write"}, {}),
       Get({"out read", "out write"}, {"in read", "in write"}),
       [Get({"conpty"}, {"in read", "out write"})
          EXCEPT !.drops = {"in read", "out write"}],
       Get({"attributes"}, Conpty),
       Check({"attributes"} \cup Conpty),
       Get({"cmdline"}, {"attributes"} \cup Conpty),
       [Get({"process"}, {"cmdline", "attributes"} \cup Conpty)
          EXCEPT !.drops = {"cmdline", "attributes"}],
       [Lax({"pty_fd"}) EXCEPT !.drops = {"in write"}],
       Lax({"wait"}),
       [Get({"reader"}, {"process", "conpty", "out read"})
          EXCEPT !.tries = {"in write", "pty_fd", "wait"}]>>,
     {}, {"stdout_buf"})

xFiberCreate == <<Get({"fiber"}, {}), Get({"handle"}, {"fiber"})>>

xFiberDestroy == {"handle", "fiber"}

xArenaCreate == <<Get({"buf"}, {}), Get({"arena"}, {"buf"})>>

xJsonSaxCreate == <<Get({"sax"}, {})>> \o Nested(xArenaCreate, {"sax"}, {})

\* The copies of the texts, looked at together once all were made.
xFlagSetCreate ==
  <<Get({"set"}, {})>> \o Nested(Each(<<{"prog"}, {"summary"}>>, {"prog", "summary"}), {"set"}, {})

xFlagEntryNew ==
  <<Get({"entry"}, {})>>
    \o Nested(Each(<<{"name"}, {"meta"}, {"help"}>>, {"name", "meta", "help"}), {"entry"}, {})

xFlagAddString == xFlagEntryNew \o <<Get({"def"}, {"name", "meta", "help", "entry"})>>

xFlagSetDestroy == {"set", "prog", "summary", "entry", "name", "meta", "help", "def"}
-----------------------------------------------------------------------------
\* Every constructor with what its object's destructor releases; the download
\* proxy's context has no destructor.
Makers ==
  LET Of(steps, ends) == [steps |-> steps, ends |-> ends] IN
  [epoll    |-> Of(xEventLoopCreateWithConf(ep_init), xEventLoopDestroy(ep_destroy)),
   kqueue   |-> Of(xEventLoopCreateWithConf(kq_init), xEventLoopDestroy(kq_destroy)),
   poll     |-> Of(xEventLoopCreateWithConf(poll_init), xEventLoopDestroy(poll_destroy)),
   wsapoll  |-> Of(xEventLoopCreateWithConf(wsapoll_init),
                   xEventLoopDestroy(wsapoll_destroy)),
   http     |-> Of(xHttpServerListen, xHttpServerDestroy({})),
   https    |-> Of(xHttpServerListenTls, xHttpServerDestroy({})),
   ws       |-> Of(xWsServe, xHttpServerDestroy(xWsServeAuxFree)),
   h1       |-> Of(xHttpProtoH1Init, {"h1", "stream"}),
   h2       |-> Of(xHttpProtoH2Init, {"h2", "session"}),
   request  |-> Of(xHttpClientDo,
                   {"added", "req", "easy", "header_buf", "paused_buf", "req_headers"}),
   sse      |-> Of(xHttpClientDoSse, {"added", "req", "easy", "sse_headers", "parser"}),
   watched  |-> Of(socket_callback, {"src", "ctx"}),
   mbedS    |-> Of(mbed_ServerInit, mbed_destroy),
   mbedC    |-> Of(mbed_ClientInit, mbed_destroy),
   opensslS |-> Of(openssl_ServerInit, openssl_destroy),
   opensslC |-> Of(openssl_ClientInit, openssl_destroy),
   certO    |-> Of(openssl_cert, {"pkey", "cert"}),
   certM    |-> Of(mbedtls_create, {"ctx", "rng", "pkey", "cert", "ssl"}),
   sctp     |-> Of(xSctpTransportCreate, xSctpTransportDestroy),
   dlp      |-> Of(dlp_init, {}),
   dlproxy  |-> Of(dlp_proxy_init, dlp_proxy_deinit),
   pty      |-> Of(xCommandExecutorSubmitPty,
                   {"stdout_buf", "in write", "out read", "conpty", "process",
                    "pty_fd", "wait", "reader"}),
   fiber    |-> Of(xFiberCreate, xFiberDestroy),
   sax      |-> Of(xJsonSaxCreate, {"sax", "arena", "buf"}),
   flags    |-> Of(xFlagSetCreate, xFlagSetDestroy),
   flag     |-> Of(xFlagAddString, xFlagSetDestroy)]

Steps == Makers[s.what].steps
Now == Steps[s.at]

Init ==
  s \in [what : DOMAIN Makers, at : {1}, held : {{}}, stray : {{}}, pc : {"making"}]

Making == s.pc = "making" /\ s.at <= Len(Steps)

Succeed ==
  /\ Making
  /\ s' = [s EXCEPT !.held = (@ \cup Now.gets) \ Now.drops, !.at = @ + 1]

Release(r, frees, tries) ==
  [r EXCEPT !.held = @ \ (frees \cup tries), !.stray = @ \cup (frees \ r.held)]

Refuse ==
  /\ Making
  /\ Now.on # "sure"
  /\ s' = IF Now.on = "lax"
          THEN [s EXCEPT !.at = @ + 1]
          ELSE [Release(s, Now.frees, Now.tries) EXCEPT !.pc = "refused"]

Finish ==
  /\ s.pc = "making"
  /\ s.at > Len(Steps)
  /\ s' = [s EXCEPT !.pc = "made"]

Destroy ==
  /\ s.pc = "made"
  /\ Makers[s.what].ends # {}
  /\ s' = [Release(s, {}, Makers[s.what].ends) EXCEPT !.pc = "gone"]

Next == Succeed \/ Refuse \/ Finish \/ Destroy

Spec == Init /\ [][Next]_s
-----------------------------------------------------------------------------
\* What the three constructors that do not clean up leave behind: descriptor
\* 0 closed by WSAPoll's init, the pause buffer of a request libcurl would not
\* take (client.c:635-641), and the caller's ends of a pseudo console's pipes
\* (command_windows.c:1002, where the jump skips the label that closes them).
Known ==
  [wsapoll |-> {"zero"}, request |-> {"paused_buf"}, pty |-> {"in write", "out read"}]

Excused == IF s.what \in DOMAIN Known THEN Known[s.what] ELSE {}

\* A constructor that is refused halfway gives back exactly what it had
\* acquired: it keeps nothing and releases nothing twice or unacquired.  The
\* exceptions are those named above.
RefusedHoldsNothing ==
  /\ s.pc = "refused" => s.held \subseteq Excused
  /\ s.stray \subseteq Excused

\* Destroying what was made releases everything the constructor acquired; its
\* scratch objects, which no destructor knows, were gone before it returned.
DestroyedHoldsNothing == s.pc = "gone" => s.held = {}

=============================================================================
