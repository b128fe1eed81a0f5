------------------------------- MODULE MCNet -------------------------------
(***************************************************************************)
(* The network components side by side: HTTP server and client, WebSocket, *)
(* event streams; TCP, TLS contexts and sockets; URLs and DNS; the         *)
(* download proxy's cache, scheduler and playlists.  They share no state:  *)
(* a behaviour is one of one component, which part names, and its state    *)
(* is s (and c, the connections of a listener).                            *)
(***************************************************************************)
EXTENDS Naturals, Sequences

CONSTANTS x1, x2              \* a pair: of requests, peers, names

VARIABLES part, s, c

S == INSTANCE HttpServer WITH
        c <- s, MaxReq <- 2, MaxPending <- 2, MaxChunks <- 1,
        Protos <- {"h1", "h2"}, Writes <- {"all", "block", "error"}, PeerResets <- TRUE
C == INSTANCE HttpClient WITH
        client <- s, Reqs <- {x1, x2}, MaxBody <- 3, ReadTimeout <- TRUE, Kinds <- {"plain", "sse"},
        sse <- s, Chars <- {"D", "E", "LF"}, MaxText <- 5
X == INSTANCE CxxHttp WITH
        disp <- s, Ctxs <- {x1, x2}, MaxRequests <- 2, BodyCap <- 1, MaxChunks <- 2,
        Reuses <- {FALSE}, Early <- BOOLEAN,
        body <- s, UpLens <- {0, 3}, PullLens <- {1, 2}, ChunkLens <- {1, 3},
        ReadLens <- {1, 2}, ChanCap <- 2, MaxCame <- 7
R == INSTANCE Routing WITH
        mux <- s, UrlChars <- {"/", "a", "?"}, MaxUrl <- 4, MaxRoutes <- 2,
        Methods <- {"GET", "PUT"}, MaxParams <- 1,
        router <- s, MaxRouters <- 3, MaxRegs <- 3,
        Patterns <- {<<"/", "a">>, <<"/", ":", "p">>}, MountPoints <- {<<"/", "a">>, <<"/">>},
        Urls <- {<<"/">>, <<"/", "a">>, <<"/", "a", "/", "/", "a", "?", "/", "b">>,
                 <<"/", "b", "/", "a">>},
        RouteVerbs <- {"", "GET"}, Verbs <- {"GET", "PUT"},
        url <- s, Chars <- {"a", ":", "/", "?", "#", "@", "[", "]"}, MaxUrlLen <- 5,
        Digits <- {0, 3, 5, 6}, MaxDigits <- 6
W == INSTANCE WebSocket WITH
        ws <- s, MaxSends <- 1, Raw <- 2, Timers <- TRUE, Destroys <- TRUE,
        frame <- s, MaxPayload <- 16777216,
        Lens <- {0, 1, 125, 126, 127, 65535, 65536, 16777216, 16777217},
        hs <- s, WindowBits <- {7, 9, 15}, DeflateFails <- FALSE, MaxMsgs <- 2, InitBuf <- 2,
        MaxInflated <- 8,
        wsc <- s, MaxAddrs <- 3, MaxReads <- 2

T == INSTANCE Tcp WITH
        conn <- s, Tls <- {"plain", "shared", "own"},
        lsn <- s, acc <- c, Peers <- {x1, x2},
        sock <- s, MaxTimeout <- 2, MaxTime <- 4,
        tls <- s, Backends <- {"openssl", "mbedtls"}, Gens <- {1, 2},
        tcp <- s, Ports <- {80}, MaxAddrs <- 3, MaxAccepts <- 3, MaxPeers <- 3
D == INSTANCE Dns WITH
        server <- s, Names <- {x1, x2}, Types <- {"A", "other"}, Blocked <- {x2},
        MaxZones <- 2, MaxRecs <- 1, MaxQueries <- 2,
        wire <- s, Bytes <- {0, 1, 2, 3, 192}, MaxPacket <- 5, MaxSeen <- 3, OutCap <- 6,
        dmsg <- s, MsgNames <- {x1, x2}, Half <- 4, Ttls <- {6}, MaxAnswers <- 2, MaxAllocs <- 2
P == INSTANCE Dlproxy WITH
        cache <- s, FileSize <- 6, PieceSize <- 2, BlockPieces <- 2, UnknownCount <- 3,
        MaxChunk <- 4, MaxWrites <- 2, MaxLives <- 2,
        proxy <- s, Units <- {0, 1}, Chunks <- 1, Requests <- {x1}, Fetches <- {1, 2},
        Emergency <- 1, Safe <- 2,
        m3u <- s, MaxLines <- 5, Wrap <- 16, MaxTokens <- 4

NoConns == 0

Init ==
    \/ part = "listener" /\ T!ListenInit
    \/ /\ c = NoConns
       /\ \/ part = "server" /\ S!Init
          \/ part = "ws" /\ W!WsInit
          \/ part = "handshake" /\ W!HandshakeInit
          \/ part = "wsconnect" /\ W!WsConnectInit
          \/ part = "client" /\ C!ClientInit
          \/ part = "sse" /\ C!SseInit
          \/ part = "mux" /\ R!MuxInit
          \/ part = "frame" /\ W!FrameInit
          \/ part = "connect" /\ T!ConnectInit
          \/ part = "socket" /\ T!SocketInit
          \/ part = "tls" /\ T!CtxInit
          \/ part = "url" /\ R!UrlInit
          \/ part = "dns" /\ D!ServerInit
          \/ part = "packet" /\ D!PacketInit
          \/ part = "message" /\ D!MsgInit
          \/ part = "cache" /\ P!CacheInit
          \/ part = "proxy" /\ P!ProxyInit
          \/ part = "m3u8" /\ P!PlaylistInit
          \/ part = "dispatch" /\ X!DispatchInit
          \/ part = "router" /\ R!RouterInit
          \/ part = "body" /\ X!BodyInit
          \/ part = "xpptcp" /\ T!StreamInit

Next ==
    /\ UNCHANGED part
    /\ \/ part = "listener" /\ T!ListenNext
       \/ part = "server" /\ S!Next /\ UNCHANGED c
       \/ part = "ws" /\ W!WsNext /\ UNCHANGED c
       \/ part = "handshake" /\ W!HandshakeNext /\ UNCHANGED c
       \/ part = "wsconnect" /\ W!WsConnectNext /\ UNCHANGED c
       \/ part = "client" /\ C!ClientNext /\ UNCHANGED c
       \/ part = "sse" /\ C!SseNext /\ UNCHANGED c
       \/ part = "mux" /\ R!MuxNext /\ UNCHANGED c
       \/ part = "frame" /\ W!FrameNext /\ UNCHANGED c
       \/ part = "connect" /\ T!ConnectNext /\ UNCHANGED c
       \/ part = "socket" /\ T!SocketNext /\ UNCHANGED c
       \/ part = "tls" /\ T!CtxNext /\ UNCHANGED c
       \/ part = "url" /\ R!UrlNext /\ UNCHANGED c
       \/ part = "dns" /\ D!ServerNext /\ UNCHANGED c
       \/ part = "packet" /\ D!PacketNext /\ UNCHANGED c
       \/ part = "message" /\ D!MsgNext /\ UNCHANGED c
       \/ part = "cache" /\ P!CacheNext /\ UNCHANGED c
       \/ part = "proxy" /\ P!ProxyNext /\ UNCHANGED c
       \/ part = "m3u8" /\ P!PlaylistNext /\ UNCHANGED c
       \/ part = "dispatch" /\ X!DispatchNext /\ UNCHANGED c
       \/ part = "router" /\ R!RouterNext /\ UNCHANGED c
       \/ part = "body" /\ X!BodyNext /\ UNCHANGED c
       \/ part = "xpptcp" /\ T!StreamNext /\ UNCHANGED c

Spec == Init /\ [][Next]_<<part, s, c>>
-----------------------------------------------------------------------------
\* The answers on a server's wire can be told apart: no request is answered
\* twice, none is answered inside another, and HTTP/1.1 keeps their order; a
\* handler's context is alive until it answered or heard on_close, and the
\* answer it finished leaves without further input (HTTP/1.1); a handler of the
\* C++ server answers its own request, on a stream that is still there, and
\* reads the body that was sent.
AnswersFramed ==
    /\ part = "server" => S!TypeOK /\ S!AnswersFramed /\ S!CtxValid /\ S!AnswersLeave
    /\ part = "dispatch" => X!DispatchTypeOK /\ X!DispatchRight

\* What on_message of one WebSocket end hears is what the other end said, also
\* through what the handshake negotiated for compression; on_close comes
\* exactly once and a close handshake is always timed.
MessagesInOrder ==
    /\ part = "ws" => W!WsTypeOK /\ W!MessagesInOrder /\ W!ClosedOnce
    /\ part = "handshake" => W!MessagesInflate

\* A connect, of TCP or of a WebSocket, has one outcome, leaves nothing behind
\* it that could call back, and until then waits for the event its phase
\* needs; an accept loop leaves nobody waiting; an idle timeout is told when
\* it passed; TLS material is loaded whole or not at all; of the C++ streams,
\* a connection made or accepted belongs to one stream or is closed.
ConnectEnds ==
    /\ part = "wsconnect" => W!WsConnectTypeOK /\ W!OneOutcome /\ W!NeverStuck
    /\ part = "connect" => T!ConnectOnce /\ T!PartsOwned
    /\ part = "listener" => T!AcceptDrains /\ T!PendingHeard
    /\ part = "socket" => T!IdleTimeouts
    /\ part = "tls" => T!LoadedWhole
    /\ part = "xpptcp" => T!StreamTypeOK /\ T!StreamsOwned

\* on_done comes exactly once for every plain request of the client, and a
\* response body comes whole and in order, however often it is paused, also
\* through the channel of the C++ client.
DoneOnce ==
    /\ part = "client" => C!ClientTypeOK /\ C!DoneOnce /\ C!BodyWhole
    /\ part = "body" => X!BodyTypeOK /\ X!AnswerKept

\* How the network cuts a text, a URL's slashes or a frame does not change what
\* is parsed: event streams with LF line ends, routes (of the C++ router too),
\* WebSocket frames, URLs,
\* DNS names and messages, playlists.
ParsedRight ==
    /\ part = "sse" => C!SplitFree
    /\ part = "mux" => R!RouteRight
    /\ part = "router" => R!RouterTypeOK /\ R!RoutesRight
    /\ part = "frame" => W!FrameRight
    /\ part = "url" => R!UrlRight
    /\ part = "packet" => D!NamesRight
    /\ part = "message" => D!MessagesRight
    /\ part = "m3u8" => P!PlaylistRight

\* Every DNS query the server took is answered, forwarded or dropped, once, and
\* a local answer is that of the first zone that has one.
ZonesAnswer ==
    /\ [](part = "dns" => D!QueriesAccounted)
    /\ [][part = "dns" => D!FirstZoneStep]_s

\* The cache calls ready what was written, in this life of the process or an
\* earlier one, and a clip is reopened with the pieces it had; a fetch of the
\* proxy is freed after its last write, and a waiting request is held by one
\* waiter.
DownloadsRight ==
    /\ [](part = "cache" => P!ReadyHanded)
    /\ [](part = "proxy" => P!FetchFreedLast /\ P!RequestHeldOnce)
    /\ [][part = "cache" => P!ResumedStep]_s
=============================================================================
