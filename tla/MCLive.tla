------------------------------- MODULE MCLive -------------------------------
(***************************************************************************)
(* What must happen in the end, under the fairness of a thread that goes   *)
(* on, a loop that goes on and timers that fire: the lock-free queue       *)
(* (Mpsc), the event loop over an abstract one (EventLoop), and what runs  *)
(* on loops: the logger (Services), spawned chains (Promises), TCP         *)
(* connects (Tcp) and DTLS handshakes (Peer).  A behaviour is one of one   *)
(* part; the state of the last four is a single value, s.                  *)
(***************************************************************************)
EXTENDS Mpsc

CONSTANTS Threads, Linked, BatchMax, Modes, HasSource, MaxPosts, MaxStops, MaxTimers, MaxDepth

VARIABLES
    part, s,
    q, wake_pending, wakefd, stopped, timers, tpc, stack, posts, stops, cut

E == INSTANCE EventLoop
V == INSTANCE Services WITH
        log <- s, LogModes <- {"timer", "notify", "mixed"}, MaxEntries <- 2, MaxFileSize <- 1,
        MaxFiles <- 2, MayFail <- FALSE,
        relay <- s, Loops <- {}, MaxSubs <- 0, MaxMsgs <- 0, fiber <- s, NFibers <- 0, Platforms <- {},
        fs <- s, Reqs <- {}, FsPlatforms <- {}, Stdin <- {}, MaxFd <- 0, MayRelease <- {}
P == INSTANCE Promises WITH
        spawn <- s, MaxResolves <- 2,
        prom <- s, Leaves <- {}, Sizes <- {}, ArenaCap <- 0, MaxNodes <- 0,
        ops <- s, NItems <- 0, MaxPosts <- 0
T == INSTANCE Tcp WITH
        conn <- s, Tls <- {"plain", "shared", "own"},
        lsn <- s, acc <- s, Peers <- {}, sock <- s, MaxTimeout <- 0, MaxTime <- 0,
        tls <- s, Backends <- {}, Gens <- {},
        tcp <- s, Ports <- {}, MaxAddrs <- 0, MaxAccepts <- 0, MaxPeers <- 0
D == INSTANCE Peer WITH
        dtls <- s, DtlsBackends <- {"openssl", "mbedtls"}, IoBufCap <- 2, MaxLost <- 1,
        pc <- s, net <- s, misled <- s, Openers <- {}, MaxChannels <- 0, MaxCreates <- 0, MaxSends <- 0,
        dc <- s, MaxDcChannels <- 0, MaxLabel <- 0, Sids <- {}, MaxTold <- 0, MaxBuffered <- 0

evars == <<q, wake_pending, wakefd, stopped, timers, tpc, stack, posts, stops, cut>>

MCInit ==
    /\ Init /\ E!Init
    /\ \/ part \in {"mpsc", "loop"} /\ s = 0
       \/ part = "logger" /\ V!LogInit
       \/ part = "spawn" /\ P!SpawnInit
       \/ part = "connect" /\ T!ConnectInit
       \/ part = "dtls" /\ D!DtlsInit

MCNext ==
    \/ part = "mpsc" /\ Next /\ UNCHANGED <<part, s, evars>>
    \/ part = "loop" /\ E!Next /\ UNCHANGED <<part, s, vars>>
    \/ part = "logger" /\ V!LogNext /\ UNCHANGED <<part, vars, evars>>
    \/ part = "spawn" /\ P!SpawnNext /\ UNCHANGED <<part, vars, evars>>
    \/ part = "connect" /\ T!ConnectNext /\ UNCHANGED <<part, vars, evars>>
    \/ part = "dtls" /\ D!DtlsNext /\ UNCHANGED <<part, vars, evars>>

(* The fairness of each part, as its own module states and justifies it.   *)
MCFairness ==
    /\ \A p \in Producers : WF_vars(part = "mpsc" /\ PushLink(p))
    /\ WF_vars(part = "mpsc" /\ Pop)
    /\ WF_evars(part = "loop" /\ E!LoopStep)
    /\ WF_evars(part = "loop" /\ \E mode \in Modes : E!Run(mode))
    /\ \A t \in Threads : WF_evars(part = "loop" /\ (E!PostLink(t) \/ E!Wake(t) \/ E!WriteWake(t)))
    /\ \A p \in Producers : WF_s(part = "logger" /\ V!Link(p)) /\ WF_s(part = "logger" /\ V!logger_notify(p))
    /\ WF_s(part = "logger" /\ V!logger_timer_cb)
    /\ WF_s(part = "logger" /\ V!logger_pipe_cb)
    /\ WF_s(part = "logger" /\ V!Pop)
    /\ WF_s(part = "logger" /\ V!logger_write_entry)
    /\ WF_s(part = "spawn" /\ P!LoopNext)
    /\ WF_s(part = "spawn" /\ (P!driver_resolve \/ P!cell_wake))
    /\ WF_s(part = "connect" /\ T!dns_work_fn)
    /\ WF_s(part = "connect" /\ T!dns_done_fn)
    /\ WF_s(part = "connect" /\ T!dns_on_cancel)
    /\ WF_s(part = "connect" /\ T!connector_timeout_cb)
    /\ WF_s(part = "dtls" /\ D!Arrives)
    /\ \A x \in D!Sides : WF_s(part = "dtls" /\ D!handshake_timeout_cb(x))

MCSpec == MCInit /\ [][MCNext]_<<part, s, vars, evars>> /\ MCFairness
-----------------------------------------------------------------------------
(* xEventLoopStop makes the outermost xEventLoopRun return; and a posted   *)
(* callback "will be dispatched during the next iteration"                 *)
(* (event.h:311-312): the done queue does not stay non-empty.              *)
LoopLive == E!StopReturns /\ E!PostsRun

Pending ==
    \/ part = "logger" /\ \E i \in 1 .. 2 : V!Queued(i) /\ ~V!OnDisk(i)
    \/ part = "spawn" /\ s.state = "Ready" /\ ~s.done
    \/ part = "connect" /\ T!Started /\ ~T!Over
    \/ part = "dtls" /\ \E x \in D!Sides : D!Connecting(x)

(* What was begun comes to its end: an entry that is logged is on disk, a  *)
(* chain that is resolved completes, a TCP connect is answered and its     *)
(* connector freed, a DTLS handshake connects, fails or times out.         *)
RequestsEnd == Pending ~> ~Pending
=============================================================================
