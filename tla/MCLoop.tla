------------------------------- MODULE MCLoop -------------------------------
(***************************************************************************)
(* The event loop (EventLoop, whose variables are declared there) and what *)
(* tasks on loops and threads wait for and share: watch and broadcast      *)
(* channels (Fanout), promise chains, spawned chains and the adapters of   *)
(* the loop (Promises), counted references (Memory), descriptors and files *)
(* (CxxIo).  These share no state: a behaviour is one of one of them, part *)
(* says of which, and the state of all but the loop is a single value, s.  *)
(***************************************************************************)
EXTENDS EventLoop

CONSTANTS r1, r2, t1, t2      \* receivers and senders of Watch, receivers of Broadcast, files

VARIABLES part, s

Fan == INSTANCE Fanout WITH
        watch <- s, Receivers <- {r1, r2}, Senders <- {t1, t2},
        WatchModes <- {"loop", "threads"}, MaxVersion <- 2, MaxPending <- 1,
        bcast <- s, BcastReceivers <- {r1, r2}, BcastCap <- 3, MaxSent <- 4
Pr == INSTANCE Promises WITH
        prom <- s, Leaves <- {1, 2}, Sizes <- {1, 2}, ArenaCap <- 3, MaxNodes <- 3,
        spawn <- s, MaxResolves <- 2, ops <- s, NItems <- 3, MaxPosts <- 3
Mem == INSTANCE Memory WITH
        refs <- s, RefThreads <- {1, 2}, RefSlots <- {1, 2}, NBlocksRef <- 2, RefKinds <- {"arc", "rc"},
        slab <- s, SlabThreads <- {}, NSlots <- 0, MaxChunks <- 0, Mt <- FALSE,
        arr <- s, MaxElems <- 0, MaxArr <- 0, ArenaCap <- 0, ArenaBase <- 0,
        heap <- s, HeapElems <- {}, HeapKeys <- {}, HeapCap <- 0
Cx == INSTANCE CxxIo WITH
        afd <- s, FdKinds <- {"tcp", "udp", "raw"}, FdBackends <- {"epoll", "kqueue"},
        MaxLevel <- 2, MaxMoves <- 1,
        file <- s, Files <- {r1, r2}, FileSlots <- {1, 2}, MaxFd <- 2, MaxOpens <- 2, MaxOff <- 1,
        pipe <- s, PipeCap <- 0, ReadLens <- {}, WriteLens <- {}, MaxBytes <- 0,
        bio <- s, BufSize <- 0, SourceLen <- 0, Limits <- {}, IoLens <- {}, MaxGiven <- 0

MCInit ==
  /\ Init
  /\ \/ part = "loop" /\ s = 0
     \/ part = "watch" /\ Fan!WatchInit
     \/ part = "broadcast" /\ Fan!BcastInit
     \/ part = "promises" /\ Pr!PromiseInit
     \/ part = "refs" /\ Mem!RefsInit
     \/ part = "spawn" /\ Pr!SpawnInit
     \/ part = "adapters" /\ Pr!OpsInit
     \/ part = "asyncfd" /\ Cx!AfdInit
     \/ part = "file" /\ Cx!FileInit

MCNext ==
  \/ part = "loop" /\ Next /\ UNCHANGED <<part, s>>
  \/ part = "watch" /\ Fan!WatchNext /\ UNCHANGED <<part, vars>>
  \/ part = "broadcast" /\ Fan!BcastNext /\ UNCHANGED <<part, vars>>
  \/ part = "promises" /\ Pr!PromiseNext /\ UNCHANGED <<part, vars>>
  \/ part = "refs" /\ Mem!RefsNext /\ UNCHANGED <<part, vars>>
  \/ part = "spawn" /\ Pr!SpawnNext /\ UNCHANGED <<part, vars>>
  \/ part = "adapters" /\ Pr!OpsNext /\ UNCHANGED <<part, vars>>
  \/ part = "asyncfd" /\ Cx!AfdNext /\ UNCHANGED <<part, vars>>
  \/ part = "file" /\ Cx!FileNext /\ UNCHANGED <<part, vars>>

MCSpec == MCInit /\ [][MCNext]_<<part, s, vars>>
-----------------------------------------------------------------------------
\* One value for many: no receiver of a watch sleeps over a version it has not
\* seen, no sender over a channel nobody listens to; a receiver of a broadcast
\* reads what was sent since it subscribed in order, while nothing was evicted
\* and no other receiver read it first, and does not sleep over a value.
FannedOut ==
  /\ part = "watch" => Fan!WatchRight
  /\ part = "broadcast" => Fan!BroadcastInOrder

\* What is shared is destroyed exactly once and not before its last owner is
\* through: the nodes of a promise chain in their arena, counted references,
\* drivers of spawned chains, operations of the loop's adapters, the
\* descriptors of files; and a task that waits for a descriptor is woken when
\* it is ready, closed or moved away.
OwnedOnce ==
  /\ part = "promises" => Pr!PromisesKept
  /\ part = "refs" => Mem!OwnedExactly
  /\ part = "spawn" => Pr!DriverOwned
  /\ part = "adapters" => Pr!AdaptersSafe
  /\ part = "asyncfd" => Cx!WaitersHeard
  /\ part = "file" => Cx!FileTypeOK /\ Cx!FdsOwned
=============================================================================
