----------------------------- MODULE MCHandles -----------------------------
(***************************************************************************)
(* What an event loop is made of and what is built directly on it, checked *)
(* in one run: its timers (EventTimers, whose variables are declared       *)
(* there) and its file descriptor sources (EventSources); the backends     *)
(* under them and the signals beside them (Backends), its construction     *)
(* (Setup); and what runs on a loop: child processes on both platforms     *)
(* (Commands), the logger, the relay between loops, fibers and file        *)
(* requests (Services).  They share no state the properties look at, so a  *)
(* behaviour is one of one part: part says which.  The state of all but    *)
(* the first two is a single value, s.                                     *)
(***************************************************************************)
EXTENDS EventTimers

CONSTANTS
    Slots, Fds, IoMax, MaxAdds, MaxDepth, MaxReady, None,
    x1, x2                   \* a pair: of signal loops, commands, producers, file requests

VARIABLES
    part, s,
    items, src, kernel, sready, sactive, frames, live, adds, edges

S == INSTANCE EventSources WITH ready <- sready, active <- sactive

ASSUME SourcesAssumption == S!SourcesConstants

B == INSTANCE Backends WITH
        poll <- s, PollFds <- {x1}, Backends <- {"poll", "wsapoll", "kqueue"}, MaxAdded <- 2,
        sig <- s, SigLoops <- {x1, x2}, SigBackends <- {"epoll", "kqueue"}, MaxRaised <- 2
U == INSTANCE Setup
C == INSTANCE Commands WITH posix <- s, Execs <- {x1, x2}, MaxRuns <- 1, win <- s, MaxRunsWin <- 2
V == INSTANCE Services WITH
        log <- s, Producers <- {x1, x2}, LogModes <- {"timer", "notify", "mixed"},
        MaxEntries <- 3, MaxFileSize <- 1, MaxFiles <- 3, MayFail <- FALSE,
        relay <- s, Loops <- {1, 2}, MaxSubs <- 2, MaxMsgs <- 2,
        fiber <- s, NFibers <- 3, Platforms <- {"unix", "windows"},
        fs <- s, MaxFd <- 1, Reqs <- {x1, x2}, FsPlatforms <- {"posix", "win32"},
        Stdin <- {TRUE}, MayRelease <- {FALSE}

svars == <<items, src, kernel, sready, sactive, frames, live, adds, edges>>
lvars == <<svars, vars>>

MCInit ==
    /\ S!Init /\ Init
    /\ \/ part \in {"sources", "timers"} /\ s = 0
       \/ part = "poll" /\ B!PollInit
       \/ part = "signals" /\ B!SignalInit
       \/ part = "setup" /\ U!Init
       \/ part = "command" /\ C!PosixInit
       \/ part = "commandwin" /\ C!WinInit
       \/ part = "logger" /\ V!LogInit
       \/ part = "relay" /\ V!RelayInit
       \/ part = "fs" /\ V!FsInit
       \/ part = "fiber" /\ V!FiberInit

MCNext ==
    \/ part = "sources" /\ S!Next /\ UNCHANGED <<part, s, vars>>
    \/ part = "timers" /\ Next /\ UNCHANGED <<part, s, svars>>
    \/ part = "poll" /\ B!PollNext /\ UNCHANGED <<part, lvars>>
    \/ part = "signals" /\ B!SignalNext /\ UNCHANGED <<part, lvars>>
    \/ part = "setup" /\ U!Next /\ UNCHANGED <<part, lvars>>
    \/ part = "command" /\ C!PosixNext /\ UNCHANGED <<part, lvars>>
    \/ part = "commandwin" /\ C!WinNext /\ UNCHANGED <<part, lvars>>
    \/ part = "logger" /\ V!LogNext /\ UNCHANGED <<part, lvars>>
    \/ part = "relay" /\ V!RelayNext /\ UNCHANGED <<part, lvars>>
    \/ part = "fs" /\ V!FsNext /\ UNCHANGED <<part, lvars>>
    \/ part = "fiber" /\ V!FiberNext /\ UNCHANGED <<part, lvars>>

MCSpec == MCInit /\ [][MCNext]_<<part, s, lvars>>
-----------------------------------------------------------------------------
(* active_handles, which decides whether xEventLoopRun goes on, counts the *)
(* registered descriptors and the pending timers exactly, through refused  *)
(* adds, deletes and stops from callbacks, sweeps and repeats; the kernel  *)
(* holds exactly the registrations that are live, the array of sources     *)
(* exactly the structs that are allocated, and no struct is freed while an *)
(* event of a running batch refers to it.                                  *)
HandlesExact ==
    /\ S!TypeOK /\ S!ArrayExact /\ S!HandlesExact /\ S!KernelRight /\ S!BatchLive
    /\ TypeOK /\ TimerHandles

(* A callback runs only for its own registration and never after xEventDel *)
(* of it; a timer's lifetime that xTimerStop has ended never fires again,  *)
(* also when its struct is recycled.                                       *)
CallsTheLiving == S!CallsTheLiving /\ StoppedNeverFires

(* Whatever the backend, the kernel is asked for what the registered       *)
(* sources want; and a signal reaches the loop that watches it, as long as *)
(* no two loops watched it at the same time.                               *)
BackendsRight ==
    /\ part = "poll" => B!SourceArmed
    /\ part = "signals" => B!SignalsHeard

(* An object whose construction fails half way, or that is destroyed,      *)
(* gives back everything it took, but for the objects Setup names in       *)
(* Known.                                                                  *)
SetupWhole == part = "setup" => U!RefusedHoldsNothing /\ U!DestroyedHoldsNothing

(* A child process is reported finished once, when both its exit and its   *)
(* output are in; a relayed message runs once, on its subscriber's loop; a *)
(* descriptor that was opened is known to someone until it is closed; the  *)
(* thread's record names the fiber it is on; the log files hold the        *)
(* entries in the order they were queued, through rotation.                *)
ServicesRight ==
    /\ part = "command" => C!DoneOnce
    /\ part = "commandwin" => C!WinDoneOnce
    /\ part = "relay" => V!OnceOnItsLoop
    /\ part = "fs" => V!FilesHeld
    /\ part = "fiber" => V!RecordRight
    /\ part = "logger" => V!EntriesInOrder
=============================================================================
