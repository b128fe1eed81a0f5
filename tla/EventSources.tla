---------------------------- MODULE EventSources ----------------------------
(***************************************************************************)
(* The file descriptor sources of an event loop: xEventAdd, xEventMod and  *)
(* xEventDel (src/libx/x/base/event_run.c), the array of source structs    *)
(* with its deferred removal (event_private.c) and the epoll backend       *)
(* (event_epoll.c), whose kernel side keeps a pointer to the struct.  A    *)
(* callback runs inside the batch that reports its event, and may itself   *)
(* run the loop again: frames[1] is the outermost xEventLoopRun.           *)
(***************************************************************************)
EXTENDS Naturals, Integers, Sequences, FiniteSets

CONSTANTS
    Slots,     \* memory for source structs, handed out by calloc
    Fds,       \* file descriptors
    IoMax,     \* X_EVENT_IO_BATCH_MAX
    MaxAdds,   \* bound: calls of xEventAdd
    MaxDepth,  \* bound: xEventLoopRun inside xEventLoopRun
    MaxReady,  \* bound: edges the kernel reports and callbacks posted
    None       \* not registered; also the wake descriptor's place in a batch

(* What the model takes for granted about them.                            *)
SourcesConstants ==
    /\ None \notin Slots /\ None \notin Fds
    /\ IoMax \in Nat /\ MaxAdds \in Nat /\ MaxDepth \in Nat /\ MaxReady \in Nat

VARIABLES
    items,    \* loop->sources: pointers to the structs, in array order
    src,      \* the structs; reg is the registration the struct stands for, 0 free memory
    kernel,   \* epoll: the struct each descriptor is registered with
    ready,    \* epoll's ready list, oldest first; None is the wake descriptor
    active,   \* loop->active_handles
    frames,   \* the running xEventLoopRun calls
    live,     \* history: registrations the application holds a handle of
    adds,     \* history: calls of xEventAdd
    edges     \* history: edges reported and callbacks posted

vars == <<items, src, kernel, ready, active, frames, live, adds, edges>>

Free == [fd |-> None, reg |-> 0, armed |-> FALSE, deleted |-> FALSE]
Used == {s \in Slots : src[s].reg # 0}
Holder(r) == CHOOSE s \in Slots : src[s].reg = r
RangeOf(q) == {q[i] : i \in 1..Len(q)}

(* An event names the struct the kernel was given, and the registration it *)
(* was raised for.                                                         *)
Events == [slot : Slots, reg : 1..MaxAdds] \cup {None}

Frame == [pc : {"poll", "translate", "dispatch", "end"}, cb : BOOLEAN,
          raw : Seq(Events), batch : Seq(Events)]
NewFrame == [pc |-> "poll", cb |-> FALSE, raw |-> <<>>, batch |-> <<>>]

Depth == Len(frames)
Top == frames[Depth]
SetTop(f) == frames' = [frames EXCEPT ![Depth] = f]

Init ==
    /\ items = <<>> /\ src = [s \in Slots |-> Free]
    /\ kernel = [f \in Fds |-> None] /\ ready = <<>>
    /\ active = 0 /\ frames = <<>> /\ live = {} /\ adds = 0 /\ edges = 0

-----------------------------------------------------------------------------
(* The kernel and other threads.                                           *)

(* A registered descriptor becomes ready.                                  *)
FdReady(f) ==
    /\ edges < MaxReady /\ edges' = edges + 1
    /\ kernel[f] # None /\ src[kernel[f]].armed
    /\ f \notin RangeOf(ready)
    /\ ready' = Append(ready, f)
    /\ UNCHANGED <<items, src, kernel, active, frames, live, adds>>

(* A wake makes the loop run posted callbacks inside the poll.             *)
WakeReady ==
    /\ edges < MaxReady /\ edges' = edges + 1
    /\ None \notin RangeOf(ready)
    /\ ready' = Append(ready, None)
    /\ UNCHANGED <<items, src, kernel, active, frames, live, adds>>

-----------------------------------------------------------------------------
(* The application: code on the loop thread, in a callback or outside Run. *)

AppRuns == IF frames = <<>> THEN TRUE ELSE Top.cb

(* The ready list without a descriptor.                                    *)
NotReady(f) ==
    LET k == CHOOSE i \in 1..Len(ready) : ready[i] = f
    IN  IF f \notin RangeOf(ready) THEN ready
        ELSE [i \in 1..(Len(ready) - 1) |-> ready[IF i < k THEN i ELSE i + 1]]

(* xEventAdd.  The kernel refuses a descriptor that is already registered, *)
(* and then the new struct is left to the next sweep.                      *)
Add(f) ==
    /\ AppRuns /\ adds < MaxAdds /\ adds' = adds + 1
    /\ \E s \in Slots \ Used :
           /\ items' = Append(items, s)
           /\ src' = [src EXCEPT ![s] =
                        [fd |-> f, reg |-> adds', armed |-> TRUE, deleted |-> kernel[f] # None]]
           /\ IF kernel[f] = None
              THEN /\ kernel' = [kernel EXCEPT ![f] = s]
                   /\ active' = active + 1 /\ live' = live \cup {adds'}
              ELSE UNCHANGED <<kernel, active, live>>
    /\ UNCHANGED <<ready, frames, edges>>

(* xEventMod, to a mask that watches something or nothing.                 *)
Mod(r) ==
    /\ AppRuns /\ r \in live
    /\ LET s == Holder(r) IN
           /\ src' = [src EXCEPT ![s].armed = ~@]
           /\ ready' = IF src[s].armed THEN NotReady(src[s].fd) ELSE ready
    /\ UNCHANGED <<items, kernel, active, frames, live, adds, edges>>

(* Mutant of Del: the struct is freed at once.                             *)
DelFreesNow(r) ==
    /\ AppRuns /\ r \in live /\ live' = live \ {r}
    /\ active' = active - 1
    /\ LET s == Holder(r) IN
           /\ kernel' = [kernel EXCEPT ![src[s].fd] = None]
           /\ ready' = NotReady(src[s].fd)
           /\ src' = [src EXCEPT ![s] = Free]
           /\ items' = SelectSeq(items, LAMBDA t : t # s)
    /\ UNCHANGED <<frames, adds, edges>>

(* xEventDel: out of the kernel now, freed by a later sweep.               *)
Del(r) ==
    /\ AppRuns /\ r \in live /\ live' = live \ {r}
    /\ active' = active - 1
    /\ LET s == Holder(r) IN
           /\ kernel' = [kernel EXCEPT ![src[s].fd] = None]
           /\ ready' = NotReady(src[s].fd)
           /\ src' = [src EXCEPT ![s].deleted = TRUE]
    /\ UNCHANGED <<items, frames, adds, edges>>

(* xEventLoopRun, from outside or from a callback that waits for a result. *)
Run ==
    /\ AppRuns /\ Depth < MaxDepth
    /\ active > 0
    /\ frames' = Append(frames, NewFrame)
    /\ UNCHANGED <<items, src, kernel, ready, active, live, adds, edges>>

CallbackReturns ==
    /\ frames # <<>> /\ Top.cb
    /\ SetTop([Top EXCEPT !.cb = FALSE])
    /\ UNCHANGED <<items, src, kernel, ready, active, live, adds, edges>>

(* xEventLoopDestroy frees every struct that is left.                      *)
Destroy ==
    /\ frames = <<>>
    /\ items # <<>>
    /\ items' = <<>> /\ src' = [s \in Slots |-> Free]
    /\ kernel' = [f \in Fds |-> None] /\ ready' = <<>>
    /\ active' = 0 /\ live' = {}
    /\ UNCHANGED <<frames, adds, edges>>

-----------------------------------------------------------------------------
(* The loop thread.                                                        *)

LoopRuns == frames # <<>> /\ ~Top.cb

(* A posted callback or a timer, run before the poll or after dispatch.    *)
Posted ==
    /\ LoopRuns /\ Top.pc \in {"poll", "end"}
    /\ edges < MaxReady /\ edges' = edges + 1
    /\ SetTop([Top EXCEPT !.cb = TRUE])
    /\ UNCHANGED <<items, src, kernel, ready, active, live, adds>>

Event(f) == IF f = None THEN None ELSE [slot |-> kernel[f], reg |-> src[kernel[f]].reg]

(* epoll_wait: the oldest ready descriptors, as many as the batch holds.   *)
Poll ==
    /\ LoopRuns /\ Top.pc = "poll"
    /\ LET n == IF Len(ready) < IoMax THEN Len(ready) ELSE IoMax IN
           /\ SetTop([Top EXCEPT !.pc = "translate", !.raw = [i \in 1..n |-> Event(ready[i])]])
           /\ ready' = SubSeq(ready, n + 1, Len(ready))
    /\ UNCHANGED <<items, src, kernel, active, live, adds, edges>>

(* One reported event: the wake runs posted callbacks on the spot, a       *)
(* deleted source is skipped, another one goes to the batch.               *)
Translate ==
    /\ LoopRuns /\ Top.pc = "translate"
    /\ IF Top.raw = <<>>
       THEN SetTop([Top EXCEPT !.pc = "dispatch"])
       ELSE LET e == Head(Top.raw)
                f == [Top EXCEPT !.raw = Tail(@)]
            IN  SetTop(CASE e = None -> [f EXCEPT !.cb = TRUE]
                         [] e # None /\ src[e.slot].deleted -> f
                         [] OTHER -> [f EXCEPT !.batch = Append(@, e)])
    /\ UNCHANGED <<items, src, kernel, ready, active, live, adds, edges>>

(* One event of the batch: its source may have been deleted meanwhile.     *)
Dispatch ==
    /\ LoopRuns /\ Top.pc = "dispatch"
    /\ SetTop(IF Top.batch = <<>>
              THEN [Top EXCEPT !.pc = "end"]
              ELSE [Top EXCEPT !.batch = Tail(@), !.cb = ~src[Head(Top.batch).slot].deleted])
    /\ UNCHANGED <<items, src, kernel, ready, active, live, adds, edges>>

(* The loop of the sweep at place i of the array: a deleted entry is       *)
(* replaced by the last one, which is looked at next.                      *)
SweepStep(a, i) ==
    CASE i > Len(a) -> <<a, i>>
      [] i <= Len(a) /\ src[a[i]].deleted ->
           <<[k \in 1..(Len(a) - 1) |-> IF k = i THEN a[Len(a)] ELSE a[k]], i>>
      [] OTHER -> <<a, i + 1>>

SweepLoop[n \in Nat] ==
    IF n = 0 THEN <<items, 1>> ELSE SweepStep(SweepLoop[n - 1][1], SweepLoop[n - 1][2])

(* Each round drops an entry or leaves one behind.                         *)
Swept == SweepLoop[Len(items)][1]

(* The end of an iteration: the deleted structs are freed; a nested run    *)
(* returns after it, the outermost one when it is stopped or not alive.    *)
Sweep ==
    /\ LoopRuns /\ Top.pc = "end"
    /\ items' = Swept
    /\ src' = [s \in Slots |-> IF src[s].deleted THEN Free ELSE src[s]]
    /\ \/ frames' = SubSeq(frames, 1, Depth - 1)
       \/ Depth = 1 /\ active > 0 /\ frames' = <<NewFrame>>
    /\ UNCHANGED <<kernel, ready, active, live, adds, edges>>

Next ==
    \/ \E f \in Fds : FdReady(f) \/ Add(f)
    \/ WakeReady
    \/ \E r \in 1..MaxAdds : Mod(r) \/ Del(r)
    \/ Run \/ CallbackReturns \/ Destroy
    \/ Posted \/ Poll \/ Translate \/ Dispatch \/ Sweep

Spec == Init /\ [][Next]_vars

-----------------------------------------------------------------------------
Pending(f) == RangeOf(f.raw) \cup RangeOf(f.batch)

(* The variables have their types.                                         *)
TypeOK ==
    /\ items \in Seq(Slots)
    /\ src \in [Slots -> [fd : Fds \cup {None}, reg : 0..MaxAdds,
                          armed : BOOLEAN, deleted : BOOLEAN]]
    /\ kernel \in [Fds -> Slots \cup {None}]
    /\ ready \in Seq(Fds \cup {None})
    /\ active \in Int /\ frames \in Seq(Frame) /\ Depth <= MaxDepth
    /\ live \subseteq 1..MaxAdds /\ adds \in 0..MaxAdds /\ edges \in 0..MaxReady

(* The array of sources holds exactly the structs that are allocated, each *)
(* once: the sweep, which moves the last entry into the place of a deleted *)
(* one, drops every deleted struct and no other.                           *)
ArrayExact == RangeOf(items) = Used /\ Len(items) = Cardinality(Used)

(* active_handles, which decides whether xEventLoopRun goes on, is the     *)
(* number of registrations the application holds, through failed adds,     *)
(* deletes during dispatch and sweeps, and the structs not marked deleted  *)
(* are those of these registrations.                                       *)
HandlesExact ==
    /\ active = Cardinality(live)
    /\ {src[s].reg : s \in {t \in Used : ~src[t].deleted}} = live

(* The pointers the kernel holds are the live registrations: epoll never   *)
(* reports a struct that was deleted or freed, and reports every other.    *)
KernelRight ==
    /\ \A f \in Fds : kernel[f] # None =>
           src[kernel[f]].fd = f /\ src[kernel[f]].reg \in live /\ ~src[kernel[f]].deleted
    /\ \A r \in live : \E f \in Fds : kernel[f] # None /\ src[kernel[f]].reg = r

(* A struct is not freed while an event of a running batch refers to it:   *)
(* what source_array_remove defers the free for.                           *)
BatchLive ==
    \A i \in 1..Depth : \A e \in Pending(frames[i]) \ {None} : src[e.slot].reg = e.reg

(* A callback is called only for an event of its own registration, and     *)
(* never after xEventDel of it.                                            *)
CallsTheLiving ==
    [][\A i \in 1..Depth :
           /\ Len(frames') = Depth /\ ~frames[i].cb /\ frames'[i].cb
           /\ frames[i].pc = "dispatch" /\ frames[i].batch # <<>>
           => /\ Head(frames[i].batch).reg \in live
              /\ src[Head(frames[i].batch).slot].reg = Head(frames[i].batch).reg]_vars

=============================================================================
