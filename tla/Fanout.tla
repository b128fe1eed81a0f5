------------------------------- MODULE Fanout -------------------------------
(***************************************************************************)
(* The channels of libx++ with many receivers of one value: watch and      *)
(* broadcast, each with a state of its own.                                *)
(***************************************************************************)
EXTENDS Integers, Sequences, FiniteSets, SequencesExt

-----------------------------------------------------------------------------
(***************************************************************************)
(* sync::watch on sync::Notify (libxpp/xpp/sync/watch.h, notify.h):        *)
(* senders replace a value and bump its version; receivers wait in         *)
(* changed() for a version they have not seen, senders in closed() for the *)
(* last receiver to go.  A task is a receiver or a sender; its step is a   *)
(* critical section or an access to m_pending.  In mode "loop" all tasks   *)
(* share one event loop and run from one await to the next, in mode        *)
(* "threads" each has its own, with one receiver at a time, in mode        *)
(* "crowd" with any number. The three builds of changed() (coroutines,     *)
(* fibers, then()) check the version and the close in different orders.    *)
(***************************************************************************)

CONSTANTS Receivers, Senders, WatchModes, MaxVersion, MaxPending

VARIABLE watch
WatchVars == watch

Tasks == Receivers \cup Senders
Resting == {"idle", "parked", "ready", "gone", "unborn"}

\* channel(): the first sender and the first receiver exist
WatchInit == \E build \in {"co", "fiber", "then"}, mode \in WatchModes :
         LET s == CHOOSE x \in Senders : TRUE
             r == CHOOSE x \in Receivers : TRUE
         IN
         watch = [build |-> build, mode |-> mode, version |-> 0, closed |-> FALSE, rcount |-> 1, scount |-> 1,
                  pending |-> 0, waiters |-> <<>>, taken |-> {},
                  pc |-> [t \in Tasks |-> IF t \in {s, r} THEN "idle" ELSE "unborn"],
                  seen |-> [t \in Receivers |-> 0], told |-> [t \in Receivers |-> "nothing"]]

\* on one loop a task runs until it waits
Alone(t) == watch.mode # "loop" \/ \A u \in Tasks \ {t} : watch.pc[u] \in Resting
At(t, pc) == watch.pc[t] = pc /\ Alone(t)
Go(t, pc) == [watch EXCEPT !.pc[t] = pc]

\* at a place that locks m_value: send() holds that mutex until it returns
Locks(t, pc) == At(t, pc) /\ \A s \in Senders : watch.pc[s] # "notify"

----------------------------------------------------------------------------
\* Notify::notified: a look at m_pending, the subtraction, the mutex
NotifiedLoad(t) == At(t, "load") /\ watch' = Go(t, IF watch.pending > 0 THEN "sub" ELSE "lock")
NotifiedSub(t) == At(t, "sub") /\ watch' = [Go(t, "ready") EXCEPT !.pending = @ - 1]

NotifiedLock_blind(t) == At(t, "lock") /\ watch' = [Go(t, "parked") EXCEPT !.waiters = Append(@, t)]

NotifiedLock(t) ==
    /\ At(t, "lock")
    /\ watch' = IF watch.pending > 0 THEN [Go(t, "ready") EXCEPT !.pending = @ - 1]
                ELSE [Go(t, "parked") EXCEPT !.waiters = Append(@, t)]

\* Notify::notify_waiters, the last thing a task does before it rests or goes
Notifies(t, next) ==
    watch' = IF watch.waiters = <<>> THEN [Go(t, next) EXCEPT !.pending = @ + 1]
             ELSE [Go(t, next) EXCEPT !.waiters = <<>>, !.taken = @ \cup ToSet(watch.waiters)]

\* the resolvers taken out of the vector are resolved after the unlock
Resolved(t) == t \in watch.taken /\ watch' = [Go(t, "ready") EXCEPT !.taken = @ \ {t}]

----------------------------------------------------------------------------
\* Sender::send: the value, then the notification, both under the mutex
send(t) ==
    /\ Locks(t, "idle") /\ t \in Senders /\ watch.version < MaxVersion /\ watch.pending < MaxPending
    /\ ~watch.closed /\ watch.rcount > 0
    /\ watch' = [Go(t, "notify") EXCEPT !.version = @ + 1]
notify(t) == At(t, "notify") /\ Notifies(t, "idle")

clone(t) == \E u \in Senders :
    At(t, "idle") /\ t \in Senders /\ watch.pc[u] = "unborn" /\ watch' = [Go(u, "idle") EXCEPT !.scount = @ + 1]

subscribe(t) == \E r \in Receivers :
    /\ Locks(t, "idle") /\ t \in Senders /\ watch.pc[r] = "unborn"
    /\ watch.mode # "threads" \/ \A q \in Receivers : watch.pc[q] \in {"unborn", "gone"}
    /\ watch' = [Go(r, "idle") EXCEPT !.rcount = @ + 1, !.seen[r] = watch.version]

\* Sender::drop: the last one closes and notifies
drop(t) == At(t, "idle") /\ t \in Senders /\ watch' = [Go(t, IF watch.scount = 1 THEN "close" ELSE "gone") EXCEPT !.scount = @ - 1]
close(t) == Locks(t, "close") /\ watch' = [Go(t, "last") EXCEPT !.closed = TRUE]
last(t) == At(t, "last") /\ Notifies(t, "gone")

\* Sender::closed
closed(t) == At(t, "idle") /\ t \in Senders /\ watch.mode = "loop" /\ watch' = Go(t, "check")
check(t) == Locks(t, "check") /\ watch' = Go(t, IF watch.rcount = 0 \/ watch.closed THEN "idle" ELSE "load")
recheck(t) == At(t, "ready") /\ t \in Senders /\ watch' = Go(t, "check")

----------------------------------------------------------------------------
\* ~Receiver
Leaves(t) == Locks(t, "idle") /\ t \in Receivers /\ watch.pending < MaxPending /\ watch' = [Go(t, "left") EXCEPT !.rcount = @ - 1]
Left(t) == At(t, "left") /\ Notifies(t, "gone")

borrow_and_update(t) == Locks(t, "idle") /\ t \in Receivers /\ watch' = [watch EXCEPT !.seen[t] = watch.version, !.told[t] = "nothing"]

\* Receiver::changed
changed(t) == At(t, "idle") /\ t \in Receivers /\ watch' = [Go(t, "fast") EXCEPT !.told[t] = "nothing"]

Unseen(t) == watch.version # watch.seen[t]
Ok(t) == [Go(t, "idle") EXCEPT !.seen[t] = watch.version, !.told[t] = "ok"]
Err(t) == [Go(t, "idle") EXCEPT !.told[t] = IF Unseen(t) THEN "err_unseen" ELSE "err"]

fast(t) == Locks(t, "fast") /\ watch' = IF Unseen(t) THEN Ok(t) ELSE Go(t, "loop")

\* a turn of the waiting loop
loop(t) ==
    /\ Locks(t, "loop")
    /\ watch' = CASE watch.build = "co" -> IF watch.closed THEN Err(t) ELSE IF Unseen(t) THEN Ok(t) ELSE Go(t, "load")
                  [] watch.build = "fiber" -> IF watch.closed THEN Err(t) ELSE Go(t, "load")
                  [] watch.build = "then" -> IF Unseen(t) THEN Ok(t) ELSE IF watch.closed THEN Err(t) ELSE Go(t, "load")

\* after notified(): fibers look at the version first
after(t) ==
    /\ Locks(t, "ready") /\ t \in Receivers
    /\ watch' = IF watch.build = "fiber" /\ Unseen(t) THEN Ok(t) ELSE Go(t, "loop")

WatchNext == \E t \in Tasks :
         \/ NotifiedLoad(t) \/ NotifiedSub(t) \/ NotifiedLock(t) \/ Resolved(t)
         \/ send(t) \/ notify(t) \/ clone(t) \/ subscribe(t) \/ drop(t) \/ close(t) \/ last(t)
         \/ closed(t) \/ check(t) \/ recheck(t)
         \/ Leaves(t) \/ Left(t) \/ borrow_and_update(t) \/ changed(t) \/ fast(t) \/ loop(t) \/ after(t)

WatchSpec == WatchInit /\ [][WatchNext]_WatchVars

----------------------------------------------------------------------------
\* a wake is on its way to t
Coming(t) == t \in watch.taken \/ \E u \in Tasks : watch.pc[u] \in {"notify", "last", "left"}

(* No receiver sleeps in changed() with a version it has not seen or a
   closed channel and no wake on its way, and no sender sleeps in closed()
   when there is nothing to wait for (watch.h:296, watch.h:268): on one loop
   for any number of tasks, over threads for a single receiver. *)
NoneMissed == \A t \in Tasks : (watch.pc[t] = "parked" /\ ~Coming(t)) =>
                 /\ ~watch.closed
                 /\ IF t \in Receivers THEN ~Unseen(t) ELSE watch.rcount > 0

(* m_pending never falls below zero: the fast path of notified() takes a
   pending notification that is still there (notify.h:55-56). *)
PendingCounted == watch.pending >= 0

WatchRight == NoneMissed /\ PendingCounted

-----------------------------------------------------------------------------
(***************************************************************************)
(* sync::broadcast (libxpp/xpp/sync/broadcast.h) with its Notify, its      *)
(* senders and receivers on one event loop: an operation runs up to the    *)
(* await it suspends in.  The ring holds the numbers of the values sent; a *)
(* value is moved out of its slot when it is read.                         *)
(***************************************************************************)

CONSTANTS BcastReceivers, BcastCap, MaxSent

VARIABLE bcast
BcastVars == bcast

Slots == 0..BcastCap - 1
MovedFrom == -1
Nothing == [r |-> "none", v |-> 0]

\* channel(): one sender, one receiver at position 0
BcastInit == bcast = [buf |-> [i \in Slots |-> 0], head |-> 0, tail |-> 0, closed |-> FALSE, scount |-> 1, sent |-> 0,
                      pending |-> 0, waiters |-> {},
                      pc |-> [r \in BcastReceivers |-> IF r = CHOOSE x \in BcastReceivers : TRUE THEN "idle" ELSE "unborn"],
                      pos |-> [r \in BcastReceivers |-> 0], told |-> [r \in BcastReceivers |-> Nothing],
                      next |-> [r \in BcastReceivers |-> 1]]   \* history: the number of the value r is due

Ahead(i) == (i + 1) % BcastCap
Live == {r \in BcastReceivers : bcast.pc[r] \notin {"unborn", "gone"}}

\* Notify::notify_waiters
Notified(r) == IF r.waiters = {} THEN [r EXCEPT !.pending = @ + 1]
               ELSE [r EXCEPT !.waiters = {}, !.pc = [x \in BcastReceivers |-> IF x \in r.waiters THEN "ready" ELSE @[x]]]

Evicted(r) == IF Ahead(r.tail) = r.head THEN [r EXCEPT !.head = Ahead(@)] ELSE r

\* Sender::try_send
try_send ==
    /\ bcast.scount > 0 /\ ~bcast.closed /\ Live # {} /\ bcast.sent < MaxSent
    /\ LET q == Evicted(bcast) IN
       bcast' = Notified([q EXCEPT !.buf[q.tail] = q.sent + 1, !.tail = Ahead(@), !.sent = @ + 1])

bcast_subscribe == \E r \in BcastReceivers :
    /\ bcast.scount > 0 /\ bcast.pc[r] = "unborn"
    /\ bcast' = [bcast EXCEPT !.pc[r] = "idle", !.pos[r] = bcast.tail, !.next[r] = bcast.sent + 1]

bcast_clone == bcast.scount = 1 /\ bcast' = [bcast EXCEPT !.scount = 2]

\* Sender::close_channel, from close() or from the drop of the last sender
Closed(r) == IF r.closed THEN r ELSE Notified([r EXCEPT !.closed = TRUE])
bcast_close == bcast.scount > 0 /\ bcast' = Closed(bcast)
bcast_drop == bcast.scount > 0 /\ bcast' = LET q == [bcast EXCEPT !.scount = @ - 1] IN IF q.scount = 0 THEN Closed(q) ELSE q

----------------------------------------------------------------------------
\* Receiver::try_read_value, with the position inside the ring's window or not
Lagged(r) == LET i == bcast.pos[r] IN
             IF bcast.head <= bcast.tail THEN i < bcast.head \/ i >= bcast.tail ELSE i < bcast.head /\ i >= bcast.tail

try_read_value(r) ==
    LET i == bcast.pos[r] IN
    IF Lagged(r) THEN [bcast EXCEPT !.pos[r] = bcast.head, !.told[r] = [r |-> "lagged", v |-> 0],
                                    !.next[r] = bcast.sent + 1 - ((bcast.tail - bcast.head) % BcastCap)]
    ELSE [bcast EXCEPT !.pos[r] = Ahead(i), !.buf[i] = MovedFrom, !.told[r] = [r |-> "value", v |-> bcast.buf[i]],
                       !.next[r] = @ + 1]

\* Receiver::recv up to its await: a value, the end, or a wait in notified()
recv(r) ==
    /\ bcast.pc[r] \in {"idle", "ready"}
    /\ bcast' = IF bcast.pos[r] # bcast.tail THEN [try_read_value(r) EXCEPT !.pc[r] = "idle"]
                ELSE IF bcast.closed THEN [bcast EXCEPT !.pc[r] = "idle", !.told[r] = [r |-> "closed", v |-> 0]]
                ELSE IF bcast.pending > 0 THEN [bcast EXCEPT !.pc[r] = "ready", !.pending = @ - 1, !.told[r] = Nothing]
                ELSE [bcast EXCEPT !.pc[r] = "parked", !.waiters = @ \cup {r}, !.told[r] = Nothing]

try_recv(r) ==
    /\ bcast.pc[r] = "idle"
    /\ bcast' = IF bcast.pos[r] # bcast.tail THEN try_read_value(r)
                ELSE [bcast EXCEPT !.told[r] = [r |-> IF bcast.closed THEN "closed" ELSE "empty", v |-> 0]]

\* ~Receiver
BcastLeaves(r) == bcast.pc[r] = "idle" /\ bcast' = [bcast EXCEPT !.pc[r] = "gone", !.told[r] = Nothing]

BcastNext == try_send \/ bcast_subscribe \/ bcast_clone \/ bcast_close \/ bcast_drop \/ \E r \in BcastReceivers : recv(r) \/ try_recv(r) \/ BcastLeaves(r)

BcastSpec == BcastInit /\ [][BcastNext]_BcastVars

----------------------------------------------------------------------------
(* While no value was evicted, a receiver reads the values sent since it
   subscribed one by one, in order, unless another receiver read them first,
   and is told "closed" or "empty" only when it read them all; nobody waits
   in recv() for a value that is there or a channel that is closed
   (broadcast.h:352-359). *)
BroadcastInOrder == \A r \in BcastReceivers :
    /\ (bcast.sent < BcastCap) =>
              /\ bcast.told[r].r = "value" => bcast.told[r].v \in {bcast.next[r] - 1, MovedFrom}
              /\ bcast.told[r].r # "lagged"
              /\ (bcast.pc[r] = "idle" /\ bcast.pos[r] = bcast.tail) => bcast.next[r] = bcast.sent + 1
    /\ bcast.pc[r] = "parked" => bcast.pos[r] = bcast.tail /\ ~bcast.closed
=============================================================================
