------------------------------ MODULE Promises ------------------------------
(***************************************************************************)
(* The promises of libx++: chains and combinators, spawned chains, and the *)
(* adapters that resolve them from a loop's work, timers and tasks, each   *)
(* with a state of its own.                                                *)
(***************************************************************************)
EXTENDS Integers, Sequences, FiniteSets, SequencesExt

-----------------------------------------------------------------------------
(***************************************************************************)
(* Promise chains on one thread (libxpp/xpp/promise.h, promise_node.h,     *)
(* promise_combinators.h, promise_coroutine.h, promise_utils.h,            *)
(* promise_allocator.h).  A program builds promises out of async() pairs,  *)
(* resolve(), then(), all(), race(), try_next() and coroutines, awaits     *)
(* them or drops them; the pairs are resolved at any time.  A poll is one  *)
(* step: a resolution that arrives during a poll either precedes the poll  *)
(* of its leaf or finds the waker registered, so it is one before or one   *)
(* after.                                                                  *)
(*                                                                         *)
(* A node is a record: its kind k, its memory m (the header before it),    *)
(* its children ch, its closure fn, its results.  The chain's values are   *)
(* abstract terms that record which operations produced them.              *)
(***************************************************************************)

CONSTANTS Leaves,    \* async() pairs
          Sizes,     \* sizes of a then() node with its header
          ArenaCap,  \* the size of a PromiseArena
          MaxNodes   \* nodes the program makes on top of the pairs

VARIABLE prom
PromiseVars == prom

NoValue == <<>>
NoFn == [f |-> "none", cap |-> <<>>, rest |-> <<>>, sz |-> 0]

\* PromiseNodeHeader of a node without arena
InHeap == [arena |-> 0, owns |-> FALSE]

Node(k, m, ch) == [k |-> k, m |-> m, ch |-> ch, over |-> FALSE, l |-> 0, v |-> NoValue, fn |-> NoFn, res |-> <<>>]

\* st: arenas, nodes on the heap, leaves that hold a waker, a contract broken,
\* a null pointer written
EmptySt == [arenas |-> <<>>, heap |-> 0, reg |-> {}, bad |-> FALSE, null |-> FALSE]

Made(t, st) == [t |-> t, st |-> st]

\* promise::allocate
allocate(t, st) == Made([t EXCEPT !.m = InHeap], [st EXCEPT !.heap = @ + 1])

Async(l, st) == allocate([Node("leaf", InHeap, <<>>) EXCEPT !.l = l], st)
resolve(v, st) == allocate([Node("imm", InHeap, <<>>) EXCEPT !.v = v], st)

append(t, pred, sz, st) ==
    LET a == pred.m.arena IN
    IF a # 0
    THEN IF st.arenas[a].used + sz > ArenaCap THEN allocate([t EXCEPT !.ch = <<pred>>], st)
         ELSE Made([t EXCEPT !.m = [arena |-> a, owns |-> TRUE], !.ch = <<[pred EXCEPT !.m.owns = FALSE]>>],
                   [st EXCEPT !.arenas[a].used = @ + sz])
    ELSE Made([t EXCEPT !.m = [arena |-> Len(st.arenas) + 1, owns |-> TRUE], !.ch = <<pred>>],
              [st EXCEPT !.arenas = Append(@, [used |-> sz, freed |-> FALSE]), !.null = sz > ArenaCap])

\* chain: a function of values is a TransformPromiseNode; a function that
\* returns a promise is one of those under a ChainPromiseNode
chain(dep, fn, st) ==
    IF fn.f = "value" THEN append([Node("map", InHeap, <<>>) EXCEPT !.fn = fn], dep, fn.sz, st)
    ELSE LET r == append([Node("pmap", InHeap, <<>>) EXCEPT !.fn = fn], dep, fn.sz, st) IN
         append(Node("chain", InHeap, <<>>), r.t, 1, r.st)

\* TryNext::operator(): the items are leaves, tried in order
TryNext(items, sz, st) ==
    LET r == Async(Head(items), st) IN
    chain(r.t, [NoFn EXCEPT !.f = "try", !.rest = Tail(items), !.sz = sz], r.st)

\* what a closure returns: its value, a captured promise, TryNext::Then
Called(fn, v, st) ==
    IF fn.f = "cap" THEN Made(Head(fn.cap), st)
    ELSE IF v[1] = "ok" \/ fn.rest = <<>> THEN resolve(v, st) ELSE TryNext(fn.rest, fn.sz, st)

----------------------------------------------------------------------------
\* PromiseNodeAllocator::deallocate reads the header, frees the arena it owns
deallocate(m, st) ==
    IF m.arena = 0 THEN [st EXCEPT !.heap = @ - 1]
    ELSE [st EXCEPT !.bad = @ \/ st.arenas[m.arena].freed, !.arenas[m.arena].freed = @ \/ m.owns]

RECURSIVE Destroy(_, _)

\* a node's closure, its children from the last, its memory
Destroy(t, st) ==
    LET held == FoldLeft(LAMBDA s, c : Destroy(c, s), st, t.fn.cap)
        kids == FoldRight(LAMBDA c, s : Destroy(c, s), t.ch, held)
    IN deallocate(t.m, [kids EXCEPT !.reg = @ \ {t.l}])

----------------------------------------------------------------------------
Pending(t, st) == [t |-> t, v |-> NoValue, st |-> st]
Ready(t, v, st) == [t |-> [t EXCEPT !.over = TRUE], v |-> v, st |-> st]

RECURSIVE Poll(_, _, _), AllFrom(_, _, _, _), RaceFrom(_, _, _, _), Resumed(_, _, _)

\* AllTuplePromiseNode::poll_all, AllVoidPromiseNode::poll
AllFrom(t, flags, st, i) ==
    IF i > Len(t.ch)
    THEN IF NoValue \in Range(t.res) THEN Pending(t, st) ELSE Ready(t, <<"all">> \o t.res, st)
    ELSE IF t.res[i] # NoValue THEN AllFrom(t, flags, st, i + 1)
    ELSE LET r == Poll(t.ch[i], flags, st) IN
         AllFrom([t EXCEPT !.ch[i] = r.t, !.res[i] = r.v], flags, r.st, i + 1)

\* RacePromiseNode::poll
RaceFrom(t, flags, st, i) ==
    IF i > Len(t.ch) THEN Pending(t, st)
    ELSE LET r == Poll(t.ch[i], flags, st)
             q == [t EXCEPT !.ch[i] = r.t]
         IN IF r.v # NoValue THEN Ready(q, r.v, r.st) ELSE RaceFrom(q, flags, r.st, i + 1)

\* CoroutinePromiseNode::poll after a resume(): the coroutine awaits its next
\* promise or returns what it got
Resumed(t, flags, st) ==
    IF t.fn.cap = <<>> THEN Ready(t, <<"co">> \o t.res, st)
    ELSE Poll([t EXCEPT !.ch = <<Head(t.fn.cap)>>, !.fn.cap = Tail(@)], flags, st)

\* PromiseNode::poll: what it returns, the node and the memory after it
Poll(t, flags, st) ==
    CASE t.over -> Ready(t, <<"moved">>, [st EXCEPT !.bad = TRUE])
      [] ~t.over /\ t.k = "imm" -> Ready(t, t.v, st)
      [] ~t.over /\ t.k = "leaf" ->
            IF flags[t.l] = "pending" THEN Pending(t, [st EXCEPT !.reg = @ \cup {t.l}])
            ELSE Ready(t, <<flags[t.l], t.l>>, st)
      [] ~t.over /\ t.k = "map" ->
            LET r == Poll(t.ch[1], flags, st)
                q == [t EXCEPT !.ch[1] = r.t]
            IN IF r.v = NoValue THEN Pending(q, r.st) ELSE Ready(q, <<"f", r.v>>, r.st)
      [] ~t.over /\ t.k = "pmap" ->
            LET r == Poll(t.ch[1], flags, st)
                c == Called(t.fn, r.v, r.st)
            IN IF r.v = NoValue THEN Pending([t EXCEPT !.ch[1] = r.t], r.st)
               ELSE Ready([t EXCEPT !.ch[1] = r.t, !.fn.cap = <<>>], <<"promise", c.t>>, c.st)
      [] ~t.over /\ t.k = "chain" ->
            LET n == Len(t.ch)
                r == Poll(t.ch[n], flags, st)
                q == [t EXCEPT !.ch[n] = r.t]
            IN IF r.v = NoValue THEN Pending(q, r.st)
               ELSE IF n = 2 THEN Ready(q, r.v, r.st)
               ELSE Poll([q EXCEPT !.ch = Append(@, r.v[2])], flags, r.st)
      [] ~t.over /\ t.k = "all" -> AllFrom(t, flags, st, 1)
      [] ~t.over /\ t.k = "race" -> RaceFrom(t, flags, st, 1)
      [] ~t.over /\ t.k = "co" ->
            IF t.ch = <<>> THEN Resumed(t, flags, st)
            ELSE LET r == Poll(t.ch[1], flags, st) IN
                 IF r.v = NoValue THEN Pending([t EXCEPT !.ch[1] = r.t], r.st)
                 ELSE Resumed([t EXCEPT !.ch = <<>>, !.res = Append(@, r.v)], flags, Destroy(r.t, r.st))

----------------------------------------------------------------------------
PromiseInit == prom = [held |-> <<>>, fresh |-> Leaves, flags |-> [l \in Leaves |-> "pending"], st |-> EmptySt,
                       pc |-> "build", root |-> <<>>, orig |-> <<>>, woken |-> FALSE, got |-> NoValue, made |-> 0]

Building == prom.pc = "build" /\ ~prom.st.null
Rest(I) == FlattenSeq([j \in 1..Len(prom.held) |-> IF j \in I THEN <<>> ELSE <<prom.held[j]>>])

\* the promises of I become the promise r.t
Becomes(I, r) == prom' = [prom EXCEPT !.held = Append(Rest(I), r.t), !.st = r.st, !.made = @ + 1, !.got = NoValue]

MakeAsync == \E l \in prom.fresh :
    /\ Building
    /\ l = CHOOSE x \in prom.fresh : \A y \in prom.fresh : x <= y
    /\ LET r == Async(l, prom.st) IN
       prom' = [prom EXCEPT !.held = Append(@, r.t), !.fresh = @ \ {l}, !.st = r.st, !.got = NoValue]

MakeResolved == Building /\ prom.made < MaxNodes /\ Becomes({}, resolve(<<"imm">>, prom.st))

Then == \E i \in DOMAIN prom.held, sz \in Sizes :
    /\ Building /\ prom.made < MaxNodes
    /\ \/ Becomes({i}, chain(prom.held[i], [NoFn EXCEPT !.f = "value", !.sz = sz], prom.st))
       \/ \E j \in DOMAIN prom.held \ {i} :
            Becomes({i, j}, chain(prom.held[i], [NoFn EXCEPT !.f = "cap", !.cap = <<prom.held[j]>>, !.sz = sz], prom.st))

MakeTry == \E sz \in Sizes :
    /\ Building /\ prom.made < MaxNodes /\ Cardinality(prom.fresh) >= 2
    /\ LET r == TryNext(SetToSortSeq(prom.fresh, <), sz, prom.st) IN
       prom' = [prom EXCEPT !.held = Append(@, r.t), !.fresh = {}, !.st = r.st, !.made = @ + 1, !.got = NoValue]

\* all(), race(), a coroutine that awaits two promises in turn
Combine == \E i, j \in DOMAIN prom.held :
    /\ Building /\ prom.made < MaxNodes /\ i # j
    /\ LET two == <<prom.held[i], prom.held[j]>> IN
       \/ Becomes({i, j}, allocate([Node("all", InHeap, two) EXCEPT !.res = <<NoValue, NoValue>>], prom.st))
       \/ Becomes({i, j}, allocate(Node("race", InHeap, two), prom.st))
       \/ Becomes({i, j}, allocate([Node("co", InHeap, <<>>) EXCEPT !.fn.cap = two], prom.st))

Drop == \E i \in DOMAIN prom.held :
    /\ Building
    /\ prom' = [prom EXCEPT !.held = Rest({i}), !.st = Destroy(prom.held[i], @), !.got = NoValue]

\* PromiseResolver::resolve: publishes the value, fires the waker of the leaf
Resolve == \E l \in Leaves, v \in {"ok", "err"} :
    /\ prom.flags[l] = "pending" /\ ~prom.st.null
    /\ prom' = [prom EXCEPT !.flags[l] = v, !.woken = @ \/ l \in prom.st.reg, !.st.reg = @ \ {l}]

\* Promise::await
Await == \E i \in DOMAIN prom.held :
    /\ Building
    /\ prom' = [prom EXCEPT !.pc = "poll", !.root = <<prom.held[i]>>, !.orig = <<prom.held[i]>>, !.held = Rest({i}),
                            !.woken = FALSE, !.got = NoValue]

PollRoot ==
    /\ prom.pc = "poll"
    /\ LET r == Poll(prom.root[1], prom.flags, prom.st) IN
       prom' = IF r.v = NoValue THEN [prom EXCEPT !.pc = "park", !.root = <<r.t>>, !.st = r.st]
               ELSE [prom EXCEPT !.pc = "build", !.root = <<>>, !.st = Destroy(r.t, r.st), !.got = r.v]

\* PromiseContext::park returns when the waker has fired
park == prom.pc = "park" /\ prom.woken /\ prom' = [prom EXCEPT !.pc = "poll", !.woken = FALSE]

PromiseNext == MakeAsync \/ MakeResolved \/ Then \/ MakeTry \/ Combine \/ Drop \/ Resolve \/ Await \/ PollRoot \/ park

PromiseSpec == PromiseInit /\ [][PromiseNext]_PromiseVars

----------------------------------------------------------------------------
RECURSIVE Values(_, _), TryValues(_, _)

TryValues(items, flags) ==
    LET l == Head(items) IN
    IF flags[l] = "pending" THEN {}
    ELSE IF flags[l] = "ok" \/ Len(items) = 1 THEN {<<flags[l], l>>} ELSE TryValues(Tail(items), flags)

\* what a promise, not yet polled, may yield with the pairs resolved so far
Values(t, flags) ==
    CASE t.k = "imm" -> {t.v}
      [] t.k = "leaf" -> IF flags[t.l] = "pending" THEN {} ELSE {<<flags[t.l], t.l>>}
      [] t.k = "map" -> {<<"f", v>> : v \in Values(t.ch[1], flags)}
      [] t.k = "chain" -> LET fn == t.ch[1].fn
                              dep == t.ch[1].ch[1]
                          IN IF fn.f = "try" THEN TryValues(<<dep.l>> \o fn.rest, flags)
                             ELSE IF Values(dep, flags) = {} THEN {} ELSE Values(fn.cap[1], flags)
      [] t.k = "all" -> {<<"all", v, w>> : v \in Values(t.ch[1], flags), w \in Values(t.ch[2], flags)}
      [] t.k = "race" -> Values(t.ch[1], flags) \cup Values(t.ch[2], flags)
      [] t.k = "co" -> {<<"co", v, w>> : v \in Values(t.fn.cap[1], flags), w \in Values(t.fn.cap[2], flags)}

(* await() returns only a value its promise denotes for the pairs resolved
   so far, and sleeps without a wake to come only while there is none: no
   combinator forgets to leave its waker with what it waits for
   (promise_node.h:72-77). *)
AwaitsRight ==
    /\ (prom.got # NoValue) => prom.got \in Values(prom.orig[1], prom.flags)
    /\ (prom.pc = "park" /\ ~prom.woken) => Values(prom.orig[1], prom.flags) = {}

(* A node is never polled after it returned Some, no node's header is read
   in an arena already freed, and when the program holds no promise every
   arena and every heap node is freed (promise_allocator.h:17-20). *)
NodesFreedOnce ==
    /\ ~prom.st.bad
    /\ (prom.held = <<>> /\ prom.pc = "build") => prom.st.heap = 0 /\ \A a \in Range(prom.st.arenas) : a.freed

PromisesKept == AwaitsRight /\ NodesFreedOnce

-----------------------------------------------------------------------------
(***************************************************************************)
(* A spawned chain that waits for a resolver (libxpp/xpp/spawn.h,          *)
(* promise_adapter.h, promise_waker.h).  The loop thread polls the chain   *)
(* in posted steps; the chain suspends on a ResolveState by registering    *)
(* the chain's waker in its AtomicPromiseWaker; a resolver, on the loop or *)
(* on another thread, publishes the value and fires the waker, which posts *)
(* the next step.  Each atomic operation is a step.                        *)
(*                                                                         *)
(* Ownership: the driver (SpawnState) is counted by refs: one for the      *)
(* shared WakeState and one for each posted or running step.  ws holds the *)
(* copies of the waker (the driver's, the context's of a running poll, the *)
(* cell's, a wake token's), rs the owners of the ResolveState (the node,   *)
(* a resolve() that runs).                                                 *)
(***************************************************************************)

CONSTANT MaxResolves    \* calls of resolve()

VARIABLE spawn
SpawnVars == spawn

WAITING == 0
REGISTERING == 1
WAKING == 2

\* spawn_impl: the waker's reference, the first posted step's reference.
\* kept: the chain still owns its source when it completes (an adapter node,
\* a node under then()), or let it go (a coroutine's awaited node)
SpawnInit == \E where \in {"loop", "other"}, kept \in BOOLEAN :
                 spawn = [where |-> where, kept |-> kept,
                          state |-> "Waiting", value |-> 0, bits |-> WAITING, cell |-> FALSE, rs |-> {"node"},
                          ws |-> {"st"}, wsDead |-> FALSE, refs |-> 2, freed |-> FALSE, done |-> FALSE, got |-> 0,
                          queue |-> <<"step">>, pc |-> "idle", rpc |-> "start", calls |-> 0, bad |-> FALSE]

----------------------------------------------------------------------------
RECURSIVE DropRs(_, _), Unhold(_, _), ReleaseSt(_)

\* the last owner of the ResolveState destroys the cell and its waker
DropRs(r, h) ==
    LET q == [r EXCEPT !.rs = @ \ {h}] IN
    IF r.rs # {} /\ q.rs = {} /\ q.cell THEN Unhold([q EXCEPT !.cell = FALSE], "cell") ELSE q

\* the last copy of the waker runs ~WakeState, which releases the driver
Unhold(r, h) ==
    LET q == [r EXCEPT !.ws = @ \ {h}] IN
    IF r.ws # {} /\ q.ws = {} THEN ReleaseSt([q EXCEPT !.wsDead = TRUE]) ELSE q

\* SpawnState::release
ReleaseSt(r) ==
    LET q == [r EXCEPT !.refs = @ - 1, !.bad = @ \/ r.freed] IN
    IF q.refs # 0 THEN q ELSE DropRs([q EXCEPT !.freed = TRUE, !.ws = @ \ {"st"}], "node")

do_wake(r) == [r EXCEPT !.refs = @ + 1, !.queue = Append(@, "step"), !.bad = @ \/ r.freed]

\* PromiseWaker::wake: on the loop at once, from another thread through a
\* token that owns a copy of the waker
wake(r) == IF r.where = "loop" THEN do_wake(r)
           ELSE [r EXCEPT !.ws = @ \cup {"tok"}, !.queue = Append(@, "tok")]

----------------------------------------------------------------------------
\* the loop thread
At(p) == spawn.pc = p
Loop == spawn.where = "other" \/ spawn.rpc \in {"start", "end"}

on_wake_owned ==
    /\ At("idle") /\ Loop /\ spawn.queue # << >> /\ Head(spawn.queue) = "tok"
    /\ spawn' = Unhold(do_wake([spawn EXCEPT !.queue = Tail(@)]), "tok")

spawn_step ==
    \/ /\ At("idle") /\ Loop /\ spawn.queue # << >> /\ Head(spawn.queue) = "step"
       /\ spawn' = [spawn EXCEPT !.queue = Tail(@), !.bad = @ \/ spawn.freed, !.pc = IF spawn.done THEN "release" ELSE "check1",
                                 !.ws = IF spawn.done THEN @ ELSE @ \cup {"cx"}]
    \/ /\ At("finish")
       /\ LET q == [spawn EXCEPT !.done = TRUE, !.got = spawn.value, !.pc = "reset"] IN
          spawn' = IF spawn.kept THEN q ELSE DropRs(q, "node")
    \/ At("reset") /\ spawn' = Unhold([spawn EXCEPT !.pc = "uncx"], "st")
    \/ At("uncx") /\ spawn' = Unhold([spawn EXCEPT !.pc = "release"], "cx")
    \/ At("release") /\ spawn' = ReleaseSt([spawn EXCEPT !.pc = "idle"])

\* Ready is loaded, the waker registered, Ready loaded again
poll_state_once ==
    \/ At("check1") /\ spawn' = [spawn EXCEPT !.pc = IF spawn.state = "Ready" THEN "finish" ELSE "cas"]
    \/ At("check2") /\ spawn' = [spawn EXCEPT !.pc = "uncx"]

poll_state ==
    \/ At("check1") /\ spawn' = [spawn EXCEPT !.pc = IF spawn.state = "Ready" THEN "finish" ELSE "cas"]
    \/ At("check2") /\ spawn' = [spawn EXCEPT !.pc = IF spawn.state = "Ready" THEN "selfor" ELSE "uncx"]

\* a wake that came while the waker was stored is passed on at once
register_by_ref ==
    \/ /\ At("cas")
       /\ spawn' = IF spawn.bits = WAITING THEN [spawn EXCEPT !.bits = REGISTERING, !.pc = "store"]
                   ELSE IF spawn.bits = WAKING THEN [do_wake(spawn) EXCEPT !.pc = "check2"]
                   ELSE [spawn EXCEPT !.pc = "check2"]
    \/ At("store") /\ spawn' = [spawn EXCEPT !.cell = TRUE, !.ws = @ \cup {"cell"}, !.pc = "xchg"]
    \/ /\ At("xchg")
       /\ LET q == [spawn EXCEPT !.bits = WAITING, !.pc = "check2"] IN
          spawn' = IF spawn.bits = REGISTERING + WAKING THEN do_wake(q) ELSE q

\* AtomicPromiseWaker::wake by the poller itself
SelfWake ==
    \/ /\ At("selfor")
       /\ spawn' = [spawn EXCEPT !.bits = IF @ \in {WAITING, REGISTERING} THEN @ + WAKING ELSE @,
                                 !.pc = IF spawn.bits = WAITING THEN "selffire" ELSE "finish"]
    \/ At("selffire") /\ spawn' = [(IF spawn.cell THEN do_wake(spawn) ELSE spawn) EXCEPT !.pc = "selfclear"]
    \/ At("selfclear") /\ spawn' = [spawn EXCEPT !.bits = WAITING, !.pc = "finish"]

----------------------------------------------------------------------------
\* the resolver; on the loop it runs between two steps
RAt(p) == spawn.rpc = p /\ (spawn.where = "other" \/ spawn.pc = "idle")

driver_resolve ==
    \/ /\ RAt("start") /\ spawn.calls < MaxResolves
       /\ spawn' = IF spawn.rs = {} THEN [spawn EXCEPT !.calls = @ + 1]
                   ELSE [spawn EXCEPT !.rs = @ \cup {"res"}, !.rpc = "claim", !.calls = @ + 1]
    \/ RAt("claim") /\ spawn' = IF spawn.state = "Waiting" THEN [spawn EXCEPT !.state = "Resolving", !.rpc = "write"]
                                ELSE [spawn EXCEPT !.rpc = "drop"]
    \/ RAt("write") /\ spawn' = [spawn EXCEPT !.value = spawn.calls, !.rpc = "ready"]
    \/ RAt("ready") /\ spawn' = [spawn EXCEPT !.state = "Ready", !.rpc = "or"]
    \/ RAt("drop") /\ spawn' = DropRs([spawn EXCEPT !.rpc = "start"], "res")

\* AtomicPromiseWaker::wake by the resolver
cell_wake ==
    \/ /\ RAt("or")
       /\ spawn' = [spawn EXCEPT !.bits = IF @ \in {WAITING, REGISTERING} THEN @ + WAKING ELSE @,
                                 !.rpc = IF spawn.bits = WAITING THEN "fire" ELSE "drop"]
    \/ RAt("fire") /\ spawn' = [(IF spawn.cell THEN wake(spawn) ELSE spawn) EXCEPT !.rpc = "clear"]
    \/ RAt("clear") /\ spawn' = [spawn EXCEPT !.bits = WAITING, !.rpc = "drop"]

Idle == spawn.pc = "idle" /\ spawn.queue = << >>
SpawnRest == Idle /\ spawn.rpc = "start" /\ spawn.calls = MaxResolves /\ UNCHANGED spawn

LoopNext == on_wake_owned \/ spawn_step \/ poll_state \/ register_by_ref \/ SelfWake
SpawnNext == LoopNext \/ driver_resolve \/ cell_wake \/ SpawnRest

SpawnSpec == SpawnInit /\ [][SpawnNext]_SpawnVars
\* the loop keeps running, and a resolve() that began runs to its end
FairSpec == SpawnSpec /\ WF_SpawnVars(LoopNext) /\ WF_SpawnVars(driver_resolve \/ cell_wake)

----------------------------------------------------------------------------
Quiet == Idle /\ spawn.rpc = "start" /\ spawn.calls = MaxResolves

\* The driver is freed by its last reference and touched by nobody after:
\* refs counts the shared waker, the posted steps and the step that runs;
\* the value handed to the join handle is the one the first resolve() wrote;
\* a chain that let its source go is gone once it has completed
\* (spawn.h spawn_step, SpawnState; promise_waker.h do_wake).
DriverOwned ==
    /\ ~spawn.bad
    /\ ~spawn.freed => spawn.refs = (IF spawn.wsDead THEN 0 ELSE 1) + Len(SelectSeq(spawn.queue, LAMBDA x : x = "step"))
                                    + (IF spawn.pc = "idle" THEN 0 ELSE 1)
    /\ spawn.done => spawn.got = 1
    /\ Quiet /\ spawn.done /\ ~spawn.kept => spawn.freed

-----------------------------------------------------------------------------
(***************************************************************************)
(* The adapters that turn work and timers into promises                    *)
(* (libxpp/xpp/promise_adapter_work.h, promise_adapter_timer.h) over the   *)
(* loop's recycled work items (event_private.h, event_post.c).  A          *)
(* WorkAdapter keeps the xWork it submitted and cancels it when it is      *)
(* destroyed; a TimerAdapter keeps its xTimer and stops it unless it       *)
(* fired.                                                                  *)
(*                                                                         *)
(* Loop thread: constructors, polls, destructors, the done queue, timers.  *)
(* Other threads: the worker that runs the work, a thread that posts.      *)
(***************************************************************************)

CONSTANTS NItems,       \* work items, recycled through the freelist
          MaxPosts      \* posts of the other thread

VARIABLE ops
OpsVars == ops

Items == 1..NItems
NoItem == 0
Blank == [kind |-> "none", cancelled |-> FALSE]

\* free: the freelist, its head first; fresh: calloc; task: the work's task;
\* work/timer: m_work, m_handle; ctx: deletions of the work's context
OpsInit == ops = [free |-> << >>, fresh |-> NItems, item |-> [i \in Items |-> Blank], queue |-> << >>,
                  work |-> NoItem, alive |-> FALSE, reg |-> FALSE, ready |-> FALSE, woken |-> FALSE,
                  task |-> "none", ctx |-> 0, touched |-> FALSE,
                  timer |-> "none", fired |-> FALSE, adapter |-> "none", stale |-> FALSE,
                  pc |-> "idle", saw |-> NoItem, next |-> NoItem, posts |-> 0]

----------------------------------------------------------------------------
\* event_work_alloc where nobody else touches the freelist meanwhile
CanAlloc(r) == r.free # << >> \/ r.fresh > 0
Taken(r) == IF r.free # << >> THEN Head(r.free) ELSE NItems - r.fresh + 1
event_work_alloc(r) == IF r.free # << >> THEN [r EXCEPT !.free = Tail(@)] ELSE [r EXCEPT !.fresh = @ - 1]

event_work_free(r, i) == [r EXCEPT !.free = <<i>> \o @]

\* xEventLoopPost
xEventLoopPost(r, kind) ==
    LET i == Taken(r) IN
    [event_work_alloc(r) EXCEPT !.item[i] = [kind |-> kind, cancelled |-> FALSE], !.queue = Append(@, i)]

\* xWorkSubmit of the constructor; one work in the life of the model
WorkAdapter ==
    /\ ops.work = NoItem /\ CanAlloc(ops)
    /\ LET i == Taken(ops) IN
       ops' = [event_work_alloc(ops) EXCEPT !.item[i] = [kind |-> "work", cancelled |-> FALSE],
                                            !.work = i, !.alive = TRUE, !.task = "queued"]

\* xWorkCancel marks the item m_work points at, whoever owns it by then.
\* A queued task never runs and its item is collected by the loop.
xWorkCancel(r) ==
    LET i == r.work
        q == [r EXCEPT !.item[i].cancelled = TRUE] IN
    IF r.item[i].kind = "work" /\ r.task = "queued"
    THEN [q EXCEPT !.task = "cancelled", !.queue = Append(@, i)] ELSE q

DropWork(r) == xWorkCancel([r EXCEPT !.alive = FALSE, !.reg = FALSE])

\* the awaiting chain polls: a ready promise is consumed and destroyed
OpsPoll ==
       /\ ops.alive /\ (ops.woken \/ ~ops.reg)
       /\ ops' = IF ops.ready THEN DropWork(ops) ELSE [ops EXCEPT !.reg = TRUE, !.woken = FALSE]

\* the promise is dropped before it is ready
OpsDrop == ops.alive /\ ops' = DropWork(ops)

----------------------------------------------------------------------------
\* the worker: start, func() and resolve(), push of the item
Start == ops.task = "queued" /\ ops' = [ops EXCEPT !.task = "running"]

\* resolve() reaches the state only while the promise lives; the waker's
\* token is posted from this thread
OpsResolve ==
    /\ ops.task = "running" /\ CanAlloc(ops)
    /\ LET q == [ops EXCEPT !.task = "resolved", !.touched = @ \/ ops.ctx > 0, !.ready = ops.alive] IN
       ops' = IF ops.alive /\ ops.reg THEN xEventLoopPost(q, "token") ELSE q

offload_worker == ops.task = "resolved" /\ ops' = [ops EXCEPT !.task = "done", !.queue = Append(@, ops.work)]

\* a post of another thread: the head of the freelist is read, its successor
\* is read, the head is exchanged if it is still the same
PostLoad ==
    /\ ops.pc = "idle" /\ ops.posts < MaxPosts /\ CanAlloc(ops)
    /\ ops' = [ops EXCEPT !.posts = @ + 1, !.saw = IF ops.free # << >> THEN Head(ops.free) ELSE NoItem,
                          !.next = IF Len(ops.free) > 1 THEN ops.free[2] ELSE NoItem,
                          !.pc = IF ops.free # << >> THEN "cas" ELSE "calloc"]

\* the list that starts at i
From(r, i) == IF \E k \in 1..Len(r.free) : r.free[k] = i
              THEN SubSeq(r.free, CHOOSE k \in 1..Len(r.free) : r.free[k] = i, Len(r.free))
              ELSE IF i = NoItem THEN << >> ELSE <<i>>

Posted(r, i) == [r EXCEPT !.item[i] = [kind |-> "post", cancelled |-> FALSE], !.queue = Append(@, i),
                          !.pc = "idle", !.saw = NoItem, !.next = NoItem]

PostTake ==
    \/ /\ ops.pc = "cas"
       /\ ops' = IF ops.free # << >> /\ Head(ops.free) = ops.saw THEN Posted([ops EXCEPT !.free = From(ops, ops.next)], ops.saw)
                 ELSE [ops EXCEPT !.pc = "idle", !.posts = @ - 1, !.saw = NoItem, !.next = NoItem]
    \/ /\ ops.pc = "calloc" /\ ops.fresh > 0
       /\ ops' = Posted([ops EXCEPT !.fresh = @ - 1], NItems - ops.fresh + 1)

\* a post of the loop thread itself
PostHere ==
    /\ ops.posts < MaxPosts /\ CanAlloc(ops)
    /\ ops' = xEventLoopPost([ops EXCEPT !.posts = @ + 1], "post")

\* one item of the done queue: done_fn and on_cancel delete the context
loop_run_done ==
    /\ ops.queue # << >>
    /\ LET i == Head(ops.queue)
           w == ops.item[i]
           q == event_work_free([ops EXCEPT !.queue = Tail(@)], i) IN
       ops' = IF w.kind = "work" THEN [q EXCEPT !.ctx = @ + 1]
              ELSE IF w.kind = "token" /\ ~w.cancelled THEN [q EXCEPT !.woken = TRUE]
              ELSE q

----------------------------------------------------------------------------
\* the timer adapter: started, fired or cancelled by the loop, destroyed
TimerAdapter == ops.adapter = "none" /\ ops' = [ops EXCEPT !.adapter = "alive", !.timer = "pending"]

Fires == ops.timer = "pending" /\ ops' = [ops EXCEPT !.timer = "gone", !.fired = TRUE, !.stale = @ \/ ops.adapter # "alive"]

\* the loop's teardown stops the pending timers through on_cancel
CancelTimers == ops.timer = "pending" /\ ops' = [ops EXCEPT !.timer = "none", !.fired = TRUE, !.stale = @ \/ ops.adapter # "alive"]

DropTimer ==
    /\ ops.adapter = "alive"
    /\ ops' = [ops EXCEPT !.adapter = "dead",
                          !.stale = @ \/ (~ops.fired /\ ops.timer = "gone"),
                          !.timer = IF ~ops.fired /\ ops.timer = "pending" THEN "gone" ELSE @]

OpsNext == WorkAdapter \/ OpsPoll \/ OpsDrop \/ Start \/ OpsResolve \/ offload_worker \/ PostLoad \/ PostTake \/ PostHere
           \/ loop_run_done \/ TimerAdapter \/ Fires \/ CancelTimers \/ DropTimer

OpsSpec == OpsInit /\ [][OpsNext]_OpsVars

----------------------------------------------------------------------------
(* The context of the work is deleted once and not while the worker still  *)
(* uses it, whichever of the completion, the cancellation of a queued task *)
(* and the destruction of the promise comes first; and a timer adapter     *)
(* stops its timer, or hears from it, only while both live                 *)
(* (promise_adapter_work.h:31, promise_adapter_timer.h:28).                *)
AdaptersSafe == ops.ctx <= 1 /\ ~ops.touched /\ ~ops.stale
=============================================================================
