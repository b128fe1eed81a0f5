------------------------------- MODULE Memory -------------------------------
(***************************************************************************)
(* What holds memory for others: the slab allocator, arrays and arenas,    *)
(* the timers' heap, and the counted references of libx++, each with a     *)
(* state of its own.                                                       *)
(***************************************************************************)
EXTENDS Integers, Sequences, FiniteSets, FiniteSetsExt

-----------------------------------------------------------------------------
(***************************************************************************)
(* xSlabMt: fixed-size slots cut from chunks, kept on an intrusive free    *)
(* list behind one spinlock; and xSlab, the same list for one thread, with *)
(* its count and its reset (slab.c).  A slot's first word is its link      *)
(* while it is free and the owner's data while it is not.                  *)
(*                                                                         *)
(* slab.head, slab.link[s]  the free list; slab.chunks the chunks mapped   *)
(* so far slab.lock          the thread in the lock, 0 for none            *)
(* slab.pc[t], slab.got[t], slab.nxt[t]  thread t's step, slot and the     *)
(* link it read slab.own[s]     who has slot s, 0 for nobody; slab.used    *)
(* in_use                                                                  *)
(***************************************************************************)

CONSTANTS SlabThreads, \* numbers from 1
          NSlots,      \* slots a chunk holds (xslab_layout)
          MaxChunks,   \* chunks the system grants
          Mt           \* xSlabMt (TRUE) or xSlab, which one thread uses

VARIABLE slab

Slots == 1 .. NSlots * MaxChunks
Junk == 99             \* what an owner writes over the link

SlabInit == slab = [head |-> 0, link |-> [s \in Slots |-> 0], chunks |-> 0, lock |-> 0,
                    pc |-> [t \in SlabThreads |-> "out"], got |-> [t \in SlabThreads |-> 0],
                    nxt |-> [t \in SlabThreads |-> 0], own |-> [s \in Slots |-> 0], used |-> 0]

\* The slots of chunk c, threaded in their order onto the list.
Thread(r, c) ==
    LET lo == (c - 1) * NSlots + 1
        hi == c * NSlots
    IN  [r EXCEPT !.link = [s \in Slots |-> IF s < lo \/ s > hi THEN @[s]
                                            ELSE IF s = lo THEN r.head ELSE s - 1],
                  !.head = hi]

\* xslab_grow and xslabmt_grow_locked.
xslab_grow(r) == Thread([r EXCEPT !.chunks = @ + 1], r.chunks + 1)

Free(r) == r.lock = 0

\* Into the lock with an empty hand, to allocate, or with a slot to free.
xslabmt_lock(t) ==
    /\ slab.pc[t] = "out" /\ (Mt => Free(slab))
    /\ \E op \in {"alloc", "free"} :
          \E s \in IF op = "free" THEN {q \in Slots : slab.own[q] = t} ELSE {0} :
             slab' = [slab EXCEPT !.lock = IF Mt THEN t ELSE @, !.pc[t] = op, !.got[t] = s]

Leave(r, t) == [r EXCEPT !.lock = 0, !.pc[t] = "out", !.got[t] = 0, !.nxt[t] = 0]

\* xSlabMtAlloc: an empty list grows first (no memory: NULL), then the head
\* and its link are read ...
xSlabMtAlloc(t) ==
    /\ slab.pc[t] = "alloc"
    /\ LET r == IF slab.head = 0 /\ slab.chunks < MaxChunks THEN xslab_grow(slab) ELSE slab
       IN  slab' = IF r.head = 0 THEN Leave(r, t)
                   ELSE [r EXCEPT !.got[t] = r.head, !.nxt[t] = r.link[r.head], !.pc[t] = "pop"]

\* ... and the list is cut and the lock left; the owner writes its data.
Popped(t) ==
    /\ slab.pc[t] = "pop"
    /\ slab' = Leave([slab EXCEPT !.head = slab.nxt[t], !.own[slab.got[t]] = t, !.link[slab.got[t]] = Junk,
                                  !.used = @ + 1], t)

\* xSlabMtFree, xSlabFree.
xSlabMtFree(t) ==
    /\ slab.pc[t] = "free"
    /\ slab' = Leave([slab EXCEPT !.link[slab.got[t]] = slab.head, !.head = slab.got[t],
                                  !.own[slab.got[t]] = 0, !.used = @ - 1], t)

RECURSIVE ThreadAll(_, _)
ThreadAll(r, c) == IF c = 0 THEN r ELSE ThreadAll(Thread(r, c), c - 1)

\* xSlabReset (xSlab only): every slot of every chunk is free again.
xSlabReset ==
    /\ ~Mt /\ \A t \in SlabThreads : slab.pc[t] = "out"
    /\ slab' = ThreadAll([slab EXCEPT !.head = 0, !.own = [s \in Slots |-> 0], !.used = 0], slab.chunks)

SlabNext == \/ \E t \in SlabThreads : \/ xslabmt_lock(t) \/ xSlabMtAlloc(t) \/ Popped(t)
                                      \/ xSlabMtFree(t)
            \/ xSlabReset

SlabSpec == SlabInit /\ [][SlabNext]_slab

-----------------------------------------------------------------------------
RECURSIVE Chain(_, _)
Chain(s, fuel) ==
    IF s \notin Slots \/ fuel = 0 THEN (IF s = 0 THEN {} ELSE {Junk})
    ELSE {s} \cup Chain(slab.link[s], fuel - 1)

\* A slot of the chunks is either free, and then reachable on the list, or in
\* one thread's hands; no owner's data is ever followed as a link, and the
\* count is that of the slots handed out (slab.c:136-232, 295-377).
SlotsOnce ==
    LET held == {s \in Slots : slab.own[s] # 0}
        free == Chain(slab.head, NSlots * MaxChunks)
    IN  /\ Junk \notin free /\ free \cap held = {}
        /\ free \cup held = 1 .. NSlots * slab.chunks
        /\ slab.used = Cardinality(held)

-----------------------------------------------------------------------------
(***************************************************************************)
(* xArray, the growing array that retains and releases its elements, and   *)
(* xArena, the bump allocator.                                             *)
(*                                                                         *)
(* arr.len, arr.cap, arr.data  the fields of xArray_; an element is the    *)
(*   number                                                                *)
(*                        it was added with, and data past len is stale    *)
(* arr.ref                the elements as a sequence                       *)
(* arr.held               how often each element is retained               *)
(* arr.pos, arr.given     the arena's cursor and the <<first, size>> given *)
(***************************************************************************)

CONSTANTS MaxElems,    \* elements ever added
          MaxArr,      \* the largest capacity
          ArenaCap,    \* the arena's bytes
          ArenaBase    \* the address the arena starts at

VARIABLE arr

ArrayInit == \E cap \in {1, 2} :
               arr = [len |-> 0, cap |-> cap, data |-> [i \in 0 .. MaxArr |-> 0], ref |-> <<>>,
                      held |-> [e \in 1 .. MaxElems |-> 0], next |-> 1,
                      pos |-> ArenaBase, given |-> {}]

RECURSIVE arr_next_cap(_, _)
arr_next_cap(cap, needed) == IF cap >= needed THEN cap ELSE arr_next_cap(2 * cap, needed)

arr_grow(s, needed) ==
    IF needed <= s.cap THEN s ELSE [s EXCEPT !.cap = arr_next_cap(@, needed)]

arr_call_retain(s, e) == [s EXCEPT !.held[e] = @ + 1]

\* The elements of positions lo .. hi - 1.
RECURSIVE arr_call_release(_, _, _)
arr_call_release(s, lo, hi) ==
    IF lo >= hi THEN s
    ELSE arr_call_release([s EXCEPT !.held[s.data[lo]] = @ - 1], lo + 1, hi)

\* The room is made, the slot cleared, and the element the caller puts there
\* retained; with n > 1, xArrayResize to a greater length.
RECURSIVE Append1(_, _)
Append1(s, n) ==
    IF n = 0 THEN s
    ELSE LET g == arr_grow(s, s.len + 1)
             w == [g EXCEPT !.data[g.len] = g.next, !.len = @ + 1, !.next = @ + 1,
                            !.ref = Append(@, g.next)]
         IN  Append1(arr_call_retain(w, g.next), n - 1)

xArrayPush == /\ arr.next <= MaxElems /\ arr.len < MaxArr
              /\ arr' = Append1(arr, 1)

xArrayPop ==
    /\ arr.len > 0
    /\ arr' = [arr_call_release(arr, arr.len - 1, arr.len) EXCEPT
                 !.len = @ - 1, !.ref = SubSeq(@, 1, Len(@) - 1)]

xArrayResize ==
    \E n \in 0 .. MaxArr :
       IF n < arr.len
       THEN arr' = [arr_call_release(arr, n, arr.len) EXCEPT !.len = n, !.ref = SubSeq(@, 1, n)]
       ELSE /\ n > arr.len /\ arr.next + (n - arr.len) - 1 <= MaxElems
            /\ arr' = Append1(arr, n - arr.len)

Shift(s, start, count) ==
    [s EXCEPT !.data = [i \in 0 .. MaxArr |->
                          IF i >= start /\ i + count < s.len THEN s.data[i + count] ELSE s.data[i]],
              !.len = @ - count]

xArrayRemoveRange ==
    \E start \in 0 .. MaxArr, count \in 1 .. MaxArr :
       /\ start + count <= arr.len
       /\ arr' = [Shift(arr_call_release(arr, start, start + count), start, count) EXCEPT
                    !.ref = SubSeq(@, 1, start) \o SubSeq(@, start + count + 1, Len(@))]

xArrayInsert ==
    \E idx \in 0 .. arr.len :
       LET g == arr_grow(arr, arr.len + 1)
           w == [g EXCEPT !.data = [i \in 0 .. MaxArr |->
                                      IF i > idx /\ i <= g.len THEN g.data[i - 1]
                                      ELSE IF i = idx THEN g.next ELSE g.data[i]],
                          !.len = @ + 1, !.next = @ + 1,
                          !.ref = SubSeq(@, 1, idx) \o <<g.next>> \o SubSeq(@, idx + 1, Len(@))]
       IN  /\ arr.next <= MaxElems /\ arr.len < MaxArr
           /\ arr' = arr_call_retain(w, arr.next)

\* xArrayReset; xArrayDestroy does the same and the array is gone.
xArrayReset == arr' = [arr_call_release(arr, 0, arr.len) EXCEPT !.len = 0, !.ref = <<>>]

-----------------------------------------------------------------------------
arena_align_up(p, align) == ((p + align - 1) \div align) * align

xArenaAllocAligned ==
    \E size \in 1 .. 3, align \in {1, 2, 4} :
       LET p == arena_align_up(arr.pos, align)
       IN  /\ p + size <= ArenaBase + ArenaCap
           /\ arr' = [arr EXCEPT !.pos = p + size, !.given = @ \union {<<p, size>>}]

xArenaReset == arr' = [arr EXCEPT !.pos = ArenaBase, !.given = {}]

\* The two have nothing to do with one another: a behaviour uses one of them.
ArrayNext == \/ /\ arr.given = {}
                /\ \/ xArrayPush \/ xArrayPop \/ xArrayResize
                   \/ xArrayRemoveRange \/ xArrayInsert \/ xArrayReset
             \/ arr.next = 1 /\ (xArenaAllocAligned \/ xArenaReset)

ArraySpec == ArrayInit /\ [][ArrayNext]_arr

-----------------------------------------------------------------------------
\* The array holds its elements in order, and each is retained once while it
\* is there and not at all once it is out: pop, a shrink, a removed range and
\* the reset all release exactly what they drop (array.c:91-229).  What the
\* arena gives out does not overlap and stays inside it (arena.c:67-79).
ElementsHeldOnce ==
    /\ arr.len <= arr.cap
    /\ [i \in 1 .. arr.len |-> arr.data[i - 1]] = arr.ref
    /\ \A e \in 1 .. MaxElems : arr.held[e] = Cardinality({i \in 1 .. Len(arr.ref) : arr.ref[i] = e})
    /\ \A x \in arr.given : /\ x[1] >= ArenaBase /\ x[1] + x[2] <= ArenaBase + ArenaCap
                            /\ \A y \in arr.given : x = y \/ x[1] + x[2] <= y[1] \/ y[1] + y[2] <= x[1]

-----------------------------------------------------------------------------
(***************************************************************************)
(* The binary min-heap behind the timers, base/heap.c, with the position   *)
(* each element is told through setidx.  Positions are those of the C      *)
(* array, starting at 0.                                                   *)
(*                                                                         *)
(* heap.data  the array, a function on 0 .. size - 1; heap.cap its         *)
(* capacity heap.idx  the position every element was last told heap.key    *)
(* the key cmp compares heap.out  history: what the last operation took    *)
(* out, and of what                                                        *)
(***************************************************************************)

CONSTANTS HeapElems, HeapKeys, HeapCap

VARIABLE heap

NoElem == <<>>

Size(a) == Cardinality(DOMAIN a.data)
Members(a) == {a.data[i] : i \in DOMAIN a.data}
Less(a, i, j) == a.key[a.data[i]] < a.key[a.data[j]]

heap_swap(a, i, j) ==
  [a EXCEPT !.data = [@ EXCEPT ![i] = a.data[j], ![j] = a.data[i]],
            !.idx = [@ EXCEPT ![a.data[j]] = i, ![a.data[i]] = j]]

RECURSIVE sift_up(_, _)
sift_up(a, i) ==
  LET parent == (i - 1) \div 2
  IN IF i > 0 /\ Less(a, i, parent) THEN sift_up(heap_swap(a, i, parent), parent) ELSE a

\* The smallest of a position and its two children.
Smallest(a, i) ==
  LET left == 2 * i + 1
      right == left + 1
      least == IF left < Size(a) /\ Less(a, left, i) THEN left ELSE i
  IN IF right < Size(a) /\ Less(a, right, least) THEN right ELSE least

RECURSIVE sift_down(_, _)
sift_down(a, i) ==
  LET least == Smallest(a, i)
  IN IF least = i THEN a ELSE sift_down(heap_swap(a, i, least), least)

Resift(a, i) == sift_down(sift_up(a, i), i)

\* The last element takes position i and the array is one shorter; with
\* i the last position, the element there just goes.
MoveLast(a, i) ==
  LET last == a.data[Size(a) - 1]
  IN [a EXCEPT !.data = [j \in 0..(Size(a) - 2) |-> IF j = i THEN last ELSE a.data[j]],
               !.idx = IF i = Size(a) - 1 THEN @ ELSE [@ EXCEPT ![last] = i]]

\* The caller marks the element it gets as being nowhere.
Took(a, e, op) ==
  [a EXCEPT !.out = [op |-> op, elem |-> e, of |-> Members(heap)], !.idx = [@ EXCEPT ![e] = 0]]

HeapInit ==
  heap \in [data : {[i \in {} |-> i]}, cap : {HeapCap}, idx : {[e \in HeapElems |-> 0]},
            key : [HeapElems -> HeapKeys], out : {NoElem}]

\* The capacity doubles when the array is full; refused, nothing is pushed.
ensure_cap(a, refused) ==
  IF Size(a) < a.cap THEN a ELSE IF refused THEN NoElem ELSE [a EXCEPT !.cap = @ * 2]

xHeapPush(e, refused) ==
  /\ e \notin Members(heap)
  /\ LET a == ensure_cap(heap, refused)
         added == [a EXCEPT !.data = [i \in 0..Size(heap) |-> IF i = Size(heap) THEN e ELSE heap.data[i]],
                            !.idx = [@ EXCEPT ![e] = Size(heap)], !.out = NoElem]
     IN heap' = IF a = NoElem THEN [heap EXCEPT !.out = NoElem] ELSE sift_up(added, Size(heap))

xHeapPop ==
  /\ Size(heap) > 0
  /\ LET rest == MoveLast(heap, 0)
     IN heap' = Took(IF Size(rest) > 0 THEN sift_down(rest, 0) ELSE rest, heap.data[0], "pop")

\* The caller hands over the position the element was told.
xHeapRemove(e) ==
  /\ e \in Members(heap)
  /\ LET i == heap.idx[e]
         rest == MoveLast(heap, i)
     IN heap' = Took(IF i = Size(heap) - 1 THEN rest ELSE Resift(rest, i), heap.data[i], e)

\* The caller changes a key and says so.
xHeapUpdate(e, k) ==
  /\ e \in Members(heap)
  /\ heap' = Resift([heap EXCEPT !.key = [@ EXCEPT ![e] = k], !.out = NoElem], heap.idx[e])

HeapNext ==
  \/ \E e \in HeapElems, refused \in BOOLEAN : xHeapPush(e, refused)
  \/ xHeapPop
  \/ \E e \in HeapElems : xHeapRemove(e)
  \/ \E e \in HeapElems, k \in HeapKeys : xHeapUpdate(e, k)

HeapSpec == HeapInit /\ [][HeapNext]_heap
-----------------------------------------------------------------------------
\* What is popped is never later than anything left; what is removed by its
\* told position is the element it was told to, and nothing else goes; every
\* element is told where it stands.
HeapRight ==
  /\ \A i \in DOMAIN heap.data : heap.idx[heap.data[i]] = i
  /\ Size(heap) <= heap.cap
  /\ heap.out # NoElem =>
          /\ Members(heap) = heap.out.of \ {heap.out.elem}
          /\ heap.out.op = "pop" => \A e \in Members(heap) : heap.key[heap.out.elem] <= heap.key[e]
          /\ heap.out.op \in HeapElems => heap.out.op = heap.out.elem

-----------------------------------------------------------------------------
(***************************************************************************)
(* Shared ownership (libxpp/xpp/arc.h, rc.h, weak.h): a block with two     *)
(* counts and a value.  strong counts the Arcs, weak the ArcWeaks plus one *)
(* for all Arcs together.  Threads own handles, clone, move, downgrade,    *)
(* upgrade and drop them; dropping the last Arc destroys the value, whose  *)
(* own field may be a handle that is dropped in turn, and then gives up    *)
(* the one weak count.  With kind "rc" the counts are plain and one thread *)
(* owns every handle; with kind "arc" each fetch_add, fetch_sub and        *)
(* compare_exchange is a step of its own.                                  *)
(***************************************************************************)

CONSTANTS RefThreads,   \* threads that share the blocks
          RefSlots,        \* handles a thread can own
          NBlocksRef,   \* blocks that can exist at once
          RefKinds      \* {"arc", "rc"} or a part of it

VARIABLE refs
RefsVars == refs

Nobody == [kind |-> "null", in |-> 0]
Strong(i) == [kind |-> "strong", in |-> i]
WeakH(i) == [kind |-> "weak", in |-> i]
Inners == 1 .. NBlocksRef
Places == RefThreads \X RefSlots

\* Arc::make_in: one allocation, strong = weak = 1
Fresh == [strong |-> 0, weak |-> 0, value |-> "none", block |-> "none", field |-> Nobody]

RefsInit == \E k \in RefKinds :
                refs = [kind |-> k, b |-> [i \in Inners |-> Fresh], h |-> [p \in Places |-> Nobody],
                        todo |-> [t \in RefThreads |-> << >>], s |-> [t \in RefThreads |-> 0],
                        uses |-> 0, ends |-> [i \in Inners |-> 0]]

\* a thread of the plain kind shares nothing
May(t) == refs.kind = "arc" \/ t = CHOOSE u \in RefThreads : \A v \in RefThreads : u <= v
Idle(t) == May(t) /\ refs.todo[t] = << >>

\* an access of the block by its counts; of a freed one it is an error
Touch(r, i) == IF r.b[i].block # "held" THEN [r EXCEPT !.uses = 1] ELSE r

make_in(t, s) ==
    /\ Idle(t) /\ refs.h[<<t, s>>] = Nobody
    /\ \E i \in Inners :
         /\ refs.b[i].block # "held" /\ \A j \in Inners : refs.b[j].block # "held" => i <= j
         /\ refs' = [refs EXCEPT !.b[i] = [Fresh EXCEPT !.strong = 1, !.weak = 1, !.value = "live", !.block = "held"],
                                 !.h[<<t, s>>] = Strong(i), !.ends[i] = 0]

\* Arc(const Arc &), Option(const Arc &): strong + 1
Cloned(r, i) == [Touch(r, i) EXCEPT !.b[i].strong = @ + 1]
\* ArcWeak(const Arc &), ArcWeak(const ArcWeak &): weak + 1
Observed(r, i) == [Touch(r, i) EXCEPT !.b[i].weak = @ + 1]

clone(t, s, d) ==
    /\ Idle(t) /\ refs.h[<<t, d>>] = Nobody /\ refs.h[<<t, s>>] # Nobody
    /\ LET x == refs.h[<<t, s>>] IN
       refs' = [(IF x.kind = "strong" THEN Cloned(refs, x.in) ELSE Observed(refs, x.in)) EXCEPT !.h[<<t, d>>] = x]

downgrade(t, s, d) ==
    /\ Idle(t) /\ refs.h[<<t, d>>] = Nobody /\ refs.h[<<t, s>>].kind = "strong"
    /\ LET i == refs.h[<<t, s>>].in IN refs' = [Observed(refs, i) EXCEPT !.h[<<t, d>>] = WeakH(i)]

\* Arc(Arc &&), Option(Arc &&), unwrap, take: the pointer moves, the source
\* is null; to another thread as well, the counts do not notice
Move(p, q) ==
    /\ Idle(p[1]) /\ Idle(q[1]) /\ refs.h[p] # Nobody /\ refs.h[q] = Nobody
    /\ refs' = [refs EXCEPT !.h[q] = refs.h[p], !.h[p] = Nobody]

\* the value keeps a handle of its thread's
Store(t, s, i) ==
    /\ Idle(t) /\ refs.h[<<t, s>>] # Nobody
    /\ refs.b[i].field = Nobody
    /\ \E d \in RefSlots : d # s /\ refs.h[<<t, d>>] = Strong(i)
    /\ refs.h[<<t, s>>].kind = "strong" => refs.h[<<t, s>>].in > i
    /\ refs' = [refs EXCEPT !.b[i].field = refs.h[<<t, s>>], !.h[<<t, s>>] = Nobody]

\* what a drop leads to: fetch_sub returned 1
arc_dec_weak_and_maybe_dealloc(r, i) ==
    LET q == [Touch(r, i) EXCEPT !.b[i].weak = @ - 1] IN
    IF q.b[i].weak = 0 THEN [q EXCEPT !.b[i].block = "freed"] ELSE q

\* the last strong destroys the value, and then drops the shared weak
arc_dec_strong(r, t, i) ==
    LET q == [Touch(r, i) EXCEPT !.b[i].strong = @ - 1] IN
    [q EXCEPT !.todo[t] = (IF q.b[i].strong = 0 THEN <<[op |-> "value", in |-> i], [op |-> "weak", in |-> i]>>
                           ELSE << >>) \o @]

Drop(r, t, x) == CASE x.kind = "strong" -> arc_dec_strong(r, t, x.in)
                   [] x.kind = "weak"   -> arc_dec_weak_and_maybe_dealloc(r, x.in)
                   [] OTHER             -> r

\* ~Arc, ~ArcWeak, ~Option
Destroy(t, s) ==
    /\ Idle(t) /\ refs.h[<<t, s>>] # Nobody
    /\ refs' = Drop([refs EXCEPT !.h[<<t, s>>] = Nobody], t, refs.h[<<t, s>>])

\* operator=(const Arc &): a clone, a swap, the old one dropped
Assign(t, s, d) ==
    /\ Idle(t) /\ s # d /\ refs.h[<<t, s>>].kind = "strong" /\ refs.h[<<t, d>>].kind = "strong"
    /\ LET x == refs.h[<<t, s>>] IN
       refs' = Drop([Cloned(refs, x.in) EXCEPT !.h[<<t, d>>] = x], t, refs.h[<<t, d>>])

\* ~T, whose field goes with it; the count it drops is another block's or
\* this block's own weak
Continue(t) ==
    /\ May(t) /\ refs.todo[t] # << >> /\ Head(refs.todo[t]).op # "upgrade"
    /\ LET x == Head(refs.todo[t])  i == x.in  r == [refs EXCEPT !.todo[t] = Tail(@)] IN
       refs' = IF x.op = "weak" THEN arc_dec_weak_and_maybe_dealloc(r, i)
               ELSE Drop([Touch(r, i) EXCEPT !.b[i].value = "dead", !.b[i].field = Nobody, !.ends[i] = @ + 1],
                         t, refs.b[i].field)

\* Weak::upgrade: check and increment in one
upgrade_rc(t, s, d) ==
    /\ refs.kind = "rc" /\ Idle(t) /\ refs.h[<<t, s>>].kind = "weak" /\ refs.h[<<t, d>>] = Nobody
    /\ LET i == refs.h[<<t, s>>].in IN
       refs' = IF refs.b[i].strong = 0 THEN Touch(refs, i) ELSE [Cloned(refs, i) EXCEPT !.h[<<t, d>>] = Strong(i)]

\* ArcWeak::upgrade: the load, then compare_exchange until it succeeds or
\* the count read is zero
UpgradeLoad(t, s, d) ==
    /\ refs.kind = "arc" /\ Idle(t) /\ refs.h[<<t, s>>].kind = "weak" /\ refs.h[<<t, d>>] = Nobody
    /\ LET i == refs.h[<<t, s>>].in IN
       refs' = [Touch(refs, i) EXCEPT !.s[t] = refs.b[i].strong,
                                      !.todo[t] = <<[op |-> "upgrade", in |-> i, to |-> d]>>]

UpgradeCas_blind(t) ==
    /\ refs.todo[t] # << >> /\ Head(refs.todo[t]).op = "upgrade"
    /\ LET x == Head(refs.todo[t])  i == x.in  r == [Touch(refs, i) EXCEPT !.todo[t] = << >>, !.s[t] = 0] IN
       refs' = IF refs.s[t] = 0 THEN r ELSE [Cloned(r, i) EXCEPT !.h[<<t, x.to>>] = Strong(i)]

UpgradeCas(t) ==
    /\ refs.todo[t] # << >> /\ Head(refs.todo[t]).op = "upgrade"
    /\ LET x == Head(refs.todo[t])  i == x.in  r == [Touch(refs, i) EXCEPT !.todo[t] = << >>, !.s[t] = 0] IN
       refs' = IF refs.s[t] = 0 THEN r
               ELSE IF refs.b[i].strong = refs.s[t] THEN [Cloned(r, i) EXCEPT !.h[<<t, x.to>>] = Strong(i)]
               ELSE [Touch(refs, i) EXCEPT !.s[t] = refs.b[i].strong]

RefsNext == \E t \in RefThreads :
                \/ Continue(t) \/ UpgradeCas(t)
                \/ \E s \in RefSlots : make_in(t, s) \/ Destroy(t, s) \/ (\E i \in Inners : Store(t, s, i))
                \/ \E s, d \in RefSlots : clone(t, s, d) \/ downgrade(t, s, d) \/ Assign(t, s, d)
                                          \/ upgrade_rc(t, s, d) \/ UpgradeLoad(t, s, d)
                \/ \E s, d \in RefSlots, u \in RefThreads : Move(<<t, s>>, <<u, d>>)

RefsSpec == RefsInit /\ [][RefsNext]_RefsVars

----------------------------------------------------------------------------
Fields == {i \in Inners : refs.b[i].value = "live"}
Count(x) == Cardinality({p \in Places : refs.h[p] = x}) + Cardinality({i \in Fields : refs.b[i].field = x})

\* Whatever the threads do, the value of a block is alive exactly while an
\* Arc to it exists, its destructor runs once, no count of a block is
\* touched after the block was freed, and the block is freed exactly when
\* neither an Arc, an ArcWeak nor the destroying thread still needs it:
\* never early, and never leaked (arc.h arc_dec_strong,
\* arc_dec_weak_and_maybe_dealloc, ArcWeak::upgrade; rc.h, weak.h).
OwnedExactly ==
    /\ refs.uses = 0
    /\ \A i \in Inners :
         LET b == refs.b[i]  n == Count(Strong(i))  w == Count(WeakH(i)) IN
         b.block # "none" =>
             /\ b.strong = n
             /\ n > 0 => b.value = "live"
             /\ refs.ends[i] = IF b.value = "dead" THEN 1 ELSE 0
             /\ n > 0 \/ w > 0 => b.block = "held"
             /\ n = 0 /\ w = 0 /\ (\A t \in RefThreads : refs.todo[t] = << >>) => b.block = "freed"
=============================================================================
