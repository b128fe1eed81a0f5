-------------------------------- MODULE Maps --------------------------------
(***************************************************************************)
(* The three maps of src/libx/x/base: the red-black tree (map_tree.c), the *)
(* open addressed table (map_flat.c) and the chained table (map_hash.c),   *)
(* each with a state of its own.                                           *)
(***************************************************************************)
EXTENDS Integers, Sequences, FiniteSets, SequencesExt

-----------------------------------------------------------------------------
(***************************************************************************)
(* The red-black tree behind xMap (map_tree.c).  A node is named by its    *)
(* hash, which no two nodes share; 0 is NULL.  Keys of one hash live in    *)
(* one node: its own pair first, then the overflow chain.                  *)
(*                                                                         *)
(* tree.root, tree.l, tree.r, tree.p  the links; tree.red the red nodes    *)
(* tree.ent[h]             the pairs <<key, value>> of node h, in order    *)
(* tree.size            the count the map keeps; tree.ref what was put in  *)
(***************************************************************************)

CONSTANTS N,           \* hashes 1 .. N; key N + 1 has the hash of key 1
          MaxVal       \* values of the keys that collide

VARIABLE tree

Keys == 1 .. N + 1
HashOf(k) == IF k > N THEN 1 ELSE k
ValsOf(k) == IF HashOf(k) = 1 THEN 1 .. MaxVal ELSE {1}

TreeInit == tree = [root |-> 0, l |-> [h \in 1 .. N |-> 0], r |-> [h \in 1 .. N |-> 0],
                    p |-> [h \in 1 .. N |-> 0], red |-> {},
                    ent |-> [h \in 1 .. N |-> <<>>], size |-> 0, ref |-> [k \in Keys |-> 0]]

-----------------------------------------------------------------------------
SetParent(s, n, q) == IF n = 0 THEN s ELSE [s EXCEPT !.p[n] = q]

\* Whatever held u (the root, or a side of its parent) holds v.
Relink(s, u, v) ==
    IF s.p[u] = 0 THEN [s EXCEPT !.root = v]
    ELSE IF s.l[s.p[u]] = u THEN [s EXCEPT !.l[s.p[u]] = v]
    ELSE [s EXCEPT !.r[s.p[u]] = v]

rotate_left(s, x) ==
    LET y == s.r[x]
        a == SetParent([s EXCEPT !.r[x] = s.l[y]], s.l[y], x)
        b == Relink([a EXCEPT !.p[y] = s.p[x]], x, y)
    IN  [b EXCEPT !.l[y] = x, !.p[x] = y]

rotate_right(s, x) ==
    LET y == s.l[x]
        a == SetParent([s EXCEPT !.l[x] = s.r[y]], s.r[y], x)
        b == Relink([a EXCEPT !.p[y] = s.p[x]], x, y)
    IN  [b EXCEPT !.r[y] = x, !.p[x] = y]

\* The same code on either side: near is the side of the node at hand.
Near(s, left, n) == IF left THEN s.l[n] ELSE s.r[n]
Far(s, left, n) == IF left THEN s.r[n] ELSE s.l[n]
Toward(s, left, n) == IF left THEN rotate_left(s, n) ELSE rotate_right(s, n)
Away(s, left, n) == IF left THEN rotate_right(s, n) ELSE rotate_left(s, n)

Black(s, n) == n = 0 \/ n \notin s.red

RECURSIVE insert_fixup(_, _)
insert_fixup(s, z) ==
    IF s.p[z] = 0 \/ Black(s, s.p[z]) THEN [s EXCEPT !.red = @ \ {s.root}]
    ELSE LET q == s.p[z]
             g == s.p[q]
             left == s.l[g] = q
             y == Far(s, left, g)
         IN  IF ~Black(s, y)
             THEN insert_fixup([s EXCEPT !.red = (@ \ {q, y}) \cup {g}], g)
             ELSE LET turn == z = Far(s, left, q)
                      z2 == IF turn THEN q ELSE z
                      s2 == IF turn THEN Toward(s, left, q) ELSE s
                      q2 == s2.p[z2]
                  IN  insert_fixup(Away([s2 EXCEPT !.red = (@ \ {q2}) \cup {g}], left, g), z2)

\* Case 3 skipped: the far child is not made red first.
RECURSIVE delete_fixup_no3(_, _, _)
delete_fixup_no3(s, x, xp) ==
    IF x = s.root \/ ~Black(s, x) THEN [s EXCEPT !.red = @ \ {x}]
    ELSE LET left == x = s.l[xp]
             w1 == Far(s, left, xp)
             s1 == IF Black(s, w1) THEN s
                   ELSE Toward([s EXCEPT !.red = (@ \ {w1}) \cup {xp}], left, xp)
             w == Far(s1, left, xp)
         IN  IF Black(s1, s1.l[w]) /\ Black(s1, s1.r[w])
             THEN delete_fixup_no3([s1 EXCEPT !.red = @ \cup {w}], xp, s1.p[xp])
             ELSE LET c == IF xp \in s1.red THEN {w} ELSE {}
                      s3 == [s1 EXCEPT !.red = (@ \ {w, xp, Far(s1, left, w)}) \cup c]
                      s4 == Toward(s3, left, xp)
                  IN  [s4 EXCEPT !.red = @ \ {s4.root}]

\* x (perhaps NULL, so with its parent) lacks one black.
RECURSIVE delete_fixup(_, _, _)
delete_fixup(s, x, xp) ==
    IF x = s.root \/ ~Black(s, x) THEN [s EXCEPT !.red = @ \ {x}]
    ELSE LET left == x = s.l[xp]
             w1 == Far(s, left, xp)
             s1 == IF Black(s, w1) THEN s
                   ELSE Toward([s EXCEPT !.red = (@ \ {w1}) \cup {xp}], left, xp)
             w2 == Far(s1, left, xp)
         IN  IF Black(s1, s1.l[w2]) /\ Black(s1, s1.r[w2])
             THEN delete_fixup([s1 EXCEPT !.red = @ \cup {w2}], xp, s1.p[xp])
             ELSE LET s2 == IF Black(s1, Far(s1, left, w2))
                            THEN Away([s1 EXCEPT !.red = (@ \ {Near(s1, left, w2)}) \cup {w2}],
                                      left, w2)
                            ELSE s1
                      w == Far(s2, left, xp)
                      c == IF xp \in s2.red THEN {w} ELSE {}
                      s3 == [s2 EXCEPT !.red = (@ \ {w, xp, Far(s2, left, w)}) \cup c]
                      s4 == Toward(s3, left, xp)
                  IN  [s4 EXCEPT !.red = @ \ {s4.root}]

transplant(s, u, v) == SetParent(Relink(s, u, v), v, s.p[u])

RECURSIVE tree_min(_, _)
tree_min(s, n) == IF s.l[n] = 0 THEN n ELSE tree_min(s, s.l[n])

RECURSIVE find_node(_, _, _)
find_node(s, n, h) ==
    IF n = 0 \/ n = h THEN n
    ELSE find_node(s, IF h < n THEN s.l[n] ELSE s.r[n], h)

\* The last node on the way to h.
RECURSIVE ParentFor(_, _, _)
ParentFor(s, n, h) ==
    LET c == IF h < n THEN s.l[n] ELSE s.r[n]
    IN  IF c = 0 THEN n ELSE ParentFor(s, c, h)

At(es, k) == {i \in 1 .. Len(es) : es[i][1] = k}

Attach(s, h) ==
    IF s.root = 0 THEN [s EXCEPT !.root = h]
    ELSE LET q == ParentFor(s, s.root, h)
         IN  IF h < q THEN [s EXCEPT !.p[h] = q, !.l[q] = h]
             ELSE [s EXCEPT !.p[h] = q, !.r[q] = h]

\* A pair replaced where its key is, put at the head of the overflow chain,
\* or in a new red node.
Put(s, k, v) ==
    LET h == HashOf(k)
        es == s.ent[h]
    IN  IF At(es, k) # {} THEN [s EXCEPT !.ent[h][CHOOSE i \in At(es, k) : TRUE][2] = v]
        ELSE IF es # <<>>
        THEN [s EXCEPT !.ent[h] = <<Head(es), <<k, v>>>> \o Tail(es), !.size = @ + 1]
        ELSE insert_fixup([Attach(s, h) EXCEPT !.red = @ \cup {h}, !.ent[h] = <<<<k, v>>>>,
                                               !.size = @ + 1], h)

\* The node itself goes: its place to its only child, or to its successor.
Unlink(s, n) ==
    LET succ == tree_min(s, s.r[n])
        one == s.l[n] = 0 \/ s.r[n] = 0
        x == IF s.l[n] = 0 THEN s.r[n] ELSE IF s.r[n] = 0 THEN s.l[n] ELSE s.r[succ]
        xp == IF one THEN s.p[n] ELSE IF s.p[succ] = n THEN succ ELSE s.p[succ]
        a == IF s.p[succ] = n THEN s
             ELSE LET b == transplant(s, succ, s.r[succ])
                  IN  SetParent([b EXCEPT !.r[succ] = b.r[n]], b.r[n], succ)
        c == transplant(a, n, succ)
        d == SetParent([c EXCEPT !.l[succ] = s.l[n]], s.l[n], succ)
        two == [d EXCEPT !.red = IF n \in s.red THEN @ \cup {succ} ELSE @ \ {succ}]
        after == IF one THEN transplant(s, n, x) ELSE two
        lost == IF one THEN n \notin s.red ELSE succ \notin s.red
        free == [after EXCEPT !.l[n] = 0, !.r[n] = 0, !.p[n] = 0, !.red = @ \ {n}]
    IN  IF lost THEN delete_fixup(free, x, xp) ELSE free

\* A collided pair leaves the chain, a node with a chain takes its first
\* pair, and only a node without one is unlinked.
Drop(s, k) ==
    LET h == HashOf(k)
        es == s.ent[h]
        i == CHOOSE j \in At(es, k) : TRUE
        left == [s EXCEPT !.ent[h] = SubSeq(es, 1, i - 1) \o SubSeq(es, i + 1, Len(es)),
                          !.size = @ - 1]
    IN  IF Len(es) > 1 THEN left ELSE Unlink(left, h)

tree_set(k, v) == tree' = [Put(tree, k, v) EXCEPT !.ref[k] = v]

tree_get(s, k) ==
    LET es == IF find_node(s, s.root, HashOf(k)) = 0 THEN <<>> ELSE s.ent[HashOf(k)]
    IN  IF At(es, k) = {} THEN 0 ELSE es[CHOOSE i \in At(es, k) : TRUE][2]

tree_del(k) ==
    /\ tree_get(tree, k) # 0
    /\ tree' = [Drop(tree, k) EXCEPT !.ref[k] = 0]

TreeNext == \E k \in Keys : tree_del(k) \/ \E v \in ValsOf(k) : tree_set(k, v)

TreeSpec == TreeInit /\ [][TreeNext]_tree

-----------------------------------------------------------------------------
RECURSIVE iterate_subtree(_, _)
iterate_subtree(s, n) ==
    IF n = 0 THEN <<>>
    ELSE iterate_subtree(s, s.l[n]) \o <<n>> \o iterate_subtree(s, s.r[n])

\* The black height, or 0 when the two sides differ or red follows red.
RECURSIVE Height(_, _)
Height(s, n) ==
    IF n = 0 THEN 1
    ELSE LET a == Height(s, s.l[n])
             b == Height(s, s.r[n])
         IN  IF a = 0 \/ a # b
                \/ (n \in s.red /\ (~Black(s, s.l[n]) \/ ~Black(s, s.r[n]))) THEN 0
             ELSE IF n \in s.red THEN a ELSE a + 1

\* After any sequence of sets and deletions the tree holds exactly the pairs
\* that were set, in the order of their hashes, each reachable by its key,
\* with as many as the map counts; parents and children agree; and it is a
\* red-black tree, so that a lookup stays short (map_tree.c:90-211, 266-428).
TreeRight ==
    LET seen == iterate_subtree(tree, tree.root)
        has == {k \in Keys : tree.ref[k] # 0}
    IN  /\ {seen[i] : i \in 1 .. Len(seen)} = {HashOf(k) : k \in has}
        /\ \A i \in 1 .. Len(seen) - 1 : seen[i] < seen[i + 1]
        /\ \A k \in Keys : tree_get(tree, k) = tree.ref[k]
        /\ tree.size = Cardinality(has)
        /\ Height(tree, tree.root) > 0 /\ Black(tree, tree.root)
        /\ \A i \in 1 .. Len(seen) :
              \A c \in {tree.l[seen[i]], tree.r[seen[i]]} \ {0} : tree.p[c] = seen[i]

-----------------------------------------------------------------------------
(***************************************************************************)
(* The open-addressing table behind xMap (map_flat.c): linear probing with *)
(* tombstones, doubled when a set would fill more than 70% of it.          *)
(*                                                                         *)
(* flat.cap, flat.size  as in the code; flat.slot[i]: 0 empty, -1          *)
(*   tombstone, or the                                                     *)
(*                 pair <<key, value>> as key * 10 + value                 *)
(* flat.ref        what was set and not deleted                            *)
(***************************************************************************)

CONSTANTS MapKeys,     \* numbers
          Caps,        \* capacities a map is created with
          MaxCap       \* the largest table

VARIABLE flat

Tomb == -1
Pack(k, v) == k * 10 + v
KeyAt(s) == s \div 10
ValAt(s) == s % 10

xMapFlatCreate(c) == [cap |-> c, size |-> 0, slot |-> [i \in 0 .. MaxCap - 1 |-> 0],
                      ref |-> [k \in MapKeys |-> 0]]

FlatInit == flat \in {xMapFlatCreate(c) : c \in Caps}

\* hash(key) & (cap - 1); the capacity is a power of two.
slot_idx(c, k) == (k \div 2) % c

\* The i-th slot of the probe for k.
Probe(g, k, i) == g.slot[(slot_idx(g.cap, k) + i) % g.cap]

\* How many slots the probe for k passes before an empty one.
Run(g, k) ==
    LET e == {i \in 0 .. g.cap - 1 : Probe(g, k, i) = 0}
    IN  IF e = {} THEN g.cap ELSE CHOOSE i \in e : \A j \in e : i <= j

Found(g, k) == {i \in 0 .. Run(g, k) - 1 : Probe(g, k, i) > 0 /\ KeyAt(Probe(g, k, i)) = k}

flat_get(g, k) ==
    IF Found(g, k) = {} THEN 0 ELSE ValAt(Probe(g, k, CHOOSE i \in Found(g, k) : TRUE))

SetSlot(g, k, i, s) == [g EXCEPT !.slot[(slot_idx(g.cap, k) + i) % g.cap] = s]

\* The pairs in the order of the old slots, each to its first free new slot;
\* tombstones are dropped.
RECURSIVE Rehash(_, _, _)
Rehash(g, old, i) ==
    IF i = old.cap THEN g
    ELSE IF old.slot[i] <= 0 THEN Rehash(g, old, i + 1)
    ELSE LET k == KeyAt(old.slot[i])
         IN  Rehash(SetSlot(g, k, Run(g, k), old.slot[i]), old, i + 1)

flat_resize(g) ==
    Rehash([g EXCEPT !.cap = 2 * @, !.slot = [i \in 0 .. MaxCap - 1 |-> 0]], g, 0)

Min0(s) == CHOOSE i \in s : \A j \in s : i <= j

\* The key's own slot, or the first tombstone before the first empty slot, or
\* that one; with no empty slot to end the probe the set fails.
flat_set(k, v) ==
    LET full == (flat.size + 1) * 10 > flat.cap * 7
        g == IF full THEN flat_resize(flat) ELSE flat
        n == Run(g, k)
        tombs == {i \in 0 .. n - 1 : Probe(g, k, i) = Tomb}
    IN  /\ full => 2 * flat.cap <= MaxCap
        /\ flat' = IF Found(g, k) # {}
                   THEN [SetSlot(g, k, CHOOSE i \in Found(g, k) : TRUE, Pack(k, v))
                           EXCEPT !.ref[k] = v]
                   ELSE IF n = g.cap THEN g
                   ELSE [SetSlot(g, k, IF tombs = {} THEN n ELSE Min0(tombs), Pack(k, v))
                           EXCEPT !.ref[k] = v, !.size = @ + 1]

flat_del(k) ==
    /\ Found(flat, k) # {}
    /\ flat' = [SetSlot(flat, k, CHOOSE i \in Found(flat, k) : TRUE, Tomb)
                  EXCEPT !.size = @ - 1, !.ref[k] = 0]

FlatNext == \E k \in MapKeys : flat_del(k) \/ \E v \in {1, 2} : flat_set(k, v)

FlatSpec == FlatInit /\ [][FlatNext]_flat

-----------------------------------------------------------------------------
\* Whatever is set, deleted and moved, every key finds the value last set for
\* it, no key is there twice, and the size is the number of keys
\* (map_flat.c:46-161).
FlatRight ==
    /\ \A k \in MapKeys : flat_get(flat, k) = flat.ref[k]
    /\ \A k \in MapKeys :
          Cardinality({i \in 0 .. flat.cap - 1 : flat.slot[i] > 0 /\ KeyAt(flat.slot[i]) = k}) <= 1
    /\ flat.size = Cardinality({k \in MapKeys : flat.ref[k] # 0})

-----------------------------------------------------------------------------
(***************************************************************************)
(* The separate-chaining table behind xMap (map_hash.c): new entries at    *)
(* the head of their chain, the table doubled when it would be more than   *)
(* three quarters full.                                                    *)
(*                                                                         *)
(* hash.cap, hash.size  as in the code; hash.chain[i] the keys of bucket i *)
(* in order hash.val[k]  the value k's entry holds; hash.ref what was set  *)
(***************************************************************************)

VARIABLE hash

Zero == [k \in MapKeys |-> 0]

xMapHashCreate(c) == [cap |-> c, size |-> 0, chain |-> [i \in 0 .. MaxCap - 1 |-> <<>>],
                      val |-> Zero, ref |-> Zero]

HashInit == hash \in {xMapHashCreate(c) : c \in Caps}

\* hash(key) & (cap - 1); the capacity is a power of two.
bucket_idx(c, k) == (k \div 2) % c

\* The order in which the resize takes the entries, bucket by bucket.
Entries(g) == FoldLeft(LAMBDA acc, i : acc \o g.chain[i - 1], <<>>, [i \in 1 .. g.cap |-> i])

\* Every entry moves to the head of its new chain, in that order.
hash_resize(g) ==
    LET c == 2 * g.cap
    IN  [g EXCEPT !.cap = c,
           !.chain = [i \in 0 .. MaxCap - 1 |->
                        Reverse(SelectSeq(Entries(g), LAMBDA k : bucket_idx(c, k) = i))]]

Chain(g, k) == g.chain[bucket_idx(g.cap, k)]
Has(g, k) == \E i \in 1 .. Len(Chain(g, k)) : Chain(g, k)[i] = k

hash_get(g, k) == IF Has(g, k) THEN g.val[k] ELSE 0

hash_set(k, v) ==
    LET full == hash.size + 1 > (hash.cap * 3) \div 4
        g == IF full THEN hash_resize(hash) ELSE hash
    IN  IF Has(hash, k) THEN hash' = [hash EXCEPT !.val[k] = v, !.ref[k] = v]
        ELSE /\ full => 2 * hash.cap <= MaxCap
             /\ hash' = [g EXCEPT !.chain[bucket_idx(g.cap, k)] = <<k>> \o @,
                                  !.val[k] = v, !.ref[k] = v, !.size = @ + 1]

hash_del(k) ==
    /\ Has(hash, k)
    /\ hash' = [hash EXCEPT !.chain[bucket_idx(hash.cap, k)] = SelectSeq(@, LAMBDA e : e # k),
                            !.val[k] = 0, !.ref[k] = 0, !.size = @ - 1]

HashNext == \E k \in MapKeys : hash_del(k) \/ \E v \in {1, 2} : hash_set(k, v)

HashSpec == HashInit /\ [][HashNext]_hash

-----------------------------------------------------------------------------
\* Whatever is set, deleted and moved, every key finds the value last set for
\* it, the iteration meets each key once, and the size is the number of keys
\* (map_hash.c:42-134).
HashRight ==
    /\ \A k \in MapKeys : hash_get(hash, k) = hash.ref[k]
    /\ ToSet(Entries(hash)) = {k \in MapKeys : hash.ref[k] # 0}
    /\ hash.size = Len(Entries(hash)) /\ hash.size = Cardinality({k \in MapKeys : hash.ref[k] # 0})
=============================================================================
