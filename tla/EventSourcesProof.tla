------------------------- MODULE EventSourcesProof --------------------------
(***************************************************************************)
(* For any number of structs, descriptors, registrations and nested runs:  *)
(* active_handles counts the registrations the application holds, the      *)
(* kernel points to their structs and to no other, and the array holds the *)
(* allocated structs, each once.  When callbacks do not run the loop       *)
(* again, no struct is freed under a batch that refers to it, and a        *)
(* callback is called only for a registration that is still held.          *)
(***************************************************************************)
EXTENDS EventSources, FiniteSetTheorems, SequenceTheorems, TLAPS

Struct == [fd : Fds \cup {None}, reg : 0..MaxAdds, armed : BOOLEAN, deleted : BOOLEAN]

(* A registration has one struct, and a struct that is not marked deleted  *)
(* is that of a registration the application holds.                        *)
Structs ==
    /\ src \in [Slots -> Struct] /\ kernel \in [Fds -> Slots \cup {None}]
    /\ adds \in 0..MaxAdds /\ live \subseteq 1..adds
    /\ \A s \in Slots : src[s].reg <= adds
    /\ \A s, t \in Slots : src[s].reg = src[t].reg /\ src[s].reg # 0 => s = t
    /\ \A s \in Slots : src[s].reg # 0 /\ ~src[s].deleted => src[s].reg \in live
    /\ active = Cardinality(live)

IInv == Structs /\ KernelRight

-----------------------------------------------------------------------------
LEMMA LiveFinite ==
    ASSUME NEW n \in Nat, NEW S \in SUBSET (1..n)
    PROVE  IsFiniteSet(S) /\ Cardinality(S) \in Nat
  <1>1. IsFiniteSet(1..n)
    BY FS_Interval
  <1>2. QED
    BY Zenon, <1>1, FS_Subset, FS_CardinalityType

LEMMA Facts ==
    ASSUME SourcesConstants, IInv
    PROVE  /\ adds \in Nat /\ adds <= MaxAdds /\ MaxAdds \in Nat
           /\ IsFiniteSet(live) /\ Cardinality(live) \in Nat /\ live \subseteq 1..MaxAdds
           /\ 0 \notin live /\ adds + 1 \notin live
           /\ \A s \in Slots : /\ src[s].fd \in Fds \cup {None} /\ src[s].reg \in 0..MaxAdds
                               /\ src[s].armed \in BOOLEAN /\ src[s].deleted \in BOOLEAN
  <1>1. adds \in 0..MaxAdds /\ live \in SUBSET (1..adds) /\ MaxAdds \in Nat
    BY DEF SourcesConstants, IInv, Structs
  <1>2. adds \in Nat /\ adds <= MaxAdds /\ live \subseteq 1..MaxAdds /\ 0 \notin live /\ adds + 1 \notin live
    BY <1>1
  <1>3. IsFiniteSet(live) /\ Cardinality(live) \in Nat
    BY Zenon, <1>1, <1>2, LiveFinite
  <1>4. \A s \in Slots : /\ src[s].fd \in Fds \cup {None} /\ src[s].reg \in 0..MaxAdds
                         /\ src[s].armed \in BOOLEAN /\ src[s].deleted \in BOOLEAN
    BY DEF IInv, Structs, Struct
  <1>5. QED
    BY <1>1, <1>2, <1>3, <1>4

(* The struct of a registration the application holds, and the descriptor  *)
(* the kernel has it under.                                                *)
LEMMA HolderOf ==
    ASSUME SourcesConstants, IInv, NEW r \in live
    PROVE  /\ Holder(r) \in Slots /\ src[Holder(r)].reg = r /\ ~src[Holder(r)].deleted
           /\ src[Holder(r)].fd \in Fds /\ kernel[src[Holder(r)].fd] = Holder(r) /\ r # 0
           /\ \A s \in Slots : src[s].reg = r => s = Holder(r)
  <1>1. PICK f \in Fds : kernel[f] # None /\ src[kernel[f]].reg = r
    BY Zenon DEF IInv, KernelRight
  <1>2. kernel[f] \in Slots /\ src[kernel[f]].fd = f /\ ~src[kernel[f]].deleted
    BY <1>1 DEF IInv, KernelRight, Structs
  <1>3. Holder(r) \in Slots /\ src[Holder(r)].reg = r
    BY Zenon, <1>1, <1>2 DEF Holder
  <1>4. r # 0
    BY Zenon, Facts
  <1>5. \A s \in Slots : src[s].reg = r => s = Holder(r)
    BY Zenon, <1>3, <1>4 DEF IInv, Structs
  <1>6. Holder(r) = kernel[f]
    BY Zenon, <1>1, <1>2, <1>5
  <1>7. QED
    BY Zenon, <1>2, <1>3, <1>4, <1>5, <1>6

LEMMA AddKeeps == ASSUME SourcesConstants, IInv, NEW f \in Fds, Add(f) PROVE IInv'
  <1>0. PICK s \in Slots \ Used :
          /\ src' = [src EXCEPT ![s] =
                      [fd |-> f, reg |-> adds', armed |-> TRUE, deleted |-> kernel[f] # None]]
          /\ \/ /\ kernel[f] = None /\ kernel' = [kernel EXCEPT ![f] = s]
                /\ active' = active + 1 /\ live' = live \cup {adds'}
             \/ kernel[f] # None /\ UNCHANGED <<kernel, active, live>>
    BY Zenon DEF Add
  <1>1. adds' = adds + 1 /\ adds < MaxAdds
    BY DEF Add
  <1>2. s \in Slots /\ src[s].reg = 0
    BY <1>0 DEF Used
  <1>3. /\ src'[s].fd = f /\ src'[s].reg = adds + 1 /\ src'[s].deleted = (kernel[f] # None)
        /\ \A t \in Slots : t # s => src'[t] = src[t]
        /\ src' \in [Slots -> Struct]
    <2>1. src \in [Slots -> Struct] /\ adds + 1 \in 0..MaxAdds
      BY <1>1, Facts DEF IInv, Structs
    <2>2. [fd |-> f, reg |-> adds', armed |-> TRUE, deleted |-> kernel[f] # None] \in Struct
      BY <1>1, <2>1 DEF Struct
    <2>3. QED
      BY <1>0, <1>1, <1>2, <2>1, <2>2
  <1>4. \A g \in Fds : kernel[g] # None => kernel[g] \in Slots /\ kernel[g] # s
    BY <1>2, Facts DEF IInv, Structs, KernelRight
  <1>5. kernel \in [Fds -> Slots \cup {None}]
    BY DEF IInv, Structs
  <1>6. /\ adds' \in 0..MaxAdds /\ live' \subseteq 1..adds' /\ live \subseteq live'
        /\ \A t \in Slots : src'[t].reg <= adds'
    <2>1. adds \in Nat /\ MaxAdds \in Nat /\ live \subseteq 1..adds
      BY Facts DEF IInv, Structs
    <2>2. \A t \in Slots : src[t].reg \in Nat /\ src[t].reg <= adds
      BY Facts DEF IInv, Structs
    <2>3. live' \subseteq live \cup {adds + 1} /\ live \subseteq live'
      BY <1>0, <1>1
    <2>4. QED
      BY <1>1, <1>3, <2>1, <2>2, <2>3
  <1>7. \A t, u \in Slots : src'[t].reg = src'[u].reg /\ src'[t].reg # 0 => t = u
    <2>1. \A t \in Slots : src[t].reg # adds + 1
      BY Facts DEF IInv, Structs
    <2>2. \A t, u \in Slots : src[t].reg = src[u].reg /\ src[t].reg # 0 => t = u
      BY Zenon DEF IInv, Structs
    <2>3. QED
      BY <1>3, <2>1, <2>2
  <1>8. CASE kernel[f] = None /\ kernel' = [kernel EXCEPT ![f] = s]
             /\ active' = active + 1 /\ live' = live \cup {adds'}
    <2>1. kernel' \in [Fds -> Slots \cup {None}] /\ kernel'[f] = s /\ \A g \in Fds : g # f => kernel'[g] = kernel[g]
      BY <1>2, <1>5, <1>8
    <2>2. active' = Cardinality(live')
      <3>1. IsFiniteSet(live) /\ adds + 1 \notin live /\ live' = live \cup {adds + 1} /\ active = Cardinality(live)
        BY <1>1, <1>8, Facts DEF IInv, Structs
      <3>2. Cardinality(live \cup {adds + 1}) = Cardinality(live) + 1
        BY <3>1, FS_AddElement
      <3>3. QED
        BY <1>8, <3>1, <3>2
    <2>3. \A t \in Slots : src'[t].reg # 0 /\ ~src'[t].deleted => src'[t].reg \in live'
      BY <1>1, <1>3, <1>8 DEF IInv, Structs
    <2>4. Structs'
      BY Zenon, <1>3, <1>6, <1>7, <2>1, <2>2, <2>3 DEF Structs, Struct
    <2>5. KernelRight'
      <3>1. ASSUME NEW g \in Fds, kernel'[g] # None
            PROVE  src'[kernel'[g]].fd = g /\ src'[kernel'[g]].reg \in live' /\ ~src'[kernel'[g]].deleted
        <4>1. CASE g = f
          BY Zenon, <1>1, <1>3, <1>8, <2>1, <4>1
        <4>2. CASE g # f
          <5>1. kernel'[g] = kernel[g] /\ kernel[g] # None /\ src'[kernel[g]] = src[kernel[g]]
            BY Zenon, <1>3, <1>4, <2>1, <3>1, <4>2
          <5>2. src[kernel[g]].fd = g /\ src[kernel[g]].reg \in live /\ ~src[kernel[g]].deleted
            BY Zenon, <5>1 DEF IInv, KernelRight
          <5>3. QED
            BY Zenon, <1>6, <5>1, <5>2
        <4>3. QED
          BY <4>1, <4>2
      <3>2. ASSUME NEW r \in live' PROVE \E g \in Fds : kernel'[g] # None /\ src'[kernel'[g]].reg = r
        <4>1. CASE r = adds + 1
          BY <1>2, <1>3, <2>1, <4>1 DEF SourcesConstants
        <4>2. CASE r \in live
          <5>1. PICK g \in Fds : kernel[g] # None /\ src[kernel[g]].reg = r
            BY Zenon, <4>2 DEF IInv, KernelRight
          <5>2. kernel'[g] = kernel[g] /\ src'[kernel[g]] = src[kernel[g]]
            BY <1>3, <1>4, <1>8, <2>1, <5>1
          <5>3. QED
            BY <5>1, <5>2
        <4>3. QED
          BY <1>1, <1>8, <4>1, <4>2
      <3>3. QED
        BY Zenon, <3>1, <3>2 DEF KernelRight
    <2>6. QED
      BY Zenon, <2>4, <2>5 DEF IInv
  <1>9. CASE kernel[f] # None /\ UNCHANGED <<kernel, active, live>>
    <2>1. \A t \in Slots : src'[t].reg # 0 /\ ~src'[t].deleted => src'[t].reg \in live'
      BY Zenon, <1>3, <1>9 DEF IInv, Structs
    <2>2. Structs'
      BY Zenon, <1>3, <1>5, <1>6, <1>7, <1>9, <2>1 DEF IInv, Structs, Struct
    <2>3. \A g \in Fds : kernel[g] # None => src'[kernel[g]] = src[kernel[g]]
      BY Zenon, <1>3, <1>4
    <2>4. KernelRight'
      BY <1>9, <2>3 DEF IInv, KernelRight
    <2>5. QED
      BY Zenon, <2>2, <2>4 DEF IInv
  <1>10. QED
    BY Zenon, <1>0, <1>8, <1>9

(* xEventMod changes what a struct waits for and nothing else.             *)
LEMMA ModKeeps == ASSUME SourcesConstants, IInv, NEW r, Mod(r) PROVE IInv'
  <1>0. /\ r \in live /\ src' = [src EXCEPT ![Holder(r)].armed = ~@]
        /\ UNCHANGED <<kernel, active, live, adds>>
    BY DEF Mod
  <1>1. /\ src' \in [Slots -> Struct]
        /\ \A s \in Slots : src'[s].fd = src[s].fd /\ src'[s].reg = src[s].reg /\ src'[s].deleted = src[s].deleted
    <2>1. src \in [Slots -> Struct] /\ Holder(r) \in Slots
      BY Zenon, <1>0, HolderOf DEF IInv, Structs
    <2>2. QED
      BY Zenon, <1>0, <2>1 DEF Struct
  <1>2. Structs'
    BY <1>0, <1>1 DEF IInv, Structs, Struct
  <1>3. \A f \in Fds : kernel[f] # None => kernel[f] \in Slots
    BY DEF IInv, Structs
  <1>4. KernelRight'
    BY <1>0, <1>1, <1>3 DEF IInv, KernelRight
  <1>5. QED
    BY Zenon, <1>2, <1>4 DEF IInv

(* xEventDel takes the struct out of the kernel and marks it.              *)
LEMMA DelKeeps == ASSUME SourcesConstants, IInv, NEW r, Del(r) PROVE IInv'
  <1> DEFINE h == Holder(r)
             f == src[h].fd
  <1>0. /\ r \in live /\ live' = live \ {r} /\ active' = active - 1
        /\ kernel' = [kernel EXCEPT ![f] = None] /\ src' = [src EXCEPT ![h].deleted = TRUE]
        /\ adds' = adds
    BY DEF Del
  <1>1. /\ h \in Slots /\ src[h].reg = r /\ f \in Fds /\ kernel[f] = h /\ r # 0
        /\ \A s \in Slots : src[s].reg = r => s = h
    BY Zenon, <1>0, HolderOf
  <1> HIDE DEF h, f
  <1>2. /\ src' \in [Slots -> Struct] /\ src'[h].deleted
        /\ \A s \in Slots : src'[s].fd = src[s].fd /\ src'[s].reg = src[s].reg
        /\ \A s \in Slots : s # h => src'[s].deleted = src[s].deleted
    <2>1. src \in [Slots -> Struct]
      BY DEF IInv, Structs
    <2>2. QED
      BY Zenon, <1>0, <1>1, <2>1 DEF Struct
  <1>3. /\ kernel' \in [Fds -> Slots \cup {None}] /\ kernel'[f] = None
        /\ \A g \in Fds : g # f => kernel'[g] = kernel[g]
    BY <1>0, <1>1 DEF IInv, Structs
  <1>4. \A g \in Fds : kernel[g] # None => kernel[g] \in Slots /\ src[kernel[g]].fd = g
    BY DEF IInv, Structs, KernelRight
  <1>5. \A g \in Fds : g # f /\ kernel[g] # None => kernel[g] # h
    BY Zenon, <1>4 DEF f
  <1>6. Structs'
    <2>1. active' = Cardinality(live')
      <3>1. IsFiniteSet(live) /\ active = Cardinality(live)
        BY Zenon, Facts DEF IInv, Structs
      <3>2. Cardinality(live \ {r}) = Cardinality(live) - 1
        BY Zenon, <1>0, <3>1, FS_RemoveElement
      <3>3. QED
        BY <1>0, <3>1, <3>2
    <2>2. \A s \in Slots : src'[s].reg # 0 /\ ~src'[s].deleted => src'[s].reg \in live'
      <3>1. SUFFICES ASSUME NEW s \in Slots, src'[s].reg # 0, ~src'[s].deleted PROVE src'[s].reg \in live'
        BY Zenon
      <3>2. s # h /\ src[s].reg # 0 /\ ~src[s].deleted /\ src[s].reg # r
        BY Zenon, <1>1, <1>2, <3>1
      <3>3. src[s].reg \in live
        BY Zenon, <3>2 DEF IInv, Structs
      <3>4. QED
        BY <1>0, <1>2, <3>2, <3>3
    <2>3. /\ adds \in 0..MaxAdds /\ live' \subseteq 1..adds /\ \A s \in Slots : src'[s].reg <= adds
          /\ \A s, t \in Slots : src'[s].reg = src'[t].reg /\ src'[s].reg # 0 => s = t
      BY <1>0, <1>2 DEF IInv, Structs
    <2>4. QED
      BY <1>0, <1>2, <1>3, <2>1, <2>2, <2>3 DEF Structs, Struct
  <1>7. KernelRight'
    <2>1. ASSUME NEW g \in Fds, kernel'[g] # None
          PROVE  src'[kernel'[g]].fd = g /\ src'[kernel'[g]].reg \in live' /\ ~src'[kernel'[g]].deleted
      <3>1. g # f /\ kernel'[g] = kernel[g] /\ kernel[g] # None /\ kernel[g] \in Slots /\ kernel[g] # h
        BY Zenon, <1>3, <1>4, <1>5, <2>1
      <3>2. src[kernel[g]].fd = g /\ src[kernel[g]].reg \in live /\ ~src[kernel[g]].deleted
        BY Zenon, <3>1 DEF IInv, KernelRight
      <3>3. src[kernel[g]].reg # r
        BY Zenon, <1>1, <3>1
      <3>4. QED
        BY <1>0, <1>2, <3>1, <3>2, <3>3
    <2>2. ASSUME NEW q \in live' PROVE \E g \in Fds : kernel'[g] # None /\ src'[kernel'[g]].reg = q
      <3>1. q \in live /\ q # r
        BY <1>0
      <3>2. PICK g \in Fds : kernel[g] # None /\ src[kernel[g]].reg = q
        BY Zenon, <3>1 DEF IInv, KernelRight
      <3>3. g # f
        BY Zenon, <1>1, <3>1, <3>2
      <3>4. kernel'[g] = kernel[g] /\ src'[kernel[g]].reg = q
        BY Zenon, <1>2, <1>3, <1>4, <3>2, <3>3
      <3>5. QED
        BY Zenon, <3>2, <3>4
    <2>3. QED
      BY Zenon, <2>1, <2>2 DEF KernelRight
  <1>8. QED
    BY Zenon, <1>6, <1>7 DEF IInv

(* The sweep frees the structs marked deleted, which the kernel has none   *)
(* of.                                                                     *)
LEMMA SweepKeeps == ASSUME SourcesConstants, IInv, Sweep PROVE IInv'
  <1>0. /\ src' = [s \in Slots |-> IF src[s].deleted THEN Free ELSE src[s]]
        /\ UNCHANGED <<kernel, active, live, adds>>
    BY DEF Sweep
  <1>1. Free \in Struct /\ Free.reg = 0 /\ ~Free.deleted
    BY Facts DEF Free, Struct
  <1>2. /\ src' \in [Slots -> Struct]
        /\ \A s \in Slots : ~src[s].deleted => src'[s] = src[s]
        /\ \A s \in Slots : src'[s].reg = 0 \/ (src'[s] = src[s] /\ ~src[s].deleted)
    <2>1. src \in [Slots -> Struct]
      BY DEF IInv, Structs
    <2>2. QED
      BY <1>0, <1>1, <2>1
  <1>3. Structs'
    <2>1. \A s \in Slots : src'[s].reg <= adds
      BY <1>2, Facts DEF IInv, Structs
    <2>2. \A s, t \in Slots : src'[s].reg = src'[t].reg /\ src'[s].reg # 0 => s = t
      BY Zenon, <1>2 DEF IInv, Structs
    <2>3. \A s \in Slots : src'[s].reg # 0 /\ ~src'[s].deleted => src'[s].reg \in live
      BY Zenon, <1>2 DEF IInv, Structs
    <2>4. QED
      BY Zenon, <1>0, <1>2, <2>1, <2>2, <2>3 DEF IInv, Structs, Struct
  <1>4. \A f \in Fds : kernel[f] # None => src'[kernel[f]] = src[kernel[f]]
    BY <1>2 DEF IInv, Structs, KernelRight
  <1>5. KernelRight'
    BY <1>0, <1>4 DEF IInv, KernelRight
  <1>6. QED
    BY Zenon, <1>3, <1>5 DEF IInv

(* xEventLoopDestroy, and the start.                                       *)
LEMMA EmptyIsRight ==
    ASSUME SourcesConstants, adds \in 0..MaxAdds, src = [s \in Slots |-> Free],
           kernel = [f \in Fds |-> None], active = 0, live = {}
    PROVE  IInv
  <1>1. Free \in Struct /\ Free.reg = 0
    BY DEF Free, Struct, SourcesConstants
  <1>2. src \in [Slots -> Struct] /\ \A s \in Slots : src[s].reg = 0
    BY <1>1
  <1>3. Cardinality(live) = 0
    BY FS_EmptySet
  <1>4. Structs
    BY <1>2, <1>3 DEF Structs, SourcesConstants
  <1>5. KernelRight
    BY DEF KernelRight
  <1>6. QED
    BY Zenon, <1>4, <1>5 DEF IInv

LEMMA InitIInv == ASSUME SourcesConstants, Init PROVE IInv
  <1>1. /\ adds \in 0..MaxAdds /\ src = [s \in Slots |-> Free]
        /\ kernel = [f \in Fds |-> None] /\ active = 0 /\ live = {}
    BY DEF Init, SourcesConstants
  <1>2. QED
    BY Zenon, <1>1, EmptyIsRight

LEMMA NextKeeps == ASSUME SourcesConstants, IInv, [Next]_vars PROVE IInv'
  <1>1. ASSUME NEW f \in Fds, Add(f) PROVE IInv'
    BY Zenon, <1>1, AddKeeps
  <1>2. ASSUME NEW r \in 1..MaxAdds, Mod(r) \/ Del(r) PROVE IInv'
    BY Zenon, <1>2, ModKeeps, DelKeeps
  <1>3. CASE Sweep
    BY Zenon, <1>3, SweepKeeps
  <1>4. CASE Destroy
    <2>1. /\ adds' = adds /\ src' = [s \in Slots |-> Free]
          /\ kernel' = [f \in Fds |-> None] /\ active' = 0 /\ live' = {}
      BY <1>4 DEF Destroy
    <2>2. Free \in Struct /\ Free.reg = 0 /\ adds \in 0..MaxAdds
      BY DEF Free, Struct, SourcesConstants, IInv, Structs
    <2>3. Cardinality(live') = 0
      BY <2>1, FS_EmptySet
    <2>4. src' \in [Slots -> Struct] /\ \A s \in Slots : src'[s].reg = 0
      BY <2>1, <2>2
    <2>5. Structs' /\ KernelRight'
      BY <2>1, <2>2, <2>3, <2>4 DEF Structs, KernelRight, Struct
    <2>6. QED
      BY Zenon, <2>5 DEF IInv
  <1>5. ASSUME UNCHANGED <<src, kernel, active, live, adds>> PROVE IInv'
    BY <1>5 DEF IInv, Structs, KernelRight, Struct
  <1>6. ASSUME NEW f \in Fds, FdReady(f) PROVE IInv'
    BY <1>5, <1>6 DEF FdReady
  <1>7. CASE WakeReady \/ Run \/ CallbackReturns \/ Posted \/ Poll \/ UNCHANGED vars
    BY <1>5, <1>7 DEF WakeReady, Run, CallbackReturns, Posted, Poll, vars
  <1>8. CASE Translate \/ Dispatch
    BY <1>5, <1>8 DEF Translate, Dispatch
  <1>9. QED
    BY Zenon, <1>1, <1>2, <1>3, <1>4, <1>6, <1>7, <1>8 DEF Next

-----------------------------------------------------------------------------
(* The array of pointers holds the structs in use, each once.              *)
Unique(q) == \A i, j \in 1..Len(q) : q[i] = q[j] => i = j
Arrayed == items \in Seq(Slots) /\ Unique(items) /\ RangeOf(items) = Used

(* Induction over the rounds of the sweep: a set of numbers that is not    *)
(* empty has a least one.                                                  *)
LEMMA LeastOf ==
    ASSUME NEW T \in SUBSET Nat, T # {}
    PROVE  \E x \in T : \A y \in T : x <= y
  <1> DEFINE R == {ss \in Nat \X Nat : ss[1] < ss[2]}
  <1>1. IsWellFoundedOn(R, Nat)
    BY NatLessThanWellFounded DEF OpToRel
  <1>2. ASSUME NEW x \in Nat, NEW y \in Nat, x < y PROVE <<x, y>> \in R
    BY <1>2
  <1> HIDE DEF R
  <1>3. PICK x \in T : \A y \in T : ~(<<y, x>> \in R)
    BY Zenon, <1>1, WFMin
  <1>4. ASSUME NEW y \in T PROVE x <= y
    <2>1. x \in Nat /\ y \in Nat /\ ~(y < x)
      BY Zenon, <1>2, <1>3
    <2>2. QED
      BY <2>1
  <1>5. QED
    BY Zenon, <1>4

LEMMA SweepLoopIs ==
    /\ SweepLoop[0] = <<items, 1>>
    /\ \A n \in Nat : SweepLoop[n + 1] = SweepStep(SweepLoop[n][1], SweepLoop[n][2])
  <1> DEFINE Round(g, k) == IF k = 0 THEN <<items, 1>> ELSE SweepStep(g[k - 1][1], g[k - 1][2])
             Rounds(n, g) == g = [k \in 0..n |-> Round(g, k)]
  <1>1. \A n \in Nat : \E g : Rounds(n, g)
    <2> DEFINE T == {n \in Nat : ~\E g : Rounds(n, g)}
    <2>1. SUFFICES ASSUME T # {} PROVE FALSE
      BY Zenon
    <2>2. T \in SUBSET Nat
      BY Zenon
    <2>3. PICK m \in T : \A y \in T : m <= y
      BY Zenon, <2>1, <2>2, LeastOf
    <2>4. m \in Nat /\ ~\E g : Rounds(m, g)
      BY Zenon
    <2>5. CASE m = 0
      <3> DEFINE g == [k \in 0..0 |-> <<items, 1>>]
      <3>1. g = [k \in 0..0 |-> Round(g, k)]
        <4>1. \A k \in 0..0 : Round(g, k) = <<items, 1>>
          OBVIOUS
        <4>2. QED
          BY Zenon, <4>1
      <3>2. QED
        BY Zenon, <2>4, <2>5, <3>1
    <2>6. CASE m # 0
      <3>1. m - 1 \in Nat /\ ~(m <= m - 1)
        BY <2>4, <2>6
      <3>2. PICK g : Rounds(m - 1, g)
        BY Zenon, <2>3, <3>1
      <3> DEFINE h == [k \in 0..m |-> IF k < m THEN g[k] ELSE Round(g, m)]
      <3>3. \A k \in 0..(m - 1) : g[k] = Round(g, k)
        BY Zenon, <3>2
      <3>4. \A k \in 0..m : h[k] = IF k < m THEN g[k] ELSE Round(g, m)
        BY Zenon
      <3>5. ASSUME NEW k \in 0..m PROVE h[k] = Round(h, k)
        <4>1. CASE k = 0
          <5>1. h[0] = g[0] /\ 0 \in 0..(m - 1)
            BY <2>4, <2>6, <3>4
          <5>2. QED
            BY Zenon, <3>3, <4>1, <5>1
        <4>2. CASE k # 0
          <5>1. k - 1 \in 0..m /\ k - 1 < m /\ h[k - 1] = g[k - 1]
            BY <2>4, <3>4, <4>2
          <5>2. h[k] = Round(g, k)
            <6>1. CASE k < m
              <7>1. k \in 0..(m - 1) /\ h[k] = g[k]
                BY <2>4, <3>4, <6>1
              <7>2. QED
                BY Zenon, <3>3, <7>1
            <6>2. CASE ~(k < m)
              <7>1. k = m
                BY <2>4, <6>2
              <7>2. QED
                BY Zenon, <3>4, <6>2, <7>1
            <6>3. QED
              BY <6>1, <6>2
          <5>3. QED
            BY Zenon, <4>2, <5>1, <5>2
        <4>3. QED
          BY <4>1, <4>2
      <3> HIDE DEF Round
      <3>6. h = [k \in 0..m |-> Round(h, k)]
        <4>1. h = [k \in 0..m |-> h[k]]
          BY Zenon
        <4> HIDE DEF h
        <4>2. QED
          BY <3>5, <4>1
      <3>7. QED
        BY Zenon, <2>4, <3>6
    <2>7. QED
      BY <2>5, <2>6
  <1>2. ASSUME NEW n \in Nat, NEW m \in Nat, NEW g, NEW h, Rounds(n, g), Rounds(m, h), n <= m
        PROVE  \A k \in 0..n : g[k] = h[k]
    <2>0. /\ \A k \in 0..n : g[k] = Round(g, k)
          /\ \A k \in 0..m : h[k] = Round(h, k)
      BY Zenon, <1>2
    <2> DEFINE T == {k \in 0..n : g[k] # h[k]}
    <2>1. SUFFICES ASSUME T # {} PROVE FALSE
      BY Zenon
    <2>2. T \in SUBSET Nat
      BY <1>2
    <2>3. PICK k \in T : \A y \in T : k <= y
      BY Zenon, <2>1, <2>2, LeastOf
    <2>4. k \in 0..n /\ k \in 0..m /\ g[k] # h[k]
      BY <1>2
    <2>5. CASE k = 0
      BY Zenon, <2>0, <2>4, <2>5
    <2>6. CASE k # 0
      <3>1. k - 1 \in 0..n /\ ~(k <= k - 1)
        BY <2>4, <2>6
      <3>2. g[k - 1] = h[k - 1]
        BY Zenon, <2>3, <3>1
      <3>3. QED
        BY Zenon, <2>0, <2>4, <2>6, <3>2
    <2>7. QED
      BY <2>5, <2>6
  <1> DEFINE G(n) == CHOOSE g : Rounds(n, g)
             F == [n \in Nat |-> G(n)[n]]
  <1>3. \A n \in Nat : Rounds(n, G(n))
    BY Zenon, <1>1
  <1> HIDE DEF G
  <1>a. F = [n \in Nat |-> F[n]] /\ \A n \in Nat : F[n] = G(n)[n]
    BY Zenon
  <1> HIDE DEF F
  <1>4. ASSUME NEW n \in Nat PROVE F[n] = Round(F, n)
    <2>0. n \in 0..n
      BY <1>4
    <2>1. F[n] = G(n)[n] /\ n \in 0..n
      BY Zenon, <1>a, <2>0
    <2>2. G(n)[n] = Round(G(n), n)
      BY Zenon, <1>3, <2>1
    <2>3. CASE n = 0
      BY Zenon, <2>1, <2>2, <2>3
    <2>4. CASE n # 0
      <3>1. n - 1 \in Nat /\ n - 1 <= n /\ n - 1 \in 0..(n - 1)
        BY <2>4
      <3>2. F[n - 1] = G(n - 1)[n - 1]
        BY Zenon, <1>a, <3>1
      <3>3. G(n - 1)[n - 1] = G(n)[n - 1]
        <4>1. Rounds(n - 1, G(n - 1)) /\ Rounds(n, G(n))
          BY Zenon, <1>3, <3>1
        <4> HIDE DEF Rounds
        <4>2. \A k \in 0..(n - 1) : G(n - 1)[k] = G(n)[k]
          BY <1>2, <3>1, <4>1
        <4>3. QED
          BY Zenon, <3>1, <4>2
      <3>4. QED
        BY Zenon, <2>1, <2>2, <2>4, <3>2, <3>3
    <2>5. QED
      BY <2>3, <2>4
  <1>5. F = [n \in Nat |-> Round(F, n)]
    <2> HIDE DEF Round
    <2>1. QED
      BY <1>4, <1>a
  <1>6. SweepLoop = [n \in Nat |-> Round(SweepLoop, n)]
    BY Zenon, <1>5 DEF SweepLoop
  <1>7. SweepLoop[0] = <<items, 1>>
    BY Zenon, <1>6
  <1>8. ASSUME NEW n \in Nat PROVE SweepLoop[n + 1] = SweepStep(SweepLoop[n][1], SweepLoop[n][2])
    <2>1. n + 1 \in Nat /\ n + 1 # 0 /\ n + 1 - 1 = n
      OBVIOUS
    <2>2. SweepLoop[n + 1] = Round(SweepLoop, n + 1)
      BY Zenon, <1>6, <2>1
    <2>3. QED
      BY <2>1, <2>2
  <1>9. QED
    BY Zenon, <1>7, <1>8

(* What holds at place i of array a with at most c rounds to go: no entry  *)
(* before i is deleted, and only deleted ones have gone.                   *)
Sweeping(a, i, c) ==
    /\ a \in Seq(Slots) /\ Unique(a) /\ i \in 1..(Len(a) + 1) /\ Len(a) - i + 1 <= c
    /\ \A k \in 1..Len(a) : a[k] \in RangeOf(items)
    /\ \A s \in RangeOf(items) : ~src[s].deleted => s \in RangeOf(a)
    /\ \A k \in 1..(i - 1) : ~src[a[k]].deleted

LEMMA RoundSweeps ==
    ASSUME NEW a, NEW i, NEW c \in Nat, Sweeping(a, i, c + 1)
    PROVE  Sweeping(SweepStep(a, i)[1], SweepStep(a, i)[2], c)
  <1>0. /\ a \in Seq(Slots) /\ Len(a) \in Nat /\ Unique(a) /\ i \in 1..(Len(a) + 1) /\ Len(a) - i + 1 <= c + 1
        /\ \A k \in 1..Len(a) : a[k] \in RangeOf(items) /\ a[k] \in Slots
        /\ \A s \in RangeOf(items) : ~src[s].deleted => s \in RangeOf(a)
        /\ \A k \in 1..(i - 1) : ~src[a[k]].deleted
    BY DEF Sweeping
  <1>1. CASE i > Len(a)
    <2>1. SweepStep(a, i)[1] = a /\ SweepStep(a, i)[2] = i
      BY <1>0, <1>1 DEF SweepStep
    <2>2. Sweeping(a, i, c)
      BY <1>0, <1>1 DEF Sweeping
    <2>3. QED
      BY Zenon, <2>1, <2>2
  <1>2. CASE i <= Len(a) /\ src[a[i]].deleted
    <2> DEFINE b == [k \in 1..(Len(a) - 1) |-> IF k = i THEN a[Len(a)] ELSE a[k]]
    <2>1. SweepStep(a, i)[1] = b /\ SweepStep(a, i)[2] = i
      BY <1>0, <1>2 DEF SweepStep
    <2>2. /\ Len(a) >= 1 /\ b \in Seq(Slots) /\ Len(b) = Len(a) - 1
          /\ \A k \in 1..(Len(a) - 1) : b[k] = IF k = i THEN a[Len(a)] ELSE a[k]
      BY <1>0, <1>2
    <2> HIDE DEF b
    <2>3. Unique(b)
      <3>1. SUFFICES ASSUME NEW j \in 1..Len(b), NEW k \in 1..Len(b), b[j] = b[k] PROVE j = k
        BY Zenon DEF Unique
      <3>2. (IF j = i THEN Len(a) ELSE j) = (IF k = i THEN Len(a) ELSE k)
        <4>1. /\ (IF j = i THEN Len(a) ELSE j) \in 1..Len(a) /\ (IF k = i THEN Len(a) ELSE k) \in 1..Len(a)
              /\ a[IF j = i THEN Len(a) ELSE j] = b[j] /\ a[IF k = i THEN Len(a) ELSE k] = b[k]
          BY <1>0, <2>2
        <4>2. QED
          BY Zenon, <1>0, <3>1, <4>1 DEF Unique
      <3>3. QED
        BY <1>0, <2>2, <3>2
    <2>4. i \in 1..(Len(b) + 1) /\ Len(b) - i + 1 <= c
      BY <1>0, <1>2, <2>2
    <2>5. \A k \in 1..Len(b) : b[k] \in RangeOf(items)
      <3>1. ASSUME NEW k \in 1..Len(b) PROVE b[k] \in RangeOf(items)
        <4>1. \E j \in 1..Len(a) : b[k] = a[j]
          <5>1. k \in 1..Len(a) /\ Len(a) \in 1..Len(a) /\ k \in 1..(Len(a) - 1)
            BY <1>0, <2>2
          <5>2. QED
            BY Zenon, <2>2, <5>1
        <4>2. QED
          BY Zenon, <1>0, <4>1
      <3>2. QED
        BY Zenon, <3>1
    <2>6. ASSUME NEW s \in RangeOf(items), ~src[s].deleted PROVE s \in RangeOf(b)
      <3>1. PICK j \in 1..Len(a) : a[j] = s
        BY Zenon, <1>0, <2>6 DEF RangeOf
      <3>2. j # i
        BY Zenon, <1>2, <2>6, <3>1
      <3>3. CASE j = Len(a)
        <4>1. i \in 1..Len(b) /\ b[i] = s
          <5>1. i \in 1..(Len(a) - 1)
            BY <1>0, <1>2, <3>2, <3>3
          <5>2. QED
            BY Zenon, <2>2, <3>1, <3>3, <5>1
        <4>2. QED
          BY Zenon, <4>1 DEF RangeOf
      <3>4. CASE j # Len(a)
        <4>1. j \in 1..Len(b) /\ b[j] = s
          <5>1. j \in 1..(Len(a) - 1)
            BY <1>0, <3>1, <3>4
          <5>2. QED
            BY Zenon, <2>2, <3>1, <3>2, <5>1
        <4>2. QED
          BY Zenon, <4>1 DEF RangeOf
      <3>5. QED
        BY <3>3, <3>4
    <2>7. \A k \in 1..(i - 1) : ~src[b[k]].deleted
      BY <1>0, <1>2, <2>2
    <2>8. QED
      BY Zenon, <2>1, <2>2, <2>3, <2>4, <2>5, <2>6, <2>7 DEF Sweeping
  <1>3. CASE i <= Len(a) /\ ~src[a[i]].deleted
    <2>1. SweepStep(a, i)[1] = a /\ SweepStep(a, i)[2] = i + 1
      BY <1>0, <1>3 DEF SweepStep
    <2>2. i + 1 \in 1..(Len(a) + 1) /\ Len(a) - (i + 1) + 1 <= c
      BY <1>0, <1>3
    <2>3. \A k \in 1..((i + 1) - 1) : ~src[a[k]].deleted
      BY <1>0, <1>3
    <2>4. Sweeping(a, i + 1, c)
      BY Zenon, <1>0, <2>2, <2>3 DEF Sweeping
    <2>5. QED
      BY Zenon, <2>1, <2>4
  <1>4. QED
    BY <1>0, <1>1, <1>2, <1>3

(* The sweep keeps the entries that are not deleted, each once.            *)
LEMMA SweptIs ==
    ASSUME items \in Seq(Slots), Unique(items)
    PROVE  /\ Swept \in Seq(Slots) /\ Unique(Swept)
           /\ RangeOf(Swept) = {s \in RangeOf(items) : ~src[s].deleted}
  <1> DEFINE L == Len(items)
             OK(n) == Sweeping(SweepLoop[n][1], SweepLoop[n][2], L - n)
             T == {n \in 0..L : ~OK(n)}
  <1>0. L \in Nat
    OBVIOUS
  <1>1. OK(0)
    <2>1. SweepLoop[0][1] = items /\ SweepLoop[0][2] = 1
      BY SweepLoopIs
    <2>2. Sweeping(items, 1, L - 0)
      BY DEF Sweeping, RangeOf
    <2>3. QED
      BY Zenon, <2>1, <2>2
  <1> HIDE DEF L
  <1>2. T = {}
    <2>1. SUFFICES ASSUME T # {} PROVE FALSE
      BY Zenon
    <2>2. T \in SUBSET Nat
      BY <1>0
    <2>3. PICK m \in T : \A y \in T : m <= y
      BY Zenon, <2>1, <2>2, LeastOf
    <2>4. m \in 0..L /\ ~OK(m)
      BY Zenon
    <2>5. m # 0
      BY Zenon, <1>1, <2>4
    <2>6. m - 1 \in 0..L /\ ~(m <= m - 1) /\ m - 1 \in Nat /\ L - m \in Nat /\ L - (m - 1) = L - m + 1 /\ m - 1 + 1 = m
      BY <1>0, <2>4, <2>5
    <2>7. OK(m - 1)
      BY Zenon, <2>3, <2>6
    <2>8. Sweeping(SweepLoop[m - 1][1], SweepLoop[m - 1][2], L - m + 1)
      BY Zenon, <2>6, <2>7
    <2>9. SweepLoop[m] = SweepStep(SweepLoop[m - 1][1], SweepLoop[m - 1][2])
      <3>1. SweepLoop[m - 1 + 1] = SweepStep(SweepLoop[m - 1][1], SweepLoop[m - 1][2])
        BY Zenon, <2>6, SweepLoopIs
      <3>2. QED
        BY Zenon, <2>6, <3>1
    <2>10. QED
      BY Zenon, <2>4, <2>6, <2>8, <2>9, RoundSweeps
  <1>3. Sweeping(Swept, SweepLoop[L][2], 0)
    <2>1. L \in 0..L /\ L - L = 0
      BY <1>0
    <2>2. OK(L)
      BY Zenon, <1>2, <2>1
    <2>3. QED
      BY Zenon, <2>1, <2>2 DEF Swept, L
  <1> DEFINE a == Swept
             i == SweepLoop[L][2]
  <1>4. /\ a \in Seq(Slots) /\ Unique(a) /\ i \in 1..(Len(a) + 1) /\ Len(a) - i + 1 <= 0
        /\ \A k \in 1..Len(a) : a[k] \in RangeOf(items)
        /\ \A s \in RangeOf(items) : ~src[s].deleted => s \in RangeOf(a)
        /\ \A k \in 1..(i - 1) : ~src[a[k]].deleted
    BY Zenon, <1>3 DEF Sweeping
  <1> HIDE DEF a, i
  <1>5. Len(a) \in Nat /\ i - 1 = Len(a)
    BY <1>4
  <1>6. \A k \in 1..Len(a) : ~src[a[k]].deleted
    BY Zenon, <1>4, <1>5
  <1>7. RangeOf(a) = {s \in RangeOf(items) : ~src[s].deleted}
    BY <1>4, <1>6 DEF RangeOf
  <1>8. QED
    BY Zenon, <1>4, <1>7 DEF a

-----------------------------------------------------------------------------
LEMMA AddArrayed == ASSUME SourcesConstants, IInv, Arrayed, NEW f \in Fds, Add(f) PROVE Arrayed'
  <1>0. PICK s \in Slots \ Used :
          /\ items' = Append(items, s)
          /\ src' = [src EXCEPT ![s] =
                      [fd |-> f, reg |-> adds', armed |-> TRUE, deleted |-> kernel[f] # None]]
    BY Zenon DEF Add
  <1>1. adds' = adds + 1 /\ adds + 1 # 0
    BY Facts DEF Add
  <1>2. Used' = Used \cup {s}
    <2>1. src \in [Slots -> Struct]
      BY DEF IInv, Structs
    <2>2. src'[s].reg # 0 /\ \A t \in Slots : t # s => src'[t] = src[t]
      BY <1>0, <1>1, <2>1
    <2>3. QED
      BY <1>0, <2>2 DEF Used
  <1>3. /\ items \in Seq(Slots) /\ items' \in Seq(Slots) /\ Len(items) \in Nat /\ Len(items') = Len(items) + 1
        /\ items'[Len(items) + 1] = s /\ \A i \in 1..Len(items) : items'[i] = items[i]
    BY <1>0 DEF Arrayed
  <1>4. s \notin RangeOf(items)
    BY <1>0 DEF Arrayed
  <1>5. Unique(items')
    BY <1>3, <1>4 DEF Arrayed, Unique, RangeOf
  <1>6. RangeOf(items') = RangeOf(items) \cup {s}
    <2>1. \A i \in 1..Len(items') : i = Len(items) + 1 \/ i \in 1..Len(items)
      BY <1>3
    <2>2. \A i \in 1..Len(items) : i \in 1..Len(items')
      BY <1>3
    <2>3. Len(items) + 1 \in 1..Len(items')
      BY <1>3
    <2>4. QED
      BY <1>3, <2>1, <2>2, <2>3 DEF RangeOf
  <1>7. QED
    BY <1>2, <1>3, <1>5, <1>6 DEF Arrayed, Unique, RangeOf

LEMMA NextArrayed == ASSUME SourcesConstants, IInv, Arrayed, [Next]_vars PROVE Arrayed'
  <1>1. ASSUME NEW f \in Fds, Add(f) PROVE Arrayed'
    BY Zenon, <1>1, AddArrayed
  <1>2. ASSUME items' = items, \A s \in Slots : src'[s].reg = src[s].reg PROVE Arrayed'
    BY <1>2 DEF Arrayed, Unique, RangeOf, Used
  <1>3. ASSUME NEW r, Mod(r) \/ Del(r) PROVE Arrayed'
    <2>1. /\ r \in live /\ items' = items
          /\ src' = [src EXCEPT ![Holder(r)].armed = ~@] \/ src' = [src EXCEPT ![Holder(r)].deleted = TRUE]
      BY <1>3 DEF Mod, Del
    <2>2. src \in [Slots -> Struct] /\ Holder(r) \in Slots
      BY Zenon, <2>1, HolderOf DEF IInv, Structs
    <2>3. \A s \in Slots : src'[s].reg = src[s].reg
      BY <2>1, <2>2 DEF Struct
    <2>4. QED
      BY Zenon, <1>2, <2>1, <2>3
  <1>4. CASE Sweep
    <2>0. items' = Swept /\ src' = [s \in Slots |-> IF src[s].deleted THEN Free ELSE src[s]]
      BY <1>4 DEF Sweep
    <2>1. /\ Swept \in Seq(Slots) /\ Unique(Swept)
          /\ RangeOf(Swept) = {s \in RangeOf(items) : ~src[s].deleted}
      BY Zenon, SweptIs DEF Arrayed
    <2>2. Used' = {s \in Used : ~src[s].deleted}
      BY <2>0 DEF Used, Free
    <2>3. RangeOf(items)' = Used'
      BY Zenon, <2>0, <2>1, <2>2 DEF Arrayed, RangeOf
    <2>4. Unique(items)' /\ items' \in Seq(Slots)
      BY Zenon, <2>0, <2>1 DEF Unique
    <2>5. QED
      BY Zenon, <2>3, <2>4 DEF Arrayed
  <1>5. CASE Destroy
    <2>1. items' = <<>> /\ src' = [s \in Slots |-> Free]
      BY <1>5 DEF Destroy
    <2>2. Used' = {}
      BY <2>1 DEF Used, Free
    <2>3. QED
      BY <2>1, <2>2 DEF Arrayed, Unique, RangeOf
  <1>6. ASSUME NEW f \in Fds, FdReady(f) PROVE Arrayed'
    BY <1>2, <1>6 DEF FdReady
  <1>7. CASE WakeReady \/ Run \/ CallbackReturns \/ Posted \/ Poll \/ UNCHANGED vars
    BY <1>2, <1>7 DEF WakeReady, Run, CallbackReturns, Posted, Poll, vars
  <1>8. CASE Translate \/ Dispatch
    BY <1>2, <1>8 DEF Translate, Dispatch
  <1>9. QED
    BY Zenon, <1>1, <1>3, <1>4, <1>5, <1>6, <1>7, <1>8 DEF Next

-----------------------------------------------------------------------------
(* active_handles counts the registrations that are held, the kernel       *)
(* points to their structs and to no other, and the array of sources holds *)
(* the allocated structs, each once, through refused adds, deletes from    *)
(* callbacks, sweeps and nested runs (event_run.c, event_private.c).       *)
THEOREM SourcesExact == SourcesConstants => (Spec => [](HandlesExact /\ KernelRight /\ ArrayExact))
  <1>1. SUFFICES ASSUME SourcesConstants PROVE Spec => [](HandlesExact /\ KernelRight /\ ArrayExact)
    OBVIOUS
  <1>2. Init => IInv /\ Arrayed
    <2>1. SUFFICES ASSUME Init PROVE Arrayed
      BY <1>1, InitIInv
    <2>2. items = <<>> /\ src = [s \in Slots |-> Free]
      BY <2>1 DEF Init
    <2>3. QED
      BY <2>2 DEF Arrayed, Unique, RangeOf, Used, Free
  <1>3. IInv /\ Arrayed /\ [Next]_vars => IInv' /\ Arrayed'
    BY Zenon, <1>1, NextKeeps, NextArrayed
  <1>4. IInv => HandlesExact /\ KernelRight
    <2>1. SUFFICES ASSUME IInv PROVE HandlesExact
      BY DEF IInv
    <2> DEFINE D == {src[s].reg : s \in {t \in Used : ~src[t].deleted}}
    <2>2. D \subseteq live
      BY <2>1 DEF IInv, Structs, Used
    <2>3. ASSUME NEW r \in live PROVE r \in D
      <3>1. Holder(r) \in Slots /\ src[Holder(r)].reg = r /\ ~src[Holder(r)].deleted /\ r # 0
        BY Zenon, <1>1, <2>1, HolderOf
      <3>2. QED
        BY <3>1 DEF Used
    <2>4. active = Cardinality(live)
      BY <2>1 DEF IInv, Structs
    <2>5. D = live
      BY <2>2, <2>3
    <2>6. QED
      BY Zenon, <2>4, <2>5 DEF HandlesExact
  <1>5. Arrayed => ArrayExact
    <2>1. SUFFICES ASSUME Arrayed PROVE Len(items) = Cardinality(Used)
      BY Zenon DEF Arrayed, ArrayExact
    <2>2. Len(items) \in Nat /\ items \in [1..Len(items) -> Used]
      BY <2>1 DEF Arrayed, RangeOf
    <2>3. items \in Bijection(1..Len(items), Used)
      BY <2>1, <2>2 DEF Arrayed, Unique, RangeOf, Bijection, Injection, Surjection, IsInjective
    <2>4. QED
      BY Zenon, <2>2, <2>3, FS_CountingElements DEF ExistsBijection
  <1>6. QED
    BY <1>2, <1>3, <1>4, <1>5, PTL DEF Spec

-----------------------------------------------------------------------------
(* Events of a running batch name a struct in the registration they were   *)
(* raised for.                                                             *)
Record == [slot : Slots, reg : 1..MaxAdds]
Names(e) == e \in Record /\ src[e.slot].reg = e.reg
Named(f) ==
    /\ \A i \in 1..Len(f.raw) : f.raw[i] # None => Names(f.raw[i])
    /\ \A i \in 1..Len(f.batch) : Names(f.batch[i])

Listed ==
    /\ ready \in Seq(Fds \cup {None})
    /\ \A i, j \in 1..Len(ready) : ready[i] = ready[j] => i = j
    /\ \A i \in 1..Len(ready) : ready[i] # None => kernel[ready[i]] # None

Batches ==
    /\ frames \in Seq(Frame) /\ Len(frames) <= 1
    /\ \A i \in 1..Len(frames) : Named(frames[i])

BInv == IInv /\ Listed /\ Batches

LEMMA One == \A n \in Nat : n # 0 /\ n <= 1 => n = 1
  OBVIOUS

LEMMA FrameFacts ==
    ASSUME Batches, frames # <<>>
    PROVE  /\ Depth = 1 /\ Top = frames[1] /\ Top \in Frame /\ Named(Top)
           /\ Top.raw \in Seq(Events) /\ Top.batch \in Seq(Events)
           /\ Top.pc \in {"poll", "translate", "dispatch", "end"} /\ Top.cb \in BOOLEAN
  <1>1. Depth = 1
    <2>1. frames \in Seq(Frame) /\ Len(frames) <= 1
      BY Zenon DEF Batches
    <2>2. Len(frames) \in Nat /\ Len(frames) # 0
      BY Zenon, <2>1, EmptySeq, LenProperties
    <2>3. QED
      BY Zenon, <2>1, <2>2, One DEF Depth
  <1>2. Top = frames[1] /\ Top \in Frame /\ Named(Top)
    BY <1>1 DEF Batches, Top, Depth
  <1>3. QED
    BY <1>1, <1>2 DEF Frame

(* As long as a struct that is in use keeps its registration, events go on *)
(* naming theirs.                                                          *)
LEMMA NamesStay ==
    ASSUME \A s \in Slots : src[s].reg # 0 => src'[s].reg = src[s].reg,
           NEW f \in Frame, Named(f)
    PROVE  Named(f)'
  <1>1. ASSUME NEW e, Names(e) PROVE e \in Record /\ src'[e.slot].reg = e.reg
    <2>1. e \in Record /\ e.slot \in Slots /\ e.reg # 0 /\ src[e.slot].reg = e.reg
      BY <1>1 DEF Names, Record
    <2>2. QED
      BY Zenon, <2>1
  <1>2. QED
    BY Zenon, <1>1 DEF Named, Names, Record

LEMMA FramesStay ==
    ASSUME Batches, frames' = frames, \A s \in Slots : src[s].reg # 0 => src'[s].reg = src[s].reg
    PROVE  Batches'
  <1>1. ASSUME NEW i \in 1..Len(frames) PROVE Named(frames[i])'
    <2>1. frames[i] \in Frame /\ Named(frames[i])
      BY DEF Batches
    <2>2. QED
      BY Zenon, <2>1, NamesStay
  <1>2. QED
    BY Zenon, <1>1 DEF Batches, Frame, Events

(* The innermost run goes on to another step.                              *)
LEMMA TopMoves ==
    ASSUME Batches, frames # <<>>, src' = src, NEW f \in Frame, Named(f), SetTop(f)
    PROVE  Batches'
  <1>1. Depth = 1 /\ Len(frames) = 1 /\ frames \in Seq(Frame)
    BY FrameFacts DEF Depth, Batches
  <1>2. frames' \in Seq(Frame) /\ Len(frames') = 1 /\ frames'[1] = f
    BY <1>1 DEF SetTop
  <1>3. Named(f)'
    BY Zenon, NamesStay
  <1>4. \A i \in 1..Len(frames') : frames'[i] = f
    BY <1>2
  <1>5. Len(frames') <= 1
    BY <1>2
  <1>6. ASSUME NEW g, g = f
        PROVE  /\ \A i \in 1..Len(g.raw) : g.raw[i] # None =>
                      g.raw[i] \in [slot : Slots, reg : 1..MaxAdds] /\ src'[g.raw[i].slot].reg = g.raw[i].reg
               /\ \A i \in 1..Len(g.batch) :
                      g.batch[i] \in [slot : Slots, reg : 1..MaxAdds] /\ src'[g.batch[i].slot].reg = g.batch[i].reg
    BY Zenon, <1>3, <1>6 DEF Named, Names, Record
  <1>7. \A i \in 1..Len(frames') : Named(frames[i])'
    BY Zenon, <1>4, <1>6 DEF Named, Names, Record
  <1>8. QED
    BY Zenon, <1>2, <1>5, <1>7 DEF Batches, Frame, Events

LEMMA NotReadyLists ==
    ASSUME Listed, NEW f
    PROVE  /\ NotReady(f) \in Seq(Fds \cup {None})
           /\ \A i, j \in 1..Len(NotReady(f)) : NotReady(f)[i] = NotReady(f)[j] => i = j
           /\ \A i \in 1..Len(NotReady(f)) : NotReady(f)[i] \in RangeOf(ready) /\ NotReady(f)[i] # f
  <1>1. /\ ready \in Seq(Fds \cup {None}) /\ Len(ready) \in Nat
        /\ \A i, j \in 1..Len(ready) : ready[i] = ready[j] => i = j
    BY DEF Listed
  <1>2. CASE f \notin RangeOf(ready)
    <2>1. NotReady(f) = ready
      BY <1>2 DEF NotReady
    <2>2. QED
      BY <1>1, <1>2, <2>1 DEF RangeOf
  <1>3. CASE f \in RangeOf(ready)
    <2> DEFINE k == CHOOSE i \in 1..Len(ready) : ready[i] = f
               q == [i \in 1..(Len(ready) - 1) |-> ready[IF i < k THEN i ELSE i + 1]]
    <2>1. NotReady(f) = q
      BY <1>3 DEF NotReady
    <2>2. k \in 1..Len(ready) /\ ready[k] = f
      BY <1>3 DEF RangeOf
    <2> HIDE DEF k
    <2>3. ASSUME NEW i \in 1..(Len(ready) - 1)
          PROVE  \E j \in 1..Len(ready) : j = (IF i < k THEN i ELSE i + 1) /\ j # k /\ q[i] = ready[j]
      BY <1>1, <2>2
    <2>4. q \in Seq(Fds \cup {None}) /\ Len(q) = Len(ready) - 1
      BY <1>1, <2>2, <2>3
    <2> HIDE DEF q
    <2>5. \A i \in 1..Len(q) : q[i] \in RangeOf(ready) /\ q[i] # f
      <3>1. SUFFICES ASSUME NEW i \in 1..Len(q) PROVE q[i] \in RangeOf(ready) /\ q[i] # f
        BY Zenon
      <3>2. PICK j \in 1..Len(ready) : j # k /\ q[i] = ready[j]
        BY <2>3, <2>4
      <3>3. QED
        BY <1>1, <2>2, <3>2 DEF RangeOf
    <2>6. \A i, j \in 1..Len(q) : q[i] = q[j] => i = j
      <3>1. SUFFICES ASSUME NEW i \in 1..Len(q), NEW j \in 1..Len(q), q[i] = q[j] PROVE i = j
        BY Zenon
      <3>2. (IF i < k THEN i ELSE i + 1) = (IF j < k THEN j ELSE j + 1)
        BY <1>1, <2>3, <2>4, <3>1
      <3>3. QED
        BY <2>2, <3>2, <1>1, <2>4
    <2>7. QED
      BY Zenon, <2>1, <2>4, <2>5, <2>6
  <1>4. QED
    BY <1>2, <1>3

-----------------------------------------------------------------------------
LEMMA AddNames == ASSUME SourcesConstants, BInv, NEW f \in Fds, Add(f) PROVE Listed' /\ Batches'
  <1>0. PICK s \in Slots \ Used :
          /\ src' = [src EXCEPT ![s] =
                      [fd |-> f, reg |-> adds', armed |-> TRUE, deleted |-> kernel[f] # None]]
          /\ \/ kernel' = [kernel EXCEPT ![f] = s]
             \/ UNCHANGED kernel
    BY Zenon DEF Add
  <1>1. ready' = ready /\ frames' = frames
    BY DEF Add
  <1>2. \A t \in Slots : src[t].reg # 0 => src'[t].reg = src[t].reg
    <2>1. src \in [Slots -> Struct]
      BY DEF BInv, IInv, Structs
    <2>2. QED
      BY <1>0, <2>1 DEF Used
  <1>3. Batches'
    BY Zenon, <1>1, <1>2, FramesStay DEF BInv
  <1>4. \A g \in Fds : kernel[g] # None => kernel'[g] # None
    BY <1>0 DEF BInv, IInv, Structs, SourcesConstants
  <1>5. \A i \in 1..Len(ready) : ready[i] \in Fds \cup {None}
    BY DEF BInv, Listed
  <1>6. QED
    BY <1>1, <1>3, <1>4, <1>5 DEF BInv, Listed

LEMMA ModDelNames == ASSUME SourcesConstants, BInv, NEW r, Mod(r) \/ Del(r) PROVE Listed' /\ Batches'
  <1> DEFINE h == Holder(r)
             f == src[h].fd
  <1>0. /\ r \in live /\ frames' = frames
        /\ \/ src' = [src EXCEPT ![h].armed = ~@] /\ kernel' = kernel /\ (ready' = NotReady(f) \/ ready' = ready)
           \/ /\ src' = [src EXCEPT ![h].deleted = TRUE] /\ kernel' = [kernel EXCEPT ![f] = None]
              /\ ready' = NotReady(f)
    BY DEF Mod, Del
  <1>1. h \in Slots /\ f \in Fds
    BY Zenon, <1>0, HolderOf DEF BInv
  <1> HIDE DEF h, f
  <1>2. src \in [Slots -> Struct] /\ kernel \in [Fds -> Slots \cup {None}] /\ Listed
    BY DEF BInv, IInv, Structs
  <1>3. \A t \in Slots : src'[t].reg = src[t].reg
    BY <1>0, <1>1, <1>2 DEF Struct
  <1>4. Batches'
    BY Zenon, <1>0, <1>3, FramesStay DEF BInv
  <1>5. /\ ready' \in Seq(Fds \cup {None})
        /\ \A i, j \in 1..Len(ready') : ready'[i] = ready'[j] => i = j
        /\ \A i \in 1..Len(ready') : ready'[i] \in RangeOf(ready)
    <2>1. CASE ready' = NotReady(f)
      <3>1. /\ NotReady(f) \in Seq(Fds \cup {None})
            /\ \A i, j \in 1..Len(NotReady(f)) : NotReady(f)[i] = NotReady(f)[j] => i = j
            /\ \A i \in 1..Len(NotReady(f)) : NotReady(f)[i] \in RangeOf(ready) /\ NotReady(f)[i] # f
        BY Zenon, <1>2, NotReadyLists
      <3>2. QED
        BY Zenon, <2>1, <3>1
    <2>2. CASE ready' = ready
      BY <1>2, <2>2 DEF Listed, RangeOf
    <2>3. QED
      BY Zenon, <1>0, <2>1, <2>2
  <1>6. \A g \in RangeOf(ready) : g \in Fds \cup {None} /\ (g # None => kernel[g] # None)
    BY <1>2 DEF Listed, RangeOf
  <1>7. \A i \in 1..Len(ready') : ready'[i] # None => kernel'[ready'[i]] # None
    <2>1. CASE kernel' = kernel
      BY Zenon, <1>5, <1>6, <2>1
    <2>2. CASE kernel' = [kernel EXCEPT ![f] = None] /\ ready' = NotReady(f)
      <3>1. \A i \in 1..Len(ready') : ready'[i] # f
        BY Zenon, <1>2, <2>2, NotReadyLists
      <3>2. QED
        BY <1>2, <1>5, <1>6, <2>2, <3>1
    <2>3. QED
      BY Zenon, <1>0, <2>1, <2>2
  <1>8. QED
    BY Zenon, <1>4, <1>5, <1>7 DEF Listed

(* A descriptor or the wake joins the ready list.                          *)
LEMMA ReadyNames ==
    ASSUME BInv, NEW g \in Fds \cup {None}, g \notin RangeOf(ready), g # None => kernel[g] # None,
           ready' = Append(ready, g), UNCHANGED <<src, kernel, frames>>
    PROVE  Listed' /\ Batches'
  <1>1. Batches'
    BY Zenon, FramesStay DEF BInv
  <1>2. ready \in Seq(Fds \cup {None}) /\ Listed
    BY DEF BInv, Listed
  <1>3. /\ ready' \in Seq(Fds \cup {None}) /\ Len(ready') = Len(ready) + 1 /\ Len(ready) \in Nat
        /\ ready'[Len(ready) + 1] = g /\ \A i \in 1..Len(ready) : ready'[i] = ready[i]
    BY <1>2
  <1>4. \A i \in 1..Len(ready) : ready[i] # g
    BY DEF RangeOf
  <1>5. \A i, j \in 1..Len(ready') : ready'[i] = ready'[j] => i = j
    BY <1>2, <1>3, <1>4 DEF Listed
  <1>6. \A i \in 1..Len(ready') : ready'[i] # None => kernel[ready'[i]] # None
    BY <1>2, <1>3 DEF Listed
  <1>7. QED
    BY <1>1, <1>3, <1>5, <1>6 DEF Listed

(* epoll_wait reports structs the kernel points to.                        *)
LEMMA PollNames == ASSUME SourcesConstants, BInv, Poll PROVE Listed' /\ Batches'
  <1> DEFINE n == IF Len(ready) < IoMax THEN Len(ready) ELSE IoMax
             raw == [i \in 1..n |-> Event(ready[i])]
             f == [Top EXCEPT !.pc = "translate", !.raw = raw]
  <1>0. /\ frames # <<>> /\ SetTop(f) /\ ready' = SubSeq(ready, n + 1, Len(ready))
        /\ src' = src /\ kernel' = kernel
    BY DEF Poll, LoopRuns
  <1>1. /\ ready \in Seq(Fds \cup {None}) /\ Len(ready) \in Nat /\ n \in 0..Len(ready) /\ Listed
        /\ \A i \in 1..Len(ready) : ready[i] \in Fds \cup {None}
    BY DEF BInv, Listed, SourcesConstants
  <1> HIDE DEF n
  <1>2. ASSUME NEW i \in 1..n PROVE Event(ready[i]) \in Events /\ (Event(ready[i]) # None => Names(Event(ready[i])))
    <2>1. CASE ready[i] = None
      BY <2>1 DEF Event, Events
    <2>2. CASE ready[i] # None
      <3> DEFINE g == ready[i]
      <3>1. g \in Fds /\ kernel[g] # None
        BY <1>1, <2>2 DEF Listed
      <3> HIDE DEF g
      <3>2. kernel[g] \in Slots /\ src[kernel[g]].reg \in live
        BY <3>1 DEF BInv, IInv, Structs, KernelRight
      <3>3. src[kernel[g]].reg \in 1..MaxAdds
        BY Zenon, <3>2, Facts DEF BInv
      <3>4. Event(g) = [slot |-> kernel[g], reg |-> src[kernel[g]].reg]
        BY <2>2 DEF Event, g
      <3>5. Event(g) \in Record /\ Event(g).slot = kernel[g] /\ Event(g).reg = src[kernel[g]].reg
        BY <3>2, <3>3, <3>4 DEF Record
      <3>6. QED
        BY <3>5 DEF Names, Events, Record, g
    <2>3. QED
      BY <2>1, <2>2
  <1>3. raw \in Seq(Events) /\ Len(raw) = n /\ \A i \in 1..n : raw[i] = Event(ready[i])
    BY <1>1, <1>2
  <1> HIDE DEF raw
  <1>4. Top \in Frame /\ Named(Top) /\ Batches
    BY Zenon, <1>0, FrameFacts DEF BInv
  <1>5. f \in Frame /\ f.raw = raw /\ f.batch = Top.batch
    BY Zenon, <1>3, <1>4 DEF Frame
  <1> HIDE DEF f
  <1>6. Named(f)
    BY Zenon, <1>2, <1>3, <1>4, <1>5 DEF Named
  <1>7. Batches'
    BY Zenon, <1>0, <1>4, <1>5, <1>6, TopMoves
  <1>8. /\ ready' \in Seq(Fds \cup {None}) /\ Len(ready') = Len(ready) - n
        /\ \A i \in 1..Len(ready') : i + n \in 1..Len(ready) /\ ready'[i] = ready[i + n]
    <2>1. \A i \in (n + 1)..Len(ready) : ready[i] \in Fds \cup {None}
      BY <1>1
    <2>2. /\ ready' \in Seq(Fds \cup {None})
          /\ Len(ready') = (IF n + 1 <= Len(ready) THEN Len(ready) - (n + 1) + 1 ELSE 0)
          /\ \A i \in 1..(Len(ready) - (n + 1) + 1) : ready'[i] = ready[n + 1 + i - 1]
      BY <1>0, <1>1, <2>1, SubSeqProperties
    <2>3. QED
      BY <1>1, <2>2
  <1>9. Listed'
    <2>1. \A i, j \in 1..Len(ready') : ready'[i] = ready'[j] => i = j
      <3>1. SUFFICES ASSUME NEW i \in 1..Len(ready'), NEW j \in 1..Len(ready'), ready'[i] = ready'[j] PROVE i = j
        BY Zenon
      <3>2. i + n = j + n
        BY <1>1, <1>8, <3>1 DEF Listed
      <3>3. QED
        BY <1>1, <3>2
    <2>2. \A i \in 1..Len(ready') : ready'[i] # None => kernel[ready'[i]] # None
      BY <1>1, <1>8 DEF Listed
    <2>3. QED
      BY Zenon, <1>0, <1>8, <2>1, <2>2 DEF Listed
  <1>10. QED
    BY <1>7, <1>9

LEMMA ListedStays == ASSUME Listed, UNCHANGED <<ready, kernel>> PROVE Listed'
  BY DEF Listed

(* What is left of a list of events once its head is taken.                *)
LEMMA TailEvents ==
    ASSUME NEW q \in Seq(Events), q # <<>>
    PROVE  /\ Head(q) = q[1] /\ q[1] \in Events /\ 1 \in 1..Len(q) /\ Tail(q) \in Seq(Events)
           /\ \A i \in 1..Len(Tail(q)) : i + 1 \in 1..Len(q) /\ Tail(q)[i] = q[i + 1]
  <1> DEFINE E == Events
  <1>1. q \in Seq(E) /\ q # <<>>
    OBVIOUS
  <1> HIDE DEF E
  <1>2. /\ Head(q) = q[1] /\ q[1] \in E /\ 1 \in 1..Len(q) /\ Tail(q) \in Seq(E)
        /\ \A i \in 1..Len(Tail(q)) : i + 1 \in 1..Len(q) /\ Tail(q)[i] = q[i + 1]
    BY <1>1
  <1>3. QED
    BY Zenon, <1>2 DEF E

LEMMA TranslateNames == ASSUME BInv, Translate PROVE Listed' /\ Batches'
  <1>0. frames # <<>> /\ UNCHANGED <<src, kernel, ready>> /\ Batches /\ Listed'
    BY ListedStays DEF Translate, LoopRuns, BInv
  <1>1. /\ Top \in Frame /\ Named(Top) /\ Top.raw \in Seq(Events) /\ Top.batch \in Seq(Events)
    BY Zenon, <1>0, FrameFacts
  <1>2. CASE Top.raw = <<>>
    <2> DEFINE f == [Top EXCEPT !.pc = "dispatch"]
    <2>1. SetTop(f)
      BY <1>2 DEF Translate
    <2>2. f \in Frame /\ f.raw = Top.raw /\ f.batch = Top.batch
      BY <1>1 DEF Frame
    <2> HIDE DEF f
    <2>3. Named(f)
      BY Zenon, <1>1, <2>2 DEF Named
    <2>4. QED
      BY Zenon, <1>0, <2>1, <2>2, <2>3, TopMoves
  <1>3. CASE Top.raw # <<>>
    <2> DEFINE e == Head(Top.raw)
               b == [Top EXCEPT !.raw = Tail(@)]
               f == CASE e = None -> [b EXCEPT !.cb = TRUE]
                      [] e # None /\ src[e.slot].deleted -> b
                      [] OTHER -> [b EXCEPT !.batch = Append(@, e)]
    <2>1. SetTop(f)
      BY <1>3 DEF Translate
    <2>2. /\ e = Top.raw[1] /\ e \in Events /\ 1 \in 1..Len(Top.raw) /\ Tail(Top.raw) \in Seq(Events)
          /\ \A i \in 1..Len(Tail(Top.raw)) : i + 1 \in 1..Len(Top.raw) /\ Tail(Top.raw)[i] = Top.raw[i + 1]
      BY Zenon, <1>1, <1>3, TailEvents
    <2>3. e # None => Names(e)
      BY Zenon, <1>1, <2>2 DEF Named
    <2>4. \A i \in 1..Len(Tail(Top.raw)) : Tail(Top.raw)[i] # None => Names(Tail(Top.raw)[i])
      BY Zenon, <1>1, <2>2 DEF Named
    <2>5. Append(Top.batch, e) \in Seq(Events)
      BY <1>1, <2>2
    <2>6. \/ f = [b EXCEPT !.cb = TRUE] \/ f = b
          \/ e # None /\ f = [b EXCEPT !.batch = Append(@, e)]
      OBVIOUS
    <2>7. b \in Frame /\ b.raw = Tail(Top.raw) /\ b.batch = Top.batch
      BY Zenon, <1>1, <2>2 DEF Frame
    <2> HIDE DEF e, b, f
    <2>8. /\ f \in Frame /\ f.raw = Tail(Top.raw)
          /\ f.batch = Top.batch \/ (e # None /\ f.batch = Append(Top.batch, e))
      <3>1. CASE f = [b EXCEPT !.cb = TRUE]
        BY Zenon, <2>7, <3>1 DEF Frame
      <3>2. CASE f = b
        BY Zenon, <2>7, <3>2
      <3>3. CASE e # None /\ f = [b EXCEPT !.batch = Append(@, e)]
        <4>1. f = [b EXCEPT !.batch = Append(Top.batch, e)]
          BY Zenon, <2>7, <3>3
        <4>2. QED
          BY Zenon, <2>5, <2>7, <3>3, <4>1 DEF Frame
      <3>4. QED
        BY Zenon, <2>6, <3>1, <3>2, <3>3
    <2>9. \A i \in 1..Len(f.batch) : Names(f.batch[i])
      <3>1. CASE f.batch = Top.batch
        BY Zenon, <1>1, <3>1 DEF Named
      <3>2. CASE e # None /\ f.batch = Append(Top.batch, e)
        <4>1. \A i \in 1..Len(Top.batch) : Names(Top.batch[i])
          BY Zenon, <1>1 DEF Named
        <4>2. \A i \in 1..Len(f.batch) : f.batch[i] = e \/ \E j \in 1..Len(Top.batch) : f.batch[i] = Top.batch[j]
          BY <1>1, <2>2, <3>2
        <4>3. QED
          BY Zenon, <2>3, <3>2, <4>1, <4>2
      <3>3. QED
        BY <2>8, <3>1, <3>2
    <2>10. Named(f)
      BY Zenon, <2>4, <2>8, <2>9 DEF Named
    <2>11. QED
      BY Zenon, <1>0, <2>1, <2>8, <2>10, TopMoves
  <1>4. QED
    BY <1>2, <1>3

(* The steps of the innermost run that only take an event off the batch,   *)
(* or begin or end a callback.                                             *)
LEMMA DispatchNames == ASSUME BInv, Dispatch \/ Posted \/ CallbackReturns PROVE Listed' /\ Batches'
  <1>0. frames # <<>> /\ UNCHANGED <<src, kernel, ready>> /\ Batches /\ Listed'
    BY ListedStays DEF Dispatch, Posted, CallbackReturns, LoopRuns, BInv
  <1>1. /\ Top \in Frame /\ Named(Top) /\ Top.raw \in Seq(Events) /\ Top.batch \in Seq(Events)
    BY Zenon, <1>0, FrameFacts
  <1>2. ASSUME NEW f \in Frame, f.raw = Top.raw, SetTop(f),
               f.batch = Top.batch \/ (Top.batch # <<>> /\ f.batch = Tail(Top.batch))
        PROVE  Batches'
    <2>1. CASE f.batch = Top.batch
      <3>1. Named(f)
        BY Zenon, <1>1, <1>2, <2>1 DEF Named
      <3>2. QED
        BY Zenon, <1>0, <1>2, <3>1, TopMoves
    <2>2. CASE Top.batch # <<>> /\ f.batch = Tail(Top.batch)
      <3>1. \A i \in 1..Len(Tail(Top.batch)) : i + 1 \in 1..Len(Top.batch) /\ Tail(Top.batch)[i] = Top.batch[i + 1]
        BY Zenon, <1>1, <2>2, TailEvents
      <3>2. \A i \in 1..Len(Tail(Top.batch)) : Names(Tail(Top.batch)[i])
        BY Zenon, <1>1, <3>1 DEF Named
      <3>3. Named(f)
        BY Zenon, <1>1, <1>2, <2>2, <3>2 DEF Named
      <3>4. QED
        BY Zenon, <1>0, <1>2, <3>3, TopMoves
    <2>3. QED
      BY <1>2, <2>1, <2>2
  <1>3. CASE CallbackReturns
    <2>1. SetTop([Top EXCEPT !.cb = FALSE])
      BY <1>3 DEF CallbackReturns
    <2>2. [Top EXCEPT !.cb = FALSE] \in Frame /\ [Top EXCEPT !.cb = FALSE].raw = Top.raw
          /\ [Top EXCEPT !.cb = FALSE].batch = Top.batch
      BY Zenon, <1>1 DEF Frame
    <2>3. QED
      BY Zenon, <1>0, <1>2, <2>1, <2>2
  <1>4. CASE Posted
    <2>1. SetTop([Top EXCEPT !.cb = TRUE])
      BY <1>4 DEF Posted
    <2>2. [Top EXCEPT !.cb = TRUE] \in Frame /\ [Top EXCEPT !.cb = TRUE].raw = Top.raw
          /\ [Top EXCEPT !.cb = TRUE].batch = Top.batch
      BY Zenon, <1>1 DEF Frame
    <2>3. QED
      BY Zenon, <1>0, <1>2, <2>1, <2>2
  <1>5. CASE Dispatch /\ Top.batch = <<>>
    <2>1. SetTop([Top EXCEPT !.pc = "end"])
      BY <1>5 DEF Dispatch
    <2>2. [Top EXCEPT !.pc = "end"] \in Frame /\ [Top EXCEPT !.pc = "end"].raw = Top.raw
          /\ [Top EXCEPT !.pc = "end"].batch = Top.batch
      BY <1>1 DEF Frame
    <2>3. QED
      BY Zenon, <1>0, <1>2, <2>1, <2>2
  <1>6. CASE Dispatch /\ Top.batch # <<>>
    <2> DEFINE c == ~src[Head(Top.batch).slot].deleted
               f == [Top EXCEPT !.batch = Tail(@), !.cb = c]
    <2>1. SetTop(f)
      BY <1>6 DEF Dispatch
    <2>2. c \in BOOLEAN /\ Tail(Top.batch) \in Seq(Events)
      BY Zenon, <1>1, <1>6, TailEvents
    <2> HIDE DEF c
    <2>3. f \in Frame /\ f.raw = Top.raw /\ f.batch = Tail(Top.batch)
      BY Zenon, <1>1, <2>2 DEF Frame
    <2>4. QED
      BY Zenon, <1>0, <1>2, <1>6, <2>1, <2>3
  <1>7. QED
    BY <1>3, <1>4, <1>5, <1>6

LEMMA NewRunNames == ASSUME frames' = <<NewFrame>> PROVE Batches'
  <1>1. NewFrame \in Frame /\ NewFrame.raw = <<>> /\ NewFrame.batch = <<>>
    BY DEF NewFrame, Frame
  <1>2. frames' \in Seq(Frame) /\ Len(frames') = 1 /\ frames'[1] = NewFrame
    BY <1>1
  <1>3. QED
    BY <1>1, <1>2 DEF Batches, Named, Frame, Events

(* With one run at a time a sweep happens when no event is left.           *)
LEMMA SweepNames == ASSUME SourcesConstants, MaxDepth = 1, BInv, Sweep PROVE Listed' /\ Batches'
  <1>0. /\ frames # <<>> /\ UNCHANGED <<kernel, ready>> /\ Listed'
        /\ frames' = SubSeq(frames, 1, Depth - 1) \/ frames' = <<NewFrame>>
    BY ListedStays DEF Sweep, LoopRuns, BInv
  <1>1. Depth = 1
    BY Zenon, <1>0, FrameFacts DEF BInv
  <1>2. CASE frames' = <<NewFrame>>
    BY Zenon, <1>0, <1>2, NewRunNames
  <1>3. CASE frames' = SubSeq(frames, 1, Depth - 1)
    <2>1. frames' = <<>>
      BY <1>1, <1>3, SubSeqEmpty
    <2>2. QED
      BY <1>0, <2>1 DEF Batches
  <1>4. QED
    BY <1>0, <1>2, <1>3

LEMMA NextNames ==
    ASSUME SourcesConstants, MaxDepth = 1, BInv, [Next]_vars
    PROVE  BInv'
  <1>1. IInv' /\ Listed /\ Batches
    BY Zenon, NextKeeps DEF BInv
  <1> SUFFICES Listed' /\ Batches'
    BY Zenon, <1>1 DEF BInv
  <1>2. ASSUME NEW f \in Fds, Add(f) PROVE Listed' /\ Batches'
    BY Zenon, <1>2, AddNames
  <1>3. ASSUME NEW r \in 1..MaxAdds, Mod(r) \/ Del(r) PROVE Listed' /\ Batches'
    BY Zenon, <1>3, ModDelNames
  <1>4. ASSUME NEW f \in Fds, FdReady(f) PROVE Listed' /\ Batches'
    <2>1. kernel[f] # None /\ f \notin RangeOf(ready) /\ ready' = Append(ready, f) /\ UNCHANGED <<src, kernel, frames>>
      BY <1>4 DEF FdReady
    <2>2. QED
      BY Zenon, <2>1, ReadyNames
  <1>5. CASE WakeReady
    <2>1. None \notin RangeOf(ready) /\ ready' = Append(ready, None) /\ UNCHANGED <<src, kernel, frames>>
      BY <1>5 DEF WakeReady
    <2>2. QED
      BY Zenon, <2>1, ReadyNames
  <1>6. CASE Run
    <2>1. frames = <<>> /\ frames' = <<NewFrame>> /\ UNCHANGED <<ready, kernel>>
      <3>1. Depth < 1 /\ frames' = Append(frames, NewFrame) /\ UNCHANGED <<ready, kernel>> /\ frames \in Seq(Frame)
        BY <1>1, <1>6 DEF Run, Batches
      <3>2. frames = <<>>
        BY <3>1 DEF Depth
      <3>3. QED
        BY <3>1, <3>2
    <2>2. Batches'
      BY Zenon, <2>1, NewRunNames
    <2>3. QED
      BY Zenon, <1>1, <2>1, <2>2, ListedStays
  <1>7. CASE Destroy
    <2>1. frames = <<>> /\ frames' = <<>> /\ ready' = <<>>
      BY <1>7 DEF Destroy
    <2>2. QED
      BY <2>1 DEF Batches, Listed
  <1>8. CASE Dispatch \/ Posted \/ CallbackReturns
    BY Zenon, <1>8, DispatchNames
  <1>9. CASE Poll \/ Translate \/ Sweep
    BY Zenon, <1>9, PollNames, TranslateNames, SweepNames
  <1>10. CASE UNCHANGED vars
    <2>1. UNCHANGED <<src, kernel, ready, frames>>
      BY <1>10 DEF vars
    <2>2. QED
      BY Zenon, <1>1, <2>1, ListedStays, FramesStay
  <1>11. QED
    BY Zenon, <1>1, <1>2, <1>3, <1>4, <1>5, <1>6, <1>7, <1>8, <1>9, <1>10 DEF Next

LEMMA InitBInv == ASSUME SourcesConstants, Init PROVE BInv
  <1>1. IInv
    BY Zenon, InitIInv
  <1>2. Listed /\ Batches
    BY DEF Init, Listed, Batches
  <1>3. QED
    BY Zenon, <1>1, <1>2 DEF BInv

-----------------------------------------------------------------------------
(* When no callback runs the loop again, the structs that                  *)
(* source_array_remove leaves to the sweep outlive every batch that refers *)
(* to them, and keep the registration the event was raised for.            *)
THEOREM BatchLiveAlways == SourcesConstants /\ MaxDepth = 1 => (Spec => []BatchLive)
  <1>1. SUFFICES ASSUME SourcesConstants, MaxDepth = 1 PROVE Spec => []BatchLive
    OBVIOUS
  <1>2. Init => BInv
    BY <1>1, InitBInv
  <1>3. BInv /\ [Next]_vars => BInv'
    BY <1>1, NextNames
  <1>4. BInv => BatchLive
    BY DEF BInv, Batches, Named, Names, BatchLive, Pending, RangeOf, Depth
  <1>5. QED
    BY <1>2, <1>3, <1>4, PTL DEF Spec

(* A callback is called only for an event of its own registration, and     *)
(* never after xEventDel of it, whatever earlier callbacks of the batch    *)
(* added, changed or deleted (loop_dispatch, event_run.c).                 *)
THEOREM CallsTheLivingAlways == SourcesConstants /\ MaxDepth = 1 => (Spec => CallsTheLiving)
  <1>1. SUFFICES ASSUME SourcesConstants, MaxDepth = 1 PROVE Spec => CallsTheLiving
    OBVIOUS
  <1> DEFINE Called(i) == /\ Len(frames') = Depth /\ ~frames[i].cb /\ frames'[i].cb
                          /\ frames[i].pc = "dispatch" /\ frames[i].batch # <<>>
             Alive(i) == /\ Head(frames[i].batch).reg \in live
                         /\ src[Head(frames[i].batch).slot].reg = Head(frames[i].batch).reg
  <1>2. BInv /\ [Next]_vars => [\A i \in 1..Depth : Called(i) => Alive(i)]_vars
    <2>1. SUFFICES ASSUME BInv, [Next]_vars, NEW i \in 1..Depth, Called(i) PROVE Alive(i)
      BY Zenon
    <2>2. Len(frames') = Depth /\ ~frames[i].cb /\ frames'[i].cb /\ frames[i].pc = "dispatch" /\ frames[i].batch # <<>>
      BY Zenon, <2>1
    <2>3. frames # <<>> /\ frames \in Seq(Frame)
      BY <2>1 DEF BInv, Batches, Depth
    <2>4. i = 1 /\ Depth = 1 /\ Top = frames[i] /\ Top \in Frame /\ Named(Top) /\ Top.batch \in Seq(Events)
      BY <2>1, <2>3, FrameFacts DEF BInv
    <2>5. Dispatch
      <3>1. frames' # frames
        BY Zenon, <2>2
      <3>2. ~CallbackReturns /\ ~Posted /\ ~Poll /\ ~Translate /\ ~Sweep /\ ~Destroy
        BY <2>2, <2>3, <2>4 DEF CallbackReturns, Posted, Poll, Translate, Sweep, Destroy
      <3>3. ~Run
        BY <2>2, <2>3, <2>4 DEF Run, Depth
      <3>4. \A f \in Fds : ~FdReady(f) /\ ~Add(f)
        BY <3>1 DEF FdReady, Add
      <3>5. \A r : ~Mod(r) /\ ~Del(r)
        BY <3>1 DEF Mod, Del
      <3>6. ~WakeReady /\ ~UNCHANGED vars
        BY <3>1 DEF WakeReady, vars
      <3>7. QED
        BY Zenon, <2>1, <3>2, <3>3, <3>4, <3>5, <3>6 DEF Next
    <2> DEFINE e == Head(Top.batch)
               c == ~src[e.slot].deleted
    <2>6. SetTop([Top EXCEPT !.batch = Tail(@), !.cb = c])
      BY <2>2, <2>4, <2>5 DEF Dispatch
    <2>7. Names(e)
      BY Zenon, <2>2, <2>4, TailEvents DEF Named
    <2>8. c
      <3> HIDE DEF c
      <3>1. [Top EXCEPT !.batch = Tail(@), !.cb = c].cb = c
        BY <2>4 DEF Frame
      <3>2. frames'[1] = [Top EXCEPT !.batch = Tail(@), !.cb = c]
        BY <2>3, <2>4, <2>6 DEF SetTop, Depth
      <3>3. QED
        BY Zenon, <2>2, <2>4, <3>1, <3>2
    <2>9. e.slot \in Slots /\ e.reg # 0 /\ src[e.slot].reg = e.reg
      BY <2>7 DEF Names, Record
    <2>10. src[e.slot].reg \in live
      BY Zenon, <2>1, <2>8, <2>9 DEF BInv, IInv, Structs
    <2>11. QED
      BY Zenon, <2>4, <2>9, <2>10
  <1>3. Init => BInv
    BY <1>1, InitBInv
  <1>4. BInv /\ [Next]_vars => BInv'
    BY <1>1, NextNames
  <1>5. QED
    BY <1>2, <1>3, <1>4, PTL DEF Spec, CallsTheLiving

=============================================================================
