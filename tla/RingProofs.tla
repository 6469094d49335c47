------------------------------- MODULE RingProofs -------------------------------
(***************************************************************************)
(* The queue of RingFifo is a bounded first-in first-out queue: the ring   *)
(* keeps its pointers in agreement, and what it holds changes as the       *)
(* abstract sequence does.                                                 *)
(***************************************************************************)
EXTENDS RingFifo, RingLemmas, SequenceTheorems

\* The inductive invariant: the ring is well formed and coherent.
QueueInv == TypeOK /\ PointersAgree

LEMMA QueueInvHolds == Spec => []QueueInv
<1>1. Init => QueueInv
  BY DepthAssumption DEF Init, QueueInv, TypeOK, PointersAgree, RingOf, Slots, Coherent,
     Full, Ahead
<1>2. QueueInv /\ [Next]_q => QueueInv'
  <2> SUFFICES ASSUME QueueInv, [Next]_q PROVE QueueInv'
    OBVIOUS
  <2>1. CASE Clock
    <3> PICK pushing \in BOOLEAN, popping \in BOOLEAN, item \in Item :
          q' = Edge(q, Push(pushing, popping), Pop(popping), item)
      BY <2>1 DEF Clock
    <3>1. Push(pushing, popping) \in BOOLEAN /\ Pop(popping) \in BOOLEAN
          /\ (Push(pushing, popping) => ~Full(q)) /\ (Pop(popping) => ~Empty(q))
      BY DEF Push, Pop
    <3>2. q' \in RingOf(Item)
      BY <3>1, EdgeType DEF QueueInv, TypeOK
    <3>3. Coherent(q')
      BY <3>1, EdgeCoherent DEF QueueInv, TypeOK, PointersAgree
    <3> QED
      BY <3>2, <3>3 DEF QueueInv, TypeOK, PointersAgree
  <2>2. CASE Clear
    BY <2>2, ClearedRing DEF Clear, QueueInv, TypeOK, PointersAgree
  <2>3. CASE UNCHANGED q
    BY <2>3 DEF QueueInv, TypeOK, PointersAgree
  <2> QED
    BY <2>1, <2>2, <2>3 DEF Next
<1> QED
  BY <1>1, <1>2, PTL DEF Spec

(***************************************************************************)
(* The pointers of a queue never disagree with its count, for every depth  *)
(* and every order of pushes, pops and clears (engine.v:101-124).          *)
(***************************************************************************)
THEOREM PointersAlwaysAgree == Spec => []PointersAgree
BY QueueInvHolds, PTL DEF QueueInv

\* The sequence a ring stands for.
LEMMA ContentsSeq ==
  ASSUME NEW S, NEW r \in RingOf(S)
  PROVE  Contents(r) \in Seq(S) /\ Len(Contents(r)) = r.used
<1>1. r.used \in Nat /\ r.used <= Depth /\ Depth \in Nat /\ r.mem \in [Slots -> S]
  BY DepthAssumption DEF RingOf
<1>2. \A k \in 1 .. r.used : r.mem[Ahead(r, k - 1)] \in S
  <2> TAKE k \in 1 .. r.used
  <2>1. k - 1 \in 0 .. Depth - 1
    BY <1>1
  <2>2. Ahead(r, k - 1) \in Slots
    BY <2>1, AheadIsSlot
  <2> QED
    BY <1>1, <2>2
<1>3. Contents(r) \in [1 .. r.used -> S]
  BY <1>2 DEF Contents
<1>4. Contents(r) \in Seq(S)
  BY <1>1, <1>3
<1>5. DOMAIN Contents(r) = 1 .. r.used
  BY DEF Contents
<1>6. Len(Contents(r)) = r.used
  BY <1>1, <1>4, <1>5, LenProperties
<1> QED
  BY <1>4, <1>6

LEMMA PushAppends ==
  ASSUME NEW S, NEW r \in RingOf(S), NEW item \in S, Coherent(r), ~Full(r)
  PROVE  Contents(Edge(r, TRUE, FALSE, item)) = Append(Contents(r), item)
<1> DEFINE e == Edge(r, TRUE, FALSE, item)
<1>1. /\ r.rd \in Nat /\ r.rd < Depth /\ r.wr \in Slots /\ r.mem \in [Slots -> S]
      /\ r.used \in Nat /\ r.used < Depth /\ Depth \in Nat
  BY DepthAssumption DEF RingOf, Slots, Full
<1>2. e.rd = r.rd /\ e.used = r.used + 1 /\ e.mem = [r.mem EXCEPT ![r.wr] = item]
  BY DEF Edge
<1>3. \A k \in 0 .. Depth - 1 : Ahead(e, k) = Ahead(r, k) /\ Ahead(r, k) \in Slots
  BY <1>2, AheadIsSlot DEF Ahead
<1> HIDE DEF e
<1>4. Ahead(r, r.used) = r.wr
  BY DEF Coherent, Full
<1>5. \A k \in 0 .. r.used - 1 : e.mem[Ahead(e, k)] = r.mem[Ahead(r, k)]
  <2> TAKE k \in 0 .. r.used - 1
  <2>1. Ahead(r, k) # r.wr
    BY <1>1, <1>4, AheadInjective
  <2>2. Ahead(e, k) = Ahead(r, k) /\ Ahead(r, k) \in Slots
    BY <1>1, <1>3
  <2> QED
    BY <2>1, <2>2, <1>1, <1>2
<1>6. e.mem[Ahead(e, r.used)] = item
  <2>1. Ahead(e, r.used) = r.wr
    BY <1>1, <1>3, <1>4
  <2> QED
    BY <2>1, <1>1, <1>2
<1>7. Contents(e) = [k \in 1 .. r.used + 1 |-> IF k <= r.used THEN r.mem[Ahead(r, k - 1)] ELSE item]
  <2>1. Contents(e) = [k \in 1 .. r.used + 1 |-> e.mem[Ahead(e, k - 1)]]
    BY <1>2 DEF Contents
  <2>2. ASSUME NEW k \in 1 .. r.used + 1
        PROVE  e.mem[Ahead(e, k - 1)] = IF k <= r.used THEN r.mem[Ahead(r, k - 1)] ELSE item
    <3>1. CASE k <= r.used
      <4>1. k - 1 \in 0 .. r.used - 1
        BY <1>1, <3>1
      <4> QED
        BY <4>1, <3>1, <1>5
    <3>2. CASE ~(k <= r.used)
      <4>1. k - 1 = r.used
        BY <1>1, <3>2
      <4> QED
        BY <4>1, <3>2, <1>6
    <3> QED
      BY <3>1, <3>2
  <2> QED
    BY <2>1, <2>2
<1>8. Contents(r) \in Seq(S) /\ Len(Contents(r)) = r.used
  BY ContentsSeq
<1>9. Append(Contents(r), item) =
        [k \in 1 .. r.used + 1 |-> IF k <= r.used THEN r.mem[Ahead(r, k - 1)] ELSE item]
  BY <1>1, <1>8 DEF Contents
<1> QED
  BY <1>7, <1>9 DEF e

LEMMA PopRemoves ==
  ASSUME NEW S, NEW r \in RingOf(S), NEW item, ~Empty(r)
  PROVE  Contents(Edge(r, FALSE, TRUE, item)) = Tail(Contents(r))
<1> DEFINE e == Edge(r, FALSE, TRUE, item)
<1>1. /\ r.rd \in Nat /\ r.rd < Depth /\ r.used \in Nat /\ r.used <= Depth
      /\ Depth \in Nat /\ r.used > 0
  BY DepthAssumption DEF RingOf, Slots, Empty
<1>2. e.rd = Succ(r.rd) /\ e.used = r.used - 1 /\ e.mem = r.mem
  BY DEF Edge
<1> HIDE DEF e
<1>3. \A k \in 0 .. r.used - 2 : Ahead(e, k) = Ahead(r, k + 1)
  BY <1>1, <1>2 DEF Ahead, Succ
<1>4. Contents(e) = [k \in 1 .. r.used - 1 |-> r.mem[Ahead(r, k)]]
  <2>1. Contents(e) = [k \in 1 .. r.used - 1 |-> e.mem[Ahead(e, k - 1)]]
    BY <1>2 DEF Contents
  <2>2. ASSUME NEW k \in 1 .. r.used - 1
        PROVE  e.mem[Ahead(e, k - 1)] = r.mem[Ahead(r, k)]
    <3>1. k - 1 \in 0 .. r.used - 2 /\ (k - 1) + 1 = k
      BY <1>1
    <3> QED
      BY <3>1, <1>2, <1>3
  <2> QED
    BY <2>1, <2>2
<1>5. Contents(r) \in Seq(S) /\ Len(Contents(r)) = r.used
  BY ContentsSeq
<1>6. Contents(r) # << >>
  BY <1>1, <1>5
<1>7. /\ Tail(Contents(r)) \in Seq(S) /\ Len(Tail(Contents(r))) = r.used - 1
      /\ \A k \in 1 .. r.used - 1 : Tail(Contents(r))[k] = Contents(r)[k + 1]
  BY <1>5, <1>6, HeadTailProperties
<1>8. \A k \in 1 .. r.used - 1 : Contents(r)[k + 1] = r.mem[Ahead(r, k)]
  <2> TAKE k \in 1 .. r.used - 1
  <2>1. k + 1 \in 1 .. r.used /\ (k + 1) - 1 = k
    BY <1>1
  <2> QED
    BY <2>1 DEF Contents
<1>9. e \in RingOf(S)
  BY EdgeType DEF e
<1>10. Contents(e) \in Seq(S) /\ Len(Contents(e)) = r.used - 1
  BY <1>2, <1>9, ContentsSeq
<1>11. \A k \in 1 .. r.used - 1 : Contents(e)[k] = Tail(Contents(r))[k]
  BY <1>4, <1>7, <1>8
<1>12. Contents(e) = Tail(Contents(r))
  BY <1>7, <1>10, <1>11, SeqEqual
<1> QED
  BY <1>12 DEF e

\* A pop and a push on one clock do what a pop and then a push would do.
LEMMA BothIsPopThenPush ==
  ASSUME NEW S, NEW r \in RingOf(S), NEW item \in S, Coherent(r), ~Full(r), ~Empty(r)
  PROVE  Contents(Edge(r, TRUE, TRUE, item)) = Append(Tail(Contents(r)), item)
<1> DEFINE p == Edge(r, FALSE, TRUE, item)
<1>1. p \in RingOf(S) /\ Coherent(p) /\ Contents(p) = Tail(Contents(r))
  BY EdgeType, EdgeCoherent, PopRemoves
<1>2. p.used = r.used - 1 /\ p.rd = Succ(r.rd) /\ p.wr = r.wr /\ p.mem = r.mem
  BY DEF Edge
<1>3. r.used \in 0 .. Depth
  BY DEF RingOf
<1>4. ~Full(p)
  <2> HIDE DEF p
  <2> QED
    BY <1>2, <1>3, DepthAssumption DEF Full
<1>5. Edge(p, TRUE, FALSE, item) = Edge(r, TRUE, TRUE, item)
  <2> HIDE DEF p
  <2>1. p.used + 1 = r.used
    BY <1>2, <1>3, DepthAssumption
  <2> QED
    BY <2>1, <1>2 DEF Edge
<1>6. Contents(Edge(p, TRUE, FALSE, item)) = Append(Contents(p), item)
  <2> HIDE DEF p
  <2> QED
    BY <1>1, <1>4, PushAppends
<1> QED
  BY <1>1, <1>5, <1>6

\* A clock without a push or a pop changes nothing.
LEMMA NoRequestNoChange ==
  ASSUME NEW S, NEW r \in RingOf(S), NEW item
  PROVE  Contents(Edge(r, FALSE, FALSE, item)) = Contents(r)
BY DEF Edge, Contents, Ahead

(***************************************************************************)
(* A queue of the engine is a bounded first-in first-out queue: whatever   *)
(* its ends ask for and however its pointers wrap, no item is lost,        *)
(* repeated, reordered or made up (engine.v:76-77 and 101-124).            *)
(***************************************************************************)
THEOREM RingImplementsFifo == Spec => ImplementsFifo
<1>1. Init => Fifo!Init
  <2> SUFFICES ASSUME Init PROVE Contents(q) = << >>
    BY DEF Fifo!Init
  <2>1. q \in RingOf(Item) /\ q.used = 0
    BY DepthAssumption DEF Init, RingOf, Slots
  <2> QED
    BY <2>1, ContentsSeq
<1>2. QueueInv /\ [Next]_q => [Fifo!Next]_(Contents(q))
  <2> SUFFICES ASSUME QueueInv, [Next]_q, Contents(q') # Contents(q)
               PROVE  Fifo!Next
    BY DEF Fifo!Next, Contents
  <2>0. q \in RingOf(Item) /\ Coherent(q) /\ q.used \in 0 .. Depth
    BY DEF QueueInv, TypeOK, PointersAgree, RingOf
  <2>1. Contents(q) \in Seq(Item) /\ Len(Contents(q)) = q.used
    BY <2>0, ContentsSeq
  <2>2. CASE Clock
    <3> PICK pushing \in BOOLEAN, popping \in BOOLEAN, item \in Item :
          q' = Edge(q, Push(pushing, popping), Pop(popping), item)
      BY <2>2 DEF Clock
    <3> DEFINE push == Push(pushing, popping)
               pop  == Pop(popping)
    <3>1. (push => Len(Contents(q)) < Depth) /\ (pop => Contents(q) # << >>)
          /\ (push => ~Full(q)) /\ (pop => ~Empty(q)) /\ push \in BOOLEAN /\ pop \in BOOLEAN
      BY <2>0, <2>1, DepthAssumption DEF Push, Pop, Full, Empty
    <3> HIDE DEF push, pop
    <3>2. CASE push /\ pop
      <4>1. Contents(q') = Append(Tail(Contents(q)), item)
        BY <2>0, <3>1, <3>2, BothIsPopThenPush DEF push, pop
      <4> QED
        BY <4>1, <3>1, <3>2 DEF Fifo!Next, Fifo!GetAndPut, Contents
    <3>3. CASE push /\ ~pop
      <4>1. Contents(q') = Append(Contents(q), item)
        BY <2>0, <3>1, <3>3, PushAppends DEF push, pop
      <4> QED
        BY <4>1, <3>1, <3>3 DEF Fifo!Next, Fifo!Put, Contents
    <3>4. CASE ~push /\ pop
      <4>1. Contents(q') = Tail(Contents(q))
        BY <2>0, <3>1, <3>4, PopRemoves DEF push, pop
      <4> QED
        BY <4>1, <3>1, <3>4 DEF Fifo!Next, Fifo!Get, Contents
    <3>5. CASE ~push /\ ~pop
      BY <2>0, <3>1, <3>5, NoRequestNoChange DEF push, pop
    <3> QED
      BY <3>1, <3>2, <3>3, <3>4, <3>5
  <2>3. CASE Clear
    <3>1. q' \in RingOf(Item) /\ q'.used = 0
      BY <2>0, <2>3, ClearedRing DEF Clear, Empty
    <3>2. Contents(q') = << >>
      BY <3>1, ContentsSeq
    <3> QED
      BY <3>2 DEF Fifo!Next, Fifo!Clear, Contents
  <2>4. CASE UNCHANGED q
    BY <2>4
  <2> QED
    BY <2>2, <2>3, <2>4 DEF Next
<1> QED
  BY <1>1, <1>2, QueueInvHolds, PTL DEF Spec, ImplementsFifo, Fifo!Spec
=================================================================================
