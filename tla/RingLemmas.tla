------------------------------- MODULE RingLemmas -------------------------------
(***************************************************************************)
(* What a clock edge does to a ring, for every depth: the facts that the   *)
(* proofs about one queue and about the engine's three queues both cite.   *)
(***************************************************************************)
EXTENDS Ring, TLAPS

\* A slot counted from the read pointer is a slot.
LEMMA AheadIsSlot ==
  ASSUME NEW S, NEW r \in RingOf(S), NEW k \in 0 .. Depth - 1
  PROVE  Ahead(r, k) \in Slots
BY DepthAssumption DEF RingOf, Ahead, Slots

\* Two places less than Depth apart are different slots.
LEMMA AheadInjective ==
  ASSUME NEW S, NEW r \in RingOf(S), NEW k \in 0 .. Depth - 1, NEW m \in 0 .. Depth - 1,
         Ahead(r, k) = Ahead(r, m)
  PROVE  k = m
BY DepthAssumption DEF RingOf, Ahead, Slots

\* An edge keeps a ring a ring: the count stays within the depth.
LEMMA EdgeType ==
  ASSUME NEW S, NEW r \in RingOf(S), NEW push \in BOOLEAN, NEW pop \in BOOLEAN, NEW item,
         push => item \in S /\ ~Full(r), pop => ~Empty(r)
  PROVE  Edge(r, push, pop, item) \in RingOf(S)
BY DepthAssumption DEF RingOf, Edge, Slots, Succ, Full, Empty

\* An edge keeps the pointers and the count in agreement.
LEMMA EdgeCoherent ==
  ASSUME NEW S, NEW r \in RingOf(S), NEW push \in BOOLEAN, NEW pop \in BOOLEAN, NEW item,
         push => ~Full(r), pop => ~Empty(r), Coherent(r)
  PROVE  Coherent(Edge(r, push, pop, item))
<1> DEFINE e == Edge(r, push, pop, item)
<1>1. /\ r.rd \in Nat /\ r.rd < Depth /\ r.wr \in Nat /\ r.wr < Depth
      /\ r.used \in Nat /\ r.used <= Depth /\ Depth \in Nat /\ Depth > 0
  BY DepthAssumption DEF RingOf, Slots
<1>2. /\ e.rd = IF pop THEN Succ(r.rd) ELSE r.rd
      /\ e.wr = IF push THEN Succ(r.wr) ELSE r.wr
      /\ e.used = IF push /\ ~pop THEN r.used + 1
                  ELSE IF pop /\ ~push THEN r.used - 1 ELSE r.used
  BY DEF Edge
<1>3. push => r.used # Depth
  BY DEF Full
<1>4. pop => r.used # 0
  BY DEF Empty
<1>5. r.wr = IF r.used = Depth THEN r.rd
             ELSE IF r.rd + r.used < Depth THEN r.rd + r.used ELSE r.rd + r.used - Depth
  BY DEF Coherent, Full, Ahead
<1> SUFFICES e.wr = IF e.used = Depth THEN e.rd
                    ELSE IF e.rd + e.used < Depth THEN e.rd + e.used
                         ELSE e.rd + e.used - Depth
  BY DEF Coherent, Full, Ahead
<1> HIDE DEF e
<1> QED
  <2>1. CASE push /\ pop
    BY <2>1, <1>1, <1>2, <1>3, <1>4, <1>5 DEF Succ
  <2>2. CASE push /\ ~pop
    BY <2>2, <1>1, <1>2, <1>3, <1>5 DEF Succ
  <2>3. CASE ~push /\ pop
    BY <2>3, <1>1, <1>2, <1>4, <1>5 DEF Succ
  <2>4. CASE ~push /\ ~pop
    BY <2>4, <1>1, <1>2, <1>5
  <2> QED
    BY <2>1, <2>2, <2>3, <2>4

\* A cleared ring is an empty, coherent ring.
LEMMA ClearedRing ==
  ASSUME NEW S, NEW r \in RingOf(S)
  PROVE  /\ Cleared(r) \in RingOf(S)
         /\ Coherent(Cleared(r)) /\ Empty(Cleared(r))
         /\ \A H : Holds(Cleared(r), H)
<1> DEFINE c == Cleared(r)
<1>1. c.rd = 0 /\ c.wr = 0 /\ c.used = 0 /\ c.mem = r.mem /\ c \in RingOf(S)
  <2>1. r.mem \in [Slots -> S] /\ 0 \in Slots /\ 0 \in 0 .. Depth
    BY DepthAssumption DEF RingOf, Slots
  <2>2. c = [mem |-> r.mem, rd |-> 0, wr |-> 0, used |-> 0]
    BY DEF Cleared, RingOf
  <2> QED
    BY <2>1, <2>2 DEF RingOf
<1> HIDE DEF c
<1>2. Coherent(c) /\ Empty(c)
  BY <1>1, DepthAssumption DEF Coherent, Full, Empty, Ahead
<1>3. \A H : Holds(c, H)
  BY <1>1 DEF Holds
<1> QED
  BY <1>1, <1>2, <1>3 DEF c

\* An edge fills only with what is pushed.
LEMMA EdgeHolds ==
  ASSUME NEW S, NEW r \in RingOf(S), NEW push \in BOOLEAN, NEW pop \in BOOLEAN, NEW item,
         push => ~Full(r), pop => ~Empty(r), Coherent(r),
         NEW H, Holds(r, H), push => item \in H
  PROVE  Holds(Edge(r, push, pop, item), H)
<1> DEFINE e == Edge(r, push, pop, item)
<1> SUFFICES ASSUME NEW k \in 0 .. e.used - 1
             PROVE  e.mem[Ahead(e, k)] \in H
  BY DEF Holds
<1>1. e.used \in Nat /\ k \in Nat /\ k < Depth /\ e.rd \in Slots
  BY DepthAssumption DEF RingOf, Edge, Slots, Succ, Full, Empty
<1> DEFINE j == IF pop THEN k + 1 ELSE k
<1>2. Ahead(e, k) = IF j < Depth THEN Ahead(r, j) ELSE r.rd
  BY <1>1, DepthAssumption DEF RingOf, Edge, Slots, Succ, Full, Empty, Ahead
<1>3. CASE j < r.used
  <2>1. Ahead(e, k) = Ahead(r, j) /\ j \in 0 .. r.used - 1 /\ Ahead(r, j) \in Slots
    BY <1>1, <1>2, <1>3, DepthAssumption, AheadIsSlot DEF RingOf
  <2>2. r.mem[Ahead(r, j)] \in H
    BY <2>1 DEF Holds
  <2>3. push => r.wr # Ahead(r, j)
    BY <2>1, DepthAssumption DEF RingOf, Slots, Coherent, Full, Ahead
  <2> QED
    BY <2>1, <2>2, <2>3 DEF Edge, RingOf
<1>4. CASE ~(j < r.used)
  <2>1. push /\ j = r.used /\ j < Depth
    BY <1>1, <1>4, DepthAssumption DEF Edge, RingOf, Full, Empty
  <2>2. Ahead(e, k) = r.wr
    BY <2>1, <1>2 DEF Coherent, Full
  <2> QED
    BY <2>1, <2>2 DEF Edge, RingOf
<1> QED
  BY <1>3, <1>4, <1>1 DEF RingOf

\* A ring that nobody pops keeps its front.
LEMMA FrontStays ==
  ASSUME NEW S, NEW r \in RingOf(S), NEW push \in BOOLEAN, NEW item,
         push => ~Full(r), Coherent(r), ~Empty(r)
  PROVE  /\ ~Empty(Edge(r, push, FALSE, item))
         /\ Front(Edge(r, push, FALSE, item)) = Front(r)
<1>1. ~Empty(Edge(r, push, FALSE, item))
  BY DepthAssumption DEF RingOf, Edge, Empty
<1>2. push => r.wr # r.rd
  BY DepthAssumption DEF RingOf, Slots, Coherent, Full, Empty, Ahead
<1> QED
  BY <1>1, <1>2 DEF RingOf, Edge, Front

\* Only a push fills a ring.
LEMMA FilledByPush ==
  ASSUME NEW S, NEW r \in RingOf(S), NEW push \in BOOLEAN, NEW pop \in BOOLEAN, NEW item,
         ~Full(r), Full(Edge(r, push, pop, item))
  PROVE  push
BY DepthAssumption DEF RingOf, Edge, Full

\* What is pushed becomes the last item, also when the front leaves.
LEMMA PushIsLast ==
  ASSUME NEW S, NEW r \in RingOf(S), NEW pop \in BOOLEAN, NEW item,
         ~Full(r), pop => ~Empty(r), Coherent(r)
  PROVE  LET e == Edge(r, TRUE, pop, item)
         IN  ~Empty(e) /\ e.mem[Ahead(e, e.used - 1)] = item
<1> DEFINE e == Edge(r, TRUE, pop, item)
<1>1. ~Empty(e)
  BY DepthAssumption DEF RingOf, Edge, Empty
<1>2. e.mem = [r.mem EXCEPT ![r.wr] = item] /\ r.wr \in DOMAIN r.mem
  BY DEF Edge, RingOf
<1>3. Ahead(e, e.used - 1) = r.wr
  BY DepthAssumption DEF RingOf, Slots, Edge, Succ, Coherent, Full, Empty, Ahead
<1> QED
  BY <1>1, <1>2, <1>3

\* The front of a ring that holds something is one of the things it holds.
LEMMA FrontHeld ==
  ASSUME NEW S, NEW r \in RingOf(S), NEW H, Holds(r, H), ~Empty(r)
  PROVE  Front(r) \in H
<1>1. 0 \in 0 .. r.used - 1 /\ Ahead(r, 0) = r.rd
  BY DepthAssumption DEF RingOf, Ahead, Slots, Empty
<1> QED
  BY <1>1 DEF Holds, Front
=================================================================================
