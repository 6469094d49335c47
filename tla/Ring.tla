---------------------------------- MODULE Ring ----------------------------------
(***************************************************************************)
(* The circular buffer engine.v keeps three times: transmit bytes, receive *)
(* bytes and captured edges.  A ring is a record of the slots, the read    *)
(* and write pointers, which wrap like the code's 3-bit registers, and the *)
(* count of occupied slots.  This module only holds operators, so that the *)
(* engine and the stand-alone queue of RingFifo share them.                *)
(***************************************************************************)
EXTENDS Integers, Sequences

CONSTANT Depth        \* slots in a queue: 8 in the source

ASSUME DepthAssumption == Depth \in Nat \ {0}

Slots == 0 .. Depth - 1

RingOf(Item) ==
  [mem : [Slots -> Item], rd : Slots, wr : Slots, used : 0 .. Depth]

\* The slot after i: a pointer is exactly wide enough to wrap at Depth.
Succ(i) == IF i = Depth - 1 THEN 0 ELSE i + 1

\* The slot k places after the read pointer.
Ahead(q, k) == IF q.rd + k < Depth THEN q.rd + k ELSE q.rd + k - Depth

Full(q)  == q.used = Depth
Empty(q) == q.used = 0
Front(q) == q.mem[q.rd]

\* Clearing a queue moves its pointers and leaves the slots alone.
Cleared(q) == [mem |-> q.mem, rd |-> 0, wr |-> 0, used |-> 0]

EdgeCountsBoth(q, push, pop, item) ==
  [mem  |-> IF push THEN [q.mem EXCEPT ![q.wr] = item] ELSE q.mem,
   rd   |-> IF pop THEN Succ(q.rd) ELSE q.rd,
   wr   |-> IF push THEN Succ(q.wr) ELSE q.wr,
   used |-> IF push THEN q.used + 1 ELSE IF pop THEN q.used - 1 ELSE q.used]

\* A plausible slip: the item is stored after the pointer has moved.
EdgeStoresLate(q, push, pop, item) ==
  [mem  |-> IF push THEN [q.mem EXCEPT ![Succ(q.wr)] = item] ELSE q.mem,
   rd   |-> IF pop THEN Succ(q.rd) ELSE q.rd,
   wr   |-> IF push THEN Succ(q.wr) ELSE q.wr,
   used |-> IF push /\ ~pop THEN q.used + 1
            ELSE IF pop /\ ~push THEN q.used - 1 ELSE q.used]

\* One clock edge, for a push and a pop already decided on the old count.
Edge(q, push, pop, item) ==
  [mem  |-> IF push THEN [q.mem EXCEPT ![q.wr] = item] ELSE q.mem,
   rd   |-> IF pop THEN Succ(q.rd) ELSE q.rd,
   wr   |-> IF push THEN Succ(q.wr) ELSE q.wr,
   used |-> IF push /\ ~pop THEN q.used + 1
            ELSE IF pop /\ ~push THEN q.used - 1 ELSE q.used]

\* What a ring holds, oldest item first.
Contents(q) == [k \in 1 .. q.used |-> q.mem[Ahead(q, k - 1)]]

\* Every occupied slot holds an element of S.
Holds(q, S) == \A k \in 0 .. q.used - 1 : q.mem[Ahead(q, k)] \in S

\* The two pointers and the count tell the same story.
Coherent(q) == q.wr = IF Full(q) THEN q.rd ELSE Ahead(q, q.used)
=================================================================================
