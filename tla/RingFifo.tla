-------------------------------- MODULE RingFifo --------------------------------
(***************************************************************************)
(* One queue of engine.v on its own: on every clock a producer may ask to  *)
(* push and a consumer may ask to pop, both requests are judged against    *)
(* the count before the clock, or the queue is cleared because the engine  *)
(* is reset, deselected or not running.                                    *)
(***************************************************************************)
EXTENDS Ring

CONSTANT Item

VARIABLE q

\* The slots hold anything at power-up: they have no reset.
Init == q \in [mem : [Slots -> Item], rd : {0}, wr : {0}, used : {0}]

PushUnlessStillFull(wanted, popping) == wanted /\ (~Full(q) \/ popping)

\* tx_push, rx_push and capture_push: room counted before this clock.
Push(wanted, popping) == wanted /\ ~Full(q)

\* tx_pop, rx_pop and capture_pop.
Pop(wanted) == wanted /\ ~Empty(q)

Clock ==
  \E pushing, popping \in BOOLEAN, item \in Item :
    q' = Edge(q, Push(pushing, popping), Pop(popping), item)

Clear == q' = Cleared(q)

Next == Clock \/ Clear

Spec == Init /\ [][Next]_q

TypeOK == q \in RingOf(Item)

(***************************************************************************)
(* The write pointer is always the read pointer plus the count, around the *)
(* ring: three registers updated by separate statements of engine.v:101-124*)
(* never disagree, whatever pushes and pops fall on the same clock.        *)
(***************************************************************************)
PointersAgree == Coherent(q)

(***************************************************************************)
(* The ring behaves as a bounded first-in first-out queue: engine.v:76-77  *)
(* and 101-124 never reorder, drop or invent an item.                      *)
(***************************************************************************)
Fifo == INSTANCE BoundedFifo WITH Capacity <- Depth, items <- Contents(q)
ImplementsFifo == Fifo!Spec
=================================================================================
