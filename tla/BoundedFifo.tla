------------------------------ MODULE BoundedFifo ------------------------------
(***************************************************************************)
(* What each queue of the engine promises its two ends: items come out in  *)
(* the order they went in, none is lost, repeated or made up, and a full   *)
(* queue takes nothing even on a clock that also removes an item.          *)
(***************************************************************************)
EXTENDS Integers, Sequences

CONSTANTS Capacity, Item

VARIABLE items

Init == items = << >>

Put(item) ==
  /\ Len(items) < Capacity
  /\ items' = Append(items, item)

Get ==
  /\ items # << >>
  /\ items' = Tail(items)

\* Both ends in one clock: the queue must already hold an item and have room.
GetAndPut(item) ==
  /\ items # << >>
  /\ Len(items) < Capacity
  /\ items' = Append(Tail(items), item)

Clear == items' = << >>

Next ==
  \/ \E item \in Item : Put(item) \/ GetAndPut(item)
  \/ Get
  \/ Clear

Spec == Init /\ [][Next]_items
=================================================================================
