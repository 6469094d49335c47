--------------------------------- MODULE MCLoader ---------------------------------
(***************************************************************************)
(* The loader from reset, with the history of RUN: a store of two words,   *)
(* filled with a word that stops, one that spins and one that drives a     *)
(* lane, under every combination of the controls.                          *)
(***************************************************************************)
EXTENDS RunHistory

AnyControl ==
  {[load |-> l, run |-> r, rewind |-> w, lanes |-> {}] : l, r, w \in BOOLEAN}

LoaderWords ==
  {[op |-> "HALT"], [op |-> "JUMP", target |-> 0],
   [op |-> "DRIVE", hold |-> 0, oe |-> {0}, value |-> {0}]}
=================================================================================
