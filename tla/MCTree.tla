---------------------------------- MODULE MCTree ----------------------------------
(***************************************************************************)
(* Trees over four probes in two rows of different families: every map of  *)
(* one receiver with two tick phases and two with one, and reports that    *)
(* are right, a clock off, doubled, cut short or missing.                  *)
(***************************************************************************)
EXTENDS ProbeTree

TreeGrid == <<[family |-> "P1", row |-> 1], [family |-> "P1", row |-> 1],
              [family |-> "P2", row |-> 2], [family |-> "P2", row |-> 2]>>

\* The verdicts of the map; a receiver may also give the one that is in none.
Verdicts == {"OK", "FRAME"}
Signatures == [DOMAIN TreeGrid -> Verdicts]

\* b and c are alike: one order of their signatures is enough.
Order(sig) == Cardinality({q \in DOMAIN TreeGrid : sig[q] = "OK"})
TreeMaps ==
  {{[label |-> "a", sig |-> s[1]], [label |-> "a", sig |-> s[2]],
    [label |-> "b", sig |-> s[3]], [label |-> "c", sig |-> s[4]]} :
     s \in {t \in [1 .. 4 -> Signatures] : Order(t[3]) <= Order(t[4])}}
TreeFields == {DOMAIN TreeGrid, {1, 3, 4}}

Pulse(at, width) == <<[time |-> at, lanes |-> {0, 1}], [time |-> at + width, lanes |-> {0}]>>
TreeReports ==
  {Pulse(9, width) : width \in {4, 12, 13, 16}}
  \cup {Pulse(9, 4) \o Pulse(30, 4), SubSeq(Pulse(9, 4), 1, 1), << >>}
=====================================================================================
