------------------------------ MODULE EngineContract ------------------------------
(***************************************************************************)
(* What the engine promises around the instructions: a program image that  *)
(* is edited only while the engine is idle or being released and is frozen *)
(* while it executes, an execution that starts only on a non-empty image,  *)
(* ends in a halt, a fault or an abort and is never resumed, and pins that *)
(* are driven by nothing but an executing program.                         *)
(***************************************************************************)
EXTENDS Integers, Sequences

CONSTANTS Capacity, Word, Pins

VARIABLES image, phase, driven

contractVars == <<image, phase, driven>>

Phases == {"idle", "running", "halted", "faulted"}

Init == image = << >> /\ phase = "idle" /\ driven = {}

Edits ==
  \/ image' = image
  \/ image' = << >>
  \/ Len(image) < Capacity /\ \E w \in Word : image' = Append(image, w)

\* Reset, deselection or RUN low, in any phase.
Release ==
  /\ phase' = "idle" /\ driven' = {}
  /\ Edits

Begin ==
  /\ phase = "idle" /\ image # << >>
  /\ phase' = "running" /\ driven' = {}
  /\ UNCHANGED image

Refuse ==
  /\ phase = "idle"
  /\ phase' = "faulted" /\ driven' = {}
  /\ UNCHANGED image

Work ==
  /\ phase = "running" /\ phase' = "running"
  /\ driven' \in SUBSET Pins
  /\ UNCHANGED image

Finish ==
  /\ phase = "running" /\ phase' \in {"halted", "faulted"}
  /\ driven' = {}
  /\ UNCHANGED image

Next == Release \/ Begin \/ Refuse \/ Work \/ Finish

Spec == Init /\ [][Next]_contractVars
=================================================================================
