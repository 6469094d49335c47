-------------------------------- MODULE RunHistory --------------------------------
(***************************************************************************)
(* The engine with the history of its RUN pin beside it.  The registers    *)
(* that carry RUN into the engine could forget it, run_prev above all; the *)
(* history follows the pin itself and restricts nothing.                   *)
(***************************************************************************)
EXTENDS EngineProperties

VARIABLE risen    \* clocks that have seen the last rise of the RUN pin; 0 once it is due

runVars == <<vars, risen>>

RunRises == input_meta'.run /\ ~input_meta.run

\* A reset forgets a rise that is still in the synchronizer.
WatchRun ==
  risen' = IF RunRises THEN 1 ELSE IF risen = 1 /\ ~ResetEdge THEN 2 ELSE 0

RunInit == Init /\ risen = 0
RunNext == Next /\ WatchRun
RunSpec == RunInit /\ [][RunNext]_runVars

(***************************************************************************)
(* One rise of the RUN pin decides once.  Two clocks after it the engine   *)
(* starts the program or refuses it, unless it is deselected or reset on   *)
(* that very clock, and then the rise is lost: selecting the design again  *)
(* with RUN still high neither starts nor restarts anything, and neither   *)
(* does the end of a program, whatever deselections, resets and toggles    *)
(* came before (docs/info.md:73, 97-99; engine.v:164-167, 192-223).        *)
(***************************************************************************)
Begins == ~running /\ running'
Refuses == ~running /\ ~halted /\ halted'
EachRiseDecidesOnce ==
  [][/\ Begins \/ Refuses => risen = 2
     /\ risen = 2 => Begins \/ Refuses \/ Deselected \/ ResetEdge]_runVars
=================================================================================
