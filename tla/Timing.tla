---------------------------------- MODULE Timing ----------------------------------
(***************************************************************************)
(* The engine with a stopwatch beside it, to say what a program may count  *)
(* on in clocks.  The history variables watch Next and restrict nothing.   *)
(***************************************************************************)
EXTENDS EngineProperties

VARIABLES
  lease,    \* clocks the last DRIVE or PATCH asked for; 0 once it is over
  age,      \* clocks since that instruction
  misses    \* mismatches the limited WAIT being executed has seen in a row

timingVars == <<vars, lease, age, misses>>

Times == issue /\ instruction.op \in {"DRIVE", "PATCH"}
Misses == /\ issue /\ instruction.op = "WAIT" /\ instruction.limit # 0
          /\ ~BadLane /\ ~Sees(instruction)

Watch ==
  /\ lease' = IF ~running' THEN 0
              ELSE IF Times THEN instruction.hold + 1
              ELSE IF issue THEN 0 ELSE lease
  /\ age' = IF lease' = 0 THEN 0 ELSE IF Times THEN 1 ELSE age + 1
  /\ misses' = IF Misses /\ running' THEN misses + 1 ELSE 0

TimingInit == Init /\ lease = 0 /\ age = 0 /\ misses = 0
TimingNext == Next /\ Watch
TimingSpec == TimingInit /\ [][TimingNext]_timingVars

(***************************************************************************)
(* The instruction after a DRIVE or PATCH of duration N issues exactly N   *)
(* clocks later, neither early nor late, and the pins keep their values    *)
(* until then (docs/info.md; engine.v:225-226 against 234-239, 308-315).   *)
(***************************************************************************)
HoldsExactly ==
  Executing /\ lease # 0 =>
    /\ age <= lease
    /\ (age = lease) <=> (delay_left = 0)
PinsHold ==
  [][lease # 0 /\ age < lease /\ running' =>
       UNCHANGED <<out_value, out_enable>>]_timingVars

(***************************************************************************)
(* A WAIT with limit N faults on its Nth mismatch in a row and on no other *)
(* clock, and a match on that very clock succeeds, whatever an earlier     *)
(* WAIT or an earlier run counted (docs/info.md; engine.v:249-254).        *)
(***************************************************************************)
FaultsOnNthMiss ==
  [][running /\ (running' \/ fault') /\ issue /\ instruction.op = "WAIT" /\ ~BadLane =>
       (fault' <=> Misses /\ misses + 1 = instruction.limit)]_timingVars
=================================================================================
