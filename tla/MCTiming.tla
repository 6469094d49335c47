--------------------------------- MODULE MCTiming ---------------------------------
(***************************************************************************)
(* The timed engine on every short program over DRIVE, PATCH, WAIT and the *)
(* instructions that lead back to them.                                    *)
(***************************************************************************)
EXTENDS MCEngine, Timing

TimingWords ==
  {DriveW(0, {0}, {0}), DriveW(2, {1}, {}), PatchW(1, {0}, {0}, {}),
   WaitW(0, TRUE, 3), WaitW(0, FALSE, 1), WaitW(0, TRUE, 0), To("JUMP", 0),
   BranchW(0, TRUE, 0)}

TimingPrograms == UpTo(3, TimingWords)

LoadedTimingSpec ==
  /\ LoadedInit /\ lease = 0 /\ age = 0 /\ misses = 0
  /\ [][TimingNext]_timingVars
=================================================================================
