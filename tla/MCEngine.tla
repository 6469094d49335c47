--------------------------------- MODULE MCEngine ---------------------------------
(***************************************************************************)
(* Small instances of the engine.  They start with a program already       *)
(* loaded, a state the loader reaches (the registers of reset, the words   *)
(* at the front of the store), so that the checks spend their states on    *)
(* the executor and the queues.                                            *)
(***************************************************************************)
EXTENDS EngineProperties

CONSTANT Programs      \* the images a loaded instance may start with

LoadedInit == \E p \in Programs : Loaded(p)

LoadedSpec == LoadedInit /\ [][Next]_vars
FairLoadedSpec == LoadedSpec /\ WF_vars(Next)

\* Pins: host controls and lanes.
Controls(l, r, w, s) == [load |-> l, run |-> r, rewind |-> w, lanes |-> s]
Held(s) == Controls(FALSE, TRUE, FALSE, s)        \* RUN high
Strobe(s) == Controls(TRUE, TRUE, FALSE, s)       \* transmit byte
CommandPins == Controls(TRUE, TRUE, TRUE, {})

NoPrograms == {<< >>}
RunAndLane == {Quiet, Held({}), Held({0})}

\* Words.
DriveW(h, e, v) == [op |-> "DRIVE", hold |-> h, oe |-> e, value |-> v]
PatchW(h, m, e, v) == [op |-> "PATCH", hold |-> h, mask |-> m, oe |-> e, value |-> v]
WaitW(n, l, k) == [op |-> "WAIT", lane |-> n, level |-> l, limit |-> k]
BranchW(n, l, t) == [op |-> "BRANCH", lane |-> n, level |-> l, target |-> t]
To(o, t) == [op |-> o, target |-> t]
LoadW(b, c) == [op |-> "LOAD", byte |-> b, count |-> c]
OutW(n, l, d) == [op |-> "OUT", lane |-> n, lsb |-> l, drain |-> d]
InW(n, l) == [op |-> "IN", lane |-> n, lsb |-> l]
CheckW(n) == [op |-> "CHECK_TX", lane |-> n]
StreamW(c) == [op |-> "STREAM", count |-> c]
CaptureW(m) == [op |-> "CAPTURE", mask |-> m]
Plain(o) == [op |-> o]

\* Every opcode, each with the operands that take its different paths.
ControlWords ==
  {DriveW(2, {0}, {0}), PatchW(1, {1}, {1}, {}), WaitW(0, TRUE, 2), WaitW(0, FALSE, 0),
   WaitW(7, TRUE, 1), BranchW(0, TRUE, 0), BranchW(5, TRUE, 0), To("JUMP", 0),
   To("JUMP", 2), Plain("SAMPLE"), Plain("HALT"), Plain("TRAP")}
ShiftWords ==
  {LoadW(129, 2), LoadW(2, 0), OutW(0, TRUE, FALSE), OutW(0, FALSE, TRUE),
   OutW(5, TRUE, TRUE), InW(0, TRUE), InW(0, FALSE), InW(5, FALSE), To("DJNZ", 1),
   CheckW(0), CheckW(5), WaitW(0, TRUE, 2)}
StreamWords ==
  {StreamW(0), StreamW(2), Plain("PULL"), Plain("PUSH"), To("BYTE_LOOP", 1),
   To("LAST_BYTE", 0), CaptureW({0}), Plain("ILLEGAL"), To("JUMP", 1)}

UpTo(n, S) == UNION {[1 .. k -> S] : k \in 1 .. n}

InstructionPrograms ==
  UpTo(3, ControlWords) \cup UpTo(3, ShiftWords) \cup UpTo(3, StreamWords)
InstructionWords == ControlWords \cup ShiftWords \cup StreamWords
InstructionPins == RunAndLane \cup {Strobe({0})}

\* Words that take time or hold, for liveness.
HoldingWords ==
  {StreamW(1), Plain("PULL"), Plain("PUSH"), WaitW(0, TRUE, 3), WaitW(1, TRUE, 0),
   DriveW(2, {0}, {0}), To("JUMP", 0), LoadW(1, 2), To("DJNZ", 1), To("LAST_BYTE", 1)}
HoldingPrograms == UpTo(3, HoldingWords)
HoldingPins == {Quiet, Held({}), Strobe({0})}

\* Transmit and receive together: each byte pulled is answered with a bit of
\* lane 0, so that neighbouring bytes of the receive queue may differ.
EchoProgram == <<StreamW(1), Plain("PULL"), InW(0, TRUE), Plain("PUSH"), To("JUMP", 1)>>
EchoWords == {EchoProgram[i] : i \in 1 .. 5}
EchoPrograms == {EchoProgram}

\* Both edges of lane 0 are captured while the program waits.
WatchProgram == <<StreamW(1), CaptureW({0}), WaitW(1, TRUE, 0), Plain("HALT")>>
WatchWords == {WatchProgram[i] : i \in 1 .. 4}
WatchPrograms == {WatchProgram}

EchoPins == {Quiet, Held({}), Strobe({0}), CommandPins}
WatchPins == {Quiet, Held({}), Held({0}), CommandPins}
=================================================================================
