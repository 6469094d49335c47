-------------------------------- MODULE HostProofs --------------------------------
(***************************************************************************)
(* What a caller of the Host helper relies on, for every program, every    *)
(* queue depth, every length of the LOAD phases and everything the peers   *)
(* put on the lanes.                                                       *)
(*                                                                         *)
(* The argument has three layers.  Wires says where in the synchronizer an *)
(* exchange is, so that its one strobe falls on the clock StrobeTick.      *)
(* Pages and Strobed say what that strobe did.  Seen says that what the    *)
(* host has read is still true when it acts on it, although the program    *)
(* and the pins have moved on since; Streaming, which makes the rest       *)
(* meaningful, is what ready() has established.                            *)
(***************************************************************************)
EXTENDS HostProperties, EngineProofs

\* The clock of an exchange on which the engine sees the rising edge of LOAD.
StrobeTick == PhaseClocks + 2
Before == tick <= StrobeTick

Acting  == {"data", "pop", "pop_event"}
Reading == {"flags", "count", "recount", "peek", "events", "word"}

\* RUN seen high twice has started the program or refused it.
Started == run_prev => running \/ halted

\* The control points of each call.
Walk ==
  /\ call \in {"none", "send", "receive", "captures"}
  /\ call = "none" => point = "none"
  /\ call = "send" => point \in ReadyPoints \cup {"flags", "data"}
  /\ call = "receive" =>
       point \in ReadyPoints \cup {"count", "flags", "peek", "pop", "recount"}
  /\ call = "captures" => point \in ReadyPoints \cup {"events", "word", "pop_event"}
  /\ tick \in 0 .. LastTick /\ (Idle => tick = 0)
  /\ ~Idle => outcome = "none"

\* What the pins showed one, two and three clocks ago.
High(t) == t \in PhaseClocks .. 2 * PhaseClocks - 1
Wires ==
  /\ input_meta.load <=> High(tick - 1)
  /\ input_sync.load <=> High(tick - 2)
  /\ load_prev <=> High(tick - 3)
  /\ tick >= 1 => input_meta.run /\ (input_meta.rewind <=> CommandAt)
  /\ tick >= 2 => input_sync.run /\ (input_sync.rewind <=> CommandAt)
  /\ tick >= 3 => run_prev
  /\ (run_prev => run) /\ (run => input_meta.run)

\* A legacy program that has halted with a small receive byte gets past the
\* first half of ready(), but not past the second.
Streaming ==
  /\ ~Idle /\ point \notin ReadyPoints => stream_enabled
  /\ point = "ready_flags" => stream_enabled \/ (halted /\ rx_shift <= 8)

\* The page an exchange has selected is the one it reads.
Pages == point \in Reading /\ ~Before => read_page = ByteAt

\* The strobe of an exchange acts on a queue if and only if it is meant to.
Strobed ==
  ~Idle /\ tick > 0 => strobes = IF Before THEN 0 ELSE Bit(point \in Acting)

\* The four bytes in which an edge is read.
WordByte(e, k) ==
  IF k = 1 THEN Number(e.lanes) ELSE IF k = 2 THEN e.time % 256
  ELSE IF k = 3 THEN (e.time \div 256) % 256 ELSE e.time \div 65536

\* What the host has seen in a queue is still there.
Fetched ==
  /\ held \in Seq(Nat)
  /\ \A k \in 1 .. Len(held) : held[k] = WordByte(Front(capture), k)
Remaining == IF point = "pop_event" /\ ~Before THEN left - 1 ELSE left
Seen ==
  /\ point = "data" /\ Before => ~Full(tx)
  /\ point = "peek" => ~Empty(rx)
  /\ point = "pop" /\ Before => ~Empty(rx) /\ held = <<Front(rx)>>
  /\ point = "recount" => halted
  /\ point \in {"word", "pop_event"} =>
       left \in Nat \ {0} /\ capture.used >= Remaining
  /\ point = "word" => Len(held) \in 0 .. 3 /\ Fetched
  /\ point = "pop_event" /\ Before => Len(held) = 4 /\ Fetched

EngineInv == Inv /\ EndSeenWithRun /\ Started
WalkInv == Walk /\ Wires
LinkInv == EngineInv /\ WalkInv /\ Streaming /\ Pages /\ Strobed /\ Seen

(***************************************************************************)
(* One clock of the engine under the host's pins.                          *)
(***************************************************************************)

\* With RUN driven high and the design selected, no reset and no deselection.
LEMMA PortClock ==
  ASSUME NEW pins, NEW byte, pins.run, EngineClock(pins, byte)
  PROVE  /\ Synchronize /\ Loader /\ input_meta' = pins
         /\ Stopped \/ Start \/ (Steps /\ Serve)
<1>1. input_meta' = pins /\ Next
  BY DEF EngineClock
<1>2. ~ResetEdge
  BY <1>1 DEF ResetEdge, Quiet
<1>3. ~Deselected
  BY SelectedAssumption DEF Deselected
<1> QED
  BY <1>1, <1>2, <1>3, ClockCases DEF Stopped, Start

LEMMA EngineStep ==
  ASSUME NEW pins, NEW byte, pins.run, EngineClock(pins, byte), EngineInv
  PROVE  EngineInv'
<1>1. Inv' /\ EndSeenWithRun'
  BY NextInv, EndSeenStep DEF EngineInv, EngineClock
<1>2. run_prev' = run
  BY PortClock DEF Synchronize
<1>3. Started'
  <2>1. CASE Stopped
    BY <2>1, <1>2 DEF Stopped, Started
  <2>2. CASE Start
    BY <2>2 DEF Start, Started
  <2>3. CASE Steps /\ running
    BY <2>3, EndsHalted DEF Started
  <2>4. CASE Steps /\ ~running
    BY <2>4, EndedStays DEF Halted, statusVars, EngineInv, Started
  <2> QED
    BY <2>1, <2>2, <2>3, <2>4, PortClock
<1> QED
  BY <1>1, <1>3 DEF EngineInv

\* A clock of a run: what has ended stays so, and streaming stays on.
LEMMA RunClock ==
  ASSUME NEW pins, NEW byte, pins.run, EngineClock(pins, byte), EngineInv,
         run_prev => run, stream_enabled \/ halted
  PROVE  /\ ServeByte(byte)
         /\ stream_enabled => stream_enabled'
         /\ halted => halted' /\ stream_enabled' = stream_enabled /\ rx_shift' = rx_shift
<1>1. run /\ run_prev
  BY DEF EngineInv, Inv, StreamingGate, FailClosedSafely, RunsCompleteImage, EndSeenWithRun
<1>2. Steps
  BY <1>1, PortClock DEF Stopped, Start, RunEdge
<1>3. ServeByte(byte)
  BY <1>1 DEF EngineClock
<1>4. StatusStep
  <2>1. Loader
    BY PortClock
  <2> QED
    BY <2>1, <1>1, <1>2, LoaderStep, ExecutorStep
       DEF EngineInv, Inv, TypeOK, Written, FailClosedSafely
<1>5. ASSUME halted PROVE halted' /\ stream_enabled' = stream_enabled /\ rx_shift' = rx_shift
  <2>1. Halted
    BY <1>2, <1>5, EndedStays DEF EngineInv, Inv, FailClosedSafely, RunsCompleteImage
  <2> QED
    BY <2>1, <1>5 DEF Halted, statusVars, shiftVars, streamVars
<1> QED
  BY <1>3, <1>4, <1>5 DEF StatusStep

\* What the queues keep on a clock that does not strobe them for it.
LEMMA QueuesKeep ==
  ASSUME NEW byte, Inv, ServeByte(byte)
  PROVE  /\ ~Full(tx) /\ ~tx_push => ~Full(tx')
         /\ ~Empty(rx) /\ ~rx_pop(byte) => ~Empty(rx') /\ Front(rx') = Front(rx)
         /\ ~Empty(capture) /\ ~capture_pop(byte) =>
              /\ ~Empty(capture') /\ Front(capture') = Front(capture)
              /\ capture'.used >= capture.used
         /\ capture'.used >= capture.used - 1
<1>1. /\ tx \in RingOf(Byte \cup {Unknown}) /\ rx \in RingOf(Byte \cup {Unknown})
      /\ capture \in RingOf(CapturedEdge \cup {Unknown})
      /\ Coherent(rx) /\ Coherent(capture)
  BY DEF Inv, TypeOK, QueueTypes, Written, QueuesCoherent
<1>2. /\ tx' = Edge(tx, tx_push, tx_pop, byte)
      /\ rx' = Edge(rx, rx_push, rx_pop(byte), rx_shift)
      /\ capture' = Edge(capture, capture_push, capture_pop(byte), Event)
  BY DEF ServeByte
<1>3. ~Full(tx) /\ ~tx_push => ~Full(tx')
  <2>1. tx_push \in BOOLEAN /\ tx_pop \in BOOLEAN
    BY DEF tx_push, tx_pop
  <2> QED
    BY <1>1, <1>2, <2>1, FilledByPush
<1>4. ASSUME ~Empty(rx), ~rx_pop(byte) PROVE ~Empty(rx') /\ Front(rx') = Front(rx)
  <2>1. rx_push \in BOOLEAN /\ (rx_push => ~Full(rx))
    BY DEF rx_push
  <2>2. rx' = Edge(rx, rx_push, FALSE, rx_shift)
    BY <1>2, <1>4 DEF Edge
  <2> QED
    BY <1>1, <1>4, <2>1, <2>2, FrontStays
<1>5. /\ capture_push \in BOOLEAN /\ capture_pop(byte) \in BOOLEAN
      /\ (capture_push => ~Full(capture)) /\ (capture_pop(byte) => ~Empty(capture))
  BY DEF capture_push, capture_pop
<1>6. ASSUME ~Empty(capture), ~capture_pop(byte)
      PROVE  ~Empty(capture') /\ Front(capture') = Front(capture)
  <2>1. capture' = Edge(capture, capture_push, FALSE, Event)
    BY <1>2, <1>6 DEF Edge
  <2> QED
    BY <1>1, <1>5, <1>6, <2>1, FrontStays
<1>7. /\ capture.used \in Nat /\ capture'.used >= capture.used - 1
      /\ ~capture_pop(byte) => capture'.used >= capture.used
  BY <1>1, <1>2, DepthAssumption DEF RingOf, Edge
<1> QED
  BY <1>3, <1>4, <1>6, <1>7

(***************************************************************************)
(* The synchronizer: where the strobe of an exchange falls.                *)
(***************************************************************************)
LEMMA PhaseLengths ==
  /\ PhaseClocks \in Nat /\ PhaseClocks > 2
  /\ StrobeTick \in Nat /\ LastTick \in Nat /\ StrobeTick < LastTick /\ StrobeTick > 4
BY PhaseAssumption DEF StrobeTick, LastTick

\* The engine sees the edge of LOAD on one clock of every exchange, with
\* REWIND settled, and on no clock of a pause.
LEMMA StrobeFalls ==
  ASSUME WalkInv
  PROVE  /\ host_strobe <=> stream_enabled /\ ~Idle /\ tick = StrobeTick
         /\ command <=> stream_enabled /\ ~Idle /\ tick = StrobeTick /\ CommandAt
<1>1. tick \in Nat /\ (Idle => tick = 0)
  BY PhaseLengths DEF WalkInv, Walk
<1>2. load /\ ~load_prev <=> tick = StrobeTick
  BY <1>1, PhaseAssumption DEF WalkInv, Wires, High, StrobeTick, load
<1>3. tick = StrobeTick => ~Idle /\ (rewind_program <=> CommandAt)
  BY <1>1, PhaseLengths DEF WalkInv, Wires, rewind_program
<1> QED
  BY <1>2, <1>3 DEF host_strobe, command

\* A clock on which the host makes a call or pauses.
LEMMA QuietWires ==
  ASSUME NEW pins, WalkInv, tick = 0, tick' = 0, Synchronize, input_meta' = pins,
         pins.run, ~pins.load
  PROVE  Wires'
<1>1. input_sync' = input_meta /\ (load_prev' <=> load) /\ (run_prev' <=> run)
  BY DEF Synchronize
<1>2. ~High(0 - 1) /\ ~High(0 - 2) /\ ~High(0 - 3)
  BY PhaseAssumption DEF High
<1> QED
  BY <1>1, <1>2 DEF WalkInv, Wires, load, run

\* A clock inside an exchange.
LEMMA ExchangeWires ==
  ASSUME NEW pins, WalkInv, ~Idle, tick < LastTick, tick' = tick + 1, point' = point,
         Synchronize, input_meta' = pins, pins.run, pins.load <=> LoadHigh,
         pins.rewind <=> CommandAt
  PROVE  Wires'
<1>1. input_sync' = input_meta /\ (load_prev' <=> load) /\ (run_prev' <=> run)
  BY DEF Synchronize
<1>2. tick \in Nat /\ (tick + 1) - 1 = tick /\ (tick + 1) - 2 = tick - 1
      /\ (tick + 1) - 3 = tick - 2
  BY PhaseLengths DEF WalkInv, Walk
<1>3. (LoadHigh <=> High(tick)) /\ (CommandAt' <=> CommandAt)
  BY DEF LoadHigh, High, CommandAt
<1>4. /\ input_meta'.load <=> High(tick' - 1)
      /\ input_sync'.load <=> High(tick' - 2)
      /\ load_prev' <=> High(tick' - 3)
  BY <1>1, <1>2, <1>3 DEF WalkInv, Wires, load
<1>5. /\ input_meta'.run /\ (input_meta'.rewind <=> CommandAt)
      /\ tick' >= 2 => input_sync'.run /\ (input_sync'.rewind <=> CommandAt)
      /\ tick' >= 3 => run_prev'
      /\ (run_prev' => run') /\ (run' => input_meta'.run)
  BY <1>1, <1>2 DEF WalkInv, Wires, run
<1> QED
  BY <1>3, <1>4, <1>5 DEF Wires, High

\* The clock after which the host reads the answer.
LEMMA LastWires ==
  ASSUME NEW pins, WalkInv, ~Idle, tick = LastTick, tick' = 0,
         Synchronize, input_meta' = pins, pins.run, pins.load <=> LoadHigh
  PROVE  Wires' /\ run' /\ (rewind_program' <=> CommandAt)
<1>1. input_sync' = input_meta /\ (load_prev' <=> load) /\ (run_prev' <=> run)
  BY DEF Synchronize
<1>2. /\ ~LoadHigh /\ ~High(LastTick - 1) /\ ~High(LastTick - 2)
      /\ ~High(0 - 1) /\ ~High(0 - 2) /\ ~High(0 - 3)
  BY PhaseAssumption DEF LoadHigh, LastTick, High
<1>3. LastTick \in Nat /\ LastTick >= 3
  BY PhaseLengths
<1>4. run' /\ run_prev' /\ (rewind_program' <=> CommandAt)
  BY <1>1, <1>3 DEF WalkInv, Wires, run, rewind_program
<1> QED
  BY <1>1, <1>2, <1>3, <1>4 DEF WalkInv, Wires, load, run

(***************************************************************************)
(* One exchange: which strobe acts on which queue.                         *)
(***************************************************************************)
LEMMA BytesOfPoints ==
  ASSUME Walk, Seen, ~Idle
  PROVE  /\ point = "pop" => ByteAt = PopReceived
         /\ point = "pop_event" => ByteAt = PopCaptured
         /\ point \notin Acting => ByteAt \in 0 .. LastPage
         /\ CommandAt <=> point # "data"
<1>1. point = "word" => \E n \in 0 .. 3 : ByteAt = 6 + n
  BY DEF Seen, ByteAt
<1>2. point \in ReadyPoints \cup {"flags", "data", "count", "peek", "pop", "recount", "events",
                                  "word", "pop_event"}
  BY DEF Walk, Idle
<1>3. point \in {"ready_used", "ready_flags", "flags", "count", "recount", "peek", "events"}
        => ByteAt \in 0 .. LastPage
  BY DEF ByteAt, LastPage
<1>4. point = "word" => ByteAt \in 0 .. LastPage
  BY <1>1 DEF LastPage
<1> QED
  BY <1>2, <1>3, <1>4 DEF ByteAt, Acting, CommandAt, ReadyPoints

LEMMA StrobesAct ==
  ASSUME LinkInv, ~Idle
  PROVE  /\ tx_push <=> tick = StrobeTick /\ point = "data"
         /\ rx_pop(ByteAt) <=> tick = StrobeTick /\ point = "pop"
         /\ capture_pop(ByteAt) <=> tick = StrobeTick /\ point = "pop_event"
         /\ tick = StrobeTick /\ point \in Reading => command
<1> USE DEF LinkInv
<1>0. /\ host_strobe <=> stream_enabled /\ tick = StrobeTick
      /\ command <=> stream_enabled /\ tick = StrobeTick /\ CommandAt
      /\ command <=> host_strobe /\ rewind_program
  BY StrobeFalls DEF command
<1>1. /\ point = "pop" => ByteAt = 128
      /\ point = "pop_event" => ByteAt = 129
      /\ point \notin Acting => ByteAt \in 0 .. 10
      /\ CommandAt <=> point # "data"
  BY BytesOfPoints DEF WalkInv, PopReceived, PopCaptured, LastPage
<1>2. tick = StrobeTick => Before
  BY PhaseLengths DEF Before
<1>3. point \in Acting => stream_enabled
  BY DEF Streaming, Acting, ReadyPoints
<1>4. tick = StrobeTick =>
        /\ point = "data" => ~Full(tx)
        /\ point = "pop" => ~Empty(rx)
        /\ point = "pop_event" => ~Empty(capture)
  <2>1. ASSUME tick = StrobeTick, point = "pop_event" PROVE ~Empty(capture)
    BY <1>2, <2>1 DEF Seen, Remaining, Empty
  <2> QED
    BY <1>2, <2>1 DEF Seen
<1>5. tx_push <=> tick = StrobeTick /\ point = "data"
  BY <1>0, <1>1, <1>3, <1>4 DEF tx_push, Acting
<1>6. rx_pop(ByteAt) <=> tick = StrobeTick /\ point = "pop"
  BY <1>0, <1>1, <1>3, <1>4 DEF rx_pop, Acting, PopReceived
<1>7. capture_pop(ByteAt) <=> tick = StrobeTick /\ point = "pop_event"
  BY <1>0, <1>1, <1>3, <1>4 DEF capture_pop, Acting, PopCaptured
<1>8. tick = StrobeTick /\ point \in Reading => command
  BY <1>0, <1>1 DEF Streaming, Reading, ReadyPoints
<1> QED
  BY <1>5, <1>6, <1>7, <1>8

\* The history variable counts exactly those.
LEMMA MovedOnce ==
  ASSUME LinkInv, ~Idle
  PROVE  Moved = IF tick = StrobeTick THEN Bit(point \in Acting) ELSE 0
BY StrobesAct DEF Moved, Bit, Acting

(***************************************************************************)
(* A clock inside an exchange.                                             *)
(***************************************************************************)
LEMMA InsideStrobed ==
  ASSUME LinkInv, ~Idle, Exchanging
  PROVE  Strobed'
<1>1. tick \in Nat /\ tick' = tick + 1 /\ point' = point
  BY PhaseLengths DEF LinkInv, WalkInv, Walk, Exchanging
<1>2. strobes' = (IF tick = 0 THEN 0 ELSE strobes)
                 + (IF tick = StrobeTick THEN Bit(point \in Acting) ELSE 0)
  BY MovedOnce DEF Exchanging
<1>3. tick > 0 => strobes = IF tick <= StrobeTick THEN 0 ELSE Bit(point \in Acting)
  BY DEF LinkInv, Strobed, Before
<1>4. strobes' = IF tick + 1 <= StrobeTick THEN 0 ELSE Bit(point \in Acting)
  <2>1. Bit(point \in Acting) \in 0 .. 1
    BY DEF Bit
  <2>2. CASE tick < StrobeTick
    BY <1>1, <1>2, <1>3, <2>2, PhaseLengths
  <2>3. CASE tick = StrobeTick
    BY <1>1, <1>2, <1>3, <2>1, <2>3, PhaseLengths
  <2>4. CASE tick > StrobeTick
    BY <1>1, <1>2, <1>3, <2>1, <2>4, PhaseLengths
  <2> QED
    BY <1>1, <2>2, <2>3, <2>4, PhaseLengths
<1> QED
  BY <1>1, <1>4 DEF Strobed, Before

LEMMA InsideStreaming ==
  ASSUME NEW pins, pins.run, EngineClock(pins, ByteAt), LinkInv, ~Idle, Exchanging
  PROVE  Streaming'
<1>1. point' = point /\ call' = call
  BY DEF Exchanging
<1>2. run_prev => run
  BY DEF LinkInv, WalkInv, Wires
<1>3. /\ stream_enabled => stream_enabled'
      /\ halted => halted' /\ rx_shift' = rx_shift
  BY <1>2, RunClock DEF LinkInv
<1> QED
  BY <1>1, <1>3 DEF LinkInv, Streaming, Idle

LEMMA InsidePages ==
  ASSUME NEW pins, pins.run, EngineClock(pins, ByteAt), LinkInv, ~Idle, Exchanging
  PROVE  Pages'
<1> SUFFICES ASSUME point \in Reading, ~Before' PROVE read_page' = ByteAt
  BY DEF Exchanging, Pages, ByteAt, Reading
<1>1. tick \in Nat /\ tick' = tick + 1 /\ tick >= StrobeTick
  BY PhaseLengths DEF LinkInv, WalkInv, Walk, Exchanging, Before
<1>2. stream_enabled
  BY DEF LinkInv, Streaming, Reading, ReadyPoints
<1>3. read_page' = IF command /\ ByteAt <= LastPage THEN ByteAt ELSE read_page
  BY <1>2, RunClock DEF LinkInv, WalkInv, Wires, ServeByte
<1>4. ByteAt \in 0 .. LastPage
  BY BytesOfPoints DEF LinkInv, WalkInv, Reading, Acting
<1>5. CASE tick = StrobeTick
  <2>1. command
    BY <1>5, StrobesAct
  <2> QED
    BY <1>3, <1>4, <2>1 DEF LastPage
<1>6. CASE tick # StrobeTick
  <2>1. ~command
    BY <1>6, StrobeFalls DEF LinkInv
  <2>2. read_page = ByteAt
    BY <1>1, <1>6, PhaseLengths DEF LinkInv, Pages, Before
  <2> QED
    BY <1>3, <2>1, <2>2
<1> QED
  BY <1>5, <1>6

LEMMA InsideSeen ==
  ASSUME NEW pins, pins.run, EngineClock(pins, ByteAt), LinkInv, ~Idle, Exchanging
  PROVE  Seen'
<1>1. CASE point \in ReadyPoints
  BY <1>1 DEF Exchanging, Seen, ReadyPoints
<1>2. CASE point \notin ReadyPoints
  <2>1. /\ tick \in Nat /\ tick' = tick + 1
        /\ point' = point /\ held' = held /\ left' = left
    BY PhaseLengths DEF LinkInv, WalkInv, Walk, Exchanging
  <2>2. /\ ServeByte(ByteAt) /\ (halted => halted')
    BY <1>2, RunClock DEF LinkInv, WalkInv, Wires, Streaming
  <2>3. /\ ~Full(tx) /\ ~tx_push => ~Full(tx')
        /\ ~Empty(rx) /\ ~rx_pop(ByteAt) => ~Empty(rx') /\ Front(rx') = Front(rx)
        /\ ~Empty(capture) /\ ~capture_pop(ByteAt) =>
              /\ ~Empty(capture') /\ Front(capture') = Front(capture)
              /\ capture'.used >= capture.used
        /\ capture'.used >= capture.used - 1
    BY <2>2, QueuesKeep DEF LinkInv, EngineInv
  <2>4. Before' => Before /\ tick # StrobeTick
    BY <2>1, PhaseLengths DEF Before
  <2>5. point = "data" /\ Before' => ~Full(tx')
    BY <2>3, <2>4, StrobesAct DEF LinkInv, Seen
  <2>6. point = "peek" => ~Empty(rx')
    BY <2>3, StrobesAct DEF LinkInv, Seen
  <2>7. point = "pop" /\ Before' => ~Empty(rx') /\ held = <<Front(rx')>>
    BY <2>3, <2>4, StrobesAct DEF LinkInv, Seen
  <2>8. point = "recount" => halted'
    BY <2>2 DEF LinkInv, Seen
  <2>9. /\ capture.used \in Nat /\ capture'.used \in Nat
        /\ (Empty(capture) <=> capture.used = 0)
    <3>1. EngineInv'
      BY EngineStep DEF LinkInv
    <3> QED
      BY <3>1, DepthAssumption
         DEF LinkInv, EngineInv, Inv, TypeOK, QueueTypes, RingOf, Empty
  <2>10. point \in {"word", "pop_event"} =>
           left \in Nat \ {0} /\ capture'.used >= Remaining'
    <3> SUFFICES ASSUME point \in {"word", "pop_event"}
                 PROVE  left \in Nat \ {0} /\ capture'.used >= Remaining'
      OBVIOUS
    <3>1. left \in Nat \ {0} /\ capture.used >= Remaining
      BY DEF LinkInv, Seen
    <3>2. CASE point = "word"
      <4>1. Remaining = left /\ Remaining' = left /\ ~Empty(capture)
        BY <2>1, <2>9, <3>1, <3>2 DEF Remaining
      <4> QED
        BY <2>3, <2>9, <3>1, <3>2, <4>1, StrobesAct
    <3>3. CASE point = "pop_event" /\ tick = StrobeTick
      <4>1. Remaining = left /\ Remaining' = left - 1
        BY <2>1, <3>3, PhaseLengths DEF Remaining, Before
      <4> QED
        BY <2>3, <2>9, <3>1, <4>1
    <3>4. CASE point = "pop_event" /\ tick # StrobeTick
      <4>1. Remaining' = Remaining /\ Remaining \in Nat
        BY <2>1, <3>1, <3>4, PhaseLengths DEF Remaining, Before
      <4>2. ~Empty(capture) => capture'.used >= capture.used
        BY <2>3, <3>4, StrobesAct
      <4> QED
        BY <2>9, <3>1, <4>1, <4>2
    <3> QED
      BY <3>2, <3>3, <3>4
  <2>11. Fetched /\ (point = "word" \/ (point = "pop_event" /\ Before')) => Fetched'
    <3>1. point = "word" \/ (point = "pop_event" /\ Before') => Front(capture') = Front(capture)
      <4>1. point = "word" \/ (point = "pop_event" /\ Before') => ~Empty(capture)
        BY <2>4, <2>9 DEF LinkInv, Seen, Remaining
      <4> QED
        BY <2>3, <2>4, <4>1, StrobesAct
    <3> QED
      BY <2>1, <3>1 DEF Fetched
  <2> QED
    BY <2>1, <2>4, <2>5, <2>6, <2>7, <2>8, <2>10, <2>11 DEF LinkInv, Seen
<1> QED
  BY <1>1, <1>2

(***************************************************************************)
(* The clock after which the host reads an answer.                         *)
(***************************************************************************)

\* The digits of a byte written as a sum of its bits.
LEMMA Digits ==
  ASSUME NEW a \in 0 .. 1, NEW b \in 0 .. 1, NEW c \in 0 .. 1, NEW d \in 0 .. 1,
         NEW e \in 0 .. 1, NEW f \in 0 .. 1, NEW g \in 0 .. 1, NEW h \in 0 .. 1
  PROVE  LET n == 128 * a + 64 * b + 32 * c + 16 * d + 8 * e + 4 * f + 2 * g + h
         IN  /\ Has(n, 7) <=> a = 1
             /\ Has(n, 5) <=> c = 1
             /\ Has(n, 4) <=> d = 1
             /\ Has(n, 2) <=> f = 1
BY DEF Has

\* Each bit of the flags page that a call tests means what the call takes it for.
FlagsTell ==
  /\ Has(flags, 7) <=> fault
  /\ Has(flags, 5) <=> halted
  /\ Has(flags, 4) <=> stream_enabled
  /\ Has(flags, 2) <=> ~Full(tx)

LEMMA FlagBits == FlagsTell
<1>1. \A x : Bit(x) \in 0 .. 1
  BY DEF Bit
<1>2. /\ Bit(fault) = 1 <=> fault
      /\ Bit(halted) = 1 <=> halted
      /\ Bit(stream_enabled) = 1 <=> stream_enabled
      /\ Bit(~Full(tx)) = 1 <=> ~Full(tx)
  BY DEF Bit
<1> QED
  BY <1>1, <1>2, Digits DEF flags, FlagsTell

LEMMA FlagBitsAfter == FlagsTell'
BY FlagBits, PTL

\* The four bytes of an edge are numbers, and spell it.
LEMMA WordBytesSpell ==
  ASSUME NEW e \in CapturedEdge
  PROVE  /\ \A k \in 1 .. 4 : WordByte(e, k) \in Nat
         /\ {i \in Lanes : Has(WordByte(e, 1), i)} = e.lanes
         /\ WordByte(e, 2) + 256 * WordByte(e, 3) + 65536 * WordByte(e, 4) = e.time
<1>1. e.time \in Nat /\ e.lanes \subseteq Lanes
  BY TimeAssumption DEF CapturedEdge, Moment
<1>2. \A k \in 1 .. 4 : WordByte(e, k) \in Nat
  <2>1. Number(e.lanes) \in Nat
    BY DEF Number, Bit
  <2> QED
    BY <1>1, <2>1 DEF WordByte
<1>3. ASSUME NEW i \in Lanes PROVE Has(WordByte(e, 1), i) <=> i \in e.lanes
  <2>1. WordByte(e, 1) = Number(e.lanes) /\ 5 \notin e.lanes
    BY <1>1 DEF WordByte, Lanes
  <2>2. i \in {0, 1, 2, 3, 4}
    BY DEF Lanes
  <2>3. CASE i = 0
    BY <2>1, <2>3 DEF Has, Number, Bit
  <2>4. CASE i = 1
    BY <2>1, <2>4 DEF Has, Number, Bit
  <2>5. CASE i = 2
    BY <2>1, <2>5 DEF Has, Number, Bit
  <2>6. CASE i = 3
    BY <2>1, <2>6 DEF Has, Number, Bit
  <2>7. CASE i = 4
    BY <2>1, <2>7 DEF Has, Number, Bit
  <2> QED
    BY <2>2, <2>3, <2>4, <2>5, <2>6, <2>7
<1>4. WordByte(e, 2) + 256 * WordByte(e, 3) + 65536 * WordByte(e, 4) = e.time
  BY <1>1 DEF WordByte
<1> QED
  BY <1>1, <1>2, <1>3, <1>4

LEMMA AnswerClock ==
  ASSUME NEW pins, pins.run, pins.load <=> LoadHigh, EngineClock(pins, ByteAt), LinkInv,
         ~Idle, Answered
  PROVE  /\ tick' = 0 /\ Before'
         /\ Wires' /\ run' /\ (rewind_program' <=> CommandAt)
         /\ ~tx_push /\ ~rx_pop(ByteAt) /\ ~capture_pop(ByteAt) /\ ~command
         /\ EngineInv'
<1>1. tick = LastTick /\ tick' = 0 /\ tick # StrobeTick
  BY PhaseLengths DEF Answered
<1>2. Before'
  BY <1>1, PhaseLengths DEF Before
<1>3. Wires' /\ run' /\ (rewind_program' <=> CommandAt)
  BY <1>1, PortClock, LastWires DEF LinkInv
<1>4. ~tx_push /\ ~rx_pop(ByteAt) /\ ~capture_pop(ByteAt) /\ ~command
  BY <1>1, StrobesAct, StrobeFalls DEF LinkInv
<1> QED
  BY <1>1, <1>2, <1>3, <1>4, EngineStep DEF LinkInv

\* Before the program streams, the answer is the status byte while it runs and
\* its receive byte once it has halted.
LEMMA LegacyAnswer ==
  ASSUME NEW pins, pins.run, pins.load <=> LoadHigh, EngineClock(pins, ByteAt), LinkInv,
         ~Idle, Answered, point \in ReadyPoints, ~stream_enabled'
  PROVE  /\ halted' => status' = rx_shift'
         /\ ~halted' => status' \in Nat /\ status' > 8
<1>1. run' /\ rewind_program'
  BY AnswerClock DEF CommandAt, ReadyPoints
<1>2. ASSUME halted' PROVE status' = rx_shift'
  <2>1. read_page' = 0
    BY AnswerClock DEF EngineInv, Inv, StreamingGate
  <2> QED
    BY <1>1, <1>2, <2>1 DEF status, page_data
<1>3. ASSUME ~halted' PROVE status' \in Nat /\ status' > 8
  <2>1. run_prev'
    BY PhaseLengths, PortClock DEF LinkInv, WalkInv, Wires, Answered, Synchronize, run
  <2>2. running'
    BY <1>3, <2>1, AnswerClock DEF EngineInv, Started
  <2>3. status' = 128 * Bit(fault)' + 64 * Bit(running)' + 32 * Bit(halted)' + Number(sampled)'
    BY <1>3 DEF status
  <2>4. Bit(fault)' \in Nat /\ Bit(running)' = 1 /\ Bit(halted)' \in Nat
        /\ Number(sampled)' \in Nat
    BY <2>2 DEF Bit, Number
  <2> QED
    BY <2>3, <2>4
<1> QED
  BY <1>2, <1>3

\* ready() lets only a streaming program through.
LEMMA ReadyStreaming ==
  ASSUME NEW pins, pins.run, pins.load <=> LoadHigh, EngineClock(pins, ByteAt), LinkInv,
         ~Idle, Answered, ready(status')
  PROVE  Streaming'
<1>1. point \in ReadyPoints /\ (run_prev => run)
  BY DEF ready, LinkInv, WalkInv, Wires
<1>2. CASE stream_enabled'
  BY <1>2 DEF Streaming
<1>3. CASE ~stream_enabled' /\ point = "ready_used"
  <2>1. CASE status' <= 8 /\ Continue("ready_flags")
    <3>1. halted' /\ rx_shift' = status'
      BY <1>1, <1>3, <2>1, LegacyAnswer
    <3> QED
      BY <2>1, <3>1 DEF Continue, Streaming, ReadyPoints
  <2>2. CASE Retry("ready_used")
    BY <2>2 DEF Retry, Finish, Streaming, Idle, ReadyPoints
  <2> QED
    BY <1>3, <2>1, <2>2 DEF ready
<1>4. CASE ~stream_enabled' /\ point = "ready_flags"
  <2>1. halted /\ rx_shift <= 8 /\ ~stream_enabled
    BY <1>1, <1>4, RunClock DEF LinkInv, Streaming
  <2>2. halted' /\ rx_shift' = rx_shift
    BY <1>1, <2>1, RunClock DEF LinkInv
  <2>3. status' = rx_shift /\ rx_shift \in 0 .. 8
    BY <1>1, <1>4, <2>1, <2>2, LegacyAnswer
       DEF LinkInv, EngineInv, Inv, TypeOK, ExecutorTypes, ShiftTypes, Byte
  <2>4. ~Has(status', 4)
    <3>1. \A n \in 0 .. 8 : ~Has(n, 4)
      BY DEF Has
    <3> QED
      BY <2>3, <3>1
  <2>5. Retry("ready_used")
    BY <1>4, <2>4 DEF ready
  <2> QED
    BY <2>5 DEF Retry, Finish, Streaming, Idle, ReadyPoints
<1> QED
  BY <1>1, <1>2, <1>3, <1>4 DEF ReadyPoints

\* After ready() a read of a page answers with that page.
LEMMA PageAnswer ==
  ASSUME NEW pins, pins.run, pins.load <=> LoadHigh, EngineClock(pins, ByteAt), LinkInv,
         ~Idle, Answered, point \in Reading
  PROVE  /\ point = "flags" => status' = flags'
         /\ point \in {"count", "recount"} => status' = rx'.used
         /\ point = "peek" => status' = IF Empty(rx') THEN 0 ELSE Front(rx')
         /\ point = "events" => status' = capture'.used
         /\ point = "word" /\ ~Empty(capture') =>
              status' = WordByte(Front(capture'), Len(held) + 1)
<1>1. stream_enabled /\ (run_prev => run)
  BY DEF LinkInv, Streaming, Reading, ReadyPoints, WalkInv, Wires
<1>2. stream_enabled' /\ ServeByte(ByteAt)
  BY <1>1, RunClock DEF LinkInv
<1>3. read_page' = ByteAt
  <2>1. read_page = ByteAt
    BY PhaseLengths DEF LinkInv, Pages, Before, Answered
  <2> QED
    BY <1>2, <2>1, AnswerClock DEF ServeByte
<1>4. status' = page_data'
  BY <1>2, AnswerClock DEF status, CommandAt, Reading
<1>5. point = "flags" => read_page' = 1
  BY <1>3 DEF ByteAt
<1>6. point \in {"count", "recount"} => read_page' = 3
  BY <1>3 DEF ByteAt
<1>7. point = "peek" => read_page' = 4
  BY <1>3 DEF ByteAt
<1>8. point = "events" => read_page' = 5
  BY <1>3 DEF ByteAt
<1>9. point = "word" => Len(held) \in 0 .. 3 /\ read_page' = 6 + Len(held)
  BY <1>3 DEF ByteAt, LinkInv, Seen
<1>10. ASSUME point = "word", ~Empty(capture')
       PROVE  status' = WordByte(Front(capture'), Len(held) + 1)
  <2>1. PICK n \in 0 .. 3 : n = Len(held) /\ read_page' = 6 + n
    BY <1>9, <1>10
  <2>2. capture_head' = Front(capture')
    BY <1>10 DEF capture_head
  <2> QED
    BY <1>4, <2>1, <2>2 DEF page_data, WordByte
<1>11. point = "flags" => status' = flags'
  BY <1>4, <1>5 DEF page_data
<1>12. point \in {"count", "recount"} => status' = rx'.used
  BY <1>4, <1>6 DEF page_data
<1>13. point = "peek" => status' = IF Empty(rx') THEN 0 ELSE Front(rx')
  BY <1>4, <1>7 DEF page_data
<1>14. point = "events" => status' = capture'.used
  BY <1>4, <1>8 DEF page_data
<1> QED
  BY <1>10, <1>11, <1>12, <1>13, <1>14

\* Where an answer sends the call.
LEMMA AnsweredWalk ==
  ASSUME LinkInv, ~Idle, Answered
  PROVE  Walk'
<1>1. /\ tick' = 0 /\ tick' \in 0 .. LastTick
      /\ ready(status') \/ (point \notin ReadyPoints
           /\ (send(status') \/ receive(status') \/ captures(status')))
  BY PhaseLengths DEF Answered
<1>2. /\ call \in {"send", "receive", "captures"} /\ outcome = "none"
      /\ call = "send" => point \in ReadyPoints \cup {"flags", "data"}
      /\ call = "receive" =>
           point \in ReadyPoints \cup {"count", "flags", "peek", "pop", "recount"}
      /\ call = "captures" => point \in ReadyPoints \cup {"events", "word", "pop_event"}
  BY DEF LinkInv, WalkInv, Walk, Idle
<1>3. ASSUME NEW how, Finish(how) PROVE Walk'
  BY <1>1, <1>3 DEF Finish, Walk, Idle, ReadyPoints
<1>4. ASSUME NEW p, call' = call, outcome' = outcome, point' = p,
             \/ p \in ReadyPoints
             \/ call = "send" /\ p \in {"flags", "data"}
             \/ call = "receive" /\ p \in {"count", "flags", "peek", "pop", "recount"}
             \/ call = "captures" /\ p \in {"events", "word", "pop_event"}
      PROVE  Walk'
  BY <1>1, <1>2, <1>4 DEF Walk, Idle
<1>5. CASE ready(status')
  <2>1. CASE Continue("ready_flags")
    BY <2>1, <1>4 DEF Continue, ReadyPoints
  <2>2. CASE Retry("ready_used")
    BY <2>2, <1>3, <1>4 DEF Retry, ReadyPoints
  <2>3. CASE point' = FirstPoint /\ UNCHANGED <<call, outcome>>
    BY <2>3, <1>2, <1>4 DEF FirstPoint
  <2> QED
    BY <1>5, <2>1, <2>2, <2>3 DEF ready
<1>6. CASE send(status')
  BY <1>3, <1>4, <1>6 DEF send, Continue, Retry
<1>7. CASE receive(status')
  BY <1>3, <1>4, <1>7 DEF receive, Continue, Retry
<1>8. CASE captures(status')
  BY <1>3, <1>4, <1>8 DEF captures, Continue
<1> QED
  BY <1>1, <1>5, <1>6, <1>7, <1>8

\* After ready() the calls go on as long as the program streams.
LEMMA AnsweredStreaming ==
  ASSUME NEW pins, pins.run, pins.load <=> LoadHigh, EngineClock(pins, ByteAt), LinkInv,
         ~Idle, Answered
  PROVE  Streaming'
<1>1. CASE ready(status')
  BY <1>1, ReadyStreaming
<1>2. CASE point \notin ReadyPoints /\ (send(status') \/ receive(status') \/ captures(status'))
  <2>1. stream_enabled'
    BY <1>2, RunClock DEF LinkInv, Streaming, WalkInv, Wires
  <2> QED
    BY <2>1 DEF Streaming
<1> QED
  BY <1>1, <1>2 DEF Answered

\* What is known of the queues when the answer of a read is in.
LEMMA AnsweredQueues ==
  ASSUME NEW pins, pins.run, pins.load <=> LoadHigh, EngineClock(pins, ByteAt), LinkInv,
         ~Idle, Answered, point \notin ReadyPoints
  PROVE  /\ halted => halted'
         /\ ~Empty(rx) => ~Empty(rx')
         /\ ~Empty(capture) =>
              /\ Front(capture') = Front(capture) /\ ~Empty(capture')
              /\ capture'.used >= capture.used
         /\ capture.used \in Nat /\ capture'.used \in Nat /\ rx'.used \in Nat
         /\ Empty(capture) <=> capture.used = 0
         /\ Empty(rx') <=> rx'.used = 0
<1>1. ServeByte(ByteAt) /\ (halted => halted')
  BY RunClock DEF LinkInv, Streaming, WalkInv, Wires
<1>2. ~rx_pop(ByteAt) /\ ~capture_pop(ByteAt) /\ EngineInv'
  BY AnswerClock
<1>3. /\ capture.used \in Nat /\ capture'.used \in Nat /\ rx'.used \in Nat
  BY <1>2, DepthAssumption DEF LinkInv, EngineInv, Inv, TypeOK, QueueTypes, RingOf
<1> QED
  BY <1>1, <1>2, <1>3, QueuesKeep DEF LinkInv, EngineInv, Empty

LEMMA SeenBySend ==
  ASSUME NEW pins, pins.run, pins.load <=> LoadHigh, EngineClock(pins, ByteAt), LinkInv,
         ~Idle, Answered, point \notin ReadyPoints, send(status')
  PROVE  Seen'
<1>1. point' = "data" => ~Full(tx')
  <2> SUFFICES ASSUME point' = "data" PROVE ~Full(tx')
    OBVIOUS
  <2>1. point = "flags" /\ Has(status', 2)
    BY DEF send, Continue, Retry, Finish
  <2>2. status' = flags'
    BY <2>1, PageAnswer DEF Reading
  <2>3. Has(flags', 2) <=> ~Full(tx')
    BY FlagBitsAfter DEF FlagsTell
  <2> QED
    BY <2>1, <2>2, <2>3
<1>2. point' \in {"data", "flags", "none"}
  BY DEF send, Continue, Retry, Finish
<1> QED
  BY <1>1, <1>2 DEF Seen

LEMMA SeenByReceive ==
  ASSUME NEW pins, pins.run, pins.load <=> LoadHigh, EngineClock(pins, ByteAt), LinkInv,
         ~Idle, Answered, point \notin ReadyPoints, receive(status')
  PROVE  Seen'
<1>1. point' \in {"count", "peek", "pop", "flags", "recount", "none"}
  BY DEF receive, Continue, Retry, Finish
<1>2. point' = "peek" => ~Empty(rx')
  <2>1. point' = "peek" => point = "count" /\ status' # 0
    BY DEF receive, Continue, Retry, Finish
  <2>2. point = "count" => status' = rx'.used
    BY PageAnswer DEF Reading
  <2> QED
    BY <2>1, <2>2 DEF Empty
<1>3. point' = "pop" => ~Empty(rx') /\ held' = <<Front(rx')>>
  <2>1. point' = "pop" => point = "peek" /\ held' = <<status'>>
    BY DEF receive, Continue, Retry, Finish
  <2>2. point = "peek" => ~Empty(rx')
    BY AnsweredQueues DEF LinkInv, Seen
  <2>3. point = "peek" => status' = IF Empty(rx') THEN 0 ELSE Front(rx')
    BY PageAnswer DEF Reading
  <2> QED
    BY <2>1, <2>2, <2>3
<1>4. point' = "recount" => halted'
  <2> SUFFICES ASSUME point' = "recount" PROVE halted'
    OBVIOUS
  <2>1. point = "flags" /\ (Has(status', 7) \/ Has(status', 5))
    BY DEF receive, Continue, Retry, Finish
  <2>2. status' = flags'
    BY <2>1, PageAnswer DEF Reading
  <2>3. fault' \/ halted'
    BY <2>1, <2>2, FlagBitsAfter DEF FlagsTell
  <2> QED
    BY <2>3, AnswerClock DEF EngineInv, Inv, FailClosedSafely
<1> QED
  BY <1>1, <1>2, <1>3, <1>4 DEF Seen

LEMMA SeenByCaptures ==
  ASSUME NEW pins, pins.run, pins.load <=> LoadHigh, EngineClock(pins, ByteAt), LinkInv,
         ~Idle, Answered, point \notin ReadyPoints, captures(status')
  PROVE  Seen'
<1>1. CASE point = "events"
  <2>1. status' = capture'.used /\ status' \in Nat
    BY <1>1, PageAnswer, AnsweredQueues DEF Reading
  <2>2. left' = status' /\ held' = << >>
        /\ (point' = "none" \/ (point' = "word" /\ status' # 0))
    BY <1>1 DEF captures, Finish, Continue
  <2>3. Fetched' /\ Len(held') = 0
    BY <2>2 DEF Fetched
  <2> QED
    BY <2>1, <2>2, <2>3 DEF Seen, Remaining
<1>2. CASE point = "word"
  <2>1. /\ left \in Nat \ {0} /\ capture.used >= left /\ Len(held) \in 0 .. 3 /\ Fetched
    BY <1>2 DEF LinkInv, Seen, Remaining
  <2>2. /\ ~Empty(capture') /\ Front(capture') = Front(capture)
        /\ capture'.used >= left
    BY <2>1, AnsweredQueues
  <2>3. status' = WordByte(Front(capture'), Len(held) + 1)
    BY <1>2, <2>2, PageAnswer DEF Reading
  <2>4. status' \in Nat
    <3>1. Front(capture') \in CapturedEdge
      BY <2>2, AnswerClock, FrontHeld DEF EngineInv, Inv, TypeOK, QueueTypes, Written,
         QueuesWritten
    <3>2. PICK n \in 0 .. 3 : n = Len(held)
      BY <2>1
    <3>3. n + 1 \in 1 .. 4
      BY <3>2
    <3> QED
      BY <2>3, <3>1, <3>2, <3>3, WordBytesSpell
  <2>5. /\ held' = Append(held, status') /\ left' = left
        /\ point' = IF Len(held') < 4 THEN "word" ELSE "pop_event"
    BY <1>2 DEF captures, Finish, Continue, WordBytes
  <2>6. /\ held' \in Seq(Nat) /\ Len(held') = Len(held) + 1
        /\ \A k \in 1 .. Len(held) : held'[k] = held[k]
        /\ held'[Len(held) + 1] = status'
    BY <2>1, <2>4, <2>5 DEF Fetched
  <2>7. Fetched'
    <3> SUFFICES ASSUME NEW k \in 1 .. Len(held')
                 PROVE  held'[k] = WordByte(Front(capture'), k)
      BY <2>6 DEF Fetched
    <3>1. CASE k \in 1 .. Len(held)
      BY <2>1, <2>2, <2>6, <3>1 DEF Fetched
    <3>2. CASE k = Len(held) + 1
      BY <2>3, <2>6, <3>2
    <3> QED
      BY <2>1, <2>6, <3>1, <3>2
  <2>8. Remaining' = left
    BY <2>5, AnswerClock DEF Remaining
  <2>9. Len(held') \in 0 .. 4 /\ (point' = "word" => Len(held') \in 0 .. 3)
        /\ (point' = "pop_event" => Len(held') = 4)
    <3>1. PICK n \in 0 .. 3 : n = Len(held) /\ Len(held') = n + 1
      BY <2>1, <2>6
    <3> QED
      BY <2>5, <3>1
  <2> QED
    BY <2>1, <2>2, <2>5, <2>7, <2>8, <2>9 DEF Seen
<1>3. CASE point = "pop_event"
  <2>1. ~Before
    BY PhaseLengths DEF Answered, Before
  <2>2. left \in Nat \ {0} /\ capture.used >= left - 1
    BY <1>3, <2>1 DEF LinkInv, Seen, Remaining
  <2>3. capture'.used >= left - 1
    BY <2>2, AnsweredQueues
  <2>4. /\ held' = << >> /\ left' = left - 1
        /\ (point' = "none" \/ (point' = "word" /\ left # 1))
    BY <1>3 DEF captures, Finish, Continue
  <2>5. Fetched' /\ Len(held') = 0
    BY <2>4 DEF Fetched
  <2> QED
    BY <2>2, <2>3, <2>4, <2>5 DEF Seen, Remaining
<1> QED
  BY <1>1, <1>2, <1>3 DEF captures

(***************************************************************************)
(* A pause, a call, and the whole step.                                    *)
(***************************************************************************)
LEMMA PauseKeeps ==
  ASSUME NEW pins, pins.run, EngineClock(pins, 0), LinkInv, Pause
  PROVE  Streaming' /\ Seen'
<1>1. /\ tick = 0 /\ tick' = 0 /\ point' = point /\ call' = call
      /\ held' = held /\ left' = left /\ Before /\ Before'
  BY PhaseLengths DEF Pause, hostVars, Before
<1>2. ~tx_push /\ ~rx_pop(0) /\ ~capture_pop(0)
  BY <1>1, StrobeFalls, PhaseLengths DEF LinkInv, tx_push, rx_pop, capture_pop
<1>3. run_prev => run
  BY DEF LinkInv, WalkInv, Wires
<1>4. Streaming'
  BY <1>1, <1>3, RunClock DEF LinkInv, Streaming, Idle
<1>5. CASE Idle \/ point \in ReadyPoints
  <2>1. point \in ReadyPoints \cup {"none"}
    BY <1>5 DEF LinkInv, WalkInv, Walk, Idle
  <2> QED
    BY <1>1, <1>4, <2>1 DEF Seen, ReadyPoints
<1>6. CASE ~Idle /\ point \notin ReadyPoints
  <2>1. ServeByte(0) /\ (halted => halted')
    BY <1>3, <1>6, RunClock DEF LinkInv, Streaming
  <2>2. /\ ~Full(tx) => ~Full(tx')
        /\ ~Empty(rx) => ~Empty(rx') /\ Front(rx') = Front(rx)
        /\ ~Empty(capture) => /\ ~Empty(capture') /\ Front(capture') = Front(capture)
                              /\ capture'.used >= capture.used
    BY <1>2, <2>1, QueuesKeep DEF LinkInv, EngineInv
  <2>3. capture.used \in Nat /\ capture'.used \in Nat
    <3>1. EngineInv'
      BY EngineStep DEF LinkInv
    <3> QED
      BY <3>1, DepthAssumption DEF LinkInv, EngineInv, Inv, TypeOK, QueueTypes, RingOf
  <2>4. point \in {"word", "pop_event"} =>
          /\ left \in Nat \ {0} /\ capture.used >= left /\ ~Empty(capture)
          /\ Remaining' = left
    BY <1>1, <2>3 DEF LinkInv, Seen, Remaining, Empty
  <2>5. point \in {"word", "pop_event"} => capture'.used >= Remaining' /\ (Fetched => Fetched')
    BY <1>1, <2>2, <2>3, <2>4 DEF Fetched
  <2>6. Streaming'
    BY <1>4, <1>1, <2>1 DEF LinkInv
  <2> QED
    BY <1>1, <2>1, <2>2, <2>4, <2>5, <2>6 DEF LinkInv, Seen
<1> QED
  BY <1>4, <1>5, <1>6

LEMMA HostStep ==
  ASSUME LinkInv, HostClock
  PROVE  LinkInv'
<1>1. PICK lanes \in LaneLevels : Working(lanes) \/ Pausing(lanes)
  BY DEF HostClock
<1> DEFINE Low  == Pins(FALSE, rewind_pin, lanes)
           Busy == Pins(LoadHigh, CommandAt, lanes)
<1>2. /\ Low.run /\ ~Low.load
      /\ Busy.run /\ (Busy.load <=> LoadHigh) /\ (Busy.rewind <=> CommandAt)
  BY DEF Pins
<1>3. CASE Pause /\ EngineClock(Low, 0)
  <2>1. /\ tick = 0 /\ tick' = 0 /\ UNCHANGED <<call, point, outcome>>
    BY <1>3 DEF Pause, hostVars
  <2>2. Walk' /\ Before'
    BY <2>1, PhaseLengths DEF LinkInv, WalkInv, Walk, Idle, Before
  <2>3. Wires'
    BY <1>2, <1>3, <2>1, PortClock, QuietWires DEF LinkInv
  <2>4. EngineInv'
    BY <1>2, <1>3, EngineStep DEF LinkInv
  <2>5. Streaming' /\ Seen'
    BY <1>2, <1>3, PauseKeeps
  <2> QED
    BY <2>1, <2>2, <2>3, <2>4, <2>5 DEF LinkInv, WalkInv, Pages, Strobed
<1>4. CASE Calls /\ EngineClock(Low, 0)
  <2>1. /\ Idle /\ tick' = tick /\ point' = "ready_used" /\ outcome' = "none"
        /\ call' \in {"send", "receive", "captures"}
    BY <1>4 DEF Calls, Call
  <2>2. tick = 0 /\ tick' = 0
    BY <2>1 DEF LinkInv, WalkInv, Walk
  <2>3. Walk' /\ Before'
    BY <2>1, <2>2, PhaseLengths DEF Walk, Idle, Before, ReadyPoints
  <2>4. Wires'
    BY <1>2, <1>4, <2>2, PortClock, QuietWires DEF LinkInv
  <2>5. EngineInv'
    BY <1>2, <1>4, EngineStep DEF LinkInv
  <2>6. Streaming' /\ Seen' /\ Pages' /\ Strobed'
    BY <2>1, <2>2, <2>3 DEF Streaming, ReadyPoints, Seen, Pages, Strobed
  <2> QED
    BY <2>3, <2>4, <2>5, <2>6 DEF LinkInv, WalkInv
<1>5. CASE ~Idle /\ EngineClock(Busy, ByteAt) /\ Exchanging
  <2>1. /\ tick < LastTick /\ tick' = tick + 1
        /\ UNCHANGED <<call, point, outcome>>
    BY <1>5 DEF Exchanging
  <2>2. Walk'
    BY <2>1, PhaseLengths, <1>5 DEF LinkInv, WalkInv, Walk, Idle
  <2>3. Wires'
    BY <1>2, <1>5, <2>1, PortClock, ExchangeWires DEF LinkInv
  <2>4. EngineInv'
    BY <1>2, <1>5, EngineStep DEF LinkInv
  <2>5. Streaming' /\ Pages' /\ Strobed' /\ Seen'
    BY <1>2, <1>5, InsideStreaming, InsidePages, InsideStrobed, InsideSeen
  <2> QED
    BY <2>2, <2>3, <2>4, <2>5 DEF LinkInv, WalkInv
<1>6. CASE ~Idle /\ EngineClock(Busy, ByteAt) /\ Answered
  <2>1. /\ tick' = 0 /\ Before' /\ Wires' /\ EngineInv'
    BY <1>2, <1>6, AnswerClock
  <2>2. Walk' /\ Streaming'
    BY <1>2, <1>6, AnsweredWalk, AnsweredStreaming
  <2>3. Seen'
    <3>1. CASE ready(status')
      <4>1. point' \in ReadyPoints \cup {"none", "flags", "count", "events"}
        BY <3>1 DEF ready, Continue, Retry, Finish, FirstPoint, ReadyPoints, LinkInv, WalkInv,
           Walk, Idle
      <4> QED
        BY <4>1 DEF Seen, ReadyPoints
    <3>2. CASE point \notin ReadyPoints
               /\ (send(status') \/ receive(status') \/ captures(status'))
      BY <1>2, <1>6, <3>2, SeenBySend, SeenByReceive, SeenByCaptures
    <3> QED
      BY <1>6, <3>1, <3>2 DEF Answered
  <2> QED
    BY <2>1, <2>2, <2>3 DEF LinkInv, WalkInv, Pages, Strobed
<1> QED
  BY <1>1, <1>3, <1>4, <1>5, <1>6 DEF Working, Pausing

LEMMA LinkInitInv == LinkInit => LinkInv
<1> SUFFICES ASSUME LinkInit PROVE LinkInv
  OBVIOUS
<1>1. PICK n \in 0 .. MemWords : \E program \in [1 .. n -> Words] : Loaded(program)
  BY DEF LinkInit
<1>2. PICK program \in [1 .. n -> Words] : Loaded(program)
  BY <1>1
<1>3. EngineInv
  BY <1>2, LoadedInv DEF Loaded, ResetEngine, EngineInv, EndSeenWithRun, Started
<1>4. /\ call = "none" /\ point = "none" /\ tick = 0 /\ tick \in 0 .. LastTick
      /\ ~input_meta.load /\ ~input_sync.load /\ ~load_prev
      /\ ~run_prev /\ ~input_sync.run
  BY <1>2, PhaseLengths DEF LinkInit, HostInit, Loaded, ResetEngine, Quiet
<1>5. ~High(0 - 1) /\ ~High(0 - 2) /\ ~High(0 - 3)
  BY PhaseAssumption DEF High
<1>6. Walk /\ Wires
  BY <1>4, <1>5 DEF Walk, Wires, Idle, ReadyPoints, run, load
<1>7. Streaming /\ Pages /\ Strobed /\ Seen
  BY <1>4 DEF Streaming, Pages, Strobed, Seen, Idle, Reading, ReadyPoints
<1> QED
  BY <1>3, <1>6, <1>7 DEF LinkInv, WalkInv

\* The inductive invariant of the host beside the engine.
THEOREM LinkInvariance == LinkSpec => []LinkInv
<1>1. LinkInv /\ [HostClock]_linkVars => LinkInv'
  <2> SUFFICES ASSUME LinkInv, [HostClock]_linkVars PROVE LinkInv'
    OBVIOUS
  <2>1. CASE HostClock
    BY <2>1, HostStep
  <2>2. CASE UNCHANGED linkVars
    <3>1. UNCHANGED vars /\ UNCHANGED hostVars
      BY <2>2 DEF linkVars
    <3>2. Inv' /\ EndSeenWithRun'
      BY <3>1, NextInv, EndSeenStep DEF LinkInv, EngineInv
    <3>3. /\ input_meta' = input_meta /\ input_sync' = input_sync /\ load_prev' = load_prev
          /\ run_prev' = run_prev /\ running' = running /\ halted' = halted
          /\ rx_shift' = rx_shift /\ stream_enabled' = stream_enabled
          /\ tx' = tx /\ rx' = rx /\ capture' = capture /\ read_page' = read_page
      BY <3>1 DEF vars, syncVars, statusVars, shiftVars, streamVars, queueVars
    <3>4. /\ call' = call /\ point' = point /\ tick' = tick /\ held' = held /\ left' = left
          /\ strobes' = strobes /\ outcome' = outcome
      BY <3>1 DEF hostVars
    <3>5. Started' /\ Walk' /\ Wires' /\ Streaming'
      BY <3>3, <3>4 DEF LinkInv, EngineInv, WalkInv, Started, Walk, Wires, Streaming, Idle,
         CommandAt, High, run, load
    <3>6. ByteAt' = ByteAt /\ Before' = Before
      BY <3>4 DEF ByteAt, Before
    <3>7. Pages' /\ Strobed' /\ Seen'
      BY <3>3, <3>4, <3>6 DEF LinkInv, Pages, Strobed, Seen, Idle, Fetched, Remaining, Before
    <3> QED
      BY <3>2, <3>5, <3>7 DEF LinkInv, EngineInv, WalkInv
  <2> QED
    BY <2>1, <2>2
<1> QED
  BY <1>1, LinkInitInv, PTL DEF LinkSpec

(***************************************************************************)
(* ready() returns only once the program streams, for every legacy status  *)
(* byte and every legacy receive byte that may stand in for the pages.     *)
(***************************************************************************)
THEOREM ReadyIsTrue == LinkSpec => []ReadyMeansStreaming
BY LinkInvariance, PTL DEF LinkInv, Streaming, ReadyMeansStreaming

(***************************************************************************)
(* An exchange acts on a queue exactly once if it is meant to, and never   *)
(* otherwise, for every length of the LOAD phases above two clocks.        *)
(***************************************************************************)
THEOREM ActOnce == LinkSpec => ExchangesActOnce
<1>1. LinkInv /\ [HostClock]_linkVars =>
        [tick = LastTick => strobes' = Bit(point \in {"data", "pop", "pop_event"})]_linkVars
  <2> SUFFICES ASSUME LinkInv, HostClock, tick = LastTick
               PROVE  strobes' = Bit(point \in {"data", "pop", "pop_event"})
    OBVIOUS
  <2>1. ~Idle /\ tick \in Nat /\ tick > 0 /\ tick # StrobeTick /\ ~Before
    BY PhaseLengths DEF LinkInv, WalkInv, Walk, Before
  <2>2. Answered
    <3>1. ~Pause /\ ~Exchanging
      BY <2>1, PhaseLengths DEF Pause, Exchanging
    <3>2. ~Calls
      BY <2>1 DEF Calls, Call
    <3> QED
      BY <3>1, <3>2 DEF HostClock, Working, Pausing
  <2>3. strobes' = strobes + Moved
    BY <2>2 DEF Answered
  <2>4. Moved = 0 /\ strobes = Bit(point \in Acting)
    BY <2>1, MovedOnce DEF LinkInv, Strobed
  <2> QED
    BY <2>3, <2>4 DEF Bit, Acting
<1> QED
  BY <1>1, LinkInvariance, PTL DEF LinkSpec, ExchangesActOnce

(***************************************************************************)
(* The byte and the edge that a caller gets are the ones that leave the    *)
(* queue, whatever is pushed between the reads and the pop.                *)
(***************************************************************************)
THEOREM PopsAreTrue == LinkSpec => PopsWhatItRead
<1> DEFINE Taken == /\ rx_pop(ByteAt) => held = <<Front(rx)>>
                    /\ capture_pop(ByteAt) => decode_capture(held) = Front(capture)
<1>1. LinkInv => Taken
  <2> SUFFICES ASSUME LinkInv PROVE Taken
    OBVIOUS
  <2>1. CASE Idle
    BY <2>1, StrobeFalls DEF LinkInv, rx_pop, capture_pop
  <2>2. CASE ~Idle
    <3>1. rx_pop(ByteAt) => held = <<Front(rx)>>
      BY <2>2, StrobesAct, PhaseLengths DEF LinkInv, Seen, Before
    <3>2. ASSUME capture_pop(ByteAt) PROVE decode_capture(held) = Front(capture)
      <4>1. Len(held) = 4 /\ Fetched /\ ~Empty(capture)
        BY <2>2, <3>2, StrobesAct, PhaseLengths DEF LinkInv, Seen, Before, capture_pop
      <4>2. Front(capture) \in CapturedEdge
        BY <4>1, FrontHeld
           DEF LinkInv, EngineInv, Inv, TypeOK, QueueTypes, Written, QueuesWritten
      <4>3. /\ held[1] = WordByte(Front(capture), 1) /\ held[2] = WordByte(Front(capture), 2)
            /\ held[3] = WordByte(Front(capture), 3) /\ held[4] = WordByte(Front(capture), 4)
        BY <4>1 DEF Fetched
      <4>4. decode_capture(held) = [time |-> Front(capture).time, lanes |-> Front(capture).lanes]
        <5>1. held[2] + 256 * held[3] + 65536 * held[4] = Front(capture).time
          BY <4>2, <4>3, WordBytesSpell
        <5>2. {i \in Lanes : Has(held[1], i)} = Front(capture).lanes
          BY <4>2, <4>3, WordBytesSpell
        <5>3. decode_capture(held).time = Front(capture).time
          BY <5>1 DEF decode_capture
        <5>4. decode_capture(held).lanes = Front(capture).lanes
          BY <5>2 DEF decode_capture
        <5>5. decode_capture(held) =
                [time |-> decode_capture(held).time, lanes |-> decode_capture(held).lanes]
          BY DEF decode_capture
        <5> QED
          BY <5>3, <5>4, <5>5
      <4> QED
        BY <4>2, <4>4 DEF CapturedEdge
    <3> QED
      BY <3>1, <3>2
  <2> QED
    BY <2>1, <2>2
<1>2. LinkInv /\ [HostClock]_linkVars => [Taken]_linkVars
  BY <1>1
<1> QED
  BY <1>2, LinkInvariance, PTL DEF LinkSpec, PopsWhatItRead

(***************************************************************************)
(* receive() reports a halt only with nothing left to receive, although    *)
(* the program may push and halt between any two of its reads.             *)
(***************************************************************************)
THEOREM NothingIsLeft == LinkSpec => NothingLeftBehind
<1>1. LinkInv /\ [HostClock]_linkVars =>
        [call = "receive" /\ outcome' = "halted" => Empty(rx') /\ ~running']_linkVars
  <2> SUFFICES ASSUME LinkInv, HostClock, call = "receive", outcome' = "halted"
               PROVE  Empty(rx') /\ ~running'
    OBVIOUS
  <2>1. ~Idle /\ outcome = "none"
    BY DEF LinkInv, WalkInv, Walk, Idle
  <2>2. PICK lanes \in LaneLevels :
          EngineClock(Pins(LoadHigh, CommandAt, lanes), ByteAt) /\ Answered
    BY <2>1 DEF HostClock, Working, Pausing, Pause, hostVars, Calls, Call, Exchanging
  <2>3. point = "recount" /\ status' = 0
    BY <2>1, <2>2
       DEF Answered, ready, send, receive, captures, Continue, Retry, Finish
  <2> DEFINE pins == Pins(LoadHigh, CommandAt, lanes)
  <2>4. pins.run /\ (pins.load <=> LoadHigh)
    BY DEF Pins
  <2>5. status' = rx'.used
    BY <2>1, <2>2, <2>3, <2>4, PageAnswer DEF Reading
  <2>6. halted'
    BY <2>1, <2>2, <2>3, <2>4, AnsweredQueues DEF LinkInv, Seen, ReadyPoints
  <2>7. ~running'
    BY <2>1, <2>2, <2>4, <2>6, AnswerClock
       DEF EngineInv, Inv, FailClosedSafely, RunsCompleteImage
  <2> QED
    BY <2>3, <2>5, <2>7 DEF Empty
<1> QED
  BY <1>1, LinkInvariance, PTL DEF LinkSpec, NothingLeftBehind
=================================================================================
