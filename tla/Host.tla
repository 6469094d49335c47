----------------------------------- MODULE Host -----------------------------------
(***************************************************************************)
(* The Host helper of tools/streaming.py beside the running engine.  A     *)
(* call is a walk over control points, each one exchange: LOAD low, high   *)
(* and low again for PhaseClocks clocks with the byte and REWIND held, and *)
(* then the answer on uo_out decides where the call goes.  One call runs   *)
(* at a time, and the transport may pause before any exchange.             *)
(***************************************************************************)
EXTENDS EnginePort

CONSTANTS
  PhaseClocks,   \* clocks of each LOAD phase: four in the source
  PollLimit,     \* poll_limit: 10000 in the source
  SendBytes,     \* the bytes the caller sends
  LaneLevels     \* what the peers put on the lanes

\* LOAD takes three clocks through the synchronizer and the edge detector.
ASSUME PhaseAssumption == PhaseClocks \in Nat /\ PhaseClocks > 2
ASSUME PollAssumption  == PollLimit \in Nat \ {0}
\* The design stays selected while a host uses it.
ASSUME SelectedAssumption == ~Deselects
ASSUME SendAssumption  == SendBytes \subseteq HostBytes

VARIABLES
  call,       \* the method running, or "none"
  point,      \* the exchange it is at
  tick,       \* clocks of that exchange already over
  polls,      \* iterations of the poll loop already over
  held,       \* the bytes the method holds: to send, or read so far
  left,       \* captured edges still to fetch
  rewind_pin, \* REWIND, as the last exchange left it
  strobes,    \* queue operations of this exchange (history)
  outcome     \* how the last call ended

hostVars == <<call, point, tick, polls, held, left, rewind_pin, strobes, outcome>>
linkVars == <<vars, hostVars>>

Idle == call = "none"

HostInit ==
  /\ call = "none" /\ point = "none" /\ tick = 0 /\ polls = 0
  /\ held = << >> /\ left = 0 /\ rewind_pin = FALSE /\ strobes = 0
  /\ outcome = "none"

\* The byte of the exchange, and whether it is a command.
ByteAt ==
  CASE point = "ready_used"  -> 2
    [] point \in {"ready_flags", "flags"} -> 1
    [] point = "data"        -> Head(held)
    [] point \in {"count", "recount"} -> 3
    [] point = "peek"        -> 4
    [] point = "pop"         -> PopReceived
    [] point = "events"      -> 5
    [] point = "word"        -> 6 + Len(held)
    [] point = "pop_event"   -> PopCaptured
    [] OTHER                 -> 0
CommandAt == point # "data"

Continue(next) == point' = next /\ UNCHANGED <<call, polls, outcome>>

Finish(how) ==
  /\ call' = "none" /\ point' = "none" /\ polls' = 0
  /\ outcome' = how

\* Once more round the poll loop, or TimeoutError.
Retry(first) ==
  IF polls + 1 < PollLimit
  THEN /\ point' = first /\ polls' = polls + 1
       /\ UNCHANGED <<call, outcome>>
  ELSE Finish("timeout")

(***************************************************************************)
(* ready(): the occupancy page must show an occupancy and then the flags   *)
(* page must show streaming.                                               *)
(***************************************************************************)
ReadyPoints == {"ready_used", "ready_flags"}

FirstPoint == CASE call = "send"     -> "flags"
                [] call = "receive"  -> "count"
                [] call = "captures" -> "events"

\* A ready() that trusts the flags page alone.
ReadyOnFlags(v) ==
  /\ point \in ReadyPoints
  /\ \/ point = "ready_used" /\ Continue("ready_flags")
     \/ /\ point = "ready_flags"
        /\ IF Has(v, 4)
           THEN point' = FirstPoint /\ polls' = 0 /\ UNCHANGED <<call, outcome>>
           ELSE Retry("ready_used")
  /\ UNCHANGED <<held, left>>

ready(v) ==
  /\ point \in ReadyPoints
  /\ \/ /\ point = "ready_used"
        /\ IF v <= 8 THEN Continue("ready_flags") ELSE Retry("ready_used")
     \/ /\ point = "ready_flags"
        /\ IF Has(v, 4)
           THEN point' = FirstPoint /\ polls' = 0 /\ UNCHANGED <<call, outcome>>
           ELSE Retry("ready_used")
  /\ UNCHANGED <<held, left>>

\* A send that does not ask for room.
SendWithoutRoom(v) ==
  /\ call = "send" /\ UNCHANGED <<held, left>>
  /\ \/ /\ point = "flags"
        /\ IF Has(v, 7) \/ Has(v, 5) THEN Finish("halted")
           ELSE IF Has(v, 4) THEN Continue("data") ELSE Retry("flags")
     \/ point = "data" /\ Finish("done")

send(v) ==
  /\ call = "send" /\ UNCHANGED <<held, left>>
  /\ \/ /\ point = "flags"
        /\ IF Has(v, 7) \/ Has(v, 5) THEN Finish("halted")
           ELSE IF Has(v, 4) /\ Has(v, 2) THEN Continue("data") ELSE Retry("flags")
     \/ point = "data" /\ Finish("done")

\* A receive that believes the count it read before the status.
ReceiveWithoutRecount(v) ==
  /\ call = "receive" /\ UNCHANGED left
  /\ \/ point = "count" /\ Continue(IF v # 0 THEN "peek" ELSE "flags") /\ UNCHANGED held
     \/ point = "peek" /\ held' = <<v>> /\ Continue("pop")
     \/ point = "pop" /\ Finish("done") /\ UNCHANGED held
     \/ /\ point = "flags" /\ UNCHANGED held
        /\ IF Has(v, 7) \/ Has(v, 5) THEN Finish("halted") ELSE Retry("count")

receive(v) ==
  /\ call = "receive" /\ UNCHANGED left
  /\ \/ point = "count" /\ Continue(IF v # 0 THEN "peek" ELSE "flags") /\ UNCHANGED held
     \/ point = "peek" /\ held' = <<v>> /\ Continue("pop")
     \/ point = "pop" /\ Finish("done") /\ UNCHANGED held
     \/ /\ point = "flags" /\ UNCHANGED held
        /\ IF Has(v, 7) \/ Has(v, 5) THEN Continue("recount") ELSE Retry("count")
     \/ /\ point = "recount" /\ UNCHANGED held
        /\ IF v = 0 THEN Finish("halted") ELSE Retry("count")

WordBytes == 4

\* A loop that asks again how many events there are instead of taking a snapshot.
CapturesUntilEmpty(v) ==
  /\ call = "captures"
  /\ \/ /\ point = "events" /\ left' = v /\ held' = << >>
        /\ IF v = 0 THEN Finish("done") ELSE Continue("word")
     \/ /\ point = "word" /\ held' = Append(held, v) /\ UNCHANGED left
        /\ Continue(IF Len(held') < WordBytes THEN "word" ELSE "pop_event")
     \/ /\ point = "pop_event" /\ held' = << >> /\ left' = left - 1
        /\ Continue("events")

captures(v) ==
  /\ call = "captures"
  /\ \/ /\ point = "events" /\ left' = v /\ held' = << >>
        /\ IF v = 0 THEN Finish("done") ELSE Continue("word")
     \/ /\ point = "word" /\ held' = Append(held, v) /\ UNCHANGED left
        /\ Continue(IF Len(held') < WordBytes THEN "word" ELSE "pop_event")
     \/ /\ point = "pop_event" /\ held' = << >> /\ left' = left - 1
        /\ IF left = 1 THEN Finish("done") ELSE Continue("word")

\* The bytes of the word in the other order.
DecodeHighFirst(word) ==
  [time |-> word[3] + 256 * word[2] + 65536 * word[1],
   lanes |-> {i \in Lanes : Has(word[4], i)}]

decode_capture(word) ==
  [time |-> word[2] + 256 * word[3] + 65536 * word[4],
   lanes |-> {i \in Lanes : Has(word[1], i)}]

(***************************************************************************)
(* One clock: the engine takes its step with the pins the host drives.     *)
(***************************************************************************)
LoadHigh == tick \in PhaseClocks .. 2 * PhaseClocks - 1
LastTick == 3 * PhaseClocks - 1

Moved == Bit(tx_push \/ rx_pop(ByteAt) \/ capture_pop(ByteAt))

\* A call is made: its first exchange follows.
Call(method, bytes) ==
  /\ Idle
  /\ call' = method /\ point' = "ready_used" /\ held' = bytes /\ polls' = 0
  /\ outcome' = "none" /\ left' = 0
  /\ UNCHANGED <<tick, rewind_pin, strobes>>

Pause == tick = 0 /\ UNCHANGED hostVars

Exchanging ==
  /\ ~Idle /\ tick < LastTick
  /\ tick' = tick + 1
  /\ rewind_pin' = CommandAt
  /\ strobes' = (IF tick = 0 THEN 0 ELSE strobes) + Moved
  /\ UNCHANGED <<call, point, polls, held, left, outcome>>

\* The answer is read after the last clock of the exchange.
Answered ==
  /\ ~Idle /\ tick = LastTick
  /\ tick' = 0
  /\ strobes' = strobes + Moved
  /\ \/ ready(status')
     \/ point \notin ReadyPoints /\ (send(status') \/ receive(status') \/ captures(status'))
  /\ UNCHANGED rewind_pin

Calls == \/ \E b \in SendBytes : Call("send", <<b>>)
         \/ Call("receive", << >>) \/ Call("captures", << >>)

\* The host makes a call or is in the middle of one; or it pauses with LOAD low.
Working(lanes) ==
  \/ Calls /\ EngineClock(Pins(FALSE, rewind_pin, lanes), 0)
  \/ ~Idle /\ EngineClock(Pins(LoadHigh, CommandAt, lanes), ByteAt) /\ (Exchanging \/ Answered)
Pausing(lanes) == Pause /\ EngineClock(Pins(FALSE, rewind_pin, lanes), 0)

HostClock == \E lanes \in LaneLevels : Working(lanes) \/ Pausing(lanes)

FairClock == \E lanes \in LaneLevels : Working(lanes)

\* The host meets an engine that holds some program and raises RUN.
LinkInit ==
  /\ HostInit
  /\ \E n \in 0 .. MemWords : \E program \in [1 .. n -> Words] : Loaded(program)

LinkSpec == LinkInit /\ [][HostClock]_linkVars
=================================================================================
