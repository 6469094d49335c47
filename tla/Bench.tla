----------------------------------- MODULE Bench -----------------------------------
(***************************************************************************)
(* A program on the engine with a peer on its lanes and a host that hands  *)
(* it bytes and takes what it received, each whenever it likes: the Bus of *)
(* the tests.  A module of a peer adds the peer's registers and its step.  *)
(***************************************************************************)
EXTENDS EnginePort

CONSTANT Jobs    \* [program, bytes: what the host sends, ...]

\* The bench keeps the design selected and out of reset, and the store holds
\* every program.
ASSUME BenchAssumption ==
  /\ ~Deselects /\ ~Resets
  /\ \A j \in Jobs : j.program \in Seq(Words) /\ Len(j.program) <= MemWords

VARIABLES
  job,           \* the job of this run
  unsent,        \* bytes of the host that are not yet in the transmit queue
  got            \* bytes the host has taken from the receive queue

benchVars == <<vars, job, unsent, got>>

BenchInit ==
  /\ job \in Jobs /\ Loaded(job.program)
  /\ unsent = job.bytes /\ got = << >>

\* LOAD is at rest, so that its next level is an edge; a byte goes to a queue
\* with room, and a pop to one that holds something.
AtRest  == ~input_meta.load /\ ~load /\ ~load_prev
MaySend == AtRest /\ stream_enabled /\ unsent # << >> /\ ~Full(tx)
MayPop  == AtRest /\ stream_enabled /\ ~Empty(rx)

HostPins(lanes) ==
  {Pins(FALSE, FALSE, lanes)}
  \cup (IF MaySend THEN {Pins(TRUE, FALSE, lanes)} ELSE {})
  \cup (IF MayPop THEN {Pins(TRUE, TRUE, lanes)} ELSE {})

HostByte == IF command THEN PopReceived ELSE IF unsent = << >> THEN 0 ELSE Head(unsent)

\* A clock with these levels on the lanes.
BenchClock(lanes) ==
  /\ \E pins \in HostPins(lanes) : EngineClock(pins, HostByte)
  /\ unsent' = IF host_strobe /\ ~command THEN Tail(unsent) ELSE unsent
  /\ got' = IF rx_pop(HostByte) THEN Append(got, Front(rx)) ELSE got
  /\ UNCHANGED job

\* The host strobes when it can: it gets to its bytes in the end.
Prompt == MaySend \/ MayPop => input_meta'.load

\* The program is held by an empty or a full queue.
Stalled == issue /\ stream_enabled
           /\ \/ instruction.op = "PULL" /\ Empty(tx)
              \/ instruction.op = "PUSH" /\ Full(rx)

\* The bytes received so far, in order.
Received == got \o Contents(rx)
====================================================================================
