# Verification of the protocol engine

The repository builds a small chip: an engine that executes up to 64 loaded
instructions, drives and samples five bidirectional lanes with clock accuracy,
and exchanges bytes and captured edges with a host while a program runs; and the
Python around it, which generates programs for it, talks to it and uses it to
tell UART receivers apart. These modules state what the engine (`src/engine.v`), the
host and the programs (`tools/`) do, check it with TLC on small instances or at
the sizes of the source, and prove the engine's central invariants with TLAPS
for every size.

## The system

| Part | Source | State | Operations | Makes it correct |
| --- | --- | --- | --- | --- |
| Host port and loader | `src/engine.v:11-20, 164-190` | two synchronizer stages, edge detectors, program store, byte index, length, error | synchronize, take a byte, complete a word, overrun, rewind | words are stored whole and in order; frozen while RUN is high |
| Stream queues | `src/engine.v:30-51, 78-126` | three ring buffers, read page, sticky errors, timestamp, previous lanes | push and pop on either end, command, capture an edge, clear | FIFO order, no silent loss, nothing survives a run |
| Executor | `src/engine.v:21-29, 224-372` | pc, delay, WAIT count, shift registers, counters, pins, streaming flags | nineteen instructions, delay, stall, fail closed | exact durations, exact timeouts, every bad word stops and releases the pins |
| Lifecycle | `src/engine.v:138-223` | running, halted, fault | reset, deselect, RUN low, start | only a complete image runs, only an edge of RUN starts it |
| Status and pages | `src/engine.v:52-74` | none (combinational) | read | the host never takes a legacy program for a streaming one |
| Host helper | `tools/streaming.py:259-317` | none but the poll count | page, ready, send, receive, captures | no byte lost or doubled, every call ends |
| Firmware | `tools/streaming.py:38-256`, `tools/program.py:73-137` | programs | SPI, UART, I2C, fault demo | the peer sees the protocol; STOP is sent before a trap |
| Fingerprinting | `tools/fingerprint.py` | tree, place in it | verdict, merge, decode, build_tree, route, identify | every pair of receivers that can be told apart is |
| Receiver models | `test/receivers.py` | sampler state | one clock | the twin samples like the original |
| Peers | `test/test_streaming.py`, `test/test_fingerprint.py` | bus levels, bit counts | one clock | the environment of the firmware |
| Wrapper, scripts, build | `src/project.v`, `formal/`, `tools/` | | | not modelled, see below |

The host drives `pins_in[7:5]` (LOAD, RUN, REWIND) and `host_data`; the lanes are
`pins_in[4:0]`. With RUN low a LOAD edge is a program byte. With RUN high, once the
program has executed STREAM, a LOAD edge is a byte to transmit, or a command if
REWIND is high. Two always blocks share the clock: one owns the queues, the other
the program store and execution. Each decides from the values before the edge, and
both decide separately when streaming is over, so most of the hard behaviour lies
between them. It is listed line by line under `hazards` in `PROJECT.json`.

## Modules

| Module | Models |
| --- | --- |
| `Ring` | the circular buffer the code keeps three times: pointers, count, one clock edge |
| `BoundedFifo` | what a queue promises, over a sequence |
| `RingFifo` | one queue alone under all requests; implements `BoundedFifo` |
| `EngineState` | registers, wires and constants shared by the engine's modules |
| `HostPort` | synchronizer, edge detectors, loader |
| `StreamQueues` | the always block of lines 78-126 |
| `Executor` | the instruction case, one action per instruction and outcome |
| `Engine` | the always blocks on one clock: reset, deselect, start, every step |
| `EngineContract` | what the engine promises around the instructions: image, phase, driven pins |
| `EngineProperties` | type invariant, invariants, action properties, refinement, progress |
| `RunHistory` | the history of the RUN pin beside the engine, and what a rise of it decides |
| `Timing` | history variables beside the engine, and the clock-exact properties |
| `EnginePort` | the engine from its pins: one clock with given levels, the status byte, the pages |
| `Host`, `HostProperties` | the helper's calls, exchange by exchange, beside the engine; what a caller relies on |
| `Firmware`, `I2CFirmware`, `CampaignFirmware` | the generators: sequences of decoded instructions, word for word |
| `Bench` | a job on the engine with a host that hands over and takes bytes whenever it likes |
| `I2CBus`, `SPIBus`, `UARTLine` | `Bench` with the peer of each protocol |
| `Serial` | the benches of SPI and UART side by side, and the calls the generators accept |
| `Receivers` | the seven UART receivers, one clock at a time |
| `Fingerprint` | the probes, verdicts, reports and their decoding |
| `Campaign` | `Bench` with receivers listening: fault demo and fingerprinting fixture |
| `ProbeTree` | the decision tree and `identify` |
| `MCEngine`, `MCLoader`, `MCTiming`, `MCHost`, `MCI2C`, `MCSerial`, `MCCampaign`, `MCTree` | the TLC instances |
| `RingLemmas`, `RingProofs` | proofs about the ring and the FIFO |
| `EngineProofs` | proofs of the engine's invariants, and of what a program in the store does clock by clock |
| `StepProofs` | proofs of the engine's step properties, its contract and the clock-exact properties |
| `HostProofs` | proofs of the helper beside the engine |
| `I2CProofs` | proofs about the I2C programs on their bus |
| `SerialProofs` | proofs about the SPI and UART programs on the engine |
| `ReceiverProofs` | proof that the twin receiver hears what the original hears |

One step of `Engine` is one rising edge. `ResetEdge`, `Deselected`, `Stopped` and
`Start` are the branches of lines 138-223; `Clocked(Step)` is a clock with ena, RUN and
the previous RUN high, on which the executor takes one `Step` while the synchronizer
shifts and the queues `Serve`. Exactly one disjunct of `Next` applies on any clock,
up to the choice of inputs, because the guards are the code's `if`/`else` chain.

The compositions keep that clock: `EngineClock(pins, byte)` is a step of `Engine` with the
pins and the byte its partner drives, and `HostClock`, `BusClock`, `SPIClock`, `UARTClock` and
`CampaignClock` add the partner's registers to it, so that host, engine and peer take
every clock together, as in `Bus.step` of the tests. A call of the host is a walk over
named exchanges (`ready_used`, `flags`, `peek`, ...); its transport may pause before any of
them, so every delay between the host's reads and its commands is covered.

Variables have the names of the registers. What is abstracted:

- A lane vector is the set of lanes that are 1; an instruction is a record of its
  decoded fields; the reserved bits are gone. `ILLEGAL` stands for every word no
  opcode decodes. The three assembled bytes are not kept: the fourth byte of a word
  completes *some* element of `Words`.
- `host_data` is chosen from `HostBytes` on a strobe only; it is not read otherwise.
  The code samples it unsynchronized on the clock of the synchronized edge, which is
  the bundled-data rule of `docs/streaming.md`.
- The wire `issue` contains `ena`; the model has it in the structure instead, since
  `Deselected` is the only action of a clock with ena low.
- Storage without a reset (program store, queue slots) starts as `Unknown`, a value
  no instruction and no byte equals. `assembly_bytes` is not kept, as above.
- `capture_prev`, which has no reset value either, starts as the reset of several
  clocks that `docs/info.md` asks for leaves it.
- Metastability is not modelled: a pin has its new level or its old one on a clock.
- The output `pins_oe` is `out_enable` while ena is high; the peers look at that register.
- What the generators and the helper refuse with a ValueError is not modelled as an
  outcome: `encode`, `Accepted` and `fits` select the arguments they accept.
- The receivers count down to their next sample where the source compares absolute clocks.
- A verdict is the verdict's name, not its letter, and `identify` gets its verdicts from
  `Reports`, capture contents good and bad, through `decode`.

Sizes are constants: `MemWords` (64), `Depth` (8), `TimeSpan` (2^24).
`Words`, `HostBytes` and `Inputs` say what the host and the pins may present;
`Deselects` and `Resets` whether ena or rst_n ever falls. Their named assumptions
are in `Ring` and `EngineState`, those of the helper in `Host`, of the benches in `Bench`,
`I2CBus`, `Serial` and `Campaign`, and of the tree in `ProbeTree`, and the runs evaluate them.

## Runs

| Run | Instance | Shows |
| --- | --- | --- |
| `ring_fifo` | one queue, 3 slots, 3 items | pointers and count agree; the ring implements `BoundedFifo` |
| `loader` | 2-word store, words that stop, spin and drive, all controls every clock, reset, deselect | `FailClosedSafely`, `NothingUnwrittenIsRead`, `EachRiseDecidesOnce`, `ImplementsContract` |
| `instructions` | all programs of 1-3 words over three groups of words | `TypeOK`, `WaitWithinLimit`, `StreamingGate` |
| `echo` | loop of PULL, IN, PUSH, 2-slot queues, host strobes, commands, deselection and reset any time | `NothingUnwrittenIsRead`, `CheckedStaysTrue` |
| `watch` | capture while waiting, 2-slot queue, timestamp of 3, deselection and reset any time | `LossIsReported`, `CheckedStaysTrue` |
| `timing` | all programs of 1-3 words over eight timed words, abort and deselect any time | `HoldsExactly`, `PinsHold`, `FaultsOnNthMiss` |
| `progress` | all programs of 1-3 words over ten words that take time or hold | `Progress` |
| `host` | the helper's three calls in any order and at any time, five programs, one lane that moves at will | `ReadyMeansStreaming`, `ExchangesActOnce`, `PopsWhatItRead`, `NothingLeftBehind`, `CallsEnd` |
| `i2c` | the four I2C programs, a target that answers, stretches and reads out freely, a rival | `TransactionsComplete`, `NackGetsStop`, `StretchLimitExact`, `StallsWithClockLow`, `FramedCleanly`, `BusIsReleased` |
| `serial` | SPI in four modes and both bit orders, UART out at three periods and in with bad frames | `TransferExact`, `EdgesAreClean`, `StallsAtRest`, `BytesCross`, `BitsLastExactly` |
| `campaign` | every accepted fault length at two rates and one clock more; every probe against every receiver at every tick phase; lanes that change on any clock while the mask does | `CapturesAreTrue`, `FaultWindowExact`, `VerdictsRoundTrip`, `TwinAgrees` |
| `tree` | every map of three receivers over four probes and two verdicts, any report | `AnswersRestOnEvidence`, `SeparableNeverShare`, `OnlyExactReportsCount` |

The bounds, and why they are enough:

- Queues: the code treats the slots alike and only asks whether the count is zero
  or full, so one slot (`instructions`), two (`echo`, `watch`) and three (`ring_fifo`)
  contain empty, full, one from either end and a pointer wrap. The queue and engine
  invariants are in addition proved for every depth.
- Store: three or four words hold a jump back, a jump past the end, and running
  off the end. The contract is checked with two, so that full and overrun are reached; one
  of its words drives a lane, so that stopping and deselection have a pin to release.
- Durations up to three clocks and limits up to three separate first, middle and
  last clock. The registers' own widths matter in one place only, the range of the
  fields, which `TypeOK` keeps and `TypeCorrect` proves for 18 bits.
- `instructions`, `echo`, `watch`, `timing` and `progress` start with an image already
  loaded (`Loaded`, `LoadedInit`): the registers of reset and the words at the front of the
  store, which is a state the loader of run `loader` produces. `host` starts so as well.
- The three groups of `instructions` (control, shift, stream) keep the product of
  programs small; instructions of different groups meet only through the pc, the
  pins and the shift registers, none of which is grouped in the proofs.
- `host`: an exchange holds each phase of LOAD for three clocks, the fewest that pass the
  synchronizer and the edge detector, so that a strobe acts as late in its exchange as
  it can; the fourth clock of the source only gives it room. Two polls are the fewest that repeat. Queues of two hold
  a peeked byte with another behind it and refuse a third. The programs never stream
  (halted with all four patterns of the bits that matter on the legacy page, or
  running), stream late, push and halt when a lane says so, and capture until told to stop.
- `i2c`: half period 4 is the smallest the generators accept. Stretches of nothing, exactly
  the limit, one more and twice the limit are possible at every release of the
  clock. The limit is exact because a release lasts at least four clocks before the program
  looks, which is what the level needs to come back through pins and synchronizer.
  Three bytes each way exceed the two-slot queues.
- `serial`: half period 4, UART bits of 3, 4 and 5 clocks out and 12 in. The
  receiver faces a noise pulse of half a bit (rejected), of one clock more (a start bit),
  frames with a low stop bit, and pauses on either side of its timeout. Three bytes
  through queues of two stall every program at both ends; the receiver takes four, so that
  it waits for a start bit again after a stall. There is no flow control on the line, and
  `docs/streaming.md:66-69` leaves it to the sender to pause when the host cannot keep up: the sender
  begins no frame while the receiver is stalled, and a pause counts from the end of the stall.
- `campaign` has the constants of the source: 64 words, eight slots, 16 clocks a bit, and
  all probes of `make_probes`. The receivers that sample on ticks start at each of their
  phases. The fault demo runs at every accepted length at its default rate and, with another
  byte, at an odd short one; `missed` jobs are built for one clock more than
  `fault_demo_limit` allows. `watch` jobs capture lane 0 and then lane 1 while the two
  change once or twice on any clocks of the run, among them the clocks of both CAPTUREs, the
  ones after them and the halt.
- `tree`: two rows of two probes of different families have boundaries, neighbours, family
  turns and probes on which a leaf disagrees; `a` has two tick phases, so that a label
  may end in several leaves. All maps are enumerated, up to exchanging `b` and `c`.

Properties, in words:

- `FailClosedSafely`: no pin is driven unless a program executes; what executes is a
  complete, non-empty image that did not overrun; fault implies halted.
- `WaitWithinLimit`: a nonzero mismatch count belongs to the WAIT being executed and is
  below its limit, although an abort leaves the register alone.
- `StreamingGate`: the two always blocks agree; outside streaming the queues are empty
  and pages, errors, counter and mask at rest. The one exception is real: the code
  counts time from the start of the run, so the wrap bit may be set before STREAM.
- `NothingUnwrittenIsRead`: the word executed was loaded, and each occupied slot was pushed.
- `CheckedStaysTrue`: what the host has seen ready (room, a byte, an edge, and which
  edge) stays so until its own command or the end of the run.
- `LossIsReported`: an edge on a selected lane is at the tail of the queue or in the sticky
  error, a wrap is in the sticky error, also on the clock of a clear command.
- `EachRiseDecidesOnce`: a rise of the RUN pin starts or refuses the program once, two clocks
  later, or is lost to a deselection or reset on that clock; nothing else starts or refuses
  one. It is stated over `risen`, a history of the pin, not over `run_prev`: a register that
  forgot RUN during deselection would restart the program on selection.
- `ImplementsContract`: with `image` the loaded words, `phase` the status flags and
  `driven` the enabled pins, every step is one of `EngineContract` or leaves them alone.
- `HoldsExactly`, `PinsHold`: after a DRIVE or PATCH of N clocks the next instruction
  issues exactly N clocks later, with the pins held until then.
- `FaultsOnNthMiss`: a WAIT faults on its Nth mismatch in a row and on no other clock.
- `Progress`: while RUN stays high the pc moves on or execution ends, except in an
  unlimited WAIT, a stalled PULL or PUSH, or a jump to itself.

- `ReadyMeansStreaming`: `ready` returns only for a streaming program.
- `ExchangesActOnce`: a data or pop exchange moves a queue exactly once, any other never.
- `PopsWhatItRead`: what a call returns is what its pop removes.
- `NothingLeftBehind`: "halted" from `receive` means that no byte is left and none will come.
- `CallsEnd`: every call ends.
- `TransactionsComplete`: a halt without fault means one START and one STOP, all bytes heard,
  acknowledged, pushed, and the right acknowledges sent.
- `NackGetsStop`: after a NACK, exactly one STOP, then the trap, and nothing in between.
- `StretchLimitExact`: a stretch beyond the limit is a fault at each of the clock's releases;
  faults have no cause but that, a NACK or a rival.
- `StallsWithClockLow`, `StallsAtRest`: a program waits for the host where the bus is at rest.
- `FramedCleanly`: while the program runs, START and STOP only ever frame bytes, and no line
  is driven high.
- `BusIsReleased`: every transaction ends with both lines let go.
- `TransferExact`, `EdgesAreClean`: SPI exchanges every byte both ways; each bit is stable for
  half a period before its sampling edge, whatever the host's delays.
- `BytesCross`, `BitsLastExactly`: UART bytes arrive, bad frames fault and deliver nothing; a pause
  longer than the timeout is a fault on one clock, and a shorter one never is; transmitted
  bits are equally long.
- `CapturesAreTrue`: the capture is every change of a lane selected on the clock it is compared
  on, at its own time plus two; a CAPTURE judges from the clock after its own.
- `FaultWindowExact`: up to `fault_demo_limit` the echo is caught, one clock later it is not.
- `VerdictsRoundTrip`: a probe drives its waveform to the clock and the decoded verdicts are
  the receivers' own.
- `TwinAgrees`: the countdown receiver hears what the mid-bit sampler hears.
- `AnswersRestOnEvidence`: a receiver of the map is never unknown, and an answer needs its leaf
  and all its confirmations, each from a fresh probe.
- `SeparableNeverShare`: labels that some probe separates are never in one answer.
- `OnlyExactReportsCount`: a report of any width but a verdict's raises.

Fairness: `Progress` assumes `WF_vars(Next)` only, that is, the clock keeps ticking. The
timestamp counts every clock of a run, as the code's 24-bit counter does, so no clock of
a run is a stutter as long as `TimeSpan` is above one; with a frozen timestamp, weak
fairness would demand that the pins change, which the code may not assume. `CallsEnd`
assumes that the clock ticks and that the transport does not pause before an exchange
for ever (`FairClock`); nothing is assumed of the program or the lanes. `BusIsReleased`
assumes that a host with a byte to deliver or to take does so in the end
(`Delivering`); nothing is assumed of the target, whose stretches are finite because
the clock counts them down, nor of the rival.

Deadlock is checked everywhere but in `tree`, where an identification ends with its
answer; a clock edge is always possible elsewhere. `campaign` stutters once the
program has halted, where the bench stops too.

Two things the models show that a reader of the code may not expect, neither against
what it says of itself:

- A fault on a stretched I2C clock releases SCL and SDA on the same clock. If the
  stretch ends just then, with SDA low, the target sees a STOP the program
  never sent; `FramedCleanly` therefore speaks of running programs, and this hazard
  has no property: releasing everything is what the code means to do on a fault.
- `_confirmations` says that it takes probes on which a leaf's variants agree
  (`tools/fingerprint.py:176`), and falls back to any unused ones when those run out
  (line 194). `expect` is a set for that reason, and the mutant that makes it one
  verdict loses receivers of the map.

## Proofs

`RingProofs` proves that the ring implements the FIFO for every `Depth` and `Item`.
The invariant is type correctness and `Coherent` (the write pointer is where the read
pointer and the count put it, which separates the two cases rd = wr: empty and full).
The heart is four lemmas on `Contents`: a push appends, a pop takes the tail, both at
once are a pop and then a push, and a refused request changes nothing; then each
disjunct of `Next` maps to one of `BoundedFifo`.

`EngineProofs` proves `Inv`, the conjunction of `TypeOK`, `FailClosedSafely`,
`WaitWithinLimit`, `StreamingGate` and the written part of `NothingUnwrittenIsRead`, for
every store size, queue depth, word set, host and pins. None is inductive alone: that
the executed word is an instruction at all needs the image to be written; that the pc
stays in range needs the word's fields in range; that the WAIT count stays in range
needs it below a limit; that a byte pulled is a byte needs the occupied slots written
and the pointers coherent, which needs the queues empty when the pointers are cleared.
The proof has one lemma per part of a step (`LoaderStep`, `ServeStep`, `ClearStep`,
`WaitStep`, `PlainStep`), one per branch of the clock (`ResetSafe`, `AbortSafe`,
`StartSafe`, `StepSafe`), and `NextInv` puts them together. It rests on the assumptions
on the constants in `Ring` and `EngineState` and on nothing else.

`StepProofs` proves the step properties of the engine and `ImplementsContract`.
`CheckedStaysTrue` and `LossIsReported` follow from `Inv` by cases on the
clock, with ring lemmas on what one edge does to the front and the tail. The refinement is
step by step: each kind of clock maps to one action of `EngineContract` or to a stutter,
under the mapping of `image`, `phase` and `driven`. It needs one fact `Inv` lacks,
`EndSeenWithRun` (`halted => run_prev`): without it a halted program could be taken for one
that may be started again. A loader clock appends to the image, which is a lemma about
the store as a sequence (`LoaderEdits`).

`EachRiseDecidesOnce` is proved over `RunSpec`, the engine beside the history of its RUN pin. What
ties the two together is `RiseSeen`: the history stands at one while the rise is in the first stage of
the synchronizer, and at two exactly when the second stage has it and `run_prev` does not.
This must hold through deselection, where the registers keep shifting, and reset, where
all of them and the history fall back. That the decision is a change of `running` or `halted`, and
not a clock on which the program already runs or has halted, needs `Inv` and `EndSeenWithRun`.

It also proves `HoldsExactly`, `PinsHold` and `FaultsOnNthMiss` for every program, hold and
limit. The history variables of `Timing` know nothing of the registers; `OnTheClock` ties
them together: while a lease runs, `age + delay_left = lease`, and while a program runs the
misses since the last match are `wait_elapsed`. The second half rests on `WaitWithinLimit`,
since that is why the register cannot wrap, and on the start clearing what an abort left.

`HostProofs` proves the four safety properties of the helper, for every program, queue
depth, length of the LOAD phases above two clocks, poll limit and lane level. The
invariant `LinkInv` adds three layers to `Inv`:

- the wires (`WalkInv`): what the two stages of the synchronizer and the edge detector hold
  at each clock of an exchange. From it comes the one clock (`StrobeTick`) on which the
  exchange acts, and that no other clock of it, of a pause or of a call does;
- the exchange (`Pages`, `Strobed`): from that clock on the read page is the one asked for,
  and the number of strobes so far is zero or one as the control point says;
- the call (`Streaming`, `Seen`): what the answers so far allow the helper to rely on, such as
  room before `data`, a byte in `held` that is still at the head before `pop`, or the first words of
  the edge at the head and enough edges for what is `left`.

`Streaming` is where the two reads of `ready` matter. Without streaming, a running program
answers with a status byte, which is never eight or less, and a halted one answers both reads
with the same receive byte; so a byte that passes for an occupancy is followed by flags
without the streaming bit. The proof of `PopsWhatItRead` also
shows that four page reads spell the captured edge (`WordBytesSpell`).

The proofs rest on the named assumptions on the constants and on nothing else. Those
of `Host` are that LOAD is held for more than two clocks (four in the source), that there is
at least one poll, that bytes sent are among `HostBytes`, and that the design stays selected
(`SelectedAssumption`), which the helper expects of its caller. `LinkSpec` starts from any
loaded program; the runs' specifications start from some of them and add fairness.

`SerialProofs` proves `BitsLastExactly`, `EdgesAreClean`, `StallsAtRest` and `TransferExact` for
every call the generators accept: every bit period, mode, bit order, half period, byte and count, with
streaming hosts that come as late as they like and devices that answer anything. Its layers:

- the bench (`OnBench`, over `InStore` of `EngineProofs`): the store holds the program of the job, and the levels that leave the
  synchronizer while the program runs had RUN high. So what executes is a word of the
  program, and each clock is a clock of a delay, a word taking effect, or a stall (`RunClock`);
- the words (`TxStreamWords`, `TxWords`, `StreamWords`, `TransferWords`): what stands at each
  address of a generated program, with its operation, lane and duration;
- the place: for each address, what pins, counters and history are while its word is
  held or issues. `TxStreamPlace` says that between the word at an address and the start
  bit lie a whole number of bits less what is left of the delay; `BitPlace`, shared by
  the two SPI programs, says how long MOSI has been steady before each sampling edge. The clocks
  the loop's own instructions take, which the generators subtract from the last
  half or the last bit, are what this accounts for;
- the peer (`LineFollows`, `Mirror`): the line and the device show the pins of this clock.

The clock on which a program ends has cases of its own: a transmitter stops between frames
only, with the line high, and releasing the SPI pins must not look like a sampling edge to
a selected device. `StallsAtRest` reads the place at the PULL and the PUSH.

`TransferExact` is about data, and needs no induction over a recursive definition: what the
invariant says of a sequence it says of each of its items. `ExchangeInv` has three layers
above the place in the program:

- the bits (`Stage`, with `LeadingStage` and `TrailingStage` for the two phases): in bit `c` of
  byte `n`, how many bits the device has taken, the engine has shifted out and has read,
  and so what `tx_shift`, `rx_shift` and the device's bits are. `SentPart` and `GotPart` give
  the registers after any number of shifts (`WireIsLeaving` and its lemmas, for both
  orders), and eight bits make the byte again, since `WireByte` undoes `WireBit`;
- the delay of the synchronizer (`Arrives`): a level of MISO is read two clocks after it was put
  out, which is why the half period must hold it that long;
- the bytes (`Bytes`, `Strobes`): the transmit queue and what the host has left are the sends not yet
  pulled, and what the host got and the receive queue are the answers pushed so far, with at
  most one strobe under way, which still has its room or its byte when it arrives.

A program that halts has come to its last word without a refusal (`StreamAllowed`,
`BitAllowed`), so `Done` holds, and it gives `TransferExact` item by item.

The theorems rest on `BenchAssumption` (the design stays selected and out of reset, and
the program fits), `SerialAssumption` (a job's program is what its generator makes of
arguments it accepts, and the host sends what the call announces), `AnswersAssumption`
(the device answers with bytes) and those of the engine. The UART receive program drives no line, so
`StallsAtRest` asks nothing of it.

`I2CProofs` proves `FramedCleanly`, `StallsWithClockLow` and `StretchLimitExact` for every call of the four I2C
generators, with any half period, limit, address, byte and count, a target that answers,
offers and stretches as it likes, and a rival. The programs differ, the pieces they are
made of do not, so the proof goes by labels:

- a label says what the lines are about to do: `held` labels have the clock driven low, `rising`
  ones have let it go, `high` ones have seen it high, and `Place(l, c)` is the phase of the
  target's byte at label `l` with `c` bits left to count. `At(l)` is what target,
  synchronizer, delay and count look like there;
- `TargetClock` takes the target's registers through one clock: exactly one of `Begins`, `Ends`,
  `Rises`, `Falls` and `Rests`;
- `Freed` measures the stretch: `Due` is the number of clocks until the executor sees the clock
  high, and the target is late exactly when what the wait has counted and what is due
  reach the limit. So no rising label is left with a late target but by a fault;
- `Fits(w, l, n, t, ...)` is the grammar: which word may stand between label `l`, the next
  label `n` and the label `t` it jumps to. `WordAt` proves once for each kind of word that it
  leads from `At(l)` to `At` of the next label and that SDA moves under a high clock only
  before the second bit of a byte;
- `WriteFits`, `WriteStreamFits`, `ReadFits` and `TransactionFits` show that each generated program
  is labelled by its shape, piece by piece (`StartFits`, `SendFits`, `ReadsFits`, `FinishFits`,
  `AgainFits`).

`LinesInv` is the invariant these make: the word at the program counter has a label and
`At` holds for it; when the program has ended, both lines are free and a late target has
made it a fault.

`StretchLimitExact` also says that nothing but lateness, a NACK and a rival is a fault, so every
reason the executor has to reject a word must be ruled out while the bus is `Fair`. `FaultInv`
adds to the lines what the words count on, by label as well:

- `Seen`: what the synchronizer shows of the lines is settled where the program looks at them,
  so that the first waits, the read-back of a bit and the acknowledge see the lines as they are;
- `Stocked`: from STREAM to the last byte of a stream the count is above zero, and it is one
  around a repeated START, so that no loop and no queue is turned to when it is exhausted;
- `Turns`, `Shifts` and `Acks`: what the target makes of the bytes. It never drives SDA while a
  bit is sent, because it only talks after an address for reading, and until it has its address the
  byte under way has its last bit zero (`Even`: what is left to shift is a multiple of a power
  of two), or the bytes to read come next. After the eighth bit it holds SDA low unless it refuses;
- `FirstByte`: the byte a transaction pulls first is the host's first, an address for writing, from
  before the start until the PULL takes it.

`HeardActs`, `SeenActs`, `StockedActs` and `OpeningActs` take these through every word that the
grammar allows, and `RejectedExcused` goes through the reasons of `Rejected`.

These theorems rest on `BenchAssumption` and on `I2CAssumption`: a job's program is what
its generator makes of arguments it accepts.

`ReceiverProofs` proves `TwinAgrees` for every bit period above one clock, every waveform and any
set of receivers. The mid-bit sampler and the countdown twin are compared in the middle of a
frame by `Same`: as many samples taken, as many clocks to the next, and the twin's shift
register holding the bits the sampler has collected in a sequence. That the register is
right after the eighth bit is a lemma about the sum of the bits (`ShiftMore`). `Same`
is kept by each of the sampler's cases (idle, start, count, take, complete), and `Listening`
carries it through a campaign, with each receiver keeping its kind and its settings.
It rests on `ReceiverAssumption`: the receivers of a job listen at one period above one.

Only model-checked, and why:

- liveness (`Progress`, `CallsEnd`, `BusIsReleased`): fairness and ENABLED are out of the prover's reach;
- `BytesCross`: what the receive program hears is compared with a selection from all the frames
  that were sent, whose length is an induction over data; the timing of the bits that
  the transmitters send is proved;
- `TransactionsComplete` and `NackGetsStop`: they compare the bytes of whole transactions, which the
  run executes to their end with every target;
- `CapturesAreTrue`, `FaultWindowExact` and `VerdictsRoundTrip`: they compare whole histories of
  concrete programs, which the run executes to their end with the constants of the source,
  at every fault length of the default rate and for every probe;
- `ProbeTree`: the tree is recursive over data.

## Not modelled

- The chip wrapper (`src/project.v`): wires and tie-offs without state.
- The packing of an instruction into 32 bits and the range errors of its constructors: an
  instruction is its decoded fields, and `IsInstruction` gives their ranges. The order of
  bytes on the loader is kept by the byte index alone.
- Metastability, and the phases within a clock of the open-drain lines and the byte bus.
- The host's use of deselection and of RUN falling during a call: the helper expects
  neither, and the runs of the engine alone have both.
- The scripts of the tests: their peers are here, their sequences are what the
  models are read against. The formal properties of the RTL in `formal/` are bounded
  checks of their own, over the registers themselves.
- Build, synthesis, timing, mutation and report tools: batch scripts that write files.

## Plan

Done, in this order: `Ring`, `BoundedFifo`, `RingFifo`; `EngineState`, `HostPort`,
`StreamQueues`, `Executor`, `Engine`; contract, properties, timing; proofs of the
invariants; the host; the firmware with its buses; receivers, campaigns and the tree;
proofs of the step properties, the contract, the timing and the host; proofs of the
receivers, of the serial programs and of the I2C programs.

What is left is to prove more of it:

1. `CapturesAreTrue` for every job: the lag between a change on a lane and its entry in
   the queue, from the two stages of the synchronizer and `LossIsReported`.
