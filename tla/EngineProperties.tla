----------------------------- MODULE EngineProperties -----------------------------
(***************************************************************************)
(* What the engine guarantees: a type invariant, the invariants that tie   *)
(* its two always blocks together, what a step may never do, and the       *)
(* contract it implements.                                                 *)
(***************************************************************************)
EXTENDS Engine

Moment == 0 .. TimeSpan - 1
CapturedEdge == [time : Moment, lanes : SUBSET Lanes]

(***************************************************************************)
(* Every register keeps the width engine.v:11-39 declares for it.          *)
(***************************************************************************)
PortTypes ==
  /\ input_meta \in Levels /\ input_sync \in Levels
  /\ load_prev \in BOOLEAN /\ run_prev \in BOOLEAN
LoaderTypes ==
  /\ program_mem \in [0 .. MemWords - 1 -> Words \cup {Unknown}]
  /\ byte_index \in 0 .. BytesPerWord - 1 /\ length \in 0 .. MemWords
  /\ loader_error \in BOOLEAN
StatusTypes ==
  /\ running \in BOOLEAN /\ halted \in BOOLEAN /\ fault \in BOOLEAN
  /\ wait_elapsed \in 0 .. MaxHold
PlaceTypes == pc \in 0 .. MemWords /\ delay_left \in 0 .. MaxHold
PinTypes ==
  out_value \subseteq Lanes /\ out_enable \subseteq Lanes /\ sampled \subseteq Lanes
ShiftTypes ==
  /\ tx_shift \in Byte /\ rx_shift \in Byte /\ loop_count \in Byte
  /\ last_tx_bit \in 0 .. 1
StreamTypes ==
  stream_enabled \in BOOLEAN /\ byte_count \in Byte /\ capture_mask \subseteq Lanes
ExecutorTypes == StatusTypes /\ PlaceTypes /\ PinTypes /\ ShiftTypes /\ StreamTypes
QueueTypes ==
  /\ tx \in RingOf(Byte \cup {Unknown}) /\ rx \in RingOf(Byte \cup {Unknown})
  /\ capture \in RingOf(CapturedEdge \cup {Unknown})
  /\ read_page \in 0 .. LastPage /\ host_errors \subseteq ErrorBits
  /\ timestamp \in Moment /\ capture_prev \subseteq Lanes
TypeOK == PortTypes /\ LoaderTypes /\ ExecutorTypes /\ QueueTypes

(***************************************************************************)
(* Pins are released whenever no program executes, and an execution is of  *)
(* a complete image: a program that runs was loaded in whole words, is not *)
(* empty, did not overrun the store, and RUN was high for it.  Four        *)
(* conditions of engine.v:169-223 on two clocks have to agree for this.    *)
(***************************************************************************)
ReleasedUnlessRunning == ~running => out_enable = {}
RunsCompleteImage ==
  running => ~halted /\ run_prev /\ length # 0 /\ byte_index = 0 /\ ~loader_error
LoaderBounded == length = MemWords => byte_index = 0
LoaderErrorOnlyWhenFull == loader_error => length = MemWords
FailClosedSafely ==
  /\ ReleasedUnlessRunning /\ RunsCompleteImage
  /\ LoaderBounded /\ LoaderErrorOnlyWhenFull
  /\ fault => halted

(***************************************************************************)
(* A WAIT with a limit never outlives it: elapsed mismatches are counted   *)
(* only by the WAIT being executed, stay below its limit, and leave no     *)
(* residue for the next WAIT or the next run (engine.v:244-254, although   *)
(* an abort at 192-201 does not clear the counter).                        *)
(***************************************************************************)
WaitWithinLimit ==
  running /\ wait_elapsed # 0 =>
    /\ delay_left = 0 /\ pc < length
    /\ instruction.op = "WAIT"
    /\ wait_elapsed < instruction.limit

(***************************************************************************)
(* The queue block and the instruction block agree on when streaming is    *)
(* on: outside it the queues, the page, the errors and the capture mask    *)
(* are at rest, so that no byte, edge or error of one run is seen by the   *)
(* next (engine.v:79-86 against 192-205).                                  *)
(***************************************************************************)
StreamingGate ==
  /\ stream_enabled => running \/ halted
  /\ ~stream_enabled =>
       /\ Empty(tx) /\ Empty(rx) /\ Empty(capture)
       /\ read_page = 0 /\ host_errors \subseteq {"time_wrapped"}
       /\ byte_count = 0 /\ capture_mask = {}

(***************************************************************************)
(* Storage without a reset is never read before it is written: the word    *)
(* executed was loaded, and every occupied slot of a queue holds something *)
(* pushed since the queue was cleared (engine.v:18, 32-34 and 40).         *)
(***************************************************************************)
ImageWritten == \A i \in 0 .. length - 1 : program_mem[i] \in Words
QueuesWritten == Holds(tx, Byte) /\ Holds(rx, Byte) /\ Holds(capture, CapturedEdge)
QueuesCoherent == Coherent(tx) /\ Coherent(rx) /\ Coherent(capture)
NothingUnwrittenIsRead ==
  /\ ImageWritten /\ QueuesWritten /\ QueuesCoherent
  /\ issue => instruction \in Words

(***************************************************************************)
(* The host may check and then act: room it has seen in the transmit queue *)
(* is only used up by its own strobe, and a byte or an edge it has seen is *)
(* only taken, or changed under its reads, by its own command, until the   *)
(* run ends.  The four reads of one captured edge depend on it             *)
(* (engine.v:42-50 and 103-124, tools/streaming.py:277-316).               *)
(***************************************************************************)
CheckedStaysTrue ==
  [][stream_enabled' =>
       /\ ~Full(tx) /\ Full(tx') => host_strobe
       /\ ~Empty(rx) /\ (Empty(rx') \/ Front(rx') # Front(rx)) => command
       /\ ~Empty(capture) /\ capture_head' # capture_head => command]_vars

(***************************************************************************)
(* No captured edge and no wrap of the timestamp is lost silently: an edge *)
(* on a selected lane ends up at the tail of the queue or in the sticky    *)
(* error, and the error survives a clear command on the very same clock    *)
(* (engine.v:90-100).                                                      *)
(***************************************************************************)
Last(r) == r.mem[Ahead(r, r.used - 1)]
LossIsReported ==
  [][stream_enabled /\ stream_enabled' =>
       /\ capture_event =>
            \/ "capture_full" \in host_errors'
            \/ ~Empty(capture') /\ Last(capture)' = Event
       /\ running /\ timestamp' < timestamp => "time_wrapped" \in host_errors'
       /\ ~command => host_errors \subseteq host_errors']_vars

(***************************************************************************)
(* The engine implements its contract.                                     *)
(***************************************************************************)
Image == [i \in 1 .. length |-> program_mem[i - 1]]
Phase == IF running THEN "running" ELSE IF fault THEN "faulted"
         ELSE IF halted THEN "halted" ELSE "idle"
Contract == INSTANCE EngineContract WITH
  Capacity <- MemWords, Word <- Words, Pins <- Lanes,
  image <- Image, phase <- Phase, driven <- out_enable
ImplementsContract == Contract!Spec

(***************************************************************************)
(* The engine never hangs: as long as RUN stays high a program moves to    *)
(* another word or ends, unless it executes one of the words that may hold *)
(* for ever: an unlimited WAIT, a stalled PULL or PUSH, a jump to itself.  *)
(* A WAIT with a limit and every DRIVE are over in the end.                *)
(***************************************************************************)
MayHold ==
  /\ issue
  /\ \/ instruction.op = "WAIT" /\ instruction.limit = 0
     \/ instruction.op = "PULL" /\ Empty(tx)
     \/ instruction.op = "PUSH" /\ Full(rx)
     \/ /\ instruction.op \in {"JUMP", "BRANCH", "DJNZ", "BYTE_LOOP", "LAST_BYTE"}
        /\ instruction.target = pc
Progress ==
  \A p \in 0 .. MemWords : running /\ pc = p ~> ~running \/ pc # p \/ MayHold
=================================================================================
