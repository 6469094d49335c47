------------------------------- MODULE EngineProofs -------------------------------
(***************************************************************************)
(* The invariants of EngineProperties hold in every reachable state, for   *)
(* every depth of the queues, size of the store, span of the timestamp,    *)
(* set of programs and behaviour of the host and the pins.                 *)
(*                                                                         *)
(* None is inductive alone: that a WAIT stays within its limit needs the   *)
(* image frozen while it executes, that no unwritten slot is read needs    *)
(* the pointers in agreement, and that pins are released needs the two     *)
(* always blocks to agree on the run.  Inv is their conjunction.           *)
(***************************************************************************)
EXTENDS EngineProperties, RingLemmas

Written == ImageWritten /\ QueuesWritten /\ QueuesCoherent

Inv == /\ TypeOK /\ FailClosedSafely /\ WaitWithinLimit
       /\ StreamingGate /\ Written

\* An issued word was loaded, and lies inside the store.
LEMMA IssuedWord ==
  ASSUME TypeOK, ImageWritten, issue
  PROVE  /\ instruction \in Words /\ IsInstruction(instruction)
         /\ pc \in 0 .. MemWords - 1 /\ pc < length
<1>1. pc \in 0 .. length - 1 /\ length \in 0 .. MemWords /\ MemWords \in Nat \ {0}
  BY MemAssumption DEF TypeOK, ExecutorTypes, PlaceTypes, LoaderTypes, issue
<1>2. pc % MemWords = pc
  BY <1>1
<1>3. instruction \in Words
  BY <1>1, <1>2 DEF instruction, ImageWritten
<1> QED
  BY <1>1, <1>3, WordAssumption

(***************************************************************************)
(* The host port.                                                          *)
(***************************************************************************)
LEMMA SynchronizeTypes ==
  ASSUME PortTypes, Synchronize PROVE PortTypes'
BY PinAssumption DEF PortTypes, Synchronize, Levels, load, run

LEMMA LoaderStep ==
  ASSUME LoaderTypes, ImageWritten, LoaderBounded, LoaderErrorOnlyWhenFull, Loader
  PROVE  /\ LoaderTypes' /\ ImageWritten' /\ LoaderBounded' /\ LoaderErrorOnlyWhenFull'
         /\ run => UNCHANGED loaderVars
<1>0. /\ MemWords \in Nat \ {0} /\ length \in 0 .. MemWords
      /\ byte_index \in 0 .. 3 /\ loader_error \in BOOLEAN
      /\ program_mem \in [0 .. MemWords - 1 -> Words \cup {Unknown}]
  BY MemAssumption DEF LoaderTypes, BytesPerWord
<1>6. run => UNCHANGED loaderVars
  BY DEF Loader
<1> SUFFICES LoaderTypes' /\ ImageWritten' /\ LoaderBounded' /\ LoaderErrorOnlyWhenFull'
  BY <1>6
<1>1. CASE UNCHANGED loaderVars
  <2>1. /\ program_mem' = program_mem /\ byte_index' = byte_index
        /\ length' = length /\ loader_error' = loader_error
    BY <1>1 DEF loaderVars
  <2>2. LoaderTypes' /\ LoaderBounded' /\ LoaderErrorOnlyWhenFull'
    BY <1>0, <2>1 DEF LoaderTypes, LoaderBounded, LoaderErrorOnlyWhenFull, BytesPerWord
  <2>3. ImageWritten'
    BY <2>1 DEF ImageWritten
  <2> QED
    BY <2>2, <2>3
<1>2. CASE Rewind
  <2>0. /\ ~loader_error' /\ loader_error' \in BOOLEAN
        /\ length' = 0 /\ byte_index' = 0 /\ program_mem' = program_mem
    BY <1>2 DEF Rewind
  <2>1. LoaderTypes' /\ LoaderBounded' /\ LoaderErrorOnlyWhenFull'
    BY <1>0, <2>0 DEF LoaderTypes, LoaderBounded, LoaderErrorOnlyWhenFull, BytesPerWord
  <2>2. ImageWritten'
    BY <1>2 DEF Rewind, ImageWritten
  <2> QED
    BY <2>1, <2>2
<1>3. CASE Overrun
  <2>1. LoaderTypes' /\ LoaderBounded' /\ LoaderErrorOnlyWhenFull'
    BY <1>0, <1>3 DEF Overrun, LoaderTypes, LoaderBounded, LoaderErrorOnlyWhenFull,
       BytesPerWord
  <2>2. ImageWritten'
    BY <1>3 DEF Overrun, ImageWritten
  <2> QED
    BY <2>1, <2>2
<1>4. CASE TakeByte
  <2>1. LoaderTypes' /\ LoaderBounded' /\ LoaderErrorOnlyWhenFull'
    BY <1>0, <1>4 DEF TakeByte, LoaderTypes, LoaderBounded, LoaderErrorOnlyWhenFull,
       BytesPerWord
  <2>2. ImageWritten'
    BY <1>4 DEF TakeByte, ImageWritten
  <2> QED
    BY <2>1, <2>2
<1>5. CASE CompleteWord
  <2>1. PICK w \in Words : program_mem' = [program_mem EXCEPT ![NextSlot] = w]
    BY <1>5 DEF CompleteWord
  <2>2. length \in 0 .. MemWords - 1
    BY <1>0, <1>5 DEF CompleteWord
  <2>3. NextSlot = length
    BY <1>0, <2>2 DEF NextSlot
  <2>4. /\ length' = length + 1 /\ length' \in 0 .. MemWords
        /\ byte_index' = 0 /\ loader_error' = loader_error /\ ~loader_error
    BY <1>0, <1>5, <2>2 DEF CompleteWord, LoaderErrorOnlyWhenFull
  <2>5. program_mem' \in [0 .. MemWords - 1 -> Words \cup {Unknown}]
    BY <1>0, <2>1
  <2>6. ASSUME NEW i \in 0 .. length' - 1 PROVE program_mem'[i] \in Words
    <3>1. CASE i = length
      BY <1>0, <2>1, <2>2, <2>3, <3>1
    <3>2. CASE i # length
      <4>1. i \in 0 .. length - 1 /\ i \in 0 .. MemWords - 1
        BY <1>0, <2>2, <2>4, <3>2
      <4> QED
        BY <1>0, <2>1, <2>3, <3>2, <4>1 DEF ImageWritten
    <3> QED
      BY <3>1, <3>2
  <2> QED
    BY <1>0, <2>4, <2>5, <2>6 DEF LoaderTypes, LoaderBounded, LoaderErrorOnlyWhenFull,
       ImageWritten, BytesPerWord
<1> QED
  BY <1>1, <1>2, <1>3, <1>4, <1>5 DEF Loader, NoStrobe

(***************************************************************************)
(* The queues.                                                             *)
(***************************************************************************)
LEMMA ServeStep ==
  ASSUME PortTypes, ExecutorTypes, QueueTypes, QueuesWritten, QueuesCoherent, Serve
  PROVE  QueueTypes' /\ QueuesWritten' /\ QueuesCoherent'
<1> DEFINE B == Byte \cup {Unknown}
           C == CapturedEdge \cup {Unknown}
<1>1. PICK h \in Offered :
        /\ tx' = Edge(tx, tx_push, tx_pop, h)
        /\ rx' = Edge(rx, rx_push, rx_pop(h), rx_shift)
        /\ capture' = Edge(capture, capture_push, capture_pop(h), Event)
        /\ read_page' = IF command /\ h <= LastPage THEN h ELSE read_page
        /\ host_errors' = ErrorsAfter(h)
  BY DEF Serve, ServeByte
<1>2. h \in Byte
  BY HostAssumption DEF Offered, Byte
<1>3. /\ tx_push \in BOOLEAN /\ tx_pop \in BOOLEAN
      /\ (tx_push => ~Full(tx)) /\ (tx_pop => ~Empty(tx))
  BY DEF tx_push, tx_pop
<1>4. /\ rx_push \in BOOLEAN /\ rx_pop(h) \in BOOLEAN
      /\ (rx_push => ~Full(rx)) /\ (rx_pop(h) => ~Empty(rx))
  BY DEF rx_push, rx_pop
<1>5. /\ capture_push \in BOOLEAN /\ capture_pop(h) \in BOOLEAN
      /\ (capture_push => ~Full(capture)) /\ (capture_pop(h) => ~Empty(capture))
  BY DEF capture_push, capture_pop
<1>6. Event \in CapturedEdge /\ rx_shift \in Byte
  BY DEF PortTypes, ExecutorTypes, ShiftTypes, QueueTypes, Event, CapturedEdge, Levels
<1>7. tx' \in RingOf(B) /\ Coherent(tx') /\ Holds(tx', Byte)
  BY <1>1, <1>2, <1>3, EdgeType, EdgeCoherent, EdgeHolds
     DEF QueueTypes, QueuesWritten, QueuesCoherent
<1>8. rx' \in RingOf(B) /\ Coherent(rx') /\ Holds(rx', Byte)
  BY <1>1, <1>4, <1>6, EdgeType, EdgeCoherent, EdgeHolds
     DEF QueueTypes, QueuesWritten, QueuesCoherent
<1>9. capture' \in RingOf(C) /\ Coherent(capture') /\ Holds(capture', CapturedEdge)
  BY <1>1, <1>5, <1>6, EdgeType, EdgeCoherent, EdgeHolds
     DEF QueueTypes, QueuesWritten, QueuesCoherent
<1>10. read_page' \in 0 .. LastPage
  BY <1>1, <1>2 DEF QueueTypes, LastPage, Byte
<1>11. host_errors' \subseteq ErrorBits
  BY <1>1 DEF QueueTypes, ErrorsAfter, Raised
<1>12. timestamp' \in Moment
  BY TimeAssumption DEF Serve, ServeByte, QueueTypes, Moment
<1>13. capture_prev' \subseteq Lanes
  BY DEF Serve, ServeByte, PortTypes, Levels
<1> QED
  BY <1>7, <1>8, <1>9, <1>10, <1>11, <1>12, <1>13 DEF QueueTypes, QueuesWritten, QueuesCoherent

LEMMA ClearStep ==
  ASSUME PortTypes, QueueTypes, ClearQueues
  PROVE  /\ QueueTypes' /\ QueuesWritten' /\ QueuesCoherent'
         /\ Empty(tx)' /\ Empty(rx)' /\ Empty(capture)'
         /\ read_page' = 0 /\ host_errors' = {}
<1>1. /\ tx' \in RingOf(Byte \cup {Unknown}) /\ rx' \in RingOf(Byte \cup {Unknown})
      /\ capture' \in RingOf(CapturedEdge \cup {Unknown})
      /\ Coherent(tx') /\ Coherent(rx') /\ Coherent(capture')
      /\ Empty(tx') /\ Empty(rx') /\ Empty(capture')
      /\ Holds(tx', Byte) /\ Holds(rx', Byte) /\ Holds(capture', CapturedEdge)
  BY ClearedRing DEF QueueTypes, ClearQueues
<1>2. /\ read_page' = 0 /\ read_page' \in 0 .. LastPage /\ host_errors' = {}
      /\ timestamp' \in Moment /\ capture_prev' \subseteq Lanes
  BY TimeAssumption DEF ClearQueues, LastPage, Moment, PortTypes, Levels
<1> QED
  BY <1>1, <1>2 DEF QueueTypes, QueuesWritten, QueuesCoherent, Empty

\* Outside streaming the queues stay at rest.
LEMMA ServeOutsideStreaming ==
  ASSUME QueueTypes, Serve, ~stream_enabled, capture_mask = {},
         Empty(tx), Empty(rx), Empty(capture),
         read_page = 0, host_errors \subseteq {"time_wrapped"}
  PROVE  /\ Empty(tx)' /\ Empty(rx)' /\ Empty(capture)'
         /\ read_page' = 0 /\ host_errors' \subseteq {"time_wrapped"}
<1>1. PICK h \in Offered :
        /\ tx' = Edge(tx, tx_push, tx_pop, h)
        /\ rx' = Edge(rx, rx_push, rx_pop(h), rx_shift)
        /\ capture' = Edge(capture, capture_push, capture_pop(h), Event)
        /\ read_page' = IF command /\ h <= LastPage THEN h ELSE read_page
        /\ host_errors' = ErrorsAfter(h)
  BY DEF Serve, ServeByte
<1>2. ~host_strobe /\ ~command /\ ~capture_event
  BY DEF host_strobe, command, capture_event
<1>3. /\ ~tx_push /\ ~tx_pop /\ ~rx_push /\ ~rx_pop(h)
      /\ ~capture_push /\ ~capture_pop(h)
  BY <1>2 DEF tx_push, tx_pop, rx_push, rx_pop, capture_push, capture_pop
<1>4. Empty(tx)' /\ Empty(rx)' /\ Empty(capture)'
  BY <1>1, <1>3 DEF Edge, Empty
<1>5. host_errors' \subseteq {"time_wrapped"}
  BY <1>1, <1>2 DEF ErrorsAfter, Raised, ErrorBits
<1> QED
  BY <1>1, <1>2, <1>4, <1>5

(***************************************************************************)
(* The executor.                                                           *)
(***************************************************************************)
Steps ==
  \/ Delay \/ PastEnd \/ Reject \/ Drive \/ Patch \/ Wait \/ Jump \/ Branch \/ Sample
  \/ Load \/ Out \/ In \/ Djnz \/ CheckTx \/ Stream \/ PullReady \/ PushReady \/ Stall
  \/ ByteLoop \/ LastByte \/ Capture \/ Halt \/ Halted

StreamRegistersAtRest == ~stream_enabled => byte_count = 0 /\ capture_mask = {}

\* What a step of the executor must preserve of the status registers.
StatusStep ==
  /\ running' => running /\ ~halted'
  /\ fault' => halted'
  /\ ~running' => out_enable' = {}
  /\ stream_enabled' => running' \/ halted'
  /\ stream_enabled => stream_enabled'
  /\ StreamRegistersAtRest'

\* The width of the delay and of the mismatch counter.
LEMMA HoldWidth == MaxHold \in Nat
BY SMT DEF MaxHold

LEMMA AdvanceInStore ==
  ASSUME NEW n \in Nat \ {0}, NEW p \in 0 .. n - 1
  PROVE  (p + 1) % (2 * n) = p + 1
<1>1. p + 1 \in 0 .. (2 * n) - 1 /\ 2 * n \in Nat \ {0}
  OBVIOUS
<1> QED
  BY <1>1

\* Every step of the executor is on a clock with RUN high.
LEMMA StepsRun == ASSUME Steps PROVE run
BY DEF Steps, Delay, PastEnd, Reject, Drive, Patch, Wait, Jump, Branch, Sample, Load, Out, In,
   Djnz, CheckTx, Stream, PullReady, PushReady, Stall, ByteLoop, LastByte, Capture, Halt,
   Halted, Runs, Is, issue, Executing

LEMMA FailClosedStatus ==
  ASSUME Inv, Executing, FailClosed
  PROVE  StatusStep /\ ExecutorTypes' /\ ~running'
<1>1. /\ ~running' /\ halted' /\ fault' /\ out_enable' = {}
      /\ running' \in BOOLEAN /\ halted' \in BOOLEAN /\ fault' \in BOOLEAN
      /\ UNCHANGED <<out_value, sampled, pc, delay_left, wait_elapsed, shiftVars, streamVars>>
  BY DEF FailClosed
<1>2. ExecutorTypes'
  BY <1>1 DEF Inv, TypeOK, ExecutorTypes, StatusTypes, PlaceTypes, PinTypes, ShiftTypes,
     StreamTypes, shiftVars, streamVars
<1>3. StatusStep
  BY <1>1 DEF StatusStep, StreamRegistersAtRest, streamVars, Inv, StreamingGate
<1> QED
  BY <1>1, <1>2, <1>3

LEMMA RunningStatus ==
  ASSUME Inv, issue, UNCHANGED statusVars, stream_enabled => stream_enabled',
         StreamRegistersAtRest'
  PROVE  StatusStep
BY DEF StatusStep, statusVars, issue, Executing, Inv, FailClosedSafely, RunsCompleteImage

\* Only a WAIT leaves a count behind it.
LEMMA NoResidue ==
  ASSUME Inv, issue, instruction.op # "WAIT", wait_elapsed' = wait_elapsed
  PROVE  WaitWithinLimit'
<1>1. wait_elapsed = 0
  BY DEF Inv, WaitWithinLimit, issue, Executing
<1> QED
  BY <1>1 DEF WaitWithinLimit

\* The registers a step changes keep their widths, one action at a time.
PlainSteps ==
  \/ Drive \/ Patch \/ Jump \/ Branch \/ Sample \/ Load \/ Out \/ In \/ Djnz \/ CheckTx
  \/ Stream \/ PullReady \/ PushReady \/ Stall \/ ByteLoop \/ LastByte \/ Capture

LEMMA PlainStep ==
  ASSUME Inv, PlainSteps
  PROVE  ExecutorTypes' /\ StatusStep /\ WaitWithinLimit'
<1> USE DEF Runs, Is
<1>0. issue /\ instruction.op # "WAIT" /\ ~Rejected
  BY DEF PlainSteps, Drive, Patch, Jump, Branch, Sample, Load, Out, In, Djnz, CheckTx,
     Stream, PullReady, PushReady, Stall, ByteLoop, LastByte, Capture
<1>1. UNCHANGED statusVars /\ wait_elapsed' = wait_elapsed
  BY DEF PlainSteps, Drive, Patch, Jump, Branch, Sample, Load, Out, In, Djnz, CheckTx,
     Stream, PullReady, PushReady, Stall, ByteLoop, LastByte, Capture
<1>2. /\ IsInstruction(instruction) /\ pc \in 0 .. MemWords - 1 /\ MemWords \in Nat \ {0}
      /\ ExecutorTypes /\ StreamRegistersAtRest /\ input_sync.lanes \subseteq Lanes
  BY <1>0, IssuedWord, MemAssumption
     DEF Inv, TypeOK, Written, StreamingGate, StreamRegistersAtRest, PortTypes, Levels
<1>3. Advance => pc' \in 0 .. MemWords
  BY <1>2, AdvanceInStore DEF Advance
<1>4. ASSUME NEW t \in Target, Goto(t) PROVE pc' \in 0 .. MemWords
  BY <1>2, <1>4 DEF Goto, Target
<1>5. delay_left' = delay_left => delay_left' \in 0 .. MaxHold
  BY <1>2 DEF ExecutorTypes, PlaceTypes
<1>6. UNCHANGED pinVars => PinTypes'
  BY <1>2 DEF ExecutorTypes, PinTypes, pinVars
<1>7. UNCHANGED shiftVars => ShiftTypes'
  BY <1>2 DEF ExecutorTypes, ShiftTypes, shiftVars
<1>8. UNCHANGED streamVars =>
        /\ StreamTypes' /\ StreamRegistersAtRest'
        /\ stream_enabled => stream_enabled'
  BY <1>2 DEF ExecutorTypes, StreamTypes, StreamRegistersAtRest, streamVars
<1> DEFINE Moved == pc' \in 0 .. MemWords /\ delay_left' \in 0 .. MaxHold
           Streamed == /\ StreamTypes' /\ StreamRegistersAtRest'
                       /\ stream_enabled => stream_enabled'
<1> SUFFICES Moved /\ PinTypes' /\ ShiftTypes' /\ Streamed
  <2>1. StatusTypes'
    BY <1>1, <1>2 DEF ExecutorTypes, StatusTypes, statusVars
  <2>2. WaitWithinLimit'
    BY <1>0, <1>1, NoResidue
  <2> QED
    BY <2>1, <2>2, <1>0, <1>1, RunningStatus DEF ExecutorTypes, PlaceTypes
<1> USE DEF IsInstruction, ExecutorTypes
<1>9. CASE Drive
  <2>1. PinTypes'
    BY <1>2, <1>9 DEF Drive, PinTypes
  <2> QED
    BY <2>1, <1>2, <1>3, <1>7, <1>8, <1>9 DEF Drive, HoldClocks
<1>10. CASE Patch
  <2>1. PinTypes'
    BY <1>2, <1>10 DEF Patch, PinTypes
  <2> QED
    BY <2>1, <1>2, <1>3, <1>7, <1>8, <1>10 DEF Patch, HoldClocks
<1>11. CASE Jump
  BY <1>2, <1>4, <1>5, <1>6, <1>7, <1>8, <1>11 DEF Jump
<1>12. CASE Branch
  BY <1>2, <1>3, <1>4, <1>5, <1>6, <1>7, <1>8, <1>12 DEF Branch
<1>13. CASE Sample
  <2>1. PinTypes'
    BY <1>2, <1>13 DEF Sample, PinTypes
  <2> QED
    BY <2>1, <1>3, <1>5, <1>7, <1>8, <1>13 DEF Sample
<1>14. CASE Load
  <2>1. ShiftTypes'
    BY <1>2, <1>14 DEF Load, ShiftTypes, Byte
  <2> QED
    BY <2>1, <1>3, <1>5, <1>6, <1>8, <1>14 DEF Load
<1>15. CASE Out
  <2>1. PinTypes'
    BY <1>0, <1>2, <1>15 DEF Out, PinTypes, Rejected, BadLane
  <2>2. ShiftTypes'
    BY <1>2, <1>15 DEF Out, ShiftTypes, Byte, Leaving, Shifted
  <2> QED
    BY <2>1, <2>2, <1>3, <1>5, <1>8, <1>15 DEF Out
<1>16. CASE In
  <2>1. ShiftTypes'
    BY <1>2, <1>16 DEF In, ShiftTypes, Byte, Shifted
  <2> QED
    BY <2>1, <1>3, <1>5, <1>6, <1>8, <1>16 DEF In
<1>17. CASE Djnz
  <2>1. ShiftTypes'
    BY <1>0, <1>2, <1>17 DEF Djnz, ShiftTypes, Byte, Rejected, LoopExhausted
  <2> QED
    BY <2>1, <1>2, <1>3, <1>4, <1>5, <1>6, <1>8, <1>17 DEF Djnz
<1>18. CASE CheckTx \/ PushReady
  BY <1>3, <1>5, <1>6, <1>7, <1>8, <1>18 DEF CheckTx, PushReady
<1>19. CASE Stream
  <2>1. Streamed
    BY <1>2, <1>19 DEF Stream, StreamTypes, StreamRegistersAtRest
  <2> QED
    BY <2>1, <1>3, <1>5, <1>6, <1>7, <1>19 DEF Stream
<1>20. CASE PullReady
  <2>1. Front(tx) \in Byte
    <3>1. tx \in RingOf(Byte \cup {Unknown}) /\ Holds(tx, Byte) /\ tx.used # 0
      BY <1>20 DEF PullReady, Empty, Inv, TypeOK, QueueTypes, Written, QueuesWritten
    <3>2. 0 \in 0 .. tx.used - 1 /\ Ahead(tx, 0) = tx.rd
      BY <3>1, DepthAssumption DEF RingOf, Ahead, Slots
    <3> QED
      BY <3>1, <3>2 DEF Holds, Front
  <2>2. ShiftTypes'
    BY <2>1, <1>2, <1>20 DEF PullReady, ShiftTypes, Byte
  <2> QED
    BY <2>2, <1>3, <1>5, <1>6, <1>8, <1>20 DEF PullReady
<1>21. CASE Stall
  BY <1>2, <1>5, <1>6, <1>7, <1>8, <1>21 DEF Stall
<1>22. CASE ByteLoop
  <2>1. Streamed
    BY <1>0, <1>2, <1>22 DEF ByteLoop, StreamTypes, StreamRegistersAtRest, Byte, Rejected,
       LoopExhausted, NotStreaming
  <2> QED
    BY <2>1, <1>2, <1>3, <1>4, <1>5, <1>6, <1>7, <1>22 DEF ByteLoop
<1>23. CASE LastByte
  BY <1>2, <1>3, <1>4, <1>5, <1>6, <1>7, <1>8, <1>23 DEF LastByte
<1>24. CASE Capture
  <2>1. Streamed
    BY <1>0, <1>2, <1>24 DEF Capture, StreamTypes, StreamRegistersAtRest, Rejected,
       NotStreaming
  <2> QED
    BY <2>1, <1>3, <1>5, <1>6, <1>7, <1>24 DEF Capture
<1> QED
  BY <1>9, <1>10, <1>11, <1>12, <1>13, <1>14, <1>15, <1>16, <1>17, <1>18, <1>19, <1>20,
     <1>21, <1>22, <1>23, <1>24 DEF PlainSteps

\* A WAIT counts a mismatch only while the limit is still ahead.
LEMMA WaitStep ==
  ASSUME Inv, Wait, UNCHANGED loaderVars
  PROVE  ExecutorTypes' /\ StatusStep /\ WaitWithinLimit'
<1>1. issue /\ instruction.op = "WAIT" /\ ~TimesOut /\ ~BadLane
  BY DEF Wait, Runs, Is, Rejected
<1>2. /\ instruction.limit \in 0 .. MaxHold /\ pc \in 0 .. MemWords - 1
      /\ MemWords \in Nat \ {0} /\ wait_elapsed \in 0 .. MaxHold
  BY <1>1, IssuedWord, MemAssumption
     DEF Inv, Written, IsInstruction, TypeOK, ExecutorTypes, StatusTypes
<1>3. /\ UNCHANGED <<statusVars, delay_left, pinVars, shiftVars, streamVars>>
      /\ program_mem' = program_mem /\ length' = length
  BY DEF Wait, loaderVars
<1>4. StatusStep
  BY <1>1, <1>3, RunningStatus DEF streamVars, StreamRegistersAtRest, Inv, StreamingGate
<1>5. ASSUME StatusTypes', PlaceTypes' PROVE ExecutorTypes'
  BY <1>3, <1>5 DEF Inv, TypeOK, ExecutorTypes, PinTypes, ShiftTypes, StreamTypes, pinVars,
     shiftVars, streamVars
<1>6. running' = running /\ halted' = halted /\ fault' = fault /\ delay_left' = delay_left
  BY <1>3 DEF statusVars
<1>7. CASE wait_elapsed' = 0 /\ Advance
  <2>1. pc' \in 0 .. MemWords
    BY <1>2, <1>7, AdvanceInStore DEF Advance
  <2>2. StatusTypes' /\ PlaceTypes'
    BY <2>1, <1>6, <1>7, HoldWidth DEF Inv, TypeOK, ExecutorTypes, StatusTypes, PlaceTypes
  <2>3. WaitWithinLimit'
    BY <1>7 DEF WaitWithinLimit
  <2> QED
    BY <2>2, <2>3, <1>4, <1>5
<1>8. CASE ~Sees(instruction) /\ wait_elapsed' = ElapsedAfterMiss /\ pc' = pc
  <2>1. instruction' = instruction
    BY <1>3, <1>8 DEF instruction
  <2>2. CASE instruction.limit = 0
    <3>1. wait_elapsed = 0
      BY <1>1, <1>2, <2>2 DEF Inv, WaitWithinLimit, issue, Executing
    <3>2. wait_elapsed' = 0
      BY <3>1, <2>2, <1>8 DEF ElapsedAfterMiss
    <3> QED
      BY <3>2, <1>2, <1>4, <1>5, <1>6, <1>8, HoldWidth
         DEF Inv, TypeOK, ExecutorTypes, StatusTypes, PlaceTypes, WaitWithinLimit
  <2>3. CASE instruction.limit # 0
    <3>1. wait_elapsed < instruction.limit
      BY <1>1, <1>2, <2>3 DEF Inv, WaitWithinLimit, issue, Executing
    <3>2. wait_elapsed # instruction.limit - 1
      BY <1>1, <1>8, <2>3 DEF TimesOut
    <3>3. wait_elapsed + 1 < instruction.limit /\ wait_elapsed + 1 \in 0 .. MaxHold
      BY <3>1, <3>2, <1>2, HoldWidth
    <3>4. wait_elapsed' = wait_elapsed + 1
      BY <3>3, <2>3, <1>8, HoldWidth DEF ElapsedAfterMiss
    <3>5. StatusTypes' /\ PlaceTypes'
      BY <3>3, <3>4, <1>6, <1>8
         DEF Inv, TypeOK, ExecutorTypes, StatusTypes, PlaceTypes
    <3>6. WaitWithinLimit'
      BY <3>3, <3>4, <2>1, <1>1, <1>3, <1>6, <1>8 DEF WaitWithinLimit, issue
    <3> QED
      BY <3>5, <3>6, <1>4, <1>5
  <2> QED
    BY <2>2, <2>3
<1> QED
  BY <1>7, <1>8 DEF Wait

LEMMA ExecutorStep ==
  ASSUME Inv, Steps, UNCHANGED loaderVars
  PROVE  ExecutorTypes' /\ StatusStep /\ WaitWithinLimit'
<1>1. CASE PlainSteps
  BY <1>1, PlainStep
<1>2. CASE Wait
  BY <1>2, WaitStep
<1>3. CASE PastEnd \/ Reject
  <2>1. Executing /\ FailClosed
    BY <1>3 DEF PastEnd, Reject, issue
  <2> QED
    BY <2>1, FailClosedStatus DEF WaitWithinLimit
<1>4. CASE Delay
  <2>1. /\ running /\ delay_left # 0 /\ delay_left' = delay_left - 1
        /\ UNCHANGED <<statusVars, pc, wait_elapsed, pinVars, shiftVars, streamVars>>
    BY <1>4 DEF Delay, Executing
  <2>2. wait_elapsed' = 0
    BY <2>1 DEF Inv, WaitWithinLimit
  <2>3. ExecutorTypes'
    <3>1. delay_left' \in 0 .. MaxHold
      BY <2>1, HoldWidth DEF Inv, TypeOK, ExecutorTypes, PlaceTypes
    <3> QED
      BY <2>1, <3>1 DEF Inv, TypeOK, ExecutorTypes, StatusTypes, PlaceTypes, PinTypes,
         ShiftTypes, StreamTypes, statusVars, pinVars, shiftVars, streamVars
  <2>4. StatusStep
    BY <2>1 DEF Inv, StatusStep, StreamRegistersAtRest, StreamingGate, statusVars, streamVars,
       FailClosedSafely, RunsCompleteImage
  <2> QED
    BY <2>2, <2>3, <2>4 DEF WaitWithinLimit
<1>5. CASE Halt
  <2>1. /\ running /\ ~running' /\ running' \in BOOLEAN /\ halted' /\ halted' \in BOOLEAN
        /\ out_enable' = {}
        /\ UNCHANGED <<fault, out_value, sampled, pc, delay_left, wait_elapsed, shiftVars,
                       streamVars>>
    BY <1>5 DEF Halt, Runs, Is, issue, Executing
  <2>2. ExecutorTypes'
    BY <2>1 DEF Inv, TypeOK, ExecutorTypes, StatusTypes, PlaceTypes, PinTypes, ShiftTypes,
       StreamTypes, shiftVars, streamVars
  <2>3. StatusStep
    BY <2>1 DEF Inv, StatusStep, StreamRegistersAtRest, StreamingGate, streamVars
  <2> QED
    BY <2>1, <2>2, <2>3 DEF WaitWithinLimit
<1>6. CASE Halted
  <2>1. /\ ~running
        /\ UNCHANGED <<statusVars, pc, delay_left, wait_elapsed, pinVars, shiftVars,
                       streamVars>>
    BY <1>6 DEF Halted
  <2>2. ExecutorTypes'
    BY <2>1 DEF Inv, TypeOK, ExecutorTypes, StatusTypes, PlaceTypes, PinTypes, ShiftTypes,
       StreamTypes, statusVars, pinVars, shiftVars, streamVars
  <2>3. StatusStep
    BY <2>1 DEF Inv, StatusStep, StreamRegistersAtRest, StreamingGate, statusVars, pinVars,
       streamVars, FailClosedSafely, ReleasedUnlessRunning
  <2> QED
    BY <2>1, <2>2, <2>3 DEF WaitWithinLimit, statusVars
<1> QED
  BY <1>1, <1>2, <1>3, <1>4, <1>5, <1>6 DEF Steps, PlainSteps

(***************************************************************************)
(* The engine.                                                             *)
(***************************************************************************)
LEMMA UnwrittenRingOK ==
  ASSUME NEW S
  PROVE  /\ UnwrittenRing \in RingOf(S \cup {Unknown})
         /\ Coherent(UnwrittenRing) /\ Empty(UnwrittenRing) /\ Holds(UnwrittenRing, S)
<1>1. 0 \in Slots /\ 0 \in 0 .. Depth /\ Depth # 0
  BY DepthAssumption DEF Slots
<1>2. UnwrittenRing \in RingOf(S \cup {Unknown})
  BY <1>1 DEF UnwrittenRing, RingOf
<1>3. Coherent(UnwrittenRing)
  BY DepthAssumption DEF UnwrittenRing, Coherent, Full, Ahead
<1>4. Empty(UnwrittenRing) /\ Holds(UnwrittenRing, S)
  BY DEF UnwrittenRing, Empty, Holds
<1> QED
  BY <1>2, <1>3, <1>4

\* The registers of reset are safe with any store the loader can leave.
LEMMA ResetStateInv ==
  ASSUME ResetEngine, ResetQueues, LoaderTypes, LoaderBounded, LoaderErrorOnlyWhenFull,
         ImageWritten
  PROVE  Inv
<1>1. PortTypes
  BY DEF ResetEngine, PortTypes, Quiet, Levels
<1>2. ExecutorTypes
  <2>1. /\ running \in BOOLEAN /\ halted \in BOOLEAN /\ fault \in BOOLEAN
        /\ stream_enabled \in BOOLEAN
    BY DEF ResetEngine
  <2>2. /\ pc = 0 /\ delay_left = 0 /\ wait_elapsed = 0
        /\ out_value = {} /\ out_enable = {} /\ sampled = {}
        /\ tx_shift = 0 /\ rx_shift = 0 /\ loop_count = 0 /\ last_tx_bit = 0
        /\ byte_count = 0 /\ capture_mask = {}
    BY DEF ResetEngine
  <2>3. StatusTypes /\ PlaceTypes
    BY <2>1, <2>2, MemAssumption, HoldWidth DEF StatusTypes, PlaceTypes
  <2>4. PinTypes /\ ShiftTypes /\ StreamTypes
    BY <2>1, <2>2 DEF PinTypes, ShiftTypes, StreamTypes, Byte
  <2> QED
    BY <2>3, <2>4 DEF ExecutorTypes
<1>3. QueueTypes /\ QueuesWritten /\ QueuesCoherent /\ Empty(tx) /\ Empty(rx) /\ Empty(capture)
  <2>1. /\ tx = UnwrittenRing /\ rx = UnwrittenRing /\ capture = UnwrittenRing
        /\ read_page = 0 /\ host_errors = {} /\ timestamp = 0 /\ capture_prev = {}
    BY DEF ResetQueues
  <2>2. tx \in RingOf(Byte \cup {Unknown}) /\ rx \in RingOf(Byte \cup {Unknown})
        /\ capture \in RingOf(CapturedEdge \cup {Unknown})
    BY <2>1, UnwrittenRingOK
  <2>3. read_page \in 0 .. LastPage /\ timestamp \in Moment
    BY <2>1, TimeAssumption DEF LastPage, Moment
  <2>4. QueuesWritten /\ QueuesCoherent /\ Empty(tx) /\ Empty(rx) /\ Empty(capture)
    BY <2>1, UnwrittenRingOK DEF QueuesWritten, QueuesCoherent
  <2> QED
    BY <2>1, <2>2, <2>3, <2>4 DEF QueueTypes
<1>4. FailClosedSafely /\ WaitWithinLimit
  BY DEF ResetEngine, FailClosedSafely, ReleasedUnlessRunning, RunsCompleteImage,
     WaitWithinLimit
<1>5. StreamingGate
  BY <1>3 DEF ResetEngine, ResetQueues, StreamingGate
<1> QED
  BY <1>1, <1>2, <1>3, <1>4, <1>5 DEF Inv, TypeOK, Written

LEMMA InitInv == Init => Inv
<1> SUFFICES ASSUME Init PROVE Inv
  OBVIOUS
<1>1. /\ ~loader_error /\ loader_error \in BOOLEAN /\ length = 0 /\ byte_index = 0
      /\ program_mem = [i \in 0 .. MemWords - 1 |-> Unknown]
  BY DEF Init, ResetLoader
<1>2. LoaderTypes
  BY <1>1, MemAssumption DEF LoaderTypes, BytesPerWord
<1>3. LoaderBounded /\ LoaderErrorOnlyWhenFull /\ ImageWritten
  BY <1>1 DEF LoaderBounded, LoaderErrorOnlyWhenFull, ImageWritten
<1> QED
  BY <1>2, <1>3, ResetStateInv DEF Init

LEMMA LoadedInv ==
  ASSUME NEW n \in 0 .. MemWords, NEW program \in [1 .. n -> Words], Loaded(program)
  PROVE  Inv
<1>1. /\ ~loader_error /\ loader_error \in BOOLEAN /\ byte_index = 0
      /\ MemWords \in Nat /\ length = n
      /\ program_mem = [i \in 0 .. MemWords - 1 |->
                          IF i < n THEN program[i + 1] ELSE Unknown]
  <2>1. n \in Nat /\ Len(program) = n
    BY MemAssumption
  <2> QED
    BY <2>1, MemAssumption DEF Loaded
<1>2. ASSUME NEW i \in 0 .. n - 1 PROVE program_mem[i] \in Words
  <2>1. i \in 0 .. MemWords - 1 /\ i < n /\ i + 1 \in 1 .. n
    BY <1>1
  <2> QED
    BY <1>1, <2>1
<1>3. program_mem \in [0 .. MemWords - 1 -> Words \cup {Unknown}]
  <2>1. ASSUME NEW i \in 0 .. MemWords - 1, i < n PROVE program[i + 1] \in Words
    BY <1>1, <2>1
  <2> QED
    BY <1>1, <2>1
<1>4. LoaderTypes /\ LoaderBounded /\ LoaderErrorOnlyWhenFull /\ ImageWritten
  BY <1>1, <1>2, <1>3
     DEF LoaderTypes, LoaderBounded, LoaderErrorOnlyWhenFull, ImageWritten, BytesPerWord
<1> QED
  BY <1>4, ResetStateInv DEF Loaded

\* A clock that clears the queues and ends with streaming off.
LEMMA ClearedGate ==
  ASSUME PortTypes, QueueTypes, ClearQueues, ~stream_enabled', byte_count' = 0,
         capture_mask' = {}
  PROVE  StreamingGate' /\ QueueTypes' /\ QueuesWritten' /\ QueuesCoherent'
<1>1. /\ QueueTypes' /\ QueuesWritten' /\ QueuesCoherent'
      /\ Empty(tx)' /\ Empty(rx)' /\ Empty(capture)' /\ read_page' = 0 /\ host_errors' = {}
  BY ClearStep
<1> QED
  BY <1>1 DEF StreamingGate

\* What an abort leaves is safe, whichever of ena and RUN caused it.
LEMMA AbortSafe ==
  ASSUME Inv, Abort, ClearQueues, PortTypes', LoaderTypes', ImageWritten', LoaderBounded',
         LoaderErrorOnlyWhenFull'
  PROVE  Inv'
<1>1. /\ ~running' /\ ~halted' /\ ~fault' /\ ~stream_enabled'
      /\ running' \in BOOLEAN /\ halted' \in BOOLEAN /\ fault' \in BOOLEAN
      /\ stream_enabled' \in BOOLEAN
      /\ pc' = 0 /\ delay_left' = 0 /\ out_enable' = {} /\ byte_count' = 0
      /\ capture_mask' = {}
      /\ UNCHANGED <<wait_elapsed, out_value, sampled, shiftVars>>
  BY DEF Abort
<1>2. ExecutorTypes'
  BY <1>1, MemAssumption, HoldWidth DEF Inv, TypeOK, ExecutorTypes, StatusTypes, PlaceTypes,
     PinTypes, ShiftTypes, StreamTypes, shiftVars, Byte
<1>3. StreamingGate' /\ QueueTypes' /\ QueuesWritten' /\ QueuesCoherent'
  BY <1>1, ClearedGate DEF Inv, TypeOK
<1>4. FailClosedSafely' /\ WaitWithinLimit'
  BY <1>1 DEF FailClosedSafely, ReleasedUnlessRunning, RunsCompleteImage, WaitWithinLimit
<1> QED
  BY <1>2, <1>3, <1>4 DEF Inv, TypeOK, Written

\* A reset and a start clear the registers of the executor alike.
LEMMA ClearExecutionTypes ==
  ASSUME ClearExecution
  PROVE  /\ PlaceTypes' /\ ShiftTypes' /\ StreamTypes' /\ wait_elapsed' \in 0 .. MaxHold
         /\ wait_elapsed' = 0 /\ out_enable' = {} /\ sampled' = {}
         /\ ~stream_enabled' /\ byte_count' = 0 /\ capture_mask' = {}
<1>1. /\ pc' = 0 /\ delay_left' = 0 /\ wait_elapsed' = 0 /\ out_enable' = {}
      /\ sampled' = {} /\ tx_shift' = 0 /\ rx_shift' = 0 /\ loop_count' = 0
      /\ last_tx_bit' = 0 /\ byte_count' = 0 /\ capture_mask' = {}
  BY DEF ClearExecution
<1>2. ~stream_enabled' /\ stream_enabled' \in BOOLEAN
  BY DEF ClearExecution
<1>3. PlaceTypes' /\ wait_elapsed' \in 0 .. MaxHold
  BY <1>1, MemAssumption, HoldWidth DEF PlaceTypes
<1>4. ShiftTypes' /\ StreamTypes'
  BY <1>1, <1>2 DEF ShiftTypes, StreamTypes, Byte
<1> QED
  BY <1>1, <1>2, <1>3, <1>4

LEMMA ResetSafe == ASSUME Inv, ResetEdge PROVE Inv'
<1>1. /\ ~running' /\ ~halted' /\ ~fault' /\ ~loader_error'
      /\ running' \in BOOLEAN /\ halted' \in BOOLEAN /\ fault' \in BOOLEAN
      /\ loader_error' \in BOOLEAN
      /\ load_prev' \in BOOLEAN /\ run_prev' \in BOOLEAN
  BY DEF ResetEdge
<1>2. /\ input_meta' = Quiet /\ input_sync' = Quiet /\ length' = 0 /\ byte_index' = 0
      /\ out_value' = {} /\ program_mem' = program_mem
      /\ ClearExecution /\ ClearQueues
  BY DEF ResetEdge
<1>3. PortTypes'
  BY <1>1, <1>2 DEF PortTypes, Quiet, Levels
<1>4. LoaderTypes' /\ LoaderBounded' /\ LoaderErrorOnlyWhenFull' /\ ImageWritten'
  BY <1>1, <1>2, MemAssumption DEF Inv, TypeOK, LoaderTypes, LoaderBounded,
     LoaderErrorOnlyWhenFull, ImageWritten, BytesPerWord
<1>5. ExecutorTypes'
  BY <1>1, <1>2, ClearExecutionTypes DEF ExecutorTypes, StatusTypes, PinTypes
<1>6. StreamingGate' /\ QueueTypes' /\ QueuesWritten' /\ QueuesCoherent'
  BY <1>2, ClearExecutionTypes, ClearedGate DEF Inv, TypeOK
<1>7. FailClosedSafely' /\ WaitWithinLimit'
  BY <1>1, <1>2, <1>4, ClearExecutionTypes DEF FailClosedSafely, ReleasedUnlessRunning,
     RunsCompleteImage, WaitWithinLimit
<1> QED
  BY <1>3, <1>4, <1>5, <1>6, <1>7 DEF Inv, TypeOK, Written

LEMMA StartSafe == ASSUME Inv, Start PROVE Inv'
<1>1. /\ run /\ Synchronize /\ Loader /\ ClearQueues /\ ClearExecution
      /\ running' = ~BadImage /\ halted' = BadImage /\ fault' = BadImage
      /\ out_value' = out_value
  BY DEF Start, RunEdge
<1>2. PortTypes' /\ run_prev' = run
  BY <1>1, SynchronizeTypes DEF Inv, TypeOK, Synchronize
<1>3. /\ LoaderTypes' /\ ImageWritten' /\ LoaderBounded' /\ LoaderErrorOnlyWhenFull'
      /\ UNCHANGED loaderVars
  BY <1>1, LoaderStep DEF Inv, TypeOK, Written, FailClosedSafely
<1>4. length' = length /\ byte_index' = byte_index /\ loader_error' = loader_error
  BY <1>3 DEF loaderVars
<1>5. running' \in BOOLEAN /\ halted' \in BOOLEAN /\ fault' \in BOOLEAN
  BY <1>1 DEF BadImage
<1>6. ExecutorTypes'
  BY <1>1, <1>5, ClearExecutionTypes DEF Inv, TypeOK, ExecutorTypes, StatusTypes, PinTypes
<1>7. StreamingGate' /\ QueueTypes' /\ QueuesWritten' /\ QueuesCoherent'
  BY <1>1, ClearExecutionTypes, ClearedGate DEF Inv, TypeOK
<1>8. RunsCompleteImage' /\ (fault' => halted')
  BY <1>1, <1>2, <1>4 DEF RunsCompleteImage, BadImage
<1>9. ReleasedUnlessRunning' /\ WaitWithinLimit'
  BY <1>1, ClearExecutionTypes DEF ReleasedUnlessRunning, WaitWithinLimit
<1> QED
  BY <1>2, <1>3, <1>6, <1>7, <1>8, <1>9 DEF Inv, TypeOK, Written, FailClosedSafely

LEMMA StepSafe ==
  ASSUME Inv, Steps, Synchronize, Loader, Serve
  PROVE  Inv'
<1>1. run
  BY StepsRun
<1>2. PortTypes' /\ run_prev' = run
  BY SynchronizeTypes DEF Inv, TypeOK, Synchronize
<1>3. /\ LoaderTypes' /\ ImageWritten' /\ LoaderBounded' /\ LoaderErrorOnlyWhenFull'
      /\ UNCHANGED loaderVars
  BY <1>1, LoaderStep DEF Inv, TypeOK, Written, FailClosedSafely
<1>4. length' = length /\ byte_index' = byte_index /\ loader_error' = loader_error
  BY <1>3 DEF loaderVars
<1>5. ExecutorTypes' /\ StatusStep /\ WaitWithinLimit'
  BY <1>3, ExecutorStep
<1>6. QueueTypes' /\ QueuesWritten' /\ QueuesCoherent'
  BY ServeStep DEF Inv, TypeOK, Written
<1>7. FailClosedSafely'
  BY <1>1, <1>2, <1>3, <1>4, <1>5 DEF Inv, StatusStep, FailClosedSafely,
     ReleasedUnlessRunning, RunsCompleteImage
<1>8. StreamingGate'
  <2>1. ASSUME ~stream_enabled'
        PROVE  /\ Empty(tx)' /\ Empty(rx)' /\ Empty(capture)'
               /\ read_page' = 0 /\ host_errors' \subseteq {"time_wrapped"}
    <3>1. ~stream_enabled
      BY <2>1, <1>5 DEF StatusStep
    <3> QED
      BY <3>1, ServeOutsideStreaming DEF Inv, TypeOK, StreamingGate
  <2> QED
    BY <2>1, <1>5 DEF StreamingGate, StatusStep, StreamRegistersAtRest
<1> QED
  BY <1>2, <1>3, <1>5, <1>6, <1>7, <1>8 DEF Inv, TypeOK, Written

LEMMA NextInv == Inv /\ [Next]_vars => Inv'
<1> SUFFICES ASSUME Inv, [Next]_vars PROVE Inv'
  OBVIOUS
<1>1. CASE ResetEdge
  BY <1>1, ResetSafe
<1>2. CASE Deselected
  <2>1. Synchronize /\ Abort /\ ClearQueues /\ UNCHANGED loaderVars
    BY <1>2 DEF Deselected
  <2>2. PortTypes'
    BY <2>1, SynchronizeTypes DEF Inv, TypeOK
  <2>3. LoaderTypes' /\ ImageWritten' /\ LoaderBounded' /\ LoaderErrorOnlyWhenFull'
    BY <2>1 DEF loaderVars, Inv, TypeOK, Written, FailClosedSafely, LoaderTypes, ImageWritten,
       LoaderBounded, LoaderErrorOnlyWhenFull
  <2> QED
    BY <2>1, <2>2, <2>3, AbortSafe
<1>3. CASE Stopped
  <2>1. Synchronize /\ Abort /\ ClearQueues /\ Loader
    BY <1>3 DEF Stopped
  <2>2. PortTypes'
    BY <2>1, SynchronizeTypes DEF Inv, TypeOK
  <2>3. LoaderTypes' /\ ImageWritten' /\ LoaderBounded' /\ LoaderErrorOnlyWhenFull'
    BY <2>1, LoaderStep DEF Inv, TypeOK, Written, FailClosedSafely
  <2> QED
    BY <2>1, <2>2, <2>3, AbortSafe
<1>4. CASE Start
  BY <1>4, StartSafe
<1>5. CASE Steps /\ Synchronize /\ Loader /\ Serve
  BY <1>5, StepSafe
<1>6. CASE UNCHANGED vars
  BY <1>6 DEF vars, syncVars, loaderVars, statusVars, pinVars, shiftVars, streamVars,
     queueVars, Inv, TypeOK, PortTypes, LoaderTypes, ExecutorTypes, StatusTypes, PlaceTypes,
     PinTypes, ShiftTypes, StreamTypes, QueueTypes, FailClosedSafely, ReleasedUnlessRunning,
     RunsCompleteImage, LoaderBounded, LoaderErrorOnlyWhenFull, WaitWithinLimit, instruction,
     StreamingGate, Written, ImageWritten, QueuesWritten, QueuesCoherent
<1> QED
  BY <1>1, <1>2, <1>3, <1>4, <1>5, <1>6 DEF Next, Clocked, Steps

(***************************************************************************)
(* The clocks of a run: which action a step is, seen from the run it       *)
(* begins, continues or serves.                                            *)
(***************************************************************************)
LEMMA ClockCases ==
  ASSUME Next
  PROVE  ResetEdge \/ Deselected \/ Stopped \/ Start
         \/ (Steps /\ Synchronize /\ Loader /\ Serve)
BY DEF Next, Clocked, Steps

\* A clock with streaming on afterwards is a step of the executor.
LEMMA StreamingStep ==
  ASSUME Next, stream_enabled'
  PROVE  Steps /\ Synchronize /\ Loader /\ Serve
<1>1. ~ResetEdge /\ ~Deselected /\ ~Stopped /\ ~Start
  BY DEF ResetEdge, Deselected, Stopped, Start, Abort, ClearExecution
<1> QED
  BY <1>1, ClockCases

\* Nothing but a start begins an execution.
LEMMA OnlyStartStarts ==
  ASSUME Inv, Next, ~running, running'
  PROVE  Start
<1>1. ~ResetEdge /\ ~Deselected /\ ~Stopped
  BY DEF ResetEdge, Deselected, Stopped, Abort
<1>2. ASSUME Steps, Loader PROVE FALSE
  <2>1. UNCHANGED loaderVars
    BY <1>2, StepsRun, LoaderStep DEF Inv, TypeOK, Written, FailClosedSafely
  <2> QED
    BY <2>1, <1>2, ExecutorStep DEF StatusStep
<1> QED
  BY <1>1, <1>2, ClockCases

\* A running program goes on only by a step of the executor.
LEMMA GoesOnByStep ==
  ASSUME Inv, Next, running, running' \/ fault'
  PROVE  Steps /\ Executing
<1>1. run_prev /\ ~ResetEdge /\ ~Deselected /\ ~Stopped
  BY DEF Inv, FailClosedSafely, RunsCompleteImage, ResetEdge, Deselected, Stopped, Abort
<1>2. Steps
  BY <1>1, ClockCases DEF Start, RunEdge
<1> QED
  BY <1>1, <1>2, StepsRun DEF Executing

\* A step of the executor that ends the run leaves it halted.
LEMMA EndsHalted ==
  ASSUME Steps, running, ~running'
  PROVE  halted'
BY DEF Steps, Delay, PastEnd, Reject, FailClosed, Drive, Patch, Wait, Jump, Branch, Sample,
   Load, Out, In, Djnz, CheckTx, Stream, PullReady, PushReady, Stall, ByteLoop, LastByte,
   Capture, Halt, Halted, statusVars

\* Once a run has ended the executor holds everything.
LEMMA EndedStays ==
  ASSUME Steps, ~running
  PROVE  Halted
BY DEF Steps, Delay, PastEnd, Reject, Drive, Patch, Wait, Jump, Branch, Sample, Load, Out, In,
   Djnz, CheckTx, Stream, PullReady, PushReady, Stall, ByteLoop, LastByte, Capture, Halt,
   Runs, Is, issue, Executing

\* An ended run is remembered for exactly as long as RUN stays high.
EndSeenWithRun == halted => run_prev

LEMMA EndSeenStep == Inv /\ EndSeenWithRun /\ [Next]_vars => EndSeenWithRun'
<1> SUFFICES ASSUME Inv, EndSeenWithRun, [Next]_vars PROVE EndSeenWithRun'
  OBVIOUS
<1>1. CASE ResetEdge \/ Deselected \/ Stopped
  BY <1>1 DEF ResetEdge, Deselected, Stopped, Abort, EndSeenWithRun
<1>2. CASE Start
  BY <1>2 DEF Start, RunEdge, Synchronize, EndSeenWithRun
<1>3. CASE Steps /\ Synchronize
  BY <1>3, StepsRun DEF Synchronize, EndSeenWithRun
<1>4. CASE UNCHANGED vars
  BY <1>4 DEF vars, syncVars, statusVars, EndSeenWithRun
<1> QED
  BY <1>1, <1>2, <1>3, <1>4, ClockCases

\* The inductive invariant.
THEOREM Invariance == Spec => []Inv
BY InitInv, NextInv, PTL DEF Spec

(***************************************************************************)
(* Every register keeps its width (engine.v:11-39): no pointer, count,     *)
(* loop counter or program counter ever wraps by accident.                 *)
(***************************************************************************)
THEOREM TypeCorrect == Spec => []TypeOK
BY Invariance, PTL DEF Inv

(***************************************************************************)
(* Pins are driven only by a running program, and only a complete image    *)
(* runs, for every program and every behaviour of the host.                *)
(***************************************************************************)
THEOREM FailsClosed == Spec => []FailClosedSafely
BY Invariance, PTL DEF Inv

(***************************************************************************)
(* A WAIT never counts past its limit, across aborts and restarts.         *)
(***************************************************************************)
THEOREM WaitIsBounded == Spec => []WaitWithinLimit
BY Invariance, PTL DEF Inv

(***************************************************************************)
(* No byte, edge or error survives from one streaming run to the next.     *)
(***************************************************************************)
THEOREM StreamingIsGated == Spec => []StreamingGate
BY Invariance, PTL DEF Inv

(***************************************************************************)
(* Program words and queue slots are written before they are read.         *)
(***************************************************************************)
THEOREM ReadsAreDefined == Spec => []NothingUnwrittenIsRead
<1>1. Inv => NothingUnwrittenIsRead
  BY IssuedWord DEF Inv, Written, NothingUnwrittenIsRead
<1> QED
  BY <1>1, Invariance, PTL

(***************************************************************************)
(* A program in the store of an engine that is never deselected nor reset, *)
(* whose host is silent until it streams and never lets RUN fall again.    *)
(***************************************************************************)
Stored(p) ==
  /\ length = Len(p)
  /\ program_mem = [i \in 0 .. MemWords - 1 |-> IF i < Len(p) THEN p[i + 1] ELSE Unknown]

RunOnly ==
  /\ (run_prev => run) /\ (run => input_meta.run)
  /\ ~run_prev => /\ ~running /\ ~stream_enabled
                  /\ ~input_meta.load /\ ~input_meta.rewind /\ ~load /\ ~rewind_program

InStore(p) ==
  /\ p \in Seq(Words) /\ Len(p) <= MemWords /\ ~Deselects /\ ~Resets
  /\ Stored(p) /\ RunOnly

\* The levels that keep it so.
RunPins == input_meta'.run /\ (~stream_enabled => ~input_meta'.load /\ ~input_meta'.rewind)

LEMMA LoadedImage ==
  ASSUME NEW p, p \in Seq(Words), Len(p) <= MemWords, ~Deselects, ~Resets, Loaded(p)
  PROVE  InStore(p)
BY DEF Loaded, ResetEngine, InStore, Stored, RunOnly, Quiet, run, load, rewind_program

LEMMA StepsAreLate == ASSUME Steps PROVE run /\ run_prev
BY DEF Steps, Delay, PastEnd, Reject, Drive, Patch, Wait, Jump, Branch, Sample, Load, Out, In,
   Djnz, CheckTx, Stream, PullReady, PushReady, Stall, ByteLoop, LastByte, Capture, Halt,
   Halted, Runs, Is, issue, Executing

\* Before the run, the clock of the start, and a clock of the executor.
LEMMA ThreeClocks ==
  ASSUME NEW p, InStore(p), Next
  PROVE  /\ Synchronize /\ Loader
         /\ \/ ~run /\ Stopped
            \/ run /\ ~run_prev /\ Start
            \/ run /\ run_prev /\ Steps /\ Serve
<1>1. ~Deselects /\ ~Resets
  BY DEF InStore
<1>2. CASE Stopped
  BY <1>2 DEF Stopped
<1>3. CASE Start
  BY <1>3 DEF Start, RunEdge
<1>4. CASE Steps /\ Synchronize /\ Loader /\ Serve
  BY <1>4, StepsAreLate
<1> QED
  BY <1>1, <1>2, <1>3, <1>4 DEF Next, Clocked, Steps, ResetEdge, Deselected

LEMMA ImageStays ==
  ASSUME NEW p, InStore(p), Next, RunPins
  PROVE  InStore(p)'
<1>1. Synchronize /\ Loader
  BY ThreeClocks
<1>2. UNCHANGED loaderVars
  BY <1>1 DEF Loader, Rewind, Overrun, TakeByte, CompleteWord, NoStrobe, LoadStrobe, InStore,
     RunOnly
<1>3. run_prev' = run /\ input_sync' = input_meta
  BY <1>1 DEF Synchronize
<1>4. ~run => ~running' /\ ~stream_enabled' /\ ~stream_enabled
  BY ThreeClocks DEF Stopped, Abort, InStore, RunOnly
<1>5. RunOnly'
  BY <1>3, <1>4 DEF RunOnly, RunPins, InStore, run, load, rewind_program
<1>6. Stored(p)'
  BY <1>2 DEF Stored, InStore, loaderVars
<1> QED
  BY <1>5, <1>6 DEF InStore

LEMMA ImageStutters ==
  ASSUME NEW p, InStore(p), UNCHANGED vars
  PROVE  InStore(p)'
BY DEF vars, syncVars, loaderVars, statusVars, streamVars, InStore, Stored, RunOnly, run, load,
   rewind_program

\* The word at an address of the program.
LEMMA Fetch ==
  ASSUME NEW p, InStore(p), pc \in 0 .. Len(p) - 1
  PROVE  /\ instruction = p[pc + 1] /\ pc < length
         /\ pc \in Nat /\ length \in Nat /\ (pc + 1) % (2 * MemWords) = pc + 1
<1>1. Len(p) \in Nat /\ Len(p) <= MemWords /\ MemWords \in Nat \ {0}
  BY MemAssumption DEF InStore
<1>2. pc % MemWords = pc /\ pc \in 0 .. MemWords - 1 /\ pc < Len(p) /\ pc \in Nat
  BY <1>1
<1>3. (pc + 1) % (2 * MemWords) = pc + 1
  BY <1>1, <1>2, AdvanceInStore
<1> QED
  BY <1>1, <1>2, <1>3 DEF instruction, InStore, Stored

LEMMA DelayClock ==
  ASSUME Steps, running, delay_left # 0
  PROVE  Delay
BY DEF Steps, Delay, PastEnd, Reject, Drive, Patch, Wait, Jump, Branch, Sample, Load, Out, In,
   Djnz, CheckTx, Stream, PullReady, PushReady, Stall, ByteLoop, LastByte, Capture, Halt,
   Halted, Runs, Is, issue, Executing

\* A clock while nothing runs: it may be the one of the start.
LEMMA RestClock ==
  ASSUME NEW p, InStore(p), Next, ~running, out_enable = {}
  PROVE  /\ out_enable' = {} /\ out_value' = out_value
         /\ running' => pc' = 0 /\ delay_left' = 0
<1>1. CASE Stopped
  BY <1>1 DEF Stopped, Abort
<1>2. CASE Start
  BY <1>2 DEF Start, ClearExecution
<1>3. CASE Steps
  BY <1>3 DEF Steps, Delay, PastEnd, Reject, Drive, Patch, Wait, Jump, Branch, Sample, Load,
     Out, In, Djnz, CheckTx, Stream, PullReady, PushReady, Stall, ByteLoop, LastByte, Capture,
     Halt, Halted, Runs, Is, issue, Executing, statusVars, pinVars
<1> QED
  BY <1>1, <1>2, <1>3, ThreeClocks
=================================================================================
