--------------------------------- MODULE Executor ---------------------------------
(***************************************************************************)
(* The instruction block of engine.v: what one clock does to a program     *)
(* that is executing.  An action leaves the host port and the queues to    *)
(* the modules that own them; Engine puts the three together.              *)
(***************************************************************************)
EXTENDS EngineState

Is(op) == issue /\ instruction.op = op

\* The 7-bit program counter.
Advance == pc' = (pc + 1) % (2 * MemWords)
Goto(target) == pc' = target

\* The task fail_closed: stop, report, and release every pin.
FailClosed ==
  /\ running' = FALSE /\ halted' = TRUE /\ fault' = TRUE
  /\ out_enable' = {}
  /\ UNCHANGED <<out_value, sampled, pc, delay_left, wait_elapsed, shiftVars, streamVars>>

Delay ==
  /\ Executing /\ delay_left # 0
  /\ delay_left' = delay_left - 1
  /\ UNCHANGED <<statusVars, pc, wait_elapsed, pinVars, shiftVars, streamVars>>

PastEnd ==
  /\ Executing /\ delay_left = 0 /\ pc >= length
  /\ FailClosed

(***************************************************************************)
(* The words that fail closed, given the state they execute in.            *)
(***************************************************************************)
BadLaneFromSix ==
  /\ instruction.op \in {"WAIT", "OUT", "IN", "BRANCH", "CHECK_TX"}
  /\ instruction.lane \notin 0 .. 5

\* A pin field of 5, 6 or 7 names no lane.
BadLane == /\ instruction.op \in {"WAIT", "OUT", "IN", "BRANCH", "CHECK_TX"}
           /\ instruction.lane \notin Lanes

\* Off by one: the timeout fires on the mismatch after the last allowed one.
TimesOutLate == /\ instruction.op = "WAIT"
                /\ ~BadLane /\ ~Sees(instruction)
                /\ instruction.limit # 0 /\ wait_elapsed = instruction.limit

TimesOut == /\ instruction.op = "WAIT"
            /\ ~BadLane /\ ~Sees(instruction)
            /\ instruction.limit # 0 /\ wait_elapsed = instruction.limit - 1

Conflicts == /\ instruction.op = "CHECK_TX"
             /\ (instruction.lane \in input_sync.lanes) # (last_tx_bit = 1)

NotStreaming ==
  /\ ~stream_enabled
  /\ instruction.op \in {"PULL", "PUSH", "BYTE_LOOP", "LAST_BYTE", "CAPTURE"}

LoopExhausted ==
  \/ instruction.op = "DJNZ" /\ loop_count = 0
  \/ instruction.op \in {"BYTE_LOOP", "LAST_BYTE"} /\ byte_count = 0
  \/ instruction.op = "STREAM" /\ instruction.count = 0

Rejected ==
  \/ BadLane \/ TimesOut \/ Conflicts \/ NotStreaming \/ LoopExhausted
  \/ instruction.op \in {"TRAP", "ILLEGAL"}

Reject == issue /\ Rejected /\ FailClosed

Runs(op) == Is(op) /\ ~Rejected

\* The field is the duration minus one; counting the duration is one too many.
HoldClocksTooMany == instruction.hold + 1
HoldClocks == instruction.hold

Drive ==
  /\ Runs("DRIVE")
  /\ out_value' = instruction.value
  /\ out_enable' = instruction.oe
  /\ delay_left' = HoldClocks
  /\ Advance
  /\ UNCHANGED <<statusVars, wait_elapsed, sampled, shiftVars, streamVars>>

Patch ==
  /\ Runs("PATCH")
  /\ LET Patched(old, new) == (old \ instruction.mask) \cup (new \cap instruction.mask)
     IN  /\ out_value' = Patched(out_value, instruction.value)
         /\ out_enable' = Patched(out_enable, instruction.oe)
  /\ delay_left' = HoldClocks
  /\ Advance
  /\ UNCHANGED <<statusVars, wait_elapsed, sampled, shiftVars, streamVars>>

\* A mismatch that is not counted.
ElapsedUncounted == wait_elapsed

ElapsedAfterMiss ==
  IF instruction.limit = 0 THEN wait_elapsed ELSE (wait_elapsed + 1) % (MaxHold + 1)

Wait ==
  /\ Runs("WAIT")
  /\ \/ Sees(instruction) /\ wait_elapsed' = 0 /\ Advance
     \/ /\ ~Sees(instruction)
        /\ wait_elapsed' = ElapsedAfterMiss
        /\ UNCHANGED pc
  /\ UNCHANGED <<statusVars, delay_left, pinVars, shiftVars, streamVars>>

Jump ==
  /\ Runs("JUMP") /\ Goto(instruction.target)
  /\ UNCHANGED <<statusVars, delay_left, wait_elapsed, pinVars, shiftVars, streamVars>>

Branch ==
  /\ Runs("BRANCH")
  /\ IF Sees(instruction) THEN Goto(instruction.target) ELSE Advance
  /\ UNCHANGED <<statusVars, delay_left, wait_elapsed, pinVars, shiftVars, streamVars>>

Sample ==
  /\ Runs("SAMPLE") /\ Advance
  /\ sampled' = input_sync.lanes
  /\ UNCHANGED <<statusVars, delay_left, wait_elapsed, out_value, out_enable,
                 shiftVars, streamVars>>

Load ==
  /\ Runs("LOAD") /\ Advance
  /\ tx_shift' = instruction.byte
  /\ loop_count' = instruction.count
  /\ rx_shift' = 0
  /\ UNCHANGED <<statusVars, delay_left, wait_elapsed, pinVars, last_tx_bit, streamVars>>

\* Shifting a byte one place, and the bit that leaves it.
Leaving(byte, lsb) == IF lsb THEN byte % 2 ELSE byte \div 128
Shifted(byte, lsb, in) ==
  IF lsb THEN (128 * in) + (byte \div 2) ELSE ((2 * byte) % 256) + in

Out ==
  /\ Runs("OUT") /\ Advance
  /\ LET bit  == Leaving(tx_shift, instruction.lsb)
         lane == {instruction.lane}
         high == bit = 1 /\ ~instruction.drain
         off  == bit = 1 /\ instruction.drain
     IN  /\ last_tx_bit' = bit
         /\ out_value' = IF high THEN out_value \cup lane ELSE out_value \ lane
         /\ out_enable' = IF off THEN out_enable \ lane ELSE out_enable \cup lane
         /\ tx_shift' = Shifted(tx_shift, instruction.lsb, 0)
  /\ UNCHANGED <<statusVars, delay_left, wait_elapsed, sampled, rx_shift, loop_count,
                 streamVars>>

In ==
  /\ Runs("IN") /\ Advance
  /\ LET bit == IF instruction.lane \in input_sync.lanes THEN 1 ELSE 0
     IN  rx_shift' = Shifted(rx_shift, instruction.lsb, bit)
  /\ UNCHANGED <<statusVars, delay_left, wait_elapsed, pinVars, tx_shift, loop_count,
                 last_tx_bit, streamVars>>

Djnz ==
  /\ Runs("DJNZ")
  /\ loop_count' = loop_count - 1
  /\ IF loop_count = 1 THEN Advance ELSE Goto(instruction.target)
  /\ UNCHANGED <<statusVars, delay_left, wait_elapsed, pinVars, tx_shift, rx_shift,
                 last_tx_bit, streamVars>>

CheckTx ==
  /\ Runs("CHECK_TX") /\ Advance
  /\ UNCHANGED <<statusVars, delay_left, wait_elapsed, pinVars, shiftVars, streamVars>>

Stream ==
  /\ Runs("STREAM") /\ Advance
  /\ stream_enabled' = TRUE
  /\ byte_count' = instruction.count
  /\ UNCHANGED <<statusVars, delay_left, wait_elapsed, pinVars, shiftVars, capture_mask>>

PullReady ==
  /\ Runs("PULL") /\ ~Empty(tx) /\ Advance
  /\ tx_shift' = Front(tx)
  /\ loop_count' = 8
  /\ rx_shift' = 0
  /\ UNCHANGED <<statusVars, delay_left, wait_elapsed, pinVars, last_tx_bit, streamVars>>

PushReady ==
  /\ Runs("PUSH") /\ ~Full(rx) /\ Advance
  /\ UNCHANGED <<statusVars, delay_left, wait_elapsed, pinVars, shiftVars, streamVars>>

\* PULL on an empty queue and PUSH on a full one execute again next clock.
Stall ==
  /\ \/ Runs("PULL") /\ Empty(tx)
     \/ Runs("PUSH") /\ Full(rx)
  /\ UNCHANGED <<statusVars, pc, delay_left, wait_elapsed, pinVars, shiftVars, streamVars>>

ByteLoop ==
  /\ Runs("BYTE_LOOP")
  /\ byte_count' = byte_count - 1
  /\ IF byte_count = 1 THEN Advance ELSE Goto(instruction.target)
  /\ UNCHANGED <<statusVars, delay_left, wait_elapsed, pinVars, shiftVars,
                 stream_enabled, capture_mask>>

LastByte ==
  /\ Runs("LAST_BYTE")
  /\ IF byte_count = 1 THEN Goto(instruction.target) ELSE Advance
  /\ UNCHANGED <<statusVars, delay_left, wait_elapsed, pinVars, shiftVars, streamVars>>

Capture ==
  /\ Runs("CAPTURE") /\ Advance
  /\ capture_mask' = instruction.mask
  /\ UNCHANGED <<statusVars, delay_left, wait_elapsed, pinVars, shiftVars,
                 stream_enabled, byte_count>>

Halt ==
  /\ Runs("HALT")
  /\ running' = FALSE /\ halted' = TRUE
  /\ out_enable' = {}
  /\ UNCHANGED <<fault, out_value, sampled, pc, delay_left, wait_elapsed, shiftVars,
                 streamVars>>

\* RUN still high after a halt or a fault: everything is held.
Halted ==
  /\ run /\ run_prev /\ ~running
  /\ UNCHANGED <<statusVars, pc, delay_left, wait_elapsed, pinVars, shiftVars, streamVars>>
=================================================================================
