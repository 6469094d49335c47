------------------------------- MODULE EngineState -------------------------------
(***************************************************************************)
(* The registers and wires of src/engine.v, shared by the modules that     *)
(* model its always blocks: HostPort (synchronizer and program loader),    *)
(* StreamQueues (queues, pages, errors, timestamps) and Executor (the      *)
(* instructions).  One step of every module is one rising clock edge; an   *)
(* unprimed variable is the value before the edge.                         *)
(*                                                                         *)
(* A five-lane vector is the set of its lanes that are 1, a byte a number  *)
(* below 256, an instruction a record of its decoded fields.               *)
(***************************************************************************)
EXTENDS Ring

CONSTANTS
  MemWords,     \* words in the program store: 64 in the source
  TimeSpan,     \* values of the timestamp counter: 2^24 in the source
  Words,        \* the instructions the host may load
  HostBytes,    \* the values host_data may have on a strobe
  Inputs,       \* the levels the eight bidirectional pins may have
  Deselects,    \* whether the environment ever lowers ena
  Resets,       \* whether it ever lowers rst_n again
  Unknown       \* what storage without a reset holds until it is written

Lanes == 0 .. 4
Byte  == 0 .. 255

\* pins_in: three host controls and the lanes that read 1.
Levels == [load : BOOLEAN, run : BOOLEAN, rewind : BOOLEAN, lanes : SUBSET Lanes]

Quiet == [load |-> FALSE, run |-> FALSE, rewind |-> FALSE, lanes |-> {}]

\* Host commands above the page numbers 0 .. 10.
LastPage     == 10
PopReceived  == 128
PopCaptured  == 129
ClearErrors  == 130

ErrorBits == {"tx_full", "rx_empty", "capture_empty", "capture_full",
              "bad_command", "time_wrapped"}

(***************************************************************************)
(* The fields of an instruction word, by opcode.  Pin fields have three    *)
(* bits, so 5 .. 7 name no lane.  ILLEGAL stands for every word that no    *)
(* opcode decodes: opcode e, an unknown streaming or capture form.         *)
(***************************************************************************)
PinField == 0 .. 7
Target   == 0 .. MemWords - 1
MaxHold  == 262143

Opcodes ==
  {"DRIVE", "WAIT", "JUMP", "SAMPLE", "LOAD", "OUT", "IN", "DJNZ", "BRANCH", "CHECK_TX",
   "TRAP", "PATCH", "STREAM", "PULL", "PUSH", "BYTE_LOOP", "LAST_BYTE", "CAPTURE", "HALT",
   "ILLEGAL"}

IsInstruction(w) ==
  /\ w.op \in Opcodes
  /\ w.op \in {"DRIVE", "PATCH"} =>
       w.hold \in 0 .. MaxHold /\ w.oe \subseteq Lanes /\ w.value \subseteq Lanes
  /\ w.op = "PATCH" => w.mask \subseteq Lanes /\ w.hold <= 8191
  /\ w.op \in {"WAIT", "OUT", "IN", "BRANCH", "CHECK_TX"} => w.lane \in PinField
  /\ w.op \in {"WAIT", "BRANCH"} => w.level \in BOOLEAN
  /\ w.op = "WAIT" => w.limit \in 0 .. MaxHold
  /\ w.op \in {"JUMP", "DJNZ", "BRANCH", "BYTE_LOOP", "LAST_BYTE"} => w.target \in Target
  /\ w.op = "LOAD" => w.byte \in Byte /\ w.count \in Byte
  /\ w.op \in {"OUT", "IN"} => w.lsb \in BOOLEAN
  /\ w.op = "OUT" => w.drain \in BOOLEAN
  /\ w.op = "STREAM" => w.count \in Byte
  /\ w.op = "CAPTURE" => w.mask \subseteq Lanes

ASSUME MemAssumption  == MemWords \in Nat \ {0}
ASSUME TimeAssumption == TimeSpan \in Nat \ {0}
ASSUME WordAssumption == Words # {} /\ \A w \in Words : IsInstruction(w)
ASSUME HostAssumption == HostBytes # {} /\ HostBytes \subseteq Byte
ASSUME PinAssumption  == Inputs \subseteq Levels /\ Quiet \in Inputs
ASSUME SelectAssumption == Deselects \in BOOLEAN /\ Resets \in BOOLEAN
ASSUME UnknownAssumption == Unknown \notin Byte /\ Unknown \notin Words

VARIABLES
  input_meta, input_sync, load_prev, run_prev,          \* synchronizer and edges
  program_mem, byte_index, length, loader_error,        \* program store
  running, halted, fault, pc, delay_left, wait_elapsed, \* execution
  out_value, out_enable, sampled,                       \* pins
  tx_shift, rx_shift, loop_count, last_tx_bit,          \* shift registers
  stream_enabled, byte_count, capture_mask,             \* streaming
  tx, rx, capture,                                      \* the three queues
  read_page, host_errors, timestamp, capture_prev       \* host-visible streaming

syncVars   == <<input_meta, input_sync, load_prev, run_prev>>
loaderVars == <<program_mem, byte_index, length, loader_error>>
statusVars == <<running, halted, fault>>
pinVars    == <<out_value, out_enable, sampled>>
shiftVars  == <<tx_shift, rx_shift, loop_count, last_tx_bit>>
streamVars == <<stream_enabled, byte_count, capture_mask>>
queueVars  == <<tx, rx, capture, read_page, host_errors, timestamp, capture_prev>>

vars == <<syncVars, loaderVars, statusVars, pc, delay_left, wait_elapsed,
          pinVars, shiftVars, streamVars, queueVars>>

load           == input_sync.load
run            == input_sync.run
rewind_program == input_sync.rewind

\* The wire "instruction" drops the top bit of pc.
instruction == program_mem[pc % MemWords]

\* RUN has been high for a clock and the program is executing.
Executing == run /\ run_prev /\ running

\* An instruction that does not wait for the delay of the one before it.
IssueDuringDelay == Executing /\ pc < length

issue == Executing /\ delay_left = 0 /\ pc < length

\* The synchronized level of the lane an instruction names.
Sees(w) == (w.lane \in input_sync.lanes) = w.level
=================================================================================
