---------------------------------- MODULE Engine ----------------------------------
(***************************************************************************)
(* The protocol engine of src/engine.v: the host port, the queues and the  *)
(* executor on one clock.  Every action of Next is a rising edge that all  *)
(* three see; ena, rst_n and the pins are the environment's to choose.     *)
(***************************************************************************)
EXTENDS HostPort, StreamQueues, Executor

UnwrittenRing ==
  [mem |-> [i \in Slots |-> Unknown], rd |-> 0, wr |-> 0, used |-> 0]

\* The registers a reset clears; the storage and capture_prev are not reset.
ResetLoader == byte_index = 0 /\ length = 0 /\ loader_error = FALSE

ResetEngine ==
  /\ input_meta = Quiet /\ input_sync = Quiet
  /\ load_prev = FALSE /\ run_prev = FALSE
  /\ running = FALSE /\ halted = FALSE /\ fault = FALSE
  /\ pc = 0 /\ delay_left = 0 /\ wait_elapsed = 0
  /\ out_value = {} /\ out_enable = {} /\ sampled = {}
  /\ tx_shift = 0 /\ rx_shift = 0 /\ loop_count = 0 /\ last_tx_bit = 0
  /\ stream_enabled = FALSE /\ byte_count = 0 /\ capture_mask = {}

ResetQueues ==
  /\ tx = UnwrittenRing /\ rx = UnwrittenRing /\ capture = UnwrittenRing
  /\ read_page = 0 /\ host_errors = {} /\ timestamp = 0 /\ capture_prev = {}

\* The state the power-up reset leaves.
Init ==
  /\ ResetEngine /\ ResetLoader /\ ResetQueues
  /\ program_mem = [i \in 0 .. MemWords - 1 |-> Unknown]

\* The state in which the loader leaves a complete program, RUN still low.
Loaded(program) ==
  /\ ResetEngine /\ ResetQueues
  /\ byte_index = 0 /\ loader_error = FALSE /\ length = Len(program)
  /\ program_mem = [i \in 0 .. MemWords - 1 |->
                      IF i < Len(program) THEN program[i + 1] ELSE Unknown]

\* A start that leaves the count of an interrupted WAIT behind.
ClearExecutionKeepsElapsed ==
  /\ pc' = 0 /\ delay_left' = 0 /\ UNCHANGED wait_elapsed
  /\ out_enable' = {} /\ sampled' = {}
  /\ tx_shift' = 0 /\ rx_shift' = 0 /\ loop_count' = 0 /\ last_tx_bit' = 0
  /\ stream_enabled' = FALSE /\ byte_count' = 0 /\ capture_mask' = {}

\* The registers a reset and a start both clear.
ClearExecution ==
  /\ pc' = 0 /\ delay_left' = 0 /\ wait_elapsed' = 0
  /\ out_enable' = {} /\ sampled' = {}
  /\ tx_shift' = 0 /\ rx_shift' = 0 /\ loop_count' = 0 /\ last_tx_bit' = 0
  /\ stream_enabled' = FALSE /\ byte_count' = 0 /\ capture_mask' = {}

ResetEdge ==
  /\ Resets
  /\ input_meta' = Quiet /\ input_sync' = Quiet
  /\ load_prev' = FALSE /\ run_prev' = FALSE
  /\ byte_index' = 0 /\ length' = 0 /\ loader_error' = FALSE
  /\ running' = FALSE /\ halted' = FALSE /\ fault' = FALSE
  /\ out_value' = {}
  /\ ClearExecution /\ ClearQueues
  /\ UNCHANGED program_mem

\* An abort that leaves the selected lanes selected.
AbortKeepsMask ==
  /\ running' = FALSE /\ halted' = FALSE /\ fault' = FALSE
  /\ pc' = 0 /\ delay_left' = 0
  /\ out_enable' = {}
  /\ stream_enabled' = FALSE /\ byte_count' = 0
  /\ UNCHANGED <<wait_elapsed, out_value, sampled, shiftVars, capture_mask>>

\* What ena low and RUN low do to the executor.
Abort ==
  /\ running' = FALSE /\ halted' = FALSE /\ fault' = FALSE
  /\ pc' = 0 /\ delay_left' = 0
  /\ out_enable' = {}
  /\ stream_enabled' = FALSE /\ byte_count' = 0 /\ capture_mask' = {}
  /\ UNCHANGED <<wait_elapsed, out_value, sampled, shiftVars>>

\* A deselection that clears the edge detector of RUN along with the executor.
DeselectedForgetsRun ==
  /\ Deselects
  /\ input_meta' \in Inputs /\ input_sync' = input_meta /\ load_prev' = load
  /\ run_prev' = FALSE
  /\ Abort /\ ClearQueues
  /\ UNCHANGED loaderVars

Deselected ==
  /\ Deselects
  /\ Synchronize /\ Abort /\ ClearQueues
  /\ UNCHANGED loaderVars

\* RUN low: the executor is held and the loader listens.
Stopped ==
  /\ ~run
  /\ Synchronize /\ Loader /\ Abort /\ ClearQueues

\* A start that overlooks a word of which only some bytes have arrived.
BadImageIgnoresPartial == length = 0 \/ loader_error

BadImage == length = 0 \/ byte_index # 0 \/ loader_error

RunEdge == run /\ ~run_prev

\* The rising edge of RUN starts a complete program and refuses any other.
Start ==
  /\ RunEdge
  /\ Synchronize /\ ClearQueues /\ ClearExecution
  /\ running' = ~BadImage /\ halted' = BadImage /\ fault' = BadImage
  /\ Loader
  /\ UNCHANGED out_value

\* An executor step on a clock the queues and the synchronizer also see.
Clocked(Step) == Step /\ Synchronize /\ Loader /\ Serve

Next ==
  \/ ResetEdge \/ Deselected \/ Stopped \/ Start
  \/ Clocked(Delay)     \/ Clocked(PastEnd)   \/ Clocked(Reject)
  \/ Clocked(Drive)     \/ Clocked(Patch)     \/ Clocked(Wait)
  \/ Clocked(Jump)      \/ Clocked(Branch)    \/ Clocked(Sample)
  \/ Clocked(Load)      \/ Clocked(Out)       \/ Clocked(In)
  \/ Clocked(Djnz)      \/ Clocked(CheckTx)   \/ Clocked(Stream)
  \/ Clocked(PullReady) \/ Clocked(PushReady) \/ Clocked(Stall)
  \/ Clocked(ByteLoop)  \/ Clocked(LastByte)  \/ Clocked(Capture)
  \/ Clocked(Halt)      \/ Clocked(Halted)

Spec == Init /\ [][Next]_vars

\* The clock keeps running.  With TimeSpan > 1 the timestamp makes every clock
\* of a run a step that is seen, so nothing is assumed of the host or the pins.
FairSpec == Spec /\ WF_vars(Next)
=================================================================================
