--------------------------------- MODULE HostPort ---------------------------------
(***************************************************************************)
(* The host side of engine.v that is alive while RUN is low: the two-stage *)
(* input synchronizer with its edge detectors, and the loader that packs   *)
(* four strobed bytes into a program word.  Which word four bytes spell is *)
(* data: the fourth byte completes some word of Words.                     *)
(***************************************************************************)
EXTENDS EngineState

Synchronize ==
  /\ input_meta' \in Inputs
  /\ input_sync' = input_meta
  /\ load_prev' = load
  /\ run_prev' = run

BytesPerWord == 4

Rewind ==
  /\ rewind_program
  /\ length' = 0 /\ byte_index' = 0 /\ loader_error' = FALSE
  /\ UNCHANGED program_mem

LoadStrobe == ~rewind_program /\ load /\ ~load_prev

Overrun ==
  /\ LoadStrobe /\ length = MemWords
  /\ loader_error' = TRUE
  /\ UNCHANGED <<program_mem, byte_index, length>>

TakeByte ==
  /\ LoadStrobe /\ length # MemWords /\ byte_index < BytesPerWord - 1
  /\ byte_index' = byte_index + 1
  /\ UNCHANGED <<program_mem, length, loader_error>>

\* The word is stored one place too far.
SlotAfterNext == (length + 1) % MemWords

NextSlot == length % MemWords

CompleteWord ==
  /\ LoadStrobe /\ length # MemWords /\ byte_index = BytesPerWord - 1
  /\ \E w \in Words : program_mem' = [program_mem EXCEPT ![NextSlot] = w]
  /\ length' = length + 1
  /\ byte_index' = 0
  /\ UNCHANGED loader_error

NoStrobe == ~rewind_program /\ ~LoadStrobe /\ UNCHANGED loaderVars

\* A loader that also listens while RUN is high.
LoaderWhileRunning ==
  Rewind \/ Overrun \/ TakeByte \/ CompleteWord \/ NoStrobe

\* The loader listens only while RUN is low, including the clock RUN drops on.
Loader ==
  \/ ~run /\ (Rewind \/ Overrun \/ TakeByte \/ CompleteWord \/ NoStrobe)
  \/ run /\ UNCHANGED loaderVars
=================================================================================
