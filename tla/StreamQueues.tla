------------------------------ MODULE StreamQueues ------------------------------
(***************************************************************************)
(* The always block of engine.v that owns the queues, the read page, the   *)
(* sticky host errors and the timestamp.  It runs beside the instruction   *)
(* block on the same clock, and both read the values before the edge.      *)
(***************************************************************************)
EXTENDS EngineState

host_strobe == stream_enabled /\ load /\ ~load_prev
command     == host_strobe /\ rewind_program

\* host_data matters only on a strobe; without one any byte stands for it.
Offered == IF host_strobe THEN HostBytes ELSE {0}

tx_push == host_strobe /\ ~rewind_program /\ ~Full(tx)
tx_pop  == issue /\ stream_enabled /\ instruction.op = "PULL" /\ ~Empty(tx)

\* The program stalls on a full queue, but the write pointer does not.
RxPushWhenFull == issue /\ stream_enabled /\ instruction.op = "PUSH"

rx_push   == issue /\ stream_enabled /\ instruction.op = "PUSH" /\ ~Full(rx)
rx_pop(h) == command /\ h = PopReceived /\ ~Empty(rx)

\* A selected lane differs from what it was a clock ago.
Differing(levels) == (levels \ capture_prev) \cup (capture_prev \ levels)
capture_event  == running /\ Differing(input_sync.lanes) \cap capture_mask # {}
\* The newest edge replaces the oldest.
CapturePushOverwrites == capture_event

capture_push   == capture_event /\ ~Full(capture)
capture_pop(h) == command /\ h = PopCaptured /\ ~Empty(capture)

Event == [time |-> timestamp, lanes |-> input_sync.lanes]

KnownCommands == (0 .. LastPage) \cup {PopReceived, PopCaptured, ClearErrors}

\* The refusals and losses of this clock, each with its sticky bit.
Raised(h) ==
  {e \in ErrorBits :
     \/ e = "tx_full" /\ host_strobe /\ ~rewind_program /\ Full(tx)
     \/ e = "rx_empty" /\ command /\ h = PopReceived /\ Empty(rx)
     \/ e = "capture_empty" /\ command /\ h = PopCaptured /\ Empty(capture)
     \/ e = "capture_full" /\ capture_event /\ Full(capture)
     \/ e = "bad_command" /\ command /\ h \notin KnownCommands
     \/ e = "time_wrapped" /\ running /\ timestamp = TimeSpan - 1}

\* The clear command wins over an error of the same clock.
ErrorsClearLast(h) ==
  IF command /\ h = ClearErrors THEN {} ELSE host_errors \cup Raised(h)

\* A clear command removes the old errors and keeps those of its own clock.
ErrorsAfter(h) ==
  Raised(h) \cup (IF command /\ h = ClearErrors THEN {} ELSE host_errors)

\* What the queues, the page and the errors become with h on host_data.
ServeByte(h) ==
  /\ tx' = Edge(tx, tx_push, tx_pop, h)
  /\ rx' = Edge(rx, rx_push, rx_pop(h), rx_shift)
  /\ capture' = Edge(capture, capture_push, capture_pop(h), Event)
  /\ read_page' = IF command /\ h <= LastPage THEN h ELSE read_page
  /\ host_errors' = ErrorsAfter(h)

\* Only the selected lanes are remembered for the comparison.
ServeForgetsUnselected ==
  /\ \E h \in Offered : ServeByte(h)
  /\ timestamp' = (timestamp + 1) % TimeSpan
  /\ capture_prev' = input_sync.lanes \cap capture_mask

\* A clock with ena, RUN and the previous RUN high.
Serve ==
  /\ \E h \in Offered : ServeByte(h)
  /\ timestamp' = (timestamp + 1) % TimeSpan
  /\ capture_prev' = input_sync.lanes

\* Every other clock: reset, deselected, RUN low or RUN just rising.
ClearQueues ==
  /\ tx' = Cleared(tx) /\ rx' = Cleared(rx) /\ capture' = Cleared(capture)
  /\ read_page' = 0
  /\ host_errors' = {}
  /\ timestamp' = 0
  /\ capture_prev' = input_sync.lanes

\* The four bytes of the oldest captured edge, pages 6 to 9; zero if none.
capture_head == IF Empty(capture) THEN [time |-> 0, lanes |-> {}] ELSE Front(capture)
=================================================================================
