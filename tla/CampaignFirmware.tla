----------------------------- MODULE CampaignFirmware -----------------------------
(***************************************************************************)
(* The programs that provoke a receiver and time its answer: the UART      *)
(* fault of tools/streaming.py and the waveforms of tools/fingerprint.py.  *)
(***************************************************************************)
EXTENDS Firmware, Fingerprint

\* The modelled target: clocks from the middle of the stop bit to its pulse.
FAULT_RESPONSE == [clean |-> 103, framing_error |-> 59]
FAULT_PULSE == 11
SYNC_CLOCKS == 3

\* The clock at which the watch begins is not counted.
LimitOneMore(bit, response, width) == bit \div 2 + response + width + SYNC_CLOCKS - 1

fault_demo_limit(bit, response, width) ==
  bit \div 2 + response + width + SYNC_CLOCKS - 2

\* The latency for the verdict the receiver will reach.
Response(bit, clocks) ==
  FAULT_RESPONSE[IF clocks <= bit \div 2 THEN "clean" ELSE "framing_error"]

\* The lengths fault_demo accepts, for a target that takes extra clocks more.
Accepted(bit, extra) ==
  {clocks \in 0 .. bit + 200 :
     clocks <= fault_demo_limit(bit, Response(bit, clocks) + extra, FAULT_PULSE)}

fault_demo(bit, byte, clocks) ==
  LET timeout == bit \div 2 + FAULT_RESPONSE.clean + FAULT_PULSE + SYNC_CLOCKS + 64
  IN  <<stream(1), capture({0, 4})>> \o SubSeq(uart_tx(byte, bit), 1, 10)
      \o (IF clocks > 0 THEN <<drive({}, {0}, clocks)>> ELSE << >>)
      \o <<drive({0}, {0}, 1), wait_pin(4, TRUE, timeout), wait_pin(4, FALSE, timeout),
           hold(4), capture({}), HALT>>

\* Capture is turned off before the widest pulse has ended.
RestWithoutPulse(length) == REPORT_AT + MARGIN - (length + 1)

\* What is left until the widest pulse is over.
Rest(length) == REPORT_AT + WIDTHS["NONE"] + MARGIN - (length + 1)

waveform_program(segments) ==
  LET merged == merge(segments)
  IN  <<stream(1), capture(REPORT_LANES)>>
      \o [i \in 1 .. Len(merged) |-> drive(On(0, merged[i][1]), {0}, merged[i][2])]
      \o <<drive({0}, {0}, 1), hold(Rest(Length(merged))), capture({}), HALT>>

\* The waveforms that end before the report and fit the store.
fits(segments) ==
  /\ Length(merge(segments)) + 1 <= REPORT_AT
  /\ Rest(Length(merge(segments))) \in 1 .. 8192
  /\ encode(waveform_program(segments))
===================================================================================
