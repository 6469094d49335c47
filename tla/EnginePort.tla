-------------------------------- MODULE EnginePort --------------------------------
(***************************************************************************)
(* The engine seen from its pins: the clock with given levels on them, and *)
(* what the host reads on uo_out, the status byte or the read page of a    *)
(* streaming program, as the numbers the host's masks are applied to.      *)
(***************************************************************************)
EXTENDS Engine

\* A clock with these pins and this byte on host_data.
EngineClock(pins, byte) ==
  /\ input_meta' = pins
  /\ run /\ run_prev => ServeByte(byte)
  /\ Next

\* RUN is high and one host keeps the interface.
Pins(high, rewind, lanes) == [load |-> high, run |-> TRUE, rewind |-> rewind, lanes |-> lanes]

Bit(b) == IF b THEN 1 ELSE 0

\* The number whose binary digits these are: lanes, or the six sticky errors.
Number(bits) ==
  Bit(0 \in bits) + 2 * Bit(1 \in bits) + 4 * Bit(2 \in bits) + 8 * Bit(3 \in bits)
  + 16 * Bit(4 \in bits) + 32 * Bit(5 \in bits)

\* Bit n of a byte.
Has(byte, n) == (byte \div 2 ^ n) % 2 = 1

ErrorNumber ==
  Number({n \in 0 .. 5 :
    <<"tx_full", "rx_empty", "capture_empty", "capture_full", "bad_command",
      "time_wrapped">>[n + 1] \in host_errors})

flags == 128 * Bit(fault) + 64 * Bit(running) + 32 * Bit(halted)
         + 16 * Bit(stream_enabled) + 8 * Bit(host_errors # {})
         + 4 * Bit(~Full(tx)) + 2 * Bit(~Empty(rx)) + Bit(~Empty(capture))

page_data ==
  CASE read_page = 0  -> rx_shift
    [] read_page = 1  -> flags
    [] read_page = 2  -> tx.used
    [] read_page = 3  -> rx.used
    [] read_page = 4  -> IF Empty(rx) THEN 0 ELSE Front(rx)
    [] read_page = 5  -> capture.used
    [] read_page = 6  -> Number(capture_head.lanes)
    [] read_page = 7  -> capture_head.time % 256
    [] read_page = 8  -> (capture_head.time \div 256) % 256
    [] read_page = 9  -> capture_head.time \div 65536
    [] read_page = 10 -> ErrorNumber

\* Legacy programs keep the status byte until they halt, and then page 0.
status ==
  IF run /\ rewind_program /\ (halted \/ stream_enabled)
  THEN page_data
  ELSE 128 * Bit(fault) + 64 * Bit(running) + 32 * Bit(halted) + Number(sampled)
=================================================================================
