---------------------------------- MODULE Firmware ----------------------------------
(***************************************************************************)
(* The programs tools/program.py and tools/streaming.py generate, word for *)
(* word, as sequences of decoded instructions.  A pin mask is the set of   *)
(* its lanes, a duration is given in clocks as in the source, and an       *)
(* address is the number of words before it.                               *)
(***************************************************************************)
EXTENDS Integers, Sequences

drive(value, enable, cycles) ==
  [op |-> "DRIVE", hold |-> cycles - 1, oe |-> enable, value |-> value]
patch(mask, value, enable, cycles) ==
  [op |-> "PATCH", hold |-> cycles - 1, mask |-> mask, oe |-> enable, value |-> value]
hold(cycles) == patch({}, {}, {}, cycles)
wait_pin(pin, level, timeout) ==
  [op |-> "WAIT", lane |-> pin, level |-> level, limit |-> timeout]
branch_pin(pin, level, address) ==
  [op |-> "BRANCH", lane |-> pin, level |-> level, target |-> address]
shift_out(pin, lsb, drain) == [op |-> "OUT", lane |-> pin, lsb |-> lsb, drain |-> drain]
shift_in(pin, lsb) == [op |-> "IN", lane |-> pin, lsb |-> lsb]
load_byte(value) == [op |-> "LOAD", byte |-> value, count |-> 8]
check_tx(pin) == [op |-> "CHECK_TX", lane |-> pin]
jump(address) == [op |-> "JUMP", target |-> address]
djnz(address) == [op |-> "DJNZ", target |-> address]
byte_loop(address) == [op |-> "BYTE_LOOP", target |-> address]
last_byte(address) == [op |-> "LAST_BYTE", target |-> address]
stream(count) == [op |-> "STREAM", count |-> count]
capture(mask) == [op |-> "CAPTURE", mask |-> mask]
Word(op) == [op |-> op]
PULL == Word("PULL")
PUSH == Word("PUSH")
SAMPLE == Word("SAMPLE")
HALT == Word("HALT")
TRAP == Word("TRAP")

\* The instruction store limit that encode enforces.
encode(words) == Len(words) \in 1 .. 64

On(lane, level) == IF level = 1 THEN {lane} ELSE {}

(***************************************************************************)
(* SPI: SCK 0, MOSI 1, MISO 2, CSn 3.                                      *)
(***************************************************************************)
\* MISO is looked at after the edge on which the device moves it.
spi_bits_late_sample(mode, lsb, h) ==
  LET cpol == mode \div 2
      edge(level) == patch({0}, On(0, level), {0}, h)
  IN  IF mode % 2 = 0
      THEN <<shift_out(1, lsb, FALSE), hold(h), edge(1 - cpol), edge(cpol), shift_in(2, lsb)>>
      ELSE <<patch({0}, On(0, 1 - cpol), {0}, 1), shift_out(1, lsb, FALSE), hold(h),
             edge(cpol), shift_in(2, lsb)>>

\* The clock edge that samples comes before MOSI had its half period.
spi_bits_no_setup(mode, lsb, h) ==
  LET cpol == mode \div 2
      edge(level) == patch({0}, On(0, level), {0}, h)
  IN  IF mode % 2 = 0
      THEN <<shift_out(1, lsb, FALSE), edge(1 - cpol), shift_in(2, lsb), edge(cpol)>>
      ELSE <<patch({0}, On(0, 1 - cpol), {0}, 1), shift_out(1, lsb, FALSE), edge(cpol),
             shift_in(2, lsb)>>

\* One bit: the data set up before the sampling edge, in either phase.
spi_bits(mode, lsb, h) ==
  LET cpol == mode \div 2
      edge(level) == patch({0}, On(0, level), {0}, h)
  IN  IF mode % 2 = 0
      THEN <<shift_out(1, lsb, FALSE), hold(h), edge(1 - cpol), shift_in(2, lsb), edge(cpol)>>
      ELSE <<patch({0}, On(0, 1 - cpol), {0}, 1), shift_out(1, lsb, FALSE), hold(h),
             edge(cpol), shift_in(2, lsb)>>

Select(mode, h) == <<drive({3} \cup On(0, mode \div 2), {0, 1, 3}, h)>>
Deselect(h) == <<patch({3}, {3}, {3}, h), HALT>>

spi_transfer(byte, mode, lsb, h) ==
  Select(mode, h) \o <<load_byte(byte), patch({3}, {}, {3}, h)>>
  \o spi_bits(mode, lsb, h) \o <<djnz(3)>> \o Deselect(h)

\* The first byte is waited for before the device is selected.
spi_stream_selects_late(count, mode, lsb, h) ==
  <<stream(count)>> \o Select(mode, h) \o <<PULL, patch({3}, {}, {3}, h)>>
  \o spi_bits(mode, lsb, h) \o <<djnz(5), PUSH, byte_loop(3)>> \o Deselect(h)

spi_stream(count, mode, lsb, h) ==
  <<stream(count)>> \o Select(mode, h) \o <<patch({3}, {}, {3}, h), PULL>>
  \o spi_bits(mode, lsb, h) \o <<djnz(4), PUSH, byte_loop(3)>> \o Deselect(h)

(***************************************************************************)
(* UART on lane 0, eight data bits and one stop bit.                       *)
(***************************************************************************)
BitOf(byte, i) == (byte \div 2 ^ i) % 2

uart_tx(byte, bit) ==
  LET levels == <<1, 0>> \o [i \in 1 .. 8 |-> BitOf(byte, i - 1)] \o <<1>>
  IN  [i \in 1 .. Len(levels) |-> drive(On(0, levels[i]), {0}, bit)] \o <<HALT>>

\* The instructions of the loop are not taken off its hold.
uart_tx_stream_uneven(count, bit) ==
  <<stream(count), drive({0}, {0}, bit),
    PULL, drive({}, {0}, bit),
    shift_out(0, TRUE, FALSE), hold(bit - 1), djnz(4),
    drive({0}, {0}, bit), byte_loop(2), HALT>>

uart_tx_stream(count, bit) ==
  <<stream(count), drive({0}, {0}, bit),
    PULL, drive({}, {0}, bit),
    shift_out(0, TRUE, FALSE), hold(bit - 2), djnz(4),
    drive({0}, {0}, bit), byte_loop(2), HALT>>

\* The start bit is not looked at again half a bit later.
uart_rx_unchecked(count, bit, timeout) ==
  <<stream(count), drive({}, {}, 1),
    wait_pin(0, TRUE, timeout), wait_pin(0, FALSE, timeout), hold(bit \div 2 - 1),
    hold(1), load_byte(0), hold(bit - 2),
    shift_in(0, TRUE), hold(bit - 2), djnz(8),
    branch_pin(0, FALSE, 15), PUSH, byte_loop(2), HALT,
    TRAP>>

uart_rx(count, bit, timeout) ==
  <<stream(count), drive({}, {}, 1),
    wait_pin(0, TRUE, timeout), wait_pin(0, FALSE, timeout), hold(bit \div 2 - 1),
    branch_pin(0, TRUE, 15), load_byte(0), hold(bit - 2),
    shift_in(0, TRUE), hold(bit - 2), djnz(8),
    branch_pin(0, FALSE, 15), PUSH, byte_loop(2), HALT,
    TRAP>>
=====================================================================================
