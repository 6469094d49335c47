---------------------------------- MODULE MCSerial ----------------------------------
(***************************************************************************)
(* SPI in four modes and both bit orders and UART in both directions, each *)
(* at the shortest periods the generators accept.                          *)
(***************************************************************************)
EXTENDS Serial, MCEngine

Half == 4

SPIStream(mode, lsb) ==
  [kind |-> "spi", program |-> F!spi_stream(3, mode, lsb, Half), bytes |-> <<165, 1, 254>>,
   sends |-> <<165, 1, 254>>, mode |-> mode, lsb |-> lsb, half |-> Half, count |-> 3,
   streaming |-> TRUE]
SPITransfer(mode, lsb) ==
  [kind |-> "spi", program |-> F!spi_transfer(178, mode, lsb, Half), bytes |-> << >>,
   sends |-> <<178>>, mode |-> mode, lsb |-> lsb, half |-> Half, count |-> 1,
   streaming |-> FALSE]
TxStream(bit) ==
  [kind |-> "tx", program |-> F!uart_tx_stream(3, bit), bytes |-> <<165, 0, 255>>,
   sends |-> <<165, 0, 255>>, bit |-> bit]
Tx(bit) ==
  [kind |-> "tx", program |-> F!uart_tx(90, bit), bytes |-> << >>, sends |-> <<90>>,
   bit |-> bit]

Period == 12
Timeout == 9
Rx == [kind |-> "rx", program |-> F!uart_rx(4, Period, Timeout), bytes |-> << >>, count |-> 4,
       bit |-> Period, timeout |-> Timeout]

SerialJobs ==
  {j \in UNION {{SPIStream(mode, lsb), SPITransfer(mode, lsb)} : mode \in 0 .. 3, lsb \in BOOLEAN}
            \cup {TxStream(4), TxStream(5), Tx(3), Rx} : F!encode(j.program)}

Frame(byte, stop) ==
  <<<<0, Period>>>> \o [i \in 1 .. 8 |-> <<F!BitOf(byte, i - 1), Period>>] \o <<<<stop, Period>>>>
SerialSends ==
  {[segments |-> Frame(165, 1), carries |-> 165], [segments |-> Frame(0, 1), carries |-> 0],
   [segments |-> Frame(90, 0), carries |-> None],
   [segments |-> <<<<0, Period \div 2>>>>, carries |-> None],
   [segments |-> <<<<0, Period \div 2 + 1>>, <<1, 10 * Period - (Period \div 2 + 1)>>>>, carries |-> 255]}

SerialWords == UNION {{j.program[i] : i \in DOMAIN j.program} : j \in SerialJobs}
SerialBytes == {0, PopReceived, 1, 165, 254, 255}
====================================================================================
