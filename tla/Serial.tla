---------------------------------- MODULE Serial ----------------------------------
(***************************************************************************)
(* The benches of the serial programs side by side: a job of SPIBus or of  *)
(* UARTLine, with the program its generator makes for it.                  *)
(***************************************************************************)
EXTENDS SPIBus, UARTLine

F == INSTANCE Firmware

\* The calls the generators accept.
SPICall(j) ==
  /\ j.mode \in 0 .. 3 /\ j.lsb \in BOOLEAN /\ j.half \in 4 .. 8192 /\ j.streaming \in BOOLEAN
  /\ j.count \in 1 .. 255 /\ j.sends \in Seq(Byte) /\ Len(j.sends) = j.count
  /\ IF j.streaming
     THEN j.program = F!spi_stream(j.count, j.mode, j.lsb, j.half) /\ j.bytes = j.sends
     ELSE \E byte \in Byte : /\ j.program = F!spi_transfer(byte, j.mode, j.lsb, j.half)
                            /\ j.sends = <<byte>> /\ j.bytes = << >>
TxStreamCall(j) ==
  j.bit \in 4 .. 8192 /\ \E count \in Byte : j.program = F!uart_tx_stream(count, j.bit)
TxCall(j) ==
  j.bit \in 1 .. MaxHold + 1 /\ \E byte \in Byte : j.program = F!uart_tx(byte, j.bit)

ASSUME SerialAssumption ==
  \A j \in Jobs : /\ j.kind \in {"spi", "tx", "rx"}
                  /\ j.kind = "spi" => SPICall(j)
                  /\ j.kind = "tx" => TxStreamCall(j) \/ TxCall(j)

serialVars == <<benchVars, spiVars, uartVars>>

SerialInit ==
  /\ BenchInit /\ DeviceInit
  /\ IF SPIJob THEN /\ listener = None /\ since = None /\ level = 1
                    /\ talk = << >> /\ quiet = 0 /\ overdue = 0 /\ uttered = << >>
     ELSE LineInit

SerialClock ==
  \/ SPIJob /\ SPIClock /\ UNCHANGED uartVars
  \/ ~SPIJob /\ UARTClock /\ UNCHANGED spiVars

SerialSpec == SerialInit /\ [][SerialClock]_serialVars

(***************************************************************************)
(* Where a program waits for the host, its line is at rest: SCK idle and   *)
(* the device selected, or the UART line high (docs/streaming.md:65-66).   *)
(***************************************************************************)
StallsAtRest ==
  Stalled =>
    /\ SPIJob => device.selected /\ device.sck = cpol
    /\ ~SPIJob => level = 1 \/ Receiving
====================================================================================
