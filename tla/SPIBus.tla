----------------------------------- MODULE SPIBus -----------------------------------
(***************************************************************************)
(* The engine with an SPI device on its lanes: SCK 0, MOSI 1, MISO 2 and   *)
(* CSn 3.  The device takes a bit at every sampling edge of the job's mode *)
(* and puts out the next bit of a byte of Answers at every other edge.     *)
(***************************************************************************)
EXTENDS Bench

CONSTANT Answers

ASSUME AnswersAssumption == Answers \subseteq Byte

VARIABLES
  device,    \* the device's registers and what it has seen
  served     \* history: the bytes it has answered with

spiVars == <<device, served>>

SCK == 0
MOSI == 1
MISO == 2
CS == 3

SPIJob == job.kind = "spi"
cpol == job.mode >= 2
cpha == job.mode % 2 = 1

\* steady: clocks since MOSI last moved, up to half a period.
DeviceInit ==
  /\ device = [selected |-> FALSE, sck |-> SPIJob /\ cpol, mosi |-> FALSE, miso |-> FALSE,
               steady |-> 0, bits |-> << >>, heard |-> << >>, offer |-> 0,
               edges |-> 0, selections |-> 0]
  /\ served = << >>

\* The bit that is on the wire n-th, in the job's order.
WireBit(byte, n) == (byte \div 2 ^ (IF job.lsb THEN n ELSE 7 - n)) % 2 = 1
WireByte(bits) ==
  LET bit(n) == IF bits[IF job.lsb THEN n + 1 ELSE 8 - n] THEN 1 ELSE 0
  IN  bit(0) + 2 * bit(1) + 4 * bit(2) + 8 * bit(3)
      + 16 * bit(4) + 32 * bit(5) + 64 * bit(6) + 128 * bit(7)

Sampling(sck) == (sck # cpol) # cpha

\* The device puts out its next bit; a byte is chosen when its first bit is due.
Offers(now) ==
  IF now.bits = << >> /\ Len(now.heard) < job.count
  THEN \E byte \in Answers :
         /\ device' = [now EXCEPT !.offer = byte, !.miso = WireBit(byte, 0)]
         /\ served' = Append(served, byte)
  ELSE /\ device' = IF now.bits = << >> THEN now
                    ELSE [now EXCEPT !.miso = WireBit(now.offer, Len(now.bits))]
       /\ UNCHANGED served

Takes(now) ==
  LET bits == Append(now.bits, now.mosi)
  IN  /\ device' = IF Len(bits) < 8 THEN [now EXCEPT !.bits = bits]
                   ELSE [now EXCEPT !.bits = << >>, !.heard = Append(@, WireByte(bits))]
      /\ UNCHANGED served

\* The lanes as the device sees them after this clock.
DeviceStep ==
  LET high(lane) == lane \in out_value'
      driven(lane) == lane \in out_enable'
      selected == driven(CS) /\ ~high(CS)
      sck == IF driven(SCK) THEN high(SCK) ELSE cpol
      edge == selected /\ sck # device.sck
      now == [device EXCEPT !.selected = selected, !.sck = sck, !.mosi = high(MOSI),
                !.steady = IF high(MOSI) # device.mosi THEN 0
                           ELSE IF @ < job.half THEN @ + 1 ELSE @,
                !.edges = IF edge THEN @ + 1 ELSE @,
                !.selections = IF selected /\ ~device.selected THEN @ + 1 ELSE @]
  IN  IF selected /\ ~device.selected /\ ~cpha THEN Offers(now)
      ELSE IF edge /\ Sampling(sck) THEN Takes(now)
      ELSE IF edge THEN Offers(now)
      ELSE device' = now /\ UNCHANGED served

SPILanes == IF device.miso THEN {MISO} ELSE {}

SPIClock == BenchClock(SPILanes) /\ DeviceStep

(***************************************************************************)
(* A transfer that halts has exchanged every byte: the device heard what   *)
(* the host sent, the host got what the device answered, on sixteen edges  *)
(* per byte under one selection (tools/streaming.py:38-54,                 *)
(* tools/program.py:73-94, test/test_streaming.py:284-305).                *)
(***************************************************************************)
TransferExact ==
  SPIJob /\ halted =>
    /\ ~fault
    /\ device.heard = job.sends
    /\ IF job.streaming THEN Received = served ELSE <<rx_shift>> = served
    /\ device.edges = 16 * job.count /\ device.selections = 1

(***************************************************************************)
(* Every bit has been on MOSI for half a period when the device samples    *)
(* it, also across a stall, MOSI moves only between sampling edges, and    *)
(* the device is selected and deselected at the idle level of the clock    *)
(* (tools/streaming.py:44-53, docs/streaming.md:123-124).                  *)
(***************************************************************************)
EdgesAreClean ==
  [][SPIJob =>
       /\ device'.edges # device.edges /\ Sampling(device'.sck) =>
            device.steady = job.half /\ device'.mosi = device.mosi
       /\ device'.selected # device.selected => device'.sck = cpol]_<<benchVars, spiVars>>
=====================================================================================
