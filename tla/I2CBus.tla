---------------------------------- MODULE I2CBus ----------------------------------
(***************************************************************************)
(* The engine on an I2C bus.  The target is the peer of the tests with its *)
(* scripted choices left open: it answers every byte with ACK or NACK,     *)
(* stretches the clock after any release, offers any byte of ReadBytes,    *)
(* and may come with a rival that holds SDA low after START.               *)
(***************************************************************************)
EXTENDS Bench

F == INSTANCE I2CFirmware

CONSTANTS
  Stretches,   \* clocks the target may hold SCL low after a release
  ReadBytes,   \* what the target may have to say
  Rivals       \* whether a rival may join

\* The calls the generators accept, with the bytes they put on the bus.  The host
\* of a transaction pushes an address for writing first.
WriteCall(j) ==
  \E address \in 0 .. 127, byte \in Byte :
    /\ j.carries = <<2 * address, byte>> /\ j.repeated = 0 /\ j.reads = 0
    /\ j.program = F!i2c_write(address, byte, j.half, j.limit)
WriteStreamCall(j) ==
  \E address \in 0 .. 127 :
    /\ j.carries = <<2 * address>> \o j.bytes /\ j.repeated = 0 /\ j.reads = 0
    /\ Len(j.bytes) \in 1 .. 255
    /\ j.program = F!i2c_write_stream(address, Len(j.bytes), j.half, j.limit)
ReadCall(j) ==
  \E address \in 0 .. 127 :
    /\ j.carries = <<2 * address + 1>> /\ j.repeated = 0 /\ j.reads \in 1 .. 255
    /\ j.program = F!i2c_read(address, j.reads, j.half, j.limit)
TransactionCall(j) ==
  /\ j.carries = j.bytes /\ j.repeated = 1 /\ j.reads \in 1 .. 255
  /\ Len(j.bytes) \in 2 .. 255 /\ Head(j.bytes) % 2 = 0
  /\ j.program = F!i2c_transaction(Len(j.bytes), j.reads, j.half, j.limit)

ASSUME I2CAssumption ==
  /\ \A j \in Jobs :
       /\ j.half \in 4 .. 8192 /\ j.limit \in 1 .. MaxHold /\ j.bytes \in Seq(Byte)
       /\ WriteCall(j) \/ WriteStreamCall(j) \/ ReadCall(j) \/ TransactionCall(j)
  /\ Stretches \subseteq Nat /\ ReadBytes \subseteq Byte /\ Rivals \subseteq BOOLEAN

VARIABLES
  target,      \* the target's registers
  told         \* history: what the target saw and did

i2cVars == <<benchVars, target, told>>

SCL == 0
SDA == 1

TargetInit ==
  /\ target = [oe |-> {}, scl |-> TRUE, sda |-> TRUE, low |-> FALSE, left |-> 0,
               started |-> FALSE, rival |-> FALSE, phase |-> 0, bits |-> 0,
               direction |-> "address", offer |-> 0, late |-> FALSE]
  /\ told = [starts |-> 0, repeated |-> 0, stops |-> 0, heard |-> << >>,
             served |-> << >>, acks |-> << >>, nacked |-> FALSE]

\* SDA after the target has let go of it or pulled it low.
Drives(now, low) ==
  [now EXCEPT !.low = low, !.sda = SDA \notin now.oe /\ ~low /\ ~now.rival]
Serves(now, byte) ==
  Drives([now EXCEPT !.offer = byte], (byte \div 2 ^ (7 - now.phase)) % 2 = 0)

SeesStart(now) ==
  /\ target.sda /\ ~now.sda /\ target.scl /\ now.scl
  /\ \E rival \in Rivals :
       target' = [now EXCEPT !.started = TRUE, !.rival = rival, !.low = FALSE,
                             !.phase = 0, !.bits = 0, !.direction = "address"]
  /\ told' = IF target.started THEN [told EXCEPT !.repeated = @ + 1]
             ELSE [told EXCEPT !.starts = @ + 1]

SeesStop(now) ==
  /\ ~target.sda /\ now.sda /\ target.scl /\ now.scl
  /\ target' = [now EXCEPT !.started = FALSE, !.low = FALSE]
  /\ told' = [told EXCEPT !.stops = @ + 1]

\* A rising clock takes a bit or, after eight, an acknowledge.
SeesRise(now) ==
  /\ target.started /\ ~target.scl /\ now.scl
  /\ IF target.phase < 8
     THEN /\ target' = [now EXCEPT !.phase = @ + 1,
                          !.bits = IF now.direction = "read" THEN @ ELSE (2 * @ + Bit(now.sda)) % 256]
          /\ UNCHANGED told
     ELSE IF target.direction = "read"
     THEN /\ target' = [now EXCEPT !.phase = 9, !.direction = IF now.sda THEN "none" ELSE @]
          /\ told' = [told EXCEPT !.acks = Append(@, ~now.sda)]
     ELSE target' = [now EXCEPT !.phase = 9] /\ UNCHANGED told

\* The answer to a byte of the controller; to an address it decides the rest.
Answers(now) ==
  \E ack \in BOOLEAN :
    /\ target' = Drives([now EXCEPT !.bits = 0,
                           !.direction = IF @ = "write" THEN @ ELSE IF ~ack THEN "none"
                                         ELSE IF target.bits % 2 = 1 THEN "addressed" ELSE "write"],
                        ack)
    /\ told' = [told EXCEPT !.heard = Append(@, target.bits), !.nacked = @ \/ ~ack]

\* A falling clock moves SDA.
SeesFall(now) ==
  /\ target.started /\ target.scl /\ ~now.scl
  /\ \/ target.phase = 8 /\ now.direction \in {"address", "write"} /\ Answers(now)
     \/ /\ target.phase = 8 /\ now.direction \notin {"address", "write"}
        /\ target' = Drives(now, FALSE)
        /\ told' = IF now.direction = "read" THEN [told EXCEPT !.served = Append(@, now.offer)]
                   ELSE told
     \/ /\ target.phase = 9
        /\ IF now.direction \in {"addressed", "read"}
           THEN \E byte \in ReadBytes :
                  target' = Serves([now EXCEPT !.phase = 0, !.direction = "read"], byte)
           ELSE target' = Drives([now EXCEPT !.phase = 0], FALSE)
        /\ UNCHANGED told
     \/ /\ target.phase < 8
        /\ target' = IF now.direction = "read" THEN Serves(now, now.offer) ELSE Drives(now, FALSE)
        /\ UNCHANGED told

\* The longest stretch that no wait gives up on: the limit itself, because the
\* four clocks for which the clock is let go before the wait looks are those its
\* level takes to come back through pins and synchronizer.
Tolerated == job.limit

\* The target looks at the lanes the engine drives low after this clock.
Observes(oe) ==
  LET released == SCL \in target.oe /\ SCL \notin oe
  IN  \E left \in IF released /\ running' THEN Stretches ELSE {target.left} :
        LET scl == SCL \notin oe /\ left = 0
            sda == SDA \notin oe /\ ~target.low /\ ~(target.rival /\ target.started)
            now == [target EXCEPT !.oe = oe, !.scl = scl, !.sda = sda,
                                  !.left = IF left = 0 THEN 0 ELSE left - 1,
                                  !.late = @ \/ left > Tolerated]
        IN  \/ SeesStart(now) \/ SeesStop(now) \/ SeesRise(now) \/ SeesFall(now)
            \/ /\ sda = target.sda \/ ~(scl /\ target.scl)
               /\ scl = target.scl \/ ~target.started
               /\ target' = now /\ told' = told

\* The bus as the engine's pins see it on the next clock.
BusLanes == (IF target.scl THEN {SCL} ELSE {}) \cup (IF target.sda THEN {SDA} ELSE {})

BusClock ==
  /\ BenchClock(BusLanes)
  /\ Observes(out_enable' \cap {SCL, SDA})

Delivering == BusClock /\ Prompt

BusInit == TargetInit /\ BenchInit

BusSpec == BusInit /\ [][BusClock]_i2cVars

(***************************************************************************)
(* A transaction that halts without a fault was carried out: one START and *)
(* one STOP, with the repeated START in between if there is one, every     *)
(* byte heard as the host gave it and acknowledged, every byte read pushed *)
(* as it was served and acknowledged except the last                       *)
(* (tools/streaming.py:130-200, tools/program.py:97-129).                  *)
(***************************************************************************)
TransactionsComplete ==
  halted /\ ~fault =>
    /\ told.starts = 1 /\ told.stops = 1 /\ told.repeated = job.repeated
    /\ told.heard = job.carries /\ ~told.nacked
    /\ Received = told.served
    /\ told.acks = [i \in 1 .. job.reads |-> i < job.reads]

(***************************************************************************)
(* A byte that is not acknowledged ends the transaction with exactly one   *)
(* STOP and then a trap, in the middle of a transaction as well as at its  *)
(* end, and nothing is sent after it (tools/streaming.py:120-127).         *)
(***************************************************************************)
NackGetsStop ==
  halted /\ told.nacked /\ ~target.late =>
    /\ fault /\ told.stops = 1
    /\ told.heard = SubSeq(job.carries, 1, Len(told.heard))

(***************************************************************************)
(* The clock may be stretched at any of its releases for as long as the    *)
(* limit allows and no longer: one clock more is a fault wherever it       *)
(* happens, and nothing but that, a NACK or a rival is one                 *)
(* (tools/streaming.py:99-117, 146-199).                                   *)
(***************************************************************************)
StretchLimitExact ==
  halted =>
    /\ target.late => fault
    /\ fault => target.late \/ told.nacked \/ target.rival

(***************************************************************************)
(* As long as the program runs, SDA moves while SCL is high only to frame  *)
(* a transaction: START and STOP come before the second bit of a byte,     *)
(* also around a NACK, and neither line is ever driven high.  A fault is   *)
(* the exception, as it releases both lines at once: if the stretch it     *)
(* gave up on has just ended, the target takes that for a STOP             *)
(* (tools/streaming.py:99-127, test/test_protocols.py:102).                *)
(***************************************************************************)
FramedCleanly ==
  [][/\ out_enable' \cap out_value' = {}
     /\ <<told.starts, told.repeated, told.stops>>' # <<told.starts, told.repeated, told.stops>>
          /\ running' => target.phase \in {0, 1}]_i2cVars

(***************************************************************************)
(* Wherever a program waits for the host, it holds the clock low, so that  *)
(* no bit is under way (docs/streaming.md:66).                             *)
(***************************************************************************)
StallsWithClockLow == Stalled => SCL \in out_enable \ out_value

(***************************************************************************)
(* Every transaction ends, and then leaves both lines alone, whatever the  *)
(* target and a rival do and however long the host takes over its bytes    *)
(* (tools/streaming.py:99-200: every wait has a limit).                    *)
(***************************************************************************)
BusIsReleased == <>[](halted /\ out_enable = {})
=================================================================================
