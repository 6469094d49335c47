---------------------------------- MODULE UARTLine ----------------------------------
(***************************************************************************)
(* The engine on a UART line, lane 0.  Transmitting, it is heard by the    *)
(* sampler of test/receivers.py; receiving, it faces a sender that starts  *)
(* good frames, frames with a low stop bit and pulses too short or just    *)
(* long enough for a start bit, after any pause.                           *)
(***************************************************************************)
EXTENDS Bench, Receivers

LOCAL S == INSTANCE SequencesExt

CONSTANT Sends    \* the frames of the sender: [segments, carries: a byte or None]

VARIABLES
  listener,   \* the receiver on the line
  since,      \* clocks since the start edge of the frame, or None
  level,      \* the line
  talk,       \* what the sender still has to put on the line, <<level, clocks>>
  quiet,      \* clocks a receiver has been looking for a start bit; below 0 in a frame
  overdue,    \* history: clocks since it kept it longer than the receiver waits, to Lag
  uttered     \* history: what each frame begun carries

uartVars == <<listener, since, level, talk, quiet, overdue, uttered>>

LineInit ==
  /\ listener = MidSample(job.bit) /\ since = None
  /\ level = 1 /\ talk = << >> /\ quiet = 0 /\ overdue = 0 /\ uttered = << >>

Sending == job.kind = "tx"
Receiving == job.kind = "rx"

\* The line follows the engine, which leaves it high when it lets go.
Listen ==
  /\ level' = IF 0 \in out_enable' /\ 0 \notin out_value' THEN 0 ELSE 1
  /\ listener' = Hear(listener, level')
  /\ since' = IF since = None
              THEN (IF level' = 0 /\ level = 1 THEN 0 ELSE None)
              ELSE IF since = 10 * job.bit - 1
              THEN (IF level' = 0 /\ level = 1 THEN 0 ELSE None) ELSE since + 1
  /\ UNCHANGED <<talk, quiet, overdue, uttered>>

\* The clocks a level takes to the program: the synchronizer, and the WAIT's own.
Lag == 4

\* The longest pause that does not end the program.
Patience == job.timeout - 1

\* From the start edge of a frame to the pause after it: the program samples the
\* middle of the stop bit and stores the byte.
FrameClocks == 9 * job.bit + job.bit \div 2 + Lag

\* The sender goes on with its frame, idles, or begins another one; it waits for
\* the host when that holds the receiver (there is no flow control).
Talk ==
  /\ \/ /\ talk # << >>
        /\ level' = talk[1][1]
        /\ talk' = IF talk[1][2] > 1 THEN [talk EXCEPT ![1] = <<@[1], @[2] - 1>>] ELSE Tail(talk)
        /\ UNCHANGED uttered
     \/ /\ talk = << >>
        /\ level' = 1 /\ UNCHANGED <<talk, uttered>>
     \/ /\ talk = << >> /\ 0 \in input_sync.lanes /\ running /\ ~Stalled /\ Len(uttered) < job.count
        /\ \E frame \in Sends :
             /\ level' = 0
             /\ talk' = [frame.segments EXCEPT ![1] = <<0, @[2] - 1>>]
             /\ uttered' = Append(uttered, frame.carries)
  /\ quiet' = IF uttered' # uttered THEN 1 - FrameClocks
              ELSE IF ~running \/ quiet > Patience THEN quiet
              ELSE IF Stalled THEN 0 ELSE quiet + 1
  /\ overdue' = IF overdue = 0 /\ quiet' <= Patience THEN 0
                ELSE IF overdue < Lag THEN overdue + 1 ELSE Lag
  /\ UNCHANGED <<listener, since>>

UARTLanes == IF level = 1 THEN {0} ELSE {}

UARTClock == BenchClock(UARTLanes) /\ (IF Sending THEN Listen ELSE Talk)

(***************************************************************************)
(* What crosses the line is what was sent: a transmitted frame is heard as *)
(* the host's byte, and a received byte is the sender's, for as long as    *)
(* its frames are good, also back to back and around a full queue; a bad   *)
(* frame is a fault and delivers nothing.  A pause that outlasts the       *)
(* timeout is a fault exactly Lag clocks later, before the first byte,     *)
(* after a frame and after a stall alike, and nothing else is a fault      *)
(* (tools/streaming.py:57-91, docs/streaming.md:125-128).                  *)
(***************************************************************************)
BytesCross ==
  LET bad == \E i \in DOMAIN uttered : uttered[i] = None
  IN  /\ Sending /\ halted =>
           ~fault /\ listener.frames = [i \in DOMAIN job.sends |-> <<job.sends[i], 1>>]
      /\ Receiving => S!IsPrefix(Received, SelectSeq(uttered, LAMBDA b : b # None))
      /\ Receiving =>
           /\ overdue = Lag => fault
           /\ fault => bad \/ overdue = Lag
      /\ Receiving /\ halted =>
           /\ fault <=> Len(Received) < job.count
           /\ bad => fault

(***************************************************************************)
(* A transmitted frame is ten bits of exactly the same length: within it   *)
(* the line moves on multiples of the bit period only, also in the clocks  *)
(* the loop's own instructions take (docs/streaming.md:125).               *)
(***************************************************************************)
BitsLastExactly ==
  [][Sending /\ since # None /\ level' # level =>
       (since + 1) % job.bit = 0]_<<benchVars, uartVars>>
=====================================================================================
