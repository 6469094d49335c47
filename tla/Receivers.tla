--------------------------------- MODULE Receivers ---------------------------------
(***************************************************************************)
(* The UART receivers of test/receivers.py.  A receiver is a record; Hear  *)
(* is what it does with the level of the line on one clock.  Levels and    *)
(* bits are 0 and 1, due is the clocks to the pending sample.              *)
(***************************************************************************)
EXTENDS Integers, Sequences

None == -1

\* Ten bits on the line: start, eight data bits from the lowest, stop.
ByteOf(bits) ==
  bits[2] + 2 * bits[3] + 4 * bits[4] + 8 * bits[5]
  + 16 * bits[6] + 32 * bits[7] + 64 * bits[8] + 128 * bits[9]

(***************************************************************************)
(* One sample per bit, offset clocks after the start edge and then every   *)
(* bit.  A receiver that validates goes back to idle on a high start       *)
(* sample, one that resyncs moves the pending sample on every transition.  *)
(***************************************************************************)
SingleSample(T, offset, validates, resyncs, lenient) ==
  [kind |-> "single", clocks |-> T, offset |-> offset, validates |-> validates,
   resyncs |-> resyncs, lenient |-> lenient,
   prev |-> 1, due |-> None, bits |-> << >>, frames |-> << >>]

MidSample(T)      == SingleSample(T, T \div 2, FALSE, FALSE, FALSE)
MidSamplePlus1(T) == SingleSample(T, T \div 2 + 1, FALSE, FALSE, FALSE)
EdgeResync(T)     == SingleSample(T, T \div 2, TRUE, TRUE, FALSE)
LenientStop(T)    == SingleSample(T, T \div 2, TRUE, FALSE, TRUE)

IsMidSample(r) ==
  /\ r.kind = "single" /\ r.offset = r.clocks \div 2
  /\ ~r.validates /\ ~r.resyncs /\ ~r.lenient

HearSingle(r, level) ==
  LET starts == r.due = None /\ r.prev = 1 /\ level = 0
      moves  == r.due # None /\ r.resyncs /\ level # r.prev
      due    == IF starts \/ moves THEN r.offset ELSE r.due
      before == IF starts THEN << >> ELSE r.bits
      bits   == Append(before, level)
      heard  == [r EXCEPT !.prev = level, !.bits = before]
  IN  IF due = None THEN heard
      ELSE IF due # 0 THEN [heard EXCEPT !.due = due - 1]
      ELSE IF r.validates /\ before = << >> /\ level = 1 THEN [heard EXCEPT !.due = None]
      ELSE IF Len(bits) < 10 THEN [heard EXCEPT !.bits = bits, !.due = r.clocks - 1]
      ELSE [heard EXCEPT !.bits = << >>, !.due = None,
              !.frames = Append(@, <<ByteOf(bits), IF r.lenient THEN 1 ELSE level>>)]

(***************************************************************************)
(* The same sampling as a countdown with a shift register.                 *)
(***************************************************************************)
MidSampleTwin(T) ==
  [kind |-> "twin", period |-> T, line |-> 1, countdown |-> 0, taken |-> None,
   shift |-> 0, frames |-> << >>]

\* The first sample is taken to be a data bit.
HearTwinOneBitEarly(r, level) ==
  LET heard == [r EXCEPT !.line = level]
      taken == r.taken + 1
  IN  IF r.taken = None
      THEN IF r.line = 1 /\ level = 0
           THEN [heard EXCEPT !.taken = 0, !.shift = 0, !.countdown = r.period \div 2]
           ELSE heard
      ELSE IF r.countdown # 1 THEN [heard EXCEPT !.countdown = @ - 1]
      ELSE IF taken = 10
      THEN [heard EXCEPT !.taken = None, !.countdown = 0,
              !.frames = Append(@, <<r.shift, level>>)]
      ELSE [heard EXCEPT !.countdown = r.period, !.taken = taken,
              !.shift = IF taken <= 8 THEN (@ \div 2) + 128 * level ELSE @]

HearTwin(r, level) ==
  LET heard == [r EXCEPT !.line = level]
      taken == r.taken + 1
  IN  IF r.taken = None
      THEN IF r.line = 1 /\ level = 0
           THEN [heard EXCEPT !.taken = 0, !.shift = 0, !.countdown = r.period \div 2]
           ELSE heard
      ELSE IF r.countdown # 1 THEN [heard EXCEPT !.countdown = @ - 1]
      ELSE IF taken = 10
      THEN [heard EXCEPT !.taken = None, !.countdown = 0,
              !.frames = Append(@, <<r.shift, level>>)]
      ELSE [heard EXCEPT !.countdown = r.period, !.taken = taken,
              !.shift = IF taken >= 2 THEN (@ \div 2) + 128 * level ELSE @]

(***************************************************************************)
(* Oversampling: the line is looked at on ticks only, and a bit is the     *)
(* majority of the three ticks around its middle.                          *)
(***************************************************************************)
Majority(T, ratio, phase) ==
  [kind |-> "majority", ratio |-> ratio, tick |-> T \div ratio, left |-> phase,
   prev |-> 1, ticks |-> None, votes |-> 0, bits |-> << >>, frames |-> << >>]

OnTick(r, level) ==
  LET heard    == [r EXCEPT !.prev = level]
      ticks    == r.ticks + 1
      middle   == r.ratio \div 2
      position == ticks % r.ratio
      votes    == r.votes + level
      value    == IF votes >= 2 THEN 1 ELSE 0
      bits     == Append(r.bits, value)
  IN  IF r.ticks = None
      THEN IF r.prev = 1 /\ level = 0
           THEN [heard EXCEPT !.ticks = 0, !.votes = 0, !.bits = << >>] ELSE heard
      ELSE IF position \notin middle - 1 .. middle + 1 THEN [heard EXCEPT !.ticks = ticks]
      ELSE IF position # middle + 1 THEN [heard EXCEPT !.ticks = ticks, !.votes = votes]
      ELSE IF ticks < r.ratio /\ value = 1 THEN [heard EXCEPT !.ticks = None, !.votes = 0]
      ELSE IF Len(bits) < 10
      THEN [heard EXCEPT !.ticks = ticks, !.votes = 0, !.bits = bits]
      ELSE [heard EXCEPT !.ticks = None, !.votes = 0, !.bits = << >>,
              !.frames = Append(@, <<ByteOf(bits), value>>)]

HearMajority(r, level) ==
  IF r.left = 0 THEN [OnTick(r, level) EXCEPT !.left = r.tick - 1]
  ELSE [r EXCEPT !.left = @ - 1]

\* The receivers of the campaigns, at a bit period of T clocks, with the phases
\* an oversampling one can take.
ReceiversAt(T) ==
  {MidSample(T), MidSamplePlus1(T), EdgeResync(T), LenientStop(T), MidSampleTwin(T)}
  \cup UNION {{Majority(T, ratio, phase) : phase \in 0 .. T \div ratio - 1} : ratio \in {8, 16}}

Hear(r, level) ==
  CASE r.kind = "single"   -> HearSingle(r, level)
    [] r.kind = "twin"     -> HearTwin(r, level)
    [] r.kind = "majority" -> HearMajority(r, level)
====================================================================================
