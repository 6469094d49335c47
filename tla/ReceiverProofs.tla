------------------------------ MODULE ReceiverProofs ------------------------------
(***************************************************************************)
(* The two ways of writing the mid-bit sampler agree for every bit period  *)
(* above one clock and every waveform, whatever drives the line: the       *)
(* countdown receiver is a step-by-step simulation of the other.           *)
(*                                                                         *)
(* Shift is the heart of it: after k samples, the shift register holds the *)
(* data bits among them moved up by as many places as data bits are still  *)
(* to come, so that nothing but the sum of the whole byte is left at the   *)
(* stop bit.                                                               *)
(***************************************************************************)
EXTENDS Campaign, TLAPS

Level == {0, 1}

SingleFields == {"kind", "clocks", "offset", "validates", "resyncs", "lenient",
                 "prev", "due", "bits", "frames"}
TwinFields == {"kind", "period", "line", "countdown", "taken", "shift", "frames"}

\* A record of exactly these fields.
Has_(r, fields) == r = [f \in fields |-> r[f]]

\* What the data bits among the first k samples add up to in the shift register.
Shift(bits, k) ==
  CASE k < 2 -> 0
    [] k = 2 -> 128 * bits[2]
    [] k = 3 -> 64 * bits[2] + 128 * bits[3]
    [] k = 4 -> 32 * bits[2] + 64 * bits[3] + 128 * bits[4]
    [] k = 5 -> 16 * bits[2] + 32 * bits[3] + 64 * bits[4] + 128 * bits[5]
    [] k = 6 -> 8 * bits[2] + 16 * bits[3] + 32 * bits[4] + 64 * bits[5] + 128 * bits[6]
    [] k = 7 -> 4 * bits[2] + 8 * bits[3] + 16 * bits[4] + 32 * bits[5] + 64 * bits[6]
                + 128 * bits[7]
    [] k = 8 -> 2 * bits[2] + 4 * bits[3] + 8 * bits[4] + 16 * bits[5] + 32 * bits[6]
                + 64 * bits[7] + 128 * bits[8]
    [] OTHER -> ByteOf(bits)

\* The sampler with period T, and its twin.
Sampler(r, T) ==
  /\ Has_(r, SingleFields)
  /\ r.kind = "single" /\ r.clocks = T /\ r.offset = T \div 2
  /\ ~r.validates /\ ~r.resyncs /\ ~r.lenient
Twin(t, T) ==
  /\ Has_(t, TwinFields)
  /\ t.kind = "twin" /\ t.period = T

\* The same place in the same frame.
Same(r, t) ==
  /\ r.prev = t.line /\ r.frames = t.frames
  /\ \/ r.due = None /\ t.taken = None
     \/ /\ r.due \in Nat /\ t.countdown = r.due + 1
        /\ r.bits \in Seq(Level) /\ t.taken = Len(r.bits) /\ t.taken \in 0 .. 9
        /\ t.shift = Shift(r.bits, t.taken)

\* What is shifted out of a register that holds an even number is nothing.
LEMMA Halves == \A x \in Int : (2 * x) \div 2 = x
OBVIOUS

\* One more sample goes in at the top.
LEMMA ShiftMore ==
  ASSUME NEW now \in Level, NEW k \in 0 .. 8, NEW bits, NEW more, more[k + 1] = now,
         \A i \in 1 .. k : more[i] = bits[i] /\ bits[i] \in {0, 1}
  PROVE  Shift(more, k + 1) = IF k + 1 >= 2 THEN (Shift(bits, k) \div 2) + 128 * now
                              ELSE Shift(bits, k)
<1>1. now \in {0, 1} /\ k \in {0, 1, 2, 3, 4, 5, 6, 7, 8}
  BY DEF Level
<1>2. CASE k = 0
  BY <1>2 DEF Shift
<1>3. CASE k = 1
  BY <1>1, <1>3 DEF Shift
<1>4. CASE k = 2
  BY <1>1, <1>4 DEF Shift
<1>5. CASE k = 3
  BY <1>1, <1>5 DEF Shift
<1>6. CASE k = 4
  <2>1. /\ more[2] = bits[2] /\ more[3] = bits[3] /\ more[4] = bits[4]
        /\ more[5] = now
        /\ bits[2] \in Int /\ bits[3] \in Int /\ bits[4] \in Int /\ now \in Int
    BY <1>1, <1>6
  <2> DEFINE half == 16 * bits[2] + 32 * bits[3] + 64 * bits[4]
  <2>2. half \in Int /\ Shift(bits, k) = 2 * half
    <3>1. Shift(bits, 4) = 32 * bits[2] + 64 * bits[3] + 128 * bits[4]
      BY DEF Shift
    <3>2. half \in Int
      BY <2>1
    <3>3. Shift(bits, 4) = 2 * half
      BY <2>1, <3>1
    <3> QED
      BY <1>6, <3>2, <3>3
  <2>3. Shift(more, k + 1) = half + 128 * now
    BY <1>6, <2>1 DEF Shift
  <2> HIDE DEF half
  <2> QED
    BY <1>6, <2>2, <2>3, Halves
<1>7. CASE k = 5
  <2>1. /\ more[2] = bits[2] /\ more[3] = bits[3] /\ more[4] = bits[4]
        /\ more[5] = bits[5] /\ more[6] = now
        /\ bits[2] \in Int /\ bits[3] \in Int /\ bits[4] \in Int /\ bits[5] \in Int
        /\ now \in Int
    BY <1>1, <1>7
  <2> DEFINE half == 8 * bits[2] + 16 * bits[3] + 32 * bits[4] + 64 * bits[5]
  <2>2. half \in Int /\ Shift(bits, k) = 2 * half
    <3>1. Shift(bits, 5) = 16 * bits[2] + 32 * bits[3] + 64 * bits[4] + 128 * bits[5]
      BY DEF Shift
    <3>2. half \in Int
      BY <2>1
    <3>3. Shift(bits, 5) = 2 * half
      BY <2>1, <3>1
    <3> QED
      BY <1>7, <3>2, <3>3
  <2>3. Shift(more, k + 1) = half + 128 * now
    BY <1>7, <2>1 DEF Shift
  <2> HIDE DEF half
  <2> QED
    BY <1>7, <2>2, <2>3, Halves
<1>8. CASE k = 6
  <2>1. /\ more[2] = bits[2] /\ more[3] = bits[3] /\ more[4] = bits[4]
        /\ more[5] = bits[5] /\ more[6] = bits[6] /\ more[7] = now
        /\ bits[2] \in Int /\ bits[3] \in Int /\ bits[4] \in Int /\ bits[5] \in Int
        /\ bits[6] \in Int /\ now \in Int
    BY <1>1, <1>8
  <2> DEFINE half == 4 * bits[2] + 8 * bits[3] + 16 * bits[4] + 32 * bits[5]
               + 64 * bits[6]
  <2>2. half \in Int /\ Shift(bits, k) = 2 * half
    <3>1. Shift(bits, 6) = 8 * bits[2] + 16 * bits[3] + 32 * bits[4] + 64 * bits[5]
                        + 128 * bits[6]
      BY DEF Shift
    <3>2. half \in Int
      BY <2>1
    <3>3. Shift(bits, 6) = 2 * half
      BY <2>1, <3>1
    <3> QED
      BY <1>8, <3>2, <3>3
  <2>3. Shift(more, k + 1) = half + 128 * now
    BY <1>8, <2>1 DEF Shift
  <2> HIDE DEF half
  <2> QED
    BY <1>8, <2>2, <2>3, Halves
<1>9. CASE k = 7
  <2>1. /\ more[2] = bits[2] /\ more[3] = bits[3] /\ more[4] = bits[4]
        /\ more[5] = bits[5] /\ more[6] = bits[6] /\ more[7] = bits[7]
        /\ more[8] = now
        /\ bits[2] \in Int /\ bits[3] \in Int /\ bits[4] \in Int /\ bits[5] \in Int
        /\ bits[6] \in Int /\ bits[7] \in Int /\ now \in Int
    BY <1>1, <1>9
  <2> DEFINE half == 2 * bits[2] + 4 * bits[3] + 8 * bits[4] + 16 * bits[5]
               + 32 * bits[6] + 64 * bits[7]
  <2>2. half \in Int /\ Shift(bits, k) = 2 * half
    <3>1. Shift(bits, 7) = 4 * bits[2] + 8 * bits[3] + 16 * bits[4] + 32 * bits[5]
                        + 64 * bits[6] + 128 * bits[7]
      BY DEF Shift
    <3>2. half \in Int
      BY <2>1
    <3>3. Shift(bits, 7) = 2 * half
      BY <2>1, <3>1
    <3> QED
      BY <1>9, <3>2, <3>3
  <2>3. Shift(more, k + 1) = half + 128 * now
    BY <1>9, <2>1 DEF Shift
  <2> HIDE DEF half
  <2> QED
    BY <1>9, <2>2, <2>3, Halves
<1>10. CASE k = 8
  <2>1. /\ more[2] = bits[2] /\ more[3] = bits[3] /\ more[4] = bits[4]
        /\ more[5] = bits[5] /\ more[6] = bits[6] /\ more[7] = bits[7]
        /\ more[8] = bits[8] /\ more[9] = now
        /\ bits[2] \in Int /\ bits[3] \in Int /\ bits[4] \in Int /\ bits[5] \in Int
        /\ bits[6] \in Int /\ bits[7] \in Int /\ bits[8] \in Int /\ now \in Int
    BY <1>1, <1>10
  <2> DEFINE low  == bits[2] + 2 * bits[3] + 4 * bits[4] + 8 * bits[5]
             high == 16 * bits[6] + 32 * bits[7] + 64 * bits[8]
  <2>2. /\ Shift(bits, 8) = 2 * bits[2] + 4 * bits[3] + 8 * bits[4] + 16 * bits[5]
                             + 32 * bits[6] + 64 * bits[7] + 128 * bits[8]
        /\ Shift(more, 9) = bits[2] + 2 * bits[3] + 4 * bits[4] + 8 * bits[5]
                             + 16 * bits[6] + 32 * bits[7] + 64 * bits[8] + 128 * now
    BY <2>1 DEF Shift, ByteOf
  <2>3. low \in Int /\ 2 * bits[2] + 4 * bits[3] + 8 * bits[4] + 16 * bits[5] = 2 * low
    BY <2>1
  <2>4. high \in Int /\ 32 * bits[6] + 64 * bits[7] + 128 * bits[8] = 2 * high
    BY <2>1
  <2>5. Shift(bits, 8) = 2 * (low + high)
    BY <2>1, <2>2, <2>3, <2>4
  <2>6. Shift(more, 9) = low + high + 128 * now
    BY <2>1, <2>2
  <2> HIDE DEF low, high
  <2>7. Shift(bits, 8) \div 2 = low + high
    BY <2>3, <2>4, <2>5, Halves
  <2> QED
    BY <1>10, <2>6, <2>7
<1> QED
  BY <1>1, <1>2, <1>3, <1>4, <1>5, <1>6, <1>7, <1>8, <1>9, <1>10

LEMMA ShiftStep ==
  ASSUME NEW bits \in Seq(Level), Len(bits) \in 0 .. 8, NEW now \in Level
  PROVE  Shift(Append(bits, now), Len(bits) + 1) =
           IF Len(bits) + 1 >= 2
           THEN (Shift(bits, Len(bits)) \div 2) + 128 * now ELSE Shift(bits, Len(bits))
<1>1. /\ Append(bits, now)[Len(bits) + 1] = now
      /\ \A i \in 1 .. Len(bits) : Append(bits, now)[i] = bits[i] /\ bits[i] \in {0, 1}
  BY DEF Level
<1> QED
  BY <1>1, ShiftMore

\* The next state of the two, field by field, on a line at this level.
LEMMA SamplerIdles ==
  ASSUME NEW T \in Nat \ {0, 1}, NEW r, NEW t, Sampler(r, T), Twin(t, T), Same(r, t),
         NEW now \in Level, r.due = None, ~(r.prev = 1 /\ now = 0)
  PROVE  /\ Sampler(HearSingle(r, now), T) /\ Twin(HearTwin(t, now), T)
         /\ Same(HearSingle(r, now), HearTwin(t, now))
<1>1. HearSingle(r, now) = [r EXCEPT !.prev = now, !.bits = r.bits]
  BY DEF HearSingle, Sampler
<1>2. t.taken = None /\ t.line = r.prev
  BY DEF Same, None
<1>3. HearTwin(t, now) = [t EXCEPT !.line = now]
  BY <1>2 DEF HearTwin
<1>4. /\ Sampler(HearSingle(r, now), T)
      /\ HearSingle(r, now).prev = now /\ HearSingle(r, now).due = r.due
      /\ HearSingle(r, now).frames = r.frames
  BY <1>1 DEF Sampler, Has_, SingleFields
<1>5. /\ Twin(HearTwin(t, now), T)
      /\ HearTwin(t, now).line = now /\ HearTwin(t, now).taken = t.taken
      /\ HearTwin(t, now).frames = t.frames
  BY <1>3 DEF Twin, Has_, TwinFields
<1> QED
  BY <1>2, <1>4, <1>5 DEF Same

LEMMA SamplerStarts ==
  ASSUME NEW T \in Nat \ {0, 1}, NEW r, NEW t, Sampler(r, T), Twin(t, T), Same(r, t),
         NEW now \in Level, r.due = None, r.prev = 1, now = 0
  PROVE  /\ Sampler(HearSingle(r, now), T) /\ Twin(HearTwin(t, now), T)
         /\ Same(HearSingle(r, now), HearTwin(t, now))
<1> DEFINE first == T \div 2
<1>1. first \in Nat \ {0} /\ r.offset = first
  BY DEF Sampler
<1>2. t.taken = None /\ t.line = 1 /\ t.period = T
  BY DEF Same, None, Twin
<1> HIDE DEF first
<1>3. HearSingle(r, now) = [[r EXCEPT !.prev = now, !.bits = << >>] EXCEPT !.due = first - 1]
  <2>1. first # None /\ first # 0
    BY <1>1 DEF None
  <2> QED
    BY <1>1, <2>1 DEF HearSingle, Sampler
<1>4. HearTwin(t, now) = [[t EXCEPT !.line = now] EXCEPT !.taken = 0, !.shift = 0,
                                                          !.countdown = first]
  BY <1>2 DEF HearTwin, first
<1>5. /\ Sampler(HearSingle(r, now), T)
      /\ HearSingle(r, now).prev = now /\ HearSingle(r, now).due = first - 1
      /\ HearSingle(r, now).bits = << >> /\ HearSingle(r, now).frames = r.frames
  BY <1>3 DEF Sampler, Has_, SingleFields
<1>6. /\ Twin(HearTwin(t, now), T)
      /\ HearTwin(t, now).line = now /\ HearTwin(t, now).taken = 0
      /\ HearTwin(t, now).shift = 0 /\ HearTwin(t, now).countdown = first
      /\ HearTwin(t, now).frames = t.frames
  BY <1>4 DEF Twin, Has_, TwinFields
<1>7. r.frames = t.frames /\ Shift(<< >>, 0) = 0 /\ << >> \in Seq(Level) /\ Len(<< >>) = 0
  BY DEF Same, Shift
<1>8. first - 1 \in Nat /\ first = (first - 1) + 1
  BY <1>1
<1>9. /\ HearSingle(r, now).bits \in Seq(Level)
      /\ HearTwin(t, now).taken = Len(HearSingle(r, now).bits) /\ HearTwin(t, now).taken \in 0 .. 9
      /\ HearTwin(t, now).shift = Shift(HearSingle(r, now).bits, HearTwin(t, now).taken)
  <2>1. HearSingle(r, now).bits \in Seq(Level)
    BY <1>5, <1>7
  <2>2. Len(HearSingle(r, now).bits) = 0
    BY <1>5, <1>7
  <2>3. HearTwin(t, now).taken \in 0 .. 9
    BY <1>6
  <2>4. HearTwin(t, now).shift = Shift(HearSingle(r, now).bits, HearTwin(t, now).taken)
    BY <1>5, <1>6, <1>7
  <2> QED
    BY <1>6, <2>1, <2>2, <2>3, <2>4
<1>10. Same(HearSingle(r, now), HearTwin(t, now))
  BY <1>5, <1>6, <1>7, <1>8, <1>9 DEF Same
<1> QED
  BY <1>5, <1>6, <1>10

LEMMA SamplerCounts ==
  ASSUME NEW T \in Nat \ {0, 1}, NEW r, NEW t, Sampler(r, T), Twin(t, T), Same(r, t),
         NEW now \in Level, r.due # None, r.due # 0
  PROVE  /\ Sampler(HearSingle(r, now), T) /\ Twin(HearTwin(t, now), T)
         /\ Same(HearSingle(r, now), HearTwin(t, now))
<1>1. /\ r.due \in Nat \ {0} /\ t.countdown = r.due + 1
      /\ r.bits \in Seq(Level) /\ t.taken = Len(r.bits) /\ t.taken \in 0 .. 9
      /\ t.shift = Shift(r.bits, t.taken)
  BY DEF Same
<1>2. HearSingle(r, now) = [[r EXCEPT !.prev = now, !.bits = r.bits] EXCEPT !.due = r.due - 1]
  BY DEF HearSingle, Sampler
<1>3. HearTwin(t, now) = [[t EXCEPT !.line = now] EXCEPT !.countdown = t.countdown - 1]
  <2>1. t.taken # None /\ t.countdown # 1
    BY <1>1 DEF None
  <2>2. [t EXCEPT !.line = now].countdown = t.countdown
    BY DEF Twin, Has_, TwinFields
  <2> QED
    BY <2>1, <2>2 DEF HearTwin
<1>4. /\ Sampler(HearSingle(r, now), T)
      /\ HearSingle(r, now).prev = now /\ HearSingle(r, now).due = r.due - 1
      /\ HearSingle(r, now).bits = r.bits /\ HearSingle(r, now).frames = r.frames
  BY <1>2 DEF Sampler, Has_, SingleFields
<1>5. /\ Twin(HearTwin(t, now), T)
      /\ HearTwin(t, now).line = now /\ HearTwin(t, now).taken = t.taken
      /\ HearTwin(t, now).shift = t.shift /\ HearTwin(t, now).countdown = t.countdown - 1
      /\ HearTwin(t, now).frames = t.frames
  BY <1>3 DEF Twin, Has_, TwinFields
<1>6. r.frames = t.frames
  BY DEF Same
<1> QED
  BY <1>1, <1>4, <1>5, <1>6 DEF Same

LEMMA SamplerTakes ==
  ASSUME NEW T \in Nat \ {0, 1}, NEW r, NEW t, Sampler(r, T), Twin(t, T), Same(r, t),
         NEW now \in Level, r.due = 0, t.taken # 9
  PROVE  /\ Sampler(HearSingle(r, now), T) /\ Twin(HearTwin(t, now), T)
         /\ Same(HearSingle(r, now), HearTwin(t, now))
<1> DEFINE more == Append(r.bits, now)
           next == IF t.taken + 1 >= 2 THEN (t.shift \div 2) + 128 * now ELSE t.shift
<1>0. t.taken \in 0 .. 8
  <2>1. t.taken \in 0 .. 9
    BY DEF Same, None
  <2> QED
    BY <2>1
<1>1. /\ t.countdown = 1
      /\ r.bits \in Seq(Level) /\ t.taken = Len(r.bits)
      /\ t.shift = Shift(r.bits, t.taken) /\ t.period = T
  BY DEF Same, None, Twin
<1>2. more \in Seq(Level) /\ Len(more) = t.taken + 1 /\ Shift(more, t.taken + 1) = next
  BY <1>0, <1>1, ShiftStep
<1> HIDE DEF more
<1>3. HearSingle(r, now) =
        [[r EXCEPT !.prev = now, !.bits = r.bits] EXCEPT !.bits = more, !.due = T - 1]
  <2>1. Len(more) < 10
    BY <1>0, <1>2
  <2>2. r.due # None
    BY DEF None
  <2> QED
    BY <2>1, <2>2 DEF HearSingle, Sampler, more
<1>4. HearTwin(t, now) = [[t EXCEPT !.line = now] EXCEPT !.countdown = T,
                            !.taken = t.taken + 1, !.shift = next]
  <2>1. t.taken # None /\ t.taken + 1 # 10
    BY <1>0 DEF None
  <2>2. [t EXCEPT !.line = now].shift = t.shift
    BY DEF Twin, Has_, TwinFields
  <2> QED
    BY <1>1, <2>1, <2>2 DEF HearTwin
<1> HIDE DEF next
<1>5. /\ Sampler(HearSingle(r, now), T)
      /\ HearSingle(r, now).prev = now /\ HearSingle(r, now).due = T - 1
      /\ HearSingle(r, now).bits = more /\ HearSingle(r, now).frames = r.frames
  BY <1>3 DEF Sampler, Has_, SingleFields
<1>6. /\ Twin(HearTwin(t, now), T)
      /\ HearTwin(t, now).line = now /\ HearTwin(t, now).taken = t.taken + 1
      /\ HearTwin(t, now).shift = next /\ HearTwin(t, now).countdown = T
      /\ HearTwin(t, now).frames = t.frames
  BY <1>4 DEF Twin, Has_, TwinFields
<1>7. r.frames = t.frames
  BY DEF Same
<1>8. T - 1 \in Nat /\ T = (T - 1) + 1 /\ t.taken + 1 \in 0 .. 9
  BY <1>0
<1>9. Same(HearSingle(r, now), HearTwin(t, now))
  BY <1>2, <1>5, <1>6, <1>7, <1>8 DEF Same
<1> QED
  BY <1>5, <1>6, <1>9

LEMMA SamplerCompletes ==
  ASSUME NEW T \in Nat \ {0, 1}, NEW r, NEW t, Sampler(r, T), Twin(t, T), Same(r, t),
         NEW now \in Level, r.due = 0, t.taken = 9
  PROVE  /\ Sampler(HearSingle(r, now), T) /\ Twin(HearTwin(t, now), T)
         /\ Same(HearSingle(r, now), HearTwin(t, now))
<1> DEFINE more == Append(r.bits, now)
<1>1. /\ t.countdown = 1
      /\ r.bits \in Seq(Level) /\ t.taken = Len(r.bits) /\ t.shift = Shift(r.bits, 9)
  BY DEF Same, None
<1>2. Len(more) = 10 /\ ByteOf(more) = t.shift
  <2>1. /\ more[2] = r.bits[2] /\ more[3] = r.bits[3] /\ more[4] = r.bits[4]
        /\ more[5] = r.bits[5] /\ more[6] = r.bits[6] /\ more[7] = r.bits[7]
        /\ more[8] = r.bits[8] /\ more[9] = r.bits[9]
    BY <1>1
  <2>2. Shift(r.bits, 9) = ByteOf(r.bits)
    BY DEF Shift
  <2>3. ByteOf(more) = ByteOf(r.bits)
    BY <2>1 DEF ByteOf
  <2>4. Len(more) = Len(r.bits) + 1
    BY <1>1
  <2> QED
    BY <1>1, <2>2, <2>3, <2>4
<1> HIDE DEF more
<1>3. HearSingle(r, now) =
        [[r EXCEPT !.prev = now, !.bits = r.bits]
           EXCEPT !.bits = << >>, !.due = None,
                  !.frames = Append(r.frames, <<ByteOf(more), now>>)]
  <2>1. ~(Len(more) < 10) /\ r.due # None
    BY <1>2 DEF None
  <2>2. [r EXCEPT !.prev = now, !.bits = r.bits].frames = r.frames
    BY DEF Sampler, Has_, SingleFields
  <2> QED
    BY <2>1, <2>2 DEF HearSingle, Sampler, more
<1>4. HearTwin(t, now) =
        [[t EXCEPT !.line = now]
           EXCEPT !.taken = None, !.countdown = 0,
                  !.frames = Append(t.frames, <<t.shift, now>>)]
  <2>1. t.taken # None /\ t.taken + 1 = 10
    BY <1>1 DEF None
  <2>2. [t EXCEPT !.line = now].frames = t.frames
    BY DEF Twin, Has_, TwinFields
  <2> QED
    BY <1>1, <2>1, <2>2 DEF HearTwin
<1>5. /\ Sampler(HearSingle(r, now), T)
      /\ HearSingle(r, now).prev = now /\ HearSingle(r, now).due = None
      /\ HearSingle(r, now).frames = Append(r.frames, <<ByteOf(more), now>>)
  BY <1>3 DEF Sampler, Has_, SingleFields
<1>6. /\ Twin(HearTwin(t, now), T)
      /\ HearTwin(t, now).line = now /\ HearTwin(t, now).taken = None
      /\ HearTwin(t, now).frames = Append(t.frames, <<t.shift, now>>)
  BY <1>4 DEF Twin, Has_, TwinFields
<1>7. r.frames = t.frames
  BY DEF Same
<1> QED
  BY <1>2, <1>5, <1>6, <1>7 DEF Same

\* One clock of the two on the same line.
LEMMA SamplerStep ==
  ASSUME NEW T \in Nat \ {0, 1}, NEW r, NEW t, Sampler(r, T), Twin(t, T), Same(r, t),
         NEW now \in Level
  PROVE  /\ Sampler(HearSingle(r, now), T) /\ Twin(HearTwin(t, now), T)
         /\ Same(HearSingle(r, now), HearTwin(t, now))
<1>1. CASE r.due = None /\ ~(r.prev = 1 /\ now = 0)
  BY <1>1, SamplerIdles
<1>2. CASE r.due = None /\ r.prev = 1 /\ now = 0
  BY <1>2, SamplerStarts
<1>3. CASE r.due # None /\ r.due # 0
  BY <1>3, SamplerCounts
<1>4. CASE r.due = 0
  BY <1>4, SamplerTakes, SamplerCompletes
<1> QED
  BY <1>1, <1>2, <1>3, <1>4

(***************************************************************************)
(* The other receivers stay what they are.                                 *)
(***************************************************************************)
MajorityFields == {"kind", "ratio", "tick", "left", "prev", "ticks", "votes", "bits", "frames"}

OtherSingle(r) == Has_(r, SingleFields) /\ r.kind = "single" /\ ~IsMidSample(r)
IsMajority(r) == Has_(r, MajorityFields) /\ r.kind = "majority"

\* A clock never changes how a receiver is set up.
SetUpAs(x, r) ==
  /\ Has_(x, SingleFields) /\ x.kind = r.kind /\ x.clocks = r.clocks
  /\ x.offset = r.offset /\ x.validates = r.validates
  /\ x.resyncs = r.resyncs /\ x.lenient = r.lenient

LEMMA SingleStays ==
  ASSUME NEW r, Has_(r, SingleFields), NEW now \in Level
  PROVE  SetUpAs(HearSingle(r, now), r)
<1>1. \A b : SetUpAs([r EXCEPT !.prev = now, !.bits = b], r)
  BY DEF SetUpAs, Has_, SingleFields
<1>2. ASSUME NEW x, SetUpAs(x, r), NEW d
      PROVE  SetUpAs([x EXCEPT !.due = d], r)
  BY <1>2 DEF SetUpAs, Has_, SingleFields
<1>3. ASSUME NEW x, SetUpAs(x, r), NEW b, NEW d
      PROVE  SetUpAs([x EXCEPT !.bits = b, !.due = d], r)
  BY <1>3 DEF SetUpAs, Has_, SingleFields
<1>4. ASSUME NEW x, SetUpAs(x, r), NEW b, NEW d, NEW f
      PROVE  SetUpAs([x EXCEPT !.bits = b, !.due = d, !.frames = f], r)
  BY <1>4 DEF SetUpAs, Has_, SingleFields
<1> QED
  BY <1>1, <1>2, <1>3, <1>4 DEF HearSingle

LEMMA OtherSingleStays ==
  ASSUME NEW r, OtherSingle(r), NEW now \in Level
  PROVE  OtherSingle(HearSingle(r, now))
BY SingleStays DEF SetUpAs, OtherSingle, IsMidSample

LEMMA SamplerStays ==
  ASSUME NEW T, NEW r, Sampler(r, T), NEW now \in Level
  PROVE  Sampler(HearSingle(r, now), T)
BY SingleStays DEF SetUpAs, Sampler

LEMMA TwinStays ==
  ASSUME NEW T, NEW t, Twin(t, T), NEW now \in Level
  PROVE  Twin(HearTwin(t, now), T)
BY DEF HearTwin, Twin, Has_, TwinFields

LEMMA MajorityStays ==
  ASSUME NEW r, IsMajority(r), NEW now \in Level
  PROVE  IsMajority(HearMajority(r, now))
<1> DEFINE next == OnTick(r, now)
<1>1. IsMajority(next)
  BY DEF OnTick, IsMajority, Has_, MajorityFields
<1> HIDE DEF next
<1> QED
  BY <1>1 DEF HearMajority, IsMajority, Has_, MajorityFields, next

(***************************************************************************)
(* The inductive invariant: every receiver is of one of the kinds, and any *)
(* sampler and any twin are at the same place.                             *)
(***************************************************************************)
Kinds(T) == \A lane \in DOMAIN heard :
  \/ Sampler(heard[lane], T) \/ Twin(heard[lane], T)
  \/ OtherSingle(heard[lane]) \/ IsMajority(heard[lane])
Together(T) == \A i, j \in DOMAIN heard :
  Sampler(heard[i], T) /\ Twin(heard[j], T) => Same(heard[i], heard[j])
Listening == /\ job \in Jobs
             /\ Kinds(job.bit) /\ Together(job.bit)

\* What the receivers are before the first clock.
LEMMA ReceiversStart ==
  ASSUME NEW T \in Nat \ {0, 1}, NEW r \in ReceiversAt(T)
  PROVE  \/ Sampler(r, T) /\ r = MidSample(T)
         \/ Twin(r, T) /\ r = MidSampleTwin(T)
         \/ OtherSingle(r) \/ IsMajority(r)
<1>1. CASE r = MidSample(T)
  BY <1>1 DEF MidSample, SingleSample, Sampler, Has_, SingleFields
<1>2. CASE r = MidSampleTwin(T)
  BY <1>2 DEF MidSampleTwin, Twin, Has_, TwinFields
<1>3. CASE r = MidSamplePlus1(T)
  BY <1>3 DEF MidSamplePlus1, SingleSample, OtherSingle, IsMidSample, Has_, SingleFields
<1>4. CASE r = EdgeResync(T)
  BY <1>4 DEF EdgeResync, SingleSample, OtherSingle, IsMidSample, Has_, SingleFields
<1>5. CASE r = LenientStop(T)
  BY <1>5 DEF LenientStop, SingleSample, OtherSingle, IsMidSample, Has_, SingleFields
<1>6. ASSUME NEW ratio, NEW phase, r = Majority(T, ratio, phase)
      PROVE  IsMajority(r)
  BY <1>6 DEF Majority, IsMajority, Has_, MajorityFields
<1> QED
  BY <1>1, <1>2, <1>3, <1>4, <1>5, <1>6 DEF ReceiversAt

LEMMA ListeningStarts == CampaignInit => Listening
<1> SUFFICES ASSUME CampaignInit
             PROVE  Listening
  OBVIOUS
<1> DEFINE T == job.bit
<1>1. job \in Jobs /\ heard = job.receivers
  BY DEF CampaignInit, BenchInit, PeersInit
<1>2. T \in Nat \ {0, 1} /\ \A lane \in DOMAIN heard : heard[lane] \in ReceiversAt(T)
  BY <1>1, ReceiverAssumption
<1> HIDE DEF T
<1>3. Kinds(T)
  BY <1>2, ReceiversStart DEF Kinds
<1>4. Together(T)
  <2> SUFFICES ASSUME NEW i \in DOMAIN heard, NEW j \in DOMAIN heard,
                      Sampler(heard[i], T), Twin(heard[j], T)
               PROVE  Same(heard[i], heard[j])
    BY DEF Together
  <2>1. heard[i] = MidSample(T)
    BY <1>2, ReceiversStart DEF Sampler, Twin, OtherSingle, IsMajority, IsMidSample
  <2>2. heard[j] = MidSampleTwin(T)
    BY <1>2, ReceiversStart DEF Sampler, Twin, OtherSingle, IsMajority
  <2> QED
    BY <2>1, <2>2 DEF Same, MidSample, SingleSample, MidSampleTwin
<1> QED
  BY <1>1, <1>3, <1>4 DEF Listening, T

\* Whatever the line does on a clock.
LEMMA ListeningContinues ==
  ASSUME Listening, NEW now \in Level, UNCHANGED job,
         heard' = [lane \in DOMAIN heard |-> Hear(heard[lane], now)]
  PROVE  Listening'
<1>1. PICK T \in Nat \ {0, 1} : T = job.bit /\ job' = job /\ Kinds(T) /\ Together(T)
  BY ReceiverAssumption DEF Listening
<1>2. DOMAIN heard' = DOMAIN heard
      /\ \A lane \in DOMAIN heard : heard'[lane] = Hear(heard[lane], now)
  OBVIOUS
<1>3. ASSUME NEW r, r.kind = "single" PROVE Hear(r, now) = HearSingle(r, now)
  BY <1>3 DEF Hear
<1>4. ASSUME NEW r, r.kind = "twin" PROVE Hear(r, now) = HearTwin(r, now)
  BY <1>4 DEF Hear
<1>5. ASSUME NEW r, r.kind = "majority" PROVE Hear(r, now) = HearMajority(r, now)
  BY <1>5 DEF Hear
<1>6. ASSUME NEW lane \in DOMAIN heard
      PROVE  \/ Sampler(heard[lane], T) /\ Sampler(heard'[lane], T)
             \/ Twin(heard[lane], T) /\ Twin(heard'[lane], T)
             \/ OtherSingle(heard'[lane]) \/ IsMajority(heard'[lane])
  <2>1. CASE Sampler(heard[lane], T)
    BY <1>1, <1>2, <1>3, <2>1, SamplerStays DEF Sampler
  <2>2. CASE Twin(heard[lane], T)
    BY <1>1, <1>2, <1>4, <2>2, TwinStays DEF Twin
  <2>3. CASE OtherSingle(heard[lane])
    BY <1>2, <1>3, <2>3, OtherSingleStays DEF OtherSingle
  <2>4. CASE IsMajority(heard[lane])
    BY <1>2, <1>5, <2>4, MajorityStays DEF IsMajority
  <2> QED
    BY <1>1, <2>1, <2>2, <2>3, <2>4 DEF Kinds
<1>7. Kinds(T)'
  BY <1>2, <1>6 DEF Kinds
<1>8. Together(T)'
  <2> SUFFICES ASSUME NEW i \in DOMAIN heard, NEW j \in DOMAIN heard,
                      Sampler(heard'[i], T), Twin(heard'[j], T)
               PROVE  Same(heard'[i], heard'[j])
    BY <1>2 DEF Together
  <2>1. Sampler(heard[i], T)
    BY <1>6 DEF Sampler, Twin, OtherSingle, IsMajority, IsMidSample
  <2>2. Twin(heard[j], T)
    BY <1>6 DEF Sampler, Twin, OtherSingle, IsMajority
  <2>3. Same(heard[i], heard[j])
    BY <1>1, <2>1, <2>2 DEF Together
  <2>4. heard'[i] = HearSingle(heard[i], now) /\ heard'[j] = HearTwin(heard[j], now)
    BY <1>2, <1>3, <1>4, <2>1, <2>2 DEF Sampler, Twin
  <2> QED
    BY <1>1, <2>1, <2>2, <2>3, <2>4, SamplerStep
<1> QED
  BY <1>1, <1>7, <1>8 DEF Listening

LEMMA ListeningStep == Listening /\ [CampaignClock]_campaignVars => Listening'
<1> SUFFICES ASSUME Listening, [CampaignClock]_campaignVars
             PROVE  Listening'
  OBVIOUS
<1>1. CASE BenchClock(fed) /\ Peers
  <2>1. UNCHANGED job
    BY <1>1 DEF BenchClock
  <2>2. PICK now \in Level : level' = now
    BY <1>1 DEF Peers, Level
  <2>3. CASE heard' = heard
    BY <2>1, <2>3 DEF Listening, Kinds, Together
  <2>4. CASE heard' = [lane \in DOMAIN heard |-> Hear(heard[lane], now)]
    BY <2>1, <2>4, ListeningContinues
  <2> QED
    BY <1>1, <2>2, <2>3, <2>4 DEF Peers
<1>2. CASE UNCHANGED campaignVars
  BY <1>2 DEF campaignVars, benchVars, Listening, Kinds, Together
<1> QED
  BY <1>1, <1>2 DEF CampaignClock

(***************************************************************************)
(* In every campaign, every receiver stays of its kind and set up as it    *)
(* was, and a sampler and a twin of the bench are at the same place of the *)
(* same frame after every clock (test/receivers.py:29-92), for every bit   *)
(* period above one clock and whatever the engine drives.                  *)
(***************************************************************************)
THEOREM ListeningInvariance == CampaignSpec => []Listening
<1>1. CampaignInit => Listening
  BY ListeningStarts
<1>2. Listening /\ [CampaignClock]_campaignVars => Listening'
  BY ListeningStep
<1> QED
  BY <1>1, <1>2, PTL DEF CampaignSpec

(***************************************************************************)
(* The countdown receiver is the mid-bit sampler written another way: they *)
(* have heard the same frames after every clock of every campaign, and one *)
(* is in a frame exactly when the other is (test/receivers.py:59-92).      *)
(***************************************************************************)
THEOREM TwinsAgree == CampaignSpec => []TwinAgrees
<1>1. Listening => TwinAgrees
  <2> SUFFICES ASSUME Listening, NEW i \in DOMAIN heard, NEW j \in DOMAIN heard,
                      heard[j].kind = "twin", IsMidSample(heard[i])
               PROVE  /\ heard[i].frames = heard[j].frames
                      /\ (heard[i].due = None) = (heard[j].taken = None)
    BY DEF TwinAgrees
  <2>1. Sampler(heard[i], job.bit) /\ Twin(heard[j], job.bit)
    BY DEF Listening, Kinds, Sampler, Twin, OtherSingle, IsMajority, IsMidSample
  <2>2. Same(heard[i], heard[j])
    BY <2>1 DEF Listening, Together
  <2> QED
    BY <2>2 DEF Same, None
<1> QED
  BY <1>1, ListeningInvariance, PTL
====================================================================================
