------------------------------ MODULE SerialProofs ------------------------------
(***************************************************************************)
(* The timing of the serial programs, for every period their generators    *)
(* accept, every byte, every count and whatever the host and the peer do.  *)
(***************************************************************************)
EXTENDS Serial, EngineProofs, SequenceTheorems

(***************************************************************************)
(* The bench: the program is in the store, the host is silent until the    *)
(* engine runs, and RUN never falls again.                                 *)
(***************************************************************************)
OnBench == job \in Jobs /\ InStore(job.program)

LEMMA BenchStarts == BenchInit => OnBench
BY BenchAssumption, LoadedImage DEF BenchInit, OnBench

LEMMA BenchPins ==
  ASSUME NEW lanes, BenchClock(lanes)
  PROVE  job' = job /\ Next /\ RunPins
<1>1. PICK pins \in HostPins(lanes) : EngineClock(pins, HostByte)
  BY DEF BenchClock
<1>2. input_meta' = pins /\ Next
  BY <1>1 DEF EngineClock
<1>3. pins.run /\ (~stream_enabled => ~pins.load /\ ~pins.rewind)
  BY DEF HostPins, Pins, MaySend, MayPop
<1> QED
  BY <1>2, <1>3 DEF BenchClock, RunPins

LEMMA BenchStays ==
  ASSUME OnBench, NEW lanes, BenchClock(lanes)
  PROVE  OnBench'
BY BenchPins, ImageStays DEF OnBench

LEMMA BenchFetch ==
  ASSUME OnBench, pc \in 0 .. Len(job.program) - 1
  PROVE  /\ instruction = job.program[pc + 1] /\ pc < length /\ pc \in Nat /\ length \in Nat
         /\ (pc + 1) % (2 * MemWords) = pc + 1
BY Fetch DEF OnBench

LEMMA BenchRest ==
  ASSUME OnBench, NEW lanes, BenchClock(lanes), ~running, out_enable = {}
  PROVE  /\ out_enable' = {} /\ out_value' = out_value
         /\ running' => pc' = 0 /\ delay_left' = 0
BY BenchPins, RestClock DEF OnBench

(***************************************************************************)
(* One clock of the executor.                                              *)
(***************************************************************************)
SerialOps == {"DRIVE", "PATCH", "OUT", "IN", "DJNZ", "STREAM", "LOAD", "PULL", "PUSH",
              "BYTE_LOOP", "HALT"}

MayEnd(w) == /\ w.op \notin {"DRIVE", "PATCH", "LOAD"}
             /\ w.op \in {"OUT", "IN"} => w.lane \notin Lanes
             /\ w.op = "DJNZ" => loop_count = 0

\* What the words of these programs do to the pins and the place in the program.
PinsStay == UNCHANGED <<out_value, out_enable>>
Does(w) ==
  \/ w.op = "DRIVE" /\ out_value' = w.value /\ out_enable' = w.oe /\ loop_count' = loop_count
                    /\ delay_left' = w.hold /\ pc' = pc + 1
  \/ w.op = "PATCH" /\ out_value' = (out_value \ w.mask) \cup (w.value \cap w.mask)
                    /\ out_enable' = (out_enable \ w.mask) \cup (w.oe \cap w.mask)
                    /\ loop_count' = loop_count /\ delay_left' = w.hold /\ pc' = pc + 1
  \/ /\ delay_left' = 0
     /\ \/ w.op = "OUT" /\ out_value' \in {out_value \cup {w.lane}, out_value \ {w.lane}}
                        /\ (~w.drain => out_enable' = out_enable \cup {w.lane})
                        /\ loop_count' = loop_count /\ pc' = pc + 1
        \/ w.op \in {"IN", "STREAM"} /\ PinsStay /\ loop_count' = loop_count /\ pc' = pc + 1
        \/ w.op = "LOAD" /\ PinsStay /\ pc' = pc + 1
        \/ w.op = "DJNZ" /\ PinsStay /\ loop_count' = loop_count - 1
                         /\ pc' = IF loop_count = 1 THEN pc + 1 ELSE w.target
        \/ w.op = "PULL" /\ PinsStay /\ (pc' = pc \/ (pc' = pc + 1 /\ loop_count' = 8))
        \/ w.op = "PUSH" /\ PinsStay /\ pc' \in {pc, pc + 1}
        \/ w.op = "BYTE_LOOP" /\ PinsStay /\ pc' \in {w.target, pc + 1}

LEMMA WordClock ==
  ASSUME Steps, running, delay_left = 0, pc < length, instruction.op \in SerialOps,
         pc \in Nat, length \in Nat, (pc + 1) % (2 * MemWords) = pc + 1
  PROVE  \/ ~running' /\ out_enable' = {} /\ out_value' = out_value /\ MayEnd(instruction)
         \/ running' /\ Does(instruction)
<1> USE DEF Runs, Is
<1>1. issue
  BY StepsAreLate DEF issue, Executing
<1>2. CASE ~running'
  <2>1. (Reject /\ FailClosed) \/ Halt
    <3>1. ~Delay /\ ~PastEnd /\ ~Halted
      BY DEF Delay, PastEnd, Halted
    <3>2. ~UNCHANGED statusVars
      BY <1>2 DEF statusVars
    <3>3. ~(Drive \/ Patch \/ Wait \/ Jump \/ Branch \/ Sample \/ Load \/ Out \/ In \/ Djnz)
      BY <3>2 DEF Drive, Patch, Wait, Jump, Branch, Sample, Load, Out, In, Djnz
    <3>4. ~(CheckTx \/ Stream \/ PullReady \/ PushReady \/ Stall \/ ByteLoop \/ LastByte
            \/ Capture)
      BY <3>2 DEF CheckTx, Stream, PullReady, PushReady, Stall, ByteLoop, LastByte, Capture
    <3> QED
      BY <3>1, <3>3, <3>4 DEF Steps, Reject
  <2>2. out_enable' = {} /\ out_value' = out_value
    BY <2>1 DEF FailClosed, Halt
  <2>3. Reject => MayEnd(instruction)
    BY DEF Reject, Rejected, BadLane, TimesOut, Conflicts, NotStreaming, LoopExhausted,
       MayEnd, SerialOps
  <2>4. Halt => MayEnd(instruction)
    BY DEF Halt, MayEnd
  <2> QED
    BY <1>2, <2>1, <2>2, <2>3, <2>4
<1>3. CASE running'
  <2>1. \/ Drive \/ Patch \/ Out \/ In \/ Djnz \/ Stream \/ Load \/ PullReady \/ PushReady
        \/ Stall \/ ByteLoop
    BY <1>1, <1>3 DEF Steps, Delay, PastEnd, Reject, FailClosed, Wait, Jump, Branch, Sample,
       CheckTx, LastByte, Capture, Halt, Halted, SerialOps
  <2> SUFFICES Does(instruction)
    BY <1>3
  <2> USE DEF Does, PinsStay, pinVars, shiftVars, Advance, Goto
  <2>2. CASE Drive BY <2>2 DEF Drive, HoldClocks
  <2>3. CASE Patch BY <2>3 DEF Patch, HoldClocks
  <2>4. CASE Out
    <3>1. /\ instruction.op = "OUT" /\ loop_count' = loop_count /\ pc' = pc + 1
          /\ delay_left' = 0
      BY <2>4 DEF Out
    <3>2. out_value' \in {out_value \cup {instruction.lane}, out_value \ {instruction.lane}}
      BY <2>4 DEF Out
    <3>3. ~instruction.drain => out_enable' = out_enable \cup {instruction.lane}
      BY <2>4 DEF Out
    <3> QED
      BY <3>1, <3>2, <3>3
  <2>5. CASE In BY <2>5 DEF In
  <2>6. CASE Djnz BY <2>6 DEF Djnz
  <2>7. CASE Stream BY <2>7 DEF Stream
  <2>8. CASE Load BY <2>8 DEF Load
  <2>9. CASE PullReady BY <2>9 DEF PullReady
  <2>10. CASE PushReady BY <2>10 DEF PushReady
  <2>11. CASE Stall BY <2>11 DEF Stall
  <2>12. CASE ByteLoop BY <2>12 DEF ByteLoop
  <2> QED
    BY <2>1, <2>2, <2>3, <2>4, <2>5, <2>6, <2>7, <2>8, <2>9, <2>10, <2>11, <2>12
<1> QED
  BY <1>2, <1>3

\* A clock of the run: the delay counts, or the word at this address acts.
LEMMA RunClock ==
  ASSUME OnBench, NEW lanes, BenchClock(lanes), running, pc \in 0 .. Len(job.program) - 1,
         job.program[pc + 1].op \in SerialOps
  PROVE  /\ delay_left # 0 => /\ running' /\ PinsStay /\ delay_left' = delay_left - 1
                              /\ pc' = pc /\ loop_count' = loop_count
         /\ delay_left = 0 =>
              LET w == job.program[pc + 1]
              IN  \/ ~running' /\ out_enable' = {} /\ out_value' = out_value /\ MayEnd(w)
                  \/ running' /\ Does(w)
<1>1. run_prev /\ run /\ Steps
  BY BenchPins, ThreeClocks DEF OnBench, InStore, RunOnly, Stopped, Start
<1>2. /\ instruction = job.program[pc + 1] /\ pc < length /\ pc \in Nat /\ length \in Nat
      /\ (pc + 1) % (2 * MemWords) = pc + 1
  BY BenchFetch
<1>3. delay_left # 0 => /\ running' = running /\ PinsStay /\ delay_left' = delay_left - 1
                        /\ pc' = pc /\ loop_count' = loop_count
  BY <1>1, DelayClock DEF Delay, PinsStay, statusVars, pinVars, shiftVars
<1> QED
  BY <1>1, <1>2, <1>3, WordClock

(***************************************************************************)
(* UART: the words of the two transmitters.                                *)
(***************************************************************************)
Drives(w, value, cycles) ==
  w.op = "DRIVE" /\ w.value = value /\ w.oe = {0} /\ w.hold = cycles - 1

LEMMA TxStreamWords ==
  ASSUME NEW count, NEW b, NEW p, p = F!uart_tx_stream(count, b)
  PROVE  /\ Len(p) = 10
         /\ p[1].op = "STREAM" /\ Drives(p[2], {0}, b)
         /\ p[3].op = "PULL" /\ Drives(p[4], {}, b)
         /\ p[5].op = "OUT" /\ p[5].lane = 0 /\ ~p[5].drain
         /\ p[6].op = "PATCH" /\ p[6].mask = {} /\ p[6].hold = b - 2 - 1
         /\ p[7].op = "DJNZ" /\ p[7].target = 4
         /\ Drives(p[8], {0}, b)
         /\ p[9].op = "BYTE_LOOP" /\ p[9].target = 2 /\ p[10].op = "HALT"
BY DEF F!uart_tx_stream, F!stream, F!drive, F!PULL, F!Word, F!shift_out, F!hold, F!patch,
   F!djnz, F!byte_loop, F!HALT, Drives

LEMMA FunctionIsSequence ==
  ASSUME NEW n \in Nat, NEW S, NEW f \in [1 .. n -> S]
  PROVE  f \in Seq(S) /\ Len(f) = n
<1>1. f \in Seq(S)
  BY SeqDef
<1>2. DOMAIN f = 1 .. n /\ DOMAIN f = 1 .. Len(f) /\ Len(f) \in Nat
  BY <1>1, LenProperties
<1> QED
  BY <1>1, <1>2

LEMMA Joined ==
  ASSUME NEW S, NEW s \in Seq(S), NEW t \in Seq(S), NEW u, u = s \o t
  PROVE  /\ u \in Seq(S) /\ Len(u) = Len(s) + Len(t)
         /\ \A i \in 1 .. Len(s) : u[i] = s[i]
         /\ \A i \in 1 .. Len(t) : u[Len(s) + i] = t[i]
<1>1. u \in Seq(S) /\ Len(u) = Len(s) + Len(t) /\ Len(s) \in Nat /\ Len(t) \in Nat
  BY ConcatProperties, LenProperties
<1>2. \A i \in 1 .. Len(s) + Len(t) : u[i] = IF i <= Len(s) THEN s[i] ELSE t[i - Len(s)]
  BY ConcatProperties
<1> QED
  BY <1>1, <1>2

\* An idle bit, the start bit, eight bits, the stop bit.
LEMMA TxWords ==
  ASSUME NEW byte, NEW b, NEW p, p = F!uart_tx(byte, b)
  PROVE  /\ Len(p) = 12 /\ p[12].op = "HALT"
         /\ Drives(p[1], {0}, b) /\ Drives(p[2], {}, b) /\ Drives(p[11], {0}, b)
         /\ \A i \in 1 .. 11 : p[i].op = "DRIVE" /\ p[i].oe = {0} /\ p[i].hold = b - 1
<1> DEFINE bits == [i \in 1 .. 8 |-> F!BitOf(byte, i - 1)]
           S == {bits[i] : i \in 1 .. 8} \cup {0, 1}
           levels == <<1, 0>> \o bits \o <<1>>
           words == [i \in 1 .. Len(levels) |-> F!drive(F!On(0, levels[i]), {0}, b)]
           W == {words[i] : i \in 1 .. Len(levels)} \cup {F!HALT}
<1>1. bits \in [1 .. 8 -> S] /\ <<1, 0>> \in [1 .. 2 -> S] /\ <<1>> \in [1 .. 1 -> S]
  OBVIOUS
<1> HIDE DEF bits, S
<1>2. /\ bits \in Seq(S) /\ Len(bits) = 8 /\ <<1, 0>> \in Seq(S) /\ Len(<<1, 0>>) = 2
      /\ <<1>> \in Seq(S) /\ Len(<<1>>) = 1
  BY <1>1, FunctionIsSequence
<1>3. levels \in Seq(S) /\ Len(levels) = 11 /\ levels[1] = 1 /\ levels[2] = 0
      /\ levels[11] = 1
  <2> DEFINE idle == <<1, 0>>
             stop == <<1>>
             front == idle \o bits
  <2>0. idle[1] = 1 /\ idle[2] = 0 /\ stop[1] = 1
    OBVIOUS
  <2>4. levels = front \o stop
    OBVIOUS
  <2>5. /\ idle \in Seq(S) /\ Len(idle) = 2 /\ stop \in Seq(S) /\ Len(stop) = 1
    BY <1>2
  <2> HIDE DEF idle, stop
  <2>1. front = idle \o bits
    OBVIOUS
  <2> HIDE DEF front, levels
  <2>2. front \in Seq(S) /\ Len(front) = 2 + 8 /\ \A i \in 1 .. 2 : front[i] = idle[i]
    <3>1. idle \in Seq(S) /\ bits \in Seq(S)
      BY <1>2, <2>5
    <3>2. front \in Seq(S)
      BY <2>1, <3>1, Joined
    <3>3. Len(front) = Len(idle) + Len(bits)
      BY <2>1, <3>1, Joined
    <3>4. \A i \in 1 .. Len(idle) : front[i] = idle[i]
      BY <2>1, <3>1, Joined
    <3>5. \A i \in 1 .. Len(bits) : front[Len(idle) + i] = bits[i]
      BY <2>1, <3>1, Joined
    <3> QED
      BY <1>2, <2>5, <3>2, <3>3, <3>4, <3>5
  <2>3. /\ levels \in Seq(S) /\ Len(levels) = 10 + 1
        /\ \A i \in 1 .. 10 : levels[i] = front[i]
        /\ \A i \in 1 .. 1 : levels[10 + i] = stop[i]
    <3>1. front \in Seq(S) /\ stop \in Seq(S)
      BY <2>2, <2>5
    <3>2. levels \in Seq(S)
      BY <2>4, <3>1, Joined
    <3>3. Len(levels) = Len(front) + Len(stop)
      BY <2>4, <3>1, Joined
    <3>4. \A i \in 1 .. Len(front) : levels[i] = front[i]
      BY <2>4, <3>1, Joined
    <3>5. \A i \in 1 .. Len(stop) : levels[Len(front) + i] = stop[i]
      BY <2>4, <3>1, Joined
    <3> QED
      BY <2>2, <2>5, <3>2, <3>3, <3>4, <3>5
  <2> QED
    BY <2>0, <2>2, <2>3
<1> HIDE DEF levels
<1>4. words \in Seq(W) /\ Len(words) = 11 /\ <<F!HALT>> \in Seq(W) /\ Len(<<F!HALT>>) = 1
  <2>1. words \in [1 .. 11 -> W] /\ <<F!HALT>> \in [1 .. 1 -> W]
    BY <1>3
  <2> HIDE DEF words, W
  <2> QED
    BY <2>1, FunctionIsSequence
<1>5. \A i \in 1 .. 11 : words[i] = F!drive(F!On(0, levels[i]), {0}, b)
  BY <1>3
<1> HIDE DEF words, W
<1>6. p = words \o <<F!HALT>>
  BY DEF F!uart_tx, words, levels, bits
<1>7. Len(p) = 12 /\ p[12] = F!HALT /\ \A i \in 1 .. 11 : p[i] = words[i]
  <2> DEFINE last == <<F!HALT>>
  <2>0. p = words \o last
    BY <1>6
  <2>1. last[1] = F!HALT /\ last \in Seq(W) /\ Len(last) = 1
    BY <1>4
  <2> HIDE DEF last
  <2>2. Len(p) = 12 /\ p[12] = last[1] /\ \A i \in 1 .. 11 : p[i] = words[i]
    <3>1. words \in Seq(W) /\ last \in Seq(W)
      BY <1>4, <2>1
    <3>2. p \in Seq(W)
      BY <2>0, <3>1, Joined
    <3>3. Len(p) = Len(words) + Len(last)
      BY <2>0, <3>1, Joined
    <3>4. \A i \in 1 .. Len(words) : p[i] = words[i]
      BY <2>0, <3>1, Joined
    <3>5. \A i \in 1 .. Len(last) : p[Len(words) + i] = last[i]
      BY <2>0, <3>1, Joined
    <3> QED
      BY <1>4, <2>1, <3>2, <3>3, <3>4, <3>5
  <2> QED
    BY <2>1, <2>2
<1> QED
  BY <1>3, <1>5, <1>7 DEF F!HALT, F!Word, F!drive, F!On, Drives

(***************************************************************************)
(* UART: where in its frame a transmitter is, b clocks to a bit.           *)
(***************************************************************************)
\* The line is what the pins make it.
Shows == level = IF 0 \in out_enable /\ 0 \notin out_value THEN 0 ELSE 1

Resting == since = None /\ level = 1

\* k is the number of the bit that is on the line or due next.
TxStreamPlace(b) ==
  \/ pc \in {0, 1} /\ delay_left = 0 /\ Resting
  \/ pc = 2 /\ delay_left \in Nat /\ Resting
  \/ pc = 3 /\ delay_left = 0 /\ Resting /\ loop_count = 8
  \/ \E k \in 1 .. 8 :
       /\ loop_count = 9 - k /\ since \in Nat
       /\ \/ pc = 4 /\ delay_left \in Nat /\ since + delay_left + 1 = k * b
          \/ pc = 5 /\ delay_left = 0 /\ since = k * b
          \/ pc = 6 /\ delay_left \in Nat /\ since + delay_left + 2 = (k + 1) * b
  \/ pc = 7 /\ delay_left = 0 /\ since \in Nat /\ since + 1 = 9 * b
  \/ pc = 8 /\ delay_left \in Nat /\ since \in Nat /\ since + delay_left + 1 = 10 * b
            /\ level = 1
  \/ pc = 9 /\ delay_left = 0 /\ Resting

TxPlace(b) ==
  \/ pc = 0 /\ delay_left = 0 /\ Resting
  \/ pc = 1 /\ delay_left \in Nat /\ Resting
  \/ /\ pc \in 2 .. 11 /\ delay_left \in Nat /\ since \in Nat
     /\ since + delay_left + 1 = (pc - 1) * b
     /\ pc = 11 => level = 1

\* The running program is at a place of its own.
TxAt(b) ==
  \/ b - 3 \in Nat /\ TxStreamPlace(b) /\ \E count \in Byte : job.program = F!uart_tx_stream(count, b)
  \/ TxPlace(b) /\ \E byte \in Byte : job.program = F!uart_tx(byte, b)

Lasts(b) == b = job.bit

TxInv ==
  /\ Shows
  /\ ~running => out_enable = {} /\ Resting
  /\ running => \E b \in Nat \ {0} : Lasts(b) /\ TxAt(b)

\* Within a frame the line moves at the ends of the bits.
Bits(k, b) == k * b
OnBit(b) == since # None /\ level' # level => \E k \in Nat : since + 1 = Bits(k, b)

LEMMA ModMultiple ==
  ASSUME NEW b \in Nat \ {0}, NEW k \in Nat, NEW x, x = k * b
  PROVE  x % b = 0
<1> DEFINE q == x \div b
           r == x % b
<1>1. x \in Nat /\ q \in Int /\ r \in Int /\ 0 <= r /\ r < b /\ x = b * q + r
  OBVIOUS
<1>2. r = b * (k - q)
  BY <1>1
<1>3. CASE k - q >= 1
  BY <1>1, <1>2, <1>3
<1>4. CASE k - q <= -1
  BY <1>1, <1>2, <1>4
<1>5. CASE k - q = 0
  BY <1>1, <1>2, <1>5
<1> QED
  BY <1>1, <1>3, <1>4, <1>5

LEMMA Multiples ==
  ASSUME NEW b \in Nat \ {0}, NEW k \in 1 .. 9
  PROVE  /\ k * b \in Nat /\ k * b <= 9 * b /\ k * b < 10 * b /\ b <= k * b
         /\ (k + 1) * b = k * b + b
<1>1. k \in {1, 2, 3, 4, 5, 6, 7, 8, 9}
  OBVIOUS
<1> QED
  BY <1>1

LEMMA LineFollows ==
  ASSUME Listen
  PROVE  /\ Shows' /\ level' \in {0, 1}
         /\ since' = IF since = None \/ since = 10 * job.bit - 1
                     THEN (IF level' = 0 /\ level = 1 THEN 0 ELSE None) ELSE since + 1
BY DEF Listen, Shows

LEMMA LineSteady ==
  ASSUME Listen, Shows, PinsStay
  PROVE  /\ level' = level
         /\ since' = IF since = None \/ since = 10 * job.bit - 1 THEN None ELSE since + 1
<1>1. level' = level
  BY DEF Listen, Shows, PinsStay
<1> QED
  BY <1>1, LineFollows

\* What one clock of a transmitter has to keep.
TxNext(b, Place) ==
  /\ ~running' => out_enable' = {} /\ Resting'
  /\ running' => Place
  /\ OnBit(b)

\* The clocks of a hold, at any address of the program.
LEMMA TxStreamHolds ==
  ASSUME NEW b \in Nat \ {0}, b = job.bit, Shows, TxStreamPlace(b), Listen, running', PinsStay,
         delay_left # 0, delay_left' = delay_left - 1, pc' = pc, loop_count' = loop_count
  PROVE  TxStreamPlace(b)' /\ OnBit(b)
<1>0. b \in Nat \ {0}
  BY ONLY b \in Nat \ {0}
<1>1. /\ level' = level
      /\ since' = IF since = None \/ since = 10 * b - 1 THEN None ELSE since + 1
  BY LineSteady
<1>2. OnBit(b)
  BY <1>1 DEF OnBit
<1>3. CASE pc = 2
  <2>1. delay_left \in Nat /\ Resting
    BY <1>3 DEF TxStreamPlace
  <2> QED
    BY <1>1, <1>2, <1>3, <2>1 DEF TxStreamPlace, Resting
<1>4. CASE pc = 4
  <2>1. PICK k \in 1 .. 8 : /\ loop_count = 9 - k /\ since \in Nat
                            /\ delay_left \in Nat /\ since + delay_left + 1 = k * b
    BY <1>4 DEF TxStreamPlace
  <2>2. k * b < 10 * b /\ k * b \in Nat
    <3>1. k \in 1 .. 9
      BY <2>1
    <3> QED
      BY ONLY <1>0, <3>1, Multiples
  <2>3. since' = since + 1
    BY <1>1, <2>1, <2>2 DEF None
  <2>4. since' \in Nat /\ delay_left' \in Nat /\ since' + delay_left' + 1 = k * b
    BY <2>1, <2>3
  <2> QED
    BY <1>2, <1>4, <2>1, <2>4 DEF TxStreamPlace
<1>5. CASE pc = 6
  <2>1. PICK k \in 1 .. 8 : /\ loop_count = 9 - k /\ since \in Nat
                            /\ delay_left \in Nat /\ since + delay_left + 2 = (k + 1) * b
    BY <1>5 DEF TxStreamPlace
  <2>2. (k + 1) * b < 10 * b /\ (k + 1) * b \in Nat
    <3>1. k \in 1 .. 8
      BY <2>1
    <3>2. k + 1 \in 1 .. 9
      BY ONLY <3>1
    <3> QED
      BY ONLY <1>0, <3>2, Multiples
  <2>3. since' = since + 1
    BY <1>1, <2>1, <2>2 DEF None
  <2>4. since' \in Nat /\ delay_left' \in Nat /\ since' + delay_left' + 2 = (k + 1) * b
    BY <2>1, <2>3
  <2> QED
    BY <1>2, <1>5, <2>1, <2>4 DEF TxStreamPlace
<1>6. CASE pc = 8
  <2>1. /\ delay_left \in Nat /\ since \in Nat /\ since + delay_left + 1 = 10 * b
        /\ level = 1
    BY <1>6 DEF TxStreamPlace
  <2>2. since' = since + 1
    BY <1>1, <2>1 DEF None
  <2>3. since' \in Nat /\ delay_left' \in Nat /\ since' + delay_left' + 1 = 10 * b
    BY <2>1, <2>2
  <2> QED
    BY <1>1, <1>2, <1>6, <2>1, <2>3 DEF TxStreamPlace
<1> QED
  BY <1>3, <1>4, <1>5, <1>6 DEF TxStreamPlace

\* A program ends, or a transmitter starts to drive, only with the line high.
Ends(w) == ~running' /\ out_enable' = {} /\ out_value' = out_value /\ MayEnd(w)

LEMMA EndsHigh ==
  ASSUME Listen, Shows, level = 1, since = None \/ since = 10 * job.bit - 1,
         \/ out_enable' = {} /\ out_value' = out_value
         \/ PinsStay
         \/ out_enable' = {0} /\ out_value' = {0}
  PROVE  Resting' /\ level' = level
<1>1. level' = 1
  BY DEF Listen, Shows, PinsStay
<1> QED
  BY <1>1, LineFollows DEF Resting

\* The clock on which the word at this address acts.
LEMMA TxStreamActs ==
  ASSUME NEW b \in Nat \ {0}, b - 3 \in Nat, b = job.bit, Shows, TxStreamPlace(b), Listen,
         delay_left = 0,
         NEW count, NEW p, p = F!uart_tx_stream(count, b),
         Ends(p[pc + 1]) \/ (running' /\ Does(p[pc + 1]))
  PROVE  TxNext(b, TxStreamPlace(b)')
<1>0. b \in Nat \ {0}
  BY ONLY b \in Nat \ {0}
<1>b. b \in Nat /\ b - 1 \in Nat /\ b - 3 \in Nat
  BY ONLY b \in Nat \ {0}, b - 3 \in Nat
<1>w. /\ p[1].op = "STREAM" /\ Drives(p[2], {0}, b)
      /\ p[3].op = "PULL" /\ Drives(p[4], {}, b)
      /\ p[5].op = "OUT" /\ p[5].lane = 0 /\ ~p[5].drain
      /\ p[6].op = "PATCH" /\ p[6].mask = {} /\ p[6].hold = b - 2 - 1
      /\ p[7].op = "DJNZ" /\ p[7].target = 4
      /\ Drives(p[8], {0}, b)
      /\ p[9].op = "BYTE_LOOP" /\ p[9].target = 2 /\ p[10].op = "HALT"
  BY TxStreamWords
<1>1. CASE pc = 0
  <2>1. p[pc + 1].op = "STREAM"
    BY <1>1, <1>w
  <2>2. Ends(p[pc + 1]) \/ (running' /\ PinsStay /\ delay_left' = 0 /\ pc' = 1)
    BY <1>1, <2>1 DEF Does
  <2>3. Resting
    BY <1>1 DEF TxStreamPlace
  <2>4. Resting' /\ level' = level /\ (Ends(p[pc + 1]) => out_enable' = {} /\ ~running')
    BY <2>2, <2>3, EndsHigh DEF Ends, Resting
  <2> QED
    BY <2>2, <2>4 DEF TxNext, TxStreamPlace, OnBit
<1>2. CASE pc = 1
  <2>1. Drives(p[pc + 1], {0}, b)
    BY <1>2, <1>w
  <2>2. /\ running' /\ delay_left' = b - 1 /\ pc' = 2
        /\ out_enable' = {0} /\ out_value' = {0}
    BY <1>2, <2>1 DEF Does, Ends, MayEnd, Drives
  <2>3. Resting
    BY <1>2 DEF TxStreamPlace
  <2>4. Resting' /\ level' = level
    BY <2>2, <2>3, EndsHigh DEF Resting
  <2>5. delay_left' \in Nat
    BY <1>0, <2>2
  <2> QED
    BY <2>2, <2>4, <2>5 DEF TxNext, TxStreamPlace, OnBit
<1>3. CASE pc = 2
  <2>1. p[pc + 1].op = "PULL"
    BY <1>3, <1>w
  <2>2. \/ Ends(p[pc + 1])
        \/ /\ running' /\ PinsStay /\ delay_left' = 0
           /\ pc' = 2 \/ (pc' = 3 /\ loop_count' = 8)
    BY <1>3, <2>1 DEF Does
  <2>3. Resting
    BY <1>3 DEF TxStreamPlace
  <2>4. Resting' /\ level' = level /\ (Ends(p[pc + 1]) => out_enable' = {} /\ ~running')
    BY <2>2, <2>3, EndsHigh DEF Ends, Resting
  <2> QED
    BY <2>2, <2>4 DEF TxNext, TxStreamPlace, OnBit
<1>4. CASE pc = 3
  <2>1. Drives(p[pc + 1], {}, b)
    BY <1>4, <1>w
  <2>2. /\ running' /\ delay_left' = b - 1 /\ pc' = 4 /\ loop_count' = loop_count
        /\ out_enable' = {0} /\ out_value' = {}
    BY <1>4, <2>1 DEF Does, Ends, MayEnd, Drives
  <2>3. Resting /\ loop_count = 9 - 1
    BY <1>4 DEF TxStreamPlace
  <2>4. since' = 0
    BY <2>2, <2>3 DEF Listen, Resting, None
  <2>5. delay_left' \in Nat /\ since' \in Nat /\ since' + delay_left' + 1 = 1 * b
    <3>1. 0 + (b - 1) + 1 = 1 * b
      BY ONLY <1>b
    <3> QED
      BY <1>b, <2>2, <2>4, <3>1
  <2>6. loop_count' = 9 - 1 /\ 1 \in 1 .. 8
    BY <2>2, <2>3
  <2>7. TxStreamPlace(b)'
    BY <2>2, <2>5, <2>6 DEF TxStreamPlace
  <2>8. OnBit(b)
    BY <2>3 DEF OnBit, Resting
  <2> QED
    BY <2>2, <2>7, <2>8 DEF TxNext
<1>5. CASE pc = 4
  <2>1. PICK k \in 1 .. 8 : loop_count = 9 - k /\ since \in Nat /\ since + 1 = k * b
    BY <1>5 DEF TxStreamPlace
  <2>2. k \in 1 .. 9
    BY <2>1
  <2>3. k * b < 10 * b /\ k * b \in Nat
    BY ONLY <1>0, <2>2, Multiples
  <2>4. p[pc + 1].op = "OUT" /\ p[pc + 1].lane \in Lanes
    BY <1>5, <1>w DEF Lanes
  <2>5. running' /\ delay_left' = 0 /\ loop_count' = loop_count /\ pc' = 5
    BY <1>5, <2>4 DEF Does, Ends, MayEnd
  <2>6. since' = k * b
    BY <2>1, <2>3, LineFollows DEF None
  <2>7. TxStreamPlace(b)'
    BY <2>1, <2>3, <2>5, <2>6 DEF TxStreamPlace
  <2>8. OnBit(b)
    <3>1. k \in Nat
      BY ONLY <2>2
    <3>2. since + 1 = Bits(k, b)
      BY <2>1 DEF Bits
    <3> QED
      BY <3>1, <3>2 DEF OnBit
  <2> QED
    BY <2>5, <2>7, <2>8 DEF TxNext
<1>6. CASE pc = 5
  <2>1. PICK k \in 1 .. 8 : loop_count = 9 - k /\ since = k * b /\ since \in Nat
    BY <1>6 DEF TxStreamPlace
  <2>2. k \in 1 .. 9
    BY <2>1
  <2>3. k * b <= 9 * b /\ k * b \in Nat /\ (k + 1) * b = k * b + b
    BY ONLY <1>0, <2>2, Multiples
  <2>4. p[pc + 1].op = "PATCH" /\ p[pc + 1].mask = {} /\ p[pc + 1].hold = b - 3
    BY <1>0, <1>6, <1>w
  <2>5. /\ running' /\ delay_left' = b - 3 /\ loop_count' = loop_count /\ pc' = 6
        /\ PinsStay
    <3>1. running' /\ Does(p[pc + 1])
      BY <2>4 DEF Ends, MayEnd
    <3>2. /\ delay_left' = b - 3 /\ loop_count' = loop_count /\ pc' = 6
          /\ out_value' = (out_value \ {}) \cup (p[pc + 1].value \cap {})
          /\ out_enable' = (out_enable \ {}) \cup (p[pc + 1].oe \cap {})
      BY <1>6, <2>4, <3>1 DEF Does
    <3> QED
      BY <3>1, <3>2 DEF PinsStay
  <2>6. since # 10 * b - 1 /\ since # None
    BY <1>0, <2>1, <2>3 DEF None
  <2>7. since' = since + 1 /\ level' = level
    BY <2>5, <2>6, LineSteady
  <2>8. since' \in Nat /\ delay_left' \in Nat /\ since' + delay_left' + 2 = (k + 1) * b
    <3>1. delay_left' \in Nat
      BY <1>b, <2>5
    <3>2. since' = k * b + 1 /\ delay_left' = b - 3
      BY <2>1, <2>5, <2>7
    <3>3. since' \in Nat
      BY <2>1, <2>7
    <3>4. since' + delay_left' + 2 = k * b + b
      BY ONLY <1>b, <2>3, <3>2
    <3> QED
      BY <2>3, <3>1, <3>3, <3>4
  <2>9. TxStreamPlace(b)'
    BY <2>1, <2>5, <2>8 DEF TxStreamPlace
  <2> QED
    BY <2>5, <2>7, <2>9 DEF TxNext, OnBit
<1>7. CASE pc = 6
  <2>1. PICK k \in 1 .. 8 : loop_count = 9 - k /\ since \in Nat /\ since + 2 = (k + 1) * b
    BY <1>7 DEF TxStreamPlace
  <2>2. k + 1 \in 1 .. 9
    <3>1. k \in 1 .. 8
      BY <2>1
    <3> QED
      BY ONLY <3>1
  <2>3. (k + 1) * b <= 9 * b /\ (k + 1) * b \in Nat
    BY ONLY <1>0, <2>2, Multiples
  <2>4. p[pc + 1].op = "DJNZ" /\ p[pc + 1].target = 4 /\ loop_count # 0
    BY <1>7, <1>w, <2>1
  <2>5. /\ running' /\ PinsStay /\ delay_left' = 0 /\ loop_count' = loop_count - 1
        /\ pc' = IF loop_count = 1 THEN 7 ELSE 4
    BY <1>7, <2>4 DEF Does, Ends, MayEnd
  <2>6. since # 10 * b - 1 /\ since # None
    BY <1>0, <2>1, <2>3 DEF None
  <2>7. since' = since + 1 /\ level' = level
    BY <2>5, <2>6, LineSteady
  <2>8. since' \in Nat /\ since' + 1 = (k + 1) * b /\ loop_count' = 9 - (k + 1)
    BY <2>1, <2>3, <2>5, <2>7
  <2>9. TxStreamPlace(b)'
    <3>1. CASE k = 8
      <4>1. pc' = 7 /\ delay_left' = 0
        BY <2>1, <2>5, <3>1
      <4>2. since' \in Nat /\ since' + 1 = 9 * b
        BY <2>8, <3>1
      <4> QED
        BY <4>1, <4>2 DEF TxStreamPlace
    <3>2. CASE k # 8
      <4>1. pc' = 4 /\ delay_left' = 0
        BY <2>1, <2>5, <3>2
      <4>2. k + 1 \in 1 .. 8
        BY <2>1, <3>2
      <4>3. since' + delay_left' + 1 = (k + 1) * b
        BY <2>8, <4>1
      <4> QED
        BY <2>8, <4>1, <4>2, <4>3 DEF TxStreamPlace
    <3> QED
      BY <3>1, <3>2
  <2> QED
    BY <2>5, <2>7, <2>9 DEF TxNext, OnBit
<1>8. CASE pc = 7
  <2>1. since \in Nat /\ since + 1 = 9 * b
    BY <1>8 DEF TxStreamPlace
  <2>2. 9 \in Nat
    OBVIOUS
  <2>3. Drives(p[pc + 1], {0}, b)
    BY <1>8, <1>w
  <2>4. /\ running' /\ delay_left' = b - 1 /\ pc' = 8
        /\ out_enable' = {0} /\ out_value' = {0}
    BY <1>8, <2>3 DEF Does, Ends, MayEnd, Drives
  <2>5. level' = 1
    BY <2>4 DEF Listen
  <2>6. since' = since + 1
    <3>1. since # 10 * b - 1 /\ since # None
      BY <1>0, <2>1 DEF None
    <3> QED
      BY <3>1, LineFollows
  <2>7. delay_left' \in Nat /\ since' \in Nat /\ since' + delay_left' + 1 = 10 * b
    BY <1>b, <2>1, <2>4, <2>6
  <2>8. TxStreamPlace(b)'
    BY <2>4, <2>5, <2>7 DEF TxStreamPlace
  <2>9. OnBit(b)
    <3>1. since + 1 = Bits(9, b)
      BY <2>1 DEF Bits
    <3> QED
      BY <2>2, <3>1 DEF OnBit
  <2> QED
    BY <2>4, <2>8, <2>9 DEF TxNext
<1>9. CASE pc = 8
  <2>1. level = 1 /\ since = 10 * b - 1
    <3>1. since \in Nat /\ since + 0 + 1 = 10 * b /\ level = 1
      BY <1>9 DEF TxStreamPlace
    <3> QED
      BY ONLY <1>b, <3>1
  <2>2. p[pc + 1].op = "BYTE_LOOP" /\ p[pc + 1].target = 2
    BY <1>9, <1>w
  <2>3. Ends(p[pc + 1]) \/ (running' /\ PinsStay /\ delay_left' = 0 /\ pc' \in {2, 9})
    BY <1>9, <2>2 DEF Does
  <2>4. Resting' /\ level' = level /\ (Ends(p[pc + 1]) => out_enable' = {} /\ ~running')
    BY <2>1, <2>3, EndsHigh DEF Ends
  <2> QED
    BY <2>3, <2>4 DEF TxNext, TxStreamPlace, OnBit
<1>10. CASE pc = 9
  <2>1. p[pc + 1].op = "HALT"
    BY <1>10, <1>w
  <2>2. Ends(p[pc + 1])
    BY <2>1 DEF Does
  <2>3. Resting
    BY <1>10 DEF TxStreamPlace
  <2>4. Resting' /\ level' = level /\ out_enable' = {} /\ ~running'
    BY <2>2, <2>3, EndsHigh DEF Ends, Resting
  <2> QED
    BY <2>4 DEF TxNext, OnBit
<1> QED
  BY <1>1, <1>2, <1>3, <1>4, <1>5, <1>6, <1>7, <1>8, <1>9, <1>10 DEF TxStreamPlace

\* The same for the program that spells out one frame.
LEMMA TxHolds ==
  ASSUME NEW b \in Nat \ {0}, b = job.bit, Shows, TxPlace(b), Listen, running', PinsStay,
         delay_left # 0, delay_left' = delay_left - 1, pc' = pc
  PROVE  TxPlace(b)' /\ OnBit(b)
<1>0. b \in Nat \ {0}
  BY ONLY b \in Nat \ {0}
<1>1. /\ level' = level
      /\ since' = IF since = None \/ since = 10 * b - 1 THEN None ELSE since + 1
  BY LineSteady
<1>2. OnBit(b)
  BY <1>1 DEF OnBit
<1>3. CASE pc = 1
  <2>1. delay_left \in Nat /\ Resting
    BY <1>3 DEF TxPlace
  <2> QED
    BY <1>1, <1>2, <1>3, <2>1 DEF TxPlace, Resting
<1>4. CASE pc \in 2 .. 11
  <2> DEFINE k == pc - 1
  <2>0. k \in 1 .. 10
    BY ONLY <1>4
  <2>1. since \in Nat /\ delay_left \in Nat /\ since + delay_left + 1 = k * b
    BY <1>4 DEF TxPlace
  <2>2. k * b <= 10 * b /\ k * b \in Nat
    <3>1. k \in 1 .. 9 \/ k = 10
      BY ONLY <2>0
    <3>2. CASE k = 10
      BY ONLY <1>0, <3>2
    <3>3. CASE k \in 1 .. 9
      <4>1. k * b < 10 * b /\ k * b \in Nat
        BY ONLY <1>0, <3>3, Multiples
      <4> QED
        BY ONLY <1>0, <4>1
    <3> QED
      BY <3>1, <3>2, <3>3
  <2> HIDE DEF k
  <2>3. since' = since + 1
    <3>1. since < k * b /\ since # None
      BY <2>1, <2>2 DEF None
    <3>2. since # 10 * b - 1
      BY <2>1, <2>2
    <3> QED
      BY <1>1, <3>1, <3>2
  <2>4. since' \in Nat /\ delay_left' \in Nat /\ since' + delay_left' + 1 = k * b
    BY <2>1, <2>2, <2>3
  <2>5. pc = 11 => level = 1
    BY <1>4 DEF TxPlace
  <2>6. since' + delay_left' + 1 = (pc' - 1) * b
    BY <2>4 DEF k
  <2> QED
    BY <1>1, <1>2, <1>4, <2>4, <2>5, <2>6 DEF TxPlace
<1> QED
  BY <1>3, <1>4 DEF TxPlace

LEMMA TxActs ==
  ASSUME NEW b \in Nat \ {0}, b = job.bit, Shows, TxPlace(b), Listen, delay_left = 0,
         NEW byte, NEW p, p = F!uart_tx(byte, b),
         Ends(p[pc + 1]) \/ (running' /\ Does(p[pc + 1]))
  PROVE  TxNext(b, TxPlace(b)')
<1>0. b \in Nat \ {0} /\ b \in Nat /\ b - 1 \in Nat
  BY ONLY b \in Nat \ {0}
<1>w. /\ Drives(p[1], {0}, b) /\ Drives(p[2], {}, b) /\ Drives(p[11], {0}, b)
      /\ p[12].op = "HALT"
      /\ \A i \in 1 .. 11 : p[i].op = "DRIVE" /\ p[i].oe = {0} /\ p[i].hold = b - 1
  BY TxWords
<1>1. CASE pc = 0
  <2>1. Drives(p[pc + 1], {0}, b)
    BY <1>1, <1>w
  <2>2. /\ running' /\ delay_left' = b - 1 /\ pc' = 1
        /\ out_enable' = {0} /\ out_value' = {0}
    BY <1>1, <2>1 DEF Does, Ends, MayEnd, Drives
  <2>3. Resting
    BY <1>1 DEF TxPlace
  <2>4. Resting' /\ level' = level
    BY <2>2, <2>3, EndsHigh DEF Resting
  <2> QED
    BY <1>0, <2>2, <2>4 DEF TxNext, TxPlace, OnBit
<1>2. CASE pc = 1
  <2>1. Drives(p[pc + 1], {}, b)
    BY <1>2, <1>w
  <2>2. /\ running' /\ delay_left' = b - 1 /\ pc' = 2
        /\ out_enable' = {0} /\ out_value' = {}
    BY <1>2, <2>1 DEF Does, Ends, MayEnd, Drives
  <2>3. Resting
    BY <1>2 DEF TxPlace
  <2>4. since' = 0
    BY <2>2, <2>3 DEF Listen, Resting, None
  <2>5. delay_left' \in Nat /\ since' \in Nat /\ since' + delay_left' + 1 = (pc' - 1) * b
    <3>1. 0 + (b - 1) + 1 = (2 - 1) * b
      BY ONLY <1>0
    <3> QED
      BY <1>0, <2>2, <2>4, <3>1
  <2>6. TxPlace(b)'
    BY <2>2, <2>5 DEF TxPlace
  <2>7. OnBit(b)
    BY <2>3 DEF OnBit, Resting
  <2> QED
    BY <2>2, <2>6, <2>7 DEF TxNext
<1>3. CASE pc \in 2 .. 10
  <2> DEFINE k == pc - 1
  <2>0. k \in 1 .. 9 /\ pc = k + 1 /\ pc + 1 \in 1 .. 11
    BY ONLY <1>3
  <2>1. since \in Nat /\ since + 1 = k * b
    <3>1. since \in Nat /\ since + 0 + 1 = (pc - 1) * b
      BY <1>3 DEF TxPlace
    <3> QED
      BY <3>1
  <2>2. k * b < 10 * b /\ k * b \in Nat /\ (k + 1) * b = k * b + b
    BY ONLY <1>0, <2>0, Multiples
  <2>3. /\ p[pc + 1].op = "DRIVE" /\ p[pc + 1].hold = b - 1
        /\ pc = 10 => p[pc + 1].value = {0} /\ p[pc + 1].oe = {0}
    BY <1>w, <2>0 DEF Drives
  <2>4. /\ running' /\ delay_left' = b - 1 /\ pc' = pc + 1
        /\ pc = 10 => out_value' = {0} /\ out_enable' = {0}
    BY <2>3 DEF Does, Ends, MayEnd
  <2> HIDE DEF k
  <2>5. since' = since + 1
    BY <2>1, <2>2, LineFollows DEF None
  <2>6. delay_left' \in Nat /\ since' \in Nat /\ since' + delay_left' + 1 = (pc' - 1) * b
    <3>1. pc' - 1 = k + 1
      BY <2>0, <2>4
    <3>2. since' + delay_left' + 1 = k * b + b
      BY <1>0, <2>1, <2>2, <2>4, <2>5
    <3> QED
      BY <1>0, <2>1, <2>2, <2>4, <2>5, <3>1, <3>2
  <2>7. pc = 10 => level' = 1
    BY <2>4 DEF Listen
  <2>8. TxPlace(b)'
    <3>1. pc' \in 2 .. 11 /\ (pc' = 11 => pc = 10)
      BY <1>3, <2>4
    <3> QED
      BY <2>6, <2>7, <3>1 DEF TxPlace
  <2>9. OnBit(b)
    <3>1. k \in Nat
      BY <2>0
    <3>2. since + 1 = Bits(k, b)
      BY <2>1 DEF Bits
    <3> QED
      BY <3>1, <3>2 DEF OnBit
  <2> QED
    BY <2>4, <2>8, <2>9 DEF TxNext
<1>4. CASE pc = 11
  <2>1. since = 10 * b - 1 /\ level = 1
    <3>1. since \in Nat /\ since + 0 + 1 = (11 - 1) * b /\ level = 1
      BY <1>4 DEF TxPlace
    <3> QED
      BY ONLY <1>0, <3>1
  <2>2. p[pc + 1].op = "HALT"
    BY <1>4, <1>w
  <2>3. Ends(p[pc + 1])
    BY <2>2 DEF Does
  <2>4. Resting' /\ level' = level /\ out_enable' = {} /\ ~running'
    BY <2>1, <2>3, EndsHigh DEF Ends
  <2> QED
    BY <2>4 DEF TxNext, OnBit
<1> QED
  <2>1. pc = 0 \/ pc = 1 \/ pc \in 2 .. 10 \/ pc = 11
    BY DEF TxPlace
  <2> QED
    BY <1>1, <1>2, <1>3, <1>4, <2>1

\* Where the two programs are has a word there, one that RunClock knows.
LEMMA TxStreamInside ==
  ASSUME NEW b, TxStreamPlace(b), NEW count, NEW p, p = F!uart_tx_stream(count, b)
  PROVE  pc \in 0 .. Len(p) - 1 /\ p[pc + 1].op \in SerialOps
<1>1. pc \in 0 .. 9
  BY DEF TxStreamPlace
<1>2. pc \in {0, 1, 2, 3, 4, 5, 6, 7, 8, 9}
  BY <1>1
<1>3. Len(p) = 10
  BY TxStreamWords
<1>4. \A i \in 0 .. 9 : p[i + 1].op \in SerialOps
  <2>1. /\ p[1].op = "STREAM" /\ Drives(p[2], {0}, b) /\ p[3].op = "PULL"
        /\ Drives(p[4], {}, b) /\ p[5].op = "OUT" /\ p[6].op = "PATCH" /\ p[7].op = "DJNZ"
        /\ Drives(p[8], {0}, b) /\ p[9].op = "BYTE_LOOP" /\ p[10].op = "HALT"
    BY TxStreamWords
  <2>2. TAKE i \in 0 .. 9
  <2>3. i + 1 \in {1, 2, 3, 4, 5, 6, 7, 8, 9, 10}
    OBVIOUS
  <2> QED
    BY <2>1, <2>3 DEF SerialOps, Drives
<1> QED
  BY <1>1, <1>3, <1>4

LEMMA TxInside ==
  ASSUME NEW b, TxPlace(b), NEW byte, NEW p, p = F!uart_tx(byte, b)
  PROVE  pc \in 0 .. Len(p) - 1 /\ p[pc + 1].op \in SerialOps
<1>1. pc \in 0 .. 11
  BY DEF TxPlace
<1>2. /\ Len(p) = 12 /\ p[12].op = "HALT"
      /\ \A i \in 1 .. 11 : p[i].op = "DRIVE"
  BY TxWords
<1>3. pc + 1 \in 1 .. 11 \/ pc + 1 = 12
  BY <1>1
<1> QED
  BY <1>1, <1>2, <1>3 DEF SerialOps

(***************************************************************************)
(* One clock of a sending bench.                                           *)
(***************************************************************************)
LEMMA TxStep ==
  ASSUME OnBench, Sending, TxInv, NEW lanes, BenchClock(lanes), Listen
  PROVE  TxInv' /\ \E b \in Nat \ {0} : Lasts(b) /\ OnBit(b)
<1>1. job' = job
  BY BenchPins
<1>2. Shows /\ Shows'
  BY LineFollows DEF TxInv
<1>3. CASE ~running
  <2>1. out_enable = {} /\ Resting
    BY <1>3 DEF TxInv
  <2>2. out_enable' = {} /\ out_value' = out_value /\ (running' => pc' = 0 /\ delay_left' = 0)
    BY <1>3, <2>1, BenchRest
  <2>3. Resting'
    BY <1>2, <2>1, <2>2, EndsHigh DEF Resting
  <2>4. TxStreamCall(job) \/ TxCall(job)
    <3>1. job \in Jobs /\ job.kind = "tx"
      BY DEF OnBench, Sending
    <3> QED
      BY ONLY <3>1, SerialAssumption
  <2>5. PICK b : Lasts(b)
    BY DEF Lasts
  <2>0. Lasts(b)'
    BY <1>1, <2>5 DEF Lasts
  <2>6. running' => TxStreamPlace(b)' /\ TxPlace(b)'
    BY <2>2, <2>3 DEF TxStreamPlace, TxPlace
  <2>9. OnBit(b)
    BY <2>1 DEF OnBit, Resting
  <2>7. CASE TxStreamCall(job)
    <3>1. b \in 4 .. 8192 /\ \E count \in Byte : job'.program = F!uart_tx_stream(count, b)
      BY <1>1, <2>5, <2>7 DEF TxStreamCall, Lasts
    <3>2. b \in Nat \ {0} /\ b - 3 \in Nat
      BY ONLY <3>1
    <3>3. running' => TxAt(b)'
      BY <2>6, <3>1, <3>2 DEF TxAt
    <3> QED
      BY <1>2, <2>0, <2>2, <2>3, <2>5, <2>9, <3>2, <3>3 DEF TxInv
  <2>8. CASE TxCall(job)
    <3>1. b \in 1 .. MaxHold + 1 /\ \E byte \in Byte : job'.program = F!uart_tx(byte, b)
      BY <1>1, <2>5, <2>8 DEF TxCall, Lasts
    <3>2. b \in Nat \ {0}
      BY ONLY <3>1
    <3>3. running' => TxAt(b)'
      BY <2>6, <3>1 DEF TxAt
    <3> QED
      BY <1>2, <2>0, <2>2, <2>3, <2>5, <2>9, <3>2, <3>3 DEF TxInv
  <2> QED
    BY <2>4, <2>7, <2>8
<1>4. CASE running
  <2>1. PICK b \in Nat \ {0} : Lasts(b) /\ TxAt(b)
    BY <1>4 DEF TxInv
  <2>0. Lasts(b)' /\ b = job.bit
    BY <1>1, <2>1 DEF Lasts
  <2>2. PICK p : p = job.program
    OBVIOUS
  <2>3. CASE /\ b - 3 \in Nat /\ TxStreamPlace(b)
             /\ \E count \in Byte : job.program = F!uart_tx_stream(count, b)
    <3>1. PICK count \in Byte : p = F!uart_tx_stream(count, b)
      BY <2>2, <2>3
    <3>2. pc \in 0 .. Len(p) - 1 /\ p[pc + 1].op \in SerialOps
      BY <2>3, <3>1, TxStreamInside
    <3>3. ASSUME delay_left # 0 PROVE TxNext(b, TxStreamPlace(b)')
      <4>1. /\ running' /\ PinsStay /\ delay_left' = delay_left - 1 /\ pc' = pc
            /\ loop_count' = loop_count
        BY <1>4, <2>2, <3>2, <3>3, RunClock
      <4> QED
        BY <1>2, <2>0, <2>1, <2>3, <3>3, <4>1, TxStreamHolds DEF TxNext
    <3>4. ASSUME delay_left = 0 PROVE TxNext(b, TxStreamPlace(b)')
      <4>1. Ends(p[pc + 1]) \/ (running' /\ Does(p[pc + 1]))
        BY <1>4, <2>2, <3>2, <3>4, RunClock DEF Ends
      <4> QED
        BY <1>2, <2>0, <2>1, <2>3, <3>1, <3>4, <4>1, TxStreamActs
    <3>5. TxNext(b, TxStreamPlace(b)')
      BY <3>3, <3>4
    <3>6. TxStreamPlace(b)' => TxAt(b)'
      BY <1>1, <2>3 DEF TxAt
    <3> QED
      BY <1>2, <2>0, <2>1, <3>5, <3>6 DEF TxInv, TxNext
  <2>4. CASE TxPlace(b) /\ \E byte \in Byte : job.program = F!uart_tx(byte, b)
    <3>1. PICK byte \in Byte : p = F!uart_tx(byte, b)
      BY <2>2, <2>4
    <3>2. pc \in 0 .. Len(p) - 1 /\ p[pc + 1].op \in SerialOps
      BY <2>4, <3>1, TxInside
    <3>3. ASSUME delay_left # 0 PROVE TxNext(b, TxPlace(b)')
      <4>1. /\ running' /\ PinsStay /\ delay_left' = delay_left - 1 /\ pc' = pc
        BY <1>4, <2>2, <3>2, <3>3, RunClock
      <4> QED
        BY <1>2, <2>0, <2>1, <2>4, <3>3, <4>1, TxHolds DEF TxNext
    <3>4. ASSUME delay_left = 0 PROVE TxNext(b, TxPlace(b)')
      <4>1. Ends(p[pc + 1]) \/ (running' /\ Does(p[pc + 1]))
        BY <1>4, <2>2, <3>2, <3>4, RunClock DEF Ends
      <4> QED
        BY <1>2, <2>0, <2>1, <2>4, <3>1, <3>4, <4>1, TxActs
    <3>5. TxNext(b, TxPlace(b)')
      BY <3>3, <3>4
    <3>6. TxPlace(b)' => TxAt(b)'
      BY <1>1, <2>4 DEF TxAt
    <3> QED
      BY <1>2, <2>0, <2>1, <3>5, <3>6 DEF TxInv, TxNext
  <2> QED
    BY <2>1, <2>3, <2>4 DEF TxAt
<1> QED
  BY <1>3, <1>4

(***************************************************************************)
(* UART, over whole runs.                                                  *)
(***************************************************************************)
SendingInv == OnBench /\ (Sending => TxInv)

LEMMA SendingStarts == SerialInit => SendingInv
<1> SUFFICES ASSUME SerialInit PROVE SendingInv
  OBVIOUS
<1>1. OnBench /\ BenchInit
  BY BenchStarts DEF SerialInit
<1>2. ~running /\ out_enable = {}
  BY <1>1 DEF BenchInit, Loaded, ResetEngine
<1>3. Sending => level = 1 /\ since = None
  BY DEF SerialInit, LineInit, Sending, SPIJob
<1> QED
  BY <1>1, <1>2, <1>3 DEF SendingInv, TxInv, Shows, Resting

LEMMA SendingStep ==
  ASSUME SendingInv, [SerialClock]_serialVars
  PROVE  /\ SendingInv'
         /\ Sending => \/ \E b \in Nat \ {0} : Lasts(b) /\ OnBit(b)
                       \/ level' = level
<1>1. CASE SerialClock
  <2>1. PICK lanes : BenchClock(lanes)
    BY <1>1 DEF SerialClock, SPIClock, UARTClock
  <2>2. OnBench' /\ job' = job
    BY <2>1, BenchStays, BenchPins DEF SendingInv
  <2>3. CASE Sending
    <3>1. BenchClock(UARTLanes) /\ Listen
      BY <1>1, <2>3 DEF SerialClock, UARTClock, Sending, SPIJob
    <3>2. TxInv' /\ \E b \in Nat \ {0} : Lasts(b) /\ OnBit(b)
      BY <2>3, <3>1, TxStep DEF SendingInv
    <3> QED
      BY <2>2, <3>2 DEF SendingInv
  <2>4. CASE ~Sending
    BY <2>2, <2>4 DEF SendingInv, Sending
  <2> QED
    BY <2>3, <2>4
<1>2. CASE UNCHANGED serialVars
  <2> USE <1>2 DEF serialVars, benchVars, uartVars, vars, syncVars, loaderVars, statusVars, pinVars,
             shiftVars, streamVars
  <2>1. OnBench'
    BY ImageStutters DEF SendingInv, OnBench
  <2>2. job' = job /\ running' = running /\ level' = level
    OBVIOUS
  <2>3. ASSUME Sending PROVE TxInv'
    <3>0. TxInv
      BY <2>3 DEF SendingInv
    <3>1. Shows' /\ (Resting => Resting') /\ out_enable' = out_enable
      BY <3>0 DEF TxInv, Shows, Resting
    <3>2. ASSUME NEW b \in Nat \ {0}, Lasts(b), TxAt(b)
          PROVE  Lasts(b)' /\ TxAt(b)'
      BY <3>2 DEF Lasts, TxAt, TxStreamPlace, TxPlace, Resting
    <3> QED
      BY <2>2, <3>0, <3>1, <3>2 DEF TxInv
  <2> QED
    BY <2>1, <2>2, <2>3 DEF SendingInv, Sending
<1> QED
  BY <1>1, <1>2

\* A transmitter is where its place says, for every bit period, byte and count,
\* whatever the host does: the invariant that the timing of the frame follows from.
THEOREM FramesStayInPlace == SerialSpec => [](Sending => TxInv)
<1>1. SerialInit => SendingInv
  BY SendingStarts
<1>2. SendingInv /\ [SerialClock]_serialVars => SendingInv'
  BY SendingStep
<1>3. SendingInv => (Sending => TxInv)
  BY DEF SendingInv
<1> QED
  BY <1>1, <1>2, <1>3, PTL DEF SerialSpec

\* A transmitted frame is ten bits of exactly the same length, also in the clocks the
\* loop's own instructions take, for every bit period the generators accept
\* (tools/streaming.py:57-66, tools/program.py:132-137, docs/streaming.md:125).
THEOREM BitsAreExact == SerialSpec => BitsLastExactly
<1> DEFINE OnTheBit == Sending /\ since # None /\ level' # level => (since + 1) % job.bit = 0
<1>1. SerialInit => SendingInv
  BY SendingStarts
<1>2. SendingInv /\ [SerialClock]_serialVars => SendingInv'
  BY SendingStep
<1>3. SendingInv /\ [SerialClock]_serialVars => [OnTheBit]_<<benchVars, uartVars>>
  <2> SUFFICES ASSUME SendingInv, [SerialClock]_serialVars, Sending, since # None,
                      level' # level
               PROVE  (since + 1) % job.bit = 0
    OBVIOUS
  <2>1. PICK b \in Nat \ {0} : Lasts(b) /\ OnBit(b)
    BY SendingStep
  <2>2. PICK k \in Nat : since + 1 = Bits(k, b)
    BY <2>1 DEF OnBit
  <2>3. (since + 1) % b = 0
    BY <2>1, <2>2, ModMultiple DEF Bits
  <2> QED
    BY <2>1, <2>3 DEF Lasts
<1> QED
  BY <1>1, <1>2, <1>3, PTL DEF SerialSpec, BitsLastExactly

(***************************************************************************)
(* SPI: the device sees the pins one clock later as they are now.          *)
(***************************************************************************)
DeviceFields == {"selected", "sck", "mosi", "miso", "steady", "bits", "heard", "offer", "edges",
                 "selections"}

Mirror ==
  /\ DeviceFields \subseteq DOMAIN device
  /\ device.selected \in BOOLEAN /\ device.sck \in BOOLEAN /\ device.mosi \in BOOLEAN
  /\ device.selected <=> CS \in out_enable /\ CS \notin out_value
  /\ device.sck <=> IF SCK \in out_enable THEN SCK \in out_value ELSE cpol
  /\ device.mosi <=> MOSI \in out_value

Steadies(was, now) ==
  now = IF MOSI \in out_value' <=> MOSI \in out_value
        THEN (IF was < job.half THEN was + 1 ELSE was) ELSE 0

LEMMA PhaseIsBoolean == cpol \in BOOLEAN /\ cpha \in BOOLEAN
BY DEF cpol, cpha

LEMMA DeviceFollows ==
  ASSUME Mirror, DeviceStep, job' = job
  PROVE  /\ Mirror' /\ Steadies(device.steady, device'.steady)
         /\ device'.edges # device.edges => device'.selected /\ device'.sck # device.sck
<1> DEFINE high(lane) == lane \in out_value'
           driven(lane) == lane \in out_enable'
           selected == driven(CS) /\ ~high(CS)
           sck == IF driven(SCK) THEN high(SCK) ELSE cpol
           edge == selected /\ sck # device.sck
           now == [device EXCEPT !.selected = selected, !.sck = sck, !.mosi = high(MOSI),
                     !.steady = IF high(MOSI) # device.mosi THEN 0
                                ELSE IF @ < job.half THEN @ + 1 ELSE @,
                     !.edges = IF edge THEN @ + 1 ELSE @,
                     !.selections = IF selected /\ ~device.selected THEN @ + 1 ELSE @]
<1>1. /\ DOMAIN now = DOMAIN device
      /\ now.selected = selected /\ now.sck = sck /\ now.mosi = high(MOSI)
      /\ now.steady = IF high(MOSI) # device.mosi THEN 0
                      ELSE IF device.steady < job.half THEN device.steady + 1 ELSE device.steady
      /\ now.edges # device.edges => edge
  BY DEF Mirror, DeviceFields
<1>2. Offers(now) \/ Takes(now) \/ device' = now
  BY DEF DeviceStep
<1> HIDE DEF now
<1> DEFINE Same == /\ DOMAIN device' = DOMAIN now
                   /\ \A f \in {"selected", "sck", "mosi", "steady", "edges"} : device'[f] = now[f]
<1>3. Same
  <2>1. ASSUME device' = now PROVE Same
    BY <2>1
  <2>2. ASSUME NEW byte, NEW bit, device' = [now EXCEPT !.offer = byte, !.miso = bit] PROVE Same
    BY <2>2
  <2>3. ASSUME NEW bit, device' = [now EXCEPT !.miso = bit] PROVE Same
    BY <2>3
  <2> HIDE DEF Same
  <2>4. CASE Offers(now)
    <3>1. CASE now.bits = << >> /\ Len(now.heard) < job.count
      <4>1. \E byte \in Answers : /\ device' = [now EXCEPT !.offer = byte, !.miso = WireBit(byte, 0)]
                                 /\ served' = Append(served, byte)
        BY <2>4, <3>1 DEF Offers
      <4> QED
        BY <2>2, <4>1
    <3>2. CASE ~(now.bits = << >> /\ Len(now.heard) < job.count)
      <4>1. device' = IF now.bits = << >> THEN now
                      ELSE [now EXCEPT !.miso = WireBit(now.offer, Len(now.bits))]
        BY <2>4, <3>2 DEF Offers
      <4> QED
        BY <2>1, <2>3, <4>1
    <3> QED
      BY <3>1, <3>2
  <2>5. CASE Takes(now)
    <3>1. ASSUME NEW bits, device' = [now EXCEPT !.bits = bits] PROVE Same
      BY <3>1 DEF Same
    <3>2. ASSUME NEW heard, device' = [now EXCEPT !.bits = << >>, !.heard = heard] PROVE Same
      BY <3>2 DEF Same
    <3> QED
      <4>1. PICK bits : device' = IF Len(bits) < 8 THEN [now EXCEPT !.bits = bits]
                                  ELSE [now EXCEPT !.bits = << >>, !.heard = Append(@, WireByte(bits))]
        BY <2>5 DEF Takes
      <4> QED
        BY <3>1, <3>2, <4>1
  <2> QED
    BY <1>2, <2>1, <2>4, <2>5
<1>4. /\ device'.selected = selected /\ device'.sck = sck /\ device'.mosi = high(MOSI)
      /\ device'.steady = now.steady /\ device'.edges = now.edges
  BY <1>1, <1>3
<1>5. cpol' = cpol /\ sck \in BOOLEAN
  <2>1. cpol' = cpol
    <3>1. job'.mode = job.mode
      OBVIOUS
    <3> QED
      BY <3>1, Zenon DEF cpol
  <2> QED
    <3>1. CASE driven(SCK)
      BY <2>1, <3>1
    <3>2. CASE ~driven(SCK)
      BY <2>1, <3>2, PhaseIsBoolean
    <3> QED
      BY <3>1, <3>2
<1>6. Mirror'
  <2>0. DOMAIN device' = DOMAIN device
    BY <1>1, <1>3
  <2>1. DeviceFields \subseteq DOMAIN device'
    BY <2>0 DEF Mirror
  <2>2. device'.selected \in BOOLEAN /\ (device'.selected <=> CS \in out_enable' /\ CS \notin out_value')
    BY <1>4
  <2>3. device'.sck \in BOOLEAN
    BY <1>4, <1>5
  <2>4. device'.sck <=> IF SCK \in out_enable' THEN SCK \in out_value' ELSE cpol'
    BY <1>4, <1>5
  <2>5. device'.mosi \in BOOLEAN /\ (device'.mosi <=> MOSI \in out_value')
    <3>1. device'.mosi = high(MOSI)
      BY <1>4
    <3>2. high(MOSI) \in BOOLEAN /\ (high(MOSI) <=> MOSI \in out_value')
      OBVIOUS
    <3> HIDE DEF high
    <3> QED
      BY <3>1, <3>2
  <2> QED
    BY <2>1, <2>2, <2>3, <2>4, <2>5 DEF Mirror
<1>7. Steadies(device.steady, device'.steady)
  <2>1. (high(MOSI) = device.mosi) <=> (MOSI \in out_value' <=> MOSI \in out_value)
    BY DEF Mirror
  <2> QED
    BY <1>1, <1>4, <2>1 DEF Steadies
<1>8. device'.edges # device.edges => device'.selected /\ device'.sck # device.sck
  BY <1>1, <1>4
<1> QED
  BY <1>6, <1>7, <1>8

LEMMA SamplingEdge ==
  ASSUME NEW sck \in BOOLEAN
  PROVE  Sampling(sck) <=> ~((sck <=> cpol) <=> ~cpha)
<1>1. PICK a \in BOOLEAN : a = cpol
  BY PhaseIsBoolean
<1>2. PICK b \in BOOLEAN : b = cpha
  BY PhaseIsBoolean
<1>3. ((sck # a) # b) <=> ~((sck <=> a) <=> ~b)
  BY sck \in {TRUE, FALSE}, a \in {TRUE, FALSE}, b \in {TRUE, FALSE}
<1> QED
  BY <1>1, <1>2, <1>3 DEF Sampling

Driven == out_enable = {SCK, MOSI, CS}
Idle == SCK \in out_value <=> cpol
Chosen == CS \notin out_value

Clean ==
  /\ device'.edges # device.edges /\ Sampling(device'.sck) =>
       device.steady = job.half /\ device'.mosi = device.mosi
  /\ device'.selected # device.selected => device'.sck = cpol

\* Every way in which a clock is clean.
LEMMA CleanWhen ==
  ASSUME Mirror, DeviceStep, job' = job,
         \/ out_enable' = {}
         \/ PinsStay
         \/ out_enable = {} /\ Driven' /\ Idle'
         \/ Driven /\ Driven' /\ Idle /\ Idle'
         \/ /\ Driven /\ Driven' /\ (Chosen' <=> Chosen)
            /\ \/ SCK \in out_value' <=> SCK \in out_value
               \/ Idle' <=> ~cpha
               \/ device.steady = job.half /\ (MOSI \in out_value' <=> MOSI \in out_value)
  PROVE  Clean
<1>1. /\ Mirror' /\ cpol' = cpol
      /\ device'.edges # device.edges => device'.selected /\ device'.sck # device.sck
  <2>1. job'.mode = job.mode
    OBVIOUS
  <2> QED
    BY <2>1, DeviceFollows DEF cpol
<1>2. /\ device.selected \in BOOLEAN /\ device.sck \in BOOLEAN /\ device.mosi \in BOOLEAN
      /\ device'.selected \in BOOLEAN /\ device'.sck \in BOOLEAN /\ device'.mosi \in BOOLEAN
  BY <1>1 DEF Mirror
<1>3. /\ device.selected <=> CS \in out_enable /\ CS \notin out_value
      /\ device.sck <=> IF SCK \in out_enable THEN SCK \in out_value ELSE cpol
      /\ device.mosi <=> MOSI \in out_value
  BY DEF Mirror
<1>4. /\ device'.selected <=> CS \in out_enable' /\ CS \notin out_value'
      /\ device'.sck <=> IF SCK \in out_enable' THEN SCK \in out_value' ELSE cpol
      /\ device'.mosi <=> MOSI \in out_value'
  BY <1>1 DEF Mirror
<1>5. (device'.sck <=> device.sck) => device'.edges = device.edges
  BY <1>1, <1>2
<1>6. (device'.sck <=> cpol) => device'.sck = cpol
  BY <1>2, PhaseIsBoolean
<1>7. (device'.selected <=> device.selected) => device'.selected = device.selected
  BY <1>2
<1>8. (device'.mosi <=> device.mosi) => device'.mosi = device.mosi
  BY <1>2
<1>9. Sampling(device'.sck) <=> ~((device'.sck <=> cpol) <=> ~cpha)
  BY <1>2, SamplingEdge
<1>10. ~device'.selected => device'.edges = device.edges
  BY <1>1
<1> USE DEF Clean
<1>11. CASE out_enable' = {}
  BY <1>4, <1>6, <1>10, <1>11
<1>12. CASE PinsStay
  BY <1>3, <1>4, <1>5, <1>7, <1>12 DEF PinsStay
<1>13. CASE out_enable = {} /\ Driven' /\ Idle'
  <2>1. (device.sck <=> cpol) /\ (device'.sck <=> cpol)
    BY <1>1, <1>3, <1>4, <1>13 DEF Driven, Idle
  <2> QED
    BY <1>5, <1>6, <2>1
<1>14. CASE Driven /\ Driven' /\ Idle /\ Idle'
  <2>1. (device.sck <=> cpol) /\ (device'.sck <=> cpol)
    BY <1>1, <1>3, <1>4, <1>14 DEF Driven, Idle
  <2> QED
    BY <1>5, <1>6, <2>1
<1>15. CASE /\ Driven /\ Driven' /\ (Chosen' <=> Chosen)
            /\ \/ SCK \in out_value' <=> SCK \in out_value
               \/ Idle' <=> ~cpha
               \/ device.steady = job.half /\ (MOSI \in out_value' <=> MOSI \in out_value)
  <2>1. (device.sck <=> SCK \in out_value) /\ (device'.sck <=> SCK \in out_value')
    BY <1>3, <1>4, <1>15 DEF Driven
  <2>2. device'.selected = device.selected
    BY <1>3, <1>4, <1>7, <1>15 DEF Driven, Chosen
  <2>3. CASE SCK \in out_value' <=> SCK \in out_value
    BY <1>5, <2>1, <2>2, <2>3
  <2>4. CASE Idle' <=> ~cpha
    <3>1. ~Sampling(device'.sck)
      BY <1>1, <1>9, <2>1, <2>4 DEF Idle
    <3> QED
      BY <2>2, <3>1
  <2>5. CASE device.steady = job.half /\ (MOSI \in out_value' <=> MOSI \in out_value)
    BY <1>3, <1>4, <1>8, <2>2, <2>5
  <2> QED
    BY <1>15, <2>3, <2>4, <2>5
<1> QED
  BY <1>11, <1>12, <1>13, <1>14, <1>15

(***************************************************************************)
(* SPI: the words of a bit, at the addresses from B on, and what they do.  *)
(***************************************************************************)
Toggles(w, away) ==
  /\ w.op = "PATCH" /\ w.mask = {SCK} /\ w.oe = {SCK} /\ w.hold \in Nat
  /\ SCK \in w.value <=> ~(away <=> cpol)
Puts(w) == w.op = "OUT" /\ w.lane = MOSI /\ ~w.drain
Waits(w, h) == w.op = "PATCH" /\ w.mask = {} /\ w.hold = h - 1
Selects(w, low) ==
  /\ w.op = "PATCH" /\ w.mask = {CS} /\ w.oe = {CS} /\ w.hold \in Nat
  /\ CS \notin w.value <=> low

BitWords(p, B, h) ==
  /\ cpha => /\ Toggles(p[B + 1], TRUE) /\ Puts(p[B + 2]) /\ Waits(p[B + 3], h)
             /\ Toggles(p[B + 4], FALSE) /\ p[B + 5].op = "IN"
  /\ ~cpha => /\ Puts(p[B + 1]) /\ Waits(p[B + 2], h) /\ Toggles(p[B + 3], TRUE)
              /\ p[B + 4].op = "IN" /\ Toggles(p[B + 5], FALSE)
  /\ p[B + 6].op = "DJNZ" /\ p[B + 6].target = B

MosiStays == MOSI \in out_value' <=> MOSI \in out_value

LEMMA Toggled ==
  ASSUME NEW w, NEW away \in BOOLEAN, Toggles(w, away), Driven, Does(w), cpol' = cpol
  PROVE  /\ Driven' /\ (Chosen' <=> Chosen) /\ MosiStays /\ (Idle' <=> ~away)
         /\ delay_left' \in Nat /\ pc' = pc + 1
<1>1. /\ out_value' = (out_value \ {SCK}) \cup (w.value \cap {SCK})
      /\ out_enable' = (out_enable \ {SCK}) \cup ({SCK} \cap {SCK})
      /\ delay_left' \in Nat /\ pc' = pc + 1
  BY DEF Toggles, Does
<1>2. Driven' /\ (Chosen' <=> Chosen) /\ MosiStays
  BY <1>1 DEF Driven, Chosen, MosiStays, SCK, MOSI, CS
<1>3. SCK \in out_value' <=> ~(away <=> cpol)
  BY <1>1 DEF Toggles
<1> QED
  BY <1>1, <1>2, <1>3 DEF Idle

LEMMA Put ==
  ASSUME NEW w, Puts(w), Driven, Does(w), cpol' = cpol
  PROVE  /\ Driven' /\ (Chosen' <=> Chosen) /\ (SCK \in out_value' <=> SCK \in out_value)
         /\ (Idle' <=> Idle) /\ delay_left' = 0 /\ pc' = pc + 1
<1>1. /\ out_value' \in {out_value \cup {MOSI}, out_value \ {MOSI}}
      /\ out_enable' = out_enable \cup {MOSI} /\ delay_left' = 0 /\ pc' = pc + 1
  BY DEF Puts, Does
<1>2. Driven' /\ (Chosen' <=> Chosen) /\ (SCK \in out_value' <=> SCK \in out_value)
  BY <1>1 DEF Driven, Chosen, SCK, MOSI, CS
<1> QED
  BY <1>1, <1>2 DEF Idle

LEMMA Waited ==
  ASSUME NEW w, NEW h, Waits(w, h), Does(w)
  PROVE  PinsStay /\ delay_left' = h - 1 /\ pc' = pc + 1
<1>1. /\ out_value' = (out_value \ {}) \cup (w.value \cap {})
      /\ out_enable' = (out_enable \ {}) \cup (w.oe \cap {})
      /\ delay_left' = h - 1 /\ pc' = pc + 1
  BY DEF Waits, Does
<1> QED
  BY <1>1 DEF PinsStay

LEMMA Selected ==
  ASSUME NEW w, NEW low \in BOOLEAN, Selects(w, low), Driven, Does(w), cpol' = cpol
  PROVE  /\ Driven' /\ (Chosen' <=> low) /\ (Idle' <=> Idle)
         /\ delay_left' \in Nat /\ pc' = pc + 1
<1>1. /\ out_value' = (out_value \ {CS}) \cup (w.value \cap {CS})
      /\ out_enable' = (out_enable \ {CS}) \cup ({CS} \cap {CS})
      /\ delay_left' \in Nat /\ pc' = pc + 1
  BY DEF Selects, Does
<1>2. Driven' /\ (SCK \in out_value' <=> SCK \in out_value)
  BY <1>1 DEF Driven, SCK, MOSI, CS
<1>3. Chosen' <=> low
  BY <1>1 DEF Selects, Chosen
<1> QED
  BY <1>1, <1>2, <1>3 DEF Idle

LEMMA Stays ==
  ASSUME PinsStay, cpol' = cpol
  PROVE  /\ (Driven' <=> Driven) /\ (Chosen' <=> Chosen) /\ (Idle' <=> Idle) /\ MosiStays
         /\ out_enable' = out_enable
BY DEF PinsStay, Driven, Chosen, Idle, MosiStays

LEMMA SteadyGrows ==
  ASSUME NEW h \in Nat \ {0}, h = job.half, NEW was \in 0 .. h, NEW now, Steadies(was, now)
  PROVE  /\ now \in 0 .. h
         /\ MosiStays => now = IF was < h THEN was + 1 ELSE h
<1>1. now = IF MosiStays THEN (IF was < h THEN was + 1 ELSE was) ELSE 0
  BY DEF Steadies, MosiStays
<1>2. h \in Nat /\ was \in Int /\ 0 <= was /\ was <= h
  OBVIOUS
<1> QED
  BY ONLY <1>1, <1>2

(***************************************************************************)
(* SPI: where in a bit the program is, h clocks to half a period.          *)
(***************************************************************************)
\* The clock is at its idle level but around the first edge of the bit, and MOSI
\* is steady for long enough when the sampling edge is due.
BitPlace(B, h) ==
  /\ pc \in B .. B + 5 /\ Driven /\ Chosen
  /\ Idle <=> IF cpha THEN pc \notin {B + 1, B + 2, B + 3} ELSE pc \notin {B + 3, B + 4}
  /\ pc = (IF cpha THEN B + 3 ELSE B + 2) => device.steady + delay_left >= h

\* What a clock of a bit leads to.
BitNext(B, h) ==
  /\ Clean /\ delay_left' \in Nat
  /\ BitPlace(B, h)' \/ (pc' = B + 6 /\ Driven' /\ Chosen' /\ Idle')

LEMMA PhaseStays == ASSUME job' = job PROVE cpol' = cpol /\ cpha' = cpha
<1>1. job'.mode = job.mode
  OBVIOUS
<1> QED
  BY <1>1 DEF cpol, cpha

LEMMA BitActs ==
  ASSUME NEW h \in Nat \ {0}, h = job.half, NEW B \in Nat, NEW p, BitWords(p, B, h),
         BitPlace(B, h), Mirror, DeviceStep, job' = job, device.steady \in 0 .. h,
         delay_left = 0, Does(p[pc + 1])
  PROVE  BitNext(B, h)
<1>0. cpol' = cpol /\ cpha' = cpha /\ cpol \in BOOLEAN /\ cpha \in BOOLEAN
  BY PhaseStays, PhaseIsBoolean
<1>1. /\ Driven /\ Chosen /\ pc \in B .. B + 5
      /\ Idle <=> IF cpha THEN pc \notin {B + 1, B + 2, B + 3} ELSE pc \notin {B + 3, B + 4}
      /\ pc = (IF cpha THEN B + 3 ELSE B + 2) => device.steady + 0 >= h
  BY DEF BitPlace
<1>2. /\ device'.steady \in 0 .. h
      /\ MosiStays => device'.steady = IF device.steady < h THEN device.steady + 1 ELSE h
  BY DeviceFollows, SteadyGrows
\* The words of both phases, each at its address.
<1>3. CASE /\ Puts(p[pc + 1]) /\ pc = (IF cpha THEN B + 1 ELSE B)
  <2>1. /\ Driven' /\ Chosen' /\ (SCK \in out_value' <=> SCK \in out_value)
        /\ (Idle' <=> Idle) /\ delay_left' = 0 /\ pc' = pc + 1
    BY <1>0, <1>1, <1>3, Put
  <2>2. Clean
    BY <1>1, <2>1, CleanWhen
  <2>3. BitPlace(B, h)'
    BY <1>0, <1>1, <1>3, <2>1 DEF BitPlace
  <2> QED
    BY <2>1, <2>2, <2>3 DEF BitNext
<1>4. CASE /\ Waits(p[pc + 1], h) /\ pc = (IF cpha THEN B + 2 ELSE B + 1)
  <2>1. PinsStay /\ delay_left' = h - 1 /\ pc' = pc + 1
    BY <1>4, Waited
  <2>2. Driven' /\ Chosen' /\ (Idle' <=> Idle) /\ MosiStays
    BY <1>0, <1>1, <2>1, Stays
  <2>3. device'.steady + delay_left' >= h /\ delay_left' \in Nat
    <3>1. /\ device'.steady = IF device.steady < h THEN device.steady + 1 ELSE h
          /\ device.steady \in 0 .. h /\ h \in Nat \ {0} /\ delay_left' = h - 1
      BY <1>2, <2>1, <2>2
    <3> QED
      BY ONLY <3>1
  <2>4. Clean
    BY <2>1, CleanWhen
  <2>5. BitPlace(B, h)'
    BY <1>0, <1>1, <1>4, <2>1, <2>2, <2>3 DEF BitPlace
  <2> QED
    BY <2>3, <2>4, <2>5 DEF BitNext
<1>5. CASE /\ Toggles(p[pc + 1], TRUE) /\ pc = (IF cpha THEN B ELSE B + 2)
  <2>1. /\ Driven' /\ Chosen' /\ MosiStays /\ ~Idle' /\ delay_left' \in Nat /\ pc' = pc + 1
    BY <1>0, <1>1, <1>5, Toggled
  <2>2. Clean
    <3>1. CASE cpha
      BY <1>1, <2>1, <3>1, CleanWhen
    <3>2. CASE ~cpha
      <4>1. device.steady = h
        BY <1>1, <1>5, <3>2
      <4> QED
        BY <1>1, <2>1, <4>1, CleanWhen DEF MosiStays
    <3> QED
      BY <3>1, <3>2
  <2>3. BitPlace(B, h)'
    BY <1>0, <1>1, <1>5, <2>1 DEF BitPlace
  <2> QED
    BY <2>1, <2>2, <2>3 DEF BitNext
<1>6. CASE /\ Toggles(p[pc + 1], FALSE) /\ pc = (IF cpha THEN B + 3 ELSE B + 4)
  <2>1. /\ Driven' /\ Chosen' /\ MosiStays /\ Idle' /\ delay_left' \in Nat /\ pc' = pc + 1
    BY <1>0, <1>1, <1>6, Toggled
  <2>2. Clean
    <3>1. CASE ~cpha
      BY <1>1, <2>1, <3>1, CleanWhen
    <3>2. CASE cpha
      <4>1. device.steady = h
        BY <1>1, <1>6, <3>2
      <4> QED
        BY <1>1, <2>1, <4>1, CleanWhen DEF MosiStays
    <3> QED
      BY <3>1, <3>2
  <2>3. BitPlace(B, h)'
    BY <1>0, <1>1, <1>6, <2>1 DEF BitPlace
  <2> QED
    BY <2>1, <2>2, <2>3 DEF BitNext
<1>7. CASE /\ p[pc + 1].op = "IN" /\ pc = (IF cpha THEN B + 4 ELSE B + 3)
  <2>1. PinsStay /\ delay_left' = 0 /\ pc' = pc + 1
    BY <1>7 DEF Does
  <2>2. Driven' /\ Chosen' /\ (Idle' <=> Idle)
    BY <1>0, <1>1, <2>1, Stays
  <2>3. Clean
    BY <2>1, CleanWhen
  <2>4. BitPlace(B, h)'
    BY <1>0, <1>1, <1>7, <2>1, <2>2 DEF BitPlace
  <2> QED
    BY <2>1, <2>3, <2>4 DEF BitNext
<1>8. CASE /\ p[pc + 1].op = "DJNZ" /\ p[pc + 1].target = B /\ pc = B + 5
  <2>1. PinsStay /\ delay_left' = 0 /\ pc' \in {B, B + 6}
    BY <1>8 DEF Does
  <2>2. Driven' /\ Chosen' /\ Idle'
    BY <1>0, <1>1, <1>8, <2>1, Stays
  <2>3. Clean
    BY <2>1, CleanWhen
  <2>4. pc' = B => BitPlace(B, h)'
    BY <1>0, <2>2 DEF BitPlace
  <2> QED
    BY <2>1, <2>2, <2>3, <2>4 DEF BitNext
<1>9. pc \in {B, B + 1, B + 2, B + 3, B + 4, B + 5}
  <2>1. pc \in B .. B + 5 /\ B \in Nat
    BY <1>1
  <2> QED
    BY ONLY <2>1
<1>a. /\ pc = B => pc + 1 = B + 1
      /\ pc = B + 1 => pc + 1 = B + 2
      /\ pc = B + 2 => pc + 1 = B + 3
      /\ pc = B + 3 => pc + 1 = B + 4
      /\ pc = B + 4 => pc + 1 = B + 5
      /\ pc = B + 5 => pc + 1 = B + 6
  BY ONLY B \in Nat
<1>10. CASE cpha
  <2>1. /\ pc = B => Toggles(p[pc + 1], TRUE)
        /\ pc = B + 1 => Puts(p[pc + 1])
        /\ pc = B + 2 => Waits(p[pc + 1], h)
        /\ pc = B + 3 => Toggles(p[pc + 1], FALSE)
        /\ pc = B + 4 => p[pc + 1].op = "IN"
        /\ pc = B + 5 => p[pc + 1].op = "DJNZ" /\ p[pc + 1].target = B
    BY <1>10, <1>a, Zenon DEF BitWords
  <2> QED
    BY <1>3, <1>4, <1>5, <1>6, <1>7, <1>8, <1>9, <1>10, <2>1
<1>11. CASE ~cpha
  <2>1. /\ pc = B => Puts(p[pc + 1])
        /\ pc = B + 1 => Waits(p[pc + 1], h)
        /\ pc = B + 2 => Toggles(p[pc + 1], TRUE)
        /\ pc = B + 3 => p[pc + 1].op = "IN"
        /\ pc = B + 4 => Toggles(p[pc + 1], FALSE)
        /\ pc = B + 5 => p[pc + 1].op = "DJNZ" /\ p[pc + 1].target = B
    BY <1>11, <1>a, Zenon DEF BitWords
  <2> QED
    BY <1>3, <1>4, <1>5, <1>6, <1>7, <1>8, <1>9, <1>11, <2>1
<1> QED
  BY <1>10, <1>11

LEMMA BitHolds ==
  ASSUME NEW h \in Nat \ {0}, h = job.half, NEW B \in Nat, BitPlace(B, h), Mirror, DeviceStep,
         job' = job, device.steady \in 0 .. h, delay_left \in Nat \ {0},
         PinsStay, delay_left' = delay_left - 1, pc' = pc
  PROVE  BitPlace(B, h)'
<1>0. cpol' = cpol /\ cpha' = cpha
  BY PhaseStays
<1>1. (Driven' <=> Driven) /\ (Chosen' <=> Chosen) /\ (Idle' <=> Idle) /\ MosiStays
  BY <1>0, Stays
<1>2. device'.steady = IF device.steady < h THEN device.steady + 1 ELSE h
  BY <1>1, DeviceFollows, SteadyGrows
<1>3. device.steady + delay_left >= h => device'.steady + delay_left' >= h
  BY ONLY <1>2, delay_left' = delay_left - 1, delay_left \in Nat \ {0}, h \in Nat \ {0},
          device.steady \in 0 .. h
<1> QED
  BY <1>0, <1>1, <1>3 DEF BitPlace

(***************************************************************************)
(* SPI: the words of the two programs.                                     *)
(***************************************************************************)
\* The modes, and the levels the words of a mode give the clock.
Modes(mode) == mode \in {0, 1, 2, 3} /\ (cpol <=> mode >= 2) /\ (cpha <=> mode % 2 = 1)

LEMMA ModeLevels ==
  ASSUME NEW mode, Modes(mode)
  PROVE  /\ F!On(0, mode \div 2) = IF cpol THEN {SCK} ELSE {}
         /\ F!On(0, 1 - mode \div 2) = IF cpol THEN {} ELSE {SCK}
<1>1. mode \div 2 = IF cpol THEN 1 ELSE 0
  <2>1. mode \in {0, 1, 2, 3} /\ (cpol <=> mode >= 2)
    BY DEF Modes
  <2> QED
    BY ONLY <2>1
<1>2. SCK = 0
  BY DEF SCK
<1> QED
  BY ONLY <1>1, <1>2 DEF F!On

LEMMA BitOfFive ==
  ASSUME NEW mode, Modes(mode), NEW lsb, NEW h \in Nat \ {0}
  PROVE  \E a, b, c, d, e :
           /\ F!spi_bits(mode, lsb, h) = <<a, b, c, d, e>>
           /\ cpha => /\ Toggles(a, TRUE) /\ Puts(b) /\ Waits(c, h) /\ Toggles(d, FALSE)
                      /\ e.op = "IN"
           /\ ~cpha => /\ Puts(a) /\ Waits(b, h) /\ Toggles(c, TRUE) /\ d.op = "IN"
                       /\ Toggles(e, FALSE)
<1> DEFINE Turn(away, cycles) ==
             F!patch({0}, F!On(0, IF away THEN 1 - mode \div 2 ELSE mode \div 2), {0}, cycles)
           out == F!shift_out(1, lsb, FALSE)
           wait == F!hold(h)
           in == F!shift_in(2, lsb)
<1>1. mode \in {0, 1, 2, 3} /\ (cpha <=> mode % 2 = 1)
  BY DEF Modes
<1>2. F!spi_bits(mode, lsb, h) =
        IF cpha THEN <<Turn(TRUE, 1), out, wait, Turn(FALSE, h), in>>
        ELSE <<out, wait, Turn(TRUE, h), in, Turn(FALSE, h)>>
  <2>1. CASE cpha
    <3>1. mode % 2 # 0
      BY ONLY <1>1, <2>1
    <3> QED
      BY <2>1, <3>1 DEF F!spi_bits
  <2>2. CASE ~cpha
    <3>1. mode % 2 = 0
      BY ONLY <1>1, <2>2
    <3> QED
      BY <2>2, <3>1 DEF F!spi_bits
  <2> QED
    BY <2>1, <2>2
<1>3. Puts(out) /\ Waits(wait, h) /\ in.op = "IN"
  BY DEF Puts, Waits, F!shift_out, F!hold, F!patch, F!shift_in, MOSI
<1>4. ASSUME NEW away \in BOOLEAN, NEW cycles \in Nat \ {0} PROVE Toggles(Turn(away, cycles), away)
  <2>1. cycles - 1 \in Nat
    OBVIOUS
  <2>2. SCK \in F!On(0, IF away THEN 1 - mode \div 2 ELSE mode \div 2) <=> ~(away <=> cpol)
    BY ModeLevels
  <2> QED
    BY <2>1, <2>2 DEF Toggles, F!patch, SCK
<1> HIDE DEF Turn, out, wait, in
<1>5. CASE cpha
  <2>1. Toggles(Turn(TRUE, 1), TRUE) /\ Toggles(Turn(FALSE, h), FALSE)
    <3>1. 1 \in Nat \ {0}
      OBVIOUS
    <3> QED
      BY <1>4, <3>1
  <2> WITNESS Turn(TRUE, 1), out, wait, Turn(FALSE, h), in
  <2> QED
    BY <1>2, <1>3, <1>5, <2>1
<1>6. CASE ~cpha
  <2>1. Toggles(Turn(TRUE, h), TRUE) /\ Toggles(Turn(FALSE, h), FALSE)
    BY <1>4
  <2> WITNESS out, wait, Turn(TRUE, h), in, Turn(FALSE, h)
  <2> QED
    BY <1>2, <1>3, <1>6, <2>1
<1> QED
  BY <1>5, <1>6

\* The words before and after the bits.
Starts(w) ==
  /\ w.op = "DRIVE" /\ w.oe = {SCK, MOSI, CS} /\ CS \in w.value /\ (SCK \in w.value <=> cpol)
  /\ w.hold \in Nat

LEMMA StartAndSelect ==
  ASSUME NEW mode, Modes(mode), NEW h \in Nat \ {0}
  PROVE  /\ Starts(F!drive({3} \cup F!On(0, mode \div 2), {0, 1, 3}, h))
         /\ Selects(F!patch({3}, {}, {3}, h), TRUE)
         /\ Selects(F!patch({3}, {3}, {3}, h), FALSE)
<1>1. h - 1 \in Nat
  OBVIOUS
<1>2. F!On(0, mode \div 2) = IF cpol THEN {SCK} ELSE {}
  BY ModeLevels
<1> QED
  BY <1>1, <1>2 DEF Starts, Selects, F!drive, F!patch, SCK, MOSI, CS

LEMMA Fourteen ==
  ASSUME NEW a1, NEW a2, NEW a3, NEW a4, NEW a5, NEW a6, NEW a7, NEW a8, NEW a9, NEW a10,
         NEW a11, NEW a12, NEW a13, NEW a14, NEW p,
         p = <<a1>> \o <<a2>> \o <<a3, a4>> \o <<a5, a6, a7, a8, a9>> \o <<a10, a11, a12>>
             \o <<a13, a14>>
  PROVE  /\ Len(p) = 14
         /\ p[1] = a1 /\ p[2] = a2 /\ p[3] = a3 /\ p[4] = a4 /\ p[5] = a5 /\ p[6] = a6
         /\ p[7] = a7 /\ p[8] = a8 /\ p[9] = a9 /\ p[10] = a10 /\ p[11] = a11 /\ p[12] = a12
         /\ p[13] = a13 /\ p[14] = a14
OBVIOUS

LEMMA Eleven ==
  ASSUME NEW a1, NEW a2, NEW a3, NEW a4, NEW a5, NEW a6, NEW a7, NEW a8, NEW a9, NEW a10,
         NEW a11, NEW p,
         p = <<a1>> \o <<a2, a3>> \o <<a4, a5, a6, a7, a8>> \o <<a9>> \o <<a10, a11>>
  PROVE  /\ Len(p) = 11
         /\ p[1] = a1 /\ p[2] = a2 /\ p[3] = a3 /\ p[4] = a4 /\ p[5] = a5 /\ p[6] = a6
         /\ p[7] = a7 /\ p[8] = a8 /\ p[9] = a9 /\ p[10] = a10 /\ p[11] = a11
OBVIOUS

StreamHas(p, h) ==
  /\ Len(p) = 14 /\ p[1].op = "STREAM" /\ Starts(p[2]) /\ Selects(p[3], TRUE)
  /\ p[4].op = "PULL" /\ BitWords(p, 4, h) /\ p[11].op = "PUSH"
  /\ p[12].op = "BYTE_LOOP" /\ p[12].target = 3 /\ Selects(p[13], FALSE)
  /\ p[14].op = "HALT"

LEMMA StreamWords ==
  ASSUME NEW mode, Modes(mode), NEW lsb, NEW count, NEW h \in Nat \ {0}, NEW p,
         p = F!spi_stream(count, mode, lsb, h)
  PROVE  StreamHas(p, h)
<1>1. PICK a, b, c, d, e :
        /\ F!spi_bits(mode, lsb, h) = <<a, b, c, d, e>>
        /\ cpha => /\ Toggles(a, TRUE) /\ Puts(b) /\ Waits(c, h) /\ Toggles(d, FALSE)
                   /\ e.op = "IN"
        /\ ~cpha => /\ Puts(a) /\ Waits(b, h) /\ Toggles(c, TRUE) /\ d.op = "IN"
                    /\ Toggles(e, FALSE)
  BY BitOfFive
<1>2. p = <<F!stream(count)>> \o <<F!drive({3} \cup F!On(0, mode \div 2), {0, 1, 3}, h)>>
          \o <<F!patch({3}, {}, {3}, h), F!PULL>> \o <<a, b, c, d, e>>
          \o <<F!djnz(4), F!PUSH, F!byte_loop(3)>> \o <<F!patch({3}, {3}, {3}, h), F!HALT>>
  BY <1>1 DEF F!spi_stream, F!Select, F!Deselect
<1>3. /\ Len(p) = 14 /\ p[1] = F!stream(count)
      /\ p[2] = F!drive({3} \cup F!On(0, mode \div 2), {0, 1, 3}, h)
      /\ p[3] = F!patch({3}, {}, {3}, h) /\ p[4] = F!PULL
      /\ p[5] = a /\ p[6] = b /\ p[7] = c /\ p[8] = d /\ p[9] = e
      /\ p[10] = F!djnz(4) /\ p[11] = F!PUSH /\ p[12] = F!byte_loop(3)
      /\ p[13] = F!patch({3}, {3}, {3}, h) /\ p[14] = F!HALT
  BY ONLY <1>2, Fourteen
<1>4. BitWords(p, 4, h)
  <2>1. p[10].op = "DJNZ" /\ p[10].target = 4
    BY <1>3 DEF F!djnz
  <2>2. /\ p[4 + 1] = a /\ p[4 + 2] = b /\ p[4 + 3] = c /\ p[4 + 4] = d /\ p[4 + 5] = e
        /\ p[4 + 6] = p[10]
    BY ONLY <1>3
  <2> QED
    BY <1>1, <2>1, <2>2, Zenon DEF BitWords
<1>5. Starts(p[2]) /\ Selects(p[3], TRUE) /\ Selects(p[13], FALSE)
  BY <1>3, StartAndSelect
<1>6. /\ p[1].op = "STREAM" /\ p[4].op = "PULL" /\ p[11].op = "PUSH"
      /\ p[12].op = "BYTE_LOOP" /\ p[12].target = 3 /\ p[14].op = "HALT"
  BY ONLY <1>3 DEF F!stream, F!PULL, F!PUSH, F!HALT, F!Word, F!byte_loop
<1> QED
  BY <1>3, <1>4, <1>5, <1>6 DEF StreamHas

TransferHas(p, h) ==
  /\ Len(p) = 11 /\ Starts(p[1]) /\ p[2].op = "LOAD" /\ Selects(p[3], TRUE)
  /\ BitWords(p, 3, h) /\ Selects(p[10], FALSE) /\ p[11].op = "HALT"

LEMMA TransferWords ==
  ASSUME NEW mode, Modes(mode), NEW lsb, NEW byte, NEW h \in Nat \ {0}, NEW p,
         p = F!spi_transfer(byte, mode, lsb, h)
  PROVE  TransferHas(p, h)
<1>1. PICK a, b, c, d, e :
        /\ F!spi_bits(mode, lsb, h) = <<a, b, c, d, e>>
        /\ cpha => /\ Toggles(a, TRUE) /\ Puts(b) /\ Waits(c, h) /\ Toggles(d, FALSE)
                   /\ e.op = "IN"
        /\ ~cpha => /\ Puts(a) /\ Waits(b, h) /\ Toggles(c, TRUE) /\ d.op = "IN"
                    /\ Toggles(e, FALSE)
  BY BitOfFive
<1>2. p = <<F!drive({3} \cup F!On(0, mode \div 2), {0, 1, 3}, h)>>
          \o <<F!load_byte(byte), F!patch({3}, {}, {3}, h)>> \o <<a, b, c, d, e>>
          \o <<F!djnz(3)>> \o <<F!patch({3}, {3}, {3}, h), F!HALT>>
  BY <1>1 DEF F!spi_transfer, F!Select, F!Deselect
<1>3. /\ Len(p) = 11
      /\ p[1] = F!drive({3} \cup F!On(0, mode \div 2), {0, 1, 3}, h)
      /\ p[2] = F!load_byte(byte) /\ p[3] = F!patch({3}, {}, {3}, h)
      /\ p[4] = a /\ p[5] = b /\ p[6] = c /\ p[7] = d /\ p[8] = e
      /\ p[9] = F!djnz(3) /\ p[10] = F!patch({3}, {3}, {3}, h) /\ p[11] = F!HALT
  BY ONLY <1>2, Eleven
<1>4. BitWords(p, 3, h)
  <2>1. p[9].op = "DJNZ" /\ p[9].target = 3
    BY <1>3 DEF F!djnz
  <2>2. /\ p[3 + 1] = a /\ p[3 + 2] = b /\ p[3 + 3] = c /\ p[3 + 4] = d /\ p[3 + 5] = e
        /\ p[3 + 6] = p[9]
    BY ONLY <1>3
  <2> QED
    BY <1>1, <2>1, <2>2, Zenon DEF BitWords
<1>5. Starts(p[1]) /\ Selects(p[3], TRUE) /\ Selects(p[10], FALSE)
  BY <1>3, StartAndSelect
<1>6. p[2].op = "LOAD" /\ p[11].op = "HALT"
  BY ONLY <1>3 DEF F!load_byte, F!HALT, F!Word
<1> QED
  BY <1>3, <1>4, <1>5, <1>6 DEF TransferHas

(***************************************************************************)
(* SPI: where the two programs are.                                        *)
(***************************************************************************)
\* Before the DRIVE the pins are released; then the device is left alone, or held
\* selected at the idle level of the clock, or in a bit.
SPIPlace(B, h, before, alone, held) ==
  /\ delay_left \in Nat
  /\ \/ pc \in before /\ out_enable = {}
     \/ pc \in alone /\ Driven /\ Idle /\ ~Chosen
     \/ pc \in held /\ Driven /\ Idle /\ Chosen
     \/ BitPlace(B, h)

StreamPlace(h) == SPIPlace(4, h, {0, 1}, {2, 13}, {3, 10, 11, 12})
TransferPlace(h) == SPIPlace(3, h, {0}, {1, 2, 10}, {9})

LEMMA SPIHolds ==
  ASSUME NEW h \in Nat \ {0}, h = job.half, NEW B \in Nat, NEW before, NEW alone, NEW held,
         SPIPlace(B, h, before, alone, held), Mirror, DeviceStep, job' = job,
         device.steady \in 0 .. h, delay_left # 0,
         PinsStay, delay_left' = delay_left - 1, pc' = pc
  PROVE  SPIPlace(B, h, before, alone, held)' /\ Clean
<1>1. delay_left \in Nat \ {0} /\ delay_left' \in Nat
  BY DEF SPIPlace
<1>2. cpol' = cpol
  BY PhaseStays
<1>3. /\ (Driven' <=> Driven) /\ (Chosen' <=> Chosen) /\ (Idle' <=> Idle)
      /\ out_enable' = out_enable
  BY <1>2, Stays
<1>4. BitPlace(B, h) => BitPlace(B, h)'
  BY <1>1, BitHolds
<1>5. Clean
  BY CleanWhen
<1> QED
  BY <1>1, <1>3, <1>4, <1>5 DEF SPIPlace

\* The words outside of the bits.
LEMMA Begun ==
  ASSUME NEW w, Starts(w), out_enable = {}, Does(w), Mirror, DeviceStep, job' = job
  PROVE  Clean /\ Driven' /\ Idle' /\ ~Chosen' /\ delay_left' \in Nat /\ pc' = pc + 1
<1>1. out_value' = w.value /\ out_enable' = w.oe /\ delay_left' \in Nat /\ pc' = pc + 1
  BY DEF Starts, Does
<1>2. Driven' /\ Idle' /\ ~Chosen'
  BY <1>1, PhaseStays DEF Starts, Driven, Idle, Chosen
<1> QED
  BY <1>1, <1>2, CleanWhen

LEMMA Chose ==
  ASSUME NEW w, NEW low \in BOOLEAN, Selects(w, low), Driven, Idle, Does(w), Mirror, DeviceStep,
         job' = job
  PROVE  Clean /\ Driven' /\ Idle' /\ (Chosen' <=> low) /\ delay_left' \in Nat /\ pc' = pc + 1
<1>1. Driven' /\ Idle' /\ (Chosen' <=> low) /\ delay_left' \in Nat /\ pc' = pc + 1
  BY PhaseStays, Selected
<1> QED
  BY <1>1, CleanWhen

LEMMA StreamActs ==
  ASSUME NEW h \in Nat \ {0}, h = job.half, NEW mode, Modes(mode), NEW lsb, NEW count, NEW p,
         p = F!spi_stream(count, mode, lsb, h), StreamPlace(h), Mirror, DeviceStep, job' = job,
         device.steady \in 0 .. h, delay_left = 0, Does(p[pc + 1])
  PROVE  StreamPlace(h)' /\ Clean
<1>w. /\ p[1].op = "STREAM" /\ Starts(p[2]) /\ Selects(p[3], TRUE) /\ p[4].op = "PULL"
      /\ BitWords(p, 4, h) /\ p[11].op = "PUSH" /\ p[12].op = "BYTE_LOOP" /\ p[12].target = 3
      /\ Selects(p[13], FALSE) /\ p[14].op = "HALT"
  <2>1. StreamHas(p, h)
    BY StreamWords
  <2> QED
    BY ONLY <2>1 DEF StreamHas
<1>c. cpol' = cpol
  BY PhaseStays
<1> USE DEF StreamPlace, SPIPlace
<1>1. CASE pc = 0 /\ out_enable = {}
  <2>1. PinsStay /\ delay_left' = 0 /\ pc' = 1
    BY <1>1, <1>w DEF Does
  <2> QED
    BY <1>1, <2>1, CleanWhen DEF PinsStay
<1>2. CASE pc = 1 /\ out_enable = {}
  <2>1. Clean /\ Driven' /\ Idle' /\ ~Chosen' /\ delay_left' \in Nat /\ pc' = 2
    <3>1. Starts(p[pc + 1])
      BY <1>2, <1>w
    <3>2. /\ Clean /\ Driven' /\ Idle' /\ ~Chosen' /\ delay_left' \in Nat /\ pc' = pc + 1
      BY <1>2, <3>1, Begun
    <3> QED
      BY <1>2, <3>2
  <2> QED
    BY <2>1
<1>3. CASE pc = 2 /\ Driven /\ Idle /\ ~Chosen
  <2>0. p[pc + 1] = p[3]
    BY ONLY <1>3
  <2>1. Selects(p[pc + 1], TRUE)
    BY ONLY <1>w, <2>0
  <2>2. Clean /\ Driven' /\ Idle' /\ Chosen' /\ delay_left' \in Nat /\ pc' = pc + 1
    BY <1>3, <2>1, Chose
  <2> QED
    BY <1>3, <2>2
<1>4. CASE pc = 13
  BY <1>4, <1>w DEF Does
<1>5. CASE pc \in {3, 10, 11} /\ Driven /\ Idle /\ Chosen
  <2>1. p[pc + 1].op \in {"PULL", "PUSH"} \/ (pc = 11 /\ p[pc + 1].op = "BYTE_LOOP"
                                              /\ p[pc + 1].target = 3)
    BY <1>5, <1>w
  <2>2. PinsStay /\ delay_left' = 0 /\ pc' \in {3, 4, 10, 11, 12}
    BY <1>5, <2>1, <1>w DEF Does
  <2>3. Clean /\ Driven' /\ Idle' /\ Chosen'
    BY <1>5, <1>c, <2>2, Stays, CleanWhen
  <2>4. pc' = 4 => BitPlace(4, h)'
    BY <2>3, <2>2 DEF BitPlace
  <2> QED
    BY <2>2, <2>3, <2>4
<1>6. CASE pc = 12 /\ Driven /\ Idle /\ Chosen
  <2>0. p[pc + 1] = p[13]
    BY ONLY <1>6
  <2>1. Selects(p[pc + 1], FALSE)
    BY ONLY <1>w, <2>0
  <2>2. Clean /\ Driven' /\ Idle' /\ ~Chosen' /\ delay_left' \in Nat /\ pc' = pc + 1
    BY <1>6, <2>1, Chose
  <2> QED
    BY <1>6, <2>2
<1>7. CASE BitPlace(4, h)
  <2>1. BitNext(4, h)
    BY <1>7, <1>w, BitActs
  <2> QED
    BY <2>1 DEF BitNext
<1> QED
  BY <1>1, <1>2, <1>3, <1>4, <1>5, <1>6, <1>7

LEMMA TransferActs ==
  ASSUME NEW h \in Nat \ {0}, h = job.half, NEW mode, Modes(mode), NEW lsb, NEW byte, NEW p,
         p = F!spi_transfer(byte, mode, lsb, h), TransferPlace(h), Mirror, DeviceStep,
         job' = job, device.steady \in 0 .. h, delay_left = 0, Does(p[pc + 1])
  PROVE  TransferPlace(h)' /\ Clean
<1>w. /\ Starts(p[1]) /\ p[2].op = "LOAD" /\ Selects(p[3], TRUE)
      /\ BitWords(p, 3, h) /\ Selects(p[10], FALSE) /\ p[11].op = "HALT"
  <2>1. TransferHas(p, h)
    BY TransferWords
  <2> QED
    BY ONLY <2>1 DEF TransferHas
<1>c. cpol' = cpol
  BY PhaseStays
<1> USE DEF TransferPlace, SPIPlace
<1>1. CASE pc = 0 /\ out_enable = {}
  <2>1. Starts(p[pc + 1])
    BY <1>1, <1>w
  <2>2. Clean /\ Driven' /\ Idle' /\ ~Chosen' /\ delay_left' \in Nat /\ pc' = pc + 1
    BY <1>1, <2>1, Begun
  <2> QED
    BY <1>1, <2>2
<1>2. CASE pc = 1 /\ Driven /\ Idle /\ ~Chosen
  <2>1. PinsStay /\ delay_left' = 0 /\ pc' = 2
    BY <1>2, <1>w DEF Does
  <2>2. Clean /\ Driven' /\ Idle' /\ ~Chosen'
    BY <1>2, <1>c, <2>1, Stays, CleanWhen
  <2> QED
    BY <2>1, <2>2
<1>3. CASE pc = 2 /\ Driven /\ Idle /\ ~Chosen
  <2>0. p[pc + 1] = p[3]
    BY ONLY <1>3
  <2>1. Selects(p[pc + 1], TRUE)
    BY ONLY <1>w, <2>0
  <2>2. Clean /\ Driven' /\ Idle' /\ Chosen' /\ delay_left' \in Nat /\ pc' = pc + 1
    BY <1>3, <2>1, Chose
  <2>3. pc' = 3 /\ BitPlace(3, h)'
    BY <1>3, <2>2 DEF BitPlace
  <2> QED
    BY <2>2, <2>3
<1>4. CASE pc = 10
  BY <1>4, <1>w DEF Does
<1>5. CASE pc = 9 /\ Driven /\ Idle /\ Chosen
  <2>0. p[pc + 1] = p[10]
    BY ONLY <1>5
  <2>1. Selects(p[pc + 1], FALSE)
    BY ONLY <1>w, <2>0
  <2>2. Clean /\ Driven' /\ Idle' /\ ~Chosen' /\ delay_left' \in Nat /\ pc' = pc + 1
    BY <1>5, <2>1, Chose
  <2> QED
    BY <1>5, <2>2
<1>6. CASE BitPlace(3, h)
  <2>1. BitNext(3, h)
    BY <1>6, <1>w, BitActs
  <2> QED
    BY <2>1 DEF BitNext
<1> QED
  BY <1>1, <1>2, <1>3, <1>4, <1>5, <1>6

LEMMA BitInside ==
  ASSUME NEW p, NEW B \in Nat, NEW h, BitWords(p, B, h), NEW a \in B .. B + 5
  PROVE  p[a + 1].op \in SerialOps
<1>1. a + 1 \in {B + 1, B + 2, B + 3, B + 4, B + 5, B + 6}
  BY ONLY B \in Nat, a \in B .. B + 5
<1>2. /\ p[B + 1].op \in {"PATCH", "OUT"} /\ p[B + 2].op \in {"PATCH", "OUT"}
      /\ p[B + 3].op = "PATCH" /\ p[B + 4].op \in {"PATCH", "IN"}
      /\ p[B + 5].op \in {"PATCH", "IN"} /\ p[B + 6].op = "DJNZ"
  BY DEF BitWords, Toggles, Puts, Waits
<1> QED
  BY ONLY <1>1, <1>2 DEF SerialOps

LEMMA StreamInside ==
  ASSUME NEW p, NEW h, StreamHas(p, h), StreamPlace(h)
  PROVE  pc \in 0 .. Len(p) - 1 /\ p[pc + 1].op \in SerialOps
<1>1. pc \in {0, 1, 2, 3, 10, 11, 12, 13} \/ pc \in 4 .. 4 + 5
  BY DEF StreamPlace, SPIPlace, BitPlace
<1>2. pc \in 0 .. 13
  BY ONLY <1>1
<1>3. /\ Len(p) = 14 /\ BitWords(p, 4, h)
      /\ p[1].op = "STREAM" /\ p[2].op = "DRIVE" /\ p[3].op = "PATCH" /\ p[4].op = "PULL"
      /\ p[11].op = "PUSH" /\ p[12].op = "BYTE_LOOP" /\ p[13].op = "PATCH" /\ p[14].op = "HALT"
  BY DEF StreamHas, Starts, Selects
<1>4. CASE pc \in 4 .. 4 + 5
  <2>1. p[pc + 1].op \in SerialOps
    BY ONLY <1>3, <1>4, 4 \in Nat, BitInside
  <2> QED
    BY <1>2, <1>3, <2>1
<1>5. CASE pc \in {0, 1, 2, 3, 10, 11, 12, 13}
  <2>1. p[pc + 1].op \in SerialOps
    BY ONLY <1>3, <1>5 DEF SerialOps
  <2> QED
    BY <1>2, <1>3, <2>1
<1> QED
  BY <1>1, <1>4, <1>5

LEMMA TransferInside ==
  ASSUME NEW p, NEW h, TransferHas(p, h), TransferPlace(h)
  PROVE  pc \in 0 .. Len(p) - 1 /\ p[pc + 1].op \in SerialOps
<1>1. pc \in {0, 1, 2, 9, 10} \/ pc \in 3 .. 3 + 5
  BY DEF TransferPlace, SPIPlace, BitPlace
<1>2. pc \in 0 .. 10
  BY ONLY <1>1
<1>3. /\ Len(p) = 11 /\ BitWords(p, 3, h)
      /\ p[1].op = "DRIVE" /\ p[2].op = "LOAD" /\ p[3].op = "PATCH" /\ p[10].op = "PATCH"
      /\ p[11].op = "HALT"
  BY DEF TransferHas, Starts, Selects
<1>4. CASE pc \in 3 .. 3 + 5
  <2>1. p[pc + 1].op \in SerialOps
    BY ONLY <1>3, <1>4, 3 \in Nat, BitInside
  <2> QED
    BY <1>2, <1>3, <2>1
<1>5. CASE pc \in {0, 1, 2, 9, 10}
  <2>1. p[pc + 1].op \in SerialOps
    BY ONLY <1>3, <1>5 DEF SerialOps
  <2> QED
    BY <1>2, <1>3, <2>1
<1> QED
  BY <1>1, <1>4, <1>5

(***************************************************************************)
(* SPI: one clock of the bench.                                            *)
(***************************************************************************)
Halves(h) == h = job.half

SPIAt(h) ==
  \/ /\ StreamPlace(h)
     /\ \E count, mode, lsb : Modes(mode) /\ job.program = F!spi_stream(count, mode, lsb, h)
  \/ /\ TransferPlace(h)
     /\ \E byte, mode, lsb : Modes(mode) /\ job.program = F!spi_transfer(byte, mode, lsb, h)

SPIInv ==
  /\ Mirror
  /\ ~running => out_enable = {}
  /\ \E h \in Nat \ {0} : Halves(h) /\ device.steady \in 0 .. h /\ (running => SPIAt(h))

LEMMA CalledModes ==
  ASSUME job \in Jobs, SPIJob
  PROVE  /\ Modes(job.mode) /\ job.half \in Nat \ {0}
         /\ \/ \E count, mode, lsb : /\ Modes(mode)
                                     /\ job.program = F!spi_stream(count, mode, lsb, job.half)
            \/ \E byte, mode, lsb : /\ Modes(mode)
                                    /\ job.program = F!spi_transfer(byte, mode, lsb, job.half)
<1>1. SPICall(job)
  BY SerialAssumption DEF SPIJob
<1>2. job.mode \in 0 .. 3 /\ job.half \in 4 .. 8192
  BY <1>1 DEF SPICall
<1>3. Modes(job.mode)
  <2>1. job.mode \in {0, 1, 2, 3}
    BY ONLY <1>2
  <2>2. (cpol <=> job.mode >= 2) /\ (cpha <=> job.mode % 2 = 1)
    BY DEF cpol, cpha
  <2> QED
    BY ONLY <2>1, <2>2 DEF Modes
<1>4. job.half \in Nat \ {0}
  <2>1. PICK h : h = job.half
    OBVIOUS
  <2>2. h \in 4 .. 8192
    BY <1>2, <2>1
  <2>3. h \in Nat \ {0}
    BY ONLY <2>2
  <2> QED
    BY ONLY <2>1, <2>3
<1>5. \/ job.program = F!spi_stream(job.count, job.mode, job.lsb, job.half)
      \/ \E byte \in Byte : job.program = F!spi_transfer(byte, job.mode, job.lsb, job.half)
  BY <1>1 DEF SPICall
<1> QED
  BY <1>3, <1>4, <1>5

LEMMA SPIStep ==
  ASSUME OnBench, SPIJob, SPIInv, NEW lanes, BenchClock(lanes), DeviceStep
  PROVE  SPIInv' /\ Clean
<1>1. job' = job /\ cpol' = cpol /\ cpha' = cpha
  BY BenchPins, PhaseStays
<1>2. Mirror /\ Mirror' /\ Steadies(device.steady, device'.steady)
  BY <1>1, DeviceFollows DEF SPIInv
<1>3. PICK h \in Nat \ {0} : Halves(h) /\ device.steady \in 0 .. h /\ (running => SPIAt(h))
  BY DEF SPIInv
<1>4. Halves(h)' /\ h = job.half
  BY <1>1, <1>3 DEF Halves
<1>5. device'.steady \in 0 .. h
  BY <1>2, <1>3, <1>4, SteadyGrows
<1>6. SUFFICES (~running' => out_enable' = {}) /\ (running' => SPIAt(h)') /\ Clean
  BY <1>2, <1>3, <1>4, <1>5 DEF SPIInv
<1>7. CASE ~running
  <2>1. out_enable = {}
    BY <1>7 DEF SPIInv
  <2>2. out_enable' = {} /\ (running' => pc' = 0 /\ delay_left' = 0)
    BY <1>7, <2>1, BenchRest
  <2>3. Clean
    BY <1>1, <1>2, <2>2, CleanWhen
  <2>4. running' => StreamPlace(h)' /\ TransferPlace(h)'
    BY <2>2 DEF StreamPlace, TransferPlace, SPIPlace
  <2>5. \/ \E count, mode, lsb : Modes(mode)' /\ job'.program = F!spi_stream(count, mode, lsb, h)
        \/ \E byte, mode, lsb : Modes(mode)' /\ job'.program = F!spi_transfer(byte, mode, lsb, h)
    <3>1. \A mode : Modes(mode) => Modes(mode)'
      BY <1>1 DEF Modes
    <3>2. \/ \E count, mode, lsb : Modes(mode) /\ job.program = F!spi_stream(count, mode, lsb, h)
          \/ \E byte, mode, lsb : Modes(mode) /\ job.program = F!spi_transfer(byte, mode, lsb, h)
      BY <1>4, CalledModes DEF OnBench
    <3> QED
      BY <1>1, <3>1, <3>2
  <2> QED
    BY <2>2, <2>3, <2>4, <2>5 DEF SPIAt
<1>8. CASE running
  <2>1. PICK p : p = job.program
    OBVIOUS
  <2>2. CASE /\ StreamPlace(h)
             /\ \E count, mode, lsb : Modes(mode) /\ job.program = F!spi_stream(count, mode, lsb, h)
    <3>1. PICK count, mode, lsb : Modes(mode) /\ p = F!spi_stream(count, mode, lsb, h)
      BY <2>1, <2>2
    <3>2. pc \in 0 .. Len(p) - 1 /\ p[pc + 1].op \in SerialOps
      BY <2>2, <3>1, StreamWords, StreamInside
    <3>3. ASSUME delay_left # 0 PROVE running' /\ StreamPlace(h)' /\ Clean
      <4>1. running' /\ PinsStay /\ delay_left' = delay_left - 1 /\ pc' = pc
        BY <1>8, <2>1, <3>2, <3>3, RunClock
      <4> QED
        BY <1>1, <1>2, <1>3, <1>4, <2>2, <3>3, <4>1, SPIHolds DEF StreamPlace
    <3>4. ASSUME delay_left = 0
          PROVE  (running' /\ StreamPlace(h)' /\ Clean) \/ (~running' /\ out_enable' = {} /\ Clean)
      <4>1. (~running' /\ out_enable' = {}) \/ (running' /\ Does(p[pc + 1]))
        BY <1>8, <2>1, <3>2, <3>4, RunClock
      <4>2. out_enable' = {} => Clean
        BY <1>1, <1>2, CleanWhen
      <4>3. Does(p[pc + 1]) => StreamPlace(h)' /\ Clean
        BY <1>1, <1>2, <1>3, <1>4, <2>2, <3>1, <3>4, StreamActs
      <4> QED
        BY <4>1, <4>2, <4>3
    <3>5. StreamPlace(h)' => SPIAt(h)'
      <4>1. Modes(mode)' /\ job'.program = F!spi_stream(count, mode, lsb, h)
        BY <1>1, <2>1, <3>1 DEF Modes
      <4> QED
        BY <4>1 DEF SPIAt
    <3> QED
      BY <3>3, <3>4, <3>5
  <2>3. CASE /\ TransferPlace(h)
             /\ \E byte, mode, lsb : Modes(mode) /\ job.program = F!spi_transfer(byte, mode, lsb, h)
    <3>1. PICK byte, mode, lsb : Modes(mode) /\ p = F!spi_transfer(byte, mode, lsb, h)
      BY <2>1, <2>3
    <3>2. pc \in 0 .. Len(p) - 1 /\ p[pc + 1].op \in SerialOps
      BY <2>3, <3>1, TransferWords, TransferInside
    <3>3. ASSUME delay_left # 0 PROVE running' /\ TransferPlace(h)' /\ Clean
      <4>1. running' /\ PinsStay /\ delay_left' = delay_left - 1 /\ pc' = pc
        BY <1>8, <2>1, <3>2, <3>3, RunClock
      <4> QED
        BY <1>1, <1>2, <1>3, <1>4, <2>3, <3>3, <4>1, SPIHolds DEF TransferPlace
    <3>4. ASSUME delay_left = 0
          PROVE  (running' /\ TransferPlace(h)' /\ Clean) \/ (~running' /\ out_enable' = {} /\ Clean)
      <4>1. (~running' /\ out_enable' = {}) \/ (running' /\ Does(p[pc + 1]))
        BY <1>8, <2>1, <3>2, <3>4, RunClock
      <4>2. out_enable' = {} => Clean
        BY <1>1, <1>2, CleanWhen
      <4>3. Does(p[pc + 1]) => TransferPlace(h)' /\ Clean
        BY <1>1, <1>2, <1>3, <1>4, <2>3, <3>1, <3>4, TransferActs
      <4> QED
        BY <4>1, <4>2, <4>3
    <3>5. TransferPlace(h)' => SPIAt(h)'
      <4>1. Modes(mode)' /\ job'.program = F!spi_transfer(byte, mode, lsb, h)
        BY <1>1, <2>1, <3>1 DEF Modes
      <4> QED
        BY <4>1 DEF SPIAt
    <3> QED
      BY <3>3, <3>4, <3>5
  <2> QED
    BY <1>3, <1>8, <2>2, <2>3 DEF SPIAt
<1> QED
  BY <1>7, <1>8

(***************************************************************************)
(* SPI, over whole runs.                                                   *)
(***************************************************************************)
ClockingInv == OnBench /\ (SPIJob => SPIInv)

LEMMA ClockingStarts == SerialInit => ClockingInv
<1> SUFFICES ASSUME SerialInit, SPIJob PROVE SPIInv
  BY BenchStarts DEF SerialInit, ClockingInv
<1>1. BenchInit /\ DeviceInit
  BY DEF SerialInit
<1>2. out_enable = {} /\ out_value = {} /\ ~running
  BY <1>1 DEF BenchInit, Loaded, ResetEngine
<1>3. /\ DeviceFields \subseteq DOMAIN device /\ device.selected = FALSE
      /\ device.sck = (SPIJob /\ cpol) /\ device.mosi = FALSE /\ device.steady = 0
  BY <1>1 DEF DeviceInit, DeviceFields
<1>4. device.sck \in BOOLEAN /\ (device.sck <=> cpol)
  <2>1. (SPIJob /\ cpol) \in BOOLEAN /\ ((SPIJob /\ cpol) <=> cpol)
    OBVIOUS
  <2> QED
    BY <1>3, <2>1
<1>5. Mirror
  BY <1>2, <1>3, <1>4 DEF Mirror
<1>6. job \in Jobs
  BY <1>1 DEF BenchInit
<1>7. PICK h : Halves(h)
  BY DEF Halves
<1>8. h \in Nat \ {0}
  BY <1>6, <1>7, CalledModes DEF Halves
<1>9. device.steady \in 0 .. h
  BY <1>3, <1>8
<1> QED
  BY <1>2, <1>5, <1>7, <1>8, <1>9 DEF SPIInv

LEMMA ClockingStep ==
  ASSUME ClockingInv, [SerialClock]_serialVars
  PROVE  /\ ClockingInv'
         /\ SPIJob => Clean
<1>1. CASE SerialClock
  <2>1. PICK lanes : BenchClock(lanes)
    BY <1>1 DEF SerialClock, SPIClock, UARTClock
  <2>2. OnBench' /\ job' = job
    BY <2>1, BenchStays, BenchPins DEF ClockingInv
  <2>3. CASE SPIJob
    <3>1. BenchClock(SPILanes) /\ DeviceStep
      BY <1>1, <2>3 DEF SerialClock, SPIClock
    <3>2. SPIInv' /\ Clean
      BY <2>3, <3>1, SPIStep DEF ClockingInv
    <3> QED
      BY <2>2, <3>2 DEF ClockingInv
  <2>4. CASE ~SPIJob
    BY <2>2, <2>4 DEF ClockingInv, SPIJob
  <2> QED
    BY <2>3, <2>4
<1>2. CASE UNCHANGED serialVars
  <2> USE <1>2 DEF serialVars, benchVars, spiVars, vars, syncVars, loaderVars, statusVars, pinVars,
             shiftVars, streamVars
  <2>1. OnBench'
    BY ImageStutters DEF ClockingInv, OnBench
  <2>2. /\ job' = job /\ running' = running /\ device' = device /\ pc' = pc
        /\ delay_left' = delay_left /\ out_enable' = out_enable /\ out_value' = out_value
    OBVIOUS
  <2>3. Clean
    BY <2>2 DEF Clean
  <2>4. ASSUME SPIJob PROVE SPIInv'
    <3>0. SPIInv /\ cpol' = cpol /\ cpha' = cpha
      BY <2>2, <2>4, PhaseStays DEF ClockingInv
    <3>1. Mirror'
      BY <2>2, <3>0 DEF SPIInv, Mirror
    <3>2. ASSUME NEW h \in Nat \ {0}, Halves(h), SPIAt(h)
          PROVE  SPIAt(h)'
      <4>1. (StreamPlace(h) => StreamPlace(h)') /\ (TransferPlace(h) => TransferPlace(h)')
        BY <2>2, <3>0 DEF StreamPlace, TransferPlace, SPIPlace, BitPlace, Driven, Idle, Chosen
      <4>2. \A mode : Modes(mode) => Modes(mode)'
        BY <3>0 DEF Modes
      <4> QED
        BY <2>2, <3>2, <4>1, <4>2 DEF SPIAt
    <3>3. PICK h \in Nat \ {0} : Halves(h) /\ device.steady \in 0 .. h /\ (running => SPIAt(h))
      BY <3>0 DEF SPIInv
    <3>4. Halves(h)' /\ device'.steady \in 0 .. h /\ (running' => SPIAt(h)')
      BY <2>2, <3>2, <3>3 DEF Halves
    <3> QED
      BY <2>2, <3>0, <3>1, <3>3, <3>4 DEF SPIInv
  <2> QED
    BY <2>1, <2>2, <2>3, <2>4 DEF ClockingInv, SPIJob
<1> QED
  BY <1>1, <1>2

\* The program that clocks the bus is where its place says and the device sees the
\* pins as they are, in every mode and bit order, for every half period, count and byte,
\* whatever the device answers and the host does.
THEOREM ClocksStayInPlace == SerialSpec => [](SPIJob => SPIInv)
<1>1. SerialInit => ClockingInv
  BY ClockingStarts
<1>2. ClockingInv /\ [SerialClock]_serialVars => ClockingInv'
  BY ClockingStep
<1>3. ClockingInv => (SPIJob => SPIInv)
  BY DEF ClockingInv
<1> QED
  BY <1>1, <1>2, <1>3, PTL DEF SerialSpec

\* MOSI has been steady for half a period when the device samples it and does not move
\* on that edge, also after a stall, and the device is selected and let go at the idle
\* level of the clock only, also when the program fails (tools/streaming.py:38-54,
\* tools/program.py:73-94, docs/streaming.md:123-124).
THEOREM EdgesStayClean == SerialSpec => EdgesAreClean
<1>1. SerialInit => ClockingInv
  BY ClockingStarts
<1>2. ClockingInv /\ [SerialClock]_serialVars => ClockingInv'
  BY ClockingStep
<1>3. ClockingInv /\ [SerialClock]_serialVars => [SPIJob => Clean]_<<benchVars, spiVars>>
  BY ClockingStep
<1> QED
  BY <1>1, <1>2, <1>3, PTL DEF SerialSpec, EdgesAreClean, Clean

(***************************************************************************)
(* Where the programs wait for the host.                                   *)
(***************************************************************************)
Waiting == {"PULL", "PUSH"}

LEMMA BitNeverWaits ==
  ASSUME NEW p, NEW B \in Nat, NEW h, BitWords(p, B, h), NEW a \in B .. B + 5
  PROVE  p[a + 1].op \notin Waiting
<1>1. a + 1 \in {B + 1, B + 2, B + 3, B + 4, B + 5, B + 6}
  BY ONLY B \in Nat, a \in B .. B + 5
<1>2. /\ p[B + 1].op \in {"PATCH", "OUT"} /\ p[B + 2].op \in {"PATCH", "OUT"}
      /\ p[B + 3].op = "PATCH" /\ p[B + 4].op \in {"PATCH", "IN"}
      /\ p[B + 5].op \in {"PATCH", "IN"} /\ p[B + 6].op = "DJNZ"
  BY DEF BitWords, Toggles, Puts, Waits
<1> QED
  BY ONLY <1>1, <1>2 DEF Waiting

LEMMA StreamWaits ==
  ASSUME NEW p, NEW h, StreamHas(p, h), StreamPlace(h), p[pc + 1].op \in Waiting
  PROVE  Driven /\ Idle /\ Chosen
<1>1. /\ BitWords(p, 4, h) /\ p[1].op = "STREAM" /\ p[2].op = "DRIVE" /\ p[3].op = "PATCH"
      /\ p[14].op = "HALT"
  BY DEF StreamHas, Starts, Selects
<1>2. pc \notin 4 .. 4 + 5
  BY ONLY <1>1, 4 \in Nat, p[pc + 1].op \in Waiting, BitNeverWaits
<1>3. pc \notin {0, 1, 2, 13}
  BY ONLY <1>1, p[pc + 1].op \in Waiting DEF Waiting
<1> QED
  BY <1>2, <1>3 DEF StreamPlace, SPIPlace, BitPlace

LEMMA TransferNeverWaits ==
  ASSUME NEW p, NEW h, TransferHas(p, h), TransferPlace(h)
  PROVE  p[pc + 1].op \notin Waiting
<1>1. /\ BitWords(p, 3, h) /\ p[1].op = "DRIVE" /\ p[2].op = "LOAD" /\ p[3].op = "PATCH"
      /\ p[10].op = "PATCH" /\ p[11].op = "HALT"
  BY DEF TransferHas, Starts, Selects
<1>2. pc \in {0, 1, 2, 9, 10} \/ pc \in 3 .. 3 + 5
  BY DEF TransferPlace, SPIPlace, BitPlace
<1>3. pc \in 3 .. 3 + 5 => p[pc + 1].op \notin Waiting
  BY ONLY <1>1, 3 \in Nat, BitNeverWaits
<1>4. pc \in {0, 1, 2, 9, 10} => p[pc + 1].op \notin Waiting
  BY ONLY <1>1 DEF Waiting
<1> QED
  BY ONLY <1>2, <1>3, <1>4

LEMMA TxStreamWaits ==
  ASSUME NEW b, TxStreamPlace(b), NEW count, NEW p, p = F!uart_tx_stream(count, b),
         p[pc + 1].op \in Waiting
  PROVE  Resting
<1>1. /\ p[1].op = "STREAM" /\ Drives(p[2], {0}, b) /\ p[3].op = "PULL"
      /\ Drives(p[4], {}, b) /\ p[5].op = "OUT" /\ p[6].op = "PATCH" /\ p[7].op = "DJNZ"
      /\ Drives(p[8], {0}, b) /\ p[9].op = "BYTE_LOOP" /\ p[10].op = "HALT"
  BY TxStreamWords
<1>2. pc \notin {0, 1, 3, 4, 5, 6, 7, 8, 9}
  BY ONLY <1>1, p[pc + 1].op \in Waiting DEF Waiting, Drives
<1>3. pc = 2 => Resting
  BY DEF TxStreamPlace
<1> QED
  BY <1>2, <1>3 DEF TxStreamPlace

LEMMA TxNeverWaits ==
  ASSUME NEW b, TxPlace(b), NEW byte, NEW p, p = F!uart_tx(byte, b)
  PROVE  p[pc + 1].op \notin Waiting
<1>1. p[12].op = "HALT" /\ \A i \in 1 .. 11 : p[i].op = "DRIVE"
  BY TxWords
<1>2. pc + 1 \in 1 .. 11 \/ pc + 1 = 12
  BY DEF TxPlace
<1> QED
  BY ONLY <1>1, <1>2 DEF Waiting

LEMMA StallsRest == SendingInv /\ ClockingInv => StallsAtRest
<1> SUFFICES ASSUME SendingInv, ClockingInv, Stalled
             PROVE  /\ SPIJob => device.selected /\ device.sck = cpol
                    /\ ~SPIJob => level = 1 \/ Receiving
  BY DEF StallsAtRest
<1>1. OnBench /\ running /\ instruction.op \in Waiting
  BY DEF SendingInv, Stalled, issue, Executing, Waiting
<1>2. PICK p : p = job.program
  OBVIOUS
<1>3. CASE SPIJob
  <2>1. SPIInv
    BY <1>3 DEF ClockingInv
  <2>2. PICK h \in Nat \ {0} : SPIAt(h)
    BY <1>1, <2>1 DEF SPIInv
  <2>3. CASE /\ StreamPlace(h)
             /\ \E count, mode, lsb : Modes(mode) /\ job.program = F!spi_stream(count, mode, lsb, h)
    <3>1. StreamHas(p, h)
      BY <1>2, <2>3, StreamWords
    <3>2. instruction = p[pc + 1]
      BY <1>1, <1>2, <2>3, <3>1, StreamInside, BenchFetch
    <3>3. Driven /\ Idle /\ Chosen
      BY <1>1, <2>3, <3>1, <3>2, StreamWaits
    <3>4. device.selected /\ (device.sck <=> cpol) /\ device.sck \in BOOLEAN
      BY <2>1, <3>3 DEF SPIInv, Mirror, Driven, Idle, Chosen
    <3> QED
      BY <1>3, <3>4, PhaseIsBoolean
  <2>4. CASE /\ TransferPlace(h)
             /\ \E byte, mode, lsb : Modes(mode) /\ job.program = F!spi_transfer(byte, mode, lsb, h)
    <3>1. TransferHas(p, h)
      BY <1>2, <2>4, TransferWords
    <3>2. instruction = p[pc + 1]
      BY <1>1, <1>2, <2>4, <3>1, TransferInside, BenchFetch
    <3> QED
      BY <1>1, <2>4, <3>1, <3>2, TransferNeverWaits
  <2> QED
    BY <2>2, <2>3, <2>4 DEF SPIAt
<1>4. CASE Sending
  <2>1. TxInv
    BY <1>4 DEF SendingInv
  <2>2. PICK b \in Nat \ {0} : TxAt(b)
    BY <1>1, <2>1 DEF TxInv
  <2>3. CASE TxStreamPlace(b) /\ \E count \in Byte : job.program = F!uart_tx_stream(count, b)
    <3>1. PICK count \in Byte : p = F!uart_tx_stream(count, b)
      BY <1>2, <2>3
    <3>2. instruction = p[pc + 1]
      BY <1>1, <1>2, <2>3, <3>1, TxStreamInside, BenchFetch
    <3>3. Resting
      BY <1>1, <2>3, <3>1, <3>2, TxStreamWaits
    <3> QED
      BY <1>4, <3>3 DEF Resting, Sending, SPIJob
  <2>4. CASE TxPlace(b) /\ \E byte \in Byte : job.program = F!uart_tx(byte, b)
    <3>1. PICK byte \in Byte : p = F!uart_tx(byte, b)
      BY <1>2, <2>4
    <3>2. instruction = p[pc + 1]
      BY <1>1, <1>2, <2>4, <3>1, TxInside, BenchFetch
    <3> QED
      BY <1>1, <2>4, <3>1, <3>2, TxNeverWaits
  <2> QED
    BY <2>2, <2>3, <2>4 DEF TxAt
<1>5. SPIJob \/ Sending \/ Receiving
  <2>1. job.kind \in {"spi", "tx", "rx"}
    BY <1>1, SerialAssumption DEF OnBench
  <2> QED
    BY <2>1 DEF SPIJob, Sending, Receiving
<1>6. CASE Receiving
  BY <1>6 DEF Receiving, SPIJob
<1> QED
  BY <1>3, <1>4, <1>5, <1>6

\* A program waits for the host, for a byte to send or for room for a received one, with
\* its line at rest: the device selected and the clock idle, or the line high
\* (docs/streaming.md:65-66).
THEOREM StallsAreAtRest == SerialSpec => []StallsAtRest
<1>1. SerialInit => SendingInv /\ ClockingInv
  BY SendingStarts, ClockingStarts
<1>2. SendingInv /\ ClockingInv /\ [SerialClock]_serialVars => SendingInv' /\ ClockingInv'
  BY SendingStep, ClockingStep
<1>3. SendingInv /\ ClockingInv => StallsAtRest
  BY StallsRest
<1> QED
  BY <1>1, <1>2, <1>3, PTL DEF SerialSpec

(***************************************************************************)
(* SPI: the bits of a byte on the wire, and in the shift registers.        *)
(***************************************************************************)
Pow(c) == IF c = 0 THEN 1 ELSE IF c = 1 THEN 2 ELSE IF c = 2 THEN 4 ELSE IF c = 3 THEN 8
          ELSE IF c = 4 THEN 16 ELSE IF c = 5 THEN 32 ELSE IF c = 6 THEN 64
          ELSE IF c = 7 THEN 128 ELSE 256

\* c bits of the byte have left, or c bits of the answer have come in.
SentPart(byte, c) == IF job.lsb THEN byte \div Pow(c) ELSE (byte * Pow(c)) % 256
GotPart(byte, c) == IF job.lsb THEN (byte % Pow(c)) * Pow(8 - c) ELSE byte \div Pow(8 - c)

(***************************************************************************)
(* SPI: how far the exchange is, n bytes and c bits.                       *)
(***************************************************************************)
\* The device has taken n bytes and b bits of the next.
Took(n, b) ==
  /\ device.heard \in Seq(Byte) /\ Len(device.heard) = n
  /\ \A i \in 1 .. n : device.heard[i] = job.sends[i]
  /\ device.bits \in Seq(BOOLEAN) /\ Len(device.bits) = b
  /\ \A i \in 1 .. b : device.bits[i] = WireBit(job.sends[n + 1], i - 1)
TookUpTo(n, b) == IF b = 8 THEN Took(n + 1, 0) ELSE Took(n, b)

\* The device answers with a byte, and shows its bit b.
Offering(n) == Len(served) = n + 1 /\ device.offer = served[n + 1]
Answering(n, b) == Offering(n) /\ device.miso = WireBit(served[n + 1], b)

\* What has been served when n bytes are through: one byte ahead of the bits, if the
\* device puts out a bit before the first edge.
ServedFor(n) == IF cpha \/ n = job.count THEN Len(served) = n ELSE Answering(n, 0)

TxIs(n, c) == tx_shift = SentPart(job.sends[n + 1], c)
RxIs(n, c) == rx_shift = IF c = 0 THEN 0 ELSE GotPart(served[n + 1], c)
OnWire(n, c) == MOSI \in out_value <=> WireBit(job.sends[n + 1], c)

\* Of bit c: whether it has been taken, put out and read, and the edges of it.
Stage(n, c, taken, out, read, edges) ==
  /\ TookUpTo(n, c + taken) /\ TxIs(n, c + out) /\ RxIs(n, c + read)
  /\ (out = 1 /\ taken = 0 => OnWire(n, c))
  /\ device.edges = 16 * n + 2 * c + edges

\* The levels the engine reads are the device's, two clocks after they changed.
Arrives(d, h) ==
  /\ d < h - 1 => (MISO \in input_meta.lanes <=> device.miso)
  /\ d < h - 2 => (MISO \in input_sync.lanes <=> device.miso)

LeadingStage(B, h, n, c) ==
  /\ pc = B => Stage(n, c, 0, 0, 0, 0) /\ Answering(n, c)
  /\ pc \in {B + 1, B + 2} => Stage(n, c, 0, 1, 0, 0) /\ Answering(n, c)
  /\ pc = B + 3 => Stage(n, c, 1, 1, 0, 1) /\ Answering(n, c) /\ Arrives(delay_left, h)
  /\ pc = B + 4 => Stage(n, c, 1, 1, 1, 1) /\ Answering(n, c)
  /\ pc = B + 5 => /\ Stage(n, c, 1, 1, 1, 2)
                   /\ IF c = 7 THEN ServedFor(n + 1) ELSE Answering(n, c + 1)

TrailingStage(B, h, n, c) ==
  /\ pc = B => Stage(n, c, 0, 0, 0, 0) /\ IF c = 0 THEN Len(served) = n ELSE Offering(n)
  /\ pc = B + 1 => Stage(n, c, 0, 0, 0, 1) /\ Answering(n, c)
  /\ pc \in {B + 2, B + 3} => Stage(n, c, 0, 1, 0, 1) /\ Answering(n, c)
  /\ pc = B + 4 => Stage(n, c, 1, 1, 0, 2) /\ Answering(n, c) /\ Arrives(delay_left, h)
  /\ pc = B + 5 => Stage(n, c, 1, 1, 1, 2) /\ Offering(n)

BitStage(B, h, n, c) ==
  /\ loop_count = 8 - c /\ device.selections = 1
  /\ IF cpha THEN TrailingStage(B, h, n, c) ELSE LeadingStage(B, h, n, c)

\* Before the first byte, between two bytes, and when the bits of a byte are through.
Untouched == Took(0, 0) /\ served = << >> /\ device.edges = 0 /\ device.selections = 0
Ready(n) ==
  Took(n, 0) /\ ServedFor(n) /\ device.edges = 16 * n /\ device.selections = 1
ByteRead(n) == Ready(n + 1) /\ rx_shift = served[n + 1]

(***************************************************************************)
(* SPI: what the host has handed over and taken.                           *)
(***************************************************************************)
Pulled == Len(job.bytes) - Len(unsent) - tx.used
Pushed == Len(got) + rx.used

StreamByte(h, n) ==
  /\ byte_count = job.count - n
  /\ Pulled = (IF pc = 3 THEN n ELSE n + 1)
  /\ Pushed = (IF pc = 11 THEN n + 1 ELSE n)
  /\ pc = 3 => Ready(n)
  /\ pc \in 4 .. 9 => \E c \in 0 .. 7 : BitStage(4, h, n, c)
  /\ pc \in {10, 11} => ByteRead(n)

StreamStage(h) ==
  /\ pc = 0 => ~stream_enabled /\ Untouched
  /\ pc # 0 => stream_enabled
  /\ pc \in {1, 2} => Untouched /\ byte_count = job.count /\ Pulled = 0 /\ Pushed = 0
  /\ pc \in 3 .. 11 => \E n \in 0 .. job.count - 1 : StreamByte(h, n)
  /\ pc \in {12, 13} => Ready(job.count) /\ Pushed = job.count

TransferStage(h) ==
  /\ ~stream_enabled
  /\ pc \in {0, 1, 2} => Untouched
  /\ pc = 2 => loop_count = 8 /\ TxIs(0, 0) /\ rx_shift = 0
  /\ pc \in 3 .. 8 => \E c \in 0 .. 7 : BitStage(3, h, 0, c)
  /\ pc \in {9, 10} => ByteRead(0)

Complete == byte_index = 0 /\ ~loader_error

\* One strobe at a time is on its way, and what it asks for can be done.
Able(pins) == IF pins.rewind THEN ~Empty(rx) ELSE unsent # << >> /\ ~Full(tx)
Strobes ==
  /\ input_meta.load => ~load /\ ~load_prev /\ stream_enabled /\ Able(input_meta)
  /\ load => ~load_prev /\ stream_enabled /\ Able(input_sync)
  /\ ~stream_enabled => unsent = job.bytes /\ got = << >>

\* From the k-th place on, a queue holds the items of a sequence that follow the a-th.
Carries(q, s, a) == \A k \in 0 .. q.used - 1 : q.mem[Ahead(q, k)] = s[a + k + 1]

Bytes ==
  /\ unsent \in Seq(Byte) /\ Pulled \in Nat
  /\ \A i \in 1 .. Len(unsent) : unsent[i] = job.bytes[Pulled + tx.used + i]
  /\ Carries(tx, job.bytes, Pulled)
  /\ got \in Seq(Byte) /\ served \in Seq(Byte) /\ Pushed <= Len(served)
  /\ \A i \in 1 .. Len(got) : got[i] = served[i]
  /\ Carries(rx, served, Len(got))

Done ==
  /\ ~fault /\ out_enable = {} /\ Ready(job.count)
  /\ IF job.streaming THEN Pushed = job.count ELSE rx_shift = served[1]

ExchangeInv ==
  /\ Complete /\ Strobes /\ Bytes
  /\ device.edges \in Nat /\ device.selections \in Nat
  /\ halted => run_prev
  /\ ~running => IF halted THEN Done ELSE Untouched /\ ~stream_enabled
  /\ running => IF job.streaming THEN StreamStage(job.half) ELSE TransferStage(job.half)

LEMMA Powers ==
  /\ 2 ^ 0 = 1 /\ 2 ^ 1 = 2 /\ 2 ^ 2 = 4 /\ 2 ^ 3 = 8 /\ 2 ^ 4 = 16 /\ 2 ^ 5 = 32 /\ 2 ^ 6 = 64
  /\ 2 ^ 7 = 128
BY SMT

LEMMA PowIsPower ==
  ASSUME NEW c \in 0 .. 7
  PROVE  2 ^ c = Pow(c) /\ Pow(c) \in Nat \ {0}
<1>1. CASE c = 0 BY <1>1, Powers DEF Pow
<1>2. CASE c = 1 BY <1>2, Powers DEF Pow
<1>3. CASE c = 2 BY <1>3, Powers DEF Pow
<1>4. CASE c = 3 BY <1>4, Powers DEF Pow
<1>5. CASE c = 4 BY <1>5, Powers DEF Pow
<1>6. CASE c = 5 BY <1>6, Powers DEF Pow
<1>7. CASE c = 6 BY <1>7, Powers DEF Pow
<1>8. CASE c = 7 BY <1>8, Powers DEF Pow
<1> QED
  BY <1>1, <1>2, <1>3, <1>4, <1>5, <1>6, <1>7, <1>8

\* Dividing by the powers of two, one bit at a time.
LEMMA DownLow ==
  ASSUME NEW byte \in Byte, NEW c \in 0 .. 7
  PROVE  /\ (byte \div Pow(c)) \div 2 = byte \div Pow(c + 1)
         /\ (byte \div Pow(c)) % 2 \in {0, 1}
<1>1. CASE c = 0
  BY <1>1 DEF Pow, Byte
<1>2. CASE c = 1
  BY <1>2 DEF Pow, Byte
<1>3. CASE c = 2
  BY <1>3 DEF Pow, Byte
<1>4. CASE c = 3
  BY <1>4 DEF Pow, Byte
<1>5. CASE c = 4
  BY <1>5 DEF Pow, Byte
<1>6. CASE c = 5
  BY <1>6 DEF Pow, Byte
<1>7. CASE c = 6
  BY <1>7 DEF Pow, Byte
<1>8. CASE c = 7
  BY <1>8 DEF Pow, Byte
<1> QED
  BY <1>1, <1>2, <1>3, <1>4, <1>5, <1>6, <1>7, <1>8

LEMMA UpHigh ==
  ASSUME NEW byte \in Byte, NEW c \in 0 .. 7
  PROVE  /\ ((byte * Pow(c)) % 256) \div 128 = (byte \div Pow(7 - c)) % 2
         /\ (2 * ((byte * Pow(c)) % 256)) % 256 = (byte * Pow(c + 1)) % 256
<1>1. CASE c = 0
  BY <1>1 DEF Pow, Byte
<1>2. CASE c = 1
  BY <1>2 DEF Pow, Byte
<1>3. CASE c = 2
  BY <1>3 DEF Pow, Byte
<1>4. CASE c = 3
  BY <1>4 DEF Pow, Byte
<1>5. CASE c = 4
  BY <1>5 DEF Pow, Byte
<1>6. CASE c = 5
  BY <1>6 DEF Pow, Byte
<1>7. CASE c = 6
  BY <1>7 DEF Pow, Byte
<1>8. CASE c = 7
  BY <1>8 DEF Pow, Byte
<1> QED
  BY <1>1, <1>2, <1>3, <1>4, <1>5, <1>6, <1>7, <1>8

LEMMA InLow ==
  ASSUME NEW byte \in Byte, NEW c \in 0 .. 7
  PROVE  128 * ((byte \div Pow(c)) % 2) + (((byte % Pow(c)) * Pow(8 - c)) \div 2)
         = (byte % Pow(c + 1)) * Pow(8 - (c + 1))
<1>1. CASE c = 0
  BY <1>1 DEF Pow, Byte
<1>2. CASE c = 1
  BY <1>2 DEF Pow, Byte
<1>3. CASE c = 2
  BY <1>3 DEF Pow, Byte
<1>4. CASE c = 3
  BY <1>4 DEF Pow, Byte
<1>5. CASE c = 4
  BY <1>5 DEF Pow, Byte
<1>6. CASE c = 5
  BY <1>6 DEF Pow, Byte
<1>7. CASE c = 6
  BY <1>7 DEF Pow, Byte
<1>8. CASE c = 7
  BY <1>8 DEF Pow, Byte
<1> QED
  BY <1>1, <1>2, <1>3, <1>4, <1>5, <1>6, <1>7, <1>8

LEMMA InHigh ==
  ASSUME NEW byte \in Byte, NEW c \in 0 .. 7
  PROVE  ((2 * (byte \div Pow(8 - c))) % 256) + ((byte \div Pow(7 - c)) % 2)
         = byte \div Pow(8 - (c + 1))
<1>1. CASE c = 0
  BY <1>1 DEF Pow, Byte
<1>2. CASE c = 1
  BY <1>2 DEF Pow, Byte
<1>3. CASE c = 2
  BY <1>3 DEF Pow, Byte
<1>4. CASE c = 3
  BY <1>4 DEF Pow, Byte
<1>5. CASE c = 4
  BY <1>5 DEF Pow, Byte
<1>6. CASE c = 5
  BY <1>6 DEF Pow, Byte
<1>7. CASE c = 6
  BY <1>7 DEF Pow, Byte
<1>8. CASE c = 7
  BY <1>8 DEF Pow, Byte
<1> QED
  BY <1>1, <1>2, <1>3, <1>4, <1>5, <1>6, <1>7, <1>8

\* A bit on the wire is the one that leaves the register.
LEMMA WireIsLeaving ==
  ASSUME NEW byte \in Byte, NEW c \in 0 .. 7, job.lsb \in BOOLEAN
  PROVE  /\ WireBit(byte, c) <=> Leaving(SentPart(byte, c), job.lsb) = 1
         /\ Shifted(SentPart(byte, c), job.lsb, 0) = SentPart(byte, c + 1)
<1>1. CASE job.lsb
  <2>1. 2 ^ c = Pow(c)
    BY PowIsPower
  <2>2. /\ (byte \div Pow(c)) \div 2 = byte \div Pow(c + 1)
        /\ (byte \div Pow(c)) % 2 \in {0, 1}
    BY DownLow
  <2>3. 128 * 0 + ((byte \div Pow(c)) \div 2) = (byte \div Pow(c)) \div 2
    <3>1. Pow(c) \in Nat \ {0}
      BY PowIsPower
    <3> QED
      BY <3>1 DEF Byte
  <2> QED
    BY <1>1, <2>1, <2>2, <2>3 DEF WireBit, Leaving, Shifted, SentPart
<1>2. CASE ~job.lsb
  <2>0. 7 - c \in 0 .. 7
    OBVIOUS
  <2>1. 2 ^ (7 - c) = Pow(7 - c)
    BY ONLY <2>0, PowIsPower
  <2>2. /\ ((byte * Pow(c)) % 256) \div 128 = (byte \div Pow(7 - c)) % 2
        /\ (2 * ((byte * Pow(c)) % 256)) % 256 = (byte * Pow(c + 1)) % 256
    BY UpHigh
  <2>3. ((2 * ((byte * Pow(c)) % 256)) % 256) + 0 = (byte * Pow(c + 1)) % 256
    <3>1. PICK x : x = (byte * Pow(c + 1)) % 256
      OBVIOUS
    <3>2. x \in Nat
      <4>1. Pow(c + 1) \in Nat
        BY DEF Pow
      <4> QED
        BY <3>1, <4>1 DEF Byte
    <3> QED
      BY <2>2, <3>1, <3>2
  <2> QED
    BY <1>2, <2>1, <2>2, <2>3 DEF WireBit, Leaving, Shifted, SentPart
<1> QED
  BY <1>1, <1>2

LEMMA FirstSent ==
  ASSUME NEW byte \in Byte, job.lsb \in BOOLEAN
  PROVE  SentPart(byte, 0) = byte
BY DEF SentPart, Pow, Byte

\* What comes in bit by bit is the byte that is answered.
LEMMA WireComesIn ==
  ASSUME NEW byte \in Byte, NEW c \in 0 .. 7, job.lsb \in BOOLEAN,
         NEW rx0, rx0 = IF c = 0 THEN 0 ELSE GotPart(byte, c)
  PROVE  Shifted(rx0, job.lsb, IF WireBit(byte, c) THEN 1 ELSE 0) = GotPart(byte, c + 1)
<1>1. CASE job.lsb
  <2>0. rx0 = (byte % Pow(c)) * Pow(8 - c)
    BY <1>1 DEF GotPart, Pow, Byte
  <2>1. 2 ^ c = Pow(c)
    BY PowIsPower
  <2>2. 128 * ((byte \div Pow(c)) % 2) + (((byte % Pow(c)) * Pow(8 - c)) \div 2)
        = (byte % Pow(c + 1)) * Pow(8 - (c + 1))
    BY InLow
  <2>3. (IF WireBit(byte, c) THEN 1 ELSE 0) = (byte \div Pow(c)) % 2
    BY <1>1, <2>1, DownLow DEF WireBit
  <2> QED
    BY <1>1, <2>0, <2>2, <2>3 DEF Shifted, GotPart
<1>2. CASE ~job.lsb
  <2>0. rx0 = byte \div Pow(8 - c)
    BY <1>2 DEF GotPart, Pow, Byte
  <2>9. 7 - c \in 0 .. 7
    OBVIOUS
  <2>1. 2 ^ (7 - c) = Pow(7 - c)
    BY ONLY <2>9, PowIsPower
  <2>2. ((2 * (byte \div Pow(8 - c))) % 256) + ((byte \div Pow(7 - c)) % 2)
        = byte \div Pow(8 - (c + 1))
    BY InHigh
  <2>3. (IF WireBit(byte, c) THEN 1 ELSE 0) = (byte \div Pow(7 - c)) % 2
    <3>1. 7 - c \in 0 .. 7
      OBVIOUS
    <3>2. (byte \div Pow(7 - c)) % 2 \in {0, 1}
      BY ONLY <3>1, byte \in Byte, DownLow
    <3> QED
      BY <1>2, <2>1, <3>2 DEF WireBit
  <2> QED
    BY <1>2, <2>0, <2>2, <2>3 DEF Shifted, GotPart
<1> QED
  BY <1>1, <1>2

LEMMA AllIn ==
  ASSUME NEW byte \in Byte, job.lsb \in BOOLEAN
  PROVE  GotPart(byte, 8) = byte
BY DEF GotPart, Pow, Byte

\* The device puts the eight bits together again.
LEMMA BitsMakeTheByte ==
  ASSUME NEW byte \in Byte, job.lsb \in BOOLEAN, NEW bits,
         \A i \in 1 .. 8 : bits[i] = WireBit(byte, i - 1)
  PROVE  WireByte(bits) = byte
<1> DEFINE bit(n) == IF bits[IF job.lsb THEN n + 1 ELSE 8 - n] THEN 1 ELSE 0
<1>1. ASSUME NEW n \in 0 .. 7 PROVE bit(n) = (byte \div (2 ^ n)) % 2
  <2>1. bits[IF job.lsb THEN n + 1 ELSE 8 - n] <=> (byte \div (2 ^ n)) % 2 = 1
    <3>1. CASE job.lsb
      <4>1. bits[n + 1] = WireBit(byte, n)
        <5>1. n + 1 \in 1 .. 8 /\ (n + 1) - 1 = n
          OBVIOUS
        <5> QED
          BY <5>1
      <4> QED
        BY <3>1, <4>1 DEF WireBit
    <3>2. CASE ~job.lsb
      <4>1. bits[8 - n] = WireBit(byte, 7 - n)
        <5>1. 8 - n \in 1 .. 8 /\ (8 - n) - 1 = 7 - n
          OBVIOUS
        <5> QED
          BY <5>1
      <4>2. 7 - (7 - n) = n
        OBVIOUS
      <4> QED
        BY <3>2, <4>1, <4>2 DEF WireBit
    <3> QED
      BY <3>1, <3>2
  <2>2. (byte \div (2 ^ n)) % 2 \in {0, 1}
    BY PowIsPower, DownLow
  <2> QED
    BY <2>1, <2>2
<1>2. /\ bit(0) = byte % 2 /\ bit(1) = (byte \div 2) % 2 /\ bit(2) = (byte \div 4) % 2
      /\ bit(3) = (byte \div 8) % 2 /\ bit(4) = (byte \div 16) % 2 /\ bit(5) = (byte \div 32) % 2
      /\ bit(6) = (byte \div 64) % 2 /\ bit(7) = (byte \div 128) % 2
  <2> HIDE DEF bit
  <2>1. byte \div 1 = byte
    BY DEF Byte
  <2> QED
    BY <1>1, <2>1, Powers
<1>3. byte = (byte % 2) + 2 * ((byte \div 2) % 2) + 4 * ((byte \div 4) % 2)
             + 8 * ((byte \div 8) % 2) + 16 * ((byte \div 16) % 2)
             + 32 * ((byte \div 32) % 2) + 64 * ((byte \div 64) % 2)
             + 128 * ((byte \div 128) % 2)
  BY DEF Byte
<1>4. WireByte(bits) = bit(0) + 2 * bit(1) + 4 * bit(2) + 8 * bit(3) + 16 * bit(4) + 32 * bit(5)
                       + 64 * bit(6) + 128 * bit(7)
  BY DEF WireByte
<1> HIDE DEF bit
<1> QED
  BY <1>2, <1>3, <1>4

\* A clock edge of a queue takes its place in the sequence along.
LEMMA EdgeCarries ==
  ASSUME NEW S, NEW r \in RingOf(S), NEW push \in BOOLEAN, NEW pop \in BOOLEAN, NEW item,
         push => ~Full(r), pop => ~Empty(r), Coherent(r),
         NEW s, NEW a \in Nat, Carries(r, s, a), push => item = s[a + r.used + 1]
  PROVE  Carries(Edge(r, push, pop, item), s, IF pop THEN a + 1 ELSE a)
<1> DEFINE e == Edge(r, push, pop, item)
<1> SUFFICES ASSUME NEW k \in 0 .. e.used - 1
             PROVE  e.mem[Ahead(e, k)] = s[(IF pop THEN a + 1 ELSE a) + k + 1]
  BY DEF Carries
<1>1. e.used \in Nat /\ k \in Nat /\ k < Depth /\ e.rd \in Slots
  BY DepthAssumption DEF RingOf, Edge, Slots, Succ, Full, Empty
<1> DEFINE j == IF pop THEN k + 1 ELSE k
<1>2. Ahead(e, k) = IF j < Depth THEN Ahead(r, j) ELSE r.rd
  <2>0. e.rd = IF pop THEN Succ(r.rd) ELSE r.rd
    BY DEF Edge
  <2>1. CASE pop
    BY <1>1, <2>0, <2>1, DepthAssumption DEF RingOf, Slots, Succ, Ahead
  <2>2. CASE ~pop
    BY <1>1, <2>0, <2>2, DepthAssumption DEF RingOf, Slots, Succ, Ahead
  <2> QED
    BY <2>1, <2>2
<1>0. (IF pop THEN a + 1 ELSE a) + k + 1 = a + j + 1 /\ j \in Nat
  <2>1. CASE pop BY <1>1, <2>1
  <2>2. CASE ~pop BY <1>1, <2>2
  <2> QED BY <2>1, <2>2
<1>3. CASE j < r.used
  <2>1. Ahead(e, k) = Ahead(r, j) /\ j \in 0 .. r.used - 1 /\ Ahead(r, j) \in Slots
    BY <1>1, <1>2, <1>3, DepthAssumption, AheadIsSlot DEF RingOf
  <2>2. r.mem[Ahead(r, j)] = s[a + j + 1]
    <3> HIDE DEF j
    <3> QED
      BY <2>1 DEF Carries
  <2>3. push => r.wr # Ahead(r, j)
    <3> HIDE DEF j
    <3>1. push => r.wr = Ahead(r, r.used) /\ r.used < Depth /\ r.used \in Nat
      BY DepthAssumption DEF RingOf, Coherent, Full
    <3>2. ASSUME push, Ahead(r, r.used) = Ahead(r, j) PROVE FALSE
      <4>1. r.used \in 0 .. Depth - 1 /\ j \in 0 .. Depth - 1
        BY <2>1, <3>1, <3>2, DepthAssumption
      <4>2. r.used = j
        BY <3>2, <4>1, AheadInjective
      <4> QED
        BY <1>3, <3>1, <3>2, <4>2
    <3> QED
      BY <3>1, <3>2
  <2>4. e.mem[Ahead(r, j)] = r.mem[Ahead(r, j)]
    BY <2>1, <2>3 DEF Edge, RingOf
  <2> QED
    BY <1>0, <2>1, <2>2, <2>4
<1>4. CASE ~(j < r.used)
  <2>1. push /\ j = r.used /\ j < Depth
    BY <1>1, <1>4, DepthAssumption DEF Edge, RingOf, Full, Empty
  <2>2. Ahead(e, k) = r.wr
    BY <2>1, <1>2 DEF Coherent, Full
  <2>3. e.mem[r.wr] = item
    BY <2>1 DEF Edge, RingOf
  <2> QED
    BY <1>0, <2>1, <2>2, <2>3
<1> QED
  BY <1>3, <1>4, <1>1 DEF RingOf

LEMMA FrontCarried ==
  ASSUME NEW S, NEW r \in RingOf(S), ~Empty(r), NEW s, NEW a \in Nat, Carries(r, s, a)
  PROVE  Front(r) = s[a + 1]
<1>1. 0 \in 0 .. r.used - 1 /\ Ahead(r, 0) = r.rd
  BY DepthAssumption DEF RingOf, Ahead, Slots, Empty
<1>2. a + 0 + 1 = a + 1
  OBVIOUS
<1> QED
  BY <1>1, <1>2 DEF Carries, Front

(***************************************************************************)
(* SPI: what a clock does to what the device has seen and answered.        *)
(***************************************************************************)
DeviceKeeps ==
  /\ device'.bits = device.bits /\ device'.heard = device.heard
  /\ device'.offer = device.offer /\ device'.miso = device.miso /\ served' = served
DeviceOffers ==
  /\ device'.bits = device.bits /\ device'.heard = device.heard
  /\ IF device.bits = << >> /\ Len(device.heard) < job.count
     THEN \E byte \in Answers : /\ device'.offer = byte /\ device'.miso = WireBit(byte, 0)
                                /\ served' = Append(served, byte)
     ELSE /\ device'.offer = device.offer /\ served' = served
          /\ device'.miso = IF device.bits = << >> THEN device.miso
                            ELSE WireBit(device.offer, Len(device.bits))
DeviceTakes ==
  /\ device'.offer = device.offer /\ device'.miso = device.miso /\ served' = served
  /\ LET bits == Append(device.bits, device'.mosi)
     IN  IF Len(bits) < 8 THEN device'.bits = bits /\ device'.heard = device.heard
         ELSE device'.bits = << >> /\ device'.heard = Append(device.heard, WireByte(bits))

SeesEdge == device'.selected /\ device'.sck # device.sck
IsSelected == device'.selected /\ ~device.selected

LEMMA DeviceActs ==
  ASSUME Mirror, DeviceStep, job' = job, device.edges \in Nat, device.selections \in Nat
  PROVE  /\ device'.edges = device.edges + (IF SeesEdge THEN 1 ELSE 0)
         /\ device'.selections = device.selections + (IF IsSelected THEN 1 ELSE 0)
         /\ IF IsSelected /\ ~cpha THEN DeviceOffers
            ELSE IF SeesEdge /\ Sampling(device'.sck) THEN DeviceTakes
            ELSE IF SeesEdge THEN DeviceOffers
            ELSE DeviceKeeps
<1> DEFINE high(lane) == lane \in out_value'
           driven(lane) == lane \in out_enable'
           selected == driven(CS) /\ ~high(CS)
           sck == IF driven(SCK) THEN high(SCK) ELSE cpol
           edge == selected /\ sck # device.sck
           now == [device EXCEPT !.selected = selected, !.sck = sck, !.mosi = high(MOSI),
                     !.steady = IF high(MOSI) # device.mosi THEN 0
                                ELSE IF @ < job.half THEN @ + 1 ELSE @,
                     !.edges = IF edge THEN @ + 1 ELSE @,
                     !.selections = IF selected /\ ~device.selected THEN @ + 1 ELSE @]
<1>1. /\ DeviceFields \subseteq DOMAIN now
      /\ now.selected = selected /\ now.sck = sck /\ now.mosi = high(MOSI)
      /\ now.edges = (IF edge THEN device.edges + 1 ELSE device.edges)
      /\ now.selections = (IF selected /\ ~device.selected THEN device.selections + 1
                           ELSE device.selections)
      /\ now.bits = device.bits /\ now.heard = device.heard /\ now.offer = device.offer
      /\ now.miso = device.miso
  BY DEF Mirror, DeviceFields
<1>2. IF selected /\ ~device.selected /\ ~cpha THEN Offers(now)
      ELSE IF edge /\ Sampling(sck) THEN Takes(now)
      ELSE IF edge THEN Offers(now)
      ELSE device' = now /\ served' = served
  BY DEF DeviceStep
<1> HIDE DEF now
<1> DEFINE Same == /\ device'.selected = now.selected /\ device'.sck = now.sck
                   /\ device'.mosi = now.mosi /\ device'.edges = now.edges
                   /\ device'.selections = now.selections
<1>3. Offers(now) => Same /\ DeviceOffers
  <2> SUFFICES ASSUME Offers(now) PROVE Same /\ DeviceOffers
    OBVIOUS
  <2>1. CASE now.bits = << >> /\ Len(now.heard) < job.count
    <3>1. PICK byte \in Answers : /\ device' = [now EXCEPT !.offer = byte, !.miso = WireBit(byte, 0)]
                                  /\ served' = Append(served, byte)
      BY <2>1 DEF Offers
    <3>2. /\ Same /\ device'.bits = now.bits /\ device'.heard = now.heard
          /\ device'.offer = byte /\ device'.miso = WireBit(byte, 0)
      BY <1>1, <3>1 DEF DeviceFields
    <3> QED
      BY <1>1, <2>1, <3>1, <3>2 DEF DeviceOffers
  <2>2. CASE ~(now.bits = << >> /\ Len(now.heard) < job.count)
    <3>1. /\ device' = IF now.bits = << >> THEN now
                       ELSE [now EXCEPT !.miso = WireBit(now.offer, Len(now.bits))]
          /\ served' = served
      BY <2>2 DEF Offers
    <3>2. /\ Same /\ device'.bits = now.bits /\ device'.heard = now.heard
          /\ device'.offer = now.offer
          /\ device'.miso = IF now.bits = << >> THEN now.miso
                            ELSE WireBit(now.offer, Len(now.bits))
      BY <1>1, <3>1 DEF DeviceFields
    <3> QED
      BY <1>1, <2>2, <3>1, <3>2 DEF DeviceOffers
  <2> QED
    BY <2>1, <2>2
<1>4. Takes(now) => Same /\ DeviceTakes
  <2> SUFFICES ASSUME Takes(now) PROVE Same /\ DeviceTakes
    OBVIOUS
  <2> DEFINE bits == Append(now.bits, now.mosi)
  <2>1. /\ device' = IF Len(bits) < 8 THEN [now EXCEPT !.bits = bits]
                     ELSE [now EXCEPT !.bits = << >>, !.heard = Append(now.heard, WireByte(bits))]
        /\ served' = served
    BY DEF Takes
  <2>2. /\ Same /\ device'.offer = now.offer /\ device'.miso = now.miso
        /\ device'.bits = IF Len(bits) < 8 THEN bits ELSE << >>
        /\ device'.heard = IF Len(bits) < 8 THEN now.heard ELSE Append(now.heard, WireByte(bits))
    <3> HIDE DEF bits
    <3> QED
      BY <1>1, <2>1 DEF DeviceFields
  <2> QED
    BY <1>1, <2>1, <2>2 DEF DeviceTakes
<1>5. device' = now /\ served' = served => Same /\ DeviceKeeps
  BY <1>1 DEF DeviceKeeps
<1>6. Same
  BY <1>2, <1>3, <1>4, <1>5
<1>7. (SeesEdge <=> edge) /\ (IsSelected <=> selected /\ ~device.selected) /\ device'.sck = sck
  BY <1>1, <1>6 DEF SeesEdge, IsSelected
<1> HIDE DEF Same, edge, selected, sck
<1>8. /\ device'.edges = device.edges + (IF SeesEdge THEN 1 ELSE 0)
      /\ device'.selections = device.selections + (IF IsSelected THEN 1 ELSE 0)
  BY <1>1, <1>6, <1>7 DEF Same
<1> QED
  BY <1>2, <1>3, <1>4, <1>5, <1>7, <1>8

(***************************************************************************)
(* SPI: what is exchanged, seen from the device.                           *)
(***************************************************************************)
SPITerms ==
  /\ job.lsb \in BOOLEAN /\ job.streaming \in BOOLEAN
  /\ job.count \in 1 .. 255 /\ job.sends \in Seq(Byte) /\ Len(job.sends) = job.count
  /\ job.bytes \in Seq(Byte) /\ job.bytes = (IF job.streaming THEN job.sends ELSE << >>)
  /\ job.half \in 4 .. 8192

\* What has been answered stays answered.
Grows ==
  /\ served' \in Seq(Byte) /\ Len(served') >= Len(served)
  /\ \A i \in 1 .. Len(served) : served'[i] = served[i]

LEMMA GrowsOrStays ==
  ASSUME served \in Seq(Byte),
         served' = served \/ \E byte \in Answers : served' = Append(served, byte)
  PROVE  Grows
<1>1. CASE served' = served
  BY <1>1 DEF Grows
<1>2. CASE \E byte \in Answers : served' = Append(served, byte)
  <2>1. PICK byte \in Byte : served' = Append(served, byte)
    BY <1>2, AnswersAssumption
  <2> QED
    BY <2>1 DEF Grows
<1> QED
  BY <1>1, <1>2

LEMMA WireStays ==
  ASSUME job' = job, NEW byte, NEW i
  PROVE  WireBit(byte, i)' <=> WireBit(byte, i)
BY DEF WireBit

\* A clock without an edge.
LEMMA KeptTook ==
  ASSUME job' = job, device'.bits = device.bits, device'.heard = device.heard,
         NEW n, NEW b, Took(n, b)
  PROVE  Took(n, b)'
BY DEF Took, WireBit

LEMMA KeptAnswer ==
  ASSUME job' = job, device'.offer = device.offer, served' = served, NEW n, Offering(n)
  PROVE  Offering(n)' /\ \A b : device'.miso = device.miso /\ Answering(n, b) => Answering(n, b)'
BY DEF Offering, Answering, WireBit

\* The device takes a bit, and with the eighth a byte.
LEMMA TakesBit ==
  ASSUME job' = job, SPITerms, NEW n \in 0 .. job.count - 1, NEW b \in 0 .. 7, Took(n, b),
         DeviceTakes, device'.mosi \in BOOLEAN, device'.mosi <=> WireBit(job.sends[n + 1], b)
  PROVE  TookUpTo(n, b + 1)'
<1> DEFINE byte == job.sends[n + 1]
           bits == Append(device.bits, device'.mosi)
<1>1. byte \in Byte /\ job'.sends[n + 1] = byte
  BY DEF SPITerms
<1>2. /\ bits \in Seq(BOOLEAN) /\ Len(bits) = b + 1 /\ bits[b + 1] = device'.mosi
      /\ \A i \in 1 .. b : bits[i] = device.bits[i]
  BY DEF Took
<1>3. \A i \in 1 .. b + 1 : bits[i] = WireBit(byte, i - 1)
  <2> SUFFICES ASSUME NEW i \in 1 .. b + 1 PROVE bits[i] = WireBit(byte, i - 1)
    OBVIOUS
  <2>1. CASE i = b + 1
    <3>1. i - 1 = b /\ WireBit(byte, b) \in BOOLEAN
      BY <2>1 DEF WireBit
    <3> QED
      BY <1>2, <2>1, <3>1
  <2>2. CASE i # b + 1
    <3>1. i \in 1 .. b
      BY <2>2
    <3>2. device.bits[i] = WireBit(byte, i - 1)
      BY <3>1 DEF Took
    <3> QED
      BY <1>2, <3>1, <3>2
  <2> QED
    BY <2>1, <2>2
<1>4. CASE b < 7
  <2>1. device'.bits = bits /\ device'.heard = device.heard
    BY <1>2, <1>4 DEF DeviceTakes
  <2>2. \A i \in 1 .. b + 1 : device'.bits[i] = WireBit(job.sends[n + 1], i - 1)'
    <3> SUFFICES ASSUME NEW i \in 1 .. b + 1
                 PROVE  device'.bits[i] = WireBit(job.sends[n + 1], i - 1)'
      OBVIOUS
    <3>1. WireBit(job.sends[n + 1], i - 1)' = WireBit(byte, i - 1)
      BY DEF WireBit
    <3>2. bits[i] = WireBit(byte, i - 1)
      BY <1>3
    <3> HIDE DEF bits, byte
    <3> QED
      BY <2>1, <3>1, <3>2
  <2>3. /\ device'.heard \in Seq(Byte) /\ Len(device'.heard) = n
        /\ \A i \in 1 .. n : device'.heard[i] = job'.sends[i]
    BY <2>1 DEF Took
  <2>4. device'.bits \in Seq(BOOLEAN) /\ Len(device'.bits) = b + 1
    BY <1>2, <2>1
  <2>5. Took(n, b + 1)'
    BY <2>2, <2>3, <2>4 DEF Took
  <2>6. b + 1 # 8
    BY <1>4
  <2> QED
    BY <2>5, <2>6 DEF TookUpTo
<1>5. CASE b = 7
  <2>1. device'.bits = << >> /\ device'.heard = Append(device.heard, WireByte(bits))
    BY <1>2, <1>5 DEF DeviceTakes
  <2>2. WireByte(bits) = byte
    <3>1. \A i \in 1 .. 8 : bits[i] = WireBit(byte, i - 1)
      <4>1. b + 1 = 8
        BY <1>5
      <4> HIDE DEF bits, byte
      <4> QED
        BY <1>3, <4>1
    <3> HIDE DEF bits, byte
    <3> QED
      BY <1>1, <3>1, BitsMakeTheByte DEF SPITerms
  <2>3. device'.heard = Append(device.heard, byte)
    BY <2>1, <2>2
  <2>4. /\ device'.heard \in Seq(Byte) /\ Len(device'.heard) = n + 1
        /\ device'.heard[n + 1] = byte /\ \A i \in 1 .. n : device'.heard[i] = device.heard[i]
    <3> HIDE DEF byte
    <3> QED
      BY <1>1, <2>3 DEF Took
  <2>5. \A i \in 1 .. n + 1 : device'.heard[i] = job'.sends[i]
    BY <1>1, <2>4 DEF Took
  <2>6. device'.bits \in Seq(BOOLEAN) /\ Len(device'.bits) = 0
    BY <2>1
  <2>7. Took(n + 1, 0)'
    BY <2>4, <2>5, <2>6 DEF Took
  <2>8. b + 1 = 8
    BY <1>5
  <2> QED
    BY <2>7, <2>8 DEF TookUpTo
<1> QED
  BY <1>4, <1>5

\* The device puts out its next bit.
LEMMA OffersBit ==
  ASSUME job' = job, NEW n, NEW b \in 1 .. 7, Took(n, b), Offering(n), DeviceOffers
  PROVE  Took(n, b)' /\ Answering(n, b)' /\ served' = served
<1>1. device.bits # << >> /\ Len(device.bits) = b
  BY DEF Took
<1>2. /\ device'.bits = device.bits /\ device'.heard = device.heard
      /\ device'.offer = device.offer /\ served' = served
      /\ device'.miso = WireBit(device.offer, b)
  BY <1>1 DEF DeviceOffers
<1>3. Took(n, b)' /\ Offering(n)'
  BY <1>2, KeptTook, KeptAnswer
<1>4. device'.miso = WireBit(served[n + 1], b)'
  BY <1>2 DEF Offering, WireBit
<1> QED
  BY <1>2, <1>3, <1>4 DEF Answering

\* It begins a byte.
LEMMA OffersByte ==
  ASSUME job' = job, SPITerms, NEW n \in Nat, n < job.count, Took(n, 0), Len(served) = n,
         served \in Seq(Byte), DeviceOffers
  PROVE  Took(n, 0)' /\ Answering(n, 0)' /\ Grows
<1>1. device.bits = << >> /\ Len(device.heard) < job.count
  BY DEF Took
<1>2. PICK byte \in Answers : /\ device'.offer = byte /\ device'.miso = WireBit(byte, 0)
                              /\ served' = Append(served, byte)
  BY <1>1 DEF DeviceOffers
<1>3. device'.bits = device.bits /\ device'.heard = device.heard
  BY DEF DeviceOffers
<1>4. Took(n, 0)' /\ Grows
  BY <1>2, <1>3, KeptTook, GrowsOrStays
<1>5. byte \in Byte /\ Len(served') = n + 1 /\ served'[n + 1] = byte
  BY <1>2, AnswersAssumption
<1>6. device'.miso = WireBit(served[n + 1], 0)'
  BY <1>2, <1>5 DEF WireBit
<1> QED
  BY <1>2, <1>4, <1>5, <1>6 DEF Answering, Offering

\* It has answered everything.
LEMMA OffersNothing ==
  ASSUME job' = job, SPITerms, Took(job.count, 0), DeviceOffers
  PROVE  Took(job.count, 0)' /\ served' = served
<1>1. device.bits = << >> /\ ~(Len(device.heard) < job.count)
  BY DEF Took, SPITerms
<1>2. device'.bits = device.bits /\ device'.heard = device.heard /\ served' = served
  BY <1>1 DEF DeviceOffers
<1>3. \A n : Took(n, 0) => Took(n, 0)'
  BY <1>2, KeptTook
<1>4. Took(job.count, 0)'
  BY <1>3
<1> QED
  BY <1>2, <1>4

(***************************************************************************)
(* What a word does to the registers of the data.                          *)
(***************************************************************************)
Works(w) ==
  \/ w.op \in {"DRIVE", "PATCH"} /\ UNCHANGED <<statusVars, shiftVars, streamVars>>
  \/ /\ w.op = "OUT" /\ tx_shift' = Shifted(tx_shift, w.lsb, 0)
     /\ (w.lane \in out_value' <=> Leaving(tx_shift, w.lsb) = 1 /\ ~w.drain)
     /\ UNCHANGED <<statusVars, rx_shift, loop_count, streamVars>>
  \/ /\ w.op = "IN"
     /\ rx_shift' = Shifted(rx_shift, w.lsb, IF w.lane \in input_sync.lanes THEN 1 ELSE 0)
     /\ UNCHANGED <<statusVars, tx_shift, loop_count, streamVars>>
  \/ w.op = "DJNZ" /\ UNCHANGED <<statusVars, tx_shift, rx_shift, streamVars>>
  \/ /\ w.op = "LOAD" /\ tx_shift' = w.byte /\ loop_count' = w.count /\ rx_shift' = 0
     /\ UNCHANGED <<statusVars, streamVars>>
  \/ /\ w.op = "STREAM" /\ stream_enabled' = TRUE /\ byte_count' = w.count
     /\ UNCHANGED <<statusVars, shiftVars>>
  \/ /\ w.op = "PULL" /\ UNCHANGED <<statusVars, streamVars>>
     /\ IF Empty(tx) THEN pc' = pc /\ UNCHANGED shiftVars
        ELSE pc' = pc + 1 /\ tx_shift' = Front(tx) /\ loop_count' = 8 /\ rx_shift' = 0
  \/ /\ w.op = "PUSH" /\ UNCHANGED <<statusVars, shiftVars, streamVars>>
     /\ pc' = IF Full(rx) THEN pc ELSE pc + 1
  \/ /\ w.op = "BYTE_LOOP" /\ byte_count' = byte_count - 1
     /\ pc' = (IF byte_count = 1 THEN pc + 1 ELSE w.target)
     /\ UNCHANGED <<statusVars, shiftVars, stream_enabled, capture_mask>>
  \/ /\ w.op = "HALT" /\ ~running' /\ halted' /\ out_enable' = {} /\ out_value' = out_value
     /\ UNCHANGED <<fault, shiftVars, streamVars>>

\* The words that are not refused in this state.
Allowed(w) ==
  /\ w.op \in {"OUT", "IN"} => w.lane \in Lanes
  /\ w.op = "DJNZ" => loop_count # 0
  /\ w.op \in {"PULL", "PUSH", "BYTE_LOOP"} => stream_enabled
  /\ w.op = "BYTE_LOOP" => byte_count # 0
  /\ w.op = "STREAM" => w.count # 0

LEMMA WordWorks ==
  ASSUME Steps, running, delay_left = 0, pc < length, instruction.op \in SerialOps,
         pc \in Nat, length \in Nat, (pc + 1) % (2 * MemWords) = pc + 1, Allowed(instruction)
  PROVE  Works(instruction)
<1> USE DEF Runs, Is
<1>1. issue
  BY StepsAreLate DEF issue, Executing
<1>2. ~Rejected
  BY DEF Rejected, BadLane, TimesOut, Conflicts, NotStreaming, LoopExhausted, SerialOps, Allowed
<1>3. ~Reject /\ ~Delay /\ ~PastEnd /\ ~Halted
  BY <1>1, <1>2 DEF Reject, Delay, PastEnd, Halted
<1>4. ~(Wait \/ Jump \/ Branch \/ Sample \/ CheckTx \/ LastByte \/ Capture)
  BY DEF Wait, Jump, Branch, Sample, CheckTx, LastByte, Capture, SerialOps
<1>5. \/ Drive \/ Patch \/ Out \/ In \/ Djnz \/ Stream \/ Load \/ PullReady \/ PushReady
      \/ Stall \/ ByteLoop \/ Halt
  BY <1>3, <1>4 DEF Steps
<1> USE DEF Works, Advance, Goto, shiftVars, streamVars
<1>6. CASE Drive BY <1>6 DEF Drive
<1>7. CASE Patch BY <1>7 DEF Patch
<1>8. CASE Out
  <2>1. /\ instruction.op = "OUT" /\ tx_shift' = Shifted(tx_shift, instruction.lsb, 0)
        /\ UNCHANGED <<statusVars, rx_shift, loop_count, streamVars>>
    BY <1>8 DEF Out
  <2>2. out_value' = IF Leaving(tx_shift, instruction.lsb) = 1 /\ ~instruction.drain
                     THEN out_value \cup {instruction.lane} ELSE out_value \ {instruction.lane}
    BY <1>8 DEF Out
  <2>3. instruction.lane \in out_value' <=>
          Leaving(tx_shift, instruction.lsb) = 1 /\ ~instruction.drain
    BY <2>2
  <2> QED
    BY <2>1, <2>3
<1>9. CASE In BY <1>9 DEF In
<1>10. CASE Djnz BY <1>10 DEF Djnz
<1>11. CASE Stream BY <1>11 DEF Stream
<1>12. CASE Load BY <1>12 DEF Load
<1>13. CASE PullReady BY <1>13 DEF PullReady
<1>14. CASE PushReady BY <1>14 DEF PushReady
<1>15. CASE Stall BY <1>15 DEF Stall
<1>16. CASE ByteLoop BY <1>16 DEF ByteLoop
<1>17. CASE Halt BY <1>17 DEF Halt
<1> QED
  BY <1>5, <1>6, <1>7, <1>8, <1>9, <1>10, <1>11, <1>12, <1>13, <1>14, <1>15, <1>16, <1>17

\* A clock of the run, and what it takes from one queue and puts into the other.
LEMMA DataClock ==
  ASSUME OnBench, NEW lanes, BenchClock(lanes), running, NEW w,
         pc \in 0 .. Len(job.program) - 1, job.program[pc + 1].op \in SerialOps,
         w = job.program[pc + 1]
  PROVE  /\ run /\ run_prev
         /\ delay_left # 0 => /\ ~tx_pop /\ ~rx_push
                              /\ UNCHANGED <<statusVars, shiftVars, streamVars>>
         /\ delay_left = 0 =>
              /\ Allowed(w) => Works(w)
              /\ tx_pop <=> stream_enabled /\ w.op = "PULL" /\ ~Empty(tx)
              /\ rx_push <=> stream_enabled /\ w.op = "PUSH" /\ ~Full(rx)
<1>1. run_prev /\ run /\ Steps
  BY BenchPins, ThreeClocks DEF OnBench, InStore, RunOnly, Stopped, Start
<1>2. /\ instruction = w /\ pc < length /\ pc \in Nat /\ length \in Nat
      /\ (pc + 1) % (2 * MemWords) = pc + 1
  BY BenchFetch
<1>3. delay_left # 0 => UNCHANGED <<statusVars, shiftVars, streamVars>> /\ ~issue
  BY <1>1, DelayClock DEF Delay, issue
<1>4. delay_left = 0 => (Allowed(w) => Works(w)) /\ issue
  BY <1>1, <1>2, WordWorks DEF issue, Executing
<1> QED
  BY <1>1, <1>2, <1>3, <1>4 DEF tx_pop, rx_push

(***************************************************************************)
(* SPI: the host's bytes on their way.                                     *)
(***************************************************************************)
HostInv == Inv /\ Complete /\ Strobes /\ Bytes

LEMMA ImageIsComplete ==
  ASSUME OnBench, NEW lanes, BenchClock(lanes), Complete
  PROVE  Complete'
<1>1. Loader
  BY BenchPins, ThreeClocks DEF OnBench
<1>2. UNCHANGED loaderVars
  BY <1>1 DEF Loader, Rewind, Overrun, TakeByte, CompleteWord, NoStrobe, LoadStrobe, OnBench,
     InStore, RunOnly
<1> QED
  BY <1>2 DEF Complete, loaderVars

\* Before the run the queues are empty and the host is silent.
LEMMA SilentClock ==
  ASSUME OnBench, NEW lanes, BenchClock(lanes), Inv, ~(run /\ run_prev)
  PROVE  /\ ~stream_enabled /\ ~stream_enabled' /\ ~host_strobe /\ ~tx_pop /\ ~rx_push
         /\ ~input_meta'.load /\ ~input_sync'.load
         /\ tx' = Cleared(tx) /\ rx' = Cleared(rx) /\ Empty(tx) /\ Empty(rx)
         /\ unsent' = unsent /\ got' = got
<1>1. Next /\ RunOnly
  BY BenchPins DEF OnBench, InStore
<1>2. ~stream_enabled /\ ~input_meta.load
  BY <1>1 DEF RunOnly
<1>3. ClearQueues /\ ~stream_enabled' /\ input_sync' = input_meta
  BY <1>1, ThreeClocks DEF OnBench, Stopped, Start, Abort, ClearExecution, Synchronize
<1>4. ~input_meta'.load
  BY <1>2, BenchPins DEF RunPins
<1>5. Empty(tx) /\ Empty(rx)
  BY <1>2 DEF Inv, StreamingGate
<1>6. ~host_strobe /\ ~tx_pop /\ ~rx_push
  BY <1>2 DEF host_strobe, tx_pop, rx_push
<1>7. unsent' = unsent /\ got' = got
  BY <1>6 DEF BenchClock, rx_pop, command
<1> QED
  BY <1>2, <1>3, <1>4, <1>5, <1>6, <1>7 DEF ClearQueues

\* A clock of the run: the queues, and what the host put on its pins.
LEMMA ServedClock ==
  ASSUME OnBench, NEW lanes, BenchClock(lanes), Inv, run, run_prev
  PROVE  /\ tx' = Edge(tx, tx_push, tx_pop, HostByte)
         /\ rx' = Edge(rx, rx_push, rx_pop(HostByte), rx_shift)
         /\ stream_enabled => stream_enabled'
         /\ input_sync' = input_meta /\ load_prev' = load
         /\ input_meta'.load => /\ IF input_meta'.rewind THEN MayPop ELSE MaySend
                                /\ input_meta'.rewind \in BOOLEAN
<1>1. PICK pins \in HostPins(lanes) : EngineClock(pins, HostByte)
  BY DEF BenchClock
<1>2. input_meta' = pins /\ ServeByte(HostByte)
  BY <1>1 DEF EngineClock
<1>3. pins.load => (IF pins.rewind THEN MayPop ELSE MaySend) /\ pins.rewind \in BOOLEAN
  <2>1. CASE pins = Pins(FALSE, FALSE, lanes)
    BY <2>1 DEF Pins
  <2>2. CASE MaySend /\ pins = Pins(TRUE, FALSE, lanes)
    BY <2>2 DEF Pins
  <2>3. CASE MayPop /\ pins = Pins(TRUE, TRUE, lanes)
    BY <2>3 DEF Pins
  <2> QED
    BY <1>1, <2>1, <2>2, <2>3 DEF HostPins
<1>4. Next /\ Synchronize /\ Loader /\ Steps
  BY BenchPins, ThreeClocks DEF OnBench, Stopped, Start, RunEdge
<1>5. UNCHANGED loaderVars
  BY <1>4 DEF Loader
<1>6. stream_enabled => stream_enabled'
  BY <1>4, <1>5, ExecutorStep DEF StatusStep
<1> QED
  BY <1>2, <1>3, <1>4, <1>6 DEF ServeByte, Synchronize

LEMMA QueueTerms ==
  ASSUME Inv
  PROVE  /\ tx \in RingOf(Byte \cup {Unknown}) /\ rx \in RingOf(Byte \cup {Unknown})
         /\ Coherent(tx) /\ Coherent(rx) /\ tx.used \in 0 .. Depth /\ rx.used \in 0 .. Depth
<1>1. tx \in RingOf(Byte \cup {Unknown}) /\ rx \in RingOf(Byte \cup {Unknown})
  BY DEF Inv, TypeOK, QueueTypes
<1> QED
  BY <1>1 DEF Inv, Written, QueuesCoherent, RingOf

\* The requests of the host: one at a time, each still possible when it arrives.
LEMMA StrobesStay ==
  ASSUME OnBench, NEW lanes, BenchClock(lanes), Inv, Strobes
  PROVE  Strobes'
<1>1. job' = job
  BY BenchPins
<1>2. CASE ~(run /\ run_prev)
  <2>1. /\ ~stream_enabled /\ ~input_meta'.load /\ ~input_sync'.load
        /\ unsent' = unsent /\ got' = got
    BY <1>2, SilentClock
  <2> QED
    BY <1>1, <2>1 DEF Strobes, load
<1>3. CASE run /\ run_prev
  <2>1. /\ tx' = Edge(tx, tx_push, tx_pop, HostByte)
        /\ rx' = Edge(rx, rx_push, rx_pop(HostByte), rx_shift)
        /\ stream_enabled => stream_enabled'
        /\ input_sync' = input_meta /\ load_prev' = load
        /\ input_meta'.load => /\ IF input_meta'.rewind THEN MayPop ELSE MaySend
                               /\ input_meta'.rewind \in BOOLEAN
    BY <1>3, ServedClock
  <2>2. load' = input_meta.load
    BY <2>1 DEF load
  <2>3. ~load => /\ unsent' = unsent /\ (~Empty(rx) => ~Empty(rx)')
                 /\ (~Full(tx) => ~Full(tx)')
    <3> SUFFICES ASSUME ~load PROVE /\ unsent' = unsent /\ (~Empty(rx) => ~Empty(rx)')
                                    /\ (~Full(tx) => ~Full(tx)')
      OBVIOUS
    <3>1. ~tx_push /\ ~rx_pop(HostByte) /\ unsent' = unsent
      BY DEF host_strobe, command, tx_push, rx_pop, BenchClock
    <3>2. /\ rx'.used = (IF rx_push THEN rx.used + 1 ELSE rx.used)
          /\ tx'.used \in {tx.used, tx.used - 1}
      BY <2>1, <3>1 DEF Edge
    <3> QED
      BY <3>1, <3>2, QueueTerms, DepthAssumption DEF Empty, Full
  <2>4. input_meta'.load => ~load' /\ ~load_prev' /\ stream_enabled' /\ Able(input_meta)'
    <3> SUFFICES ASSUME input_meta'.load
                 PROVE  ~load' /\ ~load_prev' /\ stream_enabled' /\ Able(input_meta)'
      OBVIOUS
    <3>1. AtRest /\ stream_enabled
      BY <2>1 DEF MayPop, MaySend
    <3>2. IF input_meta'.rewind THEN ~Empty(rx) ELSE unsent # << >> /\ ~Full(tx)
      BY <2>1 DEF MayPop, MaySend
    <3> QED
      BY <2>1, <2>2, <2>3, <3>1, <3>2 DEF AtRest, Able
  <2>5. load' => ~load_prev' /\ stream_enabled' /\ Able(input_sync)'
    <3> SUFFICES ASSUME input_meta.load PROVE ~load_prev' /\ stream_enabled' /\ Able(input_sync)'
      BY <2>2
    <3>1. ~load /\ stream_enabled /\ Able(input_meta)
      BY DEF Strobes
    <3> QED
      BY <2>1, <2>3, <3>1 DEF Able
  <2>6. ~stream_enabled' => unsent' = job'.bytes /\ got' = << >>
    <3> SUFFICES ASSUME ~stream_enabled PROVE unsent' = job.bytes /\ got' = << >>
      BY <1>1, <2>1
    <3>1. ~host_strobe
      BY DEF host_strobe
    <3> QED
      BY <3>1 DEF Strobes, BenchClock, rx_pop, command
  <2> QED
    BY <2>4, <2>5, <2>6 DEF Strobes
<1> QED
  BY <1>2, <1>3

LEMMA TxStays ==
  ASSUME OnBench, NEW lanes, BenchClock(lanes), Inv, Strobes, Bytes, SPITerms, run, run_prev
  PROVE  /\ unsent' \in Seq(Byte) /\ Pulled' = Pulled + (IF tx_pop THEN 1 ELSE 0)
         /\ \A i \in 1 .. Len(unsent') : unsent'[i] = job'.bytes[Pulled' + tx'.used + i]
         /\ Carries(tx, job.bytes, Pulled)'
<1>1. job' = job
  BY BenchPins
<1>2. /\ tx \in RingOf(Byte \cup {Unknown}) /\ Coherent(tx) /\ tx.used \in 0 .. Depth
      /\ tx.used \in Nat
  BY QueueTerms, DepthAssumption
<1>3. tx' = Edge(tx, tx_push, tx_pop, HostByte)
  BY ServedClock
<1>4. (tx_push => ~Full(tx)) /\ (tx_pop => ~Empty(tx)) /\ tx_push \in BOOLEAN /\ tx_pop \in BOOLEAN
  BY DEF tx_push, tx_pop, host_strobe
<1>5. tx_push <=> host_strobe /\ ~command
  BY DEF Strobes, Able, tx_push, host_strobe, command, rewind_program
<1>6. tx_push => unsent # << >>
  BY <1>5 DEF Strobes, Able, host_strobe, command, rewind_program
<1>7. unsent' = (IF tx_push THEN Tail(unsent) ELSE unsent)
  BY <1>5 DEF BenchClock
<1>8. unsent \in Seq(Byte) /\ Pulled \in Nat /\ Len(unsent) \in Nat /\ Len(job.bytes) \in Nat
      /\ Pulled = Len(job.bytes) - Len(unsent) - tx.used
  BY DEF Bytes, Pulled, SPITerms
<1>9. /\ unsent' \in Seq(Byte)
      /\ Len(unsent') = (IF tx_push THEN Len(unsent) - 1 ELSE Len(unsent))
      /\ \A i \in 1 .. Len(unsent') : unsent'[i] = (IF tx_push THEN unsent[i + 1] ELSE unsent[i])
  <2>1. CASE tx_push
    BY <1>6, <1>7, <1>8, <2>1
  <2>2. CASE ~tx_push
    BY <1>7, <1>8, <2>2
  <2> QED
    BY <2>1, <2>2
<1>10. tx'.used = tx.used + (IF tx_push THEN 1 ELSE 0) - (IF tx_pop THEN 1 ELSE 0)
  BY <1>2, <1>3, <1>4 DEF Edge
<1>11. Pulled' = Pulled + (IF tx_pop THEN 1 ELSE 0)
  <2>1. Pulled' = Len(job.bytes) - Len(unsent') - tx'.used
    BY <1>1 DEF Pulled
  <2>2. CASE tx_push
    BY <1>2, <1>8, <1>9, <1>10, <2>1, <2>2
  <2>3. CASE ~tx_push
    BY <1>2, <1>8, <1>9, <1>10, <2>1, <2>3
  <2> QED
    BY <2>2, <2>3
<1>12. \A i \in 1 .. Len(unsent') : unsent'[i] = job'.bytes[Pulled' + tx'.used + i]
  <2> SUFFICES ASSUME NEW i \in 1 .. Len(unsent')
               PROVE  unsent'[i] = job.bytes[Pulled' + tx'.used + i]
    BY <1>1
  <2>0. tx'.used \in Nat /\ Pulled' \in Nat
    <3>1. tx_pop => tx.used > 0
      BY <1>2, <1>4 DEF Empty
    <3>2. CASE tx_pop BY <1>2, <1>8, <1>10, <1>11, <3>1, <3>2
    <3>3. CASE ~tx_pop BY <1>2, <1>8, <1>10, <1>11, <3>3
    <3> QED BY <3>2, <3>3
  <2>1. Pulled' + tx'.used = Pulled + tx.used + (IF tx_push THEN 1 ELSE 0)
    <3> DEFINE d == IF tx_push THEN 1 ELSE 0
               e == IF tx_pop THEN 1 ELSE 0
    <3>1. d \in Nat /\ e \in Nat /\ tx'.used = tx.used + d - e /\ Pulled' = Pulled + e
      BY <1>10, <1>11
    <3>2. Pulled \in Nat /\ tx.used \in Nat
      BY <1>2, <1>8
    <3> HIDE DEF d, e
    <3>3. Pulled' + tx'.used = Pulled + tx.used + d
      BY ONLY <3>1, <3>2
    <3> QED BY ONLY <3>3 DEF d
  <2>2. CASE tx_push
    <3>1. i + 1 \in 1 .. Len(unsent)
      BY <1>8, <1>9, <2>2
    <3>2. unsent[i + 1] = job.bytes[Pulled + tx.used + (i + 1)]
      BY <3>1 DEF Bytes
    <3>3. Pulled' + tx'.used + i = Pulled + tx.used + (i + 1)
      <4> DEFINE x == Pulled' + tx'.used
                 y == Pulled + tx.used
      <4>1. x \in Int /\ y \in Int /\ x = y + 1
        BY <1>2, <1>8, <2>0, <2>1, <2>2
      <4>2. i \in Int
        BY <1>8, <1>9
      <4> HIDE DEF x, y
      <4>3. x + i = y + (i + 1)
        BY ONLY <4>1, <4>2
      <4> QED
        BY ONLY <4>3 DEF x, y
    <3> QED
      BY <1>9, <2>2, <3>2, <3>3
  <2>3. CASE ~tx_push
    <3>1. i \in 1 .. Len(unsent)
      BY <1>9, <2>3
    <3>2. unsent[i] = job.bytes[Pulled + tx.used + i]
      BY <3>1 DEF Bytes
    <3>3. Pulled' + tx'.used + i = Pulled + tx.used + i
      BY <1>2, <1>8, <2>0, <2>1, <2>3
    <3> QED
      BY <1>9, <2>3, <3>2, <3>3
  <2> QED
    BY <2>2, <2>3
<1>13. tx_push => HostByte = job.bytes[Pulled + tx.used + 1]
  <2> SUFFICES ASSUME tx_push PROVE HostByte = job.bytes[Pulled + tx.used + 1]
    OBVIOUS
  <2>1. HostByte = Head(unsent) /\ Head(unsent) = unsent[1] /\ 1 \in 1 .. Len(unsent)
    BY <1>5, <1>6, <1>8 DEF HostByte
  <2> QED
    BY <2>1 DEF Bytes
<1>14. Carries(tx', job.bytes, IF tx_pop THEN Pulled + 1 ELSE Pulled)
  <2>1. Carries(tx, job.bytes, Pulled)
    BY DEF Bytes
  <2> QED
    BY <1>2, <1>3, <1>4, <1>8, <1>13, <2>1, EdgeCarries
<1>15. (IF tx_pop THEN Pulled + 1 ELSE Pulled) = Pulled'
  BY <1>8, <1>11
<1>16. Carries(tx, job.bytes, Pulled)'
  BY <1>1, <1>14, <1>15 DEF Carries, Ahead
<1> QED
  BY <1>9, <1>11, <1>12, <1>16

LEMMA RxStays ==
  ASSUME OnBench, NEW lanes, BenchClock(lanes), Inv, Strobes, Bytes, Grows, run, run_prev,
         rx_push => rx_shift = served[Pushed + 1] /\ Pushed < Len(served)
  PROVE  /\ got' \in Seq(Byte) /\ Pushed' = Pushed + (IF rx_push THEN 1 ELSE 0)
         /\ Pushed' <= Len(served')
         /\ \A i \in 1 .. Len(got') : got'[i] = served'[i]
         /\ Carries(rx, served, Len(got))'
<1>2. /\ rx \in RingOf(Byte \cup {Unknown}) /\ Coherent(rx) /\ rx.used \in 0 .. Depth
      /\ rx.used \in Nat
  BY QueueTerms, DepthAssumption
<1> DEFINE pop == rx_pop(HostByte)
<1>3. rx' = Edge(rx, rx_push, pop, rx_shift)
  BY ServedClock
<1>4. (rx_push => ~Full(rx)) /\ (pop => ~Empty(rx)) /\ rx_push \in BOOLEAN /\ pop \in BOOLEAN
  BY DEF rx_push, rx_pop, command
<1>5. got' = IF pop THEN Append(got, Front(rx)) ELSE got
  BY DEF BenchClock
<1> HIDE DEF pop
<1>6. /\ got \in Seq(Byte) /\ served \in Seq(Byte) /\ Len(got) \in Nat /\ Len(served) \in Nat
      /\ Pushed = Len(got) + rx.used /\ Pushed <= Len(served)
      /\ \A i \in 1 .. Len(got) : got[i] = served[i]
      /\ Carries(rx, served, Len(got))
  BY DEF Bytes, Pushed
<1>7. pop => /\ Front(rx) = served[Len(got) + 1] /\ Len(got) + 1 \in 1 .. Len(served)
             /\ Front(rx) \in Byte
  <2> SUFFICES ASSUME pop PROVE Front(rx) = served[Len(got) + 1] /\ Len(got) + 1 \in 1 .. Len(served)
    BY <1>6
  <2>1. Front(rx) = served[Len(got) + 1]
    BY <1>2, <1>4, <1>6, FrontCarried
  <2> QED
    BY <1>2, <1>4, <1>6, <2>1 DEF Empty
<1>8. /\ got' \in Seq(Byte) /\ Len(got') = Len(got) + (IF pop THEN 1 ELSE 0)
      /\ \A i \in 1 .. Len(got) : got'[i] = got[i]
      /\ pop => got'[Len(got) + 1] = Front(rx)
  <2>1. CASE pop
    BY <1>5, <1>6, <1>7, <2>1
  <2>2. CASE ~pop
    BY <1>5, <1>6, <2>2
  <2> QED
    BY <2>1, <2>2
<1>9. rx'.used = rx.used + (IF rx_push THEN 1 ELSE 0) - (IF pop THEN 1 ELSE 0)
  BY <1>2, <1>3, <1>4 DEF Edge
<1>10. Pushed' = Pushed + (IF rx_push THEN 1 ELSE 0) /\ rx'.used \in Nat
  <2>0. Pushed' = Len(got') + rx'.used
    BY DEF Pushed
  <2>1. pop => rx.used > 0
    BY <1>2, <1>4 DEF Empty
  <2> DEFINE d == IF rx_push THEN 1 ELSE 0
             e == IF pop THEN 1 ELSE 0
  <2>2. /\ d \in Nat /\ e \in Nat /\ Len(got') = Len(got) + e /\ rx'.used = rx.used + d - e
        /\ Len(got) \in Nat /\ rx.used \in Nat /\ Pushed = Len(got) + rx.used
        /\ (e = 0 \/ (e = 1 /\ rx.used > 0))
    BY <1>2, <1>6, <1>8, <1>9, <2>1
  <2> HIDE DEF d, e
  <2>3. Pushed' = Pushed + d /\ rx'.used \in Nat
    BY ONLY <2>0, <2>2
  <2> QED BY ONLY <2>3 DEF d
<1>11. Pushed' <= Len(served')
  <2>1. Len(served') \in Nat /\ Len(served') >= Len(served)
    BY DEF Grows
  <2> QED
    BY <1>2, <1>6, <1>10, <2>1
<1>12. \A i \in 1 .. Len(got') : got'[i] = served'[i]
  <2> SUFFICES ASSUME NEW i \in 1 .. Len(got') PROVE got'[i] = served'[i]
    OBVIOUS
  <2>1. i \in 1 .. Len(served)
    BY <1>2, <1>6, <1>7, <1>8
  <2>2. served'[i] = served[i]
    BY <2>1 DEF Grows
  <2>3. CASE i \in 1 .. Len(got)
    BY <1>6, <1>8, <2>2, <2>3
  <2>4. CASE i \notin 1 .. Len(got)
    <3>1. pop /\ i = Len(got) + 1
      BY <1>6, <1>8, <2>4
    <3> QED
      BY <1>7, <1>8, <2>2, <3>1
  <2> QED
    BY <2>3, <2>4
<1>13. Carries(rx', served, IF pop THEN Len(got) + 1 ELSE Len(got))
  <2>1. rx_push => rx_shift = served[Len(got) + rx.used + 1]
    BY <1>6
  <2> QED
    BY <1>2, <1>3, <1>4, <1>6, <2>1, EdgeCarries
<1>14. (IF pop THEN Len(got) + 1 ELSE Len(got)) = Len(got')
  BY <1>6, <1>8
<1>15. Carries(rx, served, Len(got))'
  <2> SUFFICES ASSUME NEW k \in 0 .. rx'.used - 1
               PROVE  rx'.mem[Ahead(rx', k)] = served'[Len(got') + k + 1]
    BY DEF Carries, Ahead
  <2>1. rx'.mem[Ahead(rx', k)] = served[Len(got') + k + 1]
    BY <1>13, <1>14 DEF Carries
  <2>2. Len(got') + k + 1 \in 1 .. Len(served)
    <3>1. Len(got') + rx'.used <= Len(served) /\ Len(got') \in Nat
      BY <1>2, <1>6, <1>8, <1>10 DEF Pushed
    <3> QED
      BY <1>6, <1>10, <3>1
  <2> QED
    BY <2>1, <2>2 DEF Grows
<1> QED
  BY <1>8, <1>10, <1>11, <1>12, <1>15

LEMMA BytesStay ==
  ASSUME OnBench, NEW lanes, BenchClock(lanes), Inv, Strobes, Bytes, SPITerms, Grows,
         rx_push => rx_shift = served[Pushed + 1] /\ Pushed < Len(served)
  PROVE  /\ Bytes' /\ Pulled' = Pulled + (IF tx_pop THEN 1 ELSE 0)
         /\ Pushed' = Pushed + (IF rx_push THEN 1 ELSE 0)
<1>1. CASE run /\ run_prev
  <2>1. Pulled' \in Nat
    BY <1>1, TxStays DEF Bytes
  <2> QED
    BY <1>1, <2>1, TxStays, RxStays DEF Bytes, Grows
<1>2. CASE ~(run /\ run_prev)
  <2>1. /\ ~tx_pop /\ ~rx_push /\ tx' = Cleared(tx) /\ rx' = Cleared(rx) /\ Empty(tx) /\ Empty(rx)
        /\ unsent' = unsent /\ got' = got
    BY <1>2, SilentClock
  <2>2. tx'.used = 0 /\ rx'.used = 0 /\ tx.used = 0 /\ rx.used = 0 /\ job' = job
    BY <2>1, BenchPins DEF Cleared, Empty
  <2>3. Pulled' = Pulled /\ Pushed' = Pushed
    BY <2>1, <2>2 DEF Pulled, Pushed
  <2>4. Pulled \in Nat /\ Pushed \in Nat /\ Len(got) = Pushed
    BY <2>2 DEF Bytes, Pushed
  <2>5. Carries(tx, job.bytes, Pulled)' /\ Carries(rx, served, Len(got))'
    BY <2>2 DEF Carries
  <2>6. \A i \in 1 .. Len(unsent') : unsent'[i] = job'.bytes[Pulled' + tx'.used + i]
    <3> SUFFICES ASSUME NEW i \in 1 .. Len(unsent)
                 PROVE  unsent'[i] = job'.bytes[Pulled' + tx'.used + i]
      BY <2>1
    <3>1. unsent[i] = job.bytes[Pulled + tx.used + i]
      BY DEF Bytes
    <3>2. Pulled' + tx'.used + i = Pulled + tx.used + i
      BY <2>2, <2>3
    <3> QED
      BY <2>1, <2>2, <3>1, <3>2
  <2>7. \A i \in 1 .. Len(got') : got'[i] = served'[i]
    <3> SUFFICES ASSUME NEW i \in 1 .. Len(got) PROVE got[i] = served'[i]
      BY <2>1
    <3>1. got[i] = served[i] /\ Len(got) <= Len(served) /\ Len(served) \in Nat
      BY <2>4 DEF Bytes
    <3> QED
      BY <2>4, <3>1 DEF Grows
  <2>8. Pushed' <= Len(served')
    BY <2>3, <2>4 DEF Bytes, Grows
  <2> QED
    BY <2>1, <2>3, <2>4, <2>5, <2>6, <2>7, <2>8 DEF Bytes, Grows
<1> QED
  BY <1>1, <1>2

(***************************************************************************)
(* SPI: the calls, and the data in the words.                              *)
(***************************************************************************)
BitData(p, B, h, lsb) ==
  /\ cpha => p[B + 2].lsb = lsb /\ p[B + 4].hold = h - 1
             /\ p[B + 5].lane = MISO /\ p[B + 5].lsb = lsb
  /\ ~cpha => p[B + 1].lsb = lsb /\ p[B + 3].hold = h - 1
              /\ p[B + 4].lane = MISO /\ p[B + 4].lsb = lsb

LEMMA BitsHold ==
  ASSUME NEW mode, Modes(mode), NEW lsb, NEW h, NEW a, NEW b, NEW c, NEW d, NEW e,
         F!spi_bits(mode, lsb, h) = <<a, b, c, d, e>>
  PROVE  /\ cpha => b.lsb = lsb /\ d.hold = h - 1 /\ e.lane = MISO /\ e.lsb = lsb
         /\ ~cpha => a.lsb = lsb /\ c.hold = h - 1 /\ d.lane = MISO /\ d.lsb = lsb
<1> DEFINE Turn(to) == F!patch({0}, F!On(0, to), {0}, h)
           out == F!shift_out(1, lsb, FALSE)
           in == F!shift_in(2, lsb)
<1>1. mode \in {0, 1, 2, 3} /\ (cpha <=> mode % 2 = 1)
  BY DEF Modes
<1>2. out.lsb = lsb /\ in.lane = MISO /\ in.lsb = lsb /\ \A to : Turn(to).hold = h - 1
  BY DEF F!shift_out, F!shift_in, F!patch, MISO
<1>3. CASE cpha
  <2>1. mode % 2 # 0
    BY ONLY <1>1, <1>3
  <2>2. b = out /\ d = Turn(mode \div 2) /\ e = in
    BY <2>1 DEF F!spi_bits
  <2> HIDE DEF Turn, out, in
  <2> QED
    BY <1>2, <1>3, <2>2
<1>4. CASE ~cpha
  <2>1. mode % 2 = 0
    BY ONLY <1>1, <1>4
  <2>2. a = out /\ c = Turn(1 - mode \div 2) /\ d = in
    BY <2>1 DEF F!spi_bits
  <2> HIDE DEF Turn, out, in
  <2> QED
    BY <1>2, <1>4, <2>2
<1> QED
  BY <1>3, <1>4

LEMMA StreamCarries ==
  ASSUME NEW mode, Modes(mode), NEW lsb, NEW count, NEW h \in Nat \ {0}, NEW p,
         p = F!spi_stream(count, mode, lsb, h)
  PROVE  p[1].count = count /\ BitData(p, 4, h, lsb)
<1>1. PICK a, b, c, d, e :
        /\ F!spi_bits(mode, lsb, h) = <<a, b, c, d, e>>
        /\ cpha => /\ Toggles(a, TRUE) /\ Puts(b) /\ Waits(c, h) /\ Toggles(d, FALSE)
                   /\ e.op = "IN"
        /\ ~cpha => /\ Puts(a) /\ Waits(b, h) /\ Toggles(c, TRUE) /\ d.op = "IN"
                    /\ Toggles(e, FALSE)
  BY BitOfFive
<1>2. p = <<F!stream(count)>> \o <<F!drive({3} \cup F!On(0, mode \div 2), {0, 1, 3}, h)>>
          \o <<F!patch({3}, {}, {3}, h), F!PULL>> \o <<a, b, c, d, e>>
          \o <<F!djnz(4), F!PUSH, F!byte_loop(3)>> \o <<F!patch({3}, {3}, {3}, h), F!HALT>>
  BY <1>1 DEF F!spi_stream, F!Select, F!Deselect
<1>3. p[1] = F!stream(count) /\ p[5] = a /\ p[6] = b /\ p[7] = c /\ p[8] = d /\ p[9] = e
  BY ONLY <1>2, Fourteen
<1>4. p[4 + 1] = a /\ p[4 + 2] = b /\ p[4 + 3] = c /\ p[4 + 4] = d /\ p[4 + 5] = e
  BY ONLY <1>3
<1>5. p[1].count = count
  BY ONLY <1>3 DEF F!stream
<1> QED
  BY <1>1, <1>4, <1>5, BitsHold DEF BitData

LEMMA TransferCarries ==
  ASSUME NEW mode, Modes(mode), NEW lsb, NEW byte, NEW h \in Nat \ {0}, NEW p,
         p = F!spi_transfer(byte, mode, lsb, h)
  PROVE  p[2].byte = byte /\ p[2].count = 8 /\ BitData(p, 3, h, lsb)
<1>1. PICK a, b, c, d, e :
        /\ F!spi_bits(mode, lsb, h) = <<a, b, c, d, e>>
        /\ cpha => /\ Toggles(a, TRUE) /\ Puts(b) /\ Waits(c, h) /\ Toggles(d, FALSE)
                   /\ e.op = "IN"
        /\ ~cpha => /\ Puts(a) /\ Waits(b, h) /\ Toggles(c, TRUE) /\ d.op = "IN"
                    /\ Toggles(e, FALSE)
  BY BitOfFive
<1>2. p = <<F!drive({3} \cup F!On(0, mode \div 2), {0, 1, 3}, h)>>
          \o <<F!load_byte(byte), F!patch({3}, {}, {3}, h)>> \o <<a, b, c, d, e>>
          \o <<F!djnz(3)>> \o <<F!patch({3}, {3}, {3}, h), F!HALT>>
  BY <1>1 DEF F!spi_transfer, F!Select, F!Deselect
<1>3. p[2] = F!load_byte(byte) /\ p[4] = a /\ p[5] = b /\ p[6] = c /\ p[7] = d /\ p[8] = e
  BY ONLY <1>2, Eleven
<1>4. p[3 + 1] = a /\ p[3 + 2] = b /\ p[3 + 3] = c /\ p[3 + 4] = d /\ p[3 + 5] = e
  BY ONLY <1>3
<1>5. p[2].byte = byte /\ p[2].count = 8
  BY ONLY <1>3 DEF F!load_byte
<1> QED
  BY <1>1, <1>4, <1>5, BitsHold DEF BitData

\* The call of a job.
StreamCalled == job.program = F!spi_stream(job.count, job.mode, job.lsb, job.half)
TransferCalled ==
  \E byte \in Byte : /\ job.program = F!spi_transfer(byte, job.mode, job.lsb, job.half)
                     /\ job.sends = <<byte>>

LEMMA CalledSPI ==
  ASSUME job \in Jobs, SPIJob
  PROVE  /\ SPITerms /\ Modes(job.mode) /\ job.half \in Nat \ {0}
         /\ job.streaming => StreamCalled
         /\ ~job.streaming => TransferCalled /\ job.count = 1
<1>1. SPICall(job)
  BY SerialAssumption DEF SPIJob
<1>2. Modes(job.mode) /\ job.half \in Nat \ {0}
  BY CalledModes
<1>3. job.streaming => StreamCalled /\ job.bytes = job.sends
  BY <1>1 DEF SPICall, StreamCalled
<1>4. ~job.streaming => TransferCalled /\ job.bytes = << >>
  BY <1>1 DEF SPICall, TransferCalled
<1>5. /\ job.lsb \in BOOLEAN /\ job.half \in 4 .. 8192 /\ job.streaming \in BOOLEAN
      /\ job.count \in 1 .. 255 /\ job.sends \in Seq(Byte) /\ Len(job.sends) = job.count
  BY <1>1 DEF SPICall
<1>6. ~job.streaming => job.count = 1
  <2> SUFFICES ASSUME ~job.streaming PROVE job.count = 1
    OBVIOUS
  <2>1. PICK byte \in Byte : job.sends = <<byte>>
    BY <1>4 DEF TransferCalled
  <2>2. Len(<<byte>>) = 1
    OBVIOUS
  <2> QED
    BY <1>5, <2>1, <2>2
<1>7. job.bytes \in Seq(Byte) /\ job.bytes = (IF job.streaming THEN job.sends ELSE << >>)
  <2>1. << >> \in Seq(Byte)
    OBVIOUS
  <2>2. CASE job.streaming
    BY ONLY <1>3, <1>5, <2>2
  <2>3. CASE ~job.streaming
    BY ONLY <1>4, <2>1, <2>3
  <2> QED
    BY ONLY <2>2, <2>3
<1>8. SPITerms
  BY ONLY <1>5, <1>7 DEF SPITerms
<1> QED
  BY ONLY <1>2, <1>3, <1>4, <1>6, <1>8

(***************************************************************************)
(* SPI: the engine reads a level of MISO two clocks late.                  *)
(***************************************************************************)
LEMMA LanesArrive ==
  ASSUME OnBench, BenchClock(SPILanes)
  PROVE  /\ MISO \in input_meta'.lanes <=> device.miso
         /\ input_sync' = input_meta
<1>1. PICK pins \in HostPins(SPILanes) : EngineClock(pins, HostByte)
  BY DEF BenchClock
<1>2. input_meta' = pins
  BY <1>1 DEF EngineClock
<1>3. pins.lanes = SPILanes
  BY DEF HostPins, Pins
<1>4. input_sync' = input_meta
  BY BenchPins, ThreeClocks DEF OnBench, Synchronize
<1> QED
  BY <1>2, <1>3, <1>4 DEF SPILanes

LEMMA LevelArrives ==
  ASSUME OnBench, BenchClock(SPILanes), NEW d \in Nat, NEW h \in Nat, Arrives(d + 1, h),
         device'.miso = device.miso
  PROVE  Arrives(d, h)'
<1>1. /\ MISO \in input_meta'.lanes <=> device'.miso
      /\ MISO \in input_sync'.lanes <=> MISO \in input_meta.lanes
  BY LanesArrive
<1>2. d < h - 2 => d + 1 < h - 1
  OBVIOUS
<1> QED
  BY <1>1, <1>2 DEF Arrives

LEMMA LevelArrived ==
  ASSUME NEW h \in Nat, h >= 4, Arrives(0, h)
  PROVE  MISO \in input_sync.lanes <=> device.miso
BY DEF Arrives

LEMMA LevelSetOut ==
  ASSUME NEW h \in Nat
  PROVE  Arrives(h - 1, h)
BY DEF Arrives

(***************************************************************************)
(* SPI: what the device does when the clock turns, and when it does not.   *)
(***************************************************************************)
Counts(edge, choice) ==
  /\ device'.edges = device.edges + edge
  /\ device'.selections = device.selections + choice

LEMMA DeviceSees ==
  ASSUME Mirror, DeviceStep, job' = job, device.edges \in Nat, device.selections \in Nat
  PROVE  /\ ~(CS \in out_enable' /\ CS \notin out_value') =>
              DeviceKeeps /\ Counts(0, 0)
         /\ Driven' /\ Chosen' /\ Driven /\ Chosen =>
              IF Idle' <=> Idle THEN DeviceKeeps /\ Counts(0, 0)
              ELSE Counts(1, 0) /\ IF Idle' <=> cpha THEN DeviceTakes ELSE DeviceOffers
         /\ Driven' /\ Chosen' /\ Driven /\ ~Chosen /\ Idle /\ Idle' =>
              Counts(0, 1) /\ IF cpha THEN DeviceKeeps ELSE DeviceOffers
<1>1. /\ device'.edges = device.edges + (IF SeesEdge THEN 1 ELSE 0)
      /\ device'.selections = device.selections + (IF IsSelected THEN 1 ELSE 0)
      /\ IF IsSelected /\ ~cpha THEN DeviceOffers
         ELSE IF SeesEdge /\ Sampling(device'.sck) THEN DeviceTakes
         ELSE IF SeesEdge THEN DeviceOffers
         ELSE DeviceKeeps
  BY DeviceActs
<1>2. Mirror' /\ cpol' = cpol
  BY DeviceFollows, PhaseStays
<1>3. /\ device.selected \in BOOLEAN /\ device.sck \in BOOLEAN
      /\ device'.selected \in BOOLEAN /\ device'.sck \in BOOLEAN
  BY <1>2 DEF Mirror
<1>4. /\ device.selected <=> CS \in out_enable /\ CS \notin out_value
      /\ device.sck <=> IF SCK \in out_enable THEN SCK \in out_value ELSE cpol
      /\ device'.selected <=> CS \in out_enable' /\ CS \notin out_value'
      /\ device'.sck <=> IF SCK \in out_enable' THEN SCK \in out_value' ELSE cpol
  BY <1>2 DEF Mirror
<1>5. Sampling(device'.sck) <=> ~((device'.sck <=> cpol) <=> ~cpha)
  BY <1>3, SamplingEdge
<1>6. (device'.sck # device.sck) <=> ~(device'.sck <=> device.sck)
  BY <1>3
<1>7. device.edges + 0 = device.edges /\ device.selections + 0 = device.selections
  OBVIOUS
<1>8. ASSUME ~(CS \in out_enable' /\ CS \notin out_value') PROVE DeviceKeeps /\ Counts(0, 0)
  <2>1. ~SeesEdge /\ ~IsSelected
    BY <1>4, <1>8 DEF SeesEdge, IsSelected
  <2> QED
    BY <1>1, <1>7, <2>1 DEF Counts
<1>9. ASSUME Driven', Chosen', Driven, Chosen
      PROVE  IF Idle' <=> Idle THEN DeviceKeeps /\ Counts(0, 0)
             ELSE Counts(1, 0) /\ IF Idle' <=> cpha THEN DeviceTakes ELSE DeviceOffers
  <2>1. device.selected /\ device'.selected /\ ~IsSelected
    BY <1>4, <1>9 DEF Driven, Chosen, IsSelected
  <2>2. ((device.sck <=> cpol) <=> Idle) /\ ((device'.sck <=> cpol) <=> Idle')
    BY <1>2, <1>4, <1>9 DEF Driven, Idle
  <2>3. SeesEdge <=> ~(Idle' <=> Idle)
    BY <1>6, <2>1, <2>2 DEF SeesEdge
  <2>4. Sampling(device'.sck) <=> (Idle' <=> cpha)
    BY <1>5, <2>2
  <2> QED
    BY <1>1, <1>7, <2>1, <2>3, <2>4 DEF Counts
<1>10. ASSUME Driven', Chosen', Driven, ~Chosen, Idle, Idle'
       PROVE  Counts(0, 1) /\ IF cpha THEN DeviceKeeps ELSE DeviceOffers
  <2>1. ~device.selected /\ device'.selected /\ IsSelected
    BY <1>4, <1>10 DEF Driven, Chosen, IsSelected
  <2>2. ((device.sck <=> cpol) <=> Idle) /\ ((device'.sck <=> cpol) <=> Idle')
    BY <1>2, <1>4, <1>10 DEF Driven, Idle
  <2>3. ~SeesEdge
    BY <1>6, <1>10, <2>2 DEF SeesEdge
  <2> QED
    BY <1>1, <1>7, <2>1, <2>3 DEF Counts
<1> QED
  BY <1>8, <1>9, <1>10

\* What has been answered only grows.
LEMMA AnswersStay ==
  ASSUME Mirror, DeviceStep, job' = job, device.edges \in Nat, device.selections \in Nat,
         served \in Seq(Byte)
  PROVE  Grows
<1>1. DeviceOffers \/ DeviceTakes \/ DeviceKeeps
  BY DeviceActs
<1>2. served' = served \/ \E byte \in Answers : served' = Append(served, byte)
  BY <1>1 DEF DeviceOffers, DeviceTakes, DeviceKeeps
<1> QED
  BY <1>2, GrowsOrStays

(***************************************************************************)
(* SPI: a bit, step by step.                                               *)
(***************************************************************************)
LEMMA PartsStay ==
  ASSUME job' = job, NEW byte, NEW c
  PROVE  SentPart(byte, c)' = SentPart(byte, c) /\ GotPart(byte, c)' = GotPart(byte, c)
BY DEF SentPart, GotPart

LEMMA KeptTookUpTo ==
  ASSUME job' = job, device'.bits = device.bits, device'.heard = device.heard,
         NEW n, NEW b, TookUpTo(n, b)
  PROVE  TookUpTo(n, b)'
BY KeptTook DEF TookUpTo

\* The registers of the engine stay, and with them what they mean.
LEMMA KeptTx ==
  ASSUME job' = job, tx_shift' = tx_shift, NEW n, NEW c, TxIs(n, c)
  PROVE  TxIs(n, c)'
BY PartsStay DEF TxIs

LEMMA KeptRx ==
  ASSUME job' = job, rx_shift' = rx_shift, NEW n, NEW c, RxIs(n, c),
         c # 0 => served'[n + 1] = served[n + 1]
  PROVE  RxIs(n, c)'
<1>1. GotPart(served[n + 1], c)' = IF job.lsb THEN (served'[n + 1] % Pow(c)) * Pow(8 - c)
                                   ELSE served'[n + 1] \div Pow(8 - c)
  BY DEF GotPart, Pow
<1>2. c # 0 => GotPart(served[n + 1], c)' = GotPart(served[n + 1], c)
  BY <1>1 DEF GotPart
<1> QED
  BY <1>2 DEF RxIs

LEMMA StageKeeps ==
  ASSUME job' = job, NEW n, NEW c, NEW taken, NEW out, NEW read, NEW edges,
         Stage(n, c, taken, out, read, edges), DeviceKeeps, device'.edges = device.edges,
         tx_shift' = tx_shift, rx_shift' = rx_shift, out = 1 /\ taken = 0 => MosiStays
  PROVE  Stage(n, c, taken, out, read, edges)'
<1>1. TookUpTo(n, c + taken)'
  BY KeptTookUpTo DEF Stage, DeviceKeeps
<1>2. TxIs(n, c + out)' /\ RxIs(n, c + read)'
  BY KeptTx, KeptRx DEF Stage, DeviceKeeps
<1>3. out = 1 /\ taken = 0 => OnWire(n, c)'
  <2> SUFFICES ASSUME out = 1, taken = 0 PROVE OnWire(n, c)'
    OBVIOUS
  <2>1. OnWire(n, c) /\ MosiStays
    BY DEF Stage
  <2>2. WireBit(job.sends[n + 1], c)' <=> WireBit(job.sends[n + 1], c)
    BY DEF WireBit
  <2> QED
    BY <2>1, <2>2 DEF OnWire, MosiStays
<1> QED
  BY <1>1, <1>2, <1>3 DEF Stage

LEMMA StageOut ==
  ASSUME job' = job, SPITerms, NEW n \in 0 .. job.count - 1, NEW c \in 0 .. 7, NEW edges,
         Stage(n, c, 0, 0, 0, edges), DeviceKeeps, device'.edges = device.edges,
         tx_shift' = Shifted(tx_shift, job.lsb, 0), rx_shift' = rx_shift,
         MOSI \in out_value' <=> Leaving(tx_shift, job.lsb) = 1
  PROVE  Stage(n, c, 0, 1, 0, edges)'
<1> DEFINE byte == job.sends[n + 1]
<1>1. byte \in Byte /\ c + 0 = c /\ c + 1 # 0
  BY DEF SPITerms
<1>2. /\ TookUpTo(n, c) /\ tx_shift = SentPart(byte, c) /\ RxIs(n, c)
      /\ device.edges = 16 * n + 2 * c + edges
  BY <1>1 DEF Stage, TxIs
<1>3. /\ WireBit(byte, c) <=> Leaving(SentPart(byte, c), job.lsb) = 1
      /\ Shifted(SentPart(byte, c), job.lsb, 0) = SentPart(byte, c + 1)
  BY <1>1, WireIsLeaving DEF SPITerms
<1>4. TookUpTo(n, c)' /\ RxIs(n, c)'
  BY <1>2, KeptTookUpTo, KeptRx DEF DeviceKeeps
<1>5. TxIs(n, c + 1)'
  <2>1. SentPart(byte, c + 1)' = SentPart(byte, c + 1)
    BY PartsStay
  <2>2. tx_shift' = SentPart(byte, c + 1)
    BY <1>2, <1>3
  <2> QED
    BY <2>1, <2>2 DEF TxIs
<1>6. OnWire(n, c)'
  <2>1. WireBit(job.sends[n + 1], c)' <=> WireBit(byte, c)
    BY DEF WireBit
  <2>2. MOSI \in out_value' <=> WireBit(byte, c)
    BY <1>2, <1>3
  <2> QED
    BY <2>1, <2>2 DEF OnWire
<1> QED
  BY <1>1, <1>2, <1>4, <1>5, <1>6 DEF Stage

LEMMA StageTakes ==
  ASSUME job' = job, SPITerms, Mirror, NEW n \in 0 .. job.count - 1, NEW c \in 0 .. 7,
         NEW edges \in {0, 1}, Stage(n, c, 0, 1, 0, edges), DeviceTakes, Counts(1, 0),
         tx_shift' = tx_shift, rx_shift' = rx_shift, device'.mosi = device.mosi
  PROVE  Stage(n, c, 1, 1, 0, edges + 1)'
<1>1. /\ Took(n, c) /\ TxIs(n, c + 1) /\ RxIs(n, c + 0) /\ OnWire(n, c)
      /\ device.edges = 16 * n + 2 * c + edges
  <2>1. c + 0 = c /\ c # 8
    OBVIOUS
  <2> QED
    BY <2>1 DEF Stage, TookUpTo
<1>2. device'.mosi \in BOOLEAN /\ (device'.mosi <=> WireBit(job.sends[n + 1], c))
  BY <1>1 DEF Mirror, OnWire
<1>3. TookUpTo(n, c + 1)'
  BY <1>1, <1>2, TakesBit
<1>4. TxIs(n, c + 1)' /\ RxIs(n, c + 0)'
  BY <1>1, KeptTx, KeptRx DEF DeviceTakes
<1>5. device'.edges = 16 * n + 2 * c + (edges + 1)
  BY <1>1 DEF Counts
<1> QED
  BY <1>3, <1>4, <1>5 DEF Stage

LEMMA StageReads ==
  ASSUME job' = job, SPITerms, NEW n \in 0 .. job.count - 1, NEW c \in 0 .. 7,
         NEW edges, Stage(n, c, 1, 1, 0, edges), Answering(n, c), served \in Seq(Byte),
         DeviceKeeps, device'.edges = device.edges, tx_shift' = tx_shift,
         MISO \in input_sync.lanes <=> device.miso,
         rx_shift' = Shifted(rx_shift, job.lsb, IF MISO \in input_sync.lanes THEN 1 ELSE 0)
  PROVE  Stage(n, c, 1, 1, 1, edges)'
<1> DEFINE byte == served[n + 1]
<1>1. byte \in Byte /\ c + 0 = c /\ c + 1 # 0 /\ (device.miso = WireBit(byte, c))
  BY DEF Answering, Offering
<1>2. /\ TookUpTo(n, c + 1) /\ TxIs(n, c + 1) /\ rx_shift = (IF c = 0 THEN 0 ELSE GotPart(byte, c))
      /\ device.edges = 16 * n + 2 * c + edges
  BY <1>1 DEF Stage, RxIs
<1>3. rx_shift' = GotPart(byte, c + 1)
  <2>1. rx_shift' = Shifted(rx_shift, job.lsb, IF WireBit(byte, c) THEN 1 ELSE 0)
    BY <1>1
  <2>2. job.lsb \in BOOLEAN
    BY DEF SPITerms
  <2> QED
    BY <1>1, <1>2, <2>1, <2>2, WireComesIn
<1>4. TookUpTo(n, c + 1)' /\ TxIs(n, c + 1)'
  BY <1>2, KeptTookUpTo, KeptTx DEF DeviceKeeps
<1>5. RxIs(n, c + 1)'
  <2>1. GotPart(served[n + 1], c + 1)' = GotPart(byte, c + 1)
    <3>1. served' = served
      BY DEF DeviceKeeps
    <3> QED
      BY <3>1 DEF GotPart
  <2> QED
    BY <1>1, <1>3, <2>1 DEF RxIs
<1> QED
  BY <1>2, <1>4, <1>5 DEF Stage, DeviceKeeps

\* The first edge of a bit, if the device puts the bit out with it.
LEMMA StageOffers ==
  ASSUME job' = job, SPITerms, NEW n \in 0 .. job.count - 1, NEW c \in 0 .. 7,
         Stage(n, c, 0, 0, 0, 0), IF c = 0 THEN Len(served) = n ELSE Offering(n),
         served \in Seq(Byte), DeviceOffers, Counts(1, 0),
         tx_shift' = tx_shift, rx_shift' = rx_shift
  PROVE  Stage(n, c, 0, 0, 0, 1)' /\ Answering(n, c)'
<1>1. /\ Took(n, c) /\ TxIs(n, c) /\ RxIs(n, c) /\ c + 0 = c
      /\ device.edges = 16 * n + 2 * c + 0
  <2>1. c + 0 = c /\ c # 8
    OBVIOUS
  <2> QED
    BY <2>1 DEF Stage, TookUpTo
<1>2. Took(n, c)' /\ Answering(n, c)' /\ (c # 0 => served' = served)
  <2>1. CASE c = 0
    <3>1. n \in Nat /\ n < job.count
      BY DEF SPITerms
    <3> QED
      BY <1>1, <2>1, <3>1, OffersByte
  <2>2. CASE c # 0
    <3>1. c \in 1 .. 7
      BY <2>2
    <3> QED
      BY <1>1, <2>2, <3>1, OffersBit
  <2> QED
    BY <2>1, <2>2
<1>3. TxIs(n, c)' /\ RxIs(n, c)'
  BY <1>1, <1>2, KeptTx, KeptRx
<1>4. device'.edges = 16 * n + 2 * c + 1
  BY <1>1 DEF Counts
<1>5. c # 8
  OBVIOUS
<1> QED
  BY <1>1, <1>2, <1>3, <1>4, <1>5 DEF Stage, TookUpTo

\* The second edge, if the device puts the next bit out with it.
LEMMA StageOffersNext ==
  ASSUME job' = job, SPITerms, ~cpha, NEW n \in 0 .. job.count - 1, NEW c \in 0 .. 7,
         Stage(n, c, 1, 1, 1, 1), Answering(n, c),
         served \in Seq(Byte), DeviceOffers, Counts(1, 0),
         tx_shift' = tx_shift, rx_shift' = rx_shift
  PROVE  /\ Stage(n, c, 1, 1, 1, 2)'
         /\ IF c = 7 THEN ServedFor(n + 1)' ELSE Answering(n, c + 1)'
<1>0. cpha' = cpha
  BY PhaseStays
<1>1. /\ TookUpTo(n, c + 1) /\ TxIs(n, c + 1) /\ RxIs(n, c + 1) /\ Offering(n)
      /\ device.edges = 16 * n + 2 * c + 1
  BY DEF Stage, Answering
<1>4. TookUpTo(n, c + 1)' /\ (IF c = 7 THEN ServedFor(n + 1)' ELSE Answering(n, c + 1)')
      /\ served'[n + 1] = served[n + 1]
  <2>1. CASE c # 7
    <3>1. c + 1 \in 1 .. 7 /\ c + 1 # 8
      BY <2>1
    <3>2. Took(n, c + 1)
      BY <1>1, <3>1 DEF TookUpTo
    <3>3. Took(n, c + 1)' /\ Answering(n, c + 1)' /\ served' = served
      BY <1>1, <3>1, <3>2, OffersBit
    <3> QED
      BY <2>1, <3>1, <3>3 DEF TookUpTo
  <2>2. CASE c = 7
    <3>1. c + 1 = 8 /\ Took(n + 1, 0)
      BY <1>1, <2>2 DEF TookUpTo
    <3>2. Len(served) = n + 1 /\ n + 1 \in Nat
      BY <1>1 DEF Offering
    <3>3. CASE n + 1 = job.count
      <4>1. Took(job.count, 0)' /\ served' = served
        BY <3>1, <3>3, OffersNothing
      <4>2. ServedFor(n + 1)'
        BY <3>2, <3>3, <4>1 DEF ServedFor
      <4> QED
        BY <2>2, <3>1, <3>3, <4>1, <4>2 DEF TookUpTo
    <3>4. CASE n + 1 # job.count
      <4>1. n + 1 < job.count
        BY <3>4 DEF SPITerms
      <4>2. Took(n + 1, 0)' /\ Answering(n + 1, 0)' /\ Grows
        BY <3>1, <3>2, <4>1, OffersByte
      <4>3. served'[n + 1] = served[n + 1]
        BY <3>2, <4>2 DEF Grows
      <4>4. ServedFor(n + 1)'
        BY <1>0, <3>4, <4>2 DEF ServedFor
      <4> QED
        BY <2>2, <3>1, <4>2, <4>3, <4>4 DEF TookUpTo
    <3> QED
      BY <3>3, <3>4
  <2> QED
    BY <2>1, <2>2
<1>5. TxIs(n, c + 1)' /\ RxIs(n, c + 1)'
  BY <1>1, <1>4, KeptTx, KeptRx
<1>6. device'.edges = 16 * n + 2 * c + 2
  BY <1>1 DEF Counts
<1> QED
  BY <1>4, <1>5, <1>6 DEF Stage

\* A bit is through: it is the next one's turn, or the byte is through.
LEMMA StageNext ==
  ASSUME NEW n \in 0 .. 254, NEW c \in 0 .. 7, Stage(n, c, 1, 1, 1, 2)
  PROVE  c # 7 => Stage(n, c + 1, 0, 0, 0, 0)
<1> SUFFICES ASSUME c # 7 PROVE Stage(n, c + 1, 0, 0, 0, 0)
  OBVIOUS
<1>1. (c + 1) + 0 = c + 1 /\ 16 * n + 2 * c + 2 = 16 * n + 2 * (c + 1) + 0
  OBVIOUS
<1> QED
  BY <1>1 DEF Stage

LEMMA ByteThrough ==
  ASSUME SPITerms, NEW n \in 0 .. job.count - 1, Stage(n, 7, 1, 1, 1, 2), served \in Seq(Byte),
         ServedFor(n + 1), Len(served) >= n + 1, device.selections = 1
  PROVE  ByteRead(n)
<1>1. /\ TookUpTo(n, 8) /\ RxIs(n, 8) /\ device.edges = 16 * n + 2 * 7 + 2
  BY DEF Stage
<1>2. Took(n + 1, 0) /\ device.edges = 16 * (n + 1)
  BY <1>1 DEF TookUpTo
<1>3. served[n + 1] \in Byte
  OBVIOUS
<1>4. rx_shift = served[n + 1]
  BY <1>1, <1>3, AllIn DEF RxIs, SPITerms
<1> QED
  BY <1>2, <1>4 DEF ByteRead, Ready

(***************************************************************************)
(* SPI: a clock of a bit.                                                  *)
(***************************************************************************)
LEMMA KeptServedFor ==
  ASSUME job' = job, cpha' = cpha, device'.offer = device.offer, device'.miso = device.miso,
         served' = served, NEW n, ServedFor(n)
  PROVE  ServedFor(n)'
<1>1. Answering(n, 0) => Answering(n, 0)'
  BY KeptAnswer DEF Answering
<1> QED
  BY <1>1 DEF ServedFor

LEMMA BitHeld ==
  ASSUME OnBench, BenchClock(SPILanes), job' = job, NEW h \in Nat, NEW B \in Nat, NEW n, NEW c,
         BitStage(B, h, n, c), pc \in B .. B + 5, DeviceKeeps, Counts(0, 0),
         device.edges \in Nat, device.selections \in Nat, MosiStays,
         pc' = pc, tx_shift' = tx_shift, rx_shift' = rx_shift, loop_count' = loop_count,
         delay_left \in Nat \ {0}, delay_left' = delay_left - 1
  PROVE  BitStage(B, h, n, c)'
<1>0. cpha' = cpha
  BY PhaseStays
<1>1. device'.edges = device.edges /\ device'.selections = device.selections
  BY DEF Counts
<1>2. \A taken, out, read, edges :
        Stage(n, c, taken, out, read, edges) => Stage(n, c, taken, out, read, edges)'
  BY <1>1, StageKeeps
<1>3. /\ \A b : Answering(n, b) => Answering(n, b)'
      /\ Offering(n) => Offering(n)'
      /\ ServedFor(n + 1) => ServedFor(n + 1)'
      /\ Len(served') = Len(served)
  BY <1>0, KeptAnswer, KeptServedFor DEF DeviceKeeps, Answering
<1>4. Arrives(delay_left, h) => Arrives(delay_left, h)'
  <2>1. PICK d \in Nat : d = delay_left'
    OBVIOUS
  <2>2. d + 1 = delay_left /\ device'.miso = device.miso
    BY <2>1 DEF DeviceKeeps
  <2>3. Arrives(d + 1, h) => Arrives(d, h)'
    BY <2>2, LevelArrives
  <2> QED
    BY <2>1, <2>2, <2>3 DEF Arrives
<1>5. LeadingStage(B, h, n, c) => LeadingStage(B, h, n, c)'
  BY <1>2, <1>3, <1>4 DEF LeadingStage
<1>6. TrailingStage(B, h, n, c) => TrailingStage(B, h, n, c)'
  BY <1>2, <1>3, <1>4 DEF TrailingStage
<1> QED
  BY <1>0, <1>1, <1>5, <1>6 DEF BitStage

\* Where the clock turns in a bit, and which edge the device samples.
LEMMA BitTurns ==
  ASSUME NEW B \in Nat, NEW h, BitPlace(B, h), job' = job, Mirror, DeviceStep,
         device.edges \in Nat, device.selections \in Nat,
         BitPlace(B, h)' \/ (pc' = B + 6 /\ Driven' /\ Chosen' /\ Idle')
  PROVE  /\ pc' = pc + 1 /\ pc = (IF cpha THEN B ELSE B + 2) =>
              Counts(1, 0) /\ IF cpha THEN DeviceOffers ELSE DeviceTakes
         /\ pc' = pc + 1 /\ pc = (IF cpha THEN B + 3 ELSE B + 4) =>
              Counts(1, 0) /\ IF cpha THEN DeviceTakes ELSE DeviceOffers
         /\ \/ /\ pc' = pc + 1
               /\ pc \in (IF cpha THEN {B + 1, B + 2, B + 4} ELSE {B, B + 1, B + 3})
            \/ pc = B + 5 /\ pc' \in {B, B + 6}
            => DeviceKeeps /\ Counts(0, 0)
<1>1. cpha' = cpha /\ cpha \in BOOLEAN
  BY PhaseStays, PhaseIsBoolean
<1>2. /\ Driven /\ Chosen /\ Driven' /\ Chosen'
      /\ Idle <=> IF cpha THEN pc \notin {B + 1, B + 2, B + 3} ELSE pc \notin {B + 3, B + 4}
      /\ pc' # B + 6 => (Idle' <=> IF cpha THEN pc' \notin {B + 1, B + 2, B + 3}
                                   ELSE pc' \notin {B + 3, B + 4})
      /\ pc' = B + 6 => Idle' \/ pc' \in B .. B + 5
  BY <1>1 DEF BitPlace
<1>3. pc' = B + 6 => Idle'
  BY <1>2
<1>4. IF Idle' <=> Idle THEN DeviceKeeps /\ Counts(0, 0)
      ELSE Counts(1, 0) /\ IF Idle' <=> cpha THEN DeviceTakes ELSE DeviceOffers
  BY <1>2, DeviceSees
<1>5. ASSUME pc' = pc + 1, pc = (IF cpha THEN B ELSE B + 2)
      PROVE  Counts(1, 0) /\ IF cpha THEN DeviceOffers ELSE DeviceTakes
  <2>1. Idle /\ ~Idle'
    BY <1>2, <1>5
  <2> QED
    BY <1>1, <1>4, <2>1
<1>6. ASSUME pc' = pc + 1, pc = (IF cpha THEN B + 3 ELSE B + 4)
      PROVE  Counts(1, 0) /\ IF cpha THEN DeviceTakes ELSE DeviceOffers
  <2>1. ~Idle /\ Idle'
    BY <1>2, <1>6
  <2> QED
    BY <1>1, <1>4, <2>1
<1>7. ASSUME \/ /\ pc' = pc + 1
                /\ pc \in (IF cpha THEN {B + 1, B + 2, B + 4} ELSE {B, B + 1, B + 3})
             \/ pc = B + 5 /\ pc' \in {B, B + 6}
      PROVE  DeviceKeeps /\ Counts(0, 0)
  <2>1. Idle' <=> Idle
    BY <1>2, <1>3, <1>7
  <2> QED
    BY <1>4, <2>1
<1> QED
  BY <1>5, <1>6, <1>7

\* What each word of a bit does.
LEMMA OutWorks ==
  ASSUME NEW w, Puts(w), w.lsb = job.lsb, Works(w)
  PROVE  /\ tx_shift' = Shifted(tx_shift, job.lsb, 0) /\ rx_shift' = rx_shift
         /\ loop_count' = loop_count
         /\ MOSI \in out_value' <=> Leaving(tx_shift, job.lsb) = 1
BY DEF Puts, Works, shiftVars

LEMMA InWorks ==
  ASSUME NEW w, w.op = "IN", w.lane = MISO, w.lsb = job.lsb, Works(w)
  PROVE  /\ rx_shift' = Shifted(rx_shift, job.lsb, IF MISO \in input_sync.lanes THEN 1 ELSE 0)
         /\ tx_shift' = tx_shift /\ loop_count' = loop_count
BY DEF Works, shiftVars

LEMMA PatchWorks ==
  ASSUME NEW w, w.op \in {"DRIVE", "PATCH"}, Works(w)
  PROVE  UNCHANGED <<statusVars, shiftVars, streamVars>>
BY DEF Works

LEMMA DjnzWorks ==
  ASSUME NEW w, w.op = "DJNZ", Works(w)
  PROVE  tx_shift' = tx_shift /\ rx_shift' = rx_shift
BY DEF Works

LEMMA KeptAnswering ==
  ASSUME job' = job, device'.offer = device.offer, device'.miso = device.miso, served' = served,
         NEW n, NEW b, Answering(n, b)
  PROVE  Answering(n, b)'
BY KeptAnswer DEF Answering

LEMMA KeptByteRead ==
  ASSUME job' = job, DeviceKeeps, Counts(0, 0), device.edges \in Nat, device.selections \in Nat,
         rx_shift' = rx_shift, NEW n, ByteRead(n)
  PROVE  ByteRead(n)'
<1>1. device'.edges = device.edges /\ device'.selections = device.selections
  BY DEF Counts
<1>2. Took(n + 1, 0)' /\ ServedFor(n + 1)'
  BY PhaseStays, KeptTook, KeptServedFor DEF DeviceKeeps, ByteRead, Ready
<1> QED
  BY <1>1, <1>2 DEF ByteRead, Ready, DeviceKeeps

\* A clock on which a word of a bit acts leads to a place of the bit, of the next bit or
\* out of the byte.
BitGoes(B, h, n, c) ==
  \/ pc' \in B .. B + 5 /\ \E k \in 0 .. 7 : BitStage(B, h, n, k)'
  \/ pc' = B + 6 /\ ByteRead(n)'

LEMMA Ahead1 ==
  ASSUME NEW B \in Nat, NEW h, NEW n, NEW c \in 0 .. 7, pc' \in B .. B + 5, BitStage(B, h, n, c)'
  PROVE  BitGoes(B, h, n, c)
BY DEF BitGoes

LEMMA BitDone ==
  ASSUME job' = job, SPITerms, NEW B \in Nat, NEW h, NEW n \in 0 .. job.count - 1,
         NEW c \in 0 .. 7, Stage(n, c, 1, 1, 1, 2), served \in Seq(Byte),
         IF c = 7 THEN ServedFor(n + 1) ELSE IF cpha THEN Offering(n) ELSE Answering(n, c + 1),
         Len(served) >= n + 1, device.selections = 1, loop_count = 8 - c,
         DeviceKeeps, Counts(0, 0), device.edges \in Nat,
         tx_shift' = tx_shift, rx_shift' = rx_shift, loop_count' = loop_count - 1,
         pc' = IF loop_count = 1 THEN B + 6 ELSE B
  PROVE  BitGoes(B, h, n, c)
<1>0. cpha' = cpha
  BY PhaseStays
<1>1. device'.edges = device.edges /\ device'.selections = 1
  BY DEF Counts
<1>2. CASE c = 7
  <2>1. ServedFor(n + 1) /\ Stage(n, 7, 1, 1, 1, 2)
    BY <1>2
  <2>2. ByteRead(n)
    BY <2>1, ByteThrough
  <2>3. ByteRead(n)'
    BY <2>2, KeptByteRead
  <2>4. pc' = B + 6
    BY <1>2
  <2> QED
    BY <2>3, <2>4 DEF BitGoes
<1>3. CASE c # 7
  <2>1. c + 1 \in 0 .. 7 /\ loop_count # 1 /\ loop_count' = 8 - (c + 1) /\ c + 1 # 0
    BY <1>3
  <2>2. n \in 0 .. 254
    <3>1. job.count \in 1 .. 255
      BY DEF SPITerms
    <3> QED
      BY ONLY <3>1, n \in 0 .. job.count - 1
  <2>3. Stage(n, c + 1, 0, 0, 0, 0)
    BY <1>3, <2>2, StageNext
  <2>4. Stage(n, c + 1, 0, 0, 0, 0)'
    BY <1>1, <2>3, StageKeeps
  <2>5. pc' = B /\ pc' \in B .. B + 5
    BY <2>1
  <2>6. CASE cpha
    <3>1. Offering(n)'
      BY <1>3, <2>6, KeptAnswer DEF DeviceKeeps
    <3>2. TrailingStage(B, h, n, c + 1)'
      BY ONLY <2>1, <2>4, <2>5, <3>1, B \in Nat DEF TrailingStage
    <3>3. BitStage(B, h, n, c + 1)'
      BY <1>0, <1>1, <2>1, <2>6, <3>2 DEF BitStage
    <3> QED
      BY <2>1, <2>5, <3>3 DEF BitGoes
  <2>7. CASE ~cpha
    <3>1. Answering(n, c + 1)'
      BY <1>3, <2>7, KeptAnswering DEF DeviceKeeps
    <3>2. LeadingStage(B, h, n, c + 1)'
      BY ONLY <2>4, <2>5, <3>1, B \in Nat DEF LeadingStage
    <3>3. BitStage(B, h, n, c + 1)'
      BY <1>0, <1>1, <2>1, <2>7, <3>2 DEF BitStage
    <3> QED
      BY <2>1, <2>5, <3>3 DEF BitGoes
  <2> QED
    BY <2>6, <2>7
<1> QED
  BY <1>2, <1>3

LEMMA Leads ==
  ASSUME ~cpha, cpha' = cpha, NEW B, NEW h, NEW n, NEW c, loop_count = 8 - c,
         device.selections = 1, loop_count' = loop_count,
         device'.selections = device.selections, LeadingStage(B, h, n, c)'
  PROVE  BitStage(B, h, n, c)'
BY DEF BitStage

LEMMA Trails ==
  ASSUME cpha, cpha' = cpha, NEW B, NEW h, NEW n, NEW c, loop_count = 8 - c,
         device.selections = 1, loop_count' = loop_count,
         device'.selections = device.selections, TrailingStage(B, h, n, c)'
  PROVE  BitStage(B, h, n, c)'
BY DEF BitStage

LEMMA BitLeads ==
  ASSUME job' = job, SPITerms, Mirror, DeviceStep, NEW h \in Nat, h >= 4, NEW B \in Nat, NEW p,
         ~cpha, BitWords(p, B, h), BitData(p, B, h, job.lsb), BitPlace(B, h),
         BitPlace(B, h)' \/ (pc' = B + 6 /\ Driven' /\ Chosen' /\ Idle'),
         NEW n \in 0 .. job.count - 1, NEW c \in 0 .. 7, BitStage(B, h, n, c),
         served \in Seq(Byte), device.edges \in Nat, device.selections \in Nat,
         delay_left = 0, Does(p[pc + 1]), Works(p[pc + 1])
  PROVE  BitGoes(B, h, n, c)
<1>0. cpha' = cpha /\ cpol' = cpol /\ Mirror'
  BY PhaseStays, DeviceFollows
<1> DEFINE w == p[pc + 1]
<1>w. /\ pc = B => Puts(w) /\ w.lsb = job.lsb
      /\ pc = B + 1 => Waits(w, h)
      /\ pc = B + 2 => Toggles(w, TRUE) /\ w.hold = h - 1
      /\ pc = B + 3 => w.op = "IN" /\ w.lane = MISO /\ w.lsb = job.lsb
      /\ pc = B + 4 => Toggles(w, FALSE)
      /\ pc = B + 5 => w.op = "DJNZ" /\ w.target = B
  <2>1. /\ pc = B => pc + 1 = B + 1
        /\ pc = B + 1 => pc + 1 = B + 2
        /\ pc = B + 2 => pc + 1 = B + 3
        /\ pc = B + 3 => pc + 1 = B + 4
        /\ pc = B + 4 => pc + 1 = B + 5
        /\ pc = B + 5 => pc + 1 = B + 6
    BY ONLY B \in Nat
  <2> QED
    BY <2>1, Zenon DEF BitWords, BitData
<1> HIDE DEF w
<1>s. LeadingStage(B, h, n, c) /\ Works(w) /\ Does(w) /\ Driven
  BY DEF BitStage, BitPlace, w
<1>l. loop_count = 8 - c /\ device.selections = 1
  BY DEF BitStage
<1>a. pc \in {B, B + 1, B + 2, B + 3, B + 4, B + 5}
  <2>1. pc \in B .. B + 5 /\ B \in Nat
    BY DEF BitPlace
  <2> QED
    BY ONLY <2>1
<1>1. CASE pc = B
  <2>1. pc' = pc + 1 /\ w.op = "OUT" /\ Puts(w) /\ w.lsb = job.lsb
    BY <1>1, <1>w, <1>s DEF Puts, Does
  <2>2. DeviceKeeps /\ Counts(0, 0)
    BY <1>1, <2>1, BitTurns
  <2>3. /\ tx_shift' = Shifted(tx_shift, job.lsb, 0) /\ rx_shift' = rx_shift
        /\ loop_count' = loop_count
        /\ MOSI \in out_value' <=> Leaving(tx_shift, job.lsb) = 1
    BY <1>s, <2>1, OutWorks
  <2>4. Stage(n, c, 0, 0, 0, 0) /\ Answering(n, c)
    BY <1>1, <1>s DEF LeadingStage
  <2>5. device'.edges = device.edges /\ device'.selections = device.selections
    BY <2>2 DEF Counts
  <2>6. Stage(n, c, 0, 1, 0, 0)'
    BY <2>2, <2>3, <2>4, <2>5, StageOut
  <2>9. Answering(n, c)'
    BY <2>2, <2>4, KeptAnswering DEF DeviceKeeps
  <2>7. pc' = B + 1
    BY <1>1, <2>1
  <2>8. LeadingStage(B, h, n, c)'
    BY ONLY <2>6, <2>7, <2>9, B \in Nat DEF LeadingStage
  <2>10. pc' \in B .. B + 5
    BY <2>7
  <2> QED
    BY <1>0, <1>l, <2>3, <2>5, <2>8, <2>10, Leads, Ahead1
<1>2. CASE pc = B + 1
  <2>1. pc' = pc + 1 /\ w.op = "PATCH" /\ PinsStay
    BY <1>2, <1>w, <1>s, Waited DEF Waits
  <2>2. DeviceKeeps /\ Counts(0, 0)
    BY <1>2, <2>1, BitTurns
  <2>3. tx_shift' = tx_shift /\ rx_shift' = rx_shift /\ loop_count' = loop_count /\ MosiStays
    BY <1>s, <2>1, PatchWorks DEF shiftVars, PinsStay, MosiStays
  <2>4. Stage(n, c, 0, 1, 0, 0) /\ Answering(n, c)
    BY <1>2, <1>s DEF LeadingStage
  <2>5. device'.edges = device.edges /\ device'.selections = device.selections
    BY <2>2 DEF Counts
  <2>6. Stage(n, c, 0, 1, 0, 0)'
    BY <2>2, <2>3, <2>4, <2>5, StageKeeps
  <2>9. Answering(n, c)'
    BY <2>2, <2>4, KeptAnswering DEF DeviceKeeps
  <2>7. pc' = B + 2
    BY <1>2, <2>1
  <2>8. LeadingStage(B, h, n, c)'
    BY ONLY <2>6, <2>7, <2>9, B \in Nat DEF LeadingStage
  <2>10. pc' \in B .. B + 5
    BY <2>7
  <2> QED
    BY <1>0, <1>l, <2>3, <2>5, <2>8, <2>10, Leads, Ahead1
<1>3. CASE pc = B + 2
  <2>1. pc' = pc + 1 /\ w.op = "PATCH" /\ MosiStays /\ delay_left' = h - 1
    BY <1>0, <1>3, <1>w, <1>s, Toggled DEF Toggles, Does
  <2>2. DeviceTakes /\ Counts(1, 0)
    BY <1>3, <2>1, BitTurns
  <2>3. tx_shift' = tx_shift /\ rx_shift' = rx_shift /\ loop_count' = loop_count
    BY <1>s, <2>1, PatchWorks DEF shiftVars
  <2>4. Stage(n, c, 0, 1, 0, 0) /\ Answering(n, c)
    BY <1>3, <1>s DEF LeadingStage
  <2>5. device'.mosi = device.mosi
    BY <1>0, <2>1 DEF Mirror, MosiStays
  <2>6. Stage(n, c, 1, 1, 0, 1)'
    <3>1. Stage(n, c, 1, 1, 0, 0 + 1)'
      BY <2>2, <2>3, <2>4, <2>5, StageTakes
    <3>2. 0 + 1 = 1
      OBVIOUS
    <3> QED
      BY <3>1, <3>2
  <2>7. pc' = B + 3 /\ device'.selections = device.selections
    BY <1>3, <2>1, <2>2 DEF Counts
  <2>8. Answering(n, c)' /\ Arrives(delay_left, h)'
    <3>1. Answering(n, c)'
      BY <2>2, <2>4, KeptAnswering DEF DeviceTakes
    <3>2. Arrives(delay_left, h)'
      BY ONLY <2>1, h \in Nat DEF Arrives
    <3> QED
      BY <3>1, <3>2
  <2>9. LeadingStage(B, h, n, c)'
    BY ONLY <2>6, <2>7, <2>8, B \in Nat DEF LeadingStage
  <2>10. pc' \in B .. B + 5
    BY <2>7
  <2> QED
    BY <1>0, <1>l, <2>3, <2>7, <2>9, <2>10, Leads, Ahead1
<1>4. CASE pc = B + 3
  <2>1. pc' = pc + 1 /\ w.op = "IN" /\ w.lane = MISO /\ w.lsb = job.lsb
    BY <1>4, <1>w, <1>s DEF Does
  <2>2. DeviceKeeps /\ Counts(0, 0)
    BY <1>4, <2>1, BitTurns
  <2>3. /\ rx_shift' = Shifted(rx_shift, job.lsb, IF MISO \in input_sync.lanes THEN 1 ELSE 0)
        /\ tx_shift' = tx_shift /\ loop_count' = loop_count
    BY <1>s, <2>1, InWorks
  <2>4. Stage(n, c, 1, 1, 0, 1) /\ Answering(n, c) /\ Arrives(0, h)
    BY <1>4, <1>s DEF LeadingStage
  <2>5. device'.edges = device.edges /\ device'.selections = device.selections
    BY <2>2 DEF Counts
  <2>6. Stage(n, c, 1, 1, 1, 1)' /\ Answering(n, c)'
    <3>1. MISO \in input_sync.lanes <=> device.miso
      BY <2>4, LevelArrived
    <3>2. Stage(n, c, 1, 1, 1, 1)'
      BY <2>2, <2>3, <2>4, <2>5, <3>1, StageReads
    <3>3. Answering(n, c)'
      BY <2>2, <2>4, KeptAnswering DEF DeviceKeeps
    <3> QED
      BY <3>2, <3>3
  <2>7. pc' = B + 4
    BY <1>4, <2>1
  <2>8. LeadingStage(B, h, n, c)'
    BY ONLY <2>6, <2>7, B \in Nat DEF LeadingStage
  <2>10. pc' \in B .. B + 5
    BY <2>7
  <2> QED
    BY <1>0, <1>l, <2>3, <2>5, <2>8, <2>10, Leads, Ahead1
<1>5. CASE pc = B + 4
  <2>1. pc' = pc + 1 /\ w.op = "PATCH"
    BY <1>0, <1>5, <1>w, <1>s, Toggled DEF Toggles
  <2>2. DeviceOffers /\ Counts(1, 0)
    BY <1>5, <2>1, BitTurns
  <2>3. tx_shift' = tx_shift /\ rx_shift' = rx_shift /\ loop_count' = loop_count
    BY <1>s, <2>1, PatchWorks DEF shiftVars
  <2>4. Stage(n, c, 1, 1, 1, 1) /\ Answering(n, c)
    BY <1>5, <1>s DEF LeadingStage
  <2>5. /\ Stage(n, c, 1, 1, 1, 2)'
        /\ IF c = 7 THEN ServedFor(n + 1)' ELSE Answering(n, c + 1)'
    BY <2>2, <2>3, <2>4, StageOffersNext
  <2>6. pc' = B + 5 /\ device'.selections = device.selections
    BY <1>5, <2>1, <2>2 DEF Counts
  <2>7. LeadingStage(B, h, n, c)'
    BY ONLY <2>5, <2>6, B \in Nat DEF LeadingStage
  <2>8. pc' \in B .. B + 5
    BY <2>6
  <2> QED
    BY <1>0, <1>l, <2>3, <2>6, <2>7, <2>8, Leads, Ahead1
<1>6. CASE pc = B + 5
  <2>1. /\ loop_count' = loop_count - 1 /\ pc' = IF loop_count = 1 THEN B + 6 ELSE B
        /\ w.op = "DJNZ"
    <3>1. pc + 1 = B + 6
      BY <1>6
    <3> QED
      BY <1>6, <1>w, <1>s, <3>1 DEF Does
  <2>2. DeviceKeeps /\ Counts(0, 0)
    BY <1>6, <2>1, BitTurns
  <2>3. tx_shift' = tx_shift /\ rx_shift' = rx_shift
    BY <1>s, <2>1, DjnzWorks
  <2>4. Stage(n, c, 1, 1, 1, 2) /\ IF c = 7 THEN ServedFor(n + 1) ELSE Answering(n, c + 1)
    BY <1>6, <1>s DEF LeadingStage
  <2>5. Len(served) >= n + 1
    BY <2>4 DEF ServedFor, Answering, Offering
  <2> QED
    BY <1>l, <2>1, <2>2, <2>3, <2>4, <2>5, BitDone
<1> QED
  BY <1>a, <1>1, <1>2, <1>3, <1>4, <1>5, <1>6

LEMMA BitTrails ==
  ASSUME job' = job, SPITerms, Mirror, DeviceStep, NEW h \in Nat, h >= 4, NEW B \in Nat, NEW p,
         cpha, BitWords(p, B, h), BitData(p, B, h, job.lsb), BitPlace(B, h),
         BitPlace(B, h)' \/ (pc' = B + 6 /\ Driven' /\ Chosen' /\ Idle'),
         NEW n \in 0 .. job.count - 1, NEW c \in 0 .. 7, BitStage(B, h, n, c),
         served \in Seq(Byte), device.edges \in Nat, device.selections \in Nat,
         delay_left = 0, Does(p[pc + 1]), Works(p[pc + 1])
  PROVE  BitGoes(B, h, n, c)
<1>0. cpha' = cpha /\ cpol' = cpol /\ Mirror'
  BY PhaseStays, DeviceFollows
<1> DEFINE w == p[pc + 1]
<1>w. /\ pc = B => Toggles(w, TRUE)
      /\ pc = B + 1 => Puts(w) /\ w.lsb = job.lsb
      /\ pc = B + 2 => Waits(w, h)
      /\ pc = B + 3 => Toggles(w, FALSE) /\ w.hold = h - 1
      /\ pc = B + 4 => w.op = "IN" /\ w.lane = MISO /\ w.lsb = job.lsb
      /\ pc = B + 5 => w.op = "DJNZ" /\ w.target = B
  <2>1. /\ pc = B => pc + 1 = B + 1
        /\ pc = B + 1 => pc + 1 = B + 2
        /\ pc = B + 2 => pc + 1 = B + 3
        /\ pc = B + 3 => pc + 1 = B + 4
        /\ pc = B + 4 => pc + 1 = B + 5
        /\ pc = B + 5 => pc + 1 = B + 6
    BY ONLY B \in Nat
  <2> QED
    BY <2>1, Zenon DEF BitWords, BitData
<1> HIDE DEF w
<1>s. TrailingStage(B, h, n, c) /\ Works(w) /\ Does(w) /\ Driven
  BY DEF BitStage, BitPlace, w
<1>l. loop_count = 8 - c /\ device.selections = 1
  BY DEF BitStage
<1>a. pc \in {B, B + 1, B + 2, B + 3, B + 4, B + 5}
  <2>1. pc \in B .. B + 5 /\ B \in Nat
    BY DEF BitPlace
  <2> QED
    BY ONLY <2>1
<1>1. CASE pc = B
  <2>1. pc' = pc + 1 /\ w.op = "PATCH"
    BY <1>0, <1>1, <1>w, <1>s, Toggled DEF Toggles
  <2>2. DeviceOffers /\ Counts(1, 0)
    BY <1>1, <2>1, BitTurns
  <2>3. tx_shift' = tx_shift /\ rx_shift' = rx_shift /\ loop_count' = loop_count
    BY <1>s, <2>1, PatchWorks DEF shiftVars
  <2>4. Stage(n, c, 0, 0, 0, 0) /\ IF c = 0 THEN Len(served) = n ELSE Offering(n)
    BY <1>1, <1>s DEF TrailingStage
  <2>5. Stage(n, c, 0, 0, 0, 1)' /\ Answering(n, c)'
    BY <2>2, <2>3, <2>4, StageOffers
  <2>6. pc' = B + 1 /\ device'.selections = device.selections
    BY <1>1, <2>1, <2>2 DEF Counts
  <2>7. TrailingStage(B, h, n, c)'
    BY ONLY <2>5, <2>6, B \in Nat DEF TrailingStage
  <2>8. pc' \in B .. B + 5
    BY <2>6
  <2> QED
    BY <1>0, <1>l, <2>3, <2>6, <2>7, <2>8, Trails, Ahead1
<1>2. CASE pc = B + 1
  <2>1. pc' = pc + 1 /\ w.op = "OUT" /\ Puts(w) /\ w.lsb = job.lsb
    BY <1>2, <1>w, <1>s DEF Puts, Does
  <2>2. DeviceKeeps /\ Counts(0, 0)
    BY <1>2, <2>1, BitTurns
  <2>3. /\ tx_shift' = Shifted(tx_shift, job.lsb, 0) /\ rx_shift' = rx_shift
        /\ loop_count' = loop_count
        /\ MOSI \in out_value' <=> Leaving(tx_shift, job.lsb) = 1
    BY <1>s, <2>1, OutWorks
  <2>4. Stage(n, c, 0, 0, 0, 1) /\ Answering(n, c)
    BY <1>2, <1>s DEF TrailingStage
  <2>5. device'.edges = device.edges /\ device'.selections = device.selections
    BY <2>2 DEF Counts
  <2>6. Stage(n, c, 0, 1, 0, 1)'
    BY <2>2, <2>3, <2>4, <2>5, StageOut
  <2>7. Answering(n, c)'
    BY <2>2, <2>4, KeptAnswering DEF DeviceKeeps
  <2>8. pc' = B + 2
    BY <1>2, <2>1
  <2>9. TrailingStage(B, h, n, c)'
    BY ONLY <2>6, <2>7, <2>8, B \in Nat DEF TrailingStage
  <2>10. pc' \in B .. B + 5
    BY <2>8
  <2> QED
    BY <1>0, <1>l, <2>3, <2>5, <2>9, <2>10, Trails, Ahead1
<1>3. CASE pc = B + 2
  <2>1. pc' = pc + 1 /\ w.op = "PATCH" /\ PinsStay
    BY <1>3, <1>w, <1>s, Waited DEF Waits
  <2>2. DeviceKeeps /\ Counts(0, 0)
    BY <1>3, <2>1, BitTurns
  <2>3. tx_shift' = tx_shift /\ rx_shift' = rx_shift /\ loop_count' = loop_count /\ MosiStays
    BY <1>s, <2>1, PatchWorks DEF shiftVars, PinsStay, MosiStays
  <2>4. Stage(n, c, 0, 1, 0, 1) /\ Answering(n, c)
    BY <1>3, <1>s DEF TrailingStage
  <2>5. device'.edges = device.edges /\ device'.selections = device.selections
    BY <2>2 DEF Counts
  <2>6. Stage(n, c, 0, 1, 0, 1)'
    BY <2>2, <2>3, <2>4, <2>5, StageKeeps
  <2>7. Answering(n, c)'
    BY <2>2, <2>4, KeptAnswering DEF DeviceKeeps
  <2>8. pc' = B + 3
    BY <1>3, <2>1
  <2>9. TrailingStage(B, h, n, c)'
    BY ONLY <2>6, <2>7, <2>8, B \in Nat DEF TrailingStage
  <2>10. pc' \in B .. B + 5
    BY <2>8
  <2> QED
    BY <1>0, <1>l, <2>3, <2>5, <2>9, <2>10, Trails, Ahead1
<1>4. CASE pc = B + 3
  <2>1. pc' = pc + 1 /\ w.op = "PATCH" /\ MosiStays /\ delay_left' = h - 1
    BY <1>0, <1>4, <1>w, <1>s, Toggled DEF Toggles, Does
  <2>2. DeviceTakes /\ Counts(1, 0)
    BY <1>4, <2>1, BitTurns
  <2>3. tx_shift' = tx_shift /\ rx_shift' = rx_shift /\ loop_count' = loop_count
    BY <1>s, <2>1, PatchWorks DEF shiftVars
  <2>4. Stage(n, c, 0, 1, 0, 1) /\ Answering(n, c)
    BY <1>4, <1>s DEF TrailingStage
  <2>5. device'.mosi = device.mosi
    BY <1>0, <2>1 DEF Mirror, MosiStays
  <2>6. Stage(n, c, 1, 1, 0, 2)'
    <3>1. Stage(n, c, 1, 1, 0, 1 + 1)'
      BY <2>2, <2>3, <2>4, <2>5, StageTakes
    <3>2. 1 + 1 = 2
      OBVIOUS
    <3> QED
      BY <3>1, <3>2
  <2>7. pc' = B + 4 /\ device'.selections = device.selections
    BY <1>4, <2>1, <2>2 DEF Counts
  <2>8. Answering(n, c)' /\ Arrives(delay_left, h)'
    <3>1. Answering(n, c)'
      BY <2>2, <2>4, KeptAnswering DEF DeviceTakes
    <3>2. Arrives(delay_left, h)'
      BY ONLY <2>1, h \in Nat DEF Arrives
    <3> QED
      BY <3>1, <3>2
  <2>9. TrailingStage(B, h, n, c)'
    BY ONLY <2>6, <2>7, <2>8, B \in Nat DEF TrailingStage
  <2>10. pc' \in B .. B + 5
    BY <2>7
  <2> QED
    BY <1>0, <1>l, <2>3, <2>7, <2>9, <2>10, Trails, Ahead1
<1>5. CASE pc = B + 4
  <2>1. pc' = pc + 1 /\ w.op = "IN" /\ w.lane = MISO /\ w.lsb = job.lsb
    BY <1>5, <1>w, <1>s DEF Does
  <2>2. DeviceKeeps /\ Counts(0, 0)
    BY <1>5, <2>1, BitTurns
  <2>3. /\ rx_shift' = Shifted(rx_shift, job.lsb, IF MISO \in input_sync.lanes THEN 1 ELSE 0)
        /\ tx_shift' = tx_shift /\ loop_count' = loop_count
    BY <1>s, <2>1, InWorks
  <2>4. Stage(n, c, 1, 1, 0, 2) /\ Answering(n, c) /\ Arrives(0, h)
    BY <1>5, <1>s DEF TrailingStage
  <2>5. device'.edges = device.edges /\ device'.selections = device.selections
    BY <2>2 DEF Counts
  <2>6. Stage(n, c, 1, 1, 1, 2)' /\ Offering(n)'
    <3>1. MISO \in input_sync.lanes <=> device.miso
      BY <2>4, LevelArrived
    <3>2. Stage(n, c, 1, 1, 1, 2)'
      BY <2>2, <2>3, <2>4, <2>5, <3>1, StageReads
    <3>3. Offering(n)'
      BY <2>2, <2>4, KeptAnswer DEF DeviceKeeps, Answering
    <3> QED
      BY <3>2, <3>3
  <2>7. pc' = B + 5
    BY <1>5, <2>1
  <2>8. TrailingStage(B, h, n, c)'
    BY ONLY <2>6, <2>7, B \in Nat DEF TrailingStage
  <2>9. pc' \in B .. B + 5
    BY <2>7
  <2> QED
    BY <1>0, <1>l, <2>3, <2>5, <2>8, <2>9, Trails, Ahead1
<1>6. CASE pc = B + 5
  <2>1. /\ loop_count' = loop_count - 1 /\ pc' = IF loop_count = 1 THEN B + 6 ELSE B
        /\ w.op = "DJNZ"
    <3>1. pc + 1 = B + 6
      BY <1>6
    <3> QED
      BY <1>6, <1>w, <1>s, <3>1 DEF Does
  <2>2. DeviceKeeps /\ Counts(0, 0)
    BY <1>6, <2>1, BitTurns
  <2>3. tx_shift' = tx_shift /\ rx_shift' = rx_shift
    BY <1>s, <2>1, DjnzWorks
  <2>4. Stage(n, c, 1, 1, 1, 2) /\ Offering(n)
    BY <1>6, <1>s DEF TrailingStage
  <2>5. Len(served) >= n + 1 /\ ServedFor(n + 1)
    BY <2>4 DEF ServedFor, Offering
  <2> QED
    BY <1>l, <2>1, <2>2, <2>3, <2>4, <2>5, BitDone
<1> QED
  BY <1>a, <1>1, <1>2, <1>3, <1>4, <1>5, <1>6

LEMMA BitWorks ==
  ASSUME job' = job, SPITerms, Mirror, DeviceStep, NEW h \in Nat, h >= 4, NEW B \in Nat, NEW p,
         BitWords(p, B, h), BitData(p, B, h, job.lsb), BitPlace(B, h),
         BitPlace(B, h)' \/ (pc' = B + 6 /\ Driven' /\ Chosen' /\ Idle'),
         NEW n \in 0 .. job.count - 1, NEW c \in 0 .. 7, BitStage(B, h, n, c),
         served \in Seq(Byte), device.edges \in Nat, device.selections \in Nat,
         delay_left = 0, Does(p[pc + 1]), Works(p[pc + 1])
  PROVE  BitGoes(B, h, n, c)
BY BitLeads, BitTrails

(***************************************************************************)
(* SPI: a clock of a program, outside the bits.                            *)
(***************************************************************************)
Turning ==
  /\ OnBench /\ Inv /\ BenchClock(SPILanes) /\ DeviceStep /\ job' = job /\ SPITerms
  /\ Mirror /\ Bytes /\ device.edges \in Nat /\ device.selections \in Nat

\* What a clock takes from the queue of the host's bytes and puts into the other.
Moves(w) ==
  /\ Pulled' = Pulled + (IF w.op = "PULL" /\ ~Empty(tx) THEN 1 ELSE 0)
  /\ Pushed' = Pushed + (IF w.op = "PUSH" /\ ~Full(rx) THEN 1 ELSE 0)

LEMMA PinsKeep ==
  ASSUME Turning, PinsStay, out_enable = {} \/ Driven
  PROVE  DeviceKeeps /\ Counts(0, 0)
<1>0. cpol' = cpol
  BY PhaseStays DEF Turning
<1>1. (Driven' <=> Driven) /\ (Chosen' <=> Chosen) /\ (Idle' <=> Idle) /\ out_enable' = out_enable
  BY <1>0, Stays
<1>2. /\ ~(CS \in out_enable' /\ CS \notin out_value') => DeviceKeeps /\ Counts(0, 0)
      /\ Driven' /\ Chosen' /\ Driven /\ Chosen =>
           ((Idle' <=> Idle) => DeviceKeeps /\ Counts(0, 0))
  BY DeviceSees DEF Turning
<1>3. CASE out_enable = {} \/ ~Chosen
  BY <1>1, <1>2, <1>3 DEF Chosen
<1>4. CASE Driven /\ Chosen
  BY <1>1, <1>2, <1>4
<1> QED
  BY <1>3, <1>4

LEMMA KeptReady ==
  ASSUME job' = job, DeviceKeeps, Counts(0, 0), device.edges \in Nat, device.selections \in Nat,
         NEW n, Ready(n)
  PROVE  Ready(n)'
<1>1. device'.edges = device.edges /\ device'.selections = device.selections
  BY DEF Counts
<1>2. Took(n, 0)' /\ ServedFor(n)'
  BY PhaseStays, KeptTook, KeptServedFor DEF DeviceKeeps, Ready
<1> QED
  BY <1>1, <1>2 DEF Ready

LEMMA KeptUntouched ==
  ASSUME job' = job, DeviceKeeps, Counts(0, 0), device.edges \in Nat, device.selections \in Nat,
         Untouched
  PROVE  Untouched'
<1>1. device'.edges = device.edges /\ device'.selections = device.selections
  BY DEF Counts
<1>2. Took(0, 0)'
  BY KeptTook DEF DeviceKeeps, Untouched
<1> QED
  BY <1>1, <1>2 DEF Untouched, DeviceKeeps

\* The device is selected.
LEMMA ReadyWhenChosen ==
  ASSUME Turning, Untouched, Driven, ~Chosen, Idle, Driven', Chosen', Idle'
  PROVE  Ready(0)'
<1>0. cpha' = cpha /\ cpha \in BOOLEAN
  BY PhaseStays, PhaseIsBoolean DEF Turning
<1>1. Counts(0, 1) /\ IF cpha THEN DeviceKeeps ELSE DeviceOffers
  BY DeviceSees DEF Turning
<1>2. Took(0, 0) /\ served = << >> /\ device.edges = 0 /\ device.selections = 0
  BY DEF Untouched
<1>3. device'.edges = 16 * 0 /\ device'.selections = 1
  BY <1>1, <1>2 DEF Counts
<1>4. job' = job /\ 0 < job.count /\ 0 \in Nat /\ served \in Seq(Byte) /\ Len(served) = 0
  <2>1. job.count \in 1 .. 255 /\ job' = job
    BY DEF SPITerms, Turning
  <2>2. 0 < job.count
    BY ONLY <2>1
  <2>3. served \in Seq(Byte) /\ Len(served) = 0
    BY <1>2
  <2> QED
    BY <2>1, <2>2, <2>3
<1>5. CASE cpha
  <2>1. Took(0, 0)' /\ served' = served
    BY <1>1, <1>2, <1>4, <1>5, KeptTook DEF DeviceKeeps
  <2>2. ServedFor(0)'
    BY <1>0, <1>4, <1>5, <2>1 DEF ServedFor
  <2> QED
    BY <1>3, <2>1, <2>2 DEF Ready
<1>6. CASE ~cpha
  <2>1. Took(0, 0)' /\ Answering(0, 0)'
    BY <1>1, <1>2, <1>4, <1>6, OffersByte DEF Turning
  <2>2. ServedFor(0)'
    BY <1>0, <1>4, <1>6, <2>1 DEF ServedFor
  <2> QED
    BY <1>3, <2>1, <2>2 DEF Ready
<1> QED
  BY <1>5, <1>6

\* A byte is in the register: its first bit is due.
LEMMA BitBegins ==
  ASSUME job.count \in 1 .. 255, job' = job, NEW n \in 0 .. job.count - 1, NEW B \in Nat, NEW h,
         Ready(n)', TxIs(n, 0)', rx_shift' = 0, loop_count' = 8, pc' = B
  PROVE  BitStage(B, h, n, 0)'
<1>0. cpha' = cpha /\ cpha \in BOOLEAN /\ n # job.count /\ n \in Nat
  <2>1. n # job.count /\ n \in Nat
    BY ONLY job.count \in 1 .. 255, n \in 0 .. job.count - 1
  <2> QED
    BY <2>1, PhaseStays, PhaseIsBoolean
<1>1. Stage(n, 0, 0, 0, 0, 0)'
  <2>1. 0 + 0 = 0 /\ 16 * n + 2 * 0 + 0 = 16 * n
    BY <1>0
  <2>2. TookUpTo(n, 0)' /\ RxIs(n, 0)' /\ device'.edges = 16 * n
    BY DEF Ready, TookUpTo, RxIs
  <2> QED
    BY ONLY TxIs(n, 0)', <2>1, <2>2 DEF Stage
<1>2. IF cpha THEN Len(served') = n ELSE Answering(n, 0)'
  BY <1>0 DEF Ready, ServedFor
<1>3. loop_count' = 8 - 0 /\ device'.selections = 1
  BY DEF Ready
<1>4. CASE cpha
  <2>1. TrailingStage(B, h, n, 0)'
    BY ONLY <1>1, <1>2, <1>4, pc' = B, B \in Nat DEF TrailingStage
  <2> QED
    BY <1>0, <1>3, <1>4, <2>1 DEF BitStage
<1>5. CASE ~cpha
  <2>1. LeadingStage(B, h, n, 0)'
    BY ONLY <1>1, <1>2, <1>5, pc' = B, B \in Nat DEF LeadingStage
  <2> QED
    BY <1>0, <1>3, <1>5, <2>1 DEF BitStage
<1> QED
  BY <1>4, <1>5

LEMMA FirstBit ==
  ASSUME Turning, NEW n \in 0 .. job.count - 1, NEW B \in Nat, NEW h, Ready(n), DeviceKeeps,
         Counts(0, 0), tx_shift' = job.sends[n + 1], rx_shift' = 0, loop_count' = 8, pc' = B
  PROVE  BitStage(B, h, n, 0)'
<1>0. /\ job' = job /\ job.count \in 1 .. 255 /\ job.lsb \in BOOLEAN
      /\ job.sends \in Seq(Byte) /\ Len(job.sends) = job.count
  BY DEF Turning, SPITerms
<1>1. Ready(n)'
  BY KeptReady DEF Turning
<1>2. TxIs(n, 0)'
  <2>1. job.sends[n + 1] \in Byte
    BY <1>0
  <2>2. SentPart(job.sends[n + 1], 0)' = job.sends[n + 1]
    BY <1>0, <2>1, FirstSent, PartsStay
  <2> QED
    BY <1>0, <2>2 DEF TxIs
<1> QED
  BY <1>0, <1>1, <1>2, BitBegins

(***************************************************************************)
(* SPI: a clock of the stream.                                             *)
(***************************************************************************)
LEMMA StreamHeld ==
  ASSUME Turning, NEW h \in Nat, StreamPlace(h), StreamStage(h), PinsStay,
         delay_left # 0, delay_left' = delay_left - 1, pc' = pc,
         UNCHANGED <<shiftVars, streamVars>>, Pulled' = Pulled, Pushed' = Pushed
  PROVE  StreamStage(h)'
<1>1. DeviceKeeps /\ Counts(0, 0)
  BY PinsKeep DEF StreamPlace, SPIPlace, BitPlace
<1>2. /\ job' = job /\ device.edges \in Nat /\ device.selections \in Nat /\ OnBench
      /\ BenchClock(SPILanes) /\ MosiStays
      /\ tx_shift' = tx_shift /\ rx_shift' = rx_shift /\ loop_count' = loop_count
      /\ stream_enabled' = stream_enabled /\ byte_count' = byte_count
      /\ delay_left \in Nat \ {0}
  BY DEF Turning, PinsStay, MosiStays, shiftVars, streamVars, StreamPlace, SPIPlace
<1>3. Untouched => Untouched'
  BY <1>1, <1>2, KeptUntouched
<1>4. \A n : (Ready(n) => Ready(n)') /\ (ByteRead(n) => ByteRead(n)')
  BY <1>1, <1>2, KeptReady, KeptByteRead
<1>5. ASSUME NEW n \in 0 .. job.count - 1, StreamByte(h, n) PROVE StreamByte(h, n)'
  <2>1. ASSUME NEW c \in 0 .. 7, BitStage(4, h, n, c), pc \in 4 .. 9 PROVE BitStage(4, h, n, c)'
    <3>1. pc \in 4 .. 4 + 5 /\ 4 \in Nat
      BY ONLY <2>1
    <3> QED
      BY <1>1, <1>2, <2>1, <3>1, BitHeld
  <2> QED
    BY <1>2, <1>4, <1>5, <2>1 DEF StreamByte
<1> QED
  BY <1>2, <1>3, <1>4, <1>5 DEF StreamStage

\* The words before the bytes.
LEMMA StreamOpens ==
  ASSUME Turning, NEW h \in Nat \ {0}, NEW p, StreamHas(p, h), p[1].count = job.count,
         StreamPlace(h), StreamStage(h), pc \in {0, 1, 2}, Strobes,
         Does(p[pc + 1]), Works(p[pc + 1]), Moves(p[pc + 1])
  PROVE  StreamStage(h)'
<1>0. cpol' = cpol /\ job' = job
  BY PhaseStays DEF Turning
<1>w. p[1].op = "STREAM" /\ Starts(p[2]) /\ Selects(p[3], TRUE)
  BY DEF StreamHas
<1>d. device.edges \in Nat /\ device.selections \in Nat /\ job.count \in 1 .. 255
  BY DEF Turning, SPITerms
<1>1. CASE pc = 0
  <2>1. /\ out_enable = {} /\ Untouched /\ ~stream_enabled
    BY <1>1 DEF StreamPlace, SPIPlace, BitPlace, StreamStage
  <2>2. p[pc + 1] = p[1]
    BY ONLY <1>1
  <2>3. PinsStay /\ pc' = 1 /\ stream_enabled' /\ byte_count' = job.count
    BY <1>1, <1>w, <2>2 DEF Does, Works
  <2>4. Untouched'
    BY <1>0, <1>d, <2>1, <2>3, PinsKeep, KeptUntouched
  <2>5. Pulled = 0 /\ Pushed = 0
    <3>1. Empty(tx) /\ Empty(rx)
      BY <2>1 DEF Turning, Inv, StreamingGate
    <3>2. unsent = job.bytes /\ got = << >>
      BY <2>1 DEF Strobes
    <3>3. job.bytes \in Seq(Byte)
      BY DEF Turning, SPITerms
    <3> QED
      BY <3>1, <3>2, <3>3 DEF Pulled, Pushed, Empty
  <2>6. Pulled' = 0 /\ Pushed' = 0
    <3>1. p[pc + 1].op = "STREAM"
      BY <1>w, <2>2
    <3> QED
      BY ONLY <2>5, <3>1, Moves(p[pc + 1]) DEF Moves
  <2> QED
    BY <2>3, <2>4, <2>6, <1>0 DEF StreamStage
<1>2. CASE pc = 1
  <2>1. /\ out_enable = {} /\ Untouched /\ stream_enabled /\ byte_count = job.count
        /\ Pulled = 0 /\ Pushed = 0
    BY <1>2 DEF StreamPlace, SPIPlace, BitPlace, StreamStage
  <2>2. p[pc + 1] = p[2]
    BY ONLY <1>2
  <2>3. p[pc + 1].op = "DRIVE" /\ Starts(p[pc + 1])
    BY <1>w, <2>2 DEF Starts
  <2>4. /\ pc' = 2 /\ Driven' /\ ~Chosen' /\ UNCHANGED streamVars
    BY <1>2, <2>1, <2>3, Begun, PatchWorks DEF Turning
  <2>5. DeviceKeeps /\ Counts(0, 0)
    BY <2>4, DeviceSees DEF Turning, Chosen
  <2>6. Untouched'
    BY <1>0, <1>d, <2>1, <2>5, KeptUntouched
  <2>7. Pulled' = 0 /\ Pushed' = 0
    BY ONLY <2>1, <2>3, Moves(p[pc + 1]) DEF Moves
  <2> QED
    BY <1>0, <2>1, <2>4, <2>6, <2>7 DEF StreamStage, streamVars
<1>3. CASE pc = 2
  <2>1. /\ Driven /\ Idle /\ ~Chosen /\ Untouched /\ stream_enabled /\ byte_count = job.count
        /\ Pulled = 0 /\ Pushed = 0
    BY <1>3 DEF StreamPlace, SPIPlace, BitPlace, StreamStage
  <2>2. p[pc + 1] = p[3]
    BY ONLY <1>3
  <2>3. p[pc + 1].op = "PATCH" /\ Selects(p[pc + 1], TRUE)
    BY <1>w, <2>2 DEF Selects
  <2>4. pc' = 3 /\ Driven' /\ Chosen' /\ Idle' /\ UNCHANGED streamVars
    <3>1. Driven' /\ Idle' /\ (Chosen' <=> TRUE) /\ pc' = pc + 1
      BY <2>1, <2>3, Chose DEF Turning
    <3>2. UNCHANGED streamVars
      BY <2>3, PatchWorks
    <3> QED
      BY <1>3, <3>1, <3>2
  <2>5. Ready(0)'
    BY <2>1, <2>4, ReadyWhenChosen
  <2>6. Pulled' = 0 /\ Pushed' = 0
    BY ONLY <2>1, <2>3, Moves(p[pc + 1]) DEF Moves
  <2>7. 0 \in 0 .. job.count - 1 /\ byte_count' = job'.count - 0
    BY <1>0, <1>d, <2>1, <2>4 DEF streamVars
  <2>8. StreamByte(h, 0)'
    BY <2>4, <2>5, <2>6, <2>7 DEF StreamByte
  <2> QED
    BY <1>0, <2>1, <2>4, <2>7, <2>8 DEF StreamStage, streamVars
<1> QED
  BY <1>1, <1>2, <1>3

\* The next byte is taken, or waited for.
LEMMA StreamPulls ==
  ASSUME Turning, NEW h \in Nat \ {0}, NEW p, StreamHas(p, h), job.streaming,
         StreamPlace(h), StreamStage(h), pc = 3,
         Does(p[pc + 1]), Works(p[pc + 1]), Moves(p[pc + 1])
  PROVE  StreamStage(h)'
<1>0. /\ job' = job /\ device.edges \in Nat /\ device.selections \in Nat
      /\ job.count \in 1 .. 255 /\ job.bytes = job.sends
  BY DEF Turning, SPITerms
<1>1. p[pc + 1].op = "PULL"
  <2>1. p[pc + 1] = p[4]
    BY ONLY pc = 3
  <2> QED
    BY <2>1 DEF StreamHas
<1>2. Driven /\ stream_enabled
  BY DEF StreamPlace, SPIPlace, BitPlace, StreamStage
<1>3. PICK n \in 0 .. job.count - 1 : StreamByte(h, n)
  BY DEF StreamStage
<1>4. byte_count = job.count - n /\ Pulled = n /\ Pushed = n /\ Ready(n)
  BY <1>3 DEF StreamByte
<1>5. PinsStay /\ UNCHANGED streamVars
  BY <1>1 DEF Does, Works
<1>6. DeviceKeeps /\ Counts(0, 0)
  BY <1>2, <1>5, PinsKeep
<1>7. Pushed' = n
  BY ONLY <1>1, <1>4, Moves(p[pc + 1]) DEF Moves
<1>8. byte_count' = job'.count - n /\ stream_enabled' /\ n \in 0 .. job'.count - 1
  BY <1>0, <1>2, <1>4, <1>5 DEF streamVars
<1>9. CASE Empty(tx)
  <2>1. pc' = 3 /\ Pulled' = n
    <3>1. pc' = 3
      BY <1>1, <1>9 DEF Works
    <3>2. Pulled' = n
      BY ONLY <1>1, <1>4, <1>9, n \in 0 .. job.count - 1, Moves(p[pc + 1]) DEF Moves
    <3> QED
      BY <3>1, <3>2
  <2>2. Ready(n)'
    BY <1>0, <1>4, <1>6, KeptReady
  <2>3. StreamByte(h, n)'
    BY <1>7, <1>8, <2>1, <2>2 DEF StreamByte
  <2> QED
    BY <1>8, <2>1, <2>3 DEF StreamStage
<1>10. CASE ~Empty(tx)
  <2>1. pc' = 4 /\ tx_shift' = Front(tx) /\ loop_count' = 8 /\ rx_shift' = 0
    BY <1>1, <1>10 DEF Works
  <2>2. Pulled' = n + 1
    BY ONLY <1>1, <1>4, <1>10, Moves(p[pc + 1]) DEF Moves
  <2>3. Front(tx) = job.sends[n + 1]
    <3>1. Carries(tx, job.bytes, Pulled) /\ Pulled \in Nat /\ Inv
      BY DEF Turning, Bytes
    <3>2. Front(tx) = job.bytes[Pulled + 1]
      BY <1>10, <3>1, QueueTerms, FrontCarried
    <3> QED
      BY <1>0, <1>4, <3>2
  <2>4. BitStage(4, h, n, 0)'
    BY <1>4, <1>6, <2>1, <2>3, FirstBit
  <2>5. StreamByte(h, n)'
    BY <1>7, <1>8, <2>1, <2>2, <2>4, 0 \in 0 .. 7 DEF StreamByte
  <2> QED
    BY <1>8, <2>1, <2>5 DEF StreamStage
<1> QED
  BY <1>9, <1>10

LEMMA StreamShifts ==
  ASSUME Turning, NEW h \in Nat, h >= 4, h = job.half, NEW p, StreamHas(p, h),
         BitData(p, 4, h, job.lsb),
         StreamPlace(h), StreamStage(h), pc \in 4 .. 9, delay_left = 0, device.steady \in 0 .. h,
         Does(p[pc + 1]), Works(p[pc + 1]), Moves(p[pc + 1])
  PROVE  StreamStage(h)'
<1>0. /\ job' = job /\ job.count \in 1 .. 255 /\ served \in Seq(Byte) /\ 4 \in Nat
      /\ pc \in 4 .. 4 + 5 /\ h \in Nat \ {0}
  BY DEF Turning, SPITerms, Bytes
<1>1. BitPlace(4, h) /\ stream_enabled /\ BitWords(p, 4, h)
  BY DEF StreamPlace, SPIPlace, BitPlace, StreamStage, StreamHas
<1>2. PICK n \in 0 .. job.count - 1 : StreamByte(h, n)
  BY DEF StreamStage
<1>3. byte_count = job.count - n /\ Pulled = n + 1 /\ Pushed = n
  BY <1>2 DEF StreamByte
<1>4. PICK c \in 0 .. 7 : BitStage(4, h, n, c)
  BY <1>2 DEF StreamByte
<1>5. BitNext(4, h)
  BY <1>0, <1>1, BitActs DEF Turning
<1>6. BitGoes(4, h, n, c)
  BY <1>0, <1>1, <1>4, <1>5, BitWorks DEF Turning, BitNext
<1>7. p[pc + 1].op \in {"PATCH", "OUT", "IN", "DJNZ"}
  <2>1. pc + 1 \in {4 + 1, 4 + 2, 4 + 3, 4 + 4, 4 + 5, 4 + 6}
    BY ONLY pc \in 4 .. 9
  <2>2. /\ p[4 + 1].op \in {"PATCH", "OUT"} /\ p[4 + 2].op \in {"PATCH", "OUT"}
        /\ p[4 + 3].op = "PATCH" /\ p[4 + 4].op \in {"PATCH", "IN"}
        /\ p[4 + 5].op \in {"PATCH", "IN"} /\ p[4 + 6].op = "DJNZ"
    BY <1>1 DEF BitWords, Toggles, Puts, Waits
  <2> QED
    BY ONLY <2>1, <2>2
<1>8. Pulled' = n + 1 /\ Pushed' = n
  BY ONLY <1>3, <1>7, n \in 0 .. job.count - 1, Moves(p[pc + 1]) DEF Moves
<1>9. UNCHANGED streamVars
  BY <1>7 DEF Works
<1>10. byte_count' = job'.count - n /\ stream_enabled' /\ n \in 0 .. job'.count - 1
  BY <1>0, <1>1, <1>3, <1>9 DEF streamVars
<1>11. CASE pc' \in 4 .. 4 + 5 /\ \E k \in 0 .. 7 : BitStage(4, h, n, k)'
  <2>1. pc' \in 4 .. 9
    BY ONLY <1>11
  <2>2. StreamByte(h, n)'
    BY <1>8, <1>10, <1>11, <2>1 DEF StreamByte
  <2> QED
    BY <1>10, <2>1, <2>2 DEF StreamStage
<1>12. CASE pc' = 4 + 6 /\ ByteRead(n)'
  <2>1. pc' = 10
    BY ONLY <1>12
  <2>2. StreamByte(h, n)'
    BY <1>8, <1>10, <1>12, <2>1 DEF StreamByte
  <2> QED
    BY <1>10, <2>1, <2>2 DEF StreamStage
<1> QED
  BY <1>6, <1>11, <1>12 DEF BitGoes

\* The byte is handed over, or held until it can be, and the next one is due.
LEMMA StreamPushes ==
  ASSUME Turning, NEW h \in Nat \ {0}, NEW p, StreamHas(p, h),
         StreamPlace(h), StreamStage(h), pc \in {10, 11},
         Does(p[pc + 1]), Works(p[pc + 1]), Moves(p[pc + 1])
  PROVE  StreamStage(h)'
<1>0. /\ job' = job /\ device.edges \in Nat /\ device.selections \in Nat
      /\ job.count \in 1 .. 255
  BY DEF Turning, SPITerms
<1>2. Driven /\ stream_enabled
  BY DEF StreamPlace, SPIPlace, BitPlace, StreamStage
<1>3. PICK n \in 0 .. job.count - 1 : StreamByte(h, n)
  BY DEF StreamStage
<1>4. byte_count = job.count - n /\ Pulled = n + 1 /\ ByteRead(n)
      /\ Pushed = (IF pc = 11 THEN n + 1 ELSE n)
  BY <1>3 DEF StreamByte
<1>5. CASE pc = 10
  <2>1. p[pc + 1].op = "PUSH"
    <3>1. p[pc + 1] = p[11]
      BY ONLY <1>5
    <3> QED
      BY <3>1 DEF StreamHas
  <2>2. PinsStay /\ UNCHANGED <<shiftVars, streamVars>> /\ pc' = IF Full(rx) THEN 10 ELSE 11
    BY <1>5, <2>1 DEF Does, Works
  <2>3. ByteRead(n)'
    BY <1>0, <1>2, <1>4, <2>2, PinsKeep, KeptByteRead DEF shiftVars
  <2>4. Pulled' = n + 1 /\ Pushed' = (IF Full(rx) THEN n ELSE n + 1)
    BY ONLY <1>4, <1>5, <2>1, n \in 0 .. job.count - 1, Moves(p[pc + 1]) DEF Moves
  <2>5. byte_count' = job'.count - n /\ stream_enabled' /\ n \in 0 .. job'.count - 1
    BY <1>0, <1>2, <1>4, <2>2 DEF streamVars
  <2>6. StreamByte(h, n)'
    BY <2>2, <2>3, <2>4, <2>5 DEF StreamByte
  <2> QED
    BY <2>2, <2>5, <2>6 DEF StreamStage
<1>6. CASE pc = 11
  <2>1. p[pc + 1].op = "BYTE_LOOP" /\ p[pc + 1].target = 3
    <3>1. p[pc + 1] = p[12]
      BY ONLY <1>6
    <3> QED
      BY <3>1 DEF StreamHas
  <2>2. /\ PinsStay /\ stream_enabled' = stream_enabled /\ byte_count' = byte_count - 1
        /\ pc' = IF byte_count = 1 THEN 12 ELSE 3
    BY <1>6, <2>1 DEF Does, Works
  <2>3. Ready(n + 1)'
    BY <1>0, <1>2, <1>4, <2>2, PinsKeep, KeptReady DEF ByteRead
  <2>4. Pulled' = n + 1 /\ Pushed' = n + 1
    BY ONLY <1>4, <1>6, <2>1, n \in 0 .. job.count - 1, Moves(p[pc + 1]) DEF Moves
  <2>5. CASE n + 1 = job.count
    <3>1. pc' = 12
      BY ONLY <1>0, <1>4, <2>2, <2>5, n \in 0 .. job.count - 1
    <3> QED
      BY <1>0, <1>2, <2>2, <2>3, <2>4, <2>5, <3>1 DEF StreamStage
  <2>6. CASE n + 1 # job.count
    <3>1. pc' = 3 /\ n + 1 \in 0 .. job.count - 1 /\ byte_count' = job.count - (n + 1)
      BY ONLY <1>0, <1>4, <2>2, <2>6, n \in 0 .. job.count - 1
    <3>2. StreamByte(h, n + 1)'
      BY <1>0, <2>3, <2>4, <3>1 DEF StreamByte
    <3> QED
      BY <1>0, <1>2, <2>2, <3>1, <3>2 DEF StreamStage
  <2> QED
    BY <2>5, <2>6
<1> QED
  BY <1>5, <1>6

LEMMA StreamCloses ==
  ASSUME Turning, NEW h \in Nat \ {0}, NEW p, StreamHas(p, h),
         StreamPlace(h), StreamStage(h), pc = 12,
         Does(p[pc + 1]), Works(p[pc + 1]), Moves(p[pc + 1])
  PROVE  StreamStage(h)'
<1>0. /\ job' = job /\ device.edges \in Nat /\ device.selections \in Nat
  BY DEF Turning
<1>1. p[pc + 1].op = "PATCH" /\ Selects(p[pc + 1], FALSE)
  <2>1. p[pc + 1] = p[13]
    BY ONLY pc = 12
  <2> QED
    BY <2>1 DEF StreamHas, Selects
<1>2. /\ Driven /\ Idle /\ Chosen /\ stream_enabled /\ Ready(job.count) /\ Pushed = job.count
  <2>1. pc = 12 /\ pc \notin 4 .. 4 + 5
    OBVIOUS
  <2>2. Driven /\ Idle /\ Chosen
    BY <2>1 DEF StreamPlace, SPIPlace, BitPlace
  <2> QED
    BY <2>1, <2>2 DEF StreamStage
<1>3. ~Chosen' /\ pc' = 13
  <2>1. (Chosen' <=> FALSE) /\ pc' = pc + 1
    BY <1>1, <1>2, Chose DEF Turning
  <2> QED
    BY <2>1
<1>4. UNCHANGED streamVars
  BY <1>1, PatchWorks
<1>5. DeviceKeeps /\ Counts(0, 0)
  <2>1. ~(CS \in out_enable' /\ CS \notin out_value')
    BY <1>3 DEF Chosen
  <2> QED
    BY <2>1, DeviceSees DEF Turning
<1>6. Ready(job.count)'
  BY <1>0, <1>2, <1>5, KeptReady
<1>7. Pushed' = job.count
  <2>1. job.count \in 1 .. 255
    BY DEF Turning, SPITerms
  <2> QED
    BY ONLY <1>1, <1>2, <2>1, Moves(p[pc + 1]) DEF Moves
<1>8. pc' = 13 /\ stream_enabled' /\ Ready(job.count)' /\ Pushed' = job'.count
  BY <1>0, <1>2, <1>3, <1>4, <1>6, <1>7 DEF streamVars
<1> QED
  BY ONLY <1>8 DEF StreamStage

\* No word of a bit is refused.
LEMMA BitAllowed ==
  ASSUME NEW p, NEW B \in Nat, NEW h, NEW lsb, BitWords(p, B, h), BitData(p, B, h, lsb),
         NEW n, NEW c \in 0 .. 7, BitStage(B, h, n, c), pc \in B .. B + 5
  PROVE  Allowed(p[pc + 1]) /\ p[pc + 1].op \in {"PATCH", "OUT", "IN", "DJNZ"}
<1>1. pc + 1 \in {B + 1, B + 2, B + 3, B + 4, B + 5, B + 6}
  BY ONLY B \in Nat, pc \in B .. B + 5
<1>2. loop_count # 0
  BY DEF BitStage
<1>3. MOSI \in Lanes /\ MISO \in Lanes
  BY DEF MOSI, MISO, Lanes
<1>4. /\ Allowed(p[B + 1]) /\ Allowed(p[B + 2]) /\ Allowed(p[B + 3])
      /\ Allowed(p[B + 4]) /\ Allowed(p[B + 5]) /\ Allowed(p[B + 6])
  BY <1>2, <1>3 DEF Allowed, BitWords, BitData, Toggles, Puts, Waits
<1>5. /\ p[B + 1].op \in {"PATCH", "OUT"} /\ p[B + 2].op \in {"PATCH", "OUT"}
      /\ p[B + 3].op = "PATCH" /\ p[B + 4].op \in {"PATCH", "IN"}
      /\ p[B + 5].op \in {"PATCH", "IN"} /\ p[B + 6].op = "DJNZ"
  BY DEF BitWords, Toggles, Puts, Waits
<1> QED
  BY ONLY <1>1, <1>4, <1>5

LEMMA StreamAllowed ==
  ASSUME Turning, NEW p, NEW h, StreamHas(p, h), BitData(p, 4, h, job.lsb),
         p[1].count = job.count, StreamPlace(h), StreamStage(h)
  PROVE  Allowed(p[pc + 1]) /\ (p[pc + 1].op = "HALT" => pc = 13)
<1>0. job.count \in 1 .. 255
  BY DEF Turning, SPITerms
<1>w. /\ p[1].op = "STREAM" /\ p[2].op = "DRIVE" /\ p[3].op = "PATCH" /\ p[4].op = "PULL"
      /\ BitWords(p, 4, h) /\ p[11].op = "PUSH" /\ p[12].op = "BYTE_LOOP"
      /\ p[13].op = "PATCH" /\ p[14].op = "HALT"
  BY DEF StreamHas, Starts, Selects
<1>1. pc \in {0, 1, 2, 3, 10, 11, 12, 13} \/ pc \in 4 .. 9
  BY DEF StreamPlace, SPIPlace, BitPlace
<1>2. pc # 0 => stream_enabled
  BY DEF StreamStage
<1>3. CASE pc \in {0, 1, 2, 3, 10, 12, 13}
  <2>1. p[1].count # 0
    BY <1>0
  <2> QED
    BY ONLY <1>w, <1>2, <1>3, <2>1 DEF Allowed
<1>4. CASE pc = 11
  <2>1. PICK n \in 0 .. job.count - 1 : StreamByte(h, n)
    BY <1>4 DEF StreamStage
  <2>2. byte_count = job.count - n
    BY <2>1 DEF StreamByte
  <2>3. byte_count # 0
    BY ONLY <1>0, <2>2, n \in 0 .. job.count - 1
  <2> QED
    BY ONLY <1>w, <1>2, <1>4, <2>3 DEF Allowed
<1>5. CASE pc \in 4 .. 9
  <2>1. PICK n \in 0 .. job.count - 1 : StreamByte(h, n)
    BY <1>5 DEF StreamStage
  <2>2. PICK c \in 0 .. 7 : BitStage(4, h, n, c)
    BY <1>5, <2>1 DEF StreamByte
  <2>3. pc \in 4 .. 4 + 5 /\ 4 \in Nat
    BY ONLY <1>5
  <2>4. Allowed(p[pc + 1]) /\ p[pc + 1].op \in {"PATCH", "OUT", "IN", "DJNZ"}
    BY <1>w, <2>2, <2>3, BitAllowed
  <2> QED
    BY <2>4
<1> QED
  BY <1>1, <1>3, <1>4, <1>5

\* What is pushed is the byte that was answered.
LEMMA StreamPushesAnswers ==
  ASSUME Turning, running, NEW h, StreamHas(job.program, h), StreamPlace(h), StreamStage(h)
  PROVE  rx_push => rx_shift = served[Pushed + 1] /\ Pushed < Len(served)
<1> SUFFICES ASSUME rx_push PROVE rx_shift = served[Pushed + 1] /\ Pushed < Len(served)
  OBVIOUS
<1>0. job.count \in 1 .. 255
  BY DEF Turning, SPITerms
<1>1. PICK p : p = job.program
  OBVIOUS
<1>2. pc \in 0 .. Len(p) - 1 /\ p[pc + 1].op \in SerialOps
  BY <1>1, StreamInside
<1>3. p[pc + 1].op = "PUSH" /\ delay_left = 0
  BY <1>1, <1>2, DataClock DEF Turning
<1>w. /\ p[1].op = "STREAM" /\ p[2].op = "DRIVE" /\ p[3].op = "PATCH" /\ p[4].op = "PULL"
      /\ BitWords(p, 4, h) /\ p[11].op = "PUSH" /\ p[12].op = "BYTE_LOOP"
      /\ p[13].op = "PATCH" /\ p[14].op = "HALT"
  BY <1>1 DEF StreamHas, Starts, Selects
<1>4. pc \in {0, 1, 2, 3, 10, 11, 12, 13} \/ pc \in 4 .. 9
  BY DEF StreamPlace, SPIPlace, BitPlace
<1>5. pc \notin 4 .. 9
  <2> SUFFICES ASSUME pc \in 4 .. 4 + 5 PROVE FALSE
    OBVIOUS
  <2>1. p[pc + 1].op \notin Waiting
    BY <1>w, BitNeverWaits
  <2> QED
    BY <1>3, <2>1 DEF Waiting
<1>6. pc = 10
  BY ONLY <1>3, <1>4, <1>5, <1>w
<1>7. PICK n \in 0 .. job.count - 1 : StreamByte(h, n)
  BY <1>6 DEF StreamStage
<1>8. ByteRead(n) /\ Pushed = n
  BY <1>6, <1>7 DEF StreamByte
<1>9. Len(served) >= n + 1
  <2>1. ServedFor(n + 1)
    BY <1>8 DEF ByteRead, Ready
  <2>2. Len(served) \in {n + 1, (n + 1) + 1} /\ n \in Nat
    BY <1>0, <2>1 DEF ServedFor, Answering, Offering
  <2> QED
    BY ONLY <2>2
<1>10. n < Len(served)
  <2>1. n \in Nat /\ Len(served) \in Nat
    BY DEF Turning, Bytes
  <2> QED
    BY ONLY <1>9, <2>1
<1> QED
  BY <1>8, <1>10 DEF ByteRead

\* Where the run is over.
Finished == ~running' /\ halted' /\ Done'

LEMMA StreamTurns ==
  ASSUME Turning, Strobes, running, NEW h \in Nat, h >= 4, h = job.half, device.steady \in 0 .. h,
         job.streaming, Modes(job.mode), StreamCalled, StreamPlace(h), StreamStage(h),
         Pulled' = Pulled + (IF tx_pop THEN 1 ELSE 0),
         Pushed' = Pushed + (IF rx_push THEN 1 ELSE 0)
  PROVE  (running' /\ StreamStage(h)') \/ Finished
<1>0. /\ job' = job /\ job.count \in 1 .. 255 /\ h \in Nat \ {0} /\ BenchClock(SPILanes) /\ OnBench
      /\ Pulled \in Nat /\ Pushed \in Nat
  <2>1. Pulled \in Nat /\ got \in Seq(Byte) /\ rx.used \in Nat
    BY QueueTerms, DepthAssumption DEF Turning, Bytes
  <2> QED
    BY <2>1 DEF Turning, SPITerms, Pushed
<1>1. PICK p : p = job.program
  OBVIOUS
<1>w. StreamHas(p, h) /\ BitData(p, 4, h, job.lsb) /\ p[1].count = job.count
  BY <1>0, <1>1, StreamWords, StreamCarries DEF StreamCalled
<1>2. pc \in 0 .. Len(p) - 1 /\ p[pc + 1].op \in SerialOps
  BY <1>1, <1>w, StreamInside
<1>3. Allowed(p[pc + 1]) /\ (p[pc + 1].op = "HALT" => pc = 13)
  BY <1>w, StreamAllowed
<1>4. CASE delay_left # 0
  <2>1. running' /\ PinsStay /\ delay_left' = delay_left - 1 /\ pc' = pc
    BY <1>0, <1>1, <1>2, <1>4, RunClock
  <2>2. ~tx_pop /\ ~rx_push /\ UNCHANGED <<shiftVars, streamVars>>
    BY <1>0, <1>1, <1>2, <1>4, DataClock
  <2>3. Pulled' = Pulled /\ Pushed' = Pushed
    BY <1>0, <2>2
  <2> QED
    BY <1>4, <2>1, <2>2, <2>3, StreamHeld
<1>5. CASE delay_left = 0
  <2>1. /\ Works(p[pc + 1])
        /\ tx_pop <=> stream_enabled /\ p[pc + 1].op = "PULL" /\ ~Empty(tx)
        /\ rx_push <=> stream_enabled /\ p[pc + 1].op = "PUSH" /\ ~Full(rx)
    BY <1>0, <1>1, <1>2, <1>3, <1>5, DataClock
  <2>2. \/ ~running' /\ out_enable' = {} /\ out_value' = out_value
        \/ running' /\ Does(p[pc + 1])
    BY <1>0, <1>1, <1>2, <1>5, RunClock
  <2>3. Moves(p[pc + 1])
    <3>1. p[pc + 1].op \in {"PULL", "PUSH"} => stream_enabled
      BY <1>3 DEF Allowed
    <3> QED
      BY <2>1, <3>1 DEF Moves
  <2>4. CASE p[pc + 1].op = "HALT"
    <3>1. ~running' /\ halted' /\ out_enable' = {} /\ UNCHANGED <<fault, shiftVars, streamVars>>
      BY <2>1, <2>4 DEF Works
    <3>2. ~fault'
      BY <3>1 DEF Turning, Inv, FailClosedSafely, RunsCompleteImage
    <3>3. DeviceKeeps /\ Counts(0, 0)
      BY <3>1, DeviceSees DEF Turning
    <3>4. Ready(job.count) /\ Pushed = job.count
      BY <1>3, <2>4 DEF StreamStage
    <3>5. Ready(job.count)'
      BY <1>0, <3>3, <3>4, KeptReady DEF Turning
    <3>6. Pushed' = job.count
      BY ONLY <1>0, <2>3, <2>4, <3>4 DEF Moves
    <3> QED
      BY <1>0, <3>1, <3>2, <3>5, <3>6 DEF Finished, Done
  <2>5. CASE p[pc + 1].op # "HALT"
    <3>1. running' /\ Does(p[pc + 1])
      <4>1. running' = running
        BY <2>1, <2>5 DEF Works, statusVars
      <4> QED
        BY <2>2, <4>1
    <3>2. pc \in {0, 1, 2} \/ pc = 3 \/ pc \in 4 .. 9 \/ pc \in {10, 11} \/ pc = 12 \/ pc = 13
      BY DEF StreamPlace, SPIPlace, BitPlace
    <3>3. pc # 13
      <4>1. p[14].op = "HALT"
        BY <1>w DEF StreamHas
      <4> QED
        BY ONLY <2>5, <4>1
    <3>4. CASE pc \in {0, 1, 2}
      BY <1>0, <1>w, <2>1, <2>3, <3>1, <3>4, StreamOpens
    <3>5. CASE pc = 3
      BY <1>0, <1>w, <2>1, <2>3, <3>1, <3>5, StreamPulls
    <3>6. CASE pc \in 4 .. 9
      BY <1>0, <1>w, <1>5, <2>1, <2>3, <3>1, <3>6, StreamShifts
    <3>7. CASE pc \in {10, 11}
      BY <1>0, <1>w, <2>1, <2>3, <3>1, <3>7, StreamPushes
    <3>8. CASE pc = 12
      BY <1>0, <1>w, <2>1, <2>3, <3>1, <3>8, StreamCloses
    <3> QED
      BY <3>1, <3>2, <3>3, <3>4, <3>5, <3>6, <3>7, <3>8
  <2> QED
    BY <2>4, <2>5
<1> QED
  BY <1>0, <1>4, <1>5 DEF Turning, StreamPlace, SPIPlace

(***************************************************************************)
(* SPI: a clock of the transfer.                                           *)
(***************************************************************************)
LEMMA TransferHeld ==
  ASSUME Turning, NEW h \in Nat, TransferPlace(h), TransferStage(h), PinsStay,
         delay_left # 0, delay_left' = delay_left - 1, pc' = pc,
         UNCHANGED <<shiftVars, streamVars>>
  PROVE  TransferStage(h)'
<1>1. DeviceKeeps /\ Counts(0, 0)
  BY PinsKeep DEF TransferPlace, SPIPlace, BitPlace
<1>2. /\ job' = job /\ device.edges \in Nat /\ device.selections \in Nat /\ OnBench
      /\ BenchClock(SPILanes) /\ MosiStays
      /\ tx_shift' = tx_shift /\ rx_shift' = rx_shift /\ loop_count' = loop_count
      /\ stream_enabled' = stream_enabled
      /\ delay_left \in Nat \ {0}
  BY DEF Turning, PinsStay, MosiStays, shiftVars, streamVars, TransferPlace, SPIPlace
<1>3. Untouched => Untouched'
  BY <1>1, <1>2, KeptUntouched
<1>4. ByteRead(0) => ByteRead(0)'
  BY <1>1, <1>2, KeptByteRead
<1>5. TxIs(0, 0) => TxIs(0, 0)'
  BY <1>2, KeptTx
<1>6. ASSUME NEW c \in 0 .. 7, BitStage(3, h, 0, c), pc \in 3 .. 8 PROVE BitStage(3, h, 0, c)'
  <2>1. pc \in 3 .. 3 + 5 /\ 3 \in Nat
    BY ONLY <1>6
  <2> QED
    BY <1>1, <1>2, <1>6, <2>1, BitHeld
<1> QED
  BY <1>2, <1>3, <1>4, <1>5, <1>6 DEF TransferStage

LEMMA FirstOfAll ==
  ASSUME NEW k \in 1 .. 255
  PROVE  0 \in 0 .. k - 1 /\ 1 \in 1 .. k /\ 0 + 1 = 1
OBVIOUS

\* The words before the bits.
LEMMA TransferOpens ==
  ASSUME Turning, NEW h \in Nat \ {0}, NEW p, TransferHas(p, h), p[2].count = 8,
         p[2].byte = job.sends[1], TransferPlace(h), TransferStage(h), pc \in {0, 1, 2},
         Does(p[pc + 1]), Works(p[pc + 1])
  PROVE  TransferStage(h)'
<1>0. /\ cpol' = cpol /\ job' = job /\ device.edges \in Nat /\ device.selections \in Nat
      /\ ~stream_enabled /\ Untouched
  BY PhaseStays DEF Turning, TransferStage
<1>t. /\ job.count \in 1 .. 255 /\ job.sends \in Seq(Byte) /\ Len(job.sends) = job.count
      /\ job.lsb \in BOOLEAN
  BY DEF Turning, SPITerms
<1>w. Starts(p[1]) /\ p[2].op = "LOAD" /\ Selects(p[3], TRUE)
  BY DEF TransferHas
<1>b. TxIs(0, 0)' <=> tx_shift' = job.sends[1]
  <2>1. job.sends[0 + 1] \in Byte /\ 0 + 1 = 1
    <3>1. 1 \in 1 .. Len(job.sends) /\ 0 + 1 = 1
      BY ONLY <1>t, FirstOfAll
    <3> QED
      BY ONLY <1>t, <3>1
  <2>2. SentPart(job.sends[0 + 1], 0)' = job.sends[1]
    BY <1>0, <1>t, <2>1, FirstSent, PartsStay
  <2> QED
    BY <1>0, <2>1, <2>2 DEF TxIs
<1>1. CASE pc = 0
  <2>1. out_enable = {}
    BY <1>1 DEF TransferPlace, SPIPlace, BitPlace
  <2>2. p[pc + 1].op = "DRIVE" /\ Starts(p[pc + 1])
    <3>1. p[pc + 1] = p[1]
      BY ONLY <1>1
    <3> QED
      BY <1>w, <3>1 DEF Starts
  <2>3. ~Chosen' /\ pc' = 1 /\ UNCHANGED streamVars
    <3>1. ~Chosen' /\ pc' = pc + 1
      BY <2>1, <2>2, Begun DEF Turning
    <3>2. UNCHANGED streamVars
      BY <2>2, PatchWorks
    <3> QED
      BY <1>1, <3>1, <3>2
  <2>4. Untouched'
    <3>1. ~(CS \in out_enable' /\ CS \notin out_value')
      BY <2>3 DEF Chosen
    <3>2. DeviceKeeps /\ Counts(0, 0)
      BY <3>1, DeviceSees DEF Turning
    <3> QED
      BY <1>0, <3>2, KeptUntouched
  <2> QED
    BY <1>0, <2>3, <2>4 DEF TransferStage, streamVars
<1>2. CASE pc = 1
  <2>1. Driven
    BY <1>2 DEF TransferPlace, SPIPlace, BitPlace
  <2>2. /\ p[pc + 1].op = "LOAD" /\ p[pc + 1].byte = job.sends[1] /\ p[pc + 1].count = 8
    <3>1. p[pc + 1] = p[2]
      BY ONLY <1>2
    <3> QED
      BY <1>w, <3>1
  <2>3. /\ PinsStay /\ pc' = 2 /\ tx_shift' = job.sends[1] /\ loop_count' = 8 /\ rx_shift' = 0
        /\ UNCHANGED streamVars
    BY <1>2, <2>2 DEF Does, Works
  <2>4. Untouched'
    BY <1>0, <2>1, <2>3, PinsKeep, KeptUntouched
  <2> QED
    BY <1>0, <1>b, <2>3, <2>4 DEF TransferStage, streamVars
<1>3. CASE pc = 2
  <2>1. Driven /\ Idle /\ ~Chosen /\ loop_count = 8 /\ TxIs(0, 0) /\ rx_shift = 0
    BY <1>3 DEF TransferPlace, SPIPlace, BitPlace, TransferStage
  <2>2. p[pc + 1].op = "PATCH" /\ Selects(p[pc + 1], TRUE)
    <3>1. p[pc + 1] = p[3]
      BY ONLY <1>3
    <3> QED
      BY <1>w, <3>1 DEF Selects
  <2>3. pc' = 3 /\ Driven' /\ Chosen' /\ Idle'
    <3>1. Driven' /\ Idle' /\ (Chosen' <=> TRUE) /\ pc' = pc + 1
      BY <2>1, <2>2, Chose DEF Turning
    <3> QED
      BY <1>3, <3>1
  <2>4. UNCHANGED <<statusVars, shiftVars, streamVars>>
    BY <2>2, PatchWorks
  <2>5. Ready(0)'
    BY <1>0, <2>1, <2>3, ReadyWhenChosen
  <2>6. TxIs(0, 0)' /\ rx_shift' = 0 /\ loop_count' = 8
    BY <1>0, <2>1, <2>4, KeptTx DEF shiftVars
  <2>7. BitStage(3, h, 0, 0)'
    <3>1. 0 \in 0 .. job.count - 1
      BY ONLY <1>t, FirstOfAll
    <3> QED
      BY <1>0, <1>t, <2>3, <2>5, <2>6, <3>1, BitBegins
  <2> QED
    BY <1>0, <2>3, <2>4, <2>7, 0 \in 0 .. 7 DEF TransferStage, streamVars
<1> QED
  BY <1>1, <1>2, <1>3

LEMMA TransferShifts ==
  ASSUME Turning, NEW h \in Nat, h >= 4, h = job.half, NEW p, TransferHas(p, h),
         BitData(p, 3, h, job.lsb),
         TransferPlace(h), TransferStage(h), pc \in 3 .. 8, delay_left = 0,
         device.steady \in 0 .. h, Does(p[pc + 1]), Works(p[pc + 1])
  PROVE  TransferStage(h)'
<1>0. /\ job' = job /\ served \in Seq(Byte) /\ 3 \in Nat
      /\ pc \in 3 .. 3 + 5 /\ h \in Nat \ {0}
  BY DEF Turning, Bytes
<1>t. 0 \in 0 .. job.count - 1
  <2>1. job.count \in 1 .. 255
    BY DEF Turning, SPITerms
  <2> QED
    BY ONLY <2>1, FirstOfAll
<1>1. BitPlace(3, h) /\ ~stream_enabled /\ BitWords(p, 3, h)
  BY DEF TransferPlace, SPIPlace, BitPlace, TransferStage, TransferHas
<1>2. PICK c \in 0 .. 7 : BitStage(3, h, 0, c)
  BY DEF TransferStage
<1>3. BitNext(3, h)
  BY <1>0, <1>1, BitActs DEF Turning
<1>4. BitGoes(3, h, 0, c)
  BY <1>0, <1>1, <1>t, <1>2, <1>3, BitWorks DEF Turning, BitNext
<1>5. ~stream_enabled'
  <2>1. p[pc + 1].op \in {"PATCH", "OUT", "IN", "DJNZ"}
    BY <1>0, <1>1, <1>2, BitAllowed
  <2> QED
    BY <1>1, <2>1 DEF Works, streamVars
<1>6. CASE pc' \in 3 .. 3 + 5 /\ \E k \in 0 .. 7 : BitStage(3, h, 0, k)'
  <2>1. pc' \in 3 .. 8
    BY ONLY <1>6
  <2> QED
    BY ONLY <1>5, <1>6, <2>1 DEF TransferStage
<1>7. CASE pc' = 3 + 6 /\ ByteRead(0)'
  <2>1. pc' = 9
    BY ONLY <1>7
  <2> QED
    BY ONLY <1>5, <1>7, <2>1 DEF TransferStage
<1> QED
  BY <1>4, <1>6, <1>7 DEF BitGoes

LEMMA TransferCloses ==
  ASSUME Turning, NEW h \in Nat \ {0}, NEW p, TransferHas(p, h),
         TransferPlace(h), TransferStage(h), pc = 9, Does(p[pc + 1]), Works(p[pc + 1])
  PROVE  TransferStage(h)'
<1>0. /\ job' = job /\ device.edges \in Nat /\ device.selections \in Nat
  BY DEF Turning
<1>1. p[pc + 1].op = "PATCH" /\ Selects(p[pc + 1], FALSE)
  <2>1. p[pc + 1] = p[10]
    BY ONLY pc = 9
  <2> QED
    BY <2>1 DEF TransferHas, Selects
<1>2. Driven /\ Idle /\ Chosen /\ ~stream_enabled /\ ByteRead(0)
  <2>1. pc = 9 /\ pc \notin 3 .. 3 + 5
    OBVIOUS
  <2>2. Driven /\ Idle /\ Chosen
    BY <2>1 DEF TransferPlace, SPIPlace, BitPlace
  <2> QED
    BY <2>1, <2>2 DEF TransferStage
<1>3. ~Chosen' /\ pc' = 10
  <2>1. (Chosen' <=> FALSE) /\ pc' = pc + 1
    BY <1>1, <1>2, Chose DEF Turning
  <2> QED
    BY <2>1
<1>4. UNCHANGED <<statusVars, shiftVars, streamVars>>
  BY <1>1, PatchWorks
<1>5. DeviceKeeps /\ Counts(0, 0)
  <2>1. ~(CS \in out_enable' /\ CS \notin out_value')
    BY <1>3 DEF Chosen
  <2> QED
    BY <2>1, DeviceSees DEF Turning
<1>6. ByteRead(0)'
  BY <1>0, <1>2, <1>4, <1>5, KeptByteRead DEF shiftVars
<1>7. pc' = 10 /\ ~stream_enabled'
  BY <1>2, <1>3, <1>4 DEF streamVars
<1> QED
  BY ONLY <1>6, <1>7 DEF TransferStage

LEMMA TransferAllowed ==
  ASSUME Turning, NEW p, NEW h, TransferHas(p, h), BitData(p, 3, h, job.lsb),
         TransferPlace(h), TransferStage(h)
  PROVE  /\ Allowed(p[pc + 1]) /\ (p[pc + 1].op = "HALT" => pc = 10)
         /\ p[pc + 1].op \notin {"PULL", "PUSH", "STREAM"}
<1>w. /\ p[1].op = "DRIVE" /\ p[2].op = "LOAD" /\ p[3].op = "PATCH" /\ BitWords(p, 3, h)
      /\ p[10].op = "PATCH" /\ p[11].op = "HALT"
  BY DEF TransferHas, Starts, Selects
<1>1. pc \in {0, 1, 2, 9, 10} \/ pc \in 3 .. 8
  BY DEF TransferPlace, SPIPlace, BitPlace
<1>2. CASE pc \in {0, 1, 2, 9, 10}
  BY ONLY <1>w, <1>2 DEF Allowed
<1>3. CASE pc \in 3 .. 8
  <2>1. PICK c \in 0 .. 7 : BitStage(3, h, 0, c)
    BY <1>3 DEF TransferStage
  <2>2. pc \in 3 .. 3 + 5 /\ 3 \in Nat
    BY ONLY <1>3
  <2>3. Allowed(p[pc + 1]) /\ p[pc + 1].op \in {"PATCH", "OUT", "IN", "DJNZ"}
    BY <1>w, <2>1, <2>2, BitAllowed
  <2> QED
    BY <2>3
<1> QED
  BY <1>1, <1>2, <1>3

LEMMA TransferTurns ==
  ASSUME Turning, running, NEW h \in Nat, h >= 4, h = job.half, device.steady \in 0 .. h,
         ~job.streaming, job.count = 1, Modes(job.mode), TransferCalled,
         TransferPlace(h), TransferStage(h)
  PROVE  /\ (running' /\ TransferStage(h)') \/ Finished
         /\ ~rx_push
<1>0. /\ job' = job /\ h \in Nat \ {0} /\ BenchClock(SPILanes) /\ OnBench
  BY DEF Turning
<1>1. PICK byte \in Byte : /\ job.program = F!spi_transfer(byte, job.mode, job.lsb, h)
                           /\ job.sends = <<byte>>
  BY DEF TransferCalled
<1>p. PICK p : p = job.program
  OBVIOUS
<1>w. /\ TransferHas(p, h) /\ BitData(p, 3, h, job.lsb) /\ p[2].count = 8
      /\ p[2].byte = job.sends[1]
  <2>1. TransferHas(p, h)
    BY <1>0, <1>1, <1>p, TransferWords
  <2>2. p[2].byte = byte /\ p[2].count = 8 /\ BitData(p, 3, h, job.lsb)
    BY <1>0, <1>1, <1>p, TransferCarries
  <2>3. job.sends[1] = byte
    BY <1>1
  <2> QED
    BY <2>1, <2>2, <2>3
<1>2. pc \in 0 .. Len(p) - 1 /\ p[pc + 1].op \in SerialOps
  BY <1>w, TransferInside
<1>3. /\ Allowed(p[pc + 1]) /\ (p[pc + 1].op = "HALT" => pc = 10)
      /\ p[pc + 1].op \notin {"PULL", "PUSH", "STREAM"}
  BY <1>w, TransferAllowed
<1>4. CASE delay_left # 0
  <2>1. running' /\ PinsStay /\ delay_left' = delay_left - 1 /\ pc' = pc
    BY <1>0, <1>p, <1>2, <1>4, RunClock
  <2>2. ~rx_push /\ UNCHANGED <<shiftVars, streamVars>>
    BY <1>0, <1>p, <1>2, <1>4, DataClock
  <2> QED
    BY <1>4, <2>1, <2>2, TransferHeld
<1>5. CASE delay_left = 0
  <2>1. Works(p[pc + 1]) /\ ~rx_push
    BY <1>0, <1>p, <1>2, <1>3, <1>5, DataClock
  <2>2. \/ ~running' /\ out_enable' = {} /\ out_value' = out_value
        \/ running' /\ Does(p[pc + 1])
    BY <1>0, <1>p, <1>2, <1>5, RunClock
  <2>4. CASE p[pc + 1].op = "HALT"
    <3>1. ~running' /\ halted' /\ out_enable' = {} /\ UNCHANGED <<fault, shiftVars, streamVars>>
      BY <2>1, <2>4 DEF Works
    <3>2. ~fault'
      BY <3>1 DEF Turning, Inv, FailClosedSafely, RunsCompleteImage
    <3>3. DeviceKeeps /\ Counts(0, 0)
      BY <3>1, DeviceSees DEF Turning
    <3>4. ByteRead(0)
      BY <1>3, <2>4 DEF TransferStage
    <3>5. ByteRead(0)'
      BY <1>0, <3>1, <3>3, <3>4, KeptByteRead DEF Turning, shiftVars
    <3>6. Ready(job.count)' /\ rx_shift' = served'[1]
      <4>1. 0 + 1 = 1 /\ job'.count = 1
        BY <1>0
      <4> QED
        BY ONLY <3>5, <4>1 DEF ByteRead
    <3>7. ~job'.streaming
      BY <1>0
    <3>8. Done'
      BY ONLY <3>1, <3>2, <3>6, <3>7 DEF Done
    <3> QED
      BY <2>1, <3>1, <3>8 DEF Finished
  <2>5. CASE p[pc + 1].op # "HALT"
    <3>1. running' /\ Does(p[pc + 1])
      <4>1. running' = running
        BY <2>1, <2>5 DEF Works, statusVars
      <4> QED
        BY <2>2, <4>1
    <3>2. pc \in {0, 1, 2} \/ pc \in 3 .. 8 \/ pc = 9 \/ pc = 10
      BY DEF TransferPlace, SPIPlace, BitPlace
    <3>3. pc # 10
      <4>1. p[11].op = "HALT"
        BY <1>w DEF TransferHas
      <4> QED
        BY ONLY <2>5, <4>1
    <3>4. CASE pc \in {0, 1, 2}
      BY <1>0, <1>w, <2>1, <3>1, <3>4, TransferOpens
    <3>5. CASE pc \in 3 .. 8
      BY <1>0, <1>w, <1>5, <2>1, <3>1, <3>5, TransferShifts
    <3>6. CASE pc = 9
      BY <1>0, <1>w, <2>1, <3>1, <3>6, TransferCloses
    <3> QED
      BY <2>1, <3>1, <3>2, <3>3, <3>4, <3>5, <3>6
  <2> QED
    BY <2>4, <2>5
<1> QED
  BY <1>4, <1>5

(***************************************************************************)
(* SPI: a clock of the exchange.                                           *)
(***************************************************************************)
LEMMA RestStatus ==
  ASSUME OnBench, NEW lanes, BenchClock(lanes), Inv, Complete, ~running, length # 0,
         halted => run_prev, ~halted => ~stream_enabled
  PROVE  /\ halted' <=> halted
         /\ halted' => run_prev'
         /\ ~halted => ~stream_enabled'
         /\ halted => ~running' /\ fault' = fault /\ rx_shift' = rx_shift
         /\ ~rx_push /\ ~tx_pop
<1>1. run_prev' = run /\ (run_prev => run) /\ (halted => run_prev /\ run)
  BY BenchPins, ThreeClocks DEF OnBench, InStore, RunOnly, Synchronize
<1>2. ~rx_push /\ ~tx_pop
  BY DEF rx_push, tx_pop, issue, Executing
<1>3. CASE ~run
  <2>1. ~halted' /\ ~stream_enabled'
    BY <1>3, BenchPins, ThreeClocks DEF OnBench, Stopped, Abort, Start, RunEdge
  <2> QED
    BY <1>1, <1>2, <1>3, <2>1
<1>4. CASE run /\ ~run_prev
  <2>1. Start
    BY <1>4, BenchPins, ThreeClocks DEF OnBench, Stopped
  <2>2. ~BadImage
    BY DEF BadImage, Complete
  <2>3. ~halted' /\ ~stream_enabled'
    BY <2>1, <2>2 DEF Start, ClearExecution
  <2> QED
    BY <1>1, <1>2, <1>4, <2>3
<1>5. CASE run /\ run_prev
  <2>1. Steps
    BY <1>5, BenchPins, ThreeClocks DEF OnBench, Stopped, Start, RunEdge
  <2>2. Halted
    BY <2>1 DEF Steps, Delay, PastEnd, Reject, Drive, Patch, Wait, Jump, Branch, Sample, Load,
       Out, In, Djnz, CheckTx, Stream, PullReady, PushReady, Stall, ByteLoop, LastByte, Capture,
       Halt, Runs, Is, issue, Executing
  <2>3. /\ running' = running /\ halted' = halted /\ fault' = fault /\ rx_shift' = rx_shift
        /\ stream_enabled' = stream_enabled
    BY <2>2 DEF Halted, statusVars, shiftVars, streamVars
  <2> QED
    BY <1>1, <1>2, <1>5, <2>3
<1> QED
  BY <1>3, <1>4, <1>5

\* The place in the program is one of the program that was called.
LEMMA PlaceOfCall ==
  ASSUME NEW h \in Nat \ {0}, h = job.half, SPIAt(h), Modes(job.mode)
  PROVE  /\ StreamCalled => StreamPlace(h) /\ StreamHas(job.program, h)
         /\ TransferCalled => TransferPlace(h) /\ TransferHas(job.program, h)
<1>1. /\ StreamCalled => StreamHas(job.program, h)
      /\ TransferCalled => TransferHas(job.program, h)
  BY StreamWords, TransferWords DEF StreamCalled, TransferCalled
<1>2. \/ StreamPlace(h) /\ StreamHas(job.program, h)
      \/ TransferPlace(h) /\ TransferHas(job.program, h)
  <2>1. ASSUME NEW count, NEW mode, NEW lsb, Modes(mode),
               job.program = F!spi_stream(count, mode, lsb, h)
        PROVE  StreamHas(job.program, h)
    BY <2>1, StreamWords
  <2>2. ASSUME NEW byte, NEW mode, NEW lsb, Modes(mode),
               job.program = F!spi_transfer(byte, mode, lsb, h)
        PROVE  TransferHas(job.program, h)
    BY <2>2, TransferWords
  <2> QED
    BY <2>1, <2>2, SPIAt(h) DEF SPIAt
<1>3. /\ StreamHas(job.program, h) => Len(job.program) = 14
      /\ TransferHas(job.program, h) => Len(job.program) = 11
  BY DEF StreamHas, TransferHas
<1> QED
  BY <1>1, <1>2, <1>3

LEMMA ExchangeStep ==
  ASSUME ClockingInv, SPIJob, Inv, ExchangeInv, BenchClock(SPILanes), DeviceStep
  PROVE  Inv' /\ ExchangeInv'
<1>1. /\ OnBench /\ SPIInv /\ job' = job /\ Next
  BY BenchPins DEF ClockingInv
<1>2. /\ SPITerms /\ Modes(job.mode) /\ job.half \in Nat \ {0}
      /\ job.streaming => StreamCalled
      /\ ~job.streaming => TransferCalled /\ job.count = 1
  BY <1>1, CalledSPI DEF OnBench
<1>3. PICK h \in Nat \ {0} : Halves(h) /\ device.steady \in 0 .. h /\ (running => SPIAt(h))
  BY <1>1 DEF SPIInv
<1>4. h = job.half /\ h \in Nat /\ h >= 4
  <2>1. h = job.half /\ job.half \in 4 .. 8192
    BY <1>2, <1>3 DEF Halves, SPITerms
  <2>2. h \in 4 .. 8192
    BY ONLY <2>1
  <2>3. h \in Nat /\ h >= 4
    BY ONLY <2>2
  <2> QED
    BY ONLY <2>1, <2>3
<1>5. Turning /\ Strobes /\ Complete
  BY <1>1, <1>2 DEF Turning, SPIInv, ExchangeInv
<1>6. Grows
  BY <1>5, AnswersStay DEF Turning, Bytes
<1>7. Inv'
  BY <1>1, NextInv
<1>8. Complete' /\ Strobes'
  BY <1>1, <1>5, ImageIsComplete, StrobesStay
<1>9. device'.edges \in Nat /\ device'.selections \in Nat
  <2>1. /\ device'.edges = device.edges + (IF SeesEdge THEN 1 ELSE 0)
        /\ device'.selections = device.selections + (IF IsSelected THEN 1 ELSE 0)
    BY <1>5, DeviceActs DEF Turning
  <2>2. device.edges \in Nat /\ device.selections \in Nat
    BY <1>5 DEF Turning
  <2> QED
    BY ONLY <2>1, <2>2
<1>10. rx_push => rx_shift = served[Pushed + 1] /\ Pushed < Len(served)
  <2>1. CASE ~running
    BY <2>1 DEF rx_push, issue, Executing
  <2>2. CASE running /\ job.streaming
    <3>1. StreamPlace(h) /\ StreamHas(job.program, h)
      BY <1>2, <1>3, <1>4, <2>2, PlaceOfCall
    <3>2. StreamStage(h)
      BY <1>4, <2>2 DEF ExchangeInv
    <3> QED
      BY <1>5, <2>2, <3>1, <3>2, StreamPushesAnswers
  <2>3. CASE running /\ ~job.streaming
    <3>1. TransferPlace(h)
      BY <1>2, <1>3, <1>4, <2>3, PlaceOfCall
    <3>2. TransferStage(h)
      BY <1>4, <2>3 DEF ExchangeInv
    <3> QED
      BY <1>2, <1>3, <1>4, <1>5, <2>3, <3>1, <3>2, TransferTurns
  <2> QED
    BY <2>1, <2>2, <2>3
<1>11. /\ Bytes' /\ Pulled' = Pulled + (IF tx_pop THEN 1 ELSE 0)
       /\ Pushed' = Pushed + (IF rx_push THEN 1 ELSE 0)
  BY <1>1, <1>2, <1>5, <1>6, <1>10, BytesStay DEF Turning
<1>12. h = job'.half /\ (job'.streaming <=> job.streaming)
  BY <1>1, <1>4
<1> DEFINE AtRest2 == ~running' => IF halted' THEN Done' ELSE Untouched' /\ ~stream_enabled'
           AtWork == running' => IF job.streaming THEN StreamStage(h)' ELSE TransferStage(h)'
<1>13. CASE running
  <2>1. (running' /\ (IF job.streaming THEN StreamStage(h)' ELSE TransferStage(h)')) \/ Finished
    <3>1. CASE job.streaming
      <4>1. StreamPlace(h) /\ StreamStage(h)
        BY <1>2, <1>3, <1>4, <1>13, <3>1, PlaceOfCall DEF ExchangeInv
      <4> QED
        BY <1>2, <1>3, <1>4, <1>5, <1>11, <1>13, <3>1, <4>1, StreamTurns
    <3>2. CASE ~job.streaming
      <4>1. TransferPlace(h) /\ TransferStage(h)
        BY <1>2, <1>3, <1>4, <1>13, <3>2, PlaceOfCall DEF ExchangeInv
      <4> QED
        BY <1>2, <1>3, <1>4, <1>5, <1>13, <3>2, <4>1, TransferTurns
    <3> QED
      BY <3>1, <3>2
  <2>2. AtRest2 /\ AtWork
    BY <2>1 DEF Finished
  <2>3. halted' => run_prev'
    <3>1. run_prev' = run /\ run
      BY <1>1, <1>13, BenchPins, ThreeClocks DEF OnBench, InStore, RunOnly, Synchronize
    <3> QED
      BY <3>1
  <2> QED
    BY <1>7, <1>8, <1>9, <1>11, <1>12, <2>2, <2>3 DEF ExchangeInv
<1>14. CASE ~running
  <2>1. out_enable = {} /\ out_enable' = {} /\ (running' => pc' = 0)
    BY <1>1, <1>14, BenchRest DEF SPIInv
  <2>2. DeviceKeeps /\ Counts(0, 0)
    BY <1>5, <2>1, DeviceSees DEF Turning
  <2>3. length # 0
    <3>1. StreamHas(job.program, h) \/ TransferHas(job.program, h)
      <4>1. CASE StreamCalled
        BY <1>2, <1>4, <4>1, StreamWords DEF StreamCalled
      <4>2. CASE TransferCalled
        <5>1. PICK byte : job.program = F!spi_transfer(byte, job.mode, job.lsb, h)
          BY <1>4, <4>2 DEF TransferCalled
        <5> QED
          BY <1>2, <5>1, TransferWords
      <4> QED
        BY <1>2, <4>1, <4>2
    <3>2. length = Len(job.program)
      BY <1>1 DEF OnBench, InStore, Stored
    <3>3. length = 14 \/ length = 11
      BY <3>1, <3>2 DEF StreamHas, TransferHas
    <3> QED
      BY ONLY <3>3
  <2>4. /\ halted' <=> halted
        /\ halted' => run_prev'
        /\ ~halted => ~stream_enabled'
        /\ halted => ~running' /\ fault' = fault /\ rx_shift' = rx_shift
        /\ ~rx_push /\ ~tx_pop
    BY <1>1, <1>5, <1>14, <2>3, RestStatus DEF ExchangeInv
  <2>5. CASE halted
    <3>1. Done
      BY <1>14, <2>5 DEF ExchangeInv
    <3>2. Ready(job.count)'
      BY <1>5, <2>2, <3>1, KeptReady DEF Turning, Done
    <3>3. job.streaming => Pushed' = job.count
      <4>1. job.count \in 1 .. 255
        BY <1>2 DEF SPITerms
      <4>2. job.streaming => Pushed = job.count
        BY <3>1 DEF Done
      <4> QED
        BY <1>11, <2>4, <4>1, <4>2
    <3>4. served' = served
      BY <2>2 DEF DeviceKeeps
    <3>5. Done'
      BY <1>1, <2>1, <2>4, <2>5, <3>1, <3>2, <3>3, <3>4 DEF Done
    <3>6. AtRest2 /\ AtWork
      BY <2>4, <2>5, <3>5
    <3> QED
      BY <1>7, <1>8, <1>9, <1>11, <1>12, <2>4, <3>6 DEF ExchangeInv
  <2>6. CASE ~halted
    <3>1. Untouched'
      BY <1>5, <1>14, <2>2, <2>6, KeptUntouched DEF Turning, ExchangeInv
    <3>2. running' => StreamStage(h)' /\ TransferStage(h)'
      BY <2>1, <2>4, <2>6, <3>1 DEF StreamStage, TransferStage
    <3>3. AtRest2 /\ AtWork
      BY <2>4, <2>6, <3>1, <3>2
    <3> QED
      BY <1>7, <1>8, <1>9, <1>11, <1>12, <2>4, <3>3 DEF ExchangeInv
  <2> QED
    BY <2>5, <2>6
<1> QED
  BY <1>13, <1>14

(***************************************************************************)
(* SPI: the exchange, over whole runs.                                     *)
(***************************************************************************)
LEMMA ExchangeStutters ==
  ASSUME UNCHANGED serialVars, SPIJob, ExchangeInv, device.edges \in Nat, device.selections \in Nat
  PROVE  ExchangeInv'
<1>1. /\ job' = job /\ device' = device /\ served' = served /\ unsent' = unsent /\ got' = got
      /\ tx' = tx /\ rx' = rx /\ pc' = pc /\ delay_left' = delay_left
      /\ input_meta' = input_meta /\ input_sync' = input_sync /\ load_prev' = load_prev
      /\ run_prev' = run_prev /\ byte_index' = byte_index /\ loader_error' = loader_error
      /\ running' = running /\ halted' = halted /\ fault' = fault
      /\ out_value' = out_value /\ out_enable' = out_enable
      /\ tx_shift' = tx_shift /\ rx_shift' = rx_shift /\ loop_count' = loop_count
      /\ stream_enabled' = stream_enabled /\ byte_count' = byte_count
  BY DEF serialVars, benchVars, spiVars, vars, syncVars, loaderVars, statusVars, pinVars,
         shiftVars, streamVars, queueVars
<1>2. DeviceKeeps /\ Counts(0, 0) /\ MosiStays /\ cpha' = cpha
  BY <1>1, PhaseStays DEF DeviceKeeps, Counts, MosiStays
<1>3. Complete' /\ Strobes' /\ Bytes' /\ Pulled' = Pulled /\ Pushed' = Pushed
  <2>1. Complete'
    BY <1>1 DEF ExchangeInv, Complete
  <2>2. Strobes'
    BY <1>1 DEF ExchangeInv, Strobes, Able, load, Empty, Full
  <2>3. Pulled' = Pulled /\ Pushed' = Pushed
    BY <1>1 DEF Pulled, Pushed
  <2>4. Carries(tx, job.bytes, Pulled)' /\ Carries(rx, served, Len(got))'
    BY <1>1, <2>3 DEF ExchangeInv, Bytes, Carries, Ahead
  <2> QED
    BY <1>1, <2>1, <2>2, <2>3, <2>4 DEF ExchangeInv, Bytes
<1>4. \A n : (Ready(n) => Ready(n)') /\ (ByteRead(n) => ByteRead(n)')
  BY <1>1, <1>2, KeptReady, KeptByteRead
<1>5. Untouched => Untouched'
  BY <1>1, <1>2, KeptUntouched
<1>6. ASSUME NEW B, NEW h, NEW n, NEW c, BitStage(B, h, n, c) PROVE BitStage(B, h, n, c)'
  <2>1. device'.edges = device.edges /\ device'.selections = device.selections
    BY <1>1
  <2>2. \A taken, out, read, edges :
          Stage(n, c, taken, out, read, edges) => Stage(n, c, taken, out, read, edges)'
    BY <1>1, <1>2, <2>1, StageKeeps
  <2>3. /\ \A b : Answering(n, b) => Answering(n, b)'
        /\ Offering(n) => Offering(n)'
        /\ ServedFor(n + 1) => ServedFor(n + 1)'
        /\ Len(served') = Len(served)
    BY <1>1, <1>2, KeptAnswer, KeptServedFor DEF DeviceKeeps, Answering
  <2>4. Arrives(delay_left, h) => Arrives(delay_left, h)'
    BY <1>1 DEF Arrives
  <2>5. LeadingStage(B, h, n, c) => LeadingStage(B, h, n, c)'
    BY <1>1, <2>2, <2>3, <2>4 DEF LeadingStage
  <2>6. TrailingStage(B, h, n, c) => TrailingStage(B, h, n, c)'
    BY <1>1, <2>2, <2>3, <2>4 DEF TrailingStage
  <2> QED
    BY <1>1, <1>2, <1>6, <2>1, <2>5, <2>6 DEF BitStage
<1>7. ASSUME NEW h, NEW n, StreamByte(h, n) PROVE StreamByte(h, n)'
  BY <1>1, <1>3, <1>4, <1>6, <1>7 DEF StreamByte
<1>8. \A h : StreamStage(h) => StreamStage(h)'
  BY <1>1, <1>3, <1>4, <1>5, <1>7 DEF StreamStage
<1>9. \A h : TransferStage(h) => TransferStage(h)'
  <2>1. TxIs(0, 0) => TxIs(0, 0)'
    BY <1>1, KeptTx
  <2> QED
    BY <1>1, <1>4, <1>5, <1>6, <2>1 DEF TransferStage
<1>10. Done => Done'
  BY <1>1, <1>3, <1>4 DEF Done
<1> QED
  BY <1>1, <1>3, <1>5, <1>8, <1>9, <1>10 DEF ExchangeInv

LEMMA ExchangeStarts ==
  ASSUME SerialInit, SPIJob
  PROVE  Inv /\ ExchangeInv
<1>1. job \in Jobs /\ Loaded(job.program) /\ unsent = job.bytes /\ got = << >> /\ DeviceInit
  BY DEF SerialInit, BenchInit
<1>2. SPITerms
  BY <1>1, CalledSPI
<1>3. Inv
  <2>1. job.program \in Seq(Words) /\ Len(job.program) <= MemWords
    BY <1>1, BenchAssumption
  <2>2. PICK n \in Nat : n = Len(job.program) /\ n <= MemWords /\ job.program \in [1 .. n -> Words]
    BY <2>1
  <2>3. n \in 0 .. MemWords
    BY <2>2, MemAssumption
  <2> QED
    BY <1>1, <2>2, <2>3, LoadedInv
<1>4. /\ input_meta = Quiet /\ input_sync = Quiet /\ ~load_prev
      /\ ~halted /\ ~running /\ ~stream_enabled /\ Empty(tx) /\ Empty(rx)
      /\ byte_index = 0 /\ ~loader_error
  BY <1>1 DEF Loaded, ResetEngine, ResetQueues, UnwrittenRing, Empty
<1>5. /\ device.heard = << >> /\ device.bits = << >> /\ served = << >>
      /\ device.edges = 0 /\ device.selections = 0
  BY <1>1 DEF DeviceInit
<1>6. Untouched
  BY <1>5 DEF Untouched, Took
<1>7. Strobes
  BY <1>1, <1>4 DEF Strobes, Able, Quiet, load
<1>8. Bytes
  <2>1. job.bytes \in Seq(Byte) /\ tx.used = 0 /\ rx.used = 0
    BY <1>2, <1>4 DEF SPITerms, Empty
  <2>2. PICK n \in Nat : n = Len(job.bytes)
    BY <2>1
  <2>3. Pulled = 0 /\ Pushed = 0
    BY <1>1, <2>1, <2>2 DEF Pulled, Pushed
  <2>4. Carries(tx, job.bytes, Pulled) /\ Carries(rx, served, Len(got))
    BY <2>1 DEF Carries
  <2> QED
    BY <1>1, <1>5, <2>1, <2>3, <2>4 DEF Bytes
<1> QED
  BY <1>3, <1>4, <1>5, <1>6, <1>7, <1>8 DEF ExchangeInv, Complete

\* An exchange that is done is the one that was asked for.
LEMMA DoneExact ==
  ASSUME Inv, SPITerms, Bytes, Done
  PROVE  /\ ~fault
         /\ device.heard = job.sends
         /\ IF job.streaming THEN Received = served ELSE job.count = 1 => <<rx_shift>> = served
         /\ device.edges = 16 * job.count /\ device.selections = 1
<1>1. /\ Took(job.count, 0) /\ ServedFor(job.count)
      /\ device.edges = 16 * job.count /\ device.selections = 1 /\ ~fault
  BY DEF Done, Ready
<1>2. served \in Seq(Byte) /\ Len(served) = job.count
  BY <1>1 DEF ServedFor, Bytes
<1>3. device.heard = job.sends
  <2>1. /\ device.heard \in Seq(Byte) /\ Len(device.heard) = Len(job.sends)
        /\ \A i \in 1 .. Len(device.heard) : device.heard[i] = job.sends[i]
    BY <1>1 DEF Took, SPITerms
  <2> QED
    BY <2>1, SeqEqual DEF SPITerms
<1>4. ASSUME job.streaming PROVE Received = served
  <2>1. /\ rx \in RingOf(Byte \cup {Unknown}) /\ rx.used \in Nat /\ got \in Seq(Byte)
        /\ Carries(rx, served, Len(got)) /\ \A i \in 1 .. Len(got) : got[i] = served[i]
    BY QueueTerms DEF Bytes
  <2>2. PICK m \in Nat : m = Len(got)
    BY <2>1
  <2>3. PICK u \in Nat : u = rx.used
    BY <2>1
  <2>4. Len(served) = m + u
    BY <1>2, <1>4, <2>2, <2>3 DEF Done, Pushed
  <2>5. ASSUME NEW k \in 1 .. u
        PROVE  rx.mem[Ahead(rx, k - 1)] = served[m + k] /\ served[m + k] \in Byte
    <3>1. k - 1 \in 0 .. rx.used - 1 /\ m + (k - 1) + 1 = m + k /\ m + k \in 1 .. Len(served)
      BY ONLY <2>3, <2>4, <2>5
    <3> QED
      BY <1>2, <2>1, <2>2, <3>1 DEF Carries
  <2>6. Contents(rx) \in [1 .. u -> Byte] /\ \A k \in 1 .. u : Contents(rx)[k] = served[m + k]
    BY <2>3, <2>5 DEF Contents
  <2>7. Contents(rx) \in Seq(Byte) /\ Len(Contents(rx)) = u
    BY <2>6, FunctionIsSequence
  <2>8. /\ Received \in Seq(Byte) /\ Len(Received) = m + u
        /\ \A i \in 1 .. m : Received[i] = got[i]
        /\ \A i \in 1 .. u : Received[m + i] = Contents(rx)[i]
    BY <2>1, <2>2, <2>7, Joined DEF Received
  <2>9. ASSUME NEW i \in 1 .. Len(Received) PROVE Received[i] = served[i]
    <3>1. CASE i <= m
      <4>1. i \in 1 .. m
        BY <2>8, <3>1
      <4> QED
        BY <2>1, <2>2, <2>8, <4>1
    <3>2. CASE i > m
      <4>1. PICK k \in 1 .. u : i = m + k
        BY <2>8, <3>2
      <4> QED
        BY <2>6, <2>8, <4>1
    <3> QED
      BY <2>8, <3>1, <3>2
  <2> QED
    BY <1>2, <2>4, <2>8, <2>9, SeqEqual
<1>5. ASSUME ~job.streaming, job.count = 1 PROVE <<rx_shift>> = served
  <2>1. rx_shift = served[1] /\ Len(served) = 1
    BY <1>2, <1>5 DEF Done
  <2>2. 1 \in 1 .. Len(served) /\ served[1] \in Byte
    BY <1>2, <2>1
  <2>3. /\ <<rx_shift>> \in Seq(Byte) /\ Len(<<rx_shift>>) = Len(served)
        /\ \A i \in 1 .. Len(<<rx_shift>>) : <<rx_shift>>[i] = served[i]
    BY <2>1, <2>2
  <2> QED
    BY <1>2, <2>3, SeqEqual
<1> QED
  BY <1>1, <1>3, <1>4, <1>5

ExchangingInv == ClockingInv /\ (SPIJob => Inv /\ ExchangeInv)

LEMMA ExchangingStep ==
  ASSUME ExchangingInv, [SerialClock]_serialVars
  PROVE  ExchangingInv'
<1>1. ClockingInv'
  BY ClockingStep DEF ExchangingInv
<1>2. job' = job
  <2>1. CASE SerialClock
    <3>1. PICK lanes : BenchClock(lanes)
      BY <2>1 DEF SerialClock, SPIClock, UARTClock
    <3> QED
      BY <3>1, BenchPins
  <2>2. CASE UNCHANGED serialVars
    BY <2>2 DEF serialVars, benchVars
  <2> QED
    BY <2>1, <2>2
<1>3. ASSUME SPIJob PROVE Inv' /\ ExchangeInv'
  <2>0. ClockingInv /\ Inv /\ ExchangeInv
    BY <1>3 DEF ExchangingInv
  <2>1. CASE SerialClock
    <3>1. BenchClock(SPILanes) /\ DeviceStep
      BY <1>3, <2>1 DEF SerialClock, SPIClock
    <3> QED
      BY <1>3, <2>0, <3>1, ExchangeStep
  <2>2. CASE UNCHANGED serialVars
    <3>1. UNCHANGED vars
      BY <2>2 DEF serialVars, benchVars
    <3>2. Inv'
      BY <2>0, <3>1, NextInv
    <3>3. device.edges \in Nat /\ device.selections \in Nat
      BY <2>0 DEF ExchangeInv
    <3> QED
      BY <1>3, <2>0, <2>2, <3>2, <3>3, ExchangeStutters
  <2> QED
    BY <2>1, <2>2
<1> QED
  BY <1>1, <1>2, <1>3 DEF ExchangingInv, SPIJob

LEMMA ExchangingIsExact == ExchangingInv => TransferExact
<1> SUFFICES ASSUME ExchangingInv, SPIJob, halted
             PROVE  /\ ~fault
                    /\ device.heard = job.sends
                    /\ IF job.streaming THEN Received = served ELSE <<rx_shift>> = served
                    /\ device.edges = 16 * job.count /\ device.selections = 1
  BY DEF TransferExact
<1>1. Inv /\ ExchangeInv /\ job \in Jobs
  BY DEF ExchangingInv, ClockingInv, OnBench
<1>2. SPITerms /\ (~job.streaming => job.count = 1)
  BY <1>1, CalledSPI
<1>3. ~running
  BY <1>1 DEF Inv, FailClosedSafely, RunsCompleteImage
<1>4. Done /\ Bytes
  BY <1>1, <1>3 DEF ExchangeInv
<1> QED
  BY <1>1, <1>2, <1>4, DoneExact

\* A transfer that halts has exchanged every byte, bit for bit in both directions, on
\* sixteen edges per byte under one selection, in every mode and bit order, for every
\* half period, count and byte, whatever the device answers, however slow the host is and
\* however deep the queues are (tools/streaming.py:38-54, tools/program.py:73-94,
\* test/test_streaming.py:284-305).
THEOREM TransfersAreExact == SerialSpec => []TransferExact
<1>1. SerialInit => ExchangingInv
  BY ClockingStarts, ExchangeStarts DEF ExchangingInv
<1>2. ExchangingInv /\ [SerialClock]_serialVars => ExchangingInv'
  BY ExchangingStep
<1>3. ExchangingInv => TransferExact
  BY ExchangingIsExact
<1> QED
  BY <1>1, <1>2, <1>3, PTL DEF SerialSpec
====================================================================================
