--------------------------------- MODULE StepProofs ---------------------------------
(***************************************************************************)
(* What a step of the engine may never do, for every program, store and    *)
(* duration and every behaviour of the host and the pins.  First that the  *)
(* engine implements its contract: the step properties follow from the     *)
(* inductive invariant Inv of EngineProofs; the contract needs one more    *)
(* fact, that a program that has ended is remembered for exactly as long   *)
(* as RUN stays high.  With the history of the RUN pin that fact also      *)
(* gives that each rise of the pin decides once: RiseSeen says where in    *)
(* the synchronizer and run_prev a rise stands.                            *)
(*                                                                         *)
(* Then what a program may count on in clocks: the hold of a DRIVE or      *)
(* PATCH is exact, the pins are kept through it, and a limited WAIT faults *)
(* on its Nth mismatch.  The stopwatch of Timing restricts nothing, so Inv *)
(* holds beside it too; OnTheClock adds what the stopwatch and the         *)
(* registers of the engine have in common.                                 *)
(***************************************************************************)
EXTENDS Timing, RunHistory, EngineProofs, SequenceTheorems

(***************************************************************************)
(* Room, a byte or an edge that the host has seen waits for it: the        *)
(* program and the pins never take it away while streaming is on.          *)
(***************************************************************************)
THEOREM CheckThenAct == Spec => CheckedStaysTrue
<1> DEFINE Kept == /\ ~Full(tx) /\ Full(tx') => host_strobe
                   /\ ~Empty(rx) /\ (Empty(rx') \/ Front(rx') # Front(rx)) => command
                   /\ ~Empty(capture) /\ capture_head' # capture_head => command
<1>1. Inv /\ [Next]_vars => [stream_enabled' => Kept]_vars
  <2> SUFFICES ASSUME Inv, Next, stream_enabled' PROVE Kept
    OBVIOUS
  <2>1. PICK h \in Offered :
          /\ tx' = Edge(tx, tx_push, tx_pop, h)
          /\ rx' = Edge(rx, rx_push, rx_pop(h), rx_shift)
          /\ capture' = Edge(capture, capture_push, capture_pop(h), Event)
    BY StreamingStep DEF Serve, ServeByte
  <2>2. /\ tx \in RingOf(Byte \cup {Unknown}) /\ rx \in RingOf(Byte \cup {Unknown})
        /\ capture \in RingOf(CapturedEdge \cup {Unknown})
        /\ Coherent(rx) /\ Coherent(capture)
    BY DEF Inv, TypeOK, QueueTypes, Written, QueuesCoherent
  <2>3. ~Full(tx) /\ Full(tx') => host_strobe
    <3>1. tx_push \in BOOLEAN /\ tx_pop \in BOOLEAN /\ (tx_push => host_strobe)
      BY DEF tx_push, tx_pop
    <3> QED
      BY <2>1, <2>2, <3>1, FilledByPush
  <2>4. ASSUME ~Empty(rx), ~command PROVE ~Empty(rx') /\ Front(rx') = Front(rx)
    <3>1. rx_pop(h) = FALSE /\ rx_push \in BOOLEAN /\ (rx_push => ~Full(rx))
      BY <2>4 DEF rx_pop, rx_push
    <3> QED
      BY <2>1, <2>2, <2>4, <3>1, FrontStays
  <2>5. ASSUME ~Empty(capture), ~command PROVE capture_head' = capture_head
    <3>1. /\ capture_pop(h) = FALSE /\ capture_push \in BOOLEAN
          /\ (capture_push => ~Full(capture))
      BY <2>5 DEF capture_pop, capture_push
    <3>2. ~Empty(capture') /\ Front(capture') = Front(capture)
      BY <2>1, <2>2, <2>5, <3>1, FrontStays
    <3> QED
      BY <2>5, <3>2 DEF capture_head
  <2> QED
    BY <2>3, <2>4, <2>5
<1> QED
  BY <1>1, Invariance, PTL DEF Spec, CheckedStaysTrue

(***************************************************************************)
(* An edge on a selected lane is at the tail of the queue or reported, and *)
(* a wrap of the timestamp is reported; an error goes only by a command.   *)
(***************************************************************************)
THEOREM NoSilentLoss == Spec => LossIsReported
<1> DEFINE Kept == /\ capture_event =>
                        \/ "capture_full" \in host_errors'
                        \/ ~Empty(capture') /\ Last(capture)' = Event
                   /\ running /\ timestamp' < timestamp => "time_wrapped" \in host_errors'
                   /\ ~command => host_errors \subseteq host_errors'
<1>1. Inv /\ [Next]_vars => [stream_enabled /\ stream_enabled' => Kept]_vars
  <2> SUFFICES ASSUME Inv, Next, stream_enabled' PROVE Kept
    OBVIOUS
  <2>1. PICK h \in Offered :
          /\ capture' = Edge(capture, capture_push, capture_pop(h), Event)
          /\ host_errors' = ErrorsAfter(h)
    BY StreamingStep DEF Serve, ServeByte
  <2>2. capture \in RingOf(CapturedEdge \cup {Unknown}) /\ Coherent(capture)
    BY DEF Inv, TypeOK, QueueTypes, Written, QueuesCoherent
  <2>3. ASSUME capture_event, Full(capture) PROVE "capture_full" \in host_errors'
    BY <2>1, <2>3 DEF ErrorsAfter, Raised, ErrorBits
  <2>4. ASSUME capture_event, ~Full(capture) PROVE ~Empty(capture') /\ Last(capture)' = Event
    <3>1. /\ capture_push
          /\ capture_pop(h) \in BOOLEAN /\ (capture_pop(h) => ~Empty(capture))
      BY <2>4 DEF capture_push, capture_pop
    <3>2. capture' = Edge(capture, TRUE, capture_pop(h), Event)
      BY <2>1, <3>1 DEF Edge
    <3>3. ~Empty(capture') /\ capture'.mem[Ahead(capture', capture'.used - 1)] = Event
      BY <2>2, <2>4, <3>1, <3>2, PushIsLast
    <3> QED
      BY <3>3 DEF Last
  <2>5. ASSUME running, timestamp' < timestamp PROVE "time_wrapped" \in host_errors'
    <3>1. /\ TimeSpan \in Nat \ {0} /\ timestamp \in 0 .. TimeSpan - 1
          /\ timestamp' = (timestamp + 1) % TimeSpan
      BY StreamingStep, TimeAssumption DEF Serve, Inv, TypeOK, QueueTypes, Moment
    <3>2. timestamp = TimeSpan - 1
      <4> SUFFICES ASSUME timestamp + 1 \in 0 .. TimeSpan - 1 PROVE FALSE
        BY <3>1
      <4>1. (timestamp + 1) % TimeSpan = timestamp + 1
        BY <3>1
      <4> QED
        BY <4>1, <3>1, <2>5
    <3> QED
      BY <2>1, <2>5, <3>2 DEF ErrorsAfter, Raised, ErrorBits
  <2>6. ~command => host_errors \subseteq host_errors'
    BY <2>1 DEF ErrorsAfter
  <2> QED
    BY <2>3, <2>4, <2>5, <2>6
<1> QED
  BY <1>1, Invariance, PTL DEF Spec, LossIsReported

(***************************************************************************)
(* The contract.  A refused or finished program keeps its phase until RUN  *)
(* is seen low, so that the only way back to execution is a release.       *)
(***************************************************************************)

\* The image the loader has built is a sequence of words as long as the count.
LEMMA ImageSeq ==
  ASSUME Inv
  PROVE  Image \in Seq(Words) /\ Len(Image) = length
<1>1. length \in Nat /\ \A i \in 1 .. length : program_mem[i - 1] \in Words
  <2>1. length \in Nat
    BY MemAssumption DEF Inv, TypeOK, LoaderTypes
  <2>2. ASSUME NEW i \in 1 .. length PROVE program_mem[i - 1] \in Words
    BY <2>1 DEF Inv, Written, ImageWritten
  <2> QED
    BY <2>1, <2>2
<1> QED
  BY <1>1 DEF Image

\* What the loader does to the store is an edit of the image.
LEMMA LoaderEdits ==
  ASSUME Inv, Loader
  PROVE  Contract!Edits
<1>0. length \in Nat /\ length <= MemWords /\ MemWords \in Nat \ {0}
      /\ program_mem \in [0 .. MemWords - 1 -> Words \cup {Unknown}]
  BY MemAssumption DEF Inv, TypeOK, LoaderTypes
<1>1. CASE length' = length /\ program_mem' = program_mem
  BY <1>1 DEF Contract!Edits, Image
<1>2. CASE Rewind
  BY <1>2 DEF Rewind, Contract!Edits, Image
<1>3. CASE CompleteWord
  <2>1. PICK w \in Words : program_mem' = [program_mem EXCEPT ![NextSlot] = w]
    BY <1>3 DEF CompleteWord
  <2>2. length # MemWords /\ length' = length + 1
    BY <1>3 DEF CompleteWord
  <2>3. length \in 0 .. MemWords - 1 /\ NextSlot = length
    BY <1>0, <2>2 DEF NextSlot
  <2>4. ASSUME NEW i \in 1 .. length + 1
        PROVE  program_mem'[i - 1] = IF i <= length THEN program_mem[i - 1] ELSE w
    BY <1>0, <2>1, <2>3
  <2>5. Image' = [i \in 1 .. length + 1 |->
                    IF i <= length THEN program_mem[i - 1] ELSE w]
    BY <2>2, <2>4 DEF Image
  <2>6. Append(Image, w) = [i \in 1 .. length + 1 |->
                              IF i <= length THEN program_mem[i - 1] ELSE w]
    <3>1. Append(Image, w) = [i \in 1 .. length + 1 |->
                                IF i <= length THEN Image[i] ELSE w]
      BY <1>0, ImageSeq, AppendProperties
    <3>2. \A i \in 1 .. length : Image[i] = program_mem[i - 1]
      BY DEF Image
    <3> QED
      BY <1>0, <3>1, <3>2
  <2>7. Len(Image) < MemWords /\ Image' = Append(Image, w)
    BY <1>0, <2>3, <2>5, <2>6, ImageSeq
  <2> QED
    BY <2>7 DEF Contract!Edits
<1> QED
  BY <1>1, <1>2, <1>3 DEF Loader, NoStrobe, Overrun, TakeByte, loaderVars

\* Every clock of the engine is a step its contract allows.
LEMMA ContractStep ==
  ASSUME Inv, EndSeenWithRun, Inv', [Next]_vars
  PROVE  [Contract!Next]_(Contract!contractVars)
<1> USE DEF Contract!Next
<1>1. CASE ResetEdge
  BY <1>1 DEF ResetEdge, ClearExecution, Contract!Release, Contract!Edits, Phase, Image
<1>2. CASE Deselected
  BY <1>2 DEF Deselected, Abort, loaderVars, Contract!Release, Contract!Edits, Phase, Image
<1>3. CASE Stopped
  BY <1>3, LoaderEdits DEF Stopped, Abort, Contract!Release, Phase
<1>4. CASE Start
  <2>1. /\ run /\ ~run_prev /\ out_enable' = {}
        /\ running' = ~BadImage /\ halted' = BadImage /\ fault' = BadImage
    BY <1>4 DEF Start, RunEdge, ClearExecution
  <2>2. UNCHANGED loaderVars /\ Image' = Image
    <3>1. UNCHANGED loaderVars
      BY <2>1, <1>4, LoaderStep DEF Start, Inv, TypeOK, Written, FailClosedSafely
    <3> QED
      BY <3>1 DEF loaderVars, Image
  <2>3. Phase = "idle"
    BY <2>1 DEF Phase, Inv, FailClosedSafely, RunsCompleteImage, EndSeenWithRun
  <2>4. CASE BadImage
    BY <2>1, <2>2, <2>3, <2>4 DEF Contract!Refuse, Phase
  <2>5. CASE ~BadImage
    <3>1. Image # << >>
      <4>1. length \in Nat /\ length # 0
        BY <2>5, MemAssumption DEF BadImage, Inv, TypeOK, LoaderTypes
      <4> QED
        BY <4>1, ImageSeq
    <3> QED
      BY <2>1, <2>2, <2>3, <2>5, <3>1 DEF Contract!Begin, Phase
  <2> QED
    BY <2>4, <2>5
<1>5. CASE Steps /\ Synchronize /\ Loader /\ Serve
  <2>1. UNCHANGED loaderVars /\ Image' = Image
    <3>1. UNCHANGED loaderVars
      BY <1>5, StepsRun, LoaderStep DEF Inv, TypeOK, Written, FailClosedSafely
    <3> QED
      BY <3>1 DEF loaderVars, Image
  <2>2. StatusStep
    BY <1>5, <2>1, ExecutorStep
  <2>3. CASE running /\ running'
    BY <2>1, <2>3 DEF Phase, Contract!Work, Inv, TypeOK, ExecutorTypes, PinTypes
  <2>4. CASE running /\ ~running'
    <3>1. halted'
      BY <1>5, <2>4, EndsHalted
    <3> QED
      BY <2>1, <2>2, <2>4, <3>1 DEF Phase, StatusStep, Contract!Finish
  <2>5. CASE ~running
    <3>1. Halted
      BY <1>5, <2>5, EndedStays
    <3> QED
      BY <2>1, <3>1 DEF Halted, statusVars, pinVars, Phase, Contract!contractVars
  <2> QED
    BY <2>3, <2>4, <2>5
<1>6. CASE UNCHANGED vars
  BY <1>6 DEF vars, loaderVars, statusVars, pinVars, Image, Phase, Contract!contractVars
<1> QED
  BY <1>1, <1>2, <1>3, <1>4, <1>5, <1>6, ClockCases

(***************************************************************************)
(* The engine implements its contract: the image is frozen while it        *)
(* executes, an execution starts only on a non-empty image from the idle   *)
(* phase, ends once and for all, and nothing else drives the pins.         *)
(***************************************************************************)
THEOREM EngineImplementsContract == Spec => ImplementsContract
<1>1. Init => EndSeenWithRun /\ Contract!Init
  <2>1. ASSUME Init PROVE Image = << >>
    BY <2>1 DEF Init, ResetLoader, Image
  <2> QED
    BY <2>1 DEF Init, ResetEngine, EndSeenWithRun, Contract!Init, Phase
<1> QED
  BY <1>1, EndSeenStep, ContractStep, Invariance, PTL DEF Spec, ImplementsContract, Contract!Spec

(***************************************************************************)
(* The clocks a program may count on.                                      *)
(***************************************************************************)
\* The delay register counts down what the stopwatch has still to run.
OnTheClock ==
  /\ lease \in Nat /\ age \in Nat /\ misses \in Nat
  /\ ~running => lease = 0
  /\ lease # 0 => age + delay_left = lease
  /\ running => misses = wait_elapsed

\* The actions that keep the delay register and the mismatch counter.
Untimed ==
  \/ Jump \/ Branch \/ Sample \/ Load \/ Out \/ In \/ Djnz \/ CheckTx \/ Stream \/ PullReady
  \/ PushReady \/ Stall \/ ByteLoop \/ LastByte \/ Capture

\* What one clock of a program that goes on does to the two counters.
LEMMA CounterStep ==
  ASSUME Inv, Next, running, running'
  PROVE  \/ /\ ~issue /\ delay_left # 0
            /\ delay_left' = delay_left - 1 /\ wait_elapsed' = wait_elapsed
            /\ UNCHANGED <<out_value, out_enable>>
         \/ /\ Times /\ delay_left' = instruction.hold /\ wait_elapsed' = wait_elapsed
         \/ /\ issue /\ ~Times /\ instruction.op # "WAIT"
            /\ delay_left' = delay_left /\ wait_elapsed' = wait_elapsed
         \/ /\ issue /\ instruction.op = "WAIT" /\ ~BadLane /\ delay_left' = delay_left
            /\ \/ Sees(instruction) /\ wait_elapsed' = 0
               \/ ~Sees(instruction) /\ ~TimesOut /\ wait_elapsed' = ElapsedAfterMiss
<1>1. Steps /\ Executing
  BY GoesOnByStep
<1>2. ~PastEnd /\ ~Reject /\ ~Halt /\ ~Halted
  BY <1>1 DEF PastEnd, Reject, FailClosed, Halt, Halted, Executing
<1>3. CASE Delay
  BY <1>3 DEF Delay, issue, pinVars
<1>4. CASE Drive \/ Patch
  BY <1>4 DEF Drive, Patch, Runs, Is, Times, HoldClocks
<1>5. CASE Wait
  BY <1>5 DEF Wait, Runs, Is, Rejected
<1>6. CASE Untimed
  BY <1>6 DEF Untimed, Jump, Branch, Sample, Load, Out, In, Djnz, CheckTx, Stream, PullReady,
     PushReady, Stall, ByteLoop, LastByte, Capture, Runs, Is, Times
<1> QED
  BY <1>1, <1>2, <1>3, <1>4, <1>5, <1>6 DEF Steps, Untimed

\* The stopwatch and the registers keep telling the same story.
LEMMA WatchStep ==
  ASSUME Inv, OnTheClock, Next, Watch
  PROVE  OnTheClock'
<1>1. CASE ~running'
  BY <1>1 DEF OnTheClock, Watch
<1>2. CASE running' /\ ~running
  <2>1. Start
    BY <1>2, OnlyStartStarts
  <2>2. ~issue /\ lease' = 0 /\ age' = 0 /\ misses' = 0 /\ wait_elapsed' = 0
    BY <1>2, <2>1 DEF issue, Executing, Watch, Times, Misses, OnTheClock, Start, ClearExecution
  <2> QED
    BY <2>2 DEF OnTheClock
<1>3. CASE running' /\ running
  <2>0. /\ delay_left \in Nat /\ wait_elapsed \in Nat
        /\ lease \in Nat /\ age \in Nat /\ misses \in Nat /\ misses = wait_elapsed
    BY <1>3, HoldWidth DEF Inv, TypeOK, ExecutorTypes, StatusTypes, PlaceTypes, OnTheClock
  <2>1. issue => IsInstruction(instruction) /\ delay_left = 0
    BY IssuedWord DEF Inv, Written, issue
  <2>2. CASE ~issue /\ delay_left # 0 /\ delay_left' = delay_left - 1
             /\ wait_elapsed' = wait_elapsed
    <3>1. wait_elapsed = 0
      BY <1>3, <2>2 DEF Inv, WaitWithinLimit
    <3>2. lease' = lease /\ age' = (IF lease = 0 THEN 0 ELSE age + 1) /\ misses' = 0
      BY <1>3, <2>2 DEF Watch, Times, Misses
    <3> QED
      BY <1>3, <2>0, <2>2, <3>1, <3>2 DEF OnTheClock
  <2>3. CASE Times /\ delay_left' = instruction.hold /\ wait_elapsed' = wait_elapsed
    <3>1. instruction.hold \in Nat /\ instruction.op # "WAIT"
      BY <2>1, <2>3, HoldWidth DEF Times, IsInstruction
    <3>2. wait_elapsed = 0
      BY <1>3, <2>3, <3>1 DEF Inv, WaitWithinLimit, Times
    <3>3. lease' = instruction.hold + 1 /\ age' = 1 /\ misses' = 0
      BY <1>3, <2>3, <3>1 DEF Watch, Misses
    <3> QED
      BY <1>3, <2>3, <3>1, <3>2, <3>3 DEF OnTheClock
  <2>4. CASE issue /\ ~Times /\ instruction.op # "WAIT" /\ wait_elapsed' = wait_elapsed
    <3>1. wait_elapsed = 0
      BY <1>3, <2>4 DEF Inv, WaitWithinLimit
    <3>2. lease' = 0 /\ age' = 0 /\ misses' = 0
      BY <1>3, <2>4 DEF Watch, Misses
    <3> QED
      BY <2>4, <3>1, <3>2 DEF OnTheClock
  <2>5. CASE /\ issue /\ instruction.op = "WAIT" /\ ~BadLane
             /\ \/ Sees(instruction) /\ wait_elapsed' = 0
                \/ ~Sees(instruction) /\ ~TimesOut /\ wait_elapsed' = ElapsedAfterMiss
    <3>1. lease' = 0 /\ age' = 0 /\ instruction.limit \in 0 .. MaxHold
      BY <1>3, <2>1, <2>5 DEF Watch, Times, IsInstruction
    <3>2. CASE Sees(instruction) \/ instruction.limit = 0
      <4>1. misses' = 0
        BY <3>2, <2>5 DEF Watch, Misses
      <4>2. wait_elapsed' = 0
        BY <3>2, <2>0, <2>5, <1>3 DEF ElapsedAfterMiss, Inv, WaitWithinLimit
      <4> QED
        BY <3>1, <4>1, <4>2 DEF OnTheClock
    <3>3. CASE ~Sees(instruction) /\ instruction.limit # 0
      <4>1. misses' = misses + 1
        BY <3>3, <2>5, <1>3 DEF Watch, Misses
      <4>2. wait_elapsed + 1 \in 0 .. MaxHold
        BY <3>1, <3>3, <2>0, <2>5, <1>3, HoldWidth DEF Inv, WaitWithinLimit
      <4>3. wait_elapsed' = wait_elapsed + 1
        BY <4>2, <3>3, <2>5, HoldWidth DEF ElapsedAfterMiss
      <4> QED
        BY <2>0, <3>1, <4>1, <4>3 DEF OnTheClock
    <3> QED
      BY <3>2, <3>3
  <2> QED
    BY <1>3, <2>2, <2>3, <2>4, <2>5, CounterStep
<1> QED
  BY <1>1, <1>2, <1>3

\* The inductive invariant of the timed engine.
THEOREM TimingInvariance == TimingSpec => [](Inv /\ OnTheClock)
<1>1. TimingInit => Inv /\ OnTheClock
  BY InitInv DEF TimingInit, Init, ResetEngine, OnTheClock
<1>2. Inv /\ OnTheClock /\ [TimingNext]_timingVars => (Inv /\ OnTheClock)'
  <2> SUFFICES ASSUME Inv, OnTheClock, [TimingNext]_timingVars PROVE Inv' /\ OnTheClock'
    OBVIOUS
  <2>1. [Next]_vars
    BY DEF TimingNext, timingVars
  <2>2. Inv'
    BY <2>1, NextInv
  <2>3. CASE TimingNext
    BY <2>2, <2>3, WatchStep DEF TimingNext
  <2>4. CASE UNCHANGED timingVars
    BY <2>2, <2>4 DEF timingVars, vars, statusVars, OnTheClock
  <2> QED
    BY <2>2, <2>3, <2>4
<1> QED
  BY <1>1, <1>2, PTL DEF TimingSpec

(***************************************************************************)
(* The instruction after a DRIVE or PATCH of N clocks issues N clocks      *)
(* later, for every program and every N the field can hold.                *)
(***************************************************************************)
THEOREM HoldIsExact == TimingSpec => []HoldsExactly
<1>1. Inv /\ OnTheClock => HoldsExactly
  <2> SUFFICES ASSUME Inv, OnTheClock, lease # 0
               PROVE  age <= lease /\ ((age = lease) <=> (delay_left = 0))
    BY DEF HoldsExactly
  <2>1. delay_left \in Nat /\ age \in Nat /\ age + delay_left = lease
    BY HoldWidth DEF Inv, TypeOK, ExecutorTypes, PlaceTypes, OnTheClock
  <2> QED
    BY <2>1
<1> QED
  BY <1>1, TimingInvariance, PTL

(***************************************************************************)
(* The pins keep their values and directions through the whole hold.       *)
(***************************************************************************)
THEOREM PinsAreHeld == TimingSpec => PinsHold
<1>1. Inv /\ OnTheClock /\ [TimingNext]_timingVars =>
        [lease # 0 /\ age < lease /\ running' => UNCHANGED <<out_value, out_enable>>]_timingVars
  <2> SUFFICES ASSUME Inv, OnTheClock, TimingNext, lease # 0, age < lease, running'
               PROVE  UNCHANGED <<out_value, out_enable>>
    OBVIOUS
  <2>1. running /\ delay_left # 0
    BY HoldWidth DEF Inv, TypeOK, ExecutorTypes, PlaceTypes, OnTheClock
  <2>2. ~issue /\ ~Times
    BY <2>1 DEF issue, Times
  <2> QED
    BY <2>1, <2>2, CounterStep DEF TimingNext
<1> QED
  BY <1>1, TimingInvariance, PTL DEF TimingSpec, PinsHold

(***************************************************************************)
(* A WAIT with limit N faults on its Nth mismatch in a row and on no other *)
(* clock, whatever an earlier WAIT or an earlier run counted.              *)
(***************************************************************************)
THEOREM FaultOnNth == TimingSpec => FaultsOnNthMiss
<1> DEFINE Waits == /\ running /\ (running' \/ fault')
                    /\ issue /\ instruction.op = "WAIT" /\ ~BadLane
<1>1. Inv /\ OnTheClock /\ [TimingNext]_timingVars =>
        [Waits => (fault' <=> Misses /\ misses + 1 = instruction.limit)]_timingVars
  <2> SUFFICES ASSUME Inv, OnTheClock, TimingNext, Waits
               PROVE  fault' <=> Misses /\ misses + 1 = instruction.limit
    OBVIOUS
  <2>1. Steps /\ Executing /\ ~fault
    BY GoesOnByStep DEF TimingNext, Inv, FailClosedSafely, RunsCompleteImage
  <2>2. /\ instruction.limit \in Nat /\ wait_elapsed \in Nat /\ misses = wait_elapsed
    BY IssuedWord, HoldWidth DEF Inv, Written, IsInstruction, TypeOK, ExecutorTypes,
       StatusTypes, OnTheClock
  <2>3. TimesOut <=> Misses /\ misses + 1 = instruction.limit
    BY <2>2 DEF TimesOut, Misses
  <2>4. Rejected <=> TimesOut
    BY DEF Rejected, Conflicts, NotStreaming, LoopExhausted
  <2>5. (Reject /\ TimesOut) \/ (Wait /\ ~TimesOut)
    <3>1. ~Delay /\ ~PastEnd /\ ~Halted
      BY <2>1, MemAssumption DEF Delay, PastEnd, Halted, issue, Executing, Inv, TypeOK,
         LoaderTypes, ExecutorTypes, PlaceTypes
    <3>2. ~Drive /\ ~Patch /\ ~Halt /\ ~Untimed
      BY DEF Drive, Patch, Halt, Untimed, Jump, Branch, Sample, Load, Out, In, Djnz, CheckTx,
         Stream, PullReady, PushReady, Stall, ByteLoop, LastByte, Capture, Runs, Is
    <3>3. Reject \/ Wait
      BY <2>1, <3>1, <3>2 DEF Steps, Untimed
    <3> QED
      BY <2>4, <3>3 DEF Reject, Wait, Runs
  <2>6. Reject => fault'
    BY DEF Reject, FailClosed
  <2>7. Wait => fault' = fault
    BY DEF Wait, statusVars
  <2> QED
    BY <2>1, <2>3, <2>5, <2>6, <2>7
<1> QED
  BY <1>1, TimingInvariance, PTL DEF TimingSpec, FaultsOnNthMiss

(***************************************************************************)
(* The history of the RUN pin beside the engine.  Two stages and the edge  *)
(* detector hold the last levels of the pin whatever ena does: a rise is   *)
(* in the first stage one clock after it and shows as the edge after two.  *)
(***************************************************************************)
RiseSeen ==
  /\ risen \in 0 .. 2
  /\ risen = 1 <=> input_meta.run /\ ~input_sync.run
  /\ risen = 2 <=> input_sync.run /\ ~run_prev

\* Deselected or not, every clock but one of a reset shifts the pins in.
LEMMA ShiftsIn ==
  ASSUME Next
  PROVE  ResetEdge \/ Synchronize
BY ClockCases DEF Deselected, Stopped, Start

LEMMA RiseSeenStep == RiseSeen /\ [RunNext]_runVars => RiseSeen'
<1> SUFFICES ASSUME RiseSeen, [RunNext]_runVars
             PROVE  RiseSeen'
  OBVIOUS
<1>1. CASE RunNext /\ ResetEdge
  BY <1>1 DEF RunNext, WatchRun, RunRises, ResetEdge, RiseSeen, Quiet
<1>2. CASE RunNext /\ ~ResetEdge
  <2>1. /\ input_sync' = input_meta /\ run_prev' = input_sync.run
        /\ risen' = IF RunRises THEN 1 ELSE IF risen = 1 THEN 2 ELSE 0
    BY <1>2, ShiftsIn DEF RunNext, WatchRun, Synchronize, run
  <2> QED
    BY <2>1 DEF RunRises, RiseSeen
<1>3. CASE UNCHANGED runVars
  BY <1>3 DEF runVars, vars, syncVars, RiseSeen
<1> QED
  BY <1>1, <1>2, <1>3

\* A clock that neither resets nor deselects decides exactly on the edge.
LEMMA DecidesOnRise ==
  ASSUME Inv, EndSeenWithRun, RiseSeen, RunNext
  PROVE  /\ Begins \/ Refuses => risen = 2
         /\ risen = 2 => Begins \/ Refuses \/ Deselected \/ ResetEdge
<1>1. Next
  BY DEF RunNext
<1>2. ASSUME Begins \/ Refuses
      PROVE  risen = 2
  <2>1. ~ResetEdge /\ ~Deselected /\ ~Stopped
    BY <1>2 DEF Begins, Refuses, ResetEdge, Deselected, Stopped, Abort
  <2>2. CASE Begins
    <3>1. Start
      BY <1>1, <2>2, OnlyStartStarts DEF Begins
    <3> QED
      BY <3>1 DEF Start, RunEdge, RiseSeen, run
  <2>3. CASE Refuses
    <3>1. ~Steps
      <4> SUFFICES ASSUME Steps
                   PROVE  FALSE
        OBVIOUS
      <4>1. Halted
        BY <2>3, EndedStays DEF Refuses
      <4> QED
        BY <4>1, <2>3 DEF Halted, Refuses, statusVars
    <3>2. Start
      BY <1>1, <2>1, <3>1, ClockCases
    <3> QED
      BY <3>2 DEF Start, RunEdge, RiseSeen, run
  <2> QED
    BY <1>2, <2>2, <2>3
<1>3. ASSUME risen = 2, ~Deselected, ~ResetEdge
      PROVE  Begins \/ Refuses
  <2>1. run /\ ~run_prev
    BY <1>3 DEF RiseSeen, run
  <2>2. ~running /\ ~halted
    BY <2>1 DEF Inv, FailClosedSafely, RunsCompleteImage, EndSeenWithRun
  <2>3. ~Stopped /\ ~Steps
    BY <2>1, StepsAreLate DEF Stopped
  <2>4. Start
    BY <1>1, <1>3, <2>3, ClockCases
  <2> QED
    BY <2>2, <2>4 DEF Start, Begins, Refuses, BadImage
<1> QED
  BY <1>2, <1>3

(***************************************************************************)
(* A rise of the RUN pin starts or refuses a program exactly two clocks    *)
(* later, once, and nothing else ever does: not a deselection while RUN is *)
(* high, not a reset, not the end of a program (docs/info.md:97-99;        *)
(* engine.v:164-167, 192-223).  This holds for every program, store and    *)
(* host, however often ena, rst_n and RUN change in between.               *)
(***************************************************************************)
THEOREM RisesDecideOnce == RunSpec => EachRiseDecidesOnce
<1>1. RunInit => Inv /\ EndSeenWithRun /\ RiseSeen
  BY InitInv DEF RunInit, Init, ResetEngine, EndSeenWithRun, RiseSeen, Quiet
<1>2. Inv /\ EndSeenWithRun /\ RiseSeen /\ [RunNext]_runVars
        => (Inv /\ EndSeenWithRun /\ RiseSeen)'
  <2>1. [RunNext]_runVars => [Next]_vars
    BY DEF RunNext, runVars
  <2> QED
    BY <2>1, NextInv, EndSeenStep, RiseSeenStep
<1>3. Inv /\ EndSeenWithRun /\ RiseSeen /\ [RunNext]_runVars
        => [/\ Begins \/ Refuses => risen = 2
            /\ risen = 2 => Begins \/ Refuses \/ Deselected \/ ResetEdge]_runVars
  BY DecidesOnRise
<1> QED
  BY <1>1, <1>2, <1>3, PTL DEF RunSpec, EachRiseDecidesOnce
=====================================================================================
