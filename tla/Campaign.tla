---------------------------------- MODULE Campaign ----------------------------------
(***************************************************************************)
(* The engine with receivers listening on lane 0: the target of the fault  *)
(* demonstration, which answers a frame on lane 4, and the fixture of the  *)
(* fingerprinting runs, which has every receiver report its verdict on a   *)
(* lane of its own.  Both feed lane 0 back and see what the engine drives. *)
(* A third kind of job has lanes that change on clocks of their own while  *)
(* the program selects which of them to capture.                           *)
(***************************************************************************)
EXTENDS Bench, Receivers, Fingerprint, FiniteSets

\* The receivers of one job all listen at its bit period.
ASSUME ReceiverAssumption ==
  \A j \in Jobs : /\ j.bit \in Nat \ {0, 1}
                  /\ \A lane \in DOMAIN j.receivers : j.receivers[lane] \in ReceiversAt(j.bit)

VARIABLES
  heard,      \* receivers by lane
  clock,      \* clocks since lane 0 was first driven, or None
  answered,   \* clocks since the target heard a frame, or None
  verdicts,   \* what the fixture latched, by lane
  level,      \* lane 0, as the peers saw it last
  line,       \* history: transitions of lane 0, <<clock, level>>
  fed,        \* what the lanes carry on the next clock
  shown,      \* history: changes of the lanes, [time, lanes, changed]
  selected    \* history: what CAPTURE has selected, [from, lanes]

campaignVars ==
  <<benchVars, heard, clock, answered, verdicts, level, line, fed, shown, selected>>

PeersInit ==
  /\ heard = job.receivers
  /\ clock = None /\ answered = None
  /\ verdicts = Undecodable
  /\ level = 1 /\ line = << >>
  /\ fed = {0} /\ shown = << >> /\ selected = << >>

\* The target pulses lane 4 for width clocks, its latency after the frame.
Answer ==
  LET frames == heard'[4].frames
      latency == IF frames[1][2] = 1 THEN job.clean ELSE job.framing
  IN  /\ answered' = IF frames = << >> THEN None ELSE IF answered = None THEN 0
                     ELSE IF answered = latency + job.width THEN answered ELSE answered + 1
      /\ fed' = (IF level' = 1 THEN {0} ELSE {})
                 \cup (IF frames # << >> /\ answered' \in latency .. latency + job.width - 1
                       THEN {4} ELSE {})
      /\ UNCHANGED verdicts

\* At REPORT_AT each receiver's verdict goes out on its lane.
Report ==
  /\ verdicts' = IF clock' = REPORT_AT
                 THEN [lane \in DOMAIN heard |-> verdict(heard[lane].frames, job.byte)]
                 ELSE verdicts
  /\ fed' = (IF level' = 1 THEN {0} ELSE {})
             \cup {lane \in DOMAIN verdicts' : clock' < REPORT_AT + Width(verdicts'[lane])}
  /\ UNCHANGED answered

\* Lanes change on the clocks of the run that the job names, <<clock, lane>>.
Flip ==
  LET turned == {lane \in Lanes : running' /\ <<timestamp', lane>> \in job.flips}
  IN  fed' = (fed \ turned) \cup (turned \ fed) /\ UNCHANGED <<answered, verdicts>>

Peers ==
  LET driven == 0 \in out_enable'
  IN  /\ level' = IF driven /\ 0 \notin out_value' THEN 0 ELSE 1
      /\ clock' = IF clock = None THEN (IF driven THEN 0 ELSE None)
                  ELSE IF clock < 2 * REPORT_AT THEN clock + 1 ELSE clock
      /\ heard' = IF clock' = None THEN heard
                  ELSE [lane \in DOMAIN heard |-> Hear(heard[lane], level')]
      /\ line' = IF level' # level THEN Append(line, <<clock', level'>>) ELSE line
      /\ CASE job.kind = "fault" -> Answer
           [] job.kind = "probe" -> Report
           [] job.kind = "watch" -> Flip
      /\ shown' = IF fed' = fed THEN shown
                  ELSE Append(shown, [time |-> timestamp', lanes |-> fed',
                                      changed |-> (fed \ fed') \cup (fed' \ fed)])
      /\ selected' = IF issue /\ instruction.op = "CAPTURE" /\ running'
                     THEN Append(selected, [from |-> timestamp', lanes |-> instruction.mask])
                     ELSE selected

\* The bench stops the clock when the program has halted.
CampaignClock ==
  \/ ~halted /\ BenchClock(fed) /\ Peers
  \/ halted /\ UNCHANGED campaignVars

CampaignInit == BenchInit /\ PeersInit

CampaignSpec == CampaignInit /\ [][CampaignClock]_campaignVars

\* From a change on a lane to the timestamp it is captured with: the two stages
\* of the synchronizer and the clock on which the lane is compared.
CaptureLag == 2

\* The lanes selected on a clock: by the last CAPTURE before it.
SelectedAt(time) ==
  {lane \in Lanes : \E i \in DOMAIN selected :
     /\ selected[i].from <= time /\ (i < Len(selected) => time < selected[i + 1].from)
     /\ lane \in selected[i].lanes}

(***************************************************************************)
(* The capture queue is a true record: every change of a lane that is      *)
(* selected on the clock it is compared is in it, in order, with the       *)
(* levels of all lanes and its own time plus one constant, and nothing     *)
(* else is, to the clock of the halt.  Neither the first CAPTURE nor one   *)
(* that selects other lanes invents an edge or loses one, and an edge on   *)
(* its own clock is judged by the lanes selected before.  Of more than it  *)
(* holds, the queue keeps the first and says so                            *)
(* (docs/streaming.md:105-112, test/test_streaming.py:798-802, 815-826).   *)
(***************************************************************************)
CapturesAreTrue ==
  LET Compared(e) == e.time + CaptureLag
      old == SelectSeq(shown, LAMBDA e : /\ Compared(e) < timestamp
                                         /\ e.changed \cap SelectedAt(Compared(e)) # {})
      kept == IF Len(old) < Depth THEN Len(old) ELSE Depth
  IN  running \/ halted =>
        /\ Contents(capture) =
             [i \in 1 .. kept |-> [time |-> Compared(old[i]), lanes |-> old[i].lanes]]
        /\ "capture_full" \in host_errors <=> Len(old) > Depth

(***************************************************************************)
(* The fault is as long as it was asked to be, the target hears the frame  *)
(* the length implies, and the program sees the answer for exactly the     *)
(* lengths the limit admits: one clock more and the watch misses the pulse *)
(* and gives up (tools/streaming.py:212-256).                              *)
(***************************************************************************)
FaultWindowExact ==
  halted /\ job.kind = "fault" =>
    /\ line = expected_edges(job.segments)
    /\ heard[4].frames = <<<<job.byte, IF job.clocks <= job.bit \div 2 THEN 1 ELSE 0>>>>
    /\ fault <=> job.missed
    /\ Cardinality({i \in DOMAIN shown : 4 \in shown[i].lanes}) >= 1

(***************************************************************************)
(* A probe drives its waveform clock for clock, and the verdicts decoded   *)
(* from the captured edges are those the receivers reached, each on its    *)
(* own lane (tools/fingerprint.py:97-154).                                 *)
(***************************************************************************)
VerdictsRoundTrip ==
  halted /\ job.kind = "probe" =>
    /\ ~fault /\ host_errors = {}
    /\ line = expected_edges(job.segments)
    /\ DOMAIN verdicts = DOMAIN heard
    /\ decode(Contents(capture)) = verdicts

(***************************************************************************)
(* The countdown receiver is the mid-bit sampler written another way: the  *)
(* two have heard the same frames after every clock, and one is in a frame *)
(* exactly when the other is (test/receivers.py:59-92).                    *)
(***************************************************************************)
TwinAgrees ==
  \A i, j \in DOMAIN heard :
    heard[j].kind = "twin" /\ IsMidSample(heard[i]) =>
      /\ heard[i].frames = heard[j].frames
      /\ (heard[i].due = None) = (heard[j].taken = None)
=====================================================================================
