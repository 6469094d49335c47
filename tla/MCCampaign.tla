--------------------------------- MODULE MCCampaign ---------------------------------
(***************************************************************************)
(* The campaigns at the sizes of the source: every length the fault demo   *)
(* accepts, and probes of every family against both groups of receivers;   *)
(* and a program that is watched while it changes what it captures.        *)
(***************************************************************************)
EXTENDS Campaign, MCEngine

F == INSTANCE CampaignFirmware

CONSTANTS
  FaultJobs,    \* {<<clocks per bit, byte>>}
  TickPhases,   \* tick phases of the first group
  ProbePicks    \* families of the probes

FaultJob(bit, byte, clocks, extra) ==
  [kind |-> "fault", program |-> F!fault_demo(bit, byte, clocks), bytes |-> << >>,
   byte |-> byte, bit |-> bit, clocks |-> clocks,
   receivers |-> [lane \in {4} |-> MidSample(bit)],
   clean |-> F!FAULT_RESPONSE.clean, framing |-> F!FAULT_RESPONSE.framing_error,
   width |-> F!FAULT_PULSE, missed |-> extra > 0,
   segments |-> <<<<1, bit>>, <<0, bit>>>> \o data(byte, bit)
                \o <<<<0, clocks>>, <<1, 1>>>>]

\* Every accepted length; and one more, built for a target one clock slower.
FaultDemos(bit, byte) ==
  {FaultJob(bit, byte, clocks, 0) : clocks \in F!Accepted(bit, 0)}
  \cup {FaultJob(bit, byte, clocks, 1) : clocks \in F!Accepted(bit, 1) \ F!Accepted(bit, 0)}

Groups ==
  {<<MidSample(CLOCKS), Majority(CLOCKS, 16, p % 2), Majority(CLOCKS, 8, p), EdgeResync(CLOCKS)>> :
     p \in TickPhases}
  \cup {<<LenientStop(CLOCKS), MidSampleTwin(CLOCKS), MidSamplePlus1(CLOCKS), MidSample(CLOCKS)>>}

ProbeJob(p, receivers) ==
  [kind |-> "probe", program |-> F!waveform_program(p.segments), bytes |-> << >>,
   byte |-> p.byte, bit |-> CLOCKS, receivers |-> receivers, segments |-> p.segments]

\* Two lanes are watched one after the other, and change once or twice on any clock.
WatchTwice ==
  <<F!hold(4), F!stream(1), F!capture({0}), F!hold(4), F!capture({1}), F!hold(4), F!HALT>>
Changes == (1 .. 16) \X {0, 1}
WatchJobs ==
  {[kind |-> "watch", program |-> WatchTwice, bytes |-> << >>, bit |-> CLOCKS,
    receivers |-> << >>, flips |-> {a, b}] : a, b \in Changes}

CampaignJobs ==
  WatchJobs \cup UNION {FaultDemos(f[1], f[2]) : f \in FaultJobs}
  \cup {ProbeJob(p, g) : p \in {q \in make_probes(CLOCKS) :
                                   q.family \in ProbePicks /\ F!fits(q.segments)}, g \in Groups}

Faults == {<<32, 255>>, <<5, 85>>}

CampaignPrograms == {j.program : j \in CampaignJobs}
CampaignWords == UNION {{p[i] : i \in DOMAIN p} : p \in CampaignPrograms}
=====================================================================================
