-------------------------------- MODULE Fingerprint --------------------------------
(***************************************************************************)
(* Probes and verdicts of tools/fingerprint.py.  A segment is <<level,     *)
(* clocks>>, an edge <<clock, level>>, a captured event [time, lanes].     *)
(***************************************************************************)
EXTENDS Integers, Sequences

LOCAL INSTANCE SequencesExt

VERDICTS == <<"OK", "DATA", "FRAME", "NONE">>
WIDTHS == [OK |-> 4, DATA |-> 8, FRAME |-> 12, NONE |-> 16]
REPORT_LANES == 1 .. 4
REPORT_AT == 480
MARGIN == 8
CLOCKS == 32

\* The verdict of the first completed frame.
verdict(frames, sent) ==
  IF frames = << >> THEN "NONE"
  ELSE IF frames[1][2] = 0 THEN "FRAME"
  ELSE IF frames[1][1] = sent THEN "OK" ELSE "DATA"

\* Empty segments dropped, neighbours of one level joined.
merge(segments) ==
  FoldLeft(LAMBDA merged, s :
             IF s[2] = 0 THEN merged
             ELSE IF merged # << >> /\ Last(merged)[1] = s[1]
             THEN Front(merged) \o <<<<s[1], Last(merged)[2] + s[2]>>>>
             ELSE Append(merged, s),
           << >>, segments)

Length(segments) == FoldLeft(LAMBDA n, s : n + s[2], 0, segments)

data(byte, clocks) == [i \in 1 .. 8 |-> <<(byte \div 2 ^ (i - 1)) % 2, clocks>>]

(***************************************************************************)
(* The four probe families.                                                *)
(***************************************************************************)
P2_WIDTHS == {1, 2, 3, 4, 5, 6, 8}
P3_WIDTHS == {1, 2, 4, 8, 12, 15, 16, 17, 20, 24}
P4_BYTES  == {85, 15}

probe(family, byte, segments) ==
  [family |-> family, byte |-> byte, segments |-> merge(segments)]

\* 0xFF with the stop bit low for its first clocks.
P1(t) ==
  {probe("P1", 255, <<<<1, t>>, <<0, t>>>> \o data(255, t) \o <<<<0, low>>, <<1, t - low>>>>) :
     low \in 0 .. t - 1}

\* 0xFF with a low pulse inside data bit 3.
P2(t) ==
  {probe("P2", 255,
         <<<<1, t>>, <<0, t>>>> \o SubSeq(data(255, t), 1, 3)
         \o <<<<1, at>>, <<0, width>>, <<1, t - at - width>>>>
         \o SubSeq(data(255, t), 5, 8) \o <<<<1, t>>>>) :
     width \in P2_WIDTHS, at \in t \div 4 .. (3 * t) \div 4}

\* A low pulse that ends two bits before the start bit of 0x55.
P3(t) ==
  {probe("P3", 85, <<<<1, t>>, <<0, width>>, <<1, 2 * t>>, <<0, t>>>> \o data(85, t) \o <<<<1, t>>>>) :
     width \in P3_WIDTHS}

\* The whole frame at a slower or faster rate.
P4(t) ==
  {probe("P4", byte, <<<<1, t>>, <<0, t + delta>>>> \o data(byte, t + delta) \o <<<<1, t + delta>>>>) :
     byte \in P4_BYTES, delta \in -4 .. 4}

make_probes(t) == P1(t) \cup P2(t) \cup P3(t) \cup P4(t)

\* The transitions a waveform makes on a line that starts and ends high.
expected_edges(segments) ==
  FoldLeft(LAMBDA e, s : [level |-> s[1], t |-> e.t + s[2],
                          edges |-> IF s[1] = e.level THEN e.edges ELSE Append(e.edges, <<e.t, s[1]>>)],
           [level |-> 1, t |-> 0, edges |-> << >>],
           merge(segments) \o <<<<1, 1>>>>).edges

(***************************************************************************)
(* Reports: each lane pulses once, as wide as its verdict says.            *)
(***************************************************************************)
Undecodable == [lane \in {} |-> "NONE"]

\* The widths as they stand, and with every verdict moved to the next.
Width(v) == WIDTHS[v]
shifted(v) == WIDTHS[VERDICTS[((CHOOSE i \in 1 .. 4 : VERDICTS[i] = v) % 4) + 1]]

\* One captured edge: pulses begin and end.  A second pulse is an error.
DecodeStep(seen, event) ==
  LET pins  == event.lanes \cap REPORT_LANES
      rising  == pins \ seen.state
      falling == seen.state \ pins
      known   == DOMAIN seen.rises \cup DOMAIN seen.pulses
  IN  [state  |-> pins,
       error  |-> seen.error \/ rising \cap known # {},
       rises  |-> [lane \in (DOMAIN seen.rises \ falling) \cup rising |->
                     IF lane \in rising THEN event.time ELSE seen.rises[lane]],
       pulses |-> [lane \in DOMAIN seen.pulses \cup falling |->
                     IF lane \in falling THEN event.time - seen.rises[lane]
                     ELSE seen.pulses[lane]]]

Decoded(events) ==
  FoldLeft(DecodeStep, [state |-> {}, error |-> FALSE, rises |-> Undecodable,
                        pulses |-> Undecodable], events)

\* Any width from one verdict up to the next counts.
decode_leniently(events) ==
  LET seen == Decoded(events)
  IN  IF seen.error \/ DOMAIN seen.rises # {} \/ (\E l \in DOMAIN seen.pulses : seen.pulses[l] < 4)
      THEN Undecodable
      ELSE [lane \in DOMAIN seen.pulses |->
              CHOOSE v \in DOMAIN WIDTHS : v = "NONE" \/ seen.pulses[lane] - Width(v) \in 0 .. 3]

decode(events) ==
  LET seen == Decoded(events)
      Verdict(width) == CHOOSE v \in DOMAIN WIDTHS : Width(v) = width
  IN  IF \/ seen.error \/ DOMAIN seen.rises # {}
         \/ \E lane \in DOMAIN seen.pulses :
              seen.pulses[lane] \notin {Width(v) : v \in DOMAIN WIDTHS}
      THEN Undecodable
      ELSE [lane \in DOMAIN seen.pulses |-> Verdict(seen.pulses[lane])]
====================================================================================
