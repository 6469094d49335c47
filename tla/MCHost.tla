----------------------------------- MODULE MCHost -----------------------------------
(***************************************************************************)
(* The Host helper against small programs, started as in MCEngine.         *)
(***************************************************************************)
EXTENDS MCEngine, HostProperties

FairLinkSpec ==
  /\ LoadedInit /\ HostInit
  /\ [][HostClock]_linkVars /\ WF_linkVars(FairClock)

\* Lane 4 is the one that shows where the flags show streaming.  Two programs
\* never stream: one halts with any of four patterns on the receive page, the
\* other runs with either status byte.
LegacyHalted == <<InW(4, FALSE), InW(4, FALSE), InW(0, FALSE), InW(0, FALSE), InW(0, FALSE),
                  Plain("SAMPLE"), Plain("HALT")>>
LegacyRunning == <<Plain("SAMPLE"), To("JUMP", 0)>>
\* Streams late; then each of two bytes pulled is answered with one pushed.
Answering == <<Plain("SAMPLE"), WaitW(4, TRUE, 0), StreamW(2), Plain("PULL"), InW(4, TRUE),
               Plain("PUSH"), To("BYTE_LOOP", 3), Plain("HALT")>>
\* Pushes and halts when the line says so.
PushesAndHalts == <<StreamW(1), WaitW(4, TRUE, 0), Plain("PUSH"), Plain("HALT")>>
\* Captures both edges of the line until the host sends a byte.
Watching == <<StreamW(1), CaptureW({4}), Plain("PULL"), Plain("HALT")>>

LinkPrograms == {LegacyHalted, LegacyRunning, Answering, PushesAndHalts, Watching}
LinkWords == UNION {{p[i] : i \in DOMAIN p} : p \in LinkPrograms}
LinkBytes == (0 .. 10) \cup {24, PopReceived, PopCaptured}
===================================================================================
