-------------------------------- MODULE I2CProofs --------------------------------
(***************************************************************************)
(* The I2C programs on their bus, for every half period, limit, address,   *)
(* byte and count their generators accept, whatever the target, a rival    *)
(* and the host do.                                                        *)
(***************************************************************************)
EXTENDS I2CBus, EngineProofs

(***************************************************************************)
(* The target's registers agree with the lanes.                            *)
(***************************************************************************)
TargetFields == {"oe", "scl", "sda", "low", "left", "started", "rival", "phase", "bits",
                 "direction", "offer", "late"}
ToldFields == {"starts", "repeated", "stops", "heard", "served", "acks", "nacked"}

Wired ==
  /\ TargetFields \subseteq DOMAIN target /\ ToldFields \subseteq DOMAIN told
  /\ target.scl \in BOOLEAN /\ target.sda \in BOOLEAN /\ target.low \in BOOLEAN
  /\ target.started \in BOOLEAN /\ target.rival \in BOOLEAN /\ target.late \in BOOLEAN
  /\ target.oe = out_enable \cap {SCL, SDA} /\ out_value = {}
  /\ target.left \in Nat /\ (target.left > job.limit => target.late)
  /\ target.scl => SCL \notin target.oe /\ target.left = 0
  /\ target.sda <=> SDA \notin target.oe /\ ~target.low /\ ~(target.rival /\ target.started)

SameCounts == /\ told'.starts = told.starts /\ told'.repeated = told.repeated
              /\ told'.stops = told.stops

\* The five things a clock may be to the target.
Begins == /\ target.sda /\ SDA \in target'.oe /\ target.scl /\ target'.scl
          /\ target'.started /\ target'.phase = 0
          /\ ~target'.low /\ target'.direction = "address" /\ told'.nacked = told.nacked
Ends == /\ ~target.sda /\ SDA \in target.oe /\ SDA \notin target'.oe
        /\ target.scl /\ target'.scl
        /\ target'.rival = target.rival /\ told'.nacked = told.nacked
Goes == target'.rival = target.rival /\ SameCounts
Rises == /\ target.started /\ ~target.scl /\ target'.scl /\ Goes
         /\ target'.started /\ target'.low = target.low /\ told'.nacked = told.nacked
         /\ target.direction # "read" => target'.direction = target.direction
         /\ target.phase < 8 => /\ target'.phase = target.phase + 1
                                /\ target.direction = "read" \/
                                   target'.bits = (2 * target.bits + Bit(target'.sda)) % 256
         /\ target.phase = 8 => target'.phase = 9
Answered ==
  \E ack \in BOOLEAN :
    /\ target'.low = ack /\ (told'.nacked <=> told.nacked \/ ~ack)
    /\ target'.direction = IF target.direction = "write" THEN "write" ELSE IF ~ack THEN "none"
                           ELSE IF target.bits % 2 = 1 THEN "addressed" ELSE "write"
Falls == /\ target.started /\ target.scl /\ ~target'.scl /\ Goes /\ target'.started
         /\ told.nacked => told'.nacked
         /\ target.phase = 8 => /\ target'.phase = 8
                                /\ target.direction \in {"address", "write"} => Answered
         /\ target.phase = 9 => /\ target'.phase = 0
                                /\ target.direction = "write" => target'.direction = "write"
         /\ target.phase < 8 => target'.phase = target.phase /\ target'.direction = target.direction
         /\ target.phase # 8 => /\ told'.nacked = told.nacked
                                /\ target.direction \in {"address", "write"} => ~target'.low
Rests == /\ Goes /\ target'.started = target.started /\ target'.phase = target.phase
         /\ target'.low = target.low /\ target'.direction = target.direction
         /\ target'.bits = target.bits /\ told'.nacked = told.nacked
         /\ target'.scl = target.scl \/ ~target.started
         /\ target'.sda = target.sda \/ ~(target'.scl /\ target.scl)

Stretching(left) ==
  /\ left = target.left \/ (SCL \in target.oe /\ SCL \notin target'.oe /\ running')
  /\ target'.scl <=> SCL \notin target'.oe /\ left = 0
  /\ target'.left = IF left = 0 THEN 0 ELSE left - 1
  /\ target'.late <=> target.late \/ left > job.limit

\* Moving SDA leaves the other registers alone.
Moved(r, now, low) ==
  /\ TargetFields \subseteq DOMAIN r
  /\ r.oe = now.oe /\ r.scl = now.scl /\ r.left = now.left /\ r.late = now.late
  /\ r.started = now.started /\ r.rival = now.rival /\ r.phase = now.phase
  /\ r.direction = now.direction /\ r.low = low
  /\ r.sda = (SDA \notin now.oe /\ ~low /\ ~now.rival)

LEMMA DrivesSDA ==
  ASSUME NEW now, TargetFields \subseteq DOMAIN now, NEW low, NEW r, r = Drives(now, low)
  PROVE  Moved(r, now, low)
BY DEF Drives, TargetFields, Moved

LEMMA ServesSDA ==
  ASSUME NEW now, TargetFields \subseteq DOMAIN now, NEW byte, NEW r, r = Serves(now, byte)
  PROVE  \E low \in BOOLEAN : Moved(r, now, low)
<1>1. PICK m : m = [now EXCEPT !.offer = byte]
  OBVIOUS
<1>2. PICK low \in BOOLEAN : low = ((byte \div 2 ^ (7 - m.phase)) % 2 = 0)
  OBVIOUS
<1>3. /\ TargetFields \subseteq DOMAIN m /\ m.oe = now.oe /\ m.scl = now.scl
      /\ m.left = now.left /\ m.late = now.late /\ m.started = now.started
      /\ m.rival = now.rival /\ m.phase = now.phase /\ m.direction = now.direction
  BY <1>1 DEF TargetFields
<1>4. r = Drives(m, low)
  BY <1>1, <1>2 DEF Serves
<1>5. Moved(r, m, low)
  BY ONLY <1>3, <1>4, DrivesSDA
<1> QED
  BY ONLY <1>3, <1>5, low \in BOOLEAN DEF Moved

LEMMA TargetClock ==
  ASSUME Wired, Observes(out_enable' \cap {SCL, SDA}), out_value' = {}, job' = job,
         Stretches \subseteq Nat, Rivals \subseteq BOOLEAN, job.limit \in Nat,
         target.phase \in 0 .. 9
  PROVE  /\ Wired' /\ target'.phase \in 0 .. 9
         /\ \E left \in Nat : Stretching(left)
         /\ Begins \/ Ends \/ Rises \/ Falls \/ Rests
<1> DEFINE oe == out_enable' \cap {SCL, SDA}
           sda == SDA \notin oe /\ ~target.low /\ ~(target.rival /\ target.started)
           scl(left) == SCL \notin oe /\ left = 0
           now(left) == [target EXCEPT !.oe = oe, !.scl = scl(left), !.sda = sda,
                           !.left = IF left = 0 THEN 0 ELSE left - 1,
                           !.late = @ \/ left > job.limit]
<1>1. PICK left \in Nat :
        /\ left = target.left \/ (SCL \in target.oe /\ SCL \notin oe /\ running')
        /\ \/ SeesStart(now(left)) \/ SeesStop(now(left)) \/ SeesRise(now(left))
           \/ SeesFall(now(left))
           \/ /\ sda = target.sda \/ ~(scl(left) /\ target.scl)
              /\ scl(left) = target.scl \/ ~target.started
              /\ target' = now(left) /\ told' = told
  BY DEF Observes, Wired, Tolerated
<1>2. PICK n : n = now(left)
  OBVIOUS
<1>3. /\ TargetFields \subseteq DOMAIN n
      /\ n.oe = oe /\ (n.scl <=> scl(left)) /\ n.scl \in BOOLEAN
      /\ (n.sda <=> sda) /\ n.sda \in BOOLEAN
      /\ n.left = (IF left = 0 THEN 0 ELSE left - 1)
      /\ (n.late <=> target.late \/ left > job.limit) /\ n.late \in BOOLEAN
      /\ n.low = target.low /\ n.started = target.started /\ n.rival = target.rival
      /\ n.phase = target.phase /\ n.bits = target.bits /\ n.direction = target.direction
  BY <1>2 DEF Wired, TargetFields
<1>0. /\ TargetFields \subseteq DOMAIN n /\ ToldFields \subseteq DOMAIN told /\ n.oe = oe
      /\ n.scl \in BOOLEAN /\ n.sda \in BOOLEAN /\ n.late \in BOOLEAN
      /\ n.low \in BOOLEAN /\ n.started \in BOOLEAN /\ n.rival \in BOOLEAN
      /\ n.low = target.low /\ n.started = target.started /\ n.rival = target.rival
      /\ n.phase = target.phase /\ n.bits = target.bits /\ n.direction = target.direction
      /\ n.sda <=> SDA \notin oe /\ ~n.low /\ ~(n.rival /\ n.started)
  <2>1. n.low \in BOOLEAN /\ n.started \in BOOLEAN /\ n.rival \in BOOLEAN
    BY <1>3 DEF Wired
  <2> QED
    BY <1>3, <2>1 DEF Wired
<1>4. \/ SeesStart(n) \/ SeesStop(n) \/ SeesRise(n) \/ SeesFall(n)
      \/ /\ n.sda = target.sda \/ ~(n.scl /\ target.scl)
         /\ n.scl = target.scl \/ ~target.started
         /\ target' = n /\ told' = told
  BY <1>1, <1>2, <1>3, Zenon DEF Wired
<1> DEFINE Goal == /\ TargetFields \subseteq DOMAIN target' /\ ToldFields \subseteq DOMAIN told'
                   /\ target'.oe = oe /\ target'.scl = n.scl /\ target'.left = n.left
                   /\ target'.late = n.late /\ target'.phase \in 0 .. 9
                   /\ target'.low \in BOOLEAN /\ target'.started \in BOOLEAN
                   /\ target'.rival \in BOOLEAN /\ target'.sda \in BOOLEAN
                   /\ target'.sda <=> SDA \notin oe /\ ~target'.low /\ ~(target'.rival /\ target'.started)
                   /\ Begins \/ Ends \/ Rises \/ Falls \/ Rests
<1>5. SUFFICES Goal
  <2> HIDE DEF now, sda
  <2>1. Stretching(left)
    BY <1>1, <1>3, <1>5 DEF Stretching
  <2>2. target'.left \in Nat /\ (target'.left > job.limit => target'.late)
    BY <1>3, <1>5
  <2>3. target'.scl => SCL \notin target'.oe /\ target'.left = 0
    BY <1>3, <1>5
  <2>4. Wired'
    BY <1>3, <1>5, <2>2, <2>3 DEF Wired
  <2> QED
    BY <1>5, <2>1, <2>4
<1> HIDE DEF oe, sda, scl, now
<1>6. CASE SeesStart(n)
  <2>1. /\ target.sda /\ ~n.sda /\ target.scl /\ n.scl
        /\ told' \in {[told EXCEPT !.repeated = @ + 1], [told EXCEPT !.starts = @ + 1]}
    BY <1>6 DEF SeesStart
  <2>2. PICK rival \in Rivals :
          target' = [n EXCEPT !.started = TRUE, !.rival = rival, !.low = FALSE,
                       !.phase = 0, !.bits = 0, !.direction = "address"]
    BY <1>6 DEF SeesStart
  <2>3. SDA \in oe
    BY <1>0, <2>1 DEF Wired
  <2>4. ToldFields \subseteq DOMAIN told' /\ told'.nacked = told.nacked
    BY <2>1 DEF Wired, ToldFields
  <2>5. /\ target'.oe = n.oe /\ target'.scl = n.scl /\ target'.left = n.left
        /\ target'.late = n.late /\ target'.phase = 0 /\ target'.low = FALSE
        /\ target'.started = TRUE /\ target'.rival = rival /\ target'.sda = n.sda
        /\ target'.direction = "address" /\ DOMAIN target' = DOMAIN n
    BY <1>3, <2>2 DEF TargetFields
  <2>6. Begins
    BY <1>0, <2>1, <2>3, <2>4, <2>5 DEF Begins
  <2>7. rival \in BOOLEAN /\ TRUE \in BOOLEAN /\ FALSE \in BOOLEAN
    OBVIOUS
  <2>8. target'.sda <=> SDA \notin oe /\ ~target'.low /\ ~(target'.rival /\ target'.started)
    BY <2>1, <2>3, <2>5
  <2>9. /\ target'.low \in BOOLEAN /\ target'.started \in BOOLEAN
        /\ target'.rival \in BOOLEAN /\ target'.sda \in BOOLEAN /\ target'.phase \in 0 .. 9
    <3>1. target'.phase \in 0 .. 9
      BY <2>5
    <3>2. target'.sda \in BOOLEAN /\ target'.rival \in BOOLEAN
      BY <1>0, <2>5, <2>7
    <3> QED
      BY ONLY <2>5, <2>7, <3>1, <3>2, Zenon
  <2>10. /\ TargetFields \subseteq DOMAIN target' /\ target'.oe = oe
         /\ target'.scl = n.scl /\ target'.left = n.left /\ target'.late = n.late
    BY <1>0, <2>5
  <2> QED
    BY ONLY <2>4, <2>6, <2>8, <2>9, <2>10
<1>7. CASE SeesStop(n)
  <2>1. /\ ~target.sda /\ n.sda /\ target.scl /\ n.scl
        /\ told' = [told EXCEPT !.stops = @ + 1]
        /\ target' = [n EXCEPT !.started = FALSE, !.low = FALSE]
    BY <1>7 DEF SeesStop
  <2>2. SDA \in target.oe /\ SDA \notin oe
    BY <1>0, <2>1 DEF Wired
  <2>3. ToldFields \subseteq DOMAIN told' /\ told'.nacked = told.nacked
    BY <2>1 DEF Wired, ToldFields
  <2>4. /\ target'.oe = n.oe /\ target'.scl = n.scl /\ target'.left = n.left
        /\ target'.late = n.late /\ target'.phase = n.phase /\ target'.low = FALSE
        /\ target'.started = FALSE /\ target'.rival = n.rival /\ target'.sda = n.sda
        /\ DOMAIN target' = DOMAIN n
    BY <1>3, <2>1 DEF TargetFields
  <2>5. Ends
    BY <1>0, <2>1, <2>2, <2>3, <2>4 DEF Ends
  <2> QED
    BY <1>0, <2>1, <2>2, <2>3, <2>4, <2>5
<1>8. CASE SeesRise(n)
  <2>1. /\ target.started /\ ~target.scl /\ n.scl
    BY <1>8 DEF SeesRise
  <2>3. /\ ToldFields \subseteq DOMAIN told' /\ SameCounts /\ told'.nacked = told.nacked
    <3>1. told' = told \/ told' = [told EXCEPT !.acks = Append(@, ~n.sda)]
      BY <1>8 DEF SeesRise
    <3> QED
      BY <3>1 DEF Wired, ToldFields, SameCounts
  <2>4. CASE target.phase < 8
    <3>1. target' = [n EXCEPT !.phase = @ + 1,
                       !.bits = IF n.direction = "read" THEN @ ELSE (2 * @ + Bit(n.sda)) % 256]
      BY <1>8, <2>4 DEF SeesRise
    <3> DEFINE bits == IF n.direction = "read" THEN n.bits ELSE (2 * n.bits + Bit(n.sda)) % 256
    <3>2. /\ TargetFields \subseteq DOMAIN target'
          /\ target'.oe = n.oe /\ target'.scl = n.scl /\ target'.left = n.left
          /\ target'.late = n.late /\ target'.phase = n.phase + 1 /\ target'.low = n.low
          /\ target'.started = n.started /\ target'.rival = n.rival /\ target'.sda = n.sda
          /\ target'.bits = bits /\ target'.direction = n.direction
      BY <1>3, <3>1 DEF TargetFields
    <3> HIDE DEF bits
    <3>3. Rises
      BY <1>0, <2>1, <2>3, <2>4, <3>2 DEF Rises, Goes, bits
    <3> QED
      BY <1>0, <2>3, <2>4, <3>2, <3>3
  <2>5. CASE ~(target.phase < 8)
    <3>1. PICK direction : /\ target' = [n EXCEPT !.phase = 9, !.direction = direction]
                           /\ n.direction # "read" => direction = n.direction
      <4>1. CASE target.direction = "read"
        BY <1>3, <1>8, <2>5, <4>1 DEF SeesRise
      <4>2. CASE target.direction # "read"
        <5>1. target' = [n EXCEPT !.phase = 9]
          BY <1>8, <2>5, <4>2 DEF SeesRise
        <5> QED
          BY <1>3, <5>1 DEF TargetFields
      <4> QED
        BY <4>1, <4>2
    <3>2. /\ TargetFields \subseteq DOMAIN target'
          /\ target'.oe = n.oe /\ target'.scl = n.scl /\ target'.left = n.left
          /\ target'.late = n.late /\ target'.phase = 9 /\ target'.low = n.low
          /\ target'.started = n.started /\ target'.rival = n.rival /\ target'.sda = n.sda
          /\ target'.direction = direction
      BY <1>3, <3>1 DEF TargetFields
    <3>3. Rises
      BY <1>0, <2>1, <2>3, <2>5, <3>1, <3>2 DEF Rises, Goes
    <3> QED
      BY <1>0, <2>3, <3>2, <3>3
  <2> QED
    BY <2>4, <2>5
<1>9. CASE SeesFall(n)
  <2>1. target.started /\ target.scl /\ ~n.scl
    BY <1>9 DEF SeesFall
  <2> DEFINE Kept == ToldFields \subseteq DOMAIN told' /\ SameCounts
             Same(m) == /\ TargetFields \subseteq DOMAIN m /\ m.oe = n.oe /\ m.scl = n.scl
                        /\ m.left = n.left /\ m.late = n.late /\ m.started = n.started
                        /\ m.rival = n.rival
  <2>2. ASSUME NEW m, NEW low, low \in BOOLEAN, Same(m), m.phase \in 0 .. 9,
               Moved(target', m, low), Kept, Falls
        PROVE  Goal
    <3>1. /\ target'.sda <=> SDA \notin oe /\ ~target'.low /\ ~(target'.rival /\ target'.started)
          /\ target'.sda \in BOOLEAN
      BY <1>0, <2>1, <2>2 DEF Moved
    <3>2. /\ TargetFields \subseteq DOMAIN target' /\ target'.oe = oe /\ target'.scl = n.scl
          /\ target'.left = n.left /\ target'.late = n.late /\ target'.phase = m.phase
      BY <1>0, <2>2 DEF Moved
    <3>3. target'.low = low /\ target'.started = n.started /\ target'.rival = n.rival
      BY <2>2 DEF Moved
    <3>4. target'.low \in BOOLEAN /\ target'.started \in BOOLEAN /\ target'.rival \in BOOLEAN
      BY ONLY <1>0, <2>2, <3>3, Zenon
    <3> QED
      BY ONLY <2>2, <3>1, <3>2, <3>4
  <2>3. ASSUME told' = told PROVE Kept /\ told'.nacked = told.nacked
    BY <1>0, <2>3 DEF SameCounts
  <2>4. Same(n) /\ n.phase \in 0 .. 9
    BY <1>0
  <2> HIDE DEF Kept, Same, Goal
  <2>5. CASE target.phase = 8 /\ n.direction \in {"address", "write"} /\ Answers(n)
    <3>1. PICK ack \in BOOLEAN :
            /\ target' = Drives([n EXCEPT !.bits = 0,
                           !.direction = IF @ = "write" THEN @ ELSE IF ~ack THEN "none"
                                         ELSE IF target.bits % 2 = 1 THEN "addressed" ELSE "write"],
                        ack)
            /\ told' = [told EXCEPT !.heard = Append(@, target.bits), !.nacked = @ \/ ~ack]
      BY <2>5 DEF Answers
    <3> DEFINE then == IF n.direction = "write" THEN "write" ELSE IF ~ack THEN "none"
                       ELSE IF target.bits % 2 = 1 THEN "addressed" ELSE "write"
    <3>2. PICK m : m = [n EXCEPT !.bits = 0, !.direction = then]
      OBVIOUS
    <3>3. target' = Drives(m, ack)
      BY <1>0, <3>1, <3>2 DEF TargetFields
    <3>4. Same(m) /\ m.phase = n.phase /\ m.direction = then
      BY <1>0, <3>2 DEF TargetFields, Same
    <3>5. Kept /\ (told'.nacked <=> told.nacked \/ ~ack)
      BY <1>0, <3>1 DEF ToldFields, SameCounts, Kept
    <3>6. Moved(target', m, ack)
      BY <3>3, <3>4, DrivesSDA DEF Same
    <3>7. Answered
      BY <1>0, <3>4, <3>5, <3>6 DEF Answered, Moved
    <3>8. Falls
      BY <1>0, <2>1, <2>5, <3>4, <3>5, <3>6, <3>7 DEF Falls, Goes, Moved, Same, Kept
    <3>9. m.phase \in 0 .. 9
      BY <2>4, <3>4
    <3> QED
      BY ONLY <2>2, <3>4, <3>5, <3>6, <3>8, <3>9
  <2>6. CASE /\ target.phase = 8 /\ n.direction \notin {"address", "write"}
             /\ target' = Drives(n, FALSE)
             /\ told' \in {told, [told EXCEPT !.served = Append(@, n.offer)]}
    <3>1. /\ target' = Drives(n, FALSE)
          /\ told' = told \/ told' = [told EXCEPT !.served = Append(@, n.offer)]
      BY <2>6
    <3>2. Moved(target', n, FALSE)
      BY <1>0, <3>1, DrivesSDA
    <3>3. Kept /\ told'.nacked = told.nacked
      BY <1>0, <3>1 DEF ToldFields, SameCounts, Kept
    <3>4. /\ target.phase = 8 /\ target.phase # 9 /\ ~(target.phase < 8)
          /\ target.direction \notin {"address", "write"}
      BY <1>0, <2>6
    <3>5. /\ SameCounts /\ target'.scl = n.scl /\ target'.started = target.started
          /\ target'.rival = target.rival /\ target'.phase = 8
          /\ told'.nacked = told.nacked
      BY <1>0, <2>6, <3>2, <3>3 DEF Moved, Kept
    <3>6. Falls
      BY ONLY <2>1, <3>4, <3>5 DEF Falls, Goes
    <3> QED
      BY ONLY <2>2, <2>4, <3>2, <3>3, <3>6, FALSE \in BOOLEAN
  <2>7. CASE /\ target.phase = 9 /\ told' = told
             /\ IF n.direction \in {"addressed", "read"}
                THEN \E byte : target' = Serves([n EXCEPT !.phase = 0, !.direction = "read"], byte)
                ELSE target' = Drives([n EXCEPT !.phase = 0], FALSE)
    <3>1. told' = told
      BY <2>7
    <3>2. CASE n.direction \in {"addressed", "read"}
      <4>1. PICK byte : target' = Serves([n EXCEPT !.phase = 0, !.direction = "read"], byte)
        BY ONLY <2>7, <3>2
      <4>2. PICK m : m = [n EXCEPT !.phase = 0, !.direction = "read"]
        OBVIOUS
      <4>3. Same(m) /\ m.phase = 0 /\ m.direction = "read"
        BY <1>0, <4>2 DEF TargetFields, Same
      <4>4. PICK low \in BOOLEAN : Moved(target', m, low)
        BY <4>1, <4>2, <4>3, ServesSDA DEF Same
      <4>5. Falls
        BY <1>0, <2>1, <2>3, <2>7, <3>1, <3>2, <4>3, <4>4 DEF Falls, Goes, Moved, Same, Kept
      <4>6. m.phase \in 0 .. 9 /\ Kept
        BY <2>3, <3>1, <4>3
      <4> QED
        BY ONLY <2>2, <4>3, <4>4, <4>5, <4>6
    <3>3. CASE n.direction \notin {"addressed", "read"}
      <4>1. target' = Drives([n EXCEPT !.phase = 0], FALSE)
        BY ONLY <2>7, <3>3
      <4>2. PICK m : m = [n EXCEPT !.phase = 0]
        OBVIOUS
      <4>3. Same(m) /\ m.phase = 0 /\ m.direction = n.direction
        BY <1>0, <4>2 DEF TargetFields, Same
      <4>4. Moved(target', m, FALSE)
        BY <4>1, <4>2, <4>3, DrivesSDA DEF Same
      <4>5. Falls
        BY <1>0, <2>1, <2>3, <2>7, <3>1, <4>3, <4>4 DEF Falls, Goes, Moved, Same, Kept
      <4>6. m.phase \in 0 .. 9 /\ Kept
        BY <2>3, <3>1, <4>3
      <4> QED
        BY ONLY <2>2, <4>3, <4>4, <4>5, <4>6, FALSE \in BOOLEAN
    <3> QED
      BY <3>2, <3>3
  <2>8. CASE /\ target.phase < 8 /\ told' = told
             /\ target' = IF n.direction = "read" THEN Serves(n, n.offer) ELSE Drives(n, FALSE)
    <3>1. told' = told /\ target' = IF n.direction = "read" THEN Serves(n, n.offer) ELSE Drives(n, FALSE)
      BY <2>8
    <3>2. PICK low \in BOOLEAN : Moved(target', n, low) /\ (n.direction # "read" => ~low)
      <4>1. CASE n.direction = "read"
        BY <1>0, <3>1, <4>1, ServesSDA
      <4>2. CASE n.direction # "read"
        <5>1. Moved(target', n, FALSE)
          BY <1>0, <3>1, <4>2, DrivesSDA
        <5> QED
          BY ONLY <5>1, <4>2, FALSE \in BOOLEAN, Zenon
      <4> QED
        BY ONLY <4>1, <4>2
    <3>3. target.phase # 8 /\ target.phase # 9 /\ target.phase < 8
      BY <2>8
    <3>4. /\ SameCounts /\ target'.scl = n.scl /\ target'.started = target.started
          /\ target'.rival = target.rival /\ target'.phase = target.phase
          /\ target'.direction = target.direction /\ told'.nacked = told.nacked
      BY <1>0, <2>3, <3>1, <3>2 DEF Moved, Kept
    <3>5. target.direction \in {"address", "write"} => ~target'.low
      <4>1. target.direction \in {"address", "write"} => target.direction # "read"
        OBVIOUS
      <4> QED
        BY ONLY <1>0, <3>2, <4>1 DEF Moved
    <3>6. Falls
      BY ONLY <2>1, <3>3, <3>4, <3>5, Zenon DEF Falls, Goes
    <3> QED
      BY ONLY <2>2, <2>3, <2>4, <3>1, <3>2, <3>6
  <2> QED
    BY <1>9, <2>5, <2>6, <2>7, <2>8 DEF SeesFall
<1>10. CASE /\ n.sda = target.sda \/ ~(n.scl /\ target.scl)
            /\ n.scl = target.scl \/ ~target.started
            /\ target' = n /\ told' = told
  <2>1. ToldFields \subseteq DOMAIN told' /\ SameCounts /\ told'.nacked = told.nacked
    BY <1>10 DEF Wired, SameCounts
  <2>2. Rests
    BY <1>3, <1>10, <2>1 DEF Rests, Goes
  <2> QED
    BY <1>0, <1>10, <2>1, <2>2
<1> QED
  BY <1>4, <1>6, <1>7, <1>8, <1>9, <1>10

(***************************************************************************)
(* The lines between two clocks.  The clock is held low in phase f, let go *)
(* on its way up from phase f, or high in phase f; before the run both     *)
(* lines are idle, and after a STOP the clock is high.                     *)
(***************************************************************************)
LineClock ==
  /\ Wired /\ Wired' /\ target.phase \in 0 .. 9 /\ target'.phase \in 0 .. 9
  /\ \E left \in Nat : Stretching(left)
  /\ Begins \/ Ends \/ Rises \/ Falls \/ Rests
  /\ input_meta'.lanes = BusLanes /\ input_sync' = input_meta
  /\ job' = job /\ job.limit \in Nat \ {0}

SDAStays == SDA \in target'.oe <=> SDA \in target.oe

\* Clocks until the executor sees SCL high.
Due == IF SCL \in input_sync.lanes THEN 0 ELSE IF SCL \in input_meta.lanes THEN 1
       ELSE IF target.scl THEN 2 ELSE target.left + 3

Held(f) == /\ target.started /\ SCL \in target.oe /\ target.left = 0 /\ target.phase = f
           /\ ~target.late /\ (SCL \in input_meta.lanes => delay_left > 0)
Freed(f) == /\ target.started /\ SCL \notin target.oe
            /\ target.phase = IF target.scl THEN f + 1 ELSE f
            /\ SCL \in input_sync.lanes => SCL \in input_meta.lanes
            /\ SCL \in input_meta.lanes => target.scl
            /\ wait_elapsed \in 0 .. job.limit - 1 /\ delay_left \in Nat
            /\ delay_left > 0 => wait_elapsed = 0
            /\ target.late <=> wait_elapsed + Due >= job.limit + delay_left
High(f) == /\ target.started /\ SCL \notin target.oe /\ target.scl /\ target.phase = f
           /\ ~target.late
Idle == /\ ~target.started /\ target.oe = {} /\ target.scl /\ target.sda /\ target.phase = 0
        /\ ~target.late
Done == SCL \notin target.oe /\ target.scl /\ ~target.late

LEMMA NoStretch ==
  ASSUME LineClock, ~(SCL \in target.oe /\ SCL \notin target'.oe /\ running')
  PROVE  /\ target'.scl <=> SCL \notin target'.oe /\ target.left = 0
         /\ target'.left = IF target.left = 0 THEN 0 ELSE target.left - 1
         /\ target'.late <=> target.late
BY DEF LineClock, Stretching, Wired

LEMMA HeldStays ==
  ASSUME LineClock, NEW f, Held(f), SCL \in target'.oe
  PROVE  Held(f)' /\ SameCounts
<1>1. ~target.scl /\ ~target'.scl
  BY DEF LineClock, Wired, Held
<1>2. Rests /\ target.started
  BY <1>1 DEF LineClock, Begins, Ends, Rises, Falls, Held
<1>3. target'.left = 0 /\ ~target'.late
  BY NoStretch DEF Held
<1>4. SCL \notin input_meta'.lanes
  BY <1>1 DEF LineClock, BusLanes, SCL, SDA
<1> QED
  BY <1>2, <1>3, <1>4 DEF Held, Rests, Goes

LEMMA HeldFreed ==
  ASSUME LineClock, NEW f \in 0 .. 8, Held(f), SCL \notin target'.oe, running', delay_left = 0,
         delay_left' = 3, wait_elapsed' = 0
  PROVE  Freed(f)' /\ SameCounts
<1>1. ~target.scl /\ SCL \notin input_meta.lanes
  BY DEF LineClock, Wired, Held
<1>2. PICK left \in Nat : Stretching(left)
  BY DEF LineClock
<1>3. SCL \notin input_meta'.lanes /\ SCL \notin input_sync'.lanes
  BY <1>1 DEF LineClock, BusLanes, SCL, SDA
<1>4. (Rises \/ Rests) /\ SameCounts /\ target'.started
  BY <1>1 DEF LineClock, Begins, Ends, Rises, Falls, Rests, Held, Goes
<1>5. target'.phase = IF target'.scl THEN f + 1 ELSE f
  <2>1. CASE Rises
    BY <2>1 DEF Rises, Held, LineClock
  <2>2. CASE Rests
    BY <1>1, <2>2 DEF Rests, Held
  <2> QED
    BY <1>4, <2>1, <2>2
<1>6. (target'.late <=> Due' >= job.limit + 3) /\ Due' \in Nat
  BY <1>2, <1>3 DEF Due, Stretching, Held, LineClock
<1> QED
  BY <1>3, <1>4, <1>5, <1>6 DEF Freed, LineClock

\* On its way up the clock comes one step nearer, and nothing else changes.
LEMMA FreedComes ==
  ASSUME LineClock, NEW f \in 0 .. 8, Freed(f), SCL \notin target'.oe, SDAStays
  PROVE  /\ target'.started /\ SameCounts
         /\ target'.phase = IF target'.scl THEN f + 1 ELSE f
         /\ SCL \in input_sync'.lanes => SCL \in input_meta'.lanes
         /\ SCL \in input_meta'.lanes => target'.scl
         /\ target'.late <=> target.late
         /\ Due \in Nat /\ Due' = IF Due = 0 THEN 0 ELSE Due - 1
<1>1. /\ target'.scl <=> target.left = 0
      /\ target'.left = IF target.left = 0 THEN 0 ELSE target.left - 1
      /\ target'.late <=> target.late
  BY NoStretch DEF Freed
<1>2. target.scl => target.left = 0
  BY DEF LineClock, Wired
<1>3. (SCL \in input_meta'.lanes <=> target.scl) /\ input_sync'.lanes = input_meta.lanes
  BY DEF LineClock, BusLanes, SCL, SDA
<1>4. (Rises \/ Rests) /\ SameCounts /\ target'.started
  BY <1>1, <1>2 DEF LineClock, Begins, Ends, Rises, Falls, Rests, Freed, Goes, SDAStays, Wired
<1>5. target'.phase = IF target'.scl THEN f + 1 ELSE f
  <2>1. CASE Rises
    BY <1>1, <2>1 DEF Rises, Freed, LineClock
  <2>2. CASE Rests
    BY <1>1, <1>4, <2>2 DEF Rests, Freed
  <2> QED
    BY <1>4, <2>1, <2>2
<1>6. Due \in Nat /\ Due' = IF Due = 0 THEN 0 ELSE Due - 1
  <2>1. target.left \in Nat
    BY DEF LineClock, Wired
  <2>2. (SCL \in input_sync.lanes => SCL \in input_meta.lanes) /\ (SCL \in input_meta.lanes => target.scl)
    BY DEF Freed
  <2> QED
    BY <1>1, <1>2, <1>3, <2>1, <2>2 DEF Due
<1>7. /\ SCL \in input_sync'.lanes => SCL \in input_meta'.lanes
      /\ SCL \in input_meta'.lanes => target'.scl
  BY <1>1, <1>2, <1>3 DEF Freed
<1> QED
  BY <1>1, <1>4, <1>5, <1>6, <1>7

LEMMA FreedDelays ==
  ASSUME LineClock, NEW f \in 0 .. 8, Freed(f), SCL \notin target'.oe, SDAStays,
         delay_left # 0, delay_left' = delay_left - 1, wait_elapsed' = wait_elapsed
  PROVE  Freed(f)' /\ SameCounts
<1> job.limit \in Nat \ {0} /\ job' = job
  BY DEF LineClock
<1>1. wait_elapsed = 0 /\ delay_left \in Nat
  BY DEF Freed
<1>2. Due \in Nat /\ Due' = IF Due = 0 THEN 0 ELSE Due - 1
  BY FreedComes
<1>3. target'.late <=> Due' >= job.limit + delay_left'
  BY <1>1, <1>2, FreedComes DEF Freed
<1> QED
  BY <1>1, <1>2, <1>3, FreedComes DEF Freed

\* A wait for SCL: it is seen, it is missed, or the limit is reached.
LEMMA FreedWaits ==
  ASSUME LineClock, NEW f \in 0 .. 8, Freed(f), SCL \notin target'.oe, SDAStays,
         SCL \notin input_sync.lanes, delay_left = 0, delay_left' = 0,
         wait_elapsed # job.limit - 1, wait_elapsed' = wait_elapsed + 1
  PROVE  Freed(f)' /\ SameCounts
<1> job.limit \in Nat \ {0} /\ job' = job
  BY DEF LineClock
<1>1. wait_elapsed' \in 0 .. job.limit - 1 /\ wait_elapsed \in Nat
  BY DEF Freed
<1>2. Due # 0 /\ Due \in Nat /\ Due' = Due - 1
  BY FreedComes DEF Due, LineClock, Wired
<1>3. target'.late <=> wait_elapsed' + Due' >= job.limit + delay_left'
  BY <1>1, <1>2, FreedComes DEF Freed
<1> QED
  BY <1>1, <1>2, <1>3, FreedComes DEF Freed

LEMMA FreedSeen ==
  ASSUME LineClock, NEW f \in 0 .. 8, Freed(f), SCL \notin target'.oe, SDAStays,
         SCL \in input_sync.lanes, delay_left = 0
  PROVE  High(f + 1)' /\ SameCounts
<1> job.limit \in Nat \ {0} /\ job' = job
  BY DEF LineClock
<1>1. Due = 0 /\ target.scl /\ wait_elapsed \in 0 .. job.limit - 1
  BY DEF Due, Freed
<1>2. ~target.late
  BY <1>1 DEF Freed
<1>3. target'.scl
  BY <1>1, NoStretch DEF Freed, LineClock, Wired
<1> QED
  BY <1>2, <1>3, FreedComes DEF High

LEMMA FreedLate ==
  ASSUME LineClock, NEW f, Freed(f), SCL \notin input_sync.lanes, delay_left = 0,
         wait_elapsed = job.limit - 1
  PROVE  target.late
BY DEF Due, Freed, LineClock, Wired

LEMMA HighStays ==
  ASSUME LineClock, NEW f, High(f), SCL \notin target'.oe, SDAStays
  PROVE  High(f)' /\ SameCounts
<1>1. target.left = 0 /\ target'.scl /\ ~target'.late
  BY NoStretch DEF High, LineClock, Wired
<1>2. Rests
  BY <1>1 DEF LineClock, Begins, Ends, Rises, Falls, High, SDAStays, Wired
<1> QED
  BY <1>1, <1>2 DEF High, Rests, Goes

LEMMA HighFalls ==
  ASSUME LineClock, NEW f \in 0 .. 9, High(f), SCL \in target'.oe, delay_left' > 0
  PROVE  Held(IF f = 9 THEN 0 ELSE f)' /\ SameCounts
<1>1. target.left = 0 /\ ~target'.scl /\ ~target'.late /\ target'.left = 0
  BY NoStretch DEF High, LineClock, Wired
<1>2. Falls
  BY <1>1 DEF LineClock, Begins, Ends, Rises, Rests, High
<1>3. target'.phase = IF f = 9 THEN 0 ELSE f
  BY <1>2 DEF Falls, High
<1> QED
  BY <1>1, <1>2, <1>3 DEF Held, Falls, Goes

LEMMA HighStarts ==
  ASSUME LineClock, NEW f, High(f) \/ Idle, target.sda, SCL \notin target'.oe,
         SDA \in target'.oe
  PROVE  High(0)'
<1>1. target.scl /\ ~target.late /\ SCL \notin target.oe
  BY DEF High, Idle
<1>2. target.left = 0 /\ target'.scl /\ ~target'.late
  BY <1>1, NoStretch DEF LineClock, Wired
<1>3. Begins
  BY <1>1, <1>2 DEF LineClock, Begins, Ends, Rises, Falls, Rests, Wired
<1> QED
  BY <1>2, <1>3 DEF High, Begins

LEMMA DoneStays ==
  ASSUME LineClock, NEW f, High(f) \/ Done, SCL \notin target'.oe
  PROVE  Done' /\ (SDAStays => SameCounts)
<1>1. target.scl /\ ~target.late /\ SCL \notin target.oe
  BY DEF High, Done
<1>2. target.left = 0 /\ target'.scl /\ ~target'.late
  BY <1>1, NoStretch DEF LineClock, Wired
<1>3. SDAStays => SameCounts
  BY <1>1, <1>2 DEF LineClock, Begins, Ends, Rises, Falls, Rests, Goes, SDAStays, Wired
<1> QED
  BY <1>2, <1>3 DEF Done

LEMMA IdleStays ==
  ASSUME LineClock, Idle, target'.oe = {}
  PROVE  Idle' /\ SameCounts
<1>1. target.left = 0 /\ target'.scl /\ ~target'.late
  BY NoStretch DEF Idle, LineClock, Wired
<1>2. Rests
  BY <1>1 DEF LineClock, Begins, Ends, Rises, Falls, Idle, Wired
<1>3. target'.sda
  BY <1>1, <1>2 DEF Rests, Idle
<1> QED
  BY <1>1, <1>2, <1>3 DEF Idle, Rests, Goes

(***************************************************************************)
(* What a word of these programs does on its clock, unless it is rejected. *)
(***************************************************************************)
I2COps == {"DRIVE", "PATCH", "WAIT", "OUT", "IN", "DJNZ", "LOAD", "STREAM", "PULL", "PUSH",
           "BYTE_LOOP", "LAST_BYTE", "BRANCH", "CHECK_TX", "SAMPLE", "JUMP", "HALT", "TRAP"}

ActsOnPins(w) ==
  /\ w.op \notin {"DRIVE", "PATCH", "OUT"} => UNCHANGED <<out_value, out_enable>>
  /\ w.op = "DRIVE" => out_value' = w.value /\ out_enable' = w.oe
  /\ w.op = "PATCH" => /\ out_value' = (out_value \ w.mask) \cup (w.value \cap w.mask)
                       /\ out_enable' = (out_enable \ w.mask) \cup (w.oe \cap w.mask)
  /\ w.op = "OUT" /\ w.drain =>
       /\ out_value' = out_value \ {w.lane}
       /\ out_enable' = IF last_tx_bit' = 1 THEN out_enable \ {w.lane} ELSE out_enable \cup {w.lane}
ActsOnShift(w) ==
  /\ w.op \notin {"LOAD", "OUT", "PULL"} => tx_shift' = tx_shift
  /\ w.op # "OUT" => last_tx_bit' = last_tx_bit
  /\ w.op = "OUT" => /\ last_tx_bit' = Leaving(tx_shift, w.lsb)
                     /\ tx_shift' = Shifted(tx_shift, w.lsb, 0)
  /\ w.op = "LOAD" => tx_shift' = w.byte
  /\ w.op = "PULL" => tx_shift' = IF Empty(tx) THEN tx_shift ELSE Front(tx)
ActsOnCounts(w) ==
  /\ w.op \notin {"LOAD", "DJNZ", "PULL"} => loop_count' = loop_count
  /\ w.op = "LOAD" => loop_count' = w.count
  /\ w.op = "DJNZ" => loop_count' = loop_count - 1
  /\ w.op = "PULL" => loop_count' = IF Empty(tx) THEN loop_count ELSE 8
  /\ w.op \notin {"STREAM", "BYTE_LOOP"} => byte_count' = byte_count
  /\ w.op = "STREAM" => byte_count' = w.count
  /\ w.op = "BYTE_LOOP" => byte_count' = byte_count - 1
  /\ stream_enabled' = (stream_enabled \/ w.op = "STREAM")
ActsOnTime(w) ==
  /\ delay_left' = IF w.op \in {"DRIVE", "PATCH"} THEN w.hold ELSE 0
  /\ w.op # "WAIT" => wait_elapsed' = wait_elapsed
  /\ w.op = "WAIT" => wait_elapsed' = IF Sees(w) THEN 0 ELSE ElapsedAfterMiss
ActsOnPlace(w) ==
  /\ w.op \in {"DRIVE", "PATCH", "OUT", "IN", "LOAD", "STREAM", "CHECK_TX", "SAMPLE"} =>
       pc' = pc + 1
  /\ w.op = "WAIT" => pc' = IF Sees(w) THEN pc + 1 ELSE pc
  /\ w.op = "BRANCH" => pc' = IF Sees(w) THEN w.target ELSE pc + 1
  /\ w.op = "DJNZ" => pc' = IF loop_count = 1 THEN pc + 1 ELSE w.target
  /\ w.op = "BYTE_LOOP" => pc' = IF byte_count = 1 THEN pc + 1 ELSE w.target
  /\ w.op = "LAST_BYTE" => pc' = IF byte_count = 1 THEN w.target ELSE pc + 1
  /\ w.op = "PULL" => pc' = IF Empty(tx) THEN pc ELSE pc + 1
  /\ w.op = "PUSH" => pc' = IF Full(rx) THEN pc ELSE pc + 1
  /\ w.op = "JUMP" => pc' = w.target
Acts(w) == /\ ActsOnPins(w) /\ ActsOnShift(w) /\ ActsOnCounts(w) /\ ActsOnTime(w)
           /\ ActsOnPlace(w)

LEMMA WordClock ==
  ASSUME Steps, running, delay_left = 0, pc < length, instruction.op \in I2COps,
         pc \in Nat, length \in Nat, (pc + 1) % (2 * MemWords) = pc + 1,
         stream_enabled \in BOOLEAN
  PROVE  \/ /\ Rejected /\ ~running' /\ halted' /\ fault' /\ out_enable' = {}
            /\ out_value' = out_value
         \/ /\ instruction.op = "HALT" /\ ~running' /\ halted' /\ fault' = fault
            /\ out_enable' = {} /\ out_value' = out_value
         \/ /\ ~Rejected /\ instruction.op \notin {"HALT", "TRAP"}
            /\ UNCHANGED statusVars /\ Acts(instruction)
<1>1. issue
  BY StepsAreLate DEF issue, Executing
<1>2. CASE Reject
  BY <1>2 DEF Reject, FailClosed
<1>3. CASE Halt
  BY <1>3 DEF Halt, Runs, Is
<1>4. SUFFICES ASSUME ~Reject, ~Halt
               PROVE  ~Rejected /\ instruction.op \notin {"HALT", "TRAP"}
                      /\ UNCHANGED statusVars /\ Acts(instruction)
  BY <1>2, <1>3
<1>0. \/ Drive \/ Patch \/ Wait \/ Jump \/ Branch \/ Sample \/ Load \/ Out \/ In \/ Djnz
       \/ CheckTx \/ Stream \/ PullReady \/ PushReady \/ Stall \/ ByteLoop \/ LastByte
  <2>1. ~Delay /\ ~PastEnd /\ ~Halted
    BY DEF Delay, PastEnd, Halted
  <2>2. ~Capture
    BY DEF Capture, Runs, Is, I2COps
  <2> QED
    BY <1>4, <2>1, <2>2, Zenon DEF Steps
<1> USE DEF Runs, Is, Advance, Goto, pinVars, shiftVars, streamVars, Acts, ActsOnPins,
        ActsOnShift, ActsOnCounts, ActsOnTime, ActsOnPlace
<1>5. CASE Drive BY <1>5 DEF Drive, HoldClocks
<1>6. CASE Patch BY <1>6 DEF Patch, HoldClocks
<1>7. CASE Wait BY <1>7 DEF Wait
<1>8. CASE Jump BY <1>8 DEF Jump
<1>9. CASE Branch BY <1>9 DEF Branch
<1>10. CASE Sample BY <1>10 DEF Sample
<1>11. CASE Load BY <1>11 DEF Load
<1>12. CASE Out BY <1>12 DEF Out
<1>13. CASE In BY <1>13 DEF In
<1>14. CASE Djnz BY <1>14 DEF Djnz
<1>15. CASE CheckTx BY <1>15 DEF CheckTx
<1>16. CASE Stream BY <1>16 DEF Stream
<1>17. CASE PullReady BY <1>17 DEF PullReady
<1>18. CASE PushReady BY <1>18 DEF PushReady
<1>19. CASE Stall BY <1>19 DEF Stall
<1>20. CASE ByteLoop BY <1>20 DEF ByteLoop
<1>21. CASE LastByte BY <1>21 DEF LastByte
<1> QED
  BY ONLY <1>5, <1>6, <1>7, <1>8, <1>9, <1>10, <1>11, <1>12, <1>13, <1>14, <1>15, <1>16,
     <1>17, <1>18, <1>19, <1>20, <1>21, <1>0

(***************************************************************************)
(* The bench: the program is in the store, the host is silent until the    *)
(* engine runs, and RUN never falls again.                                 *)
(***************************************************************************)
OnBus == job \in Jobs /\ InStore(job.program)

LEMMA BusPins ==
  ASSUME BusClock
  PROVE  /\ job' = job /\ Next /\ RunPins /\ input_meta'.lanes = BusLanes
         /\ Observes(out_enable' \cap {SCL, SDA})
<1>1. PICK pins \in HostPins(BusLanes) : EngineClock(pins, HostByte)
  BY DEF BusClock, BenchClock
<1>2. input_meta' = pins /\ Next
  BY <1>1 DEF EngineClock
<1>3. pins.run /\ (~stream_enabled => ~pins.load /\ ~pins.rewind) /\ pins.lanes = BusLanes
  BY DEF HostPins, Pins, MaySend, MayPop
<1> QED
  BY <1>2, <1>3 DEF BusClock, BenchClock, RunPins

LEMMA BusStays ==
  ASSUME OnBus, BusClock
  PROVE  OnBus' /\ Synchronize
BY BusPins, ImageStays, ThreeClocks DEF OnBus

\* The clock of the lines that goes with a clock of the engine.
LEMMA Lines ==
  ASSUME OnBus, BusClock, Wired, target.phase \in 0 .. 9, out_value' = {}
  PROVE  LineClock
<1>1. Stretches \subseteq Nat /\ Rivals \subseteq BOOLEAN /\ job.limit \in Nat \ {0}
  <2>1. job \in Jobs
    BY DEF OnBus
  <2>2. job.limit \in 1 .. MaxHold
    BY ONLY <2>1, I2CAssumption
  <2>3. Stretches \subseteq Nat /\ Rivals \subseteq BOOLEAN
    BY ONLY I2CAssumption
  <2> QED
    BY ONLY <2>2, <2>3, HoldWidth
<1>2. job' = job /\ Observes(out_enable' \cap {SCL, SDA}) /\ input_meta'.lanes = BusLanes
  BY BusPins
<1>3. input_sync' = input_meta
  BY BusStays DEF Synchronize
<1>4. /\ Wired' /\ target'.phase \in 0 .. 9
      /\ \E left \in Nat : Stretching(left)
      /\ Begins \/ Ends \/ Rises \/ Falls \/ Rests
  BY <1>1, <1>2, TargetClock
<1> QED
  BY <1>1, <1>2, <1>3, <1>4 DEF LineClock

\* A clock of the run: the delay counts, or the word at this address acts.
Counting ==
  /\ UNCHANGED <<statusVars, pc, wait_elapsed, out_value, out_enable, shiftVars, streamVars>>
  /\ delay_left' = delay_left - 1
Faults == /\ ~running' /\ halted' /\ fault' /\ out_enable' = {} /\ out_value' = out_value
Halts  == /\ ~running' /\ halted' /\ fault' = fault /\ out_enable' = {} /\ out_value' = out_value

LEMMA RunClock ==
  ASSUME OnBus, BusClock, running, pc \in 0 .. Len(job.program) - 1, stream_enabled \in BOOLEAN,
         NEW w, w = job.program[pc + 1], w.op \in I2COps
  PROVE  /\ delay_left # 0 => Counting
         /\ delay_left = 0 =>
              /\ instruction = w
              /\ \/ Rejected /\ Faults
                 \/ w.op = "HALT" /\ Halts
                 \/ ~Rejected /\ w.op \notin {"HALT", "TRAP"} /\ UNCHANGED statusVars /\ Acts(w)
<1>1. run_prev /\ run /\ Steps
  BY BusPins, ThreeClocks DEF OnBus, InStore, RunOnly, Stopped, Start
<1>2. /\ instruction = w /\ pc < length /\ pc \in Nat /\ length \in Nat
      /\ (pc + 1) % (2 * MemWords) = pc + 1
  BY Fetch DEF OnBus
<1>3. delay_left # 0 => Counting
  BY <1>1, DelayClock DEF Delay, Counting, pinVars
<1>4. ASSUME delay_left = 0
      PROVE  \/ Rejected /\ Faults
             \/ w.op = "HALT" /\ Halts
             \/ ~Rejected /\ w.op \notin {"HALT", "TRAP"} /\ UNCHANGED statusVars /\ Acts(w)
  BY <1>1, <1>2, <1>4, WordClock DEF Faults, Halts
<1> QED
  BY <1>2, <1>3, <1>4

(***************************************************************************)
(* The labels of the programs: what the lines are about to do at a word.   *)
(***************************************************************************)
OutBits == {"out", "set", "send", "send_rising", "send_high", "sent"}
InBits == {"bit", "bit_rising", "bit_high", "bit_over"}
WholeBytes == {"pulled", "clear", "parting", "again", "again_rising", "again_waits",
               "again_high", "again_begun", "rejoined"}
HeldLabels == {"fresh", "open", "next", "pulled", "clear", "out", "set", "send", "sent", "let",
               "answer", "bit", "bit_over", "ninth", "between", "closing", "parting", "again",
               "rejoined", "failed"}
RisingLabels == {"send_rising", "answer_rising", "bit_rising", "ninth_rising", "stop_rising",
                 "again_rising", "failed_rising"}
HighLabels == {"begun", "send_high", "answer_high", "bit_high", "ninth_high", "stop_high",
               "again_waits", "again_high", "again_begun", "failed_high", "failed_stop"}
IdleLabels == {"idle", "idle_high"}
DoneLabels == {"done", "failed_done"}

Kind(l) == IF l \in HeldLabels THEN "held" ELSE IF l \in RisingLabels THEN "rising"
           ELSE IF l \in HighLabels THEN "high" ELSE IF l \in IdleLabels THEN "idle"
           ELSE IF l \in DoneLabels THEN "done" ELSE "none"

\* The phase of the target at a label, with c bits left.
Place(l, c) ==
  IF l \in {"out", "set", "send", "send_rising", "bit", "bit_rising"} THEN 8 - c
  ELSE IF l \in {"send_high", "sent", "bit_high", "bit_over"} THEN 9 - c
  ELSE IF l \in {"let", "answer", "answer_rising", "ninth", "ninth_rising"} THEN 8
  ELSE IF l \in {"answer_high", "ninth_high", "failed_high"} THEN 9
  ELSE IF l \in {"stop_high", "again_waits", "again_high", "failed_stop"} THEN 1
  ELSE 0
Counted(l, c) == /\ l \in OutBits \cup InBits => c \in 1 .. 8
                 /\ l \in WholeBytes => c = 8

\* A lane has settled in the synchronizer, or will have when the delay is over.
Settled(lane, level) == (lane \in input_meta.lanes <=> level) /\ (lane \in input_sync.lanes <=> level)
Settles(lane, level) == /\ (lane \in input_meta.lanes <=> level) \/ delay_left >= 3
                        /\ (lane \in input_sync.lanes <=> level) \/ delay_left >= 2

\* Before the repeated START the controller waits for SDA as well.
Parts(l) == /\ l = "again" => SDA \notin target.oe /\ Settles(SDA, target.sda)
            /\ l \in {"again_rising", "again_waits"} => SDA \notin target.oe /\ Settled(SDA, target.sda)
            /\ l = "again_high" => target.sda

At(l) == /\ Kind(l) # "none" /\ Counted(l, loop_count) /\ Parts(l)
         /\ Kind(l) = "held" => Held(Place(l, loop_count))
         /\ Kind(l) = "rising" => Freed(Place(l, loop_count))
         /\ Kind(l) = "high" => High(Place(l, loop_count))
         /\ Kind(l) = "idle" => Idle
         /\ Kind(l) = "done" => Done

\* The steps the words take between labels.
Sets(l, n) == l \in {"closing", "ninth", "failed"} /\ n = l
Frees(l, n) == <<l, n>> \in {<<"let", "answer">>, <<"clear", "bit">>, <<"between", "between">>,
                            <<"parting", "again">>}
Closes(l, n) == <<l, n>> \in {<<"stop_high", "done">>, <<"failed_stop", "failed_done">>}
Waits(l, n) == \/ <<l, n>> = <<"set", "send">>
               \/ /\ l \in {"send_high", "answer_high", "bit_high", "ninth_high", "stop_high",
                            "again_high", "failed_stop"}
                  /\ n = l
Releases(l, n) ==
  <<l, n>> \in {<<"send", "send_rising">>, <<"answer", "answer_rising">>, <<"bit", "bit_rising">>,
               <<"ninth", "ninth_rising">>, <<"closing", "stop_rising">>,
               <<"again", "again_rising">>, <<"failed", "failed_rising">>}
Climbs(l, n) ==
  <<l, n>> \in {<<"send_rising", "send_high">>, <<"answer_rising", "answer_high">>,
               <<"bit_rising", "bit_high">>, <<"ninth_rising", "ninth_high">>,
               <<"stop_rising", "stop_high">>, <<"again_rising", "again_waits">>,
               <<"failed_rising", "failed_stop">>}
Drops(l, n) ==
  <<l, n>> \in {<<"begun", "fresh">>, <<"begun", "next">>, <<"send_high", "sent">>,
               <<"answer_high", "open">>, <<"answer_high", "between">>,
               <<"answer_high", "closing">>, <<"bit_high", "bit_over">>,
               <<"ninth_high", "between">>, <<"again_begun", "rejoined">>,
               <<"failed_high", "failed">>}

WaitsFor(w, lane, limit) ==
  w.op = "WAIT" /\ w.lane = lane /\ w.level = TRUE /\ w.limit = limit

\* A word between two labels; t is the label of the address it names.
Fits(w, l, n, t, h, limit) ==
  \/ w = F!drive({}, {}, h) /\ l = "idle" /\ n = "idle_high"
  \/ (WaitsFor(w, 0, limit) \/ WaitsFor(w, 1, limit)) /\ l = "idle_high" /\ n = l
  \/ w = F!Low(1, h) /\ \/ l = "idle_high" /\ n = "begun"
                        \/ l = "again_high" /\ n = "again_begun"
                        \/ Sets(l, n)
  \/ w = F!Low(0, h) /\ Drops(l, n)
  \/ w = F!Free(1, h) /\ (Frees(l, n) \/ Closes(l, n))
  \/ w = F!Free(0, 4) /\ Releases(l, n)
  \/ WaitsFor(w, 0, limit) /\ Climbs(l, n)
  \/ WaitsFor(w, 1, limit) /\ l = "again_waits" /\ n = "again_high"
  \/ w = F!hold(h) /\ Waits(l, n)
  \/ w = F!shift_out(1, FALSE, TRUE) /\ l = "out" /\ n = "set"
  \/ w.op = "IN" /\ w.lane = 1 /\ l = "bit_high" /\ n = l
  \/ w = F!check_tx(1) /\ l = "send_high" /\ n = l
  \/ w = F!SAMPLE /\ l = "answer_high" /\ n = l
  \/ /\ w.op = "BRANCH" /\ w.lane = 1 /\ w.level = TRUE
     /\ l = "answer_high" /\ n = l /\ t = "failed_high"
  \/ /\ w.op = "DJNZ"
     /\ \/ l = "sent" /\ n = "let" /\ t = "out"
        \/ l = "bit_over" /\ n = "ninth" /\ t = "bit"
  \/ /\ w.op = "LOAD" /\ w.count = 8
     /\ \/ l \in {"fresh", "open"} /\ n = "out"
        \/ l = "between" /\ n = "clear"
  \/ w = F!PULL /\ ((l = "next" /\ n = "pulled") \/ (l = "open" /\ n = "out"))
  \/ w = F!PUSH /\ l = "ninth" /\ n = l
  \/ /\ w.op = "LAST_BYTE"
     /\ \/ l = "pulled" /\ n = "out" /\ t = "parting"
        \/ l = "ninth" /\ n = l /\ t = l
  \/ /\ w.op = "BYTE_LOOP"
     /\ \/ l = "open" /\ n = "closing" /\ t \in {"open", "next"}
        \/ l = "between" /\ n = "closing" /\ t = l
  \/ /\ w.op = "STREAM" /\ w.count > 0
     /\ \/ l = "idle" /\ n = l
        \/ l = "closing" /\ n = "between"
  \/ w.op = "JUMP" /\ l = "rejoined" /\ t = "out"
  \/ w = F!HALT /\ l = "done"
  \/ w = F!TRAP /\ l = "failed_done"

\* The label of the k-th word, if there is one.
Label(T, k) == IF k \in DOMAIN T THEN T[k] ELSE "none"

LEMMA LevelStays ==
  ASSUME LineClock, SDAStays, SCL \in target'.oe => SCL \in target.oe
  PROVE  target'.sda = target.sda
<1>1. target.scl => target'.scl
  BY NoStretch DEF LineClock, Wired
<1>2. Rises \/ Rests
  BY <1>1 DEF LineClock, Begins, Ends, Falls, SDAStays, Wired
<1>3. /\ target'.low = target.low /\ target'.started = target.started
      /\ target'.rival = target.rival
  BY <1>2 DEF Rises, Rests, Goes, Wired, LineClock
<1>4. target.sda \in BOOLEAN /\ target'.sda \in BOOLEAN
  BY DEF Wired, LineClock
<1> QED
  BY <1>3, <1>4 DEF LineClock, Wired, SDAStays

LEMMA Places ==
  ASSUME NEW l, NEW c, Counted(l, c)
  PROVE  Place(l, c) \in 0 .. 9 /\ (Kind(l) \in {"held", "rising"} => Place(l, c) \in 0 .. 8)
<1>1. CASE l \in OutBits \cup InBits
  <2>1. c \in 1 .. 8
    BY <1>1 DEF Counted
  <2>2. Place(l, c) = 8 - c \/ Place(l, c) = 9 - c
    BY <1>1 DEF Place, OutBits, InBits
  <2> QED
    BY ONLY <2>1, <2>2
<1>2. CASE l \notin OutBits \cup InBits
  <2>1. /\ l \notin {"out", "set", "send", "send_rising", "bit", "bit_rising"}
        /\ l \notin {"send_high", "sent", "bit_high", "bit_over"}
    BY <1>2 DEF OutBits, InBits
  <2>2. CASE l \in {"answer_high", "ninth_high", "failed_high"}
    <3>1. Kind(l) = "high"
      BY <2>2 DEF Kind, HeldLabels, RisingLabels, HighLabels
    <3>2. Place(l, c) = 9
      BY <2>2 DEF Place
    <3> QED
      BY ONLY <3>1, <3>2
  <2>3. CASE l \notin {"answer_high", "ninth_high", "failed_high"}
    <3>1. Place(l, c) = 8 \/ Place(l, c) = 1 \/ Place(l, c) = 0
      BY ONLY <2>1, <2>3 DEF Place
    <3> QED
      BY ONLY <3>1
  <2> QED
    BY <2>2, <2>3
<1> QED
  BY <1>1, <1>2

\* While the delay counts the lines stay where they are.
LEMMA PartsCount ==
  ASSUME LineClock, NEW l, Parts(l), target'.oe = target.oe,
         delay_left \in Nat \ {0}, delay_left' = delay_left - 1
  PROVE  Parts(l)'
<1>1. target'.sda = target.sda
  BY LevelStays DEF SDAStays
<1>2. (SDA \in input_meta'.lanes <=> target.sda) /\ input_sync' = input_meta
  BY DEF LineClock, BusLanes, SCL, SDA
<1>3. target.sda \in BOOLEAN
  BY DEF LineClock, Wired
<1>4. Settles(SDA, target.sda) => Settles(SDA, target.sda)'
  BY <1>1, <1>2 DEF Settles
<1>5. Settled(SDA, target.sda) => Settled(SDA, target.sda)'
  BY <1>1, <1>2 DEF Settled
<1> QED
  BY <1>1, <1>4, <1>5 DEF Parts

LEMMA CountAt ==
  ASSUME LineClock, NEW l, At(l), target'.oe = target.oe, delay_left \in Nat \ {0},
         delay_left' = delay_left - 1, wait_elapsed' = wait_elapsed, loop_count' = loop_count
  PROVE  At(l)' /\ SameCounts
<1>1. SDAStays /\ Parts(l)'
  BY PartsCount DEF SDAStays, At
<1>2. Place(l, loop_count) \in 0 .. 9
      /\ (Kind(l) \in {"held", "rising"} => Place(l, loop_count) \in 0 .. 8)
  BY Places DEF At
<1> DEFINE f == Place(l, loop_count)
<1>3. CASE Kind(l) = "held"
  <2>1. Held(f)' /\ SameCounts
    BY <1>3, HeldStays DEF At, Held
  <2> QED
    BY <1>1, <1>3, <2>1 DEF At
<1>4. CASE Kind(l) = "rising"
  <2>1. Freed(f)
    BY <1>4 DEF At
  <2>2. Freed(f)' /\ SameCounts
    BY <1>1, <1>2, <1>4, <2>1, FreedDelays DEF Freed
  <2> QED
    BY <1>1, <1>4, <2>2 DEF At
<1>5. CASE Kind(l) = "high"
  <2>1. High(f)' /\ SameCounts
    BY <1>1, <1>5, HighStays DEF At, High
  <2> QED
    BY <1>1, <1>5, <2>1 DEF At
<1>6. CASE Kind(l) = "idle"
  <2>1. Idle' /\ SameCounts
    BY <1>6, IdleStays DEF At, Idle
  <2> QED
    BY <1>1, <1>6, <2>1 DEF At
<1>7. CASE Kind(l) = "done"
  <2>1. Done' /\ SameCounts
    BY <1>1, <1>7, DoneStays DEF At, Done
  <2> QED
    BY <1>1, <1>7, <2>1 DEF At
<1> QED
  BY <1>3, <1>4, <1>5, <1>6, <1>7 DEF At, Kind

(***************************************************************************)
(* What the tables say of kinds, phases and counts.                        *)
(***************************************************************************)
LEMMA DropsTable ==
  ASSUME NEW l, NEW n, NEW c, Drops(l, n), Counted(l, c)
  PROVE  /\ Kind(l) = "high" /\ Kind(n) = "held" /\ Counted(n, c) /\ n # "again"
         /\ Place(n, c) = IF Place(l, c) = 9 THEN 0 ELSE Place(l, c)
<1>1. Kind(l) = "high"
  BY DEF Drops, Kind, HeldLabels, RisingLabels, HighLabels
<1>2. Kind(n) = "held" /\ n # "again"
  BY DEF Drops, Kind, HeldLabels
<1>3. Counted(n, c)
  BY DEF Drops, Counted, OutBits, InBits, WholeBytes
<1>4. Place(n, c) = IF Place(l, c) = 9 THEN 0 ELSE Place(l, c)
  <2>1. CASE l \in {"send_high", "bit_high"}
    <3>1. c \in 1 .. 8
      BY <2>1 DEF Counted, OutBits, InBits
    <3>2. Place(l, c) = 9 - c /\ Place(n, c) = 9 - c
      BY <2>1 DEF Drops, Place
    <3> QED
      BY ONLY <3>1, <3>2
  <2>2. CASE l \notin {"send_high", "bit_high"}
    BY <2>2 DEF Drops, Place
  <2> QED
    BY <2>1, <2>2
<1> QED
  BY <1>1, <1>2, <1>3, <1>4

LEMMA ReleasesTable ==
  ASSUME NEW l, NEW n, NEW c, Releases(l, n), Counted(l, c)
  PROVE  /\ Kind(l) = "held" /\ Kind(n) = "rising" /\ Counted(n, c)
         /\ Place(n, c) = Place(l, c) /\ (n = "again_rising" => l = "again")
         /\ n \notin {"again", "again_waits", "again_high"}
<1>1. Kind(l) = "held" /\ Kind(n) = "rising"
  BY DEF Releases, Kind, HeldLabels, RisingLabels
<1>2. Counted(n, c)
  BY DEF Releases, Counted, OutBits, InBits, WholeBytes
<1>3. Place(n, c) = Place(l, c)
  BY DEF Releases, Place
<1> QED
  BY <1>1, <1>2, <1>3 DEF Releases

LEMMA ClimbsTable ==
  ASSUME NEW l, NEW n, NEW c, Climbs(l, n), Counted(l, c)
  PROVE  /\ Kind(l) = "rising" /\ Kind(n) = "high" /\ Counted(n, c)
         /\ Place(n, c) = Place(l, c) + 1 /\ (n = "again_waits" => l = "again_rising")
         /\ n \notin {"again", "again_rising", "again_high"}
<1>1. Kind(l) = "rising" /\ Kind(n) = "high"
  BY DEF Climbs, Kind, HeldLabels, RisingLabels, HighLabels
<1>2. Counted(n, c)
  BY DEF Climbs, Counted, OutBits, InBits, WholeBytes
<1>3. Place(n, c) = Place(l, c) + 1
  <2>1. CASE l \in {"send_rising", "bit_rising"}
    <3>1. c \in 1 .. 8
      BY <2>1 DEF Counted, OutBits, InBits
    <3>2. Place(l, c) = 8 - c /\ Place(n, c) = 9 - c
      BY <2>1 DEF Climbs, Place
    <3> QED
      BY ONLY <3>1, <3>2
  <2>2. CASE l \in {"answer_rising", "ninth_rising"}
    <3>1. Place(l, c) = 8 /\ Place(n, c) = 9
      BY <2>2 DEF Climbs, Place
    <3> QED
      BY ONLY <3>1
  <2>3. CASE l \in {"stop_rising", "again_rising", "failed_rising"}
    <3>1. Place(l, c) = 0 /\ Place(n, c) = 1
      BY <2>3 DEF Climbs, Place
    <3> QED
      BY ONLY <3>1
  <2> QED
    BY <2>1, <2>2, <2>3 DEF Climbs
<1> QED
  BY <1>1, <1>2, <1>3 DEF Climbs

LEMMA WaitsTable ==
  ASSUME NEW l, NEW n, NEW c, Waits(l, n), Counted(l, c)
  PROVE  /\ Kind(l) \in {"held", "high"} /\ Kind(n) = Kind(l) /\ Counted(n, c)
         /\ Place(n, c) = Place(l, c) /\ (n = "again_high" => l = "again_high")
         /\ n \notin {"again", "again_rising", "again_waits"}
<1>1. Kind(l) \in {"held", "high"} /\ Kind(n) = Kind(l)
  BY DEF Waits, Kind, HeldLabels, RisingLabels, HighLabels
<1>2. Counted(n, c)
  BY DEF Waits, Counted, OutBits, InBits, WholeBytes
<1>3. Place(n, c) = Place(l, c)
  BY DEF Waits, Place
<1> QED
  BY <1>1, <1>2, <1>3 DEF Waits

LEMMA FreesTable ==
  ASSUME NEW l, NEW n, NEW c, Frees(l, n), Counted(l, c)
  PROVE  /\ Kind(l) = "held" /\ Kind(n) = "held" /\ Counted(n, c)
         /\ Place(n, c) = Place(l, c) /\ n \notin {"again_rising", "again_waits", "again_high"}
<1>1. Kind(l) = "held" /\ Kind(n) = "held"
  BY DEF Frees, Kind, HeldLabels
<1>2. Counted(n, c)
  <2>1. CASE n \in {"bit", "again"}
    <3>1. l \in WholeBytes
      BY <2>1 DEF Frees, WholeBytes
    <3>2. c = 8
      BY <3>1 DEF Counted
    <3> QED
      BY <3>2 DEF Counted
  <2>2. CASE n \notin {"bit", "again"}
    BY <2>2 DEF Frees, Counted, OutBits, InBits, WholeBytes
  <2> QED
    BY <2>1, <2>2
<1>3. Place(n, c) = Place(l, c)
  <2>1. l = "clear" => c = 8
    BY DEF Counted, WholeBytes
  <2>2. Place("clear", 8) = 0 /\ Place("bit", 8) = 0
    BY DEF Place
  <2>3. <<l, n>> # <<"clear", "bit">> => Place(n, c) = Place(l, c)
    BY DEF Frees, Place
  <2> QED
    BY <2>1, <2>2, <2>3
<1> QED
  BY <1>1, <1>2, <1>3 DEF Frees

LEMMA SetsTable ==
  ASSUME NEW l, NEW n, Sets(l, n)
  PROVE  Kind(l) = "held" /\ n = l /\ n \notin {"again", "again_rising", "again_waits", "again_high"}
BY DEF Sets, Kind, HeldLabels

LEMMA ClosesTable ==
  ASSUME NEW l, NEW n, NEW c, Closes(l, n)
  PROVE  /\ Kind(l) = "high" /\ Kind(n) = "done" /\ Counted(n, c) /\ Place(l, c) = 1
         /\ n \notin {"again", "again_rising", "again_waits", "again_high"}
<1>1. Kind(l) = "high" /\ Kind(n) = "done"
  BY DEF Closes, Kind, HeldLabels, RisingLabels, HighLabels, IdleLabels, DoneLabels
<1>2. Counted(n, c)
  BY DEF Closes, Counted, OutBits, InBits, WholeBytes
<1>3. Place(l, c) = 1
  BY DEF Closes, Place
<1> QED
  BY <1>1, <1>2, <1>3 DEF Closes

\* What the words do to the two lanes.
SCLStays == SCL \in target'.oe <=> SCL \in target.oe
Moves(w, h) ==
  /\ w = F!Low(0, h) => SCL \in target'.oe /\ SDAStays /\ delay_left' = h - 1
  /\ w = F!Low(1, h) => SDA \in target'.oe /\ SCLStays /\ delay_left' = h - 1
  /\ w = F!Free(0, 4) => SCL \notin target'.oe /\ SDAStays /\ delay_left' = 3
  /\ w = F!Free(1, h) => SDA \notin target'.oe /\ SCLStays /\ delay_left' = h - 1
  /\ w = F!hold(h) => target'.oe = target.oe /\ delay_left' = h - 1
  /\ w = F!drive({}, {}, h) => target'.oe = {} /\ delay_left' = h - 1
  /\ w = F!shift_out(1, FALSE, TRUE) => SCLStays /\ (SDA \in target'.oe <=> last_tx_bit' # 1)
  /\ w.op \notin {"DRIVE", "PATCH", "OUT"} => target'.oe = target.oe
  /\ w.op \notin {"DRIVE", "PATCH"} => delay_left' = 0

LEMMA LanesMove ==
  ASSUME NEW w, NEW h, Acts(w), Wired, Wired'
  PROVE  Moves(w, h)
<1> USE DEF Acts, ActsOnPins, ActsOnTime, SCL, SDA, SDAStays, SCLStays
<1>1. /\ target.oe = out_enable \cap {0, 1} /\ target'.oe = out_enable' \cap {0, 1}
  BY DEF Wired
<1>2. ASSUME w = F!Low(0, h) PROVE SCL \in target'.oe /\ SDAStays /\ delay_left' = h - 1
  BY <1>1, <1>2 DEF F!Low, F!patch
<1>3. ASSUME w = F!Low(1, h) PROVE SDA \in target'.oe /\ SCLStays /\ delay_left' = h - 1
  BY <1>1, <1>3 DEF F!Low, F!patch
<1>4. ASSUME w = F!Free(0, 4) PROVE SCL \notin target'.oe /\ SDAStays /\ delay_left' = 3
  BY <1>1, <1>4 DEF F!Free, F!patch
<1>5. ASSUME w = F!Free(1, h) PROVE SDA \notin target'.oe /\ SCLStays /\ delay_left' = h - 1
  BY <1>1, <1>5 DEF F!Free, F!patch
<1>6. ASSUME w = F!hold(h) PROVE target'.oe = target.oe /\ delay_left' = h - 1
  BY <1>1, <1>6 DEF F!hold, F!patch
<1>7. ASSUME w = F!drive({}, {}, h) PROVE target'.oe = {} /\ delay_left' = h - 1
  BY <1>1, <1>7 DEF F!drive
<1>8. ASSUME w = F!shift_out(1, FALSE, TRUE)
      PROVE  SCLStays /\ (SDA \in target'.oe <=> last_tx_bit' # 1)
  BY <1>1, <1>8 DEF F!shift_out
<1>9. /\ w.op \notin {"DRIVE", "PATCH", "OUT"} => target'.oe = target.oe
      /\ w.op \notin {"DRIVE", "PATCH"} => delay_left' = 0
  BY <1>1
<1> QED
  BY <1>2, <1>3, <1>4, <1>5, <1>6, <1>7, <1>8, <1>9 DEF Moves

(***************************************************************************)
(* A word takes the lines from its label to the next one.                  *)
(***************************************************************************)
Acted(w, h) ==
  /\ LineClock /\ running' /\ delay_left = 0 /\ instruction = w /\ ~Rejected
  /\ Acts(w) /\ Moves(w, h) /\ h \in Nat /\ h >= 4
  /\ w.op # "WAIT" => wait_elapsed = 0
Framed == SameCounts \/ target.phase \in {0, 1}

LEMMA PartsStay ==
  ASSUME LineClock, NEW l, l # "again", Parts(l), target'.oe = target.oe
  PROVE  Parts(l)'
<1>1. target'.sda = target.sda
  BY LevelStays DEF SDAStays
<1>2. (SDA \in input_meta'.lanes <=> target.sda) /\ input_sync' = input_meta
  BY DEF LineClock, BusLanes, SCL, SDA
<1>3. Settled(SDA, target.sda) => Settled(SDA, target.sda)'
  BY <1>1, <1>2 DEF Settled
<1> QED
  BY <1>1, <1>3 DEF Parts

LEMMA LowSCL ==
  ASSUME NEW l, NEW n, NEW h, Drops(l, n), At(l), Acted(F!Low(0, h), h)
  PROVE  At(n)' /\ pc' = pc + 1 /\ Framed
<1>1. LineClock /\ SCL \in target'.oe /\ delay_left' > 0
  BY DEF Acted, Moves
<1>2. loop_count' = loop_count /\ pc' = pc + 1
  BY DEF Acted, Acts, ActsOnCounts, ActsOnPlace, F!Low, F!patch
<1>3. /\ Kind(l) = "high" /\ Kind(n) = "held" /\ Counted(n, loop_count) /\ n # "again"
      /\ Place(n, loop_count) = IF Place(l, loop_count) = 9 THEN 0 ELSE Place(l, loop_count)
  BY DropsTable DEF At
<1>4. High(Place(l, loop_count)) /\ Place(l, loop_count) \in 0 .. 9
  BY <1>3, Places DEF At
<1>5. Held(Place(n, loop_count))' /\ SameCounts
  BY ONLY <1>1, <1>2, <1>3, <1>4, HighFalls
<1>6. Parts(n)'
  BY <1>3 DEF Parts, Kind, HeldLabels
<1> QED
  BY <1>2, <1>3, <1>5, <1>6 DEF At, Framed

LEMMA FreeSCL ==
  ASSUME NEW l, NEW n, NEW h, Releases(l, n), At(l), Acted(F!Free(0, 4), h)
  PROVE  At(n)' /\ pc' = pc + 1 /\ Framed
<1>1. LineClock /\ SCL \notin target'.oe /\ SDAStays /\ delay_left' = 3 /\ delay_left = 0 /\ running'
  BY DEF Acted, Moves
<1>2. loop_count' = loop_count /\ pc' = pc + 1 /\ wait_elapsed' = 0
  BY DEF Acted, Acts, ActsOnCounts, ActsOnPlace, ActsOnTime, F!Free, F!patch
<1>3. /\ Kind(l) = "held" /\ Kind(n) = "rising" /\ Counted(n, loop_count)
      /\ Place(n, loop_count) = Place(l, loop_count) /\ (n = "again_rising" => l = "again")
      /\ n \notin {"again", "again_waits", "again_high"}
  BY ReleasesTable DEF At
<1>4. Held(Place(l, loop_count)) /\ Place(l, loop_count) \in 0 .. 8
  BY <1>3, Places DEF At
<1>5. Freed(Place(n, loop_count))' /\ SameCounts
  BY ONLY <1>1, <1>2, <1>3, <1>4, HeldFreed
<1>6. Parts(n)'
  <2>0. target.sda \in BOOLEAN
    BY <1>1 DEF LineClock, Wired
  <2>1. target'.sda = target.sda
    BY <1>1, LevelStays
  <2>2. (SDA \in input_meta'.lanes <=> target.sda) /\ input_sync' = input_meta
    BY <1>1 DEF LineClock, BusLanes, SCL, SDA
  <2>3. n = "again_rising" => SDA \notin target.oe /\ (SDA \in input_meta.lanes <=> target.sda)
    <3>1. n = "again_rising" => SDA \notin target.oe /\ Settles(SDA, target.sda)
      BY <1>3 DEF At, Parts
    <3>2. ~(delay_left >= 3)
      BY <1>1
    <3> QED
      BY ONLY <3>1, <3>2, Zenon DEF Settles
  <2>4. n = "again_rising" => SDA \notin target'.oe /\ Settled(SDA, target.sda)'
    BY <1>1, <2>0, <2>1, <2>2, <2>3 DEF SDAStays, Settled
  <2> QED
    BY <1>3, <2>4 DEF Parts
<1> QED
  BY <1>2, <1>3, <1>5, <1>6 DEF At, Framed

\* What a wait for a lane does.
LEMMA WaitActs ==
  ASSUME NEW lane \in {0, 1}, NEW limit, NEW h, NEW w, limit \in 1 .. MaxHold,
         wait_elapsed \in 0 .. limit - 1, Acted(w, h), WaitsFor(w, lane, limit)
  PROVE  /\ target'.oe = target.oe /\ delay_left' = 0 /\ loop_count' = loop_count
         /\ lane \in input_sync.lanes => wait_elapsed' = 0 /\ pc' = pc + 1
         /\ lane \notin input_sync.lanes => /\ wait_elapsed # limit - 1 /\ pc' = pc
                                          /\ wait_elapsed' = wait_elapsed + 1
<1>1. /\ w.op = "WAIT" /\ w.lane = lane /\ w.level = TRUE /\ w.limit = limit
  BY DEF WaitsFor
<1>4. /\ instruction = w /\ ~Rejected /\ ActsOnTime(w) /\ ActsOnPlace(w) /\ ActsOnCounts(w)
      /\ Moves(w, h)
  BY ONLY Acted(w, h) DEF Acted, Acts
<1>2. /\ target'.oe = target.oe /\ delay_left' = 0 /\ loop_count' = loop_count
  BY <1>1, <1>4 DEF ActsOnCounts, Moves
<1>3. Sees(w) <=> lane \in input_sync.lanes
  BY <1>1 DEF Sees
<1>5. lane \in input_sync.lanes => wait_elapsed' = 0 /\ pc' = pc + 1
  BY <1>1, <1>3, <1>4 DEF ActsOnTime, ActsOnPlace
<1>6. ASSUME lane \notin input_sync.lanes
      PROVE  wait_elapsed # limit - 1 /\ pc' = pc /\ wait_elapsed' = wait_elapsed + 1
  <2>1. limit # 0 /\ limit \in Nat /\ wait_elapsed \in Nat /\ MaxHold \in Nat /\ limit <= MaxHold
    BY HoldWidth
  <2>2. ~TimesOut /\ ~BadLane
    BY <1>4 DEF Rejected
  <2>3. wait_elapsed # limit - 1
    BY <1>1, <1>3, <1>4, <1>6, <2>1, <2>2 DEF TimesOut
  <2>4. wait_elapsed' = (wait_elapsed + 1) % (MaxHold + 1)
    BY <1>1, <1>3, <1>4, <1>6, <2>1 DEF ActsOnTime, ElapsedAfterMiss
  <2>5. wait_elapsed' = wait_elapsed + 1
    BY ONLY <2>1, <2>3, <2>4, wait_elapsed \in 0 .. limit - 1
  <2>6. pc' = pc
    BY <1>1, <1>3, <1>4, <1>6 DEF ActsOnPlace
  <2> QED
    BY <2>3, <2>5, <2>6
<1> QED
  BY <1>2, <1>5, <1>6

LEMMA WaitSCL ==
  ASSUME NEW l, NEW n, NEW h, NEW w, Climbs(l, n), At(l), job.limit \in 1 .. MaxHold,
         Acted(w, h), WaitsFor(w, 0, job.limit)
  PROVE  /\ (At(n)' /\ pc' = pc + 1 /\ wait_elapsed' = 0) \/ (At(l)' /\ pc' = pc)
         /\ Framed
<1>0. PICK c, f : c = loop_count /\ f = Place(l, c)
  OBVIOUS
<1>1. LineClock /\ delay_left = 0
  BY DEF Acted
<1>2. /\ Kind(l) = "rising" /\ Kind(n) = "high" /\ Counted(n, c) /\ Place(n, c) = f + 1
      /\ n = "again_waits" => l = "again_rising"
      /\ n \notin {"again", "again_rising", "again_high"}
  BY <1>0, ClimbsTable DEF At
<1>3. Freed(f) /\ f \in 0 .. 8 /\ wait_elapsed \in 0 .. job.limit - 1
  BY <1>0, <1>2, Places DEF At, Freed
<1>4. /\ target'.oe = target.oe /\ delay_left' = 0 /\ loop_count' = loop_count
      /\ 0 \in input_sync.lanes => wait_elapsed' = 0 /\ pc' = pc + 1
      /\ 0 \notin input_sync.lanes => /\ wait_elapsed # job.limit - 1 /\ pc' = pc
                                     /\ wait_elapsed' = wait_elapsed + 1
  BY <1>3, WaitActs
<1>5. SCL \notin target'.oe /\ SDAStays
  BY <1>3, <1>4 DEF Freed, SDAStays
<1>6. l # "again" /\ Parts(l)
  BY <1>2 DEF Kind, HeldLabels, At
<1>7. Parts(l)'
  BY <1>1, <1>4, <1>6, PartsStay
<1>8. Parts(n)'
  BY <1>2, <1>7 DEF Parts
<1>9. CASE 0 \in input_sync.lanes
  <2>1. High(f + 1)' /\ SameCounts
    BY <1>1, <1>3, <1>5, <1>9, FreedSeen DEF SCL
  <2> QED
    BY <1>0, <1>2, <1>4, <1>8, <1>9, <2>1 DEF At, Framed
<1>10. CASE 0 \notin input_sync.lanes
  <2>1. Freed(f)' /\ SameCounts
    BY <1>1, <1>3, <1>4, <1>5, <1>10, FreedWaits DEF SCL
  <2> QED
    BY <1>0, <1>2, <1>4, <1>7, <1>10, <2>1 DEF At, Framed
<1> QED
  BY <1>9, <1>10

\* A word that leaves the lanes alone.
LEMMA LinesStay ==
  ASSUME LineClock, NEW l, NEW n, At(l), target'.oe = target.oe,
         Kind(l) \in {"held", "high", "idle", "done"}, Kind(n) = Kind(l),
         Counted(n, loop_count'), Place(n, loop_count') = Place(l, loop_count), Parts(n)'
  PROVE  At(n)' /\ Framed
<1>1. PICK f : f = Place(l, loop_count) /\ f = Place(n, loop_count')
  OBVIOUS
<1>2. SDAStays
  BY DEF SDAStays
<1>3. CASE Kind(l) = "held"
  <2>1. Held(f)' /\ SameCounts
    BY <1>1, <1>3, HeldStays DEF At, Held
  <2> QED
    BY <1>1, <1>3, <2>1 DEF At, Framed
<1>4. CASE Kind(l) = "high"
  <2>1. High(f)' /\ SameCounts
    BY <1>1, <1>2, <1>4, HighStays DEF At, High
  <2> QED
    BY <1>1, <1>4, <2>1 DEF At, Framed
<1>5. CASE Kind(l) = "idle"
  <2>1. Idle' /\ SameCounts
    BY <1>5, IdleStays DEF At, Idle
  <2> QED
    BY <1>5, <2>1 DEF At, Framed
<1>6. CASE Kind(l) = "done"
  <2>1. Done' /\ SameCounts
    BY <1>2, <1>6, DoneStays DEF At, Done
  <2> QED
    BY <1>6, <2>1 DEF At, Framed
<1> QED
  BY <1>3, <1>4, <1>5, <1>6

\* A word at a held clock may do anything to SDA.
LEMMA HeldMoves ==
  ASSUME LineClock, NEW l, NEW n, At(l), SCLStays, Kind(l) = "held", Kind(n) = "held",
         Counted(n, loop_count'), Place(n, loop_count') = Place(l, loop_count), Parts(n)'
  PROVE  At(n)' /\ Framed
<1>1. PICK f : f = Place(l, loop_count) /\ f = Place(n, loop_count')
  OBVIOUS
<1>2. Held(f)' /\ SameCounts
  BY <1>1, HeldStays DEF At, Held, SCLStays
<1> QED
  BY <1>1, <1>2 DEF At, Framed

LEMMA LowSDA ==
  ASSUME NEW l, NEW n, NEW h, At(l), Acted(F!Low(1, h), h),
         \/ l = "idle_high" /\ n = "begun"
         \/ l = "again_high" /\ n = "again_begun"
         \/ Sets(l, n)
  PROVE  At(n)' /\ pc' = pc + 1 /\ Framed
<1>1. LineClock /\ SDA \in target'.oe /\ SCLStays
  BY DEF Acted, Moves
<1>2. loop_count' = loop_count /\ pc' = pc + 1
  BY DEF Acted, Acts, ActsOnCounts, ActsOnPlace, F!Low, F!patch
<1>3. CASE l \in {"idle_high", "again_high"} /\ n \in {"begun", "again_begun"} /\ ~Sets(l, n)
  <2>1. (High(1) \/ Idle) /\ target.sda /\ SCL \notin target.oe
    <3>1. CASE l = "idle_high"
      <4>1. Kind(l) = "idle"
        BY <3>1 DEF Kind, HeldLabels, RisingLabels, HighLabels, IdleLabels
      <4> QED
        BY <4>1 DEF At, Idle
    <3>2. CASE l = "again_high"
      <4>1. Kind(l) = "high" /\ Place(l, loop_count) = 1
        BY <3>2 DEF Kind, HeldLabels, RisingLabels, HighLabels, Place
      <4> QED
        BY <3>2, <4>1 DEF At, Parts, High
    <3> QED
      BY <1>3, <3>1, <3>2
  <2>2. High(0)' /\ Framed
    BY <1>1, <2>1, HighStarts DEF SCLStays, Framed, High, Idle
  <2>3. Kind(n) = "high" /\ Place(n, loop_count) = 0
    BY <1>3 DEF Kind, HeldLabels, RisingLabels, HighLabels, Place
  <2>4. Counted(n, loop_count)
    <3>1. n = "again_begun" => l = "again_high"
      BY <1>3
    <3>2. l = "again_high" => loop_count = 8
      BY DEF At, Counted, WholeBytes
    <3> QED
      BY <1>3, <3>1, <3>2 DEF Counted, OutBits, InBits, WholeBytes
  <2> QED
    BY <1>2, <1>3, <2>2, <2>3, <2>4 DEF At, Parts
<1>4. CASE Sets(l, n)
  <2>1. Kind(l) = "held" /\ n = l /\ n \notin {"again", "again_rising", "again_waits", "again_high"}
    BY <1>4, SetsTable
  <2>2. Parts(n)' /\ Counted(n, loop_count')
    BY <1>2, <2>1 DEF Parts, At
  <2> QED
    BY <1>1, <1>2, <2>1, <2>2, HeldMoves
<1> QED
  BY <1>3, <1>4

LEMMA FreeSDA ==
  ASSUME NEW l, NEW n, NEW h, At(l), Acted(F!Free(1, h), h), Frees(l, n) \/ Closes(l, n)
  PROVE  At(n)' /\ pc' = pc + 1 /\ Framed
<1>1. LineClock /\ SDA \notin target'.oe /\ SCLStays /\ delay_left' >= 3 /\ delay_left' >= 2
  BY DEF Acted, Moves
<1>2. loop_count' = loop_count /\ pc' = pc + 1
  BY DEF Acted, Acts, ActsOnCounts, ActsOnPlace, F!Free, F!patch
<1>3. CASE Frees(l, n)
  <2>1. /\ Kind(l) = "held" /\ Kind(n) = "held" /\ Counted(n, loop_count)
        /\ Place(n, loop_count) = Place(l, loop_count)
        /\ n \notin {"again_rising", "again_waits", "again_high"}
    BY <1>3, FreesTable DEF At
  <2>2. Parts(n)'
    BY <1>1, <2>1 DEF Parts, Settles
  <2> QED
    BY <1>1, <1>2, <2>1, <2>2, HeldMoves
<1>4. CASE Closes(l, n)
  <2>1. /\ Kind(l) = "high" /\ Kind(n) = "done" /\ Counted(n, loop_count)
        /\ Place(l, loop_count) = 1
        /\ n \notin {"again", "again_rising", "again_waits", "again_high"}
    BY <1>4, ClosesTable
  <2>2. High(1)
    BY <2>1 DEF At
  <2>3. Done' /\ Framed
    BY <1>1, <2>2, DoneStays DEF High, SCLStays, Framed
  <2> QED
    BY <1>2, <2>1, <2>3 DEF At, Parts
<1> QED
  BY <1>3, <1>4

\* A word that moves no lane, at any label.
LEMMA QuietWord ==
  ASSUME NEW l, NEW n, NEW w, NEW h, At(l), Acted(w, h), w.op \notin {"DRIVE", "PATCH", "OUT"},
         Kind(l) \in {"held", "high", "idle", "done"}, Kind(n) = Kind(l),
         Counted(n, loop_count'), Place(n, loop_count') = Place(l, loop_count),
         n \notin {"again", "again_rising", "again_waits", "again_high"}
  PROVE  At(n)' /\ Framed
<1>1. LineClock /\ target'.oe = target.oe
  BY DEF Acted, Moves
<1>2. Parts(n)'
  BY DEF Parts
<1> QED
  BY <1>1, <1>2, LinesStay

LEMMA HoldAt ==
  ASSUME NEW l, NEW n, NEW h, At(l), Acted(F!hold(h), h), Waits(l, n)
  PROVE  At(n)' /\ pc' = pc + 1 /\ Framed
<1>1. LineClock /\ target'.oe = target.oe
  BY DEF Acted, Moves
<1>2. loop_count' = loop_count /\ pc' = pc + 1
  BY DEF Acted, Acts, ActsOnCounts, ActsOnPlace, F!hold, F!patch
<1>3. /\ Kind(l) \in {"held", "high"} /\ Kind(n) = Kind(l) /\ Counted(n, loop_count)
      /\ Place(n, loop_count) = Place(l, loop_count)
      /\ n = "again_high" => l = "again_high"
      /\ n \notin {"again", "again_rising", "again_waits"}
  BY WaitsTable DEF At
<1>4. Parts(n)'
  <2>1. l = "again_high" => Parts(l)'
    BY <1>1, PartsStay DEF At
  <2> QED
    BY <1>3, <2>1 DEF Parts
<1> QED
  BY <1>1, <1>2, <1>3, <1>4, LinesStay

LEMMA DriveAt ==
  ASSUME NEW h, At("idle"), Acted(F!drive({}, {}, h), h)
  PROVE  At("idle_high")' /\ pc' = pc + 1 /\ Framed
<1>1. LineClock /\ target'.oe = {}
  BY DEF Acted, Moves
<1>2. pc' = pc + 1
  BY DEF Acted, Acts, ActsOnPlace, F!drive
<1>3. Kind("idle") = "idle" /\ Kind("idle_high") = "idle"
      /\ Place("idle", loop_count) = 0 /\ Place("idle_high", loop_count') = 0
  BY DEF Kind, Place, HeldLabels, RisingLabels, HighLabels, IdleLabels
<1>4. Counted("idle_high", loop_count') /\ Parts("idle_high")'
  BY DEF Counted, Parts, OutBits, InBits, WholeBytes
<1>5. target.oe = {}
  BY <1>3 DEF At, Idle
<1> QED
  BY <1>1, <1>2, <1>3, <1>4, <1>5, LinesStay

LEMMA OutAt ==
  ASSUME NEW h, At("out"), Acted(F!shift_out(1, FALSE, TRUE), h)
  PROVE  At("set")' /\ pc' = pc + 1 /\ Framed
<1>1. LineClock /\ SCLStays
  BY DEF Acted, Moves
<1>2. loop_count' = loop_count /\ pc' = pc + 1
  BY DEF Acted, Acts, ActsOnCounts, ActsOnPlace, F!shift_out
<1>3. Kind("out") = "held" /\ Kind("set") = "held"
      /\ Place("out", loop_count) = 8 - loop_count /\ Place("set", loop_count) = 8 - loop_count
  BY DEF Kind, Place, HeldLabels
<1>4. Counted("set", loop_count) /\ Parts("set")'
  BY DEF At, Counted, Parts, OutBits, InBits, WholeBytes
<1> QED
  BY <1>1, <1>2, <1>3, <1>4, HeldMoves

\* Before START a wait leaves the idle lines alone.
LEMMA WaitIdle ==
  ASSUME NEW lane \in {0, 1}, NEW h, NEW w, At("idle_high"), job.limit \in 1 .. MaxHold,
         wait_elapsed \in 0 .. job.limit - 1, Acted(w, h), WaitsFor(w, lane, job.limit)
  PROVE  At("idle_high")' /\ pc' \in {pc, pc + 1} /\ Framed
<1>1. LineClock
  BY DEF Acted
<1>2. target'.oe = target.oe /\ loop_count' = loop_count /\ pc' \in {pc, pc + 1}
  BY WaitActs
<1>3. Kind("idle_high") = "idle" /\ Counted("idle_high", loop_count') /\ Parts("idle_high")'
  BY DEF Kind, HeldLabels, RisingLabels, HighLabels, IdleLabels, Counted, Parts, OutBits,
     InBits, WholeBytes
<1> QED
  BY <1>1, <1>2, <1>3, LinesStay

\* SDA has settled when the controller waits for it before a repeated START.
LEMMA WaitSDA ==
  ASSUME NEW h, NEW w, At("again_waits"), job.limit \in 1 .. MaxHold,
         wait_elapsed \in 0 .. job.limit - 1, Acted(w, h), WaitsFor(w, 1, job.limit)
  PROVE  /\ (At("again_high")' /\ pc' = pc + 1) \/ (At("again_waits")' /\ pc' = pc)
         /\ Framed
<1>1. LineClock
  BY DEF Acted
<1>2. /\ target'.oe = target.oe /\ loop_count' = loop_count
      /\ 1 \in input_sync.lanes => pc' = pc + 1
      /\ 1 \notin input_sync.lanes => pc' = pc
  BY WaitActs
<1>3. /\ Kind("again_waits") = "high" /\ Kind("again_high") = "high"
      /\ Place("again_waits", loop_count) = 1 /\ Place("again_high", loop_count) = 1
  BY DEF Kind, HeldLabels, RisingLabels, HighLabels, Place
<1>4. Counted("again_waits", loop_count) /\ Counted("again_high", loop_count)
  BY DEF At, Counted, WholeBytes, OutBits, InBits
<1>5. CASE 1 \in input_sync.lanes
  <2>1. target.sda
    BY <1>5 DEF At, Parts, Settled, SDA
  <2>2. target'.sda
    BY <1>1, <1>2, <2>1, LevelStays DEF SDAStays
  <2>3. Parts("again_high")'
    BY <2>2 DEF Parts
  <2> QED
    BY <1>1, <1>2, <1>3, <1>4, <1>5, <2>3, LinesStay
<1>6. CASE 1 \notin input_sync.lanes
  <2>1. Parts("again_waits")'
    BY <1>1, <1>2, PartsStay DEF At
  <2> QED
    BY <1>1, <1>2, <1>3, <1>4, <1>6, <2>1, LinesStay
<1> QED
  BY <1>5, <1>6

\* Where a word may lead.
Led(w, l, n, t) ==
  /\ Framed
  /\ (pc' = pc /\ At(l)') \/ (pc' = pc + 1 /\ At(n)') \/ (pc' = w.target /\ At(t)')

\* Words that only look.
LEMMA LooksAt ==
  ASSUME NEW l, NEW t, NEW w, NEW h, At(l), Acted(w, h),
         \/ w.op = "IN" /\ l = "bit_high"
         \/ w.op = "CHECK_TX" /\ l = "send_high"
         \/ w.op = "SAMPLE" /\ l = "answer_high"
         \/ w.op = "BRANCH" /\ l = "answer_high" /\ t = "failed_high"
         \/ w.op = "PUSH" /\ l = "ninth"
         \/ w.op = "LAST_BYTE" /\ l = "ninth" /\ t = l
         \/ w.op = "STREAM" /\ l = "idle"
  PROVE  Led(w, l, l, t)
<1>1. loop_count' = loop_count
  BY DEF Acted, Acts, ActsOnCounts
<1>2. \/ pc' = pc + 1 \/ pc' = pc
      \/ pc' = w.target /\ (w.op = "BRANCH" \/ t = l)
  BY DEF Acted, Acts, ActsOnPlace
<1>3. Kind(l) \in {"held", "high", "idle", "done"}
  BY DEF Kind, HeldLabels, RisingLabels, HighLabels, IdleLabels
<1>4. Counted(l, loop_count) /\ l \notin {"again", "again_rising", "again_waits", "again_high"}
  BY DEF At
<1>5. At(l)' /\ Framed
  BY <1>1, <1>3, <1>4, QuietWord
<1>6. CASE w.op = "BRANCH"
  <2>1. /\ Kind(l) = "high" /\ Kind(t) = "high"
        /\ Place(l, loop_count) = 9 /\ Place(t, loop_count) = 9
    BY <1>6 DEF Kind, HeldLabels, RisingLabels, HighLabels, Place
  <2>2. Counted(t, loop_count)
    BY <1>6 DEF Counted, OutBits, InBits, WholeBytes
  <2>3. At(t)' /\ Framed
    BY <1>1, <1>6, <2>1, <2>2, QuietWord
  <2> QED
    BY <1>2, <1>5, <2>3 DEF Led
<1>7. CASE w.op # "BRANCH"
  BY <1>2, <1>5, <1>7 DEF Led
<1> QED
  BY <1>6, <1>7

\* Words between bytes, where the clock is held low and nothing is counted.
LEMMA BetweenAt ==
  ASSUME NEW l, NEW n, NEW t, NEW w, NEW h, At(l), Acted(w, h),
         \/ w.op = "BYTE_LOOP" /\ l = "open" /\ n = "closing" /\ t \in {"open", "next"}
         \/ w.op = "BYTE_LOOP" /\ l = "between" /\ n = "closing" /\ t = l
         \/ w.op = "STREAM" /\ l = "closing" /\ n = "between"
  PROVE  Led(w, l, n, t)
<1>1. loop_count' = loop_count
  BY DEF Acted, Acts, ActsOnCounts
<1>2. pc' = pc + 1 \/ (pc' = w.target /\ w.op = "BYTE_LOOP")
  BY DEF Acted, Acts, ActsOnPlace
<1>3. ASSUME NEW m, m \in {"open", "next", "closing", "between"}
      PROVE  Kind(m) = "held" /\ Place(m, loop_count) = 0 /\ Counted(m, loop_count)
  BY <1>3 DEF Kind, HeldLabels, Place, Counted, OutBits, InBits, WholeBytes
<1>4. ASSUME NEW m, m \in {"open", "next", "closing", "between"} PROVE At(m)' /\ Framed
  BY <1>1, <1>3, <1>4, QuietWord
<1> QED
  BY <1>2, <1>4 DEF Led

\* One bit is done.
LEMMA BitAt ==
  ASSUME NEW l, NEW n, NEW t, NEW w, NEW h, At(l), Acted(w, h), w.op = "DJNZ",
         \/ l = "sent" /\ n = "let" /\ t = "out"
         \/ l = "bit_over" /\ n = "ninth" /\ t = "bit"
  PROVE  Led(w, l, n, t)
<1>0. PICK c, d : c = loop_count /\ d = loop_count'
  OBVIOUS
<1>1. d = c - 1 /\ pc' = IF c = 1 THEN pc + 1 ELSE w.target
  BY <1>0 DEF Acted, Acts, ActsOnCounts, ActsOnPlace
<1>2. Kind(l) = "held" /\ Kind(n) = "held" /\ Kind(t) = "held"
  BY DEF Kind, HeldLabels
<1>3. c \in 1 .. 8
  BY <1>0 DEF At, Counted, OutBits, InBits
<1>4. Place(l, c) = 9 - c /\ Place(n, d) = 8 /\ Place(t, d) = 8 - d
  <2>1. Place("let", d) = 8 /\ Place("ninth", d) = 8
    BY DEF Place
  <2>2. Place("out", d) = 8 - d /\ Place("bit", d) = 8 - d
    BY DEF Place
  <2>3. Place("sent", c) = 9 - c /\ Place("bit_over", c) = 9 - c
    BY DEF Place
  <2> QED
    BY <2>1, <2>2, <2>3
<1>5. CASE c = 1
  <2>1. Place(n, d) = Place(l, c)
    BY ONLY <1>4, <1>5
  <2>2. Counted(n, d)
    BY DEF Counted, OutBits, InBits, WholeBytes
  <2>3. At(n)' /\ Framed
    BY <1>0, <1>2, <2>1, <2>2, QuietWord
  <2> QED
    BY <1>1, <1>5, <2>3 DEF Led
<1>6. CASE c # 1
  <2>1. Place(t, d) = Place(l, c) /\ d \in 1 .. 8
    BY ONLY <1>1, <1>3, <1>4, <1>6
  <2>2. Counted(t, d)
    BY <2>1 DEF Counted, WholeBytes
  <2>3. At(t)' /\ Framed
    BY <1>0, <1>2, <2>1, <2>2, QuietWord
  <2> QED
    BY <1>1, <1>6, <2>3 DEF Led
<1> QED
  BY <1>5, <1>6

\* A byte begins.
LEMMA ByteAt ==
  ASSUME NEW l, NEW n, NEW t, NEW w, NEW h, At(l), Acted(w, h),
         \/ /\ w.op = "LOAD" /\ w.count = 8
            /\ \/ l \in {"fresh", "open"} /\ n = "out"
               \/ l = "between" /\ n = "clear"
         \/ w.op = "PULL" /\ ((l = "next" /\ n = "pulled") \/ (l = "open" /\ n = "out"))
         \/ w.op = "LAST_BYTE" /\ l = "pulled" /\ n = "out" /\ t = "parting"
         \/ w.op = "JUMP" /\ l = "rejoined" /\ t = "out"
  PROVE  Led(w, l, n, t)
<1>0. PICK c, d : c = loop_count /\ d = loop_count'
  OBVIOUS
<1>1. /\ Kind(l) = "held" /\ Place(l, c) = 0
      /\ l \notin {"again", "again_rising", "again_waits", "again_high"} /\ Counted(l, c)
  BY <1>0 DEF At, Kind, HeldLabels, Place
<1>2. \/ pc' = pc /\ d = c
      \/ pc' = pc + 1 /\ d = 8 /\ w.op # "JUMP"
      \/ pc' = w.target /\ d = 8 /\ w.op \in {"LAST_BYTE", "JUMP"}
  <2>1. CASE w.op \in {"LAST_BYTE", "JUMP"}
    <3>1. d = c /\ (pc' = w.target \/ (pc' = pc + 1 /\ w.op # "JUMP"))
      BY <1>0, <2>1 DEF Acted, Acts, ActsOnCounts, ActsOnPlace
    <3>2. c = 8
      BY <1>1, <2>1 DEF Counted, WholeBytes
    <3> QED
      BY <2>1, <3>1, <3>2
  <2>2. CASE w.op \in {"LOAD", "PULL"}
    BY <1>0, <2>2 DEF Acted, Acts, ActsOnCounts, ActsOnPlace
  <2> QED
    BY <2>1, <2>2
<1>3. ASSUME NEW m, m \in {"out", "clear", "pulled", "parting"}, d = 8 PROVE At(m)' /\ Framed
  <2>0. PICK e : e = 8
    OBVIOUS
  <2>1. Kind(m) = "held" /\ Counted(m, 8)
    <3>1. Kind(m) = "held"
      BY <1>3 DEF Kind, HeldLabels
    <3> QED
      BY <3>1 DEF Counted
  <2>2. Place(m, 8) = 0
    <3>1. m # "out" => Place(m, e) = 0
      BY ONLY <1>3 DEF Place
    <3>2. Place("out", e) = 8 - e
      BY DEF Place
    <3> QED
      BY ONLY <2>0, <3>1, <3>2
  <2> QED
    BY <1>0, <1>1, <1>3, <2>1, <2>2, QuietWord
<1>4. ASSUME d = c PROVE At(l)' /\ Framed
  BY <1>0, <1>1, <1>4, QuietWord
<1> QED
  BY <1>2, <1>3, <1>4 DEF Led

\* The words as such: no lane is driven high, and only "done" words end a run.
LEMMA FitsWords ==
  ASSUME NEW w, NEW l, NEW n, NEW t, NEW h, NEW limit, Fits(w, l, n, t, h, limit)
  PROVE  /\ w.op \in I2COps
         /\ w.op \in {"DRIVE", "PATCH"} => w.value = {}
         /\ w.op = "OUT" => w.drain
         /\ w.op \in {"PULL", "PUSH"} => Kind(l) = "held"
         /\ w.op = "HALT" => Kind(l) = "done"
         /\ w.op = "WAIT" <=> WaitsFor(w, 0, limit) \/ WaitsFor(w, 1, limit)
<1>0. \/ \/ w = F!drive({}, {}, h) \/ w = F!Low(1, h) \/ w = F!Low(0, h)
         \/ w = F!Free(1, h) \/ w = F!Free(0, 4) \/ w = F!hold(h)
      \/ WaitsFor(w, 0, limit) \/ WaitsFor(w, 1, limit)
      \/ \/ w = F!shift_out(1, FALSE, TRUE) \/ w = F!check_tx(1)
         \/ w = F!SAMPLE \/ w = F!TRAP
      \/ w.op \in {"IN", "BRANCH", "DJNZ", "LOAD", "LAST_BYTE", "BYTE_LOOP", "STREAM", "JUMP"}
      \/ w = F!PULL /\ l \in {"next", "open"}
      \/ w = F!PUSH /\ l = "ninth"
      \/ w = F!HALT /\ l = "done"
  BY DEF Fits
<1> USE DEF F!drive, WaitsFor, F!Low, F!Free, F!hold, F!patch, F!shift_out,
        F!check_tx, F!SAMPLE, F!PULL, F!PUSH, F!HALT, F!TRAP, F!Word, I2COps
<1>1. CASE \/ w = F!drive({}, {}, h) \/ w = F!Low(1, h) \/ w = F!Low(0, h)
           \/ w = F!Free(1, h) \/ w = F!Free(0, 4) \/ w = F!hold(h)
  BY <1>1
<1>2. CASE WaitsFor(w, 0, limit) \/ WaitsFor(w, 1, limit)
  BY <1>2
<1>3. CASE \/ w = F!shift_out(1, FALSE, TRUE) \/ w = F!check_tx(1)
           \/ w = F!SAMPLE \/ w = F!TRAP
  BY <1>3
<1>4. CASE w.op \in {"IN", "BRANCH", "DJNZ", "LOAD", "LAST_BYTE", "BYTE_LOOP", "STREAM", "JUMP"}
  BY <1>4
<1>5. CASE w = F!PULL /\ l \in {"next", "open"}
  BY <1>5 DEF Kind, HeldLabels
<1>6. CASE w = F!PUSH /\ l = "ninth"
  BY <1>6 DEF Kind, HeldLabels
<1>7. CASE w = F!HALT /\ l = "done"
  BY <1>7 DEF Kind, HeldLabels, RisingLabels, HighLabels, IdleLabels, DoneLabels
<1> QED
  BY <1>0, <1>1, <1>2, <1>3, <1>4, <1>5, <1>6, <1>7

LEMMA WordAt ==
  ASSUME NEW w, NEW l, NEW n, NEW t, NEW h, At(l), Acted(w, h), Fits(w, l, n, t, h, job.limit),
         job.limit \in 1 .. MaxHold, wait_elapsed \in 0 .. job.limit - 1,
         w.op \notin {"HALT", "TRAP"}
  PROVE  Led(w, l, n, t)
<1>1. CASE w = F!drive({}, {}, h) /\ l = "idle" /\ n = "idle_high"
  BY <1>1, DriveAt DEF Led
<1>2. CASE /\ WaitsFor(w, 0, job.limit) \/ WaitsFor(w, 1, job.limit)
           /\ l = "idle_high" /\ n = l
  <2>1. PICK lane \in {0, 1} : WaitsFor(w, lane, job.limit)
    BY <1>2
  <2>2. At("idle_high")' /\ pc' \in {pc, pc + 1} /\ Framed
    BY <1>2, <2>1, WaitIdle
  <2> QED
    BY <1>2, <2>2 DEF Led
<1>3. CASE /\ w = F!Low(1, h) /\ \/ l = "idle_high" /\ n = "begun"
                                 \/ l = "again_high" /\ n = "again_begun"
                                 \/ Sets(l, n)
  <2>1. At(n)' /\ pc' = pc + 1 /\ Framed
    BY <1>3, LowSDA
  <2> QED
    BY <2>1 DEF Led
<1>4. CASE w = F!Low(0, h) /\ Drops(l, n)
  <2>1. At(n)' /\ pc' = pc + 1 /\ Framed
    BY <1>4, LowSCL
  <2> QED
    BY <2>1 DEF Led
<1>5. CASE w = F!Free(1, h) /\ (Frees(l, n) \/ Closes(l, n))
  <2>1. At(n)' /\ pc' = pc + 1 /\ Framed
    BY <1>5, FreeSDA
  <2> QED
    BY <2>1 DEF Led
<1>6. CASE w = F!Free(0, 4) /\ Releases(l, n)
  <2>1. At(n)' /\ pc' = pc + 1 /\ Framed
    BY <1>6, FreeSCL
  <2> QED
    BY <2>1 DEF Led
<1>7. CASE WaitsFor(w, 0, job.limit) /\ Climbs(l, n)
  <2>1. /\ (At(n)' /\ pc' = pc + 1 /\ wait_elapsed' = 0) \/ (At(l)' /\ pc' = pc)
        /\ Framed
    BY <1>7, WaitSCL
  <2> QED
    BY <2>1 DEF Led
<1>8. CASE WaitsFor(w, 1, job.limit) /\ l = "again_waits" /\ n = "again_high"
  BY <1>8, WaitSDA DEF Led
<1>9. CASE w = F!hold(h) /\ Waits(l, n)
  <2>1. At(n)' /\ pc' = pc + 1 /\ Framed
    BY <1>9, HoldAt
  <2> QED
    BY <2>1 DEF Led
<1>10. CASE w = F!shift_out(1, FALSE, TRUE) /\ l = "out" /\ n = "set"
  <2>1. At("set")' /\ pc' = pc + 1 /\ Framed
    BY <1>10, OutAt
  <2> QED
    BY <1>10, <2>1 DEF Led
<1>11. CASE /\ n = l
            /\ \/ w.op = "IN" /\ l = "bit_high"
               \/ w.op = "CHECK_TX" /\ l = "send_high"
               \/ w.op = "SAMPLE" /\ l = "answer_high"
               \/ w.op = "BRANCH" /\ l = "answer_high" /\ t = "failed_high"
               \/ w.op = "PUSH" /\ l = "ninth"
               \/ w.op = "LAST_BYTE" /\ l = "ninth" /\ t = l
               \/ w.op = "STREAM" /\ l = "idle"
  <2>1. Led(w, l, l, t)
    BY <1>11, LooksAt
  <2> QED
    BY <1>11, <2>1
<1>12. CASE \/ w.op = "BYTE_LOOP" /\ l = "open" /\ n = "closing" /\ t \in {"open", "next"}
            \/ w.op = "BYTE_LOOP" /\ l = "between" /\ n = "closing" /\ t = l
            \/ w.op = "STREAM" /\ l = "closing" /\ n = "between"
  BY <1>12, BetweenAt
<1>13. CASE /\ w.op = "DJNZ"
            /\ \/ l = "sent" /\ n = "let" /\ t = "out"
               \/ l = "bit_over" /\ n = "ninth" /\ t = "bit"
  BY <1>13, BitAt
<1>14. CASE \/ /\ w.op = "LOAD" /\ w.count = 8
               /\ \/ l \in {"fresh", "open"} /\ n = "out"
                  \/ l = "between" /\ n = "clear"
            \/ w.op = "PULL" /\ ((l = "next" /\ n = "pulled") \/ (l = "open" /\ n = "out"))
            \/ w.op = "LAST_BYTE" /\ l = "pulled" /\ n = "out" /\ t = "parting"
            \/ w.op = "JUMP" /\ l = "rejoined" /\ t = "out"
  BY <1>14, ByteAt
<1>15. /\ w = F!check_tx(1) => w.op = "CHECK_TX"
       /\ w = F!SAMPLE => w.op = "SAMPLE"
       /\ w = F!PULL => w.op = "PULL"
       /\ w = F!PUSH => w.op = "PUSH"
       /\ w = F!HALT => w.op = "HALT"
       /\ w = F!TRAP => w.op = "TRAP"
  BY DEF F!check_tx, F!SAMPLE, F!PULL, F!PUSH, F!HALT, F!TRAP, F!Word
<1> QED
  BY <1>1, <1>2, <1>3, <1>4, <1>5, <1>6, <1>7, <1>8, <1>9, <1>10, <1>11, <1>12, <1>13, <1>14,
     <1>15 DEF Fits

(***************************************************************************)
(* The labels of the generators' pieces and programs.                      *)
(***************************************************************************)
StartShape == <<"idle", "idle_high", "idle_high", "idle_high", "begun">>
SendShape(look) ==
  <<"out", "set", "send", "send_rising", "send_high", "send_high", "send_high", "sent",
    "let", "answer", "answer_rising", "answer_high">>
  \o look \o <<"answer_high", "answer_high">>
ReadShape ==
  <<"between", "clear", "bit", "bit_rising", "bit_high", "bit_high", "bit_high", "bit_over",
    "ninth", "ninth", "ninth", "ninth", "ninth_rising", "ninth_high", "ninth_high",
    "between", "between">>
FinishShape ==
  <<"closing", "closing", "stop_rising", "stop_high", "stop_high", "done",
    "failed_high", "failed", "failed", "failed_rising", "failed_stop", "failed_stop",
    "failed_done">>
AgainShape ==
  <<"parting", "again", "again_rising", "again_waits", "again_high", "again_high",
    "again_begun", "rejoined">>

WriteShape ==
  StartShape \o <<"fresh">> \o SendShape(<<"answer_high">>)
  \o <<"open">> \o SendShape(<<"answer_high">>) \o FinishShape
WriteStreamShape ==
  <<"idle">> \o StartShape \o <<"fresh">> \o SendShape(<< >>)
  \o <<"open">> \o SendShape(<< >>) \o <<"open">> \o FinishShape
ReadsShape ==
  <<"idle">> \o StartShape \o <<"fresh">> \o SendShape(<< >>) \o ReadShape \o FinishShape
TransactionShape ==
  <<"idle">> \o StartShape \o <<"next", "pulled">> \o SendShape(<< >>)
  \o <<"open", "closing">> \o ReadShape \o FinishShape \o AgainShape

Fit(p, T, k, h, limit) ==
  Fits(p[k], Label(T, k), Label(T, k + 1), Label(T, p[k].target + 1), h, limit)

\* From address at the program has the m words of s, with the labels of U.
Piece(p, T, at, s, U, m) == \A i \in 1 .. m : p[at + i] = s[i] /\ Label(T, at + i) = U[i]

\* A word of a piece, but for the last, has its label and the next one there.
Row(T, s, U, i, h, limit) == Fits(s[i], U[i], U[i + 1], Label(T, s[i].target + 1), h, limit)
Final(T, s, U, m, n, h, limit) == Fits(s[m], U[m], n, Label(T, s[m].target + 1), h, limit)

LEMMA PieceFits ==
  ASSUME NEW p, NEW T, NEW at \in Nat, NEW s, NEW U, NEW m \in Nat \ {0}, NEW h, NEW limit,
         Piece(p, T, at, s, U, m), Final(T, s, U, m, Label(T, at + m + 1), h, limit),
         \A i \in 1 .. m - 1 : Row(T, s, U, i, h, limit)
  PROVE  \A i \in 1 .. m : Fit(p, T, at + i, h, limit)
<1>1. Fit(p, T, at + m, h, limit)
  BY DEF Piece, Fit, Final
<1>2. ASSUME NEW i \in 1 .. m - 1 PROVE Fit(p, T, at + i, h, limit)
  <2>1. i \in 1 .. m /\ i + 1 \in 1 .. m /\ at + i + 1 = at + (i + 1)
    OBVIOUS
  <2>2. p[at + i] = s[i] /\ Label(T, at + i) = U[i] /\ Label(T, at + i + 1) = U[i + 1]
    BY ONLY <2>1, Piece(p, T, at, s, U, m) DEF Piece
  <2>3. Row(T, s, U, i, h, limit)
    OBVIOUS
  <2> QED
    BY ONLY <2>2, <2>3 DEF Fit, Row
<1>3. \A i \in 1 .. m : i = m \/ i \in 1 .. m - 1
  OBVIOUS
<1> QED
  BY <1>1, <1>2, <1>3

(***************************************************************************)
(* Every piece fits wherever a program has it, if the addresses it names   *)
(* are where they should be.                                               *)
(***************************************************************************)
StartRows(s, h, limit) ==
  /\ s[1] = F!drive({}, {}, h) /\ WaitsFor(s[2], 0, limit) /\ WaitsFor(s[3], 1, limit)
  /\ s[4] = F!Low(1, h) /\ s[5] = F!Low(0, h)

LEMMA StartWords ==
  ASSUME NEW h, NEW limit
  PROVE  StartRows(F!i2c_start(h, limit), h, limit)
BY DEF StartRows, WaitsFor, F!i2c_start, F!wait_pin

LEMMA StartFits ==
  ASSUME NEW p, NEW T, NEW at \in Nat, NEW h, NEW limit, NEW s, NEW U,
         StartRows(s, h, limit), U = StartShape, Piece(p, T, at, s, U, 5),
         Label(T, at + 6) \in {"fresh", "next"}
  PROVE  \A i \in 1 .. 5 : Fit(p, T, at + i, h, limit)
<1>1. /\ U[1] = "idle" /\ U[2] = "idle_high" /\ U[3] = "idle_high" /\ U[4] = "idle_high"
      /\ U[5] = "begun"
  BY DEF StartShape
<1> DEFINE fit(i, n) == Fits(s[i], U[i], n, Label(T, s[i].target + 1), h, limit)
<1>2. fit(1, U[2]) /\ fit(2, U[3]) /\ fit(3, U[4]) /\ fit(4, U[5])
  BY ONLY <1>1, StartRows(s, h, limit)
  DEF StartRows, Fits, Climbs, Sets
<1>3. fit(5, Label(T, at + 6))
  BY ONLY <1>1, StartRows(s, h, limit), Label(T, at + 6) \in {"fresh", "next"}
  DEF StartRows, Fits, Drops
<1> HIDE DEF fit
<1>4. ASSUME NEW i \in 1 .. 5 - 1 PROVE fit(i, U[i + 1])
  <2>1. i \in {1, 2, 3, 4}
    BY ONLY i \in 1 .. 5 - 1
  <2> QED
    BY ONLY <2>1, <1>2
<1>5. Final(T, s, U, 5, Label(T, at + 5 + 1), h, limit)
  <2>1. at + 5 + 1 = at + 6
    OBVIOUS
  <2> QED
    BY ONLY <2>1, <1>3 DEF Final, fit
<1>6. \A i \in 1 .. 5 - 1 : Row(T, s, U, i, h, limit)
  BY ONLY <1>4 DEF Row, fit
<1>7. 5 \in Nat \ {0}
  OBVIOUS
<1> QED
  BY ONLY <1>5, <1>6, <1>7, PieceFits, at \in Nat, Piece(p, T, at, s, U, 5)

SendRows(s, start, error, h, limit) ==
  /\ s[1] = F!shift_out(1, FALSE, TRUE) /\ s[2] = F!hold(h) /\ s[3] = F!Free(0, 4)
  /\ WaitsFor(s[4], 0, limit) /\ s[5] = F!hold(h) /\ s[6] = F!check_tx(1)
  /\ s[7] = F!Low(0, h) /\ s[8].op = "DJNZ" /\ s[8].target = start /\ s[9] = F!Free(1, h)
  /\ s[10] = F!Free(0, 4) /\ WaitsFor(s[11], 0, limit) /\ s[12] = F!hold(h)
  /\ s[13].op = "BRANCH" /\ s[13].lane = 1 /\ s[13].level = TRUE /\ s[13].target = error
  /\ s[14] = F!Low(0, h)

LEMMA SendWords ==
  ASSUME NEW start, NEW error, NEW h, NEW limit
  PROVE  SendRows(F!SendByte(start, error, h, limit, << >>), start, error, h, limit)
BY DEF SendRows, WaitsFor, F!SendByte, F!ReleaseClock, F!wait_pin, F!branch_pin, F!djnz

LEMMA SendFits ==
  ASSUME NEW p, NEW T, NEW at \in Nat, NEW start, NEW error, NEW h, NEW limit, NEW s, NEW U,
         SendRows(s, start, error, h, limit), U = SendShape(<< >>),
         Piece(p, T, at, s, U, 14), Label(T, start + 1) = "out",
         Label(T, error + 1) = "failed_high",
         Label(T, at + 15) \in {"open", "between", "closing"}
  PROVE  \A i \in 1 .. 14 : Fit(p, T, at + i, h, limit)
<1>1. /\ U[1] = "out" /\ U[2] = "set" /\ U[3] = "send" /\ U[4] = "send_rising"
      /\ U[5] = "send_high" /\ U[6] = "send_high" /\ U[7] = "send_high" /\ U[8] = "sent"
      /\ U[9] = "let" /\ U[10] = "answer" /\ U[11] = "answer_rising"
      /\ U[12] = "answer_high" /\ U[13] = "answer_high" /\ U[14] = "answer_high"
  BY DEF SendShape
<1> DEFINE fit(i, n) == Fits(s[i], U[i], n, Label(T, s[i].target + 1), h, limit)
<1>2. fit(1, U[2]) /\ fit(2, U[3]) /\ fit(3, U[4]) /\ fit(4, U[5])
  BY ONLY <1>1, SendRows(s, start, error, h, limit)
  DEF SendRows, Fits, Waits, Releases, Climbs
<1>3. fit(5, U[6]) /\ fit(6, U[7]) /\ fit(7, U[8])
  BY ONLY <1>1, SendRows(s, start, error, h, limit)
  DEF SendRows, Fits, Waits, Drops
<1>4. fit(8, U[9])
  BY ONLY <1>1, SendRows(s, start, error, h, limit), Label(T, start + 1) = "out"
  DEF SendRows, Fits
<1>5. fit(9, U[10]) /\ fit(10, U[11]) /\ fit(11, U[12]) /\ fit(12, U[13])
  BY ONLY <1>1, SendRows(s, start, error, h, limit)
  DEF SendRows, Fits, Frees, Closes, Releases, Climbs, Waits
<1>6. fit(13, U[14])
  BY ONLY <1>1, SendRows(s, start, error, h, limit), Label(T, error + 1) = "failed_high"
  DEF SendRows, Fits
<1>7. fit(14, Label(T, at + 15))
  BY ONLY <1>1, SendRows(s, start, error, h, limit),
     Label(T, at + 15) \in {"open", "between", "closing"}
  DEF SendRows, Fits, Drops
<1> HIDE DEF fit
<1>8. ASSUME NEW i \in 1 .. 14 - 1 PROVE fit(i, U[i + 1])
  <2>1. i \in {1, 2, 3, 4, 5, 6, 7, 8, 9, 10, 11, 12, 13}
    BY ONLY i \in 1 .. 14 - 1
  <2> QED
    BY ONLY <2>1, <1>2, <1>3, <1>4, <1>5, <1>6
<1>9. Final(T, s, U, 14, Label(T, at + 14 + 1), h, limit)
  <2>1. at + 14 + 1 = at + 15
    OBVIOUS
  <2> QED
    BY ONLY <2>1, <1>7 DEF Final, fit
<1>10. \A i \in 1 .. 14 - 1 : Row(T, s, U, i, h, limit)
  BY ONLY <1>8 DEF Row, fit
<1>11. 14 \in Nat \ {0}
  OBVIOUS
<1> QED
  BY ONLY <1>9, <1>10, <1>11, PieceFits, at \in Nat, Piece(p, T, at, s, U, 14)

SampledRows(s, start, error, h, limit) ==
  /\ s[1] = F!shift_out(1, FALSE, TRUE) /\ s[2] = F!hold(h) /\ s[3] = F!Free(0, 4)
  /\ WaitsFor(s[4], 0, limit) /\ s[5] = F!hold(h) /\ s[6] = F!check_tx(1)
  /\ s[7] = F!Low(0, h) /\ s[8].op = "DJNZ" /\ s[8].target = start /\ s[9] = F!Free(1, h)
  /\ s[10] = F!Free(0, 4) /\ WaitsFor(s[11], 0, limit) /\ s[12] = F!hold(h)
  /\ s[13] = F!SAMPLE
  /\ s[14].op = "BRANCH" /\ s[14].lane = 1 /\ s[14].level = TRUE /\ s[14].target = error
  /\ s[15] = F!Low(0, h)

LEMMA SampledWords ==
  ASSUME NEW start, NEW error, NEW h, NEW limit
  PROVE  SampledRows(F!SendByte(start, error, h, limit, <<F!SAMPLE>>), start, error, h, limit)
BY DEF SampledRows, WaitsFor, F!SendByte, F!ReleaseClock, F!wait_pin, F!branch_pin, F!djnz

LEMMA SampledFits ==
  ASSUME NEW p, NEW T, NEW at \in Nat, NEW start, NEW error, NEW h, NEW limit, NEW s, NEW U,
         SampledRows(s, start, error, h, limit), U = SendShape(<<"answer_high">>),
         Piece(p, T, at, s, U, 15), Label(T, start + 1) = "out",
         Label(T, error + 1) = "failed_high",
         Label(T, at + 16) \in {"open", "between", "closing"}
  PROVE  \A i \in 1 .. 15 : Fit(p, T, at + i, h, limit)
<1>1. /\ U[1] = "out" /\ U[2] = "set" /\ U[3] = "send" /\ U[4] = "send_rising"
      /\ U[5] = "send_high" /\ U[6] = "send_high" /\ U[7] = "send_high" /\ U[8] = "sent"
      /\ U[9] = "let" /\ U[10] = "answer" /\ U[11] = "answer_rising"
      /\ U[12] = "answer_high" /\ U[13] = "answer_high" /\ U[14] = "answer_high"
      /\ U[15] = "answer_high"
  BY DEF SendShape
<1> DEFINE fit(i, n) == Fits(s[i], U[i], n, Label(T, s[i].target + 1), h, limit)
<1>2. fit(1, U[2]) /\ fit(2, U[3]) /\ fit(3, U[4]) /\ fit(4, U[5])
  BY ONLY <1>1, SampledRows(s, start, error, h, limit)
  DEF SampledRows, Fits, Waits, Releases, Climbs
<1>3. fit(5, U[6]) /\ fit(6, U[7]) /\ fit(7, U[8])
  BY ONLY <1>1, SampledRows(s, start, error, h, limit)
  DEF SampledRows, Fits, Waits, Drops
<1>4. fit(8, U[9])
  BY ONLY <1>1, SampledRows(s, start, error, h, limit), Label(T, start + 1) = "out"
  DEF SampledRows, Fits
<1>5. fit(9, U[10]) /\ fit(10, U[11]) /\ fit(11, U[12]) /\ fit(12, U[13])
  BY ONLY <1>1, SampledRows(s, start, error, h, limit)
  DEF SampledRows, Fits, Frees, Closes, Releases, Climbs, Waits
<1>6. fit(13, U[14])
  BY ONLY <1>1, SampledRows(s, start, error, h, limit)
  DEF SampledRows, Fits
<1>7. fit(14, U[15])
  BY ONLY <1>1, SampledRows(s, start, error, h, limit), Label(T, error + 1) = "failed_high"
  DEF SampledRows, Fits
<1>8. fit(15, Label(T, at + 16))
  BY ONLY <1>1, SampledRows(s, start, error, h, limit),
     Label(T, at + 16) \in {"open", "between", "closing"}
  DEF SampledRows, Fits, Drops
<1> HIDE DEF fit
<1>9. ASSUME NEW i \in 1 .. 15 - 1 PROVE fit(i, U[i + 1])
  <2>1. i \in {1, 2, 3, 4, 5, 6, 7, 8, 9, 10, 11, 12, 13, 14}
    BY ONLY i \in 1 .. 15 - 1
  <2> QED
    BY ONLY <2>1, <1>2, <1>3, <1>4, <1>5, <1>6, <1>7
<1>10. Final(T, s, U, 15, Label(T, at + 15 + 1), h, limit)
  <2>1. at + 15 + 1 = at + 16
    OBVIOUS
  <2> QED
    BY ONLY <2>1, <1>8 DEF Final, fit
<1>11. \A i \in 1 .. 15 - 1 : Row(T, s, U, i, h, limit)
  BY ONLY <1>9 DEF Row, fit
<1>12. 15 \in Nat \ {0}
  OBVIOUS
<1> QED
  BY ONLY <1>10, <1>11, <1>12, PieceFits, at \in Nat, Piece(p, T, at, s, U, 15)

ReadsRows(s, b, h, limit) ==
  /\ s[1].op = "LOAD" /\ s[1].count = 8 /\ s[2] = F!Free(1, h) /\ s[3] = F!Free(0, 4)
  /\ WaitsFor(s[4], 0, limit) /\ s[5] = F!hold(h) /\ s[6].op = "IN" /\ s[6].lane = 1
  /\ s[7] = F!Low(0, h)
  /\ s[8].op = "DJNZ" /\ s[8].target = b + 2 /\ s[9] = F!PUSH
  /\ s[10].op = "LAST_BYTE" /\ s[10].target = b + 11 /\ s[11] = F!Low(1, h)
  /\ s[12] = F!Free(0, 4) /\ WaitsFor(s[13], 0, limit) /\ s[14] = F!hold(h)
  /\ s[15] = F!Low(0, h) /\ s[16] = F!Free(1, h)
  /\ s[17].op = "BYTE_LOOP" /\ s[17].target = b

LEMMA ReadsWords ==
  ASSUME NEW b \in Nat, NEW h, NEW limit, NEW s, s = F!ByteReads(b, h, limit)
  PROVE  ReadsRows(s, b, h, limit)
<1>1. s[1] = F!load_byte(0) /\ s[2] = F!Free(1, h) /\ s[3] = F!Free(0, 4) /\ s[5] = F!hold(h)
  BY DEF F!ByteReads, F!ReleaseClock
<1>2. WaitsFor(s[4], 0, limit) /\ WaitsFor(s[13], 0, limit)
  BY DEF F!ByteReads, F!ReleaseClock, F!wait_pin, WaitsFor
<1>3. s[6].op = "IN" /\ s[6].lane = 1
  BY DEF F!ByteReads, F!ReleaseClock, F!shift_in
<1>4. s[7] = F!Low(0, h) /\ s[8] = F!djnz(b + 2) /\ s[9] = F!PUSH
      /\ s[10] = F!last_byte(b + 2 + 7 + 2)
  BY DEF F!ByteReads, F!ReleaseClock
<1>5. /\ s[11] = F!Low(1, h) /\ s[12] = F!Free(0, 4) /\ s[14] = F!hold(h)
      /\ s[15] = F!Low(0, h)
      /\ s[16] = F!Free(1, h) /\ s[17] = F!byte_loop(b)
  BY DEF F!ByteReads, F!ReleaseClock
<1>6. b + 2 + 7 + 2 = b + 11
  OBVIOUS
<1> QED
  BY ONLY <1>1, <1>2, <1>3, <1>4, <1>5, <1>6
  DEF ReadsRows, F!load_byte, F!djnz, F!last_byte, F!byte_loop

LEMMA ReadsFits ==
  ASSUME NEW p, NEW T, NEW at \in Nat, NEW b \in Nat, NEW h, NEW limit, NEW s, NEW U,
         ReadsRows(s, b, h, limit), U = ReadShape, Piece(p, T, at, s, U, 17),
         Label(T, b + 2 + 1) = "bit", Label(T, b + 11 + 1) = "ninth",
         Label(T, b + 1) = "between", Label(T, at + 18) = "closing"
  PROVE  \A i \in 1 .. 17 : Fit(p, T, at + i, h, limit)
<1>1. /\ U[1] = "between" /\ U[2] = "clear" /\ U[3] = "bit" /\ U[4] = "bit_rising"
      /\ U[5] = "bit_high" /\ U[6] = "bit_high" /\ U[7] = "bit_high" /\ U[8] = "bit_over"
      /\ U[9] = "ninth" /\ U[10] = "ninth" /\ U[11] = "ninth" /\ U[12] = "ninth"
      /\ U[13] = "ninth_rising" /\ U[14] = "ninth_high" /\ U[15] = "ninth_high"
      /\ U[16] = "between" /\ U[17] = "between"
  BY DEF ReadShape
<1> DEFINE fit(i, n) == Fits(s[i], U[i], n, Label(T, s[i].target + 1), h, limit)
<1>2. fit(1, U[2]) /\ fit(2, U[3]) /\ fit(3, U[4]) /\ fit(4, U[5])
  BY ONLY <1>1, ReadsRows(s, b, h, limit)
  DEF ReadsRows, Fits, Frees, Closes, Releases, Climbs
<1>3. fit(5, U[6]) /\ fit(6, U[7]) /\ fit(7, U[8])
  BY ONLY <1>1, ReadsRows(s, b, h, limit)
  DEF ReadsRows, Fits, Waits, Drops
<1>4. fit(8, U[9])
  BY ONLY <1>1, ReadsRows(s, b, h, limit), Label(T, b + 2 + 1) = "bit"
  DEF ReadsRows, Fits
<1>5. fit(9, U[10])
  BY ONLY <1>1, ReadsRows(s, b, h, limit)
  DEF ReadsRows, Fits
<1>6. fit(10, U[11])
  BY ONLY <1>1, ReadsRows(s, b, h, limit), Label(T, b + 11 + 1) = "ninth"
  DEF ReadsRows, Fits
<1>7. fit(11, U[12]) /\ fit(12, U[13]) /\ fit(13, U[14])
  BY ONLY <1>1, ReadsRows(s, b, h, limit)
  DEF ReadsRows, Fits, Sets, Releases, Climbs
<1>8. fit(14, U[15]) /\ fit(15, U[16]) /\ fit(16, U[17])
  BY ONLY <1>1, ReadsRows(s, b, h, limit)
  DEF ReadsRows, Fits, Waits, Drops, Frees, Closes
<1>9. fit(17, Label(T, at + 18))
  BY ONLY <1>1, ReadsRows(s, b, h, limit), Label(T, b + 1) = "between",
     Label(T, at + 18) = "closing"
  DEF ReadsRows, Fits
<1> HIDE DEF fit
<1>10. ASSUME NEW i \in 1 .. 17 - 1 PROVE fit(i, U[i + 1])
  <2>1. i \in {1, 2, 3, 4, 5, 6, 7, 8, 9, 10, 11, 12, 13, 14, 15, 16}
    BY ONLY i \in 1 .. 17 - 1
  <2> QED
    BY ONLY <2>1, <1>2, <1>3, <1>4, <1>5, <1>6, <1>7, <1>8
<1>11. Final(T, s, U, 17, Label(T, at + 17 + 1), h, limit)
  <2>1. at + 17 + 1 = at + 18
    OBVIOUS
  <2> QED
    BY ONLY <2>1, <1>9 DEF Final, fit
<1>12. \A i \in 1 .. 17 - 1 : Row(T, s, U, i, h, limit)
  BY ONLY <1>10 DEF Row, fit
<1>13. 17 \in Nat \ {0}
  OBVIOUS
<1> QED
  BY ONLY <1>11, <1>12, <1>13, PieceFits, at \in Nat, Piece(p, T, at, s, U, 17)

FinishRows(s, h, limit) ==
  /\ s[1] = F!Low(1, h) /\ s[2] = F!Free(0, 4) /\ WaitsFor(s[3], 0, limit)
  /\ s[4] = F!hold(h) /\ s[5] = F!Free(1, h) /\ s[6] = F!HALT /\ s[7] = F!Low(0, h)
  /\ s[8] = F!Low(1, h) /\ s[9] = F!Free(0, 4) /\ WaitsFor(s[10], 0, limit)
  /\ s[11] = F!hold(h) /\ s[12] = F!Free(1, h) /\ s[13] = F!TRAP

LEMMA FinishWords ==
  ASSUME NEW h, NEW limit
  PROVE  FinishRows(F!i2c_finish(h, limit), h, limit)
BY DEF FinishRows, WaitsFor, F!i2c_finish, F!i2c_stop, F!ReleaseClock, F!wait_pin

LEMMA FinishFits ==
  ASSUME NEW p, NEW T, NEW at \in Nat, NEW h, NEW limit, NEW s, NEW U,
         FinishRows(s, h, limit), U = FinishShape, Piece(p, T, at, s, U, 13)
  PROVE  \A i \in 1 .. 13 : Fit(p, T, at + i, h, limit)
<1>1. /\ U[1] = "closing" /\ U[2] = "closing" /\ U[3] = "stop_rising" /\ U[4] = "stop_high"
      /\ U[5] = "stop_high" /\ U[6] = "done" /\ U[7] = "failed_high" /\ U[8] = "failed"
      /\ U[9] = "failed" /\ U[10] = "failed_rising" /\ U[11] = "failed_stop"
      /\ U[12] = "failed_stop" /\ U[13] = "failed_done"
  BY DEF FinishShape
<1> DEFINE fit(i, n) == Fits(s[i], U[i], n, Label(T, s[i].target + 1), h, limit)
<1>2. fit(1, U[2]) /\ fit(2, U[3]) /\ fit(3, U[4]) /\ fit(4, U[5])
  BY ONLY <1>1, FinishRows(s, h, limit)
  DEF FinishRows, Fits, Sets, Releases, Climbs, Waits
<1>3. fit(5, U[6]) /\ fit(6, U[7]) /\ fit(7, U[8])
  BY ONLY <1>1, FinishRows(s, h, limit)
  DEF FinishRows, Fits, Frees, Closes, Drops
<1>4. fit(8, U[9]) /\ fit(9, U[10]) /\ fit(10, U[11]) /\ fit(11, U[12])
  BY ONLY <1>1, FinishRows(s, h, limit)
  DEF FinishRows, Fits, Sets, Releases, Climbs, Waits
<1>5. fit(12, U[13])
  BY ONLY <1>1, FinishRows(s, h, limit)
  DEF FinishRows, Fits, Frees, Closes
<1>6. fit(13, Label(T, at + 14))
  BY ONLY <1>1, FinishRows(s, h, limit)
  DEF FinishRows, Fits
<1> HIDE DEF fit
<1>7. ASSUME NEW i \in 1 .. 13 - 1 PROVE fit(i, U[i + 1])
  <2>1. i \in {1, 2, 3, 4, 5, 6, 7, 8, 9, 10, 11, 12}
    BY ONLY i \in 1 .. 13 - 1
  <2> QED
    BY ONLY <2>1, <1>2, <1>3, <1>4, <1>5
<1>8. Final(T, s, U, 13, Label(T, at + 13 + 1), h, limit)
  <2>1. at + 13 + 1 = at + 14
    OBVIOUS
  <2> QED
    BY ONLY <2>1, <1>6 DEF Final, fit
<1>9. \A i \in 1 .. 13 - 1 : Row(T, s, U, i, h, limit)
  BY ONLY <1>7 DEF Row, fit
<1>10. 13 \in Nat \ {0}
  OBVIOUS
<1> QED
  BY ONLY <1>8, <1>9, <1>10, PieceFits, at \in Nat, Piece(p, T, at, s, U, 13)

AgainRows(s, send, h, limit) ==
  /\ s[1] = F!Free(1, h) /\ s[2] = F!Free(0, 4) /\ WaitsFor(s[3], 0, limit)
  /\ WaitsFor(s[4], 1, limit) /\ s[5] = F!hold(h) /\ s[6] = F!Low(1, h)
  /\ s[7] = F!Low(0, h) /\ s[8].op = "JUMP" /\ s[8].target = send

LEMMA AgainWords ==
  ASSUME NEW send, NEW h, NEW limit
  PROVE  AgainRows(F!Restart(send, h, limit), send, h, limit)
BY DEF AgainRows, WaitsFor, F!Restart, F!wait_pin, F!jump

LEMMA AgainFits ==
  ASSUME NEW p, NEW T, NEW at \in Nat, NEW send, NEW h, NEW limit, NEW s, NEW U,
         AgainRows(s, send, h, limit), U = AgainShape, Piece(p, T, at, s, U, 8),
         Label(T, send + 1) = "out"
  PROVE  \A i \in 1 .. 8 : Fit(p, T, at + i, h, limit)
<1>1. /\ U[1] = "parting" /\ U[2] = "again" /\ U[3] = "again_rising" /\ U[4] = "again_waits"
      /\ U[5] = "again_high" /\ U[6] = "again_high" /\ U[7] = "again_begun"
      /\ U[8] = "rejoined"
  BY DEF AgainShape
<1> DEFINE fit(i, n) == Fits(s[i], U[i], n, Label(T, s[i].target + 1), h, limit)
<1>2. fit(1, U[2]) /\ fit(2, U[3]) /\ fit(3, U[4]) /\ fit(4, U[5])
  BY ONLY <1>1, AgainRows(s, send, h, limit)
  DEF AgainRows, Fits, Frees, Closes, Releases, Climbs
<1>3. fit(5, U[6]) /\ fit(6, U[7]) /\ fit(7, U[8])
  BY ONLY <1>1, AgainRows(s, send, h, limit)
  DEF AgainRows, Fits, Waits, Sets, Drops
<1>4. fit(8, Label(T, at + 9))
  BY ONLY <1>1, AgainRows(s, send, h, limit), Label(T, send + 1) = "out"
  DEF AgainRows, Fits
<1> HIDE DEF fit
<1>5. ASSUME NEW i \in 1 .. 8 - 1 PROVE fit(i, U[i + 1])
  <2>1. i \in {1, 2, 3, 4, 5, 6, 7}
    BY ONLY i \in 1 .. 8 - 1
  <2> QED
    BY ONLY <2>1, <1>2, <1>3
<1>6. Final(T, s, U, 8, Label(T, at + 8 + 1), h, limit)
  <2>1. at + 8 + 1 = at + 9
    OBVIOUS
  <2> QED
    BY ONLY <2>1, <1>4 DEF Final, fit
<1>7. \A i \in 1 .. 8 - 1 : Row(T, s, U, i, h, limit)
  BY ONLY <1>5 DEF Row, fit
<1>8. 8 \in Nat \ {0}
  OBVIOUS
<1> QED
  BY ONLY <1>6, <1>7, <1>8, PieceFits, at \in Nat, Piece(p, T, at, s, U, 8)

LEMMA PieceOf ==
  ASSUME NEW p, NEW T, NEW n \in Nat, NEW at \in Nat, NEW m \in Nat, NEW s, NEW U,
         at + m <= n, DOMAIN T = 1 .. n,
         \A i \in 1 .. m : p[at + i] = s[i], \A i \in 1 .. m : T[at + i] = U[i]
  PROVE  Piece(p, T, at, s, U, m)
BY DEF Piece, Label

\* A program whose words carry labels that fit, the first of them on an idle bus.
Typed(p, T, h, limit) ==
  /\ DOMAIN T = DOMAIN p /\ 1 \in DOMAIN p /\ T[1] = "idle"
  /\ \A k \in DOMAIN p : Fit(p, T, k, h, limit)

(***************************************************************************)
(* The words and the labels of each program, piece by piece.               *)
(***************************************************************************)
WriteHas(p, address, byte, h, limit) ==
  /\ Len(p) = 50 /\ DOMAIN p = 1 .. 50
  /\ \A i \in 1 .. 5 : p[0 + i] = F!i2c_start(h, limit)[i]
  /\ \A i \in 1 .. 15 : p[6 + i] = F!SendByte(6, 43, h, limit, <<F!SAMPLE>>)[i]
  /\ \A i \in 1 .. 15 : p[22 + i] = F!SendByte(22, 43, h, limit, <<F!SAMPLE>>)[i]
  /\ \A i \in 1 .. 13 : p[37 + i] = F!i2c_finish(h, limit)[i]
  /\ p[6] = F!load_byte(2 * address) /\ p[22] = F!load_byte(byte)

LEMMA WriteWords ==
  ASSUME NEW address, NEW byte, NEW h, NEW limit, NEW p,
         p = F!i2c_write(address, byte, h, limit)
  PROVE  WriteHas(p, address, byte, h, limit)
<1> USE DEF F!i2c_write, F!SendLength, F!ErrorOffset
<1>1. Len(p) = 50 /\ DOMAIN p = 1 .. 50
  BY DEF F!i2c_start, F!i2c_send, F!SendByte, F!ByteReads, F!i2c_finish, F!i2c_stop,
         F!ReleaseClock, F!Restart
<1>2. \A i \in 1 .. 5 : p[0 + i] = F!i2c_start(h, limit)[i]
  BY DEF F!i2c_start, F!i2c_send, F!SendByte, F!ByteReads, F!i2c_finish, F!i2c_stop,
         F!ReleaseClock, F!Restart
<1>3. \A i \in 1 .. 15 : p[6 + i] = F!SendByte(6, 43, h, limit, <<F!SAMPLE>>)[i]
  BY DEF F!i2c_start, F!i2c_send, F!SendByte, F!ByteReads, F!i2c_finish, F!i2c_stop,
         F!ReleaseClock, F!Restart
<1>4. \A i \in 1 .. 15 : p[22 + i] = F!SendByte(22, 43, h, limit, <<F!SAMPLE>>)[i]
  BY DEF F!i2c_start, F!i2c_send, F!SendByte, F!ByteReads, F!i2c_finish, F!i2c_stop,
         F!ReleaseClock, F!Restart
<1>5. \A i \in 1 .. 13 : p[37 + i] = F!i2c_finish(h, limit)[i]
  BY DEF F!i2c_start, F!i2c_send, F!SendByte, F!ByteReads, F!i2c_finish, F!i2c_stop,
         F!ReleaseClock, F!Restart
<1>6. /\ p[6] = F!load_byte(2 * address) /\ p[22] = F!load_byte(byte)
  BY DEF F!i2c_start, F!i2c_send, F!SendByte, F!ByteReads, F!i2c_finish, F!i2c_stop,
         F!ReleaseClock, F!Restart
<1> QED
  BY ONLY <1>1, <1>2, <1>3, <1>4, <1>5, <1>6 DEF WriteHas

WriteMarks(T) ==
  /\ DOMAIN T = 1 .. 50
  /\ \A i \in 1 .. 5 : T[0 + i] = StartShape[i]
  /\ \A i \in 1 .. 15 : T[6 + i] = SendShape(<<"answer_high">>)[i]
  /\ \A i \in 1 .. 15 : T[22 + i] = SendShape(<<"answer_high">>)[i]
  /\ \A i \in 1 .. 13 : T[37 + i] = FinishShape[i]
  /\ T[1] = "idle" /\ T[6] = "fresh" /\ T[7] = "out" /\ T[22] = "open" /\ T[23] = "out"
  /\ T[38] = "closing" /\ T[44] = "failed_high"

LEMMA WriteLabels ==
  ASSUME NEW T, T = WriteShape
  PROVE  WriteMarks(T)
<1> USE DEF WriteShape, StartShape, SendShape, ReadShape, FinishShape, AgainShape
<1>1. DOMAIN T = 1 .. 50
  OBVIOUS
<1>2. \A i \in 1 .. 5 : T[0 + i] = StartShape[i]
  OBVIOUS
<1>3. \A i \in 1 .. 15 : T[6 + i] = SendShape(<<"answer_high">>)[i]
  OBVIOUS
<1>4. \A i \in 1 .. 15 : T[22 + i] = SendShape(<<"answer_high">>)[i]
  OBVIOUS
<1>5. \A i \in 1 .. 13 : T[37 + i] = FinishShape[i]
  OBVIOUS
<1>6. /\ T[1] = "idle" /\ T[6] = "fresh" /\ T[7] = "out" /\ T[22] = "open" /\ T[23] = "out"
      /\ T[38] = "closing" /\ T[44] = "failed_high"
  OBVIOUS
<1> QED
  BY ONLY <1>1, <1>2, <1>3, <1>4, <1>5, <1>6 DEF WriteMarks

LEMMA WriteFits ==
  ASSUME NEW address, NEW byte, NEW h, NEW limit, NEW p,
         p = F!i2c_write(address, byte, h, limit)
  PROVE  Typed(p, WriteShape, h, limit) /\ Len(p) = 50
<1>0. PICK T : T = WriteShape
  OBVIOUS
<1>1. WriteHas(p, address, byte, h, limit)
  BY ONLY WriteWords, p = F!i2c_write(address, byte, h, limit)
<1>2. WriteMarks(T)
  BY ONLY <1>0, WriteLabels
<1>3. /\ DOMAIN T = 1 .. 50 /\ DOMAIN p = 1 .. 50 /\ Len(p) = 50
      /\ \A k \in 1 .. 50 : Label(T, k) = T[k]
  BY ONLY <1>1, <1>2 DEF Label, WriteHas, WriteMarks
<1>4. \A i \in 1 .. 5 : Fit(p, T, 0 + i, h, limit)
  <2>1. Piece(p, T, 0, F!i2c_start(h, limit), StartShape, 5)
    <3>1. \A i \in 1 .. 5 : p[0 + i] = F!i2c_start(h, limit)[i]
      BY ONLY <1>1 DEF WriteHas
    <3>2. \A i \in 1 .. 5 : T[0 + i] = StartShape[i]
      BY ONLY <1>2 DEF WriteMarks
    <3>3. DOMAIN T = 1 .. 50 /\ 0 + 5 <= 50 /\ 50 \in Nat /\ 0 \in Nat /\ 5 \in Nat
      BY <1>3
    <3> QED
      BY ONLY <3>1, <3>2, <3>3, PieceOf
  <2>2. Label(T, 0 + 6) \in {"fresh", "next"}
    BY ONLY <1>2, <1>3 DEF WriteMarks
  <2>3. StartRows(F!i2c_start(h, limit), h, limit)
    BY ONLY StartWords
  <2>4. 0 \in Nat /\ 0 + 1 \in Nat
    OBVIOUS
  <2> QED
    BY ONLY <2>1, <2>2, <2>3, <2>4, StartFits
<1>5. \A i \in 1 .. 15 : Fit(p, T, 6 + i, h, limit)
  <2>1. Piece(p, T, 6, F!SendByte(6, 43, h, limit, <<F!SAMPLE>>),
           SendShape(<<"answer_high">>), 15)
    <3>1. \A i \in 1 .. 15 : p[6 + i] = F!SendByte(6, 43, h, limit, <<F!SAMPLE>>)[i]
      BY ONLY <1>1 DEF WriteHas
    <3>2. \A i \in 1 .. 15 : T[6 + i] = SendShape(<<"answer_high">>)[i]
      BY ONLY <1>2 DEF WriteMarks
    <3>3. DOMAIN T = 1 .. 50 /\ 6 + 15 <= 50 /\ 50 \in Nat /\ 6 \in Nat /\ 15 \in Nat
      BY <1>3
    <3> QED
      BY ONLY <3>1, <3>2, <3>3, PieceOf
  <2>2. Label(T, 6 + 1) = "out" /\ Label(T, 43 + 1) = "failed_high"
        /\ Label(T, 6 + 16) \in {"open", "between", "closing"}
    BY ONLY <1>2, <1>3 DEF WriteMarks
  <2>3. SampledRows(F!SendByte(6, 43, h, limit, <<F!SAMPLE>>), 6, 43, h, limit)
    BY ONLY SampledWords
  <2>4. 6 \in Nat /\ 6 + 1 \in Nat
    OBVIOUS
  <2> QED
    BY ONLY <2>1, <2>2, <2>3, <2>4, SampledFits
<1>6. \A i \in 1 .. 15 : Fit(p, T, 22 + i, h, limit)
  <2>1. Piece(p, T, 22, F!SendByte(22, 43, h, limit, <<F!SAMPLE>>),
           SendShape(<<"answer_high">>), 15)
    <3>1. \A i \in 1 .. 15 : p[22 + i] = F!SendByte(22, 43, h, limit, <<F!SAMPLE>>)[i]
      BY ONLY <1>1 DEF WriteHas
    <3>2. \A i \in 1 .. 15 : T[22 + i] = SendShape(<<"answer_high">>)[i]
      BY ONLY <1>2 DEF WriteMarks
    <3>3. DOMAIN T = 1 .. 50 /\ 22 + 15 <= 50 /\ 50 \in Nat /\ 22 \in Nat /\ 15 \in Nat
      BY <1>3
    <3> QED
      BY ONLY <3>1, <3>2, <3>3, PieceOf
  <2>2. Label(T, 22 + 1) = "out" /\ Label(T, 43 + 1) = "failed_high"
        /\ Label(T, 22 + 16) \in {"open", "between", "closing"}
    BY ONLY <1>2, <1>3 DEF WriteMarks
  <2>3. SampledRows(F!SendByte(22, 43, h, limit, <<F!SAMPLE>>), 22, 43, h, limit)
    BY ONLY SampledWords
  <2>4. 22 \in Nat /\ 22 + 1 \in Nat
    OBVIOUS
  <2> QED
    BY ONLY <2>1, <2>2, <2>3, <2>4, SampledFits
<1>7. \A i \in 1 .. 13 : Fit(p, T, 37 + i, h, limit)
  <2>1. Piece(p, T, 37, F!i2c_finish(h, limit), FinishShape, 13)
    <3>1. \A i \in 1 .. 13 : p[37 + i] = F!i2c_finish(h, limit)[i]
      BY ONLY <1>1 DEF WriteHas
    <3>2. \A i \in 1 .. 13 : T[37 + i] = FinishShape[i]
      BY ONLY <1>2 DEF WriteMarks
    <3>3. DOMAIN T = 1 .. 50 /\ 37 + 13 <= 50 /\ 50 \in Nat /\ 37 \in Nat /\ 13 \in Nat
      BY <1>3
    <3> QED
      BY ONLY <3>1, <3>2, <3>3, PieceOf
  <2>3. FinishRows(F!i2c_finish(h, limit), h, limit)
    BY ONLY FinishWords
  <2>4. 37 \in Nat /\ 37 + 1 \in Nat
    OBVIOUS
  <2> QED
    BY ONLY <2>1, <2>3, <2>4, FinishFits
<1>8. Fit(p, T, 6, h, limit)
  <2>1. p[6] = F!load_byte(2 * address)
    BY ONLY <1>1 DEF WriteHas
  <2>2. Label(T, 6) = "fresh" /\ Label(T, 6 + 1) = "out"
    BY ONLY <1>2, <1>3 DEF WriteMarks
  <2>3. p[6].op = "LOAD" /\ p[6].count = 8
    BY ONLY <2>1 DEF F!load_byte
  <2> QED
    BY ONLY <2>2, <2>3 DEF Fit, Fits
<1>9. Fit(p, T, 22, h, limit)
  <2>1. p[22] = F!load_byte(byte)
    BY ONLY <1>1 DEF WriteHas
  <2>2. Label(T, 22) = "open" /\ Label(T, 22 + 1) = "out"
    BY ONLY <1>2, <1>3 DEF WriteMarks
  <2>3. p[22].op = "LOAD" /\ p[22].count = 8
    BY ONLY <2>1 DEF F!load_byte
  <2> QED
    BY ONLY <2>2, <2>3 DEF Fit, Fits
<1>10. ASSUME NEW k \in 1 .. 50 PROVE Fit(p, T, k, h, limit)
  <2>1. CASE k \in 1 .. 5
    <3>1. k - 0 \in 1 .. 5 /\ 0 + (k - 0) = k
      BY <2>1
    <3> QED
      BY ONLY <3>1, <1>4
  <2>2. CASE k \in 7 .. 21
    <3>1. k - 6 \in 1 .. 15 /\ 6 + (k - 6) = k
      BY <2>2
    <3> QED
      BY ONLY <3>1, <1>5
  <2>3. CASE k \in 23 .. 37
    <3>1. k - 22 \in 1 .. 15 /\ 22 + (k - 22) = k
      BY <2>3
    <3> QED
      BY ONLY <3>1, <1>6
  <2>4. CASE k \in 38 .. 50
    <3>1. k - 37 \in 1 .. 13 /\ 37 + (k - 37) = k
      BY <2>4
    <3> QED
      BY ONLY <3>1, <1>7
  <2>5. CASE k = 6
    BY ONLY <2>5, <1>8
  <2>6. CASE k = 22
    BY ONLY <2>6, <1>9
  <2> QED
    BY <2>1, <2>2, <2>3, <2>4, <2>5, <2>6
<1> QED
  BY ONLY <1>0, <1>3, <1>2, <1>10 DEF Typed, WriteMarks

WriteStreamHas(p, address, count, h, limit) ==
  /\ Len(p) = 50 /\ DOMAIN p = 1 .. 50
  /\ \A i \in 1 .. 5 : p[1 + i] = F!i2c_start(h, limit)[i]
  /\ \A i \in 1 .. 14 : p[7 + i] = F!SendByte(7, 43, h, limit, << >>)[i]
  /\ \A i \in 1 .. 14 : p[22 + i] = F!SendByte(22, 43, h, limit, << >>)[i]
  /\ \A i \in 1 .. 13 : p[37 + i] = F!i2c_finish(h, limit)[i]
  /\ p[1] = F!stream(count) /\ p[7] = F!load_byte(2 * address) /\ p[22] = F!PULL
  /\ p[37] = F!byte_loop(21)

LEMMA WriteStreamWords ==
  ASSUME NEW address, NEW count, NEW h, NEW limit, NEW p,
         p = F!i2c_write_stream(address, count, h, limit)
  PROVE  WriteStreamHas(p, address, count, h, limit)
<1> USE DEF F!i2c_write_stream, F!SendLength, F!ErrorOffset
<1>1. Len(p) = 50 /\ DOMAIN p = 1 .. 50
  BY DEF F!i2c_start, F!i2c_send, F!SendByte, F!ByteReads, F!i2c_finish, F!i2c_stop,
         F!ReleaseClock, F!Restart
<1>2. \A i \in 1 .. 5 : p[1 + i] = F!i2c_start(h, limit)[i]
  BY DEF F!i2c_start, F!i2c_send, F!SendByte, F!ByteReads, F!i2c_finish, F!i2c_stop,
         F!ReleaseClock, F!Restart
<1>3. \A i \in 1 .. 14 : p[7 + i] = F!SendByte(7, 43, h, limit, << >>)[i]
  BY DEF F!i2c_start, F!i2c_send, F!SendByte, F!ByteReads, F!i2c_finish, F!i2c_stop,
         F!ReleaseClock, F!Restart
<1>4. \A i \in 1 .. 14 : p[22 + i] = F!SendByte(22, 43, h, limit, << >>)[i]
  BY DEF F!i2c_start, F!i2c_send, F!SendByte, F!ByteReads, F!i2c_finish, F!i2c_stop,
         F!ReleaseClock, F!Restart
<1>5. \A i \in 1 .. 13 : p[37 + i] = F!i2c_finish(h, limit)[i]
  BY DEF F!i2c_start, F!i2c_send, F!SendByte, F!ByteReads, F!i2c_finish, F!i2c_stop,
         F!ReleaseClock, F!Restart
<1>6. /\ p[1] = F!stream(count) /\ p[7] = F!load_byte(2 * address) /\ p[22] = F!PULL
      /\ p[37] = F!byte_loop(21)
  BY DEF F!i2c_start, F!i2c_send, F!SendByte, F!ByteReads, F!i2c_finish, F!i2c_stop,
         F!ReleaseClock, F!Restart
<1> QED
  BY ONLY <1>1, <1>2, <1>3, <1>4, <1>5, <1>6 DEF WriteStreamHas

WriteStreamMarks(T) ==
  /\ DOMAIN T = 1 .. 50
  /\ \A i \in 1 .. 5 : T[1 + i] = StartShape[i]
  /\ \A i \in 1 .. 14 : T[7 + i] = SendShape(<< >>)[i]
  /\ \A i \in 1 .. 14 : T[22 + i] = SendShape(<< >>)[i]
  /\ \A i \in 1 .. 13 : T[37 + i] = FinishShape[i]
  /\ T[1] = "idle" /\ T[2] = "idle" /\ T[7] = "fresh" /\ T[8] = "out" /\ T[22] = "open"
  /\ T[23] = "out" /\ T[37] = "open" /\ T[38] = "closing" /\ T[44] = "failed_high"

LEMMA WriteStreamLabels ==
  ASSUME NEW T, T = WriteStreamShape
  PROVE  WriteStreamMarks(T)
<1> USE DEF WriteStreamShape, StartShape, SendShape, ReadShape, FinishShape, AgainShape
<1>1. DOMAIN T = 1 .. 50
  OBVIOUS
<1>2. \A i \in 1 .. 5 : T[1 + i] = StartShape[i]
  OBVIOUS
<1>3. \A i \in 1 .. 14 : T[7 + i] = SendShape(<< >>)[i]
  OBVIOUS
<1>4. \A i \in 1 .. 14 : T[22 + i] = SendShape(<< >>)[i]
  OBVIOUS
<1>5. \A i \in 1 .. 13 : T[37 + i] = FinishShape[i]
  OBVIOUS
<1>6. /\ T[1] = "idle" /\ T[2] = "idle" /\ T[7] = "fresh" /\ T[8] = "out" /\ T[22] = "open"
      /\ T[23] = "out" /\ T[37] = "open" /\ T[38] = "closing" /\ T[44] = "failed_high"
  OBVIOUS
<1> QED
  BY ONLY <1>1, <1>2, <1>3, <1>4, <1>5, <1>6 DEF WriteStreamMarks

LEMMA WriteStreamFits ==
  ASSUME NEW address, NEW count, NEW h, NEW limit, NEW p, count > 0,
         p = F!i2c_write_stream(address, count, h, limit)
  PROVE  Typed(p, WriteStreamShape, h, limit) /\ Len(p) = 50
<1>0. PICK T : T = WriteStreamShape
  OBVIOUS
<1>1. WriteStreamHas(p, address, count, h, limit)
  BY ONLY WriteStreamWords, p = F!i2c_write_stream(address, count, h, limit)
<1>2. WriteStreamMarks(T)
  BY ONLY <1>0, WriteStreamLabels
<1>3. /\ DOMAIN T = 1 .. 50 /\ DOMAIN p = 1 .. 50 /\ Len(p) = 50
      /\ \A k \in 1 .. 50 : Label(T, k) = T[k]
  BY ONLY <1>1, <1>2 DEF Label, WriteStreamHas, WriteStreamMarks
<1>4. \A i \in 1 .. 5 : Fit(p, T, 1 + i, h, limit)
  <2>1. Piece(p, T, 1, F!i2c_start(h, limit), StartShape, 5)
    <3>1. \A i \in 1 .. 5 : p[1 + i] = F!i2c_start(h, limit)[i]
      BY ONLY <1>1 DEF WriteStreamHas
    <3>2. \A i \in 1 .. 5 : T[1 + i] = StartShape[i]
      BY ONLY <1>2 DEF WriteStreamMarks
    <3>3. DOMAIN T = 1 .. 50 /\ 1 + 5 <= 50 /\ 50 \in Nat /\ 1 \in Nat /\ 5 \in Nat
      BY <1>3
    <3> QED
      BY ONLY <3>1, <3>2, <3>3, PieceOf
  <2>2. Label(T, 1 + 6) \in {"fresh", "next"}
    BY ONLY <1>2, <1>3 DEF WriteStreamMarks
  <2>3. StartRows(F!i2c_start(h, limit), h, limit)
    BY ONLY StartWords
  <2>4. 1 \in Nat /\ 1 + 1 \in Nat
    OBVIOUS
  <2> QED
    BY ONLY <2>1, <2>2, <2>3, <2>4, StartFits
<1>5. \A i \in 1 .. 14 : Fit(p, T, 7 + i, h, limit)
  <2>1. Piece(p, T, 7, F!SendByte(7, 43, h, limit, << >>), SendShape(<< >>), 14)
    <3>1. \A i \in 1 .. 14 : p[7 + i] = F!SendByte(7, 43, h, limit, << >>)[i]
      BY ONLY <1>1 DEF WriteStreamHas
    <3>2. \A i \in 1 .. 14 : T[7 + i] = SendShape(<< >>)[i]
      BY ONLY <1>2 DEF WriteStreamMarks
    <3>3. DOMAIN T = 1 .. 50 /\ 7 + 14 <= 50 /\ 50 \in Nat /\ 7 \in Nat /\ 14 \in Nat
      BY <1>3
    <3> QED
      BY ONLY <3>1, <3>2, <3>3, PieceOf
  <2>2. Label(T, 7 + 1) = "out" /\ Label(T, 43 + 1) = "failed_high"
        /\ Label(T, 7 + 15) \in {"open", "between", "closing"}
    BY ONLY <1>2, <1>3 DEF WriteStreamMarks
  <2>3. SendRows(F!SendByte(7, 43, h, limit, << >>), 7, 43, h, limit)
    BY ONLY SendWords
  <2>4. 7 \in Nat /\ 7 + 1 \in Nat
    OBVIOUS
  <2> QED
    BY ONLY <2>1, <2>2, <2>3, <2>4, SendFits
<1>6. \A i \in 1 .. 14 : Fit(p, T, 22 + i, h, limit)
  <2>1. Piece(p, T, 22, F!SendByte(22, 43, h, limit, << >>), SendShape(<< >>), 14)
    <3>1. \A i \in 1 .. 14 : p[22 + i] = F!SendByte(22, 43, h, limit, << >>)[i]
      BY ONLY <1>1 DEF WriteStreamHas
    <3>2. \A i \in 1 .. 14 : T[22 + i] = SendShape(<< >>)[i]
      BY ONLY <1>2 DEF WriteStreamMarks
    <3>3. DOMAIN T = 1 .. 50 /\ 22 + 14 <= 50 /\ 50 \in Nat /\ 22 \in Nat /\ 14 \in Nat
      BY <1>3
    <3> QED
      BY ONLY <3>1, <3>2, <3>3, PieceOf
  <2>2. Label(T, 22 + 1) = "out" /\ Label(T, 43 + 1) = "failed_high"
        /\ Label(T, 22 + 15) \in {"open", "between", "closing"}
    BY ONLY <1>2, <1>3 DEF WriteStreamMarks
  <2>3. SendRows(F!SendByte(22, 43, h, limit, << >>), 22, 43, h, limit)
    BY ONLY SendWords
  <2>4. 22 \in Nat /\ 22 + 1 \in Nat
    OBVIOUS
  <2> QED
    BY ONLY <2>1, <2>2, <2>3, <2>4, SendFits
<1>7. \A i \in 1 .. 13 : Fit(p, T, 37 + i, h, limit)
  <2>1. Piece(p, T, 37, F!i2c_finish(h, limit), FinishShape, 13)
    <3>1. \A i \in 1 .. 13 : p[37 + i] = F!i2c_finish(h, limit)[i]
      BY ONLY <1>1 DEF WriteStreamHas
    <3>2. \A i \in 1 .. 13 : T[37 + i] = FinishShape[i]
      BY ONLY <1>2 DEF WriteStreamMarks
    <3>3. DOMAIN T = 1 .. 50 /\ 37 + 13 <= 50 /\ 50 \in Nat /\ 37 \in Nat /\ 13 \in Nat
      BY <1>3
    <3> QED
      BY ONLY <3>1, <3>2, <3>3, PieceOf
  <2>3. FinishRows(F!i2c_finish(h, limit), h, limit)
    BY ONLY FinishWords
  <2>4. 37 \in Nat /\ 37 + 1 \in Nat
    OBVIOUS
  <2> QED
    BY ONLY <2>1, <2>3, <2>4, FinishFits
<1>8. Fit(p, T, 1, h, limit)
  <2>1. p[1] = F!stream(count)
    BY ONLY <1>1 DEF WriteStreamHas
  <2>2. Label(T, 1) = "idle" /\ Label(T, 1 + 1) = "idle"
    BY ONLY <1>2, <1>3 DEF WriteStreamMarks
  <2>3. p[1].op = "STREAM" /\ p[1].count > 0
    BY ONLY <2>1, count > 0 DEF F!stream
  <2> QED
    BY ONLY <2>2, <2>3 DEF Fit, Fits
<1>9. Fit(p, T, 7, h, limit)
  <2>1. p[7] = F!load_byte(2 * address)
    BY ONLY <1>1 DEF WriteStreamHas
  <2>2. Label(T, 7) = "fresh" /\ Label(T, 7 + 1) = "out"
    BY ONLY <1>2, <1>3 DEF WriteStreamMarks
  <2>3. p[7].op = "LOAD" /\ p[7].count = 8
    BY ONLY <2>1 DEF F!load_byte
  <2> QED
    BY ONLY <2>2, <2>3 DEF Fit, Fits
<1>10. Fit(p, T, 22, h, limit)
  <2>1. p[22] = F!PULL
    BY ONLY <1>1 DEF WriteStreamHas
  <2>2. Label(T, 22) = "open" /\ Label(T, 22 + 1) = "out"
    BY ONLY <1>2, <1>3 DEF WriteStreamMarks
  <2> QED
    BY ONLY <2>1, <2>2 DEF Fit, Fits
<1>11. Fit(p, T, 37, h, limit)
  <2>1. p[37] = F!byte_loop(21)
    BY ONLY <1>1 DEF WriteStreamHas
  <2>2. Label(T, 37) = "open" /\ Label(T, 37 + 1) = "closing" /\ Label(T, 21 + 1) = "open"
    BY ONLY <1>2, <1>3 DEF WriteStreamMarks
  <2>3. p[37].op = "BYTE_LOOP" /\ p[37].target = 21
    BY ONLY <2>1 DEF F!byte_loop
  <2> QED
    BY ONLY <2>2, <2>3 DEF Fit, Fits
<1>12. ASSUME NEW k \in 1 .. 50 PROVE Fit(p, T, k, h, limit)
  <2>1. CASE k \in 2 .. 6
    <3>1. k - 1 \in 1 .. 5 /\ 1 + (k - 1) = k
      BY <2>1
    <3> QED
      BY ONLY <3>1, <1>4
  <2>2. CASE k \in 8 .. 21
    <3>1. k - 7 \in 1 .. 14 /\ 7 + (k - 7) = k
      BY <2>2
    <3> QED
      BY ONLY <3>1, <1>5
  <2>3. CASE k \in 23 .. 36
    <3>1. k - 22 \in 1 .. 14 /\ 22 + (k - 22) = k
      BY <2>3
    <3> QED
      BY ONLY <3>1, <1>6
  <2>4. CASE k \in 38 .. 50
    <3>1. k - 37 \in 1 .. 13 /\ 37 + (k - 37) = k
      BY <2>4
    <3> QED
      BY ONLY <3>1, <1>7
  <2>5. CASE k = 1
    BY ONLY <2>5, <1>8
  <2>6. CASE k = 7
    BY ONLY <2>6, <1>9
  <2>7. CASE k = 22
    BY ONLY <2>7, <1>10
  <2>8. CASE k = 37
    BY ONLY <2>8, <1>11
  <2> QED
    BY <2>1, <2>2, <2>3, <2>4, <2>5, <2>6, <2>7, <2>8
<1> QED
  BY ONLY <1>0, <1>3, <1>2, <1>12 DEF Typed, WriteStreamMarks

ReadHas(p, address, count, h, limit) ==
  /\ Len(p) = 51 /\ DOMAIN p = 1 .. 51
  /\ \A i \in 1 .. 5 : p[1 + i] = F!i2c_start(h, limit)[i]
  /\ \A i \in 1 .. 14 : p[7 + i] = F!SendByte(7, 44, h, limit, << >>)[i]
  /\ \A i \in 1 .. 17 : p[21 + i] = F!ByteReads(21, h, limit)[i]
  /\ \A i \in 1 .. 13 : p[38 + i] = F!i2c_finish(h, limit)[i]
  /\ p[1] = F!stream(count) /\ p[7] = F!load_byte(2 * address + 1)

LEMMA ReadWords ==
  ASSUME NEW address, NEW count, NEW h, NEW limit, NEW p,
         p = F!i2c_read(address, count, h, limit)
  PROVE  ReadHas(p, address, count, h, limit)
<1> USE DEF F!i2c_read, F!SendLength, F!ReadLength, F!ErrorOffset
<1>1. Len(p) = 51 /\ DOMAIN p = 1 .. 51
  BY DEF F!i2c_start, F!i2c_send, F!SendByte, F!ByteReads, F!i2c_finish, F!i2c_stop,
         F!ReleaseClock, F!Restart
<1>2. \A i \in 1 .. 5 : p[1 + i] = F!i2c_start(h, limit)[i]
  BY DEF F!i2c_start, F!i2c_send, F!SendByte, F!ByteReads, F!i2c_finish, F!i2c_stop,
         F!ReleaseClock, F!Restart
<1>3. \A i \in 1 .. 14 : p[7 + i] = F!SendByte(7, 44, h, limit, << >>)[i]
  BY DEF F!i2c_start, F!i2c_send, F!SendByte, F!ByteReads, F!i2c_finish, F!i2c_stop,
         F!ReleaseClock, F!Restart
<1>4. \A i \in 1 .. 17 : p[21 + i] = F!ByteReads(21, h, limit)[i]
  BY DEF F!i2c_start, F!i2c_send, F!SendByte, F!ByteReads, F!i2c_finish, F!i2c_stop,
         F!ReleaseClock, F!Restart
<1>5. \A i \in 1 .. 13 : p[38 + i] = F!i2c_finish(h, limit)[i]
  BY DEF F!i2c_start, F!i2c_send, F!SendByte, F!ByteReads, F!i2c_finish, F!i2c_stop,
         F!ReleaseClock, F!Restart
<1>6. /\ p[1] = F!stream(count) /\ p[7] = F!load_byte(2 * address + 1)
  BY DEF F!i2c_start, F!i2c_send, F!SendByte, F!ByteReads, F!i2c_finish, F!i2c_stop,
         F!ReleaseClock, F!Restart
<1> QED
  BY ONLY <1>1, <1>2, <1>3, <1>4, <1>5, <1>6 DEF ReadHas

ReadMarks(T) ==
  /\ DOMAIN T = 1 .. 51
  /\ \A i \in 1 .. 5 : T[1 + i] = StartShape[i]
  /\ \A i \in 1 .. 14 : T[7 + i] = SendShape(<< >>)[i]
  /\ \A i \in 1 .. 17 : T[21 + i] = ReadShape[i]
  /\ \A i \in 1 .. 13 : T[38 + i] = FinishShape[i]
  /\ T[1] = "idle" /\ T[2] = "idle" /\ T[7] = "fresh" /\ T[8] = "out" /\ T[22] = "between"
  /\ T[24] = "bit" /\ T[33] = "ninth" /\ T[39] = "closing" /\ T[45] = "failed_high"

LEMMA ReadLabels ==
  ASSUME NEW T, T = ReadsShape
  PROVE  ReadMarks(T)
<1> USE DEF ReadsShape, StartShape, SendShape, ReadShape, FinishShape, AgainShape
<1>1. DOMAIN T = 1 .. 51
  OBVIOUS
<1>2. \A i \in 1 .. 5 : T[1 + i] = StartShape[i]
  OBVIOUS
<1>3. \A i \in 1 .. 14 : T[7 + i] = SendShape(<< >>)[i]
  OBVIOUS
<1>4. \A i \in 1 .. 17 : T[21 + i] = ReadShape[i]
  OBVIOUS
<1>5. \A i \in 1 .. 13 : T[38 + i] = FinishShape[i]
  OBVIOUS
<1>6. /\ T[1] = "idle" /\ T[2] = "idle" /\ T[7] = "fresh" /\ T[8] = "out" /\ T[22] = "between"
      /\ T[24] = "bit" /\ T[33] = "ninth" /\ T[39] = "closing" /\ T[45] = "failed_high"
  OBVIOUS
<1> QED
  BY ONLY <1>1, <1>2, <1>3, <1>4, <1>5, <1>6 DEF ReadMarks

LEMMA ReadFits ==
  ASSUME NEW address, NEW count, NEW h, NEW limit, NEW p, count > 0,
         p = F!i2c_read(address, count, h, limit)
  PROVE  Typed(p, ReadsShape, h, limit) /\ Len(p) = 51
<1>0. PICK T : T = ReadsShape
  OBVIOUS
<1>1. ReadHas(p, address, count, h, limit)
  BY ONLY ReadWords, p = F!i2c_read(address, count, h, limit)
<1>2. ReadMarks(T)
  BY ONLY <1>0, ReadLabels
<1>3. /\ DOMAIN T = 1 .. 51 /\ DOMAIN p = 1 .. 51 /\ Len(p) = 51
      /\ \A k \in 1 .. 51 : Label(T, k) = T[k]
  BY ONLY <1>1, <1>2 DEF Label, ReadHas, ReadMarks
<1>4. \A i \in 1 .. 5 : Fit(p, T, 1 + i, h, limit)
  <2>1. Piece(p, T, 1, F!i2c_start(h, limit), StartShape, 5)
    <3>1. \A i \in 1 .. 5 : p[1 + i] = F!i2c_start(h, limit)[i]
      BY ONLY <1>1 DEF ReadHas
    <3>2. \A i \in 1 .. 5 : T[1 + i] = StartShape[i]
      BY ONLY <1>2 DEF ReadMarks
    <3>3. DOMAIN T = 1 .. 51 /\ 1 + 5 <= 51 /\ 51 \in Nat /\ 1 \in Nat /\ 5 \in Nat
      BY <1>3
    <3> QED
      BY ONLY <3>1, <3>2, <3>3, PieceOf
  <2>2. Label(T, 1 + 6) \in {"fresh", "next"}
    BY ONLY <1>2, <1>3 DEF ReadMarks
  <2>3. StartRows(F!i2c_start(h, limit), h, limit)
    BY ONLY StartWords
  <2>4. 1 \in Nat /\ 1 + 1 \in Nat
    OBVIOUS
  <2> QED
    BY ONLY <2>1, <2>2, <2>3, <2>4, StartFits
<1>5. \A i \in 1 .. 14 : Fit(p, T, 7 + i, h, limit)
  <2>1. Piece(p, T, 7, F!SendByte(7, 44, h, limit, << >>), SendShape(<< >>), 14)
    <3>1. \A i \in 1 .. 14 : p[7 + i] = F!SendByte(7, 44, h, limit, << >>)[i]
      BY ONLY <1>1 DEF ReadHas
    <3>2. \A i \in 1 .. 14 : T[7 + i] = SendShape(<< >>)[i]
      BY ONLY <1>2 DEF ReadMarks
    <3>3. DOMAIN T = 1 .. 51 /\ 7 + 14 <= 51 /\ 51 \in Nat /\ 7 \in Nat /\ 14 \in Nat
      BY <1>3
    <3> QED
      BY ONLY <3>1, <3>2, <3>3, PieceOf
  <2>2. Label(T, 7 + 1) = "out" /\ Label(T, 44 + 1) = "failed_high"
        /\ Label(T, 7 + 15) \in {"open", "between", "closing"}
    BY ONLY <1>2, <1>3 DEF ReadMarks
  <2>3. SendRows(F!SendByte(7, 44, h, limit, << >>), 7, 44, h, limit)
    BY ONLY SendWords
  <2>4. 7 \in Nat /\ 7 + 1 \in Nat
    OBVIOUS
  <2> QED
    BY ONLY <2>1, <2>2, <2>3, <2>4, SendFits
<1>6. \A i \in 1 .. 17 : Fit(p, T, 21 + i, h, limit)
  <2>1. Piece(p, T, 21, F!ByteReads(21, h, limit), ReadShape, 17)
    <3>1. \A i \in 1 .. 17 : p[21 + i] = F!ByteReads(21, h, limit)[i]
      BY ONLY <1>1 DEF ReadHas
    <3>2. \A i \in 1 .. 17 : T[21 + i] = ReadShape[i]
      BY ONLY <1>2 DEF ReadMarks
    <3>3. DOMAIN T = 1 .. 51 /\ 21 + 17 <= 51 /\ 51 \in Nat /\ 21 \in Nat /\ 17 \in Nat
      BY <1>3
    <3> QED
      BY ONLY <3>1, <3>2, <3>3, PieceOf
  <2>2. /\ Label(T, 21 + 2 + 1) = "bit" /\ Label(T, 21 + 11 + 1) = "ninth"
        /\ Label(T, 21 + 1) = "between" /\ Label(T, 21 + 18) = "closing"
    BY ONLY <1>2, <1>3 DEF ReadMarks
  <2>3. ReadsRows(F!ByteReads(21, h, limit), 21, h, limit)
    BY ONLY ReadsWords, 21 \in Nat
  <2>4. 21 \in Nat
    OBVIOUS
  <2> QED
    BY ONLY <2>1, <2>2, <2>3, <2>4, ReadsFits
<1>7. \A i \in 1 .. 13 : Fit(p, T, 38 + i, h, limit)
  <2>1. Piece(p, T, 38, F!i2c_finish(h, limit), FinishShape, 13)
    <3>1. \A i \in 1 .. 13 : p[38 + i] = F!i2c_finish(h, limit)[i]
      BY ONLY <1>1 DEF ReadHas
    <3>2. \A i \in 1 .. 13 : T[38 + i] = FinishShape[i]
      BY ONLY <1>2 DEF ReadMarks
    <3>3. DOMAIN T = 1 .. 51 /\ 38 + 13 <= 51 /\ 51 \in Nat /\ 38 \in Nat /\ 13 \in Nat
      BY <1>3
    <3> QED
      BY ONLY <3>1, <3>2, <3>3, PieceOf
  <2>3. FinishRows(F!i2c_finish(h, limit), h, limit)
    BY ONLY FinishWords
  <2>4. 38 \in Nat /\ 38 + 1 \in Nat
    OBVIOUS
  <2> QED
    BY ONLY <2>1, <2>3, <2>4, FinishFits
<1>8. Fit(p, T, 1, h, limit)
  <2>1. p[1] = F!stream(count)
    BY ONLY <1>1 DEF ReadHas
  <2>2. Label(T, 1) = "idle" /\ Label(T, 1 + 1) = "idle"
    BY ONLY <1>2, <1>3 DEF ReadMarks
  <2>3. p[1].op = "STREAM" /\ p[1].count > 0
    BY ONLY <2>1, count > 0 DEF F!stream
  <2> QED
    BY ONLY <2>2, <2>3 DEF Fit, Fits
<1>9. Fit(p, T, 7, h, limit)
  <2>1. p[7] = F!load_byte(2 * address + 1)
    BY ONLY <1>1 DEF ReadHas
  <2>2. Label(T, 7) = "fresh" /\ Label(T, 7 + 1) = "out"
    BY ONLY <1>2, <1>3 DEF ReadMarks
  <2>3. p[7].op = "LOAD" /\ p[7].count = 8
    BY ONLY <2>1 DEF F!load_byte
  <2> QED
    BY ONLY <2>2, <2>3 DEF Fit, Fits
<1>10. ASSUME NEW k \in 1 .. 51 PROVE Fit(p, T, k, h, limit)
  <2>1. CASE k \in 2 .. 6
    <3>1. k - 1 \in 1 .. 5 /\ 1 + (k - 1) = k
      BY <2>1
    <3> QED
      BY ONLY <3>1, <1>4
  <2>2. CASE k \in 8 .. 21
    <3>1. k - 7 \in 1 .. 14 /\ 7 + (k - 7) = k
      BY <2>2
    <3> QED
      BY ONLY <3>1, <1>5
  <2>3. CASE k \in 22 .. 38
    <3>1. k - 21 \in 1 .. 17 /\ 21 + (k - 21) = k
      BY <2>3
    <3> QED
      BY ONLY <3>1, <1>6
  <2>4. CASE k \in 39 .. 51
    <3>1. k - 38 \in 1 .. 13 /\ 38 + (k - 38) = k
      BY <2>4
    <3> QED
      BY ONLY <3>1, <1>7
  <2>5. CASE k = 1
    BY ONLY <2>5, <1>8
  <2>6. CASE k = 7
    BY ONLY <2>6, <1>9
  <2> QED
    BY <2>1, <2>2, <2>3, <2>4, <2>5, <2>6
<1> QED
  BY ONLY <1>0, <1>3, <1>2, <1>10 DEF Typed, ReadMarks

TransactionHas(p, writes, reads, h, limit) ==
  /\ Len(p) = 62 /\ DOMAIN p = 1 .. 62
  /\ \A i \in 1 .. 5 : p[1 + i] = F!i2c_start(h, limit)[i]
  /\ \A i \in 1 .. 14 : p[8 + i] = F!SendByte(8, 47, h, limit, << >>)[i]
  /\ \A i \in 1 .. 17 : p[24 + i] = F!ByteReads(24, h, limit)[i]
  /\ \A i \in 1 .. 13 : p[41 + i] = F!i2c_finish(h, limit)[i]
  /\ \A i \in 1 .. 8 : p[54 + i] = F!Restart(8, h, limit)[i]
  /\ p[1] = F!stream(writes) /\ p[7] = F!PULL /\ p[8] = F!last_byte(54)
  /\ p[23] = F!byte_loop(6) /\ p[24] = F!stream(reads)

LEMMA TransactionWords ==
  ASSUME NEW writes, NEW reads, NEW h, NEW limit, NEW p,
         p = F!i2c_transaction(writes, reads, h, limit)
  PROVE  TransactionHas(p, writes, reads, h, limit)
<1> USE DEF F!i2c_transaction, F!SendLength, F!ReadLength, F!ErrorOffset
<1>1. Len(p) = 62 /\ DOMAIN p = 1 .. 62
  BY DEF F!i2c_start, F!i2c_send, F!SendByte, F!ByteReads, F!i2c_finish, F!i2c_stop,
         F!ReleaseClock, F!Restart
<1>2. \A i \in 1 .. 5 : p[1 + i] = F!i2c_start(h, limit)[i]
  BY DEF F!i2c_start, F!i2c_send, F!SendByte, F!ByteReads, F!i2c_finish, F!i2c_stop,
         F!ReleaseClock, F!Restart
<1>3. \A i \in 1 .. 14 : p[8 + i] = F!SendByte(8, 47, h, limit, << >>)[i]
  BY DEF F!i2c_start, F!i2c_send, F!SendByte, F!ByteReads, F!i2c_finish, F!i2c_stop,
         F!ReleaseClock, F!Restart
<1>4. \A i \in 1 .. 17 : p[24 + i] = F!ByteReads(24, h, limit)[i]
  BY DEF F!i2c_start, F!i2c_send, F!SendByte, F!ByteReads, F!i2c_finish, F!i2c_stop,
         F!ReleaseClock, F!Restart
<1>5. \A i \in 1 .. 13 : p[41 + i] = F!i2c_finish(h, limit)[i]
  BY DEF F!i2c_start, F!i2c_send, F!SendByte, F!ByteReads, F!i2c_finish, F!i2c_stop,
         F!ReleaseClock, F!Restart
<1>6. \A i \in 1 .. 8 : p[54 + i] = F!Restart(8, h, limit)[i]
  BY DEF F!i2c_start, F!i2c_send, F!SendByte, F!ByteReads, F!i2c_finish, F!i2c_stop,
         F!ReleaseClock, F!Restart
<1>7. /\ p[1] = F!stream(writes) /\ p[7] = F!PULL /\ p[8] = F!last_byte(54)
      /\ p[23] = F!byte_loop(6) /\ p[24] = F!stream(reads)
  BY DEF F!i2c_start, F!i2c_send, F!SendByte, F!ByteReads, F!i2c_finish, F!i2c_stop,
         F!ReleaseClock, F!Restart
<1> QED
  BY ONLY <1>1, <1>2, <1>3, <1>4, <1>5, <1>6, <1>7 DEF TransactionHas

TransactionMarks(T) ==
  /\ DOMAIN T = 1 .. 62
  /\ \A i \in 1 .. 5 : T[1 + i] = StartShape[i]
  /\ \A i \in 1 .. 14 : T[8 + i] = SendShape(<< >>)[i]
  /\ \A i \in 1 .. 17 : T[24 + i] = ReadShape[i]
  /\ \A i \in 1 .. 13 : T[41 + i] = FinishShape[i]
  /\ \A i \in 1 .. 8 : T[54 + i] = AgainShape[i]
  /\ T[1] = "idle" /\ T[2] = "idle" /\ T[7] = "next" /\ T[8] = "pulled" /\ T[9] = "out"
  /\ T[23] = "open" /\ T[24] = "closing" /\ T[25] = "between" /\ T[27] = "bit"
  /\ T[36] = "ninth" /\ T[42] = "closing" /\ T[48] = "failed_high" /\ T[55] = "parting"

LEMMA TransactionLabels ==
  ASSUME NEW T, T = TransactionShape
  PROVE  TransactionMarks(T)
<1> USE DEF TransactionShape, StartShape, SendShape, ReadShape, FinishShape, AgainShape
<1>1. DOMAIN T = 1 .. 62
  OBVIOUS
<1>2. \A i \in 1 .. 5 : T[1 + i] = StartShape[i]
  OBVIOUS
<1>3. \A i \in 1 .. 14 : T[8 + i] = SendShape(<< >>)[i]
  OBVIOUS
<1>4. \A i \in 1 .. 17 : T[24 + i] = ReadShape[i]
  OBVIOUS
<1>5. \A i \in 1 .. 13 : T[41 + i] = FinishShape[i]
  OBVIOUS
<1>6. \A i \in 1 .. 8 : T[54 + i] = AgainShape[i]
  OBVIOUS
<1>7. /\ T[1] = "idle" /\ T[2] = "idle" /\ T[7] = "next" /\ T[8] = "pulled" /\ T[9] = "out"
      /\ T[23] = "open" /\ T[24] = "closing" /\ T[25] = "between" /\ T[27] = "bit"
      /\ T[36] = "ninth" /\ T[42] = "closing" /\ T[48] = "failed_high" /\ T[55] = "parting"
  OBVIOUS
<1> QED
  BY ONLY <1>1, <1>2, <1>3, <1>4, <1>5, <1>6, <1>7 DEF TransactionMarks

LEMMA TransactionFits ==
  ASSUME NEW writes, NEW reads, NEW h, NEW limit, NEW p, writes > 0, reads > 0,
         p = F!i2c_transaction(writes, reads, h, limit)
  PROVE  Typed(p, TransactionShape, h, limit) /\ Len(p) = 62
<1>0. PICK T : T = TransactionShape
  OBVIOUS
<1>1. TransactionHas(p, writes, reads, h, limit)
  BY ONLY TransactionWords, p = F!i2c_transaction(writes, reads, h, limit)
<1>2. TransactionMarks(T)
  BY ONLY <1>0, TransactionLabels
<1>3. /\ DOMAIN T = 1 .. 62 /\ DOMAIN p = 1 .. 62 /\ Len(p) = 62
      /\ \A k \in 1 .. 62 : Label(T, k) = T[k]
  BY ONLY <1>1, <1>2 DEF Label, TransactionHas, TransactionMarks
<1>4. \A i \in 1 .. 5 : Fit(p, T, 1 + i, h, limit)
  <2>1. Piece(p, T, 1, F!i2c_start(h, limit), StartShape, 5)
    <3>1. \A i \in 1 .. 5 : p[1 + i] = F!i2c_start(h, limit)[i]
      BY ONLY <1>1 DEF TransactionHas
    <3>2. \A i \in 1 .. 5 : T[1 + i] = StartShape[i]
      BY ONLY <1>2 DEF TransactionMarks
    <3>3. DOMAIN T = 1 .. 62 /\ 1 + 5 <= 62 /\ 62 \in Nat /\ 1 \in Nat /\ 5 \in Nat
      BY <1>3
    <3> QED
      BY ONLY <3>1, <3>2, <3>3, PieceOf
  <2>2. Label(T, 1 + 6) \in {"fresh", "next"}
    BY ONLY <1>2, <1>3 DEF TransactionMarks
  <2>3. StartRows(F!i2c_start(h, limit), h, limit)
    BY ONLY StartWords
  <2>4. 1 \in Nat /\ 1 + 1 \in Nat
    OBVIOUS
  <2> QED
    BY ONLY <2>1, <2>2, <2>3, <2>4, StartFits
<1>5. \A i \in 1 .. 14 : Fit(p, T, 8 + i, h, limit)
  <2>1. Piece(p, T, 8, F!SendByte(8, 47, h, limit, << >>), SendShape(<< >>), 14)
    <3>1. \A i \in 1 .. 14 : p[8 + i] = F!SendByte(8, 47, h, limit, << >>)[i]
      BY ONLY <1>1 DEF TransactionHas
    <3>2. \A i \in 1 .. 14 : T[8 + i] = SendShape(<< >>)[i]
      BY ONLY <1>2 DEF TransactionMarks
    <3>3. DOMAIN T = 1 .. 62 /\ 8 + 14 <= 62 /\ 62 \in Nat /\ 8 \in Nat /\ 14 \in Nat
      BY <1>3
    <3> QED
      BY ONLY <3>1, <3>2, <3>3, PieceOf
  <2>2. Label(T, 8 + 1) = "out" /\ Label(T, 47 + 1) = "failed_high"
        /\ Label(T, 8 + 15) \in {"open", "between", "closing"}
    BY ONLY <1>2, <1>3 DEF TransactionMarks
  <2>3. SendRows(F!SendByte(8, 47, h, limit, << >>), 8, 47, h, limit)
    BY ONLY SendWords
  <2>4. 8 \in Nat /\ 8 + 1 \in Nat
    OBVIOUS
  <2> QED
    BY ONLY <2>1, <2>2, <2>3, <2>4, SendFits
<1>6. \A i \in 1 .. 17 : Fit(p, T, 24 + i, h, limit)
  <2>1. Piece(p, T, 24, F!ByteReads(24, h, limit), ReadShape, 17)
    <3>1. \A i \in 1 .. 17 : p[24 + i] = F!ByteReads(24, h, limit)[i]
      BY ONLY <1>1 DEF TransactionHas
    <3>2. \A i \in 1 .. 17 : T[24 + i] = ReadShape[i]
      BY ONLY <1>2 DEF TransactionMarks
    <3>3. DOMAIN T = 1 .. 62 /\ 24 + 17 <= 62 /\ 62 \in Nat /\ 24 \in Nat /\ 17 \in Nat
      BY <1>3
    <3> QED
      BY ONLY <3>1, <3>2, <3>3, PieceOf
  <2>2. /\ Label(T, 24 + 2 + 1) = "bit" /\ Label(T, 24 + 11 + 1) = "ninth"
        /\ Label(T, 24 + 1) = "between" /\ Label(T, 24 + 18) = "closing"
    BY ONLY <1>2, <1>3 DEF TransactionMarks
  <2>3. ReadsRows(F!ByteReads(24, h, limit), 24, h, limit)
    BY ONLY ReadsWords, 24 \in Nat
  <2>4. 24 \in Nat
    OBVIOUS
  <2> QED
    BY ONLY <2>1, <2>2, <2>3, <2>4, ReadsFits
<1>7. \A i \in 1 .. 13 : Fit(p, T, 41 + i, h, limit)
  <2>1. Piece(p, T, 41, F!i2c_finish(h, limit), FinishShape, 13)
    <3>1. \A i \in 1 .. 13 : p[41 + i] = F!i2c_finish(h, limit)[i]
      BY ONLY <1>1 DEF TransactionHas
    <3>2. \A i \in 1 .. 13 : T[41 + i] = FinishShape[i]
      BY ONLY <1>2 DEF TransactionMarks
    <3>3. DOMAIN T = 1 .. 62 /\ 41 + 13 <= 62 /\ 62 \in Nat /\ 41 \in Nat /\ 13 \in Nat
      BY <1>3
    <3> QED
      BY ONLY <3>1, <3>2, <3>3, PieceOf
  <2>3. FinishRows(F!i2c_finish(h, limit), h, limit)
    BY ONLY FinishWords
  <2>4. 41 \in Nat /\ 41 + 1 \in Nat
    OBVIOUS
  <2> QED
    BY ONLY <2>1, <2>3, <2>4, FinishFits
<1>8. \A i \in 1 .. 8 : Fit(p, T, 54 + i, h, limit)
  <2>1. Piece(p, T, 54, F!Restart(8, h, limit), AgainShape, 8)
    <3>1. \A i \in 1 .. 8 : p[54 + i] = F!Restart(8, h, limit)[i]
      BY ONLY <1>1 DEF TransactionHas
    <3>2. \A i \in 1 .. 8 : T[54 + i] = AgainShape[i]
      BY ONLY <1>2 DEF TransactionMarks
    <3>3. DOMAIN T = 1 .. 62 /\ 54 + 8 <= 62 /\ 62 \in Nat /\ 54 \in Nat /\ 8 \in Nat
      BY <1>3
    <3> QED
      BY ONLY <3>1, <3>2, <3>3, PieceOf
  <2>2. Label(T, 8 + 1) = "out"
    BY ONLY <1>2, <1>3 DEF TransactionMarks
  <2>3. AgainRows(F!Restart(8, h, limit), 8, h, limit)
    BY ONLY AgainWords
  <2>4. 54 \in Nat /\ 54 + 1 \in Nat
    OBVIOUS
  <2> QED
    BY ONLY <2>1, <2>2, <2>3, <2>4, AgainFits
<1>9. Fit(p, T, 1, h, limit)
  <2>1. p[1] = F!stream(writes)
    BY ONLY <1>1 DEF TransactionHas
  <2>2. Label(T, 1) = "idle" /\ Label(T, 1 + 1) = "idle"
    BY ONLY <1>2, <1>3 DEF TransactionMarks
  <2>3. p[1].op = "STREAM" /\ p[1].count > 0
    BY ONLY <2>1, writes > 0 DEF F!stream
  <2> QED
    BY ONLY <2>2, <2>3 DEF Fit, Fits
<1>10. Fit(p, T, 7, h, limit)
  <2>1. p[7] = F!PULL
    BY ONLY <1>1 DEF TransactionHas
  <2>2. Label(T, 7) = "next" /\ Label(T, 7 + 1) = "pulled"
    BY ONLY <1>2, <1>3 DEF TransactionMarks
  <2> QED
    BY ONLY <2>1, <2>2 DEF Fit, Fits
<1>11. Fit(p, T, 8, h, limit)
  <2>1. p[8] = F!last_byte(54)
    BY ONLY <1>1 DEF TransactionHas
  <2>2. Label(T, 8) = "pulled" /\ Label(T, 8 + 1) = "out" /\ Label(T, 54 + 1) = "parting"
    BY ONLY <1>2, <1>3 DEF TransactionMarks
  <2>3. p[8].op = "LAST_BYTE" /\ p[8].target = 54
    BY ONLY <2>1 DEF F!last_byte
  <2> QED
    BY ONLY <2>2, <2>3 DEF Fit, Fits
<1>12. Fit(p, T, 23, h, limit)
  <2>1. p[23] = F!byte_loop(6)
    BY ONLY <1>1 DEF TransactionHas
  <2>2. Label(T, 23) = "open" /\ Label(T, 23 + 1) = "closing" /\ Label(T, 6 + 1) = "next"
    BY ONLY <1>2, <1>3 DEF TransactionMarks
  <2>3. p[23].op = "BYTE_LOOP" /\ p[23].target = 6
    BY ONLY <2>1 DEF F!byte_loop
  <2> QED
    BY ONLY <2>2, <2>3 DEF Fit, Fits
<1>13. Fit(p, T, 24, h, limit)
  <2>1. p[24] = F!stream(reads)
    BY ONLY <1>1 DEF TransactionHas
  <2>2. Label(T, 24) = "closing" /\ Label(T, 24 + 1) = "between"
    BY ONLY <1>2, <1>3 DEF TransactionMarks
  <2>3. p[24].op = "STREAM" /\ p[24].count > 0
    BY ONLY <2>1, reads > 0 DEF F!stream
  <2> QED
    BY ONLY <2>2, <2>3 DEF Fit, Fits
<1>14. ASSUME NEW k \in 1 .. 62 PROVE Fit(p, T, k, h, limit)
  <2>1. CASE k \in 2 .. 6
    <3>1. k - 1 \in 1 .. 5 /\ 1 + (k - 1) = k
      BY <2>1
    <3> QED
      BY ONLY <3>1, <1>4
  <2>2. CASE k \in 9 .. 22
    <3>1. k - 8 \in 1 .. 14 /\ 8 + (k - 8) = k
      BY <2>2
    <3> QED
      BY ONLY <3>1, <1>5
  <2>3. CASE k \in 25 .. 41
    <3>1. k - 24 \in 1 .. 17 /\ 24 + (k - 24) = k
      BY <2>3
    <3> QED
      BY ONLY <3>1, <1>6
  <2>4. CASE k \in 42 .. 54
    <3>1. k - 41 \in 1 .. 13 /\ 41 + (k - 41) = k
      BY <2>4
    <3> QED
      BY ONLY <3>1, <1>7
  <2>5. CASE k \in 55 .. 62
    <3>1. k - 54 \in 1 .. 8 /\ 54 + (k - 54) = k
      BY <2>5
    <3> QED
      BY ONLY <3>1, <1>8
  <2>6. CASE k = 1
    BY ONLY <2>6, <1>9
  <2>7. CASE k = 7
    BY ONLY <2>7, <1>10
  <2>8. CASE k = 8
    BY ONLY <2>8, <1>11
  <2>9. CASE k = 23
    BY ONLY <2>9, <1>12
  <2>10. CASE k = 24
    BY ONLY <2>10, <1>13
  <2> QED
    BY <2>1, <2>2, <2>3, <2>4, <2>5, <2>6, <2>7, <2>8, <2>9, <2>10
<1> QED
  BY ONLY <1>0, <1>3, <1>2, <1>14 DEF Typed, TransactionMarks

(***************************************************************************)
(* The labels of the program of this run, and the label of the next word.  *)
(***************************************************************************)
Streaming == job.program[1].op = "STREAM"
Labels == IF job.repeated = 1 THEN TransactionShape ELSE IF job.reads > 0 THEN ReadsShape
          ELSE IF Streaming THEN WriteStreamShape ELSE WriteShape
Here == Label(Labels, pc + 1)

LEMMA CountBound == ASSUME NEW x \in 1 .. 255 PROVE x > 0
OBVIOUS
LEMMA PairBound == ASSUME NEW x \in 2 .. 255 PROVE x > 0
OBVIOUS
LEMMA HalfBound == ASSUME NEW x \in 4 .. 8192 PROVE x \in Nat /\ x >= 4
OBVIOUS

LEMMA FirstWords ==
  /\ \A address, byte, h, limit : F!i2c_write(address, byte, h, limit)[1].op = "DRIVE"
  /\ \A address, count, h, limit : F!i2c_write_stream(address, count, h, limit)[1].op = "STREAM"
<1>1. ASSUME NEW address, NEW byte, NEW h, NEW limit
      PROVE  F!i2c_write(address, byte, h, limit)[1].op = "DRIVE"
  <2>1. PICK p : p = F!i2c_write(address, byte, h, limit)
    OBVIOUS
  <2>2. WriteHas(p, address, byte, h, limit)
    BY ONLY <2>1, WriteWords
  <2>3. p[0 + 1] = F!i2c_start(h, limit)[1]
    BY ONLY <2>2 DEF WriteHas
  <2>4. p[1] = F!drive({}, {}, h)
    BY ONLY <2>3 DEF F!i2c_start
  <2> QED
    BY ONLY <2>1, <2>4 DEF F!drive
<1>2. ASSUME NEW address, NEW count, NEW h, NEW limit
      PROVE  F!i2c_write_stream(address, count, h, limit)[1].op = "STREAM"
  <2>1. PICK p : p = F!i2c_write_stream(address, count, h, limit)
    OBVIOUS
  <2>3. WriteStreamHas(p, address, count, h, limit)
    BY ONLY <2>1, WriteStreamWords
  <2>2. p[1] = F!stream(count)
    BY ONLY <2>3 DEF WriteStreamHas
  <2> QED
    BY ONLY <2>1, <2>2 DEF F!stream
<1> QED
  BY <1>1, <1>2

LEMMA CallIsTyped ==
  ASSUME job \in Jobs
  PROVE  Typed(job.program, Labels, job.half, job.limit)
<1>1. WriteCall(job) \/ WriteStreamCall(job) \/ ReadCall(job) \/ TransactionCall(job)
  BY ONLY I2CAssumption, job \in Jobs
<1>2. CASE WriteCall(job)
  <2>1. PICK address, byte : job.program = F!i2c_write(address, byte, job.half, job.limit)
    BY <1>2 DEF WriteCall
  <2>2. Typed(job.program, WriteShape, job.half, job.limit)
    BY ONLY <2>1, WriteFits
  <2>3. job.repeated = 0 /\ job.reads = 0
    BY ONLY <1>2 DEF WriteCall
  <2>4. job.program[1].op = "DRIVE"
    BY ONLY <2>1, FirstWords
  <2>5. Labels = WriteShape
    BY ONLY <2>3, <2>4 DEF Labels, Streaming
  <2> QED
    BY ONLY <2>2, <2>5
<1>3. CASE WriteStreamCall(job)
  <2>1. PICK address \in 0 .. 127 :
          job.program = F!i2c_write_stream(address, Len(job.bytes), job.half, job.limit)
    BY ONLY <1>3 DEF WriteStreamCall
  <2>2. Len(job.bytes) \in 1 .. 255
    BY ONLY <1>3 DEF WriteStreamCall
  <2>3. Len(job.bytes) > 0
    BY ONLY <2>2, CountBound
  <2>4. Typed(job.program, WriteStreamShape, job.half, job.limit)
    BY ONLY <2>1, <2>3, WriteStreamFits
  <2>5. job.repeated = 0 /\ job.reads = 0
    BY ONLY <1>3 DEF WriteStreamCall
  <2>6. job.program[1].op = "STREAM"
    BY ONLY <2>1, FirstWords
  <2>7. Labels = WriteStreamShape
    BY ONLY <2>5, <2>6 DEF Labels, Streaming
  <2> QED
    BY ONLY <2>4, <2>7
<1>4. CASE ReadCall(job)
  <2>1. PICK address \in 0 .. 127 :
          /\ job.reads \in 1 .. 255
          /\ job.program = F!i2c_read(address, job.reads, job.half, job.limit)
    BY ONLY <1>4 DEF ReadCall
  <2>2. job.reads > 0
    BY ONLY <2>1, CountBound
  <2>3. Typed(job.program, ReadsShape, job.half, job.limit)
    BY ONLY <2>1, <2>2, ReadFits
  <2>4. job.repeated = 0
    BY ONLY <1>4 DEF ReadCall
  <2>5. Labels = ReadsShape
    BY ONLY <2>2, <2>4 DEF Labels
  <2> QED
    BY ONLY <2>3, <2>5
<1>5. CASE TransactionCall(job)
  <2>1. job.program = F!i2c_transaction(Len(job.bytes), job.reads, job.half, job.limit)
    BY ONLY <1>5 DEF TransactionCall
  <2>2. job.reads \in 1 .. 255
    BY ONLY <1>5 DEF TransactionCall
  <2>3. Len(job.bytes) \in 2 .. 255
    BY ONLY <1>5 DEF TransactionCall
  <2>4. job.reads > 0 /\ Len(job.bytes) > 0
    BY ONLY <2>2, <2>3, CountBound, PairBound
  <2>5. Typed(job.program, TransactionShape, job.half, job.limit)
    BY ONLY <2>1, <2>4, TransactionFits
  <2>6. Labels = TransactionShape
    BY ONLY <1>5 DEF Labels, TransactionCall
  <2> QED
    BY ONLY <2>5, <2>6
<1> QED
  BY ONLY <1>1, <1>2, <1>3, <1>4, <1>5

LEMMA JobIsTyped ==
  ASSUME job \in Jobs
  PROVE  /\ Typed(job.program, Labels, job.half, job.limit)
         /\ job.half \in Nat /\ job.half >= 4
         /\ job.limit \in 1 .. MaxHold /\ job.limit \in Nat \ {0}
<1>1. Typed(job.program, Labels, job.half, job.limit)
  BY ONLY CallIsTyped, job \in Jobs
<1>2. job.limit \in 1 .. MaxHold
  BY ONLY I2CAssumption, job \in Jobs
<1>3. job.half \in Nat /\ job.half >= 4
  <2>1. \A j \in Jobs : j.half \in 4 .. 8192
    BY ONLY I2CAssumption
  <2>2. PICK x \in 4 .. 8192 : x = job.half
    BY ONLY <2>1, job \in Jobs
  <2>3. x \in Nat /\ x >= 4
    OBVIOUS
  <2> QED
    BY ONLY <2>2, <2>3
<1>4. job.limit \in Nat \ {0}
  BY ONLY <1>2, HoldWidth
<1> QED
  BY ONLY <1>1, <1>2, <1>3, <1>4

\* The word at an address that has a label.
LEMMA WordHere ==
  ASSUME job \in Jobs, job.program \in Seq(Words), pc \in 0 .. Len(job.program) - 1,
         NEW w, w = job.program[pc + 1]
  PROVE  /\ Fits(w, Here, Label(Labels, pc + 1 + 1), Label(Labels, w.target + 1),
                 job.half, job.limit)
         /\ IsInstruction(w)
<1>1. Typed(job.program, Labels, job.half, job.limit)
  BY JobIsTyped
<1>2. DOMAIN job.program = 1 .. Len(job.program) /\ pc + 1 \in 1 .. Len(job.program)
  OBVIOUS
<1>3. w \in Words
  BY <1>2
<1>4. Fit(job.program, Labels, pc + 1, job.half, job.limit)
  BY ONLY <1>1, <1>2 DEF Typed
<1> QED
  BY ONLY <1>3, <1>4, w = job.program[pc + 1], WordAssumption DEF Fit, Here

LEMMA LabelBounds ==
  ASSUME job \in Jobs, job.program \in Seq(Words), NEW k \in Int, Kind(Label(Labels, k + 1)) # "none"
  PROVE  k \in 0 .. Len(job.program) - 1
<1>1. DOMAIN Labels = DOMAIN job.program
  BY JobIsTyped DEF Typed
<1>2. DOMAIN job.program = 1 .. Len(job.program) /\ Len(job.program) \in Nat
  OBVIOUS
<1>3. k + 1 \in DOMAIN Labels
  BY DEF Label, Kind, HeldLabels, RisingLabels, HighLabels, IdleLabels, DoneLabels
<1> QED
  BY ONLY <1>1, <1>2, <1>3, k \in Int

(***************************************************************************)
(* The invariant of the lines.                                             *)
(***************************************************************************)
RunsAt ==
  /\ pc \in 0 .. Len(job.program) - 1 /\ At(Here)
  /\ wait_elapsed \in 0 .. job.limit - 1 /\ delay_left \in Nat
  /\ job.program[pc + 1].op # "WAIT" => wait_elapsed = 0
  /\ stream_enabled \in BOOLEAN /\ ~halted /\ ~fault
RestsAt == out_enable = {} /\ IF run_prev THEN target.late => fault ELSE Idle /\ ~halted
LinesInv == /\ OnBus /\ Wired /\ target.phase \in 0 .. 9
            /\ running => run_prev /\ RunsAt
            /\ ~running => RestsAt

LEMMA RestsClock ==
  ASSUME NEW p, InStore(p), Next, ~running
  PROVE  /\ run_prev => run_prev' /\ ~running' /\ fault' = fault /\ halted' = halted
         /\ ~run_prev /\ running' => /\ run_prev' /\ ~halted' /\ ~fault' /\ wait_elapsed' = 0
                                     /\ stream_enabled' = FALSE
         /\ ~run_prev /\ ~running' => IF run_prev' THEN fault' ELSE ~halted'
<1>1. run_prev' = run /\ (run_prev => run)
  BY ThreeClocks DEF Synchronize, InStore, RunOnly
<1>2. CASE ~run /\ Stopped
  BY <1>1, <1>2 DEF Stopped, Abort
<1>3. CASE run /\ ~run_prev /\ Start
  BY <1>1, <1>3 DEF Start, ClearExecution
<1>4. CASE run /\ run_prev /\ Steps
  BY <1>1, <1>4 DEF Steps, Delay, PastEnd, Reject, Drive, Patch, Wait, Jump, Branch, Sample,
     Load, Out, In, Djnz, CheckTx, Stream, PullReady, PushReady, Stall, ByteLoop, LastByte,
     Capture, Halt, Halted, Runs, Is, issue, Executing, statusVars
<1> QED
  BY <1>2, <1>3, <1>4, ThreeClocks

LEMMA InitialLines == BusInit => LinesInv
<1> SUFFICES ASSUME BusInit PROVE LinesInv
  OBVIOUS
<1>1. job \in Jobs /\ Loaded(job.program) /\ TargetInit
  BY DEF BusInit, BenchInit
<1>2. job.program \in Seq(Words) /\ Len(job.program) <= MemWords /\ ~Deselects /\ ~Resets
  BY <1>1, BenchAssumption
<1>3. OnBus
  BY <1>1, <1>2, LoadedImage DEF OnBus
<1>4. ~running /\ ~run_prev /\ ~halted /\ out_enable = {} /\ out_value = {}
  BY <1>1 DEF Loaded, ResetEngine
<1>5. job.limit \in Nat \ {0}
  BY <1>1, JobIsTyped
<1>6. Wired /\ Idle /\ target.phase = 0
  BY <1>1, <1>4, <1>5 DEF TargetInit, Wired, Idle, TargetFields, ToldFields, SCL, SDA
<1> QED
  BY <1>3, <1>4, <1>6 DEF LinesInv, RestsAt

LEMMA RestingLines ==
  ASSUME LinesInv, BusClock, ~running
  PROVE  LinesInv' /\ SameCounts /\ out_enable' \cap out_value' = {}
<1>1. OnBus /\ Wired /\ target.phase \in 0 .. 9 /\ RestsAt /\ Next /\ OnBus'
  BY BusPins, BusStays DEF LinesInv
<1>2. InStore(job.program) /\ out_enable = {}
  BY <1>1 DEF OnBus, RestsAt
<1>3. out_enable' = {} /\ out_value' = {} /\ (running' => pc' = 0 /\ delay_left' = 0)
  BY <1>1, <1>2, RestClock DEF Wired
<1>4. LineClock
  BY <1>1, <1>3, Lines
<1>5. Wired' /\ target'.phase \in 0 .. 9 /\ target'.oe = {} /\ target.oe = {} /\ job' = job
  BY <1>2, <1>3, <1>4 DEF LineClock, Wired
<1>6. (target'.late <=> target.late) /\ SDAStays
  BY <1>4, <1>5, NoStretch DEF SDAStays
<1>7. CASE run_prev
  <2>1. run_prev' /\ ~running' /\ fault' = fault
    BY <1>1, <1>2, <1>7, RestsClock
  <2>2. RestsAt'
    BY <1>1, <1>3, <1>6, <1>7, <2>1 DEF RestsAt
  <2>3. SameCounts
    BY <1>4, <1>5, <1>6, NoStretch
    DEF LineClock, Begins, Ends, Rises, Falls, Rests, Goes, Wired
  <2> QED
    BY <1>1, <1>3, <1>5, <2>1, <2>2, <2>3 DEF LinesInv
<1>8. CASE ~run_prev
  <2>1. Idle' /\ SameCounts
    BY <1>1, <1>4, <1>5, <1>8, IdleStays DEF RestsAt
  <2>2. CASE ~running'
    <3>1. ~run_prev' => ~halted'
      BY <1>1, <1>2, <1>8, <2>2, RestsClock
    <3>2. RestsAt'
      BY <1>3, <2>1, <3>1 DEF RestsAt, Idle
    <3> QED
      BY <1>1, <1>3, <1>5, <2>1, <2>2, <3>2 DEF LinesInv
  <2>3. CASE running'
    <3>1. run_prev' /\ ~halted' /\ ~fault' /\ wait_elapsed' = 0 /\ stream_enabled' = FALSE
      BY <1>1, <1>2, <1>8, <2>3, RestsClock
    <3>2. pc' = 0 /\ delay_left' = 0
      BY <1>3, <2>3
    <3>3. Here' = "idle" /\ 0 \in 0 .. Len(job.program) - 1
      <4>1. Labels' = Labels /\ job \in Jobs /\ job.program \in Seq(Words)
        BY <1>1, <1>5 DEF Labels, Streaming, OnBus, InStore
      <4>2. DOMAIN Labels = DOMAIN job.program /\ Labels[1] = "idle"
        BY <4>1, JobIsTyped DEF Typed
      <4>3. 1 \in DOMAIN Labels
        BY <4>1, <4>2, JobIsTyped DEF Typed
      <4> QED
        BY <3>2, <4>1, <4>2, <4>3 DEF Here, Label
    <3>4. At("idle")'
      BY <2>1 DEF At, Kind, HeldLabels, RisingLabels, HighLabels, IdleLabels, Counted, Parts,
         OutBits, InBits, WholeBytes
    <3>5. job.limit \in Nat \ {0}
      BY <1>1, JobIsTyped DEF OnBus
    <3>6. RunsAt'
      <4>1. wait_elapsed' \in 0 .. job'.limit - 1
        BY ONLY <1>5, <3>1, <3>5
      <4>2. pc' \in 0 .. Len(job'.program) - 1 /\ At(Here)'
        BY <1>5, <3>2, <3>3, <3>4
      <4>3. delay_left' \in Nat /\ stream_enabled' \in BOOLEAN
        BY ONLY <3>1, <3>2
      <4> QED
        BY ONLY <3>1, <4>1, <4>2, <4>3 DEF RunsAt
    <3> QED
      BY <1>1, <1>3, <1>5, <2>1, <2>3, <3>1, <3>6 DEF LinesInv
  <2> QED
    BY <2>2, <2>3
<1> QED
  BY <1>7, <1>8

\* The word at pc of a program that runs without a delay.
LEMMA ActsAreWired ==
  ASSUME OnBus, BusClock, Wired, target.phase \in 0 .. 9, running, out_value' = {}
  PROVE  LineClock /\ job' = job /\ Labels' = Labels
<1>1. LineClock
  BY Lines
<1> QED
  BY <1>1 DEF LineClock, Labels, Streaming

\* A delay leaves everything but the target as it was.
LEMMA DelayedLines ==
  ASSUME LinesInv, BusClock, running, delay_left # 0
  PROVE  LinesInv' /\ running' /\ SameCounts /\ out_enable' \cap out_value' = {}
<1>1. OnBus /\ Wired /\ target.phase \in 0 .. 9 /\ RunsAt /\ OnBus' /\ run_prev
  BY BusStays DEF LinesInv
<1>2. pc \in 0 .. Len(job.program) - 1 /\ stream_enabled \in BOOLEAN /\ job \in Jobs
  BY <1>1 DEF RunsAt, OnBus
<1>3. job.program \in Seq(Words)
  BY <1>1 DEF OnBus, InStore
<1>4. PICK w : w = job.program[pc + 1]
  OBVIOUS
<1>5. w.op \in I2COps
  BY <1>2, <1>3, <1>4, WordHere, FitsWords
<1>6. Counting
  BY <1>1, <1>2, <1>4, <1>5, RunClock
<1>7. out_value' = {} /\ out_enable' = out_enable
  BY <1>1, <1>6 DEF Counting, Wired
<1>8. LineClock /\ job' = job /\ Labels' = Labels
  BY <1>1, <1>7, ActsAreWired
<1>9. Wired' /\ target'.phase \in 0 .. 9 /\ target'.oe = target.oe
  BY <1>7, <1>8 DEF LineClock, Wired
<1>10. delay_left \in Nat \ {0} /\ delay_left' = delay_left - 1 /\ delay_left' \in Nat
  BY <1>1, <1>6 DEF RunsAt, Counting
<1>11. /\ pc' = pc /\ wait_elapsed' = wait_elapsed /\ loop_count' = loop_count
       /\ stream_enabled' = stream_enabled /\ running' = running /\ halted' = halted
       /\ fault' = fault
  BY <1>6 DEF Counting, statusVars, shiftVars, streamVars
<1>12. At(Here)
  BY <1>1 DEF RunsAt
<1>13. At(Here)' /\ SameCounts
  <2>1. Here' = Here
    BY <1>8, <1>11 DEF Here, Label
  <2>2. \A l : At(l) => At(l)' /\ SameCounts
    BY <1>8, <1>9, <1>10, <1>11, CountAt
  <2>3. PICK l : l = Here
    OBVIOUS
  <2>4. At(l)' /\ SameCounts
    BY <1>12, <2>2, <2>3
  <2> QED
    BY <2>1, <2>3, <2>4 DEF At, Parts
<1>14. RunsAt'
  BY <1>1, <1>8, <1>10, <1>11, <1>13 DEF RunsAt
<1>15. run_prev'
  BY <1>1, ThreeClocks, BusStays DEF Synchronize, OnBus, InStore, RunOnly
<1> QED
  BY <1>1, <1>7, <1>9, <1>11, <1>13, <1>14, <1>15 DEF LinesInv

\* A word that is not rejected takes the lines to the label of the next one.
LEMMA ActedLines ==
  ASSUME LinesInv, BusClock, running, delay_left = 0, NEW w, w = job.program[pc + 1],
         instruction = w, ~Rejected, w.op \notin {"HALT", "TRAP"}, UNCHANGED statusVars, Acts(w)
  PROVE  LinesInv' /\ Framed /\ out_enable' \cap out_value' = {}
<1>1. OnBus /\ Wired /\ target.phase \in 0 .. 9 /\ RunsAt /\ OnBus' /\ run_prev
  BY BusStays DEF LinesInv
<1>2. /\ pc \in 0 .. Len(job.program) - 1 /\ job \in Jobs /\ job.program \in Seq(Words)
      /\ wait_elapsed \in 0 .. job.limit - 1 /\ At(Here)
      /\ (w.op # "WAIT" => wait_elapsed = 0) /\ stream_enabled \in BOOLEAN
  BY <1>1 DEF RunsAt, OnBus, InStore
<1>3. PICK l, n, t : l = Here /\ n = Label(Labels, pc + 1 + 1) /\ t = Label(Labels, w.target + 1)
  OBVIOUS
<1>4. Fits(w, l, n, t, job.half, job.limit) /\ IsInstruction(w) /\ At(l)
  BY ONLY <1>2, <1>3, w = job.program[pc + 1], WordHere
<1>5. /\ w.op \in I2COps /\ (w.op \in {"DRIVE", "PATCH"} => w.value = {})
      /\ (w.op = "OUT" => w.drain)
      /\ (w.op = "WAIT" <=> WaitsFor(w, 0, job.limit) \/ WaitsFor(w, 1, job.limit))
  BY ONLY <1>4, FitsWords
<1>6. out_value' = {}
  <2>1. out_value = {} /\ ActsOnPins(w)
    BY <1>1 DEF Wired, Acts
  <2> QED
    BY ONLY <1>5, <2>1 DEF ActsOnPins
<1>7. LineClock /\ job' = job /\ Labels' = Labels
  BY <1>1, <1>6, ActsAreWired
<1>8. Wired' /\ target'.phase \in 0 .. 9
  BY <1>7 DEF LineClock
<1>9. running' /\ ~halted' /\ ~fault'
  BY <1>1 DEF RunsAt, statusVars
<1>10. /\ job.half \in Nat /\ job.half >= 4 /\ job.limit \in 1 .. MaxHold
       /\ job.limit \in Nat \ {0}
  BY <1>2, JobIsTyped
<1>11. Acted(w, job.half)
  BY <1>1, <1>2, <1>7, <1>8, <1>9, <1>10, LanesMove DEF Acted
<1>12. Led(w, l, n, t)
  BY ONLY <1>2, <1>4, <1>10, <1>11, w.op \notin {"HALT", "TRAP"}, WordAt
<1>13. pc' \in {pc, pc + 1} \/ (pc' = w.target /\ w.target \in Target)
  <2>1. ActsOnPlace(w)
    BY DEF Acts
  <2>2. w.op \in {"JUMP", "DJNZ", "BRANCH", "BYTE_LOOP", "LAST_BYTE"} => w.target \in Target
    BY ONLY <1>4 DEF IsInstruction
  <2>3. w.op \in I2COps \ {"HALT", "TRAP"}
    BY <1>5
  <2> QED
    BY ONLY <2>1, <2>2, <2>3 DEF ActsOnPlace, I2COps
<1>14. pc' \in Int
  BY <1>2, <1>13, MemAssumption DEF Target
<1>15. At(Here)'
  <2>1. (pc' = pc /\ At(l)') \/ (pc' = pc + 1 /\ At(n)') \/ (pc' = w.target /\ At(t)')
    BY <1>12 DEF Led
  <2>2. Here' = IF pc' = pc THEN l ELSE IF pc' = pc + 1 THEN n ELSE Label(Labels, pc' + 1)
    BY <1>2, <1>3, <1>7 DEF Here, Label
  <2>3. Here' = Label(Labels, pc' + 1)
    BY <1>7 DEF Here, Label
  <2>4. PICK m : m = Label(Labels, pc' + 1)
    OBVIOUS
  <2>5. At(m)'
    <3>1. CASE pc' = pc /\ At(l)'
      <4>1. m = l
        BY <1>3, <2>4, <3>1 DEF Here
      <4> QED
        BY <3>1, <4>1
    <3>2. CASE pc' = pc + 1 /\ At(n)'
      <4>1. m = n
        BY <1>3, <2>4, <3>2
      <4> QED
        BY <3>2, <4>1
    <3>3. CASE pc' = w.target /\ At(t)'
      <4>1. m = t
        BY <1>3, <2>4, <3>3
      <4> QED
        BY <3>3, <4>1
    <3> QED
      BY <2>1, <3>1, <3>2, <3>3
  <2> QED
    BY <2>3, <2>4, <2>5 DEF At, Parts
<1>16. pc' \in 0 .. Len(job.program) - 1
  <2>1. Kind(Label(Labels, pc' + 1)) # "none"
    BY <1>7, <1>15 DEF At, Here, Label
  <2>2. PICK k \in Int : k = pc'
    BY <1>14
  <2>3. Kind(Label(Labels, k + 1)) # "none"
    BY <2>1, <2>2
  <2>4. k \in 0 .. Len(job.program) - 1
    BY ONLY <1>2, <2>3, k \in Int, LabelBounds
  <2> QED
    BY <2>2, <2>4
<1>17. /\ wait_elapsed' \in 0 .. job.limit - 1
       /\ job.program[pc' + 1].op # "WAIT" => wait_elapsed' = 0
  <2>1. CASE w.op # "WAIT"
    <3>1. wait_elapsed' = 0
      BY <1>2, <2>1 DEF Acts, ActsOnTime
    <3> QED
      BY <1>10, <3>1
  <2>2. CASE w.op = "WAIT"
    <3>1. PICK lane \in {0, 1} : WaitsFor(w, lane, job.limit)
      BY <1>5, <2>2
    <3>2. /\ lane \in input_sync.lanes => wait_elapsed' = 0 /\ pc' = pc + 1
          /\ lane \notin input_sync.lanes => /\ wait_elapsed # job.limit - 1 /\ pc' = pc
                                             /\ wait_elapsed' = wait_elapsed + 1
      BY <1>2, <1>10, <1>11, <3>1, WaitActs
    <3>3. CASE lane \in input_sync.lanes
      BY <1>10, <3>2, <3>3
    <3>4. CASE lane \notin input_sync.lanes
      BY <1>2, <1>10, <2>2, <3>2, <3>4
    <3> QED
      BY <3>3, <3>4
  <2> QED
    BY <2>1, <2>2
<1>18. delay_left' \in Nat /\ stream_enabled' \in BOOLEAN
  <2>1. ActsOnTime(w) /\ ActsOnCounts(w)
    BY DEF Acts
  <2>2. w.op \in {"DRIVE", "PATCH"} => w.hold \in Nat
    BY <1>4, HoldWidth DEF IsInstruction
  <2>3. delay_left' \in Nat
    BY ONLY <2>1, <2>2 DEF ActsOnTime
  <2>4. stream_enabled' \in BOOLEAN
    BY ONLY <1>2, <2>1 DEF ActsOnCounts
  <2> QED
    BY <2>3, <2>4
<1>19. RunsAt'
  BY ONLY <1>7, <1>9, <1>15, <1>16, <1>17, <1>18 DEF RunsAt
<1>20. run_prev'
  BY <1>1, ThreeClocks, BusStays DEF Synchronize, OnBus, InStore, RunOnly
<1> QED
  BY <1>1, <1>6, <1>8, <1>9, <1>12, <1>19, <1>20 DEF LinesInv, Led

\* A fault and the end of a program let both lines go.
LEMMA EndedLines ==
  ASSUME LinesInv, BusClock, running, delay_left = 0, NEW w, w = job.program[pc + 1],
         Faults \/ (w.op = "HALT" /\ Halts)
  PROVE  LinesInv' /\ ~running' /\ out_enable' \cap out_value' = {}
<1>1. OnBus /\ Wired /\ target.phase \in 0 .. 9 /\ RunsAt /\ OnBus' /\ run_prev
  BY BusStays DEF LinesInv
<1>2. /\ pc \in 0 .. Len(job.program) - 1 /\ job \in Jobs /\ job.program \in Seq(Words)
      /\ At(Here) /\ ~fault
  BY <1>1 DEF RunsAt, OnBus, InStore
<1>3. ~running' /\ out_enable' = {} /\ out_value' = {}
  BY <1>1 DEF Faults, Halts, Wired
<1>4. LineClock /\ job' = job
  BY <1>1, <1>3, ActsAreWired
<1>5. Wired' /\ target'.phase \in 0 .. 9 /\ target'.oe = {}
  BY <1>3, <1>4 DEF LineClock, Wired
<1>6. run_prev'
  BY <1>1, ThreeClocks, BusStays DEF Synchronize, OnBus, InStore, RunOnly
<1>7. target'.late => fault'
  <2>1. CASE Faults
    BY <2>1 DEF Faults
  <2>2. CASE w.op = "HALT" /\ Halts
    <3>1. Kind(Here) = "done"
      <4>1. Fits(w, Here, Label(Labels, pc + 1 + 1), Label(Labels, w.target + 1),
                 job.half, job.limit)
        BY <1>2, WordHere
      <4> QED
        BY <2>2, <4>1, FitsWords
    <3>2. Done
      BY <1>2, <3>1 DEF At
    <3>3. SCL \notin target'.oe
      BY <1>5
    <3>4. Done'
      BY <1>4, <3>2, <3>3, DoneStays
    <3> QED
      BY <3>4 DEF Done
  <2> QED
    BY <2>1, <2>2
<1>8. RestsAt'
  BY <1>3, <1>6, <1>7 DEF RestsAt
<1> QED
  BY <1>1, <1>3, <1>5, <1>8 DEF LinesInv

LEMMA RunningLines ==
  ASSUME LinesInv, BusClock, running
  PROVE  LinesInv' /\ (running' => Framed) /\ out_enable' \cap out_value' = {}
<1>1. CASE delay_left # 0
  BY <1>1, DelayedLines DEF Framed
<1>2. CASE delay_left = 0
  <2>1. OnBus /\ RunsAt
    BY DEF LinesInv
  <2>2. /\ pc \in 0 .. Len(job.program) - 1 /\ stream_enabled \in BOOLEAN /\ job \in Jobs
        /\ job.program \in Seq(Words)
    BY <2>1 DEF RunsAt, OnBus, InStore
  <2>3. PICK w : w = job.program[pc + 1]
    OBVIOUS
  <2>4. w.op \in I2COps
    BY <2>2, <2>3, WordHere, FitsWords
  <2>5. /\ instruction = w
        /\ \/ Rejected /\ Faults
           \/ w.op = "HALT" /\ Halts
           \/ ~Rejected /\ w.op \notin {"HALT", "TRAP"} /\ UNCHANGED statusVars /\ Acts(w)
    BY <1>2, <2>1, <2>2, <2>3, <2>4, RunClock
  <2>6. CASE Faults \/ (w.op = "HALT" /\ Halts)
    BY <1>2, <2>3, <2>6, EndedLines
  <2>7. CASE ~Rejected /\ w.op \notin {"HALT", "TRAP"} /\ UNCHANGED statusVars /\ Acts(w)
    BY <1>2, <2>3, <2>5, <2>7, ActedLines
  <2> QED
    BY <2>5, <2>6, <2>7
<1> QED
  BY <1>1, <1>2

LEMMA StillLines ==
  ASSUME LinesInv, UNCHANGED i2cVars
  PROVE  LinesInv'
<1>1. UNCHANGED <<vars, job, target, told>>
  BY DEF i2cVars, benchVars
<1>2. /\ input_meta' = input_meta /\ input_sync' = input_sync /\ run_prev' = run_prev
      /\ running' = running /\ halted' = halted /\ fault' = fault /\ pc' = pc
      /\ delay_left' = delay_left /\ wait_elapsed' = wait_elapsed /\ loop_count' = loop_count
      /\ out_value' = out_value /\ out_enable' = out_enable /\ stream_enabled' = stream_enabled
      /\ job' = job /\ target' = target /\ told' = told
  BY <1>1 DEF vars, syncVars, statusVars, pinVars, shiftVars,
     streamVars
<1>3. OnBus'
  BY <1>1, ImageStutters DEF LinesInv, OnBus
<1>4. Wired' /\ target'.phase \in 0 .. 9
  BY <1>1, <1>2 DEF LinesInv, Wired
<1>5. RestsAt => RestsAt'
  BY <1>2 DEF RestsAt, Idle
<1>6. RunsAt => RunsAt'
  <2>1. Here' = Here
    BY <1>2 DEF Here, Label, Labels, Streaming
  <2>2. PICK l, c : l = Here /\ c = loop_count
    OBVIOUS
  <2>3. PICK f : f = Place(l, c)
    OBVIOUS
  <2>4. Due' = Due
    BY <1>2 DEF Due
  <2>5. At(l) => At(l)'
    <3>1. Place(l, loop_count) = f /\ Place(l, loop_count') = f
      BY <1>2, <2>2, <2>3
    <3>2. (Held(f) => Held(f)') /\ (High(f) => High(f)') /\ (Idle => Idle') /\ (Done => Done')
      BY <1>2 DEF Held, High, Idle, Done
    <3>3. Freed(f) => Freed(f)'
      BY <1>2, <2>4 DEF Freed
    <3>4. Parts(l) => Parts(l)'
      BY <1>2 DEF Parts, Settles, Settled
    <3>5. Counted(l, loop_count) => Counted(l, loop_count)'
      BY <1>2 DEF Counted
    <3> QED
      BY <3>1, <3>2, <3>3, <3>4, <3>5 DEF At
  <2>6. At(Here) => At(Here)'
    BY <2>1, <2>2, <2>5
  <2> QED
    BY <1>2, <2>6 DEF RunsAt
<1> QED
  BY <1>2, <1>3, <1>4, <1>5, <1>6 DEF LinesInv

(***************************************************************************)
(* The theorems.                                                           *)
(***************************************************************************)
LEMMA LinesStep ==
  ASSUME LinesInv, [BusClock]_i2cVars
  PROVE  LinesInv'
BY RestingLines, RunningLines, StillLines

\* At every word of every program the two lines, the bit of the byte, the delays and
\* the stretch of the clock are where the program's label for that word says
\* (tools/streaming.py:99-199, tools/program.py:97-129).
THEOREM LinesAreWhereTheLabelsSay == BusSpec => []LinesInv
<1>1. BusInit => LinesInv
  BY InitialLines
<1>2. LinesInv /\ [BusClock]_i2cVars => LinesInv'
  BY LinesStep
<1> QED
  BY <1>1, <1>2, PTL DEF BusSpec

\* While a program runs, SDA moves under a high clock only to frame the transaction,
\* whatever the target, the rival and the host do, and neither line is ever driven
\* high (tools/streaming.py:99-127).
THEOREM BytesAreFramedCleanly == BusSpec => FramedCleanly
<1>1. ASSUME LinesInv, BusClock
      PROVE  /\ out_enable' \cap out_value' = {}
             /\ running' => Framed
  <2>1. CASE running
    BY <1>1, <2>1, RunningLines
  <2>2. CASE ~running
    BY <1>1, <2>2, RestingLines DEF Framed
  <2> QED
    BY <2>1, <2>2
<1>2. ASSUME LinesInv, [BusClock]_i2cVars
      PROVE  [/\ out_enable' \cap out_value' = {}
              /\ <<told.starts, told.repeated, told.stops>>'
                   # <<told.starts, told.repeated, told.stops>>
                   /\ running' => target.phase \in {0, 1}]_i2cVars
  <2>1. CASE UNCHANGED i2cVars
    BY <2>1
  <2>2. CASE BusClock
    BY <1>1, <1>2, <2>2 DEF Framed, SameCounts
  <2> QED
    BY <1>2, <2>1, <2>2
<1> QED
  BY <1>2, LinesAreWhereTheLabelsSay, PTL DEF BusSpec, FramedCleanly

LEMMA StallsLow ==
  ASSUME LinesInv
  PROVE  StallsWithClockLow
<1> SUFFICES ASSUME Stalled PROVE SCL \in out_enable \ out_value
  BY DEF StallsWithClockLow
<1>1. running /\ instruction.op \in {"PULL", "PUSH"}
  BY DEF Stalled, issue, Executing
<1>2. OnBus /\ Wired /\ RunsAt
  BY <1>1 DEF LinesInv
<1>3. /\ pc \in 0 .. Len(job.program) - 1 /\ job \in Jobs /\ job.program \in Seq(Words)
      /\ InStore(job.program) /\ At(Here)
  BY <1>2 DEF RunsAt, OnBus, InStore
<1>4. PICK w : w = job.program[pc + 1]
  OBVIOUS
<1>5. w.op \in {"PULL", "PUSH"}
  BY <1>1, <1>3, <1>4, Fetch
<1>6. Kind(Here) = "held"
  <2>1. Fits(w, Here, Label(Labels, pc + 1 + 1), Label(Labels, w.target + 1),
             job.half, job.limit)
    BY <1>3, <1>4, WordHere
  <2> QED
    BY <1>5, <2>1, FitsWords
<1>7. SCL \in target.oe
  BY <1>3, <1>6 DEF At, Held
<1> QED
  BY <1>2, <1>7 DEF Wired

\* Wherever a program waits for the host, the clock is low (docs/streaming.md:66).
THEOREM StallsHoldTheClockLow == BusSpec => []StallsWithClockLow
<1>1. LinesInv => StallsWithClockLow
  BY StallsLow
<1> QED
  BY <1>1, LinesAreWhereTheLabelsSay, PTL

(***************************************************************************)
(* Why a program faults.                                                   *)
(***************************************************************************)
Again == {"parting", "again", "again_rising", "again_waits", "again_high", "again_begun",
          "rejoined"}
Spots == {"fresh", "open", "next", "pulled", "ninth", "between"} \cup Again

LEMMA StartSpots == \A i \in 1 .. 5 : StartShape[i] \notin Spots
BY DEF StartShape, Spots, Again

LEMMA SendSpots ==
  /\ \A i \in 1 .. 14 : SendShape(<< >>)[i] \notin Spots
  /\ \A i \in 1 .. 15 : SendShape(<<"answer_high">>)[i] \notin Spots
<1>1. \A i \in 1 .. 14 : SendShape(<< >>)[i] \notin Spots
  BY DEF SendShape, Spots, Again
<1>2. \A i \in 1 .. 15 : SendShape(<<"answer_high">>)[i] \notin Spots
  BY DEF SendShape, Spots, Again
<1> QED
  BY <1>1, <1>2

LEMMA ReadSpots == \A i \in 1 .. 17 : ReadShape[i] \in Spots => ReadShape[i] \in {"ninth", "between"}
BY DEF ReadShape, Spots, Again

LEMMA FinishSpots == \A i \in 1 .. 13 : FinishShape[i] \notin Spots
BY DEF FinishShape, Spots, Again

LEMMA AgainSpots == \A i \in 1 .. 8 : AgainShape[i] \in Again
BY DEF AgainShape, Again

\* Where the labels at which a program turns to its bytes stand.
LEMMA WriteSpots ==
  ASSUME NEW T, WriteMarks(T), NEW k \in 1 .. 50, T[k] \in Spots
  PROVE  k = 6 \/ k = 22
<1>1. CASE k \in 1 .. 5
  <2>1. T[0 + k] = StartShape[k]
    BY <1>1 DEF WriteMarks
  <2> QED
    BY <1>1, <2>1, StartSpots
<1>2. CASE k \in 7 .. 21
  <2>1. k - 6 \in 1 .. 15 /\ 6 + (k - 6) = k
    BY <1>2
  <2>2. T[6 + (k - 6)] = SendShape(<<"answer_high">>)[k - 6]
    BY ONLY <2>1, WriteMarks(T) DEF WriteMarks
  <2> QED
    BY <2>1, <2>2, SendSpots
<1>3. CASE k \in 23 .. 37
  <2>1. k - 22 \in 1 .. 15 /\ 22 + (k - 22) = k
    BY <1>3
  <2>2. T[22 + (k - 22)] = SendShape(<<"answer_high">>)[k - 22]
    BY ONLY <2>1, WriteMarks(T) DEF WriteMarks
  <2> QED
    BY <2>1, <2>2, SendSpots
<1>4. CASE k \in 38 .. 50
  <2>1. k - 37 \in 1 .. 13 /\ 37 + (k - 37) = k
    BY <1>4
  <2>2. T[37 + (k - 37)] = FinishShape[k - 37]
    BY ONLY <2>1, WriteMarks(T) DEF WriteMarks
  <2> QED
    BY <2>1, <2>2, FinishSpots
<1> QED
  BY <1>1, <1>2, <1>3, <1>4

LEMMA WriteStreamSpots ==
  ASSUME NEW T, WriteStreamMarks(T), NEW k \in 1 .. 50, T[k] \in Spots
  PROVE  k = 7 \/ k = 22 \/ k = 37
<1>0. CASE k = 1
  BY <1>0 DEF WriteStreamMarks, Spots, Again
<1>1. CASE k \in 2 .. 6
  <2>1. k - 1 \in 1 .. 5 /\ 1 + (k - 1) = k
    BY <1>1
  <2>2. T[1 + (k - 1)] = StartShape[k - 1]
    BY ONLY <2>1, WriteStreamMarks(T) DEF WriteStreamMarks
  <2> QED
    BY <2>1, <2>2, StartSpots
<1>2. CASE k \in 8 .. 21
  <2>1. k - 7 \in 1 .. 14 /\ 7 + (k - 7) = k
    BY <1>2
  <2>2. T[7 + (k - 7)] = SendShape(<< >>)[k - 7]
    BY ONLY <2>1, WriteStreamMarks(T) DEF WriteStreamMarks
  <2> QED
    BY <2>1, <2>2, SendSpots
<1>3. CASE k \in 23 .. 36
  <2>1. k - 22 \in 1 .. 14 /\ 22 + (k - 22) = k
    BY <1>3
  <2>2. T[22 + (k - 22)] = SendShape(<< >>)[k - 22]
    BY ONLY <2>1, WriteStreamMarks(T) DEF WriteStreamMarks
  <2> QED
    BY <2>1, <2>2, SendSpots
<1>4. CASE k \in 38 .. 50
  <2>1. k - 37 \in 1 .. 13 /\ 37 + (k - 37) = k
    BY <1>4
  <2>2. T[37 + (k - 37)] = FinishShape[k - 37]
    BY ONLY <2>1, WriteStreamMarks(T) DEF WriteStreamMarks
  <2> QED
    BY <2>1, <2>2, FinishSpots
<1> QED
  BY <1>0, <1>1, <1>2, <1>3, <1>4

LEMMA ReadsSpots ==
  ASSUME NEW T, ReadMarks(T), NEW k \in 1 .. 51, T[k] \in Spots
  PROVE  k = 7 \/ T[k] \in {"ninth", "between"}
<1>0. CASE k = 1
  BY <1>0 DEF ReadMarks, Spots, Again
<1>1. CASE k \in 2 .. 6
  <2>1. k - 1 \in 1 .. 5 /\ 1 + (k - 1) = k
    BY <1>1
  <2>2. T[1 + (k - 1)] = StartShape[k - 1]
    BY ONLY <2>1, ReadMarks(T) DEF ReadMarks
  <2> QED
    BY <2>1, <2>2, StartSpots
<1>2. CASE k \in 8 .. 21
  <2>1. k - 7 \in 1 .. 14 /\ 7 + (k - 7) = k
    BY <1>2
  <2>2. T[7 + (k - 7)] = SendShape(<< >>)[k - 7]
    BY ONLY <2>1, ReadMarks(T) DEF ReadMarks
  <2> QED
    BY <2>1, <2>2, SendSpots
<1>3. CASE k \in 22 .. 38
  <2>1. k - 21 \in 1 .. 17 /\ 21 + (k - 21) = k
    BY <1>3
  <2>2. T[21 + (k - 21)] = ReadShape[k - 21]
    BY ONLY <2>1, ReadMarks(T) DEF ReadMarks
  <2> QED
    BY <2>1, <2>2, ReadSpots
<1>4. CASE k \in 39 .. 51
  <2>1. k - 38 \in 1 .. 13 /\ 38 + (k - 38) = k
    BY <1>4
  <2>2. T[38 + (k - 38)] = FinishShape[k - 38]
    BY ONLY <2>1, ReadMarks(T) DEF ReadMarks
  <2> QED
    BY <2>1, <2>2, FinishSpots
<1> QED
  BY <1>0, <1>1, <1>2, <1>3, <1>4

LEMMA TransactionSpots ==
  ASSUME NEW T, TransactionMarks(T), NEW k \in 1 .. 62, T[k] \in Spots
  PROVE  k = 7 \/ k = 8 \/ k = 23 \/ T[k] \in {"ninth", "between"} \cup Again
<1>0. CASE k = 1 \/ k = 24
  BY <1>0 DEF TransactionMarks, Spots, Again
<1>1. CASE k \in 2 .. 6
  <2>1. k - 1 \in 1 .. 5 /\ 1 + (k - 1) = k
    BY <1>1
  <2>2. T[1 + (k - 1)] = StartShape[k - 1]
    BY ONLY <2>1, TransactionMarks(T) DEF TransactionMarks
  <2> QED
    BY <2>1, <2>2, StartSpots
<1>2. CASE k \in 9 .. 22
  <2>1. k - 8 \in 1 .. 14 /\ 8 + (k - 8) = k
    BY <1>2
  <2>2. T[8 + (k - 8)] = SendShape(<< >>)[k - 8]
    BY ONLY <2>1, TransactionMarks(T) DEF TransactionMarks
  <2> QED
    BY <2>1, <2>2, SendSpots
<1>3. CASE k \in 25 .. 41
  <2>1. k - 24 \in 1 .. 17 /\ 24 + (k - 24) = k
    BY <1>3
  <2>2. T[24 + (k - 24)] = ReadShape[k - 24]
    BY ONLY <2>1, TransactionMarks(T) DEF TransactionMarks
  <2> QED
    BY <2>1, <2>2, ReadSpots
<1>4. CASE k \in 42 .. 54
  <2>1. k - 41 \in 1 .. 13 /\ 41 + (k - 41) = k
    BY <1>4
  <2>2. T[41 + (k - 41)] = FinishShape[k - 41]
    BY ONLY <2>1, TransactionMarks(T) DEF TransactionMarks
  <2> QED
    BY <2>1, <2>2, FinishSpots
<1>5. CASE k \in 55 .. 62
  <2>1. k - 54 \in 1 .. 8 /\ 54 + (k - 54) = k
    BY <1>5
  <2>2. T[54 + (k - 54)] = AgainShape[k - 54]
    BY ONLY <2>1, TransactionMarks(T) DEF TransactionMarks
  <2> QED
    BY <2>1, <2>2, AgainSpots
<1> QED
  BY <1>0, <1>1, <1>2, <1>3, <1>4, <1>5

\* What a program turns to at these labels.
Suits(w, l) ==
  /\ l = "fresh" => w.byte % 2 = 0 \/ (job.reads > 0 /\ job.repeated = 0)
  /\ l = "open" /\ job.reads > 0 => w.op = "BYTE_LOOP" /\ job.repeated = 1
  /\ w.op \in {"PULL", "PUSH", "BYTE_LOOP", "LAST_BYTE"} => Streaming
  /\ l \in {"next", "pulled"} \cup Again => job.repeated = 1 /\ job.reads > 0
  /\ job.repeated = 1 => job.bytes # << >> /\ Head(job.bytes) % 2 = 0

LEMMA QueueSpots ==
  ASSUME NEW w, NEW l, NEW n, NEW t, NEW h, NEW limit, Fits(w, l, n, t, h, limit),
         w.op \in {"PULL", "PUSH", "BYTE_LOOP", "LAST_BYTE"}
  PROVE  l \in Spots
BY DEF Fits, Spots, WaitsFor, F!drive, F!Low, F!Free, F!hold, F!patch, F!shift_out, F!check_tx,
   F!SAMPLE, F!HALT, F!TRAP, F!Word, F!PULL, F!PUSH

LEMMA TwiceIsEven == \A address \in 0 .. 127 : (2 * address) % 2 = 0
OBVIOUS

LEMMA WriteSuits ==
  ASSUME WriteCall(job), NEW l, NEW w, NEW k \in 1 .. 50, l = WriteShape[k], w = job.program[k],
         w.op \in {"PULL", "PUSH", "BYTE_LOOP", "LAST_BYTE"} => l \in Spots
  PROVE  Suits(w, l)
<1>1. PICK address \in 0 .. 127, byte \in Byte :
        job.program = F!i2c_write(address, byte, job.half, job.limit)
  BY ONLY WriteCall(job) DEF WriteCall
<1>2. WriteHas(job.program, address, byte, job.half, job.limit)
  BY ONLY <1>1, WriteWords
<1>3. PICK T : T = WriteShape /\ WriteMarks(T)
  BY ONLY WriteLabels
<1>4. job.repeated = 0 /\ job.reads = 0
  BY ONLY WriteCall(job) DEF WriteCall
<1>5. l \in Spots => k = 6 \/ k = 22
  BY ONLY <1>3, l = WriteShape[k], k \in 1 .. 50, WriteSpots
<1>6. /\ k = 6 => w = F!load_byte(2 * address) /\ l = "fresh"
      /\ k = 22 => w = F!load_byte(byte) /\ l = "open"
  <2>1. /\ job.program[6] = F!load_byte(2 * address) /\ job.program[22] = F!load_byte(byte)
    BY ONLY <1>2 DEF WriteHas
  <2>2. T[6] = "fresh" /\ T[22] = "open"
    BY ONLY <1>3 DEF WriteMarks
  <2> QED
    BY ONLY <1>3, <2>1, <2>2, l = WriteShape[k], w = job.program[k]
<1>7. CASE l \in Spots
  <2>1. (2 * address) % 2 = 0
    BY <1>1, TwiceIsEven
  <2>2. w.op = "LOAD" /\ l \in {"fresh", "open"} /\ (l = "fresh" => w.byte % 2 = 0)
    BY ONLY <1>5, <1>6, <1>7, <2>1 DEF F!load_byte
  <2> QED
    BY ONLY <1>4, <2>2 DEF Suits, Again
<1>8. CASE l \notin Spots
  BY <1>4, <1>8 DEF Suits, Spots
<1> QED
  BY <1>7, <1>8

LEMMA WriteStreamSuits ==
  ASSUME WriteStreamCall(job), NEW l, NEW w, NEW k \in 1 .. 50, l = WriteStreamShape[k],
         w = job.program[k]
  PROVE  Suits(w, l)
<1>1. PICK address \in 0 .. 127 :
        job.program = F!i2c_write_stream(address, Len(job.bytes), job.half, job.limit)
  BY ONLY WriteStreamCall(job) DEF WriteStreamCall
<1>2. WriteStreamHas(job.program, address, Len(job.bytes), job.half, job.limit)
  BY ONLY <1>1, WriteStreamWords
<1>3. PICK T : T = WriteStreamShape /\ WriteStreamMarks(T)
  BY ONLY WriteStreamLabels
<1>4. job.repeated = 0 /\ job.reads = 0
  BY ONLY WriteStreamCall(job) DEF WriteStreamCall
<1>5. Streaming
  BY ONLY <1>1, FirstWords DEF Streaming
<1>6. l \in Spots => k = 7 \/ k = 22 \/ k = 37
  BY ONLY <1>3, l = WriteStreamShape[k], k \in 1 .. 50, WriteStreamSpots
<1>7. /\ k = 7 => w = F!load_byte(2 * address) /\ l = "fresh"
      /\ k \in {22, 37} => l = "open"
  <2>1. job.program[7] = F!load_byte(2 * address)
    BY ONLY <1>2 DEF WriteStreamHas
  <2>2. T[7] = "fresh" /\ T[22] = "open" /\ T[37] = "open"
    BY ONLY <1>3 DEF WriteStreamMarks
  <2> QED
    BY ONLY <1>3, <2>1, <2>2, l = WriteStreamShape[k], w = job.program[k]
<1>8. CASE l \in Spots
  <2>1. (2 * address) % 2 = 0
    BY <1>1, TwiceIsEven
  <2>2. l \in {"fresh", "open"} /\ (l = "fresh" => w.byte % 2 = 0)
    BY ONLY <1>6, <1>7, <1>8, <2>1 DEF F!load_byte
  <2> QED
    BY ONLY <1>4, <1>5, <2>2 DEF Suits, Again
<1>9. CASE l \notin Spots
  BY <1>4, <1>5, <1>9 DEF Suits, Spots
<1> QED
  BY <1>8, <1>9

LEMMA ReadSuits ==
  ASSUME ReadCall(job), NEW l, NEW w, NEW k \in 1 .. 51, l = ReadsShape[k], w = job.program[k]
  PROVE  Suits(w, l)
<1>1. PICK address \in 0 .. 127 :
        job.program = F!i2c_read(address, job.reads, job.half, job.limit)
  BY ONLY ReadCall(job) DEF ReadCall
<1>2. ReadHas(job.program, address, job.reads, job.half, job.limit)
  BY ONLY <1>1, ReadWords
<1>3. PICK T : T = ReadsShape /\ ReadMarks(T)
  BY ONLY ReadLabels
<1>4. job.repeated = 0 /\ job.reads \in 1 .. 255
  BY ONLY ReadCall(job) DEF ReadCall
<1>5. job.reads > 0
  BY ONLY <1>4, CountBound
<1>6. Streaming
  <2>1. job.program[1] = F!stream(job.reads)
    BY ONLY <1>2 DEF ReadHas
  <2> QED
    BY ONLY <2>1 DEF Streaming, F!stream
<1>7. l \in Spots => k = 7 \/ l \in {"ninth", "between"}
  BY ONLY <1>3, l = ReadsShape[k], k \in 1 .. 51, ReadsSpots
<1>8. k = 7 => l = "fresh"
  BY ONLY <1>3, l = ReadsShape[k] DEF ReadMarks
<1>9. l \notin {"open", "next", "pulled"} \cup Again
  BY ONLY <1>7, <1>8 DEF Spots, Again
<1> QED
  BY ONLY <1>4, <1>5, <1>6, <1>9 DEF Suits

LEMMA TransactionSuits ==
  ASSUME TransactionCall(job), NEW l, NEW w, NEW k \in 1 .. 62, l = TransactionShape[k],
         w = job.program[k]
  PROVE  Suits(w, l)
<1>1. job.program = F!i2c_transaction(Len(job.bytes), job.reads, job.half, job.limit)
  BY ONLY TransactionCall(job) DEF TransactionCall
<1>2. TransactionHas(job.program, Len(job.bytes), job.reads, job.half, job.limit)
  BY ONLY <1>1, TransactionWords
<1>3. PICK T : T = TransactionShape /\ TransactionMarks(T)
  BY ONLY TransactionLabels
<1>4. job.repeated = 1 /\ Head(job.bytes) % 2 = 0
  BY ONLY TransactionCall(job) DEF TransactionCall
<1>5. job.reads > 0 /\ Len(job.bytes) > 0
  <2>1. job.reads \in 1 .. 255
    BY ONLY TransactionCall(job) DEF TransactionCall
  <2>2. Len(job.bytes) \in 2 .. 255
    BY ONLY TransactionCall(job) DEF TransactionCall
  <2>3. job.reads > 0
    BY ONLY <2>1, CountBound
  <2>4. Len(job.bytes) > 0
    BY ONLY <2>2, PairBound
  <2> QED
    BY ONLY <2>3, <2>4
<1>6. Streaming
  <2>1. job.program[1] = F!stream(Len(job.bytes))
    BY ONLY <1>2 DEF TransactionHas
  <2> QED
    BY ONLY <2>1 DEF Streaming, F!stream
<1>7. l \in Spots => k = 7 \/ k = 8 \/ k = 23 \/ l \in {"ninth", "between"} \cup Again
  BY ONLY <1>3, l = TransactionShape[k], k \in 1 .. 62, TransactionSpots
<1>8. /\ k = 7 => l = "next"
      /\ k = 8 => l = "pulled"
      /\ k = 23 => l = "open" /\ w = F!byte_loop(6)
  <2>1. job.program[23] = F!byte_loop(6)
    BY ONLY <1>2 DEF TransactionHas
  <2>2. T[7] = "next" /\ T[8] = "pulled" /\ T[23] = "open"
    BY ONLY <1>3 DEF TransactionMarks
  <2> QED
    BY ONLY <1>3, <2>1, <2>2, l = TransactionShape[k], w = job.program[k]
<1>9. l # "fresh" /\ (l = "open" => w.op = "BYTE_LOOP")
  BY ONLY <1>7, <1>8 DEF Spots, Again, F!byte_loop
<1>10. job.bytes # << >>
  <2>1. Len(<< >>) = 0
    OBVIOUS
  <2> QED
    BY ONLY <1>5, <2>1
<1> QED
  BY ONLY <1>4, <1>5, <1>6, <1>9, <1>10 DEF Suits

LEMMA WordSuits ==
  ASSUME job \in Jobs, job.program \in Seq(Words), pc \in 0 .. Len(job.program) - 1,
         NEW w, w = job.program[pc + 1], NEW l, l = Here
  PROVE  Suits(w, l)
<1>1. WriteCall(job) \/ WriteStreamCall(job) \/ ReadCall(job) \/ TransactionCall(job)
  BY ONLY I2CAssumption, job \in Jobs
<1>2. PICK k : k = pc + 1 /\ k \in 1 .. Len(job.program) /\ k \in DOMAIN job.program
  <2>1. Len(job.program) \in Nat /\ DOMAIN job.program = 1 .. Len(job.program)
    OBVIOUS
  <2> QED
    BY <2>1
<1>3. DOMAIN Labels = DOMAIN job.program
  BY JobIsTyped DEF Typed
<1>4. l = Labels[k] /\ w = job.program[k]
  BY <1>2, <1>3 DEF Here, Label
<1>5. w.op \in {"PULL", "PUSH", "BYTE_LOOP", "LAST_BYTE"} => l \in Spots
  <2>1. Fits(w, l, Label(Labels, pc + 1 + 1), Label(Labels, w.target + 1), job.half, job.limit)
    BY WordHere
  <2> QED
    BY ONLY <2>1, QueueSpots
<1>6. CASE WriteCall(job)
  <2>1. PICK address, byte : job.program = F!i2c_write(address, byte, job.half, job.limit)
    BY ONLY <1>6 DEF WriteCall
  <2>2. Len(job.program) = 50
    BY ONLY <2>1, WriteFits
  <2>3. job.repeated = 0 /\ job.reads = 0
    BY ONLY <1>6 DEF WriteCall
  <2>4. job.program[1].op = "DRIVE"
    BY ONLY <2>1, FirstWords
  <2>5. Labels = WriteShape
    BY ONLY <2>3, <2>4 DEF Labels, Streaming
  <2> QED
    BY ONLY <1>2, <1>4, <1>5, <1>6, <2>2, <2>5, WriteSuits
<1>7. CASE WriteStreamCall(job)
  <2>1. PICK address :
          job.program = F!i2c_write_stream(address, Len(job.bytes), job.half, job.limit)
    BY ONLY <1>7 DEF WriteStreamCall
  <2>2. Len(job.program) = 50
    BY ONLY <2>1, WriteStreamWords DEF WriteStreamHas
  <2>3. job.repeated = 0 /\ job.reads = 0
    BY ONLY <1>7 DEF WriteStreamCall
  <2>4. job.program[1].op = "STREAM"
    BY ONLY <2>1, FirstWords
  <2>5. Labels = WriteStreamShape
    BY ONLY <2>3, <2>4 DEF Labels, Streaming
  <2> QED
    BY ONLY <1>2, <1>4, <1>7, <2>2, <2>5, WriteStreamSuits
<1>8. CASE ReadCall(job)
  <2>1. PICK address : job.program = F!i2c_read(address, job.reads, job.half, job.limit)
    BY ONLY <1>8 DEF ReadCall
  <2>2. Len(job.program) = 51
    BY ONLY <2>1, ReadWords DEF ReadHas
  <2>3. job.repeated = 0 /\ job.reads \in 1 .. 255
    BY ONLY <1>8 DEF ReadCall
  <2>4. Labels = ReadsShape
    BY ONLY <2>3, CountBound DEF Labels
  <2> QED
    BY ONLY <1>2, <1>4, <1>8, <2>2, <2>4, ReadSuits
<1>9. CASE TransactionCall(job)
  <2>1. job.program = F!i2c_transaction(Len(job.bytes), job.reads, job.half, job.limit)
    BY ONLY <1>9 DEF TransactionCall
  <2>2. Len(job.program) = 62
    BY ONLY <2>1, TransactionWords DEF TransactionHas
  <2>3. Labels = TransactionShape
    BY ONLY <1>9 DEF Labels, TransactionCall
  <2> QED
    BY ONLY <1>2, <1>4, <1>9, <2>2, <2>3, TransactionSuits
<1> QED
  BY ONLY <1>1, <1>6, <1>7, <1>8, <1>9

\* As long as no rival has joined and nothing was refused.
Fair == ~target.rival /\ ~told.nacked

\* The byte being sent is even as long as it may be an address for writing.
Weights == <<256, 128, 64, 32, 16, 8, 4, 2>>
Even(c) == tx_shift % Weights[c] = 0
Rest(c) == IF c = 1 THEN last_tx_bit # 1 ELSE Even(c - 1)

\* Bytes that are read follow this one, or the target has its address.
Excused == job.reads > 0 /\ (job.repeated = 1 => byte_count = 1)
Granted == target.direction = "write" \/ Excused
Talks == target.direction \in {"address", "write"} /\ ~target.low
Opens == target.direction = "address" /\ ~target.low
Says == SDA \in target.oe <=> last_tx_bit # 1
FirstByte == /\ job.bytes # << >>
             /\ IF Empty(tx) THEN unsent = job.bytes ELSE Front(tx) = Head(job.bytes)

Loose == {"closing", "stop_rising", "stop_high", "done", "failed_high", "failed",
          "failed_rising", "failed_stop", "failed_done"}
FailedLabels == {"failed_high", "failed", "failed_rising", "failed_stop", "failed_done"}

\* What the synchronizer shows the controller of the lines.
Seen(l) ==
  /\ l = "idle_high" => Settles(SCL, TRUE) /\ Settles(SDA, TRUE)
  /\ l = "send" => Settles(SDA, target.sda)
  /\ l \in {"send_rising", "send_high"} => Settled(SDA, target.sda)
  /\ l = "answer" => SDA \notin target.oe /\ Settles(SDA, target.sda)
  /\ l \in {"answer_rising", "answer_high"} => SDA \notin target.oe /\ Settled(SDA, target.sda)

\* Where a program may turn to its queues and loops.
Stocked(l) ==
  /\ Streaming /\ pc > 0 /\ l \notin Loose => stream_enabled /\ byte_count > 0
  /\ l \in Again => byte_count = 1

\* Until it is sent, the first byte of a transaction waits for its turn.
Opening(l) == l \in {"idle", "idle_high", "begun"} /\ job.repeated = 1 => FirstByte

\* What the target has made of the bytes.
Turns(l) ==
  /\ l \in {"begun", "fresh", "again_begun", "rejoined"} => Opens
  /\ l = "open" => Excused \/ (target.direction = "write" /\ ~target.low)
  /\ l = "next" => Talks /\ (Opens /\ job.repeated = 1 => FirstByte)
  /\ l = "pulled" => Talks /\ (target.direction = "write" \/ Even(8))
  /\ l \in Again => ~target.low
Shifts(l) ==
  /\ l = "out" => Talks /\ (Granted \/ Even(loop_count))
  /\ l \in {"set", "send", "send_rising", "send_high"} =>
       Talks /\ Says /\ (Granted \/ Rest(loop_count))
  /\ l = "send_high" \/ (l = "send_rising" /\ target.scl) =>
       (loop_count = 1 => Granted \/ target.bits % 2 = 0)
  /\ l = "sent" => IF loop_count = 1 THEN target.low /\ Granted
                   ELSE Talks /\ (Granted \/ Even(loop_count - 1))
Acks(l) ==
  /\ l \in {"let", "answer", "answer_rising", "answer_high"} => target.low /\ Granted
  /\ l \notin FailedLabels
Heard(l) == Turns(l) /\ Shifts(l) /\ Acks(l)

Knows(l) == Seen(l) /\ Opening(l) /\ (Fair => Heard(l))

Excusable == target.late \/ ~Fair
FaultInv ==
  /\ target.bits \in Nat /\ byte_index = 0 /\ ~loader_error
  /\ ~stream_enabled => unsent = job.bytes
  /\ running => Knows(Here) /\ Stocked(Here)
  /\ ~running /\ fault => run_prev /\ Excusable

(***************************************************************************)
(* The target on a clock that neither frames a transaction nor falls.      *)
(***************************************************************************)
Calm == /\ target'.low = target.low /\ target'.rival = target.rival
        /\ target'.started = target.started /\ told'.nacked = told.nacked
        /\ target.direction # "read" => target'.direction = target.direction
        /\ target.scl => target'.bits = target.bits
        /\ ~Begins
Unmoved == SCL \in target.oe \/ (SCL \notin target'.oe /\ SDAStays)

LEMMA CalmClock == ASSUME LineClock, Unmoved PROVE Calm
<1>1. target.scl => target'.scl
  BY NoStretch DEF LineClock, Wired, Unmoved
<1>2. ~Begins /\ (Rises \/ Rests)
  BY <1>1 DEF LineClock, Begins, Ends, Falls, SDAStays, Wired, Unmoved
<1> QED
  BY <1>2 DEF Rises, Rests, Goes, Calm

\* Only a START may bring another rival.
LEMMA FairBefore ==
  ASSUME LineClock, ~Begins, Fair'
  PROVE  Fair
BY DEF LineClock, Ends, Rises, Falls, Rests, Goes, Fair

\* A bit whose line is driven low reads zero.
LEMMA ZeroRead ==
  ASSUME LineClock, target.started, ~target.scl, target'.scl, target.phase < 8,
         target.direction # "read", SDA \in target'.oe, target.bits \in Nat
  PROVE  target'.bits % 2 = 0
<1>1. ~target'.sda
  BY DEF LineClock, Wired
<1>2. target'.bits = (2 * target.bits + Bit(target'.sda)) % 256
  BY DEF LineClock, Begins, Ends, Rises, Falls, Rests
<1>3. target'.bits = (2 * target.bits) % 256
  BY <1>1, <1>2 DEF Bit
<1> QED
  BY <1>3

\* What the synchronizer has settled on.
LEMMA SettlesOn ==
  ASSUME LineClock, NEW v, v = target.sda, target'.sda = v, delay_left = 0
  PROVE  Settles(SDA, target.sda) \/ Settled(SDA, target.sda) => Settled(SDA, target.sda)'
<1>1. (SDA \in input_meta'.lanes <=> target.sda) /\ input_sync' = input_meta
  BY DEF LineClock, BusLanes, SCL, SDA
<1>2. target.sda \in BOOLEAN
  BY DEF LineClock, Wired
<1> QED
  BY <1>1, <1>2 DEF Settles, Settled

LEMMA StillSettled ==
  ASSUME LineClock, target'.sda = target.sda, Settled(SDA, target.sda)
  PROVE  Settled(SDA, target.sda)'
<1>1. (SDA \in input_meta'.lanes <=> target.sda) /\ input_sync' = input_meta
  BY DEF LineClock, BusLanes, SCL, SDA
<1>2. target.sda \in BOOLEAN
  BY DEF LineClock, Wired
<1> QED
  BY <1>1, <1>2 DEF Settled

LEMMA StillSettles ==
  ASSUME LineClock, target'.sda = target.sda, delay_left \in Nat \ {0},
         delay_left' = delay_left - 1, Settles(SDA, target.sda)
  PROVE  Settles(SDA, target.sda)'
<1>1. (SDA \in input_meta'.lanes <=> target.sda) /\ input_sync' = input_meta
  BY DEF LineClock, BusLanes, SCL, SDA
<1>2. target.sda \in BOOLEAN
  BY DEF LineClock, Wired
<1> QED
  BY <1>1, <1>2 DEF Settles

\* The bits the target has taken are a number.
LEMMA BitsAreNumbers ==
  ASSUME Wired, target.bits \in Nat, NEW oe, Observes(oe)
  PROVE  target'.bits \in Nat
<1>1. PICK n : /\ n.bits \in Nat /\ TargetFields \subseteq DOMAIN n
               /\ SeesStart(n) \/ SeesStop(n) \/ SeesRise(n) \/ SeesFall(n) \/ target' = n
  <2>1. PICK left :
          LET scl == SCL \notin oe /\ left = 0
              sda == SDA \notin oe /\ ~target.low /\ ~(target.rival /\ target.started)
              now == [target EXCEPT !.oe = oe, !.scl = scl, !.sda = sda,
                                    !.left = IF left = 0 THEN 0 ELSE left - 1,
                                    !.late = @ \/ left > Tolerated]
          IN  SeesStart(now) \/ SeesStop(now) \/ SeesRise(now) \/ SeesFall(now) \/ target' = now
    BY DEF Observes
  <2>2. PICK n :
          LET scl == SCL \notin oe /\ left = 0
              sda == SDA \notin oe /\ ~target.low /\ ~(target.rival /\ target.started)
              now == [target EXCEPT !.oe = oe, !.scl = scl, !.sda = sda,
                                    !.left = IF left = 0 THEN 0 ELSE left - 1,
                                    !.late = @ \/ left > Tolerated]
          IN  n = now
    OBVIOUS
  <2>3. n.bits = target.bits /\ TargetFields \subseteq DOMAIN n
    BY <2>2 DEF Wired, TargetFields
  <2>4. SeesStart(n) \/ SeesStop(n) \/ SeesRise(n) \/ SeesFall(n) \/ target' = n
    BY <2>1, <2>2, Zenon
  <2> QED
    BY <2>3, <2>4
<1>2. CASE SeesStart(n) \/ SeesStop(n) \/ target' = n
  <2>1. CASE SeesStart(n)
    <3>1. PICK rival : target' = [n EXCEPT !.started = TRUE, !.rival = rival, !.low = FALSE,
                                          !.phase = 0, !.bits = 0, !.direction = "address"]
      BY <2>1 DEF SeesStart
    <3> QED
      BY <1>1, <3>1 DEF TargetFields
  <2>2. CASE SeesStop(n)
    <3>1. target' = [n EXCEPT !.started = FALSE, !.low = FALSE]
      BY <2>2 DEF SeesStop
    <3> QED
      BY <1>1, <3>1 DEF TargetFields
  <2> QED
    BY <1>1, <1>2, <2>1, <2>2
<1>3. CASE SeesRise(n)
  <2>1. (2 * n.bits + Bit(n.sda)) % 256 \in Nat
    BY <1>1 DEF Bit
  <2> QED
    BY <1>1, <1>3, <2>1 DEF SeesRise, TargetFields
<1>4. CASE SeesFall(n)
  <2>1. CASE Answers(n)
    <3>1. PICK ack \in BOOLEAN : target' = Drives(
             [n EXCEPT !.bits = 0,
                       !.direction = IF @ = "write" THEN @ ELSE IF ~ack THEN "none"
                                     ELSE IF target.bits % 2 = 1 THEN "addressed" ELSE "write"],
             ack)
      BY <2>1 DEF Answers
    <3> QED
      BY <1>1, <3>1 DEF Drives, TargetFields
  <2>2. CASE ~Answers(n)
    BY <1>1, <1>4, <2>2 DEF SeesFall, Drives, Serves, TargetFields
  <2> QED
    BY <2>1, <2>2
<1> QED
  BY <1>1, <1>2, <1>3, <1>4

(***************************************************************************)
(* The label a word leads to.                                              *)
(***************************************************************************)
Lands(w, l, n, t, m) ==
  /\ w.op \in {"DRIVE", "PATCH", "OUT", "IN", "LOAD", "STREAM", "CHECK_TX", "SAMPLE"} => m = n
  /\ w.op = "WAIT" => m = IF Sees(w) THEN n ELSE l
  /\ w.op = "BRANCH" => m = IF Sees(w) THEN t ELSE n
  /\ w.op = "DJNZ" => m = IF loop_count = 1 THEN n ELSE t
  /\ w.op = "BYTE_LOOP" => m = IF byte_count = 1 THEN n ELSE t
  /\ w.op = "LAST_BYTE" => m = IF byte_count = 1 THEN t ELSE n
  /\ w.op = "PULL" => m = IF Empty(tx) THEN l ELSE n
  /\ w.op = "PUSH" => m = IF Full(rx) THEN l ELSE n
  /\ w.op = "JUMP" => m = t

LEMMA WordLands ==
  ASSUME Labels' = Labels, NEW w, ActsOnPlace(w), NEW l, NEW n, NEW t, NEW m, l = Here,
         n = Label(Labels, pc + 1 + 1), t = Label(Labels, w.target + 1), m = Here'
  PROVE  Lands(w, l, n, t, m)
<1>1. Here' = Label(Labels, pc' + 1) /\ l = Label(Labels, pc + 1)
  BY DEF Here, Label
<1>2. /\ pc' = pc => m = l
      /\ pc' = pc + 1 => m = n
      /\ pc' = w.target => m = t
  BY <1>1
<1> QED
  BY <1>2 DEF ActsOnPlace, Lands

LEMMA KnowsHere ==
  ASSUME NEW m, m = Here', Knows(m)', Stocked(m)'
  PROVE  Knows(Here)' /\ Stocked(Here)'
<1>1. (Seen(m) => Seen(Here))' /\ (Stocked(m) => Stocked(Here))' /\ (Opening(m) => Opening(Here))'
  BY DEF Seen, Stocked, Opening, Settles, Settled
<1>2. (Turns(m) => Turns(Here))'
  BY DEF Turns
<1>3. (Shifts(m) => Shifts(Here))'
  BY DEF Shifts
<1>4. (Acks(m) => Acks(Here))'
  BY DEF Acks
<1> QED
  BY <1>1, <1>2, <1>3, <1>4 DEF Knows, Heard

(***************************************************************************)
(* What the target has heard stays so while the byte and the counts do.    *)
(***************************************************************************)
Silent == {"idle", "idle_high", "clear", "bit", "bit_rising", "bit_high", "bit_over", "ninth",
           "ninth_rising", "ninth_high", "between", "closing", "stop_rising", "stop_high",
           "done"}
Bits == {"set", "send", "send_rising", "send_high"}
Keeps(l, m) ==
  m = l \/ <<l, m>> \in
    {<<"set", "send">>, <<"send", "send_rising">>, <<"send_rising", "send_high">>,
     <<"let", "answer">>, <<"answer", "answer_rising">>, <<"answer_rising", "answer_high">>,
     <<"pulled", "out">>, <<"pulled", "parting">>, <<"parting", "again">>,
     <<"again", "again_rising">>, <<"again_rising", "again_waits">>,
     <<"again_waits", "again_high">>, <<"rejoined", "out">>}
ByteStays == /\ tx_shift' = tx_shift /\ last_tx_bit' = last_tx_bit
             /\ loop_count' = loop_count /\ byte_count' = byte_count

LEMMA SilentHears == ASSUME NEW m, m \in Silent PROVE Heard(m) /\ Heard(m)'
<1>1. /\ m \notin {"begun", "fresh", "again_begun", "rejoined", "open", "next", "pulled"} \cup Again
      /\ m \notin {"out", "set", "send", "send_rising", "send_high", "sent"}
      /\ m \notin {"let", "answer", "answer_rising", "answer_high"} \cup FailedLabels
  BY DEF Silent, Again, FailedLabels
<1>2. Turns(m) /\ Turns(m)'
  BY <1>1 DEF Turns
<1>3. Shifts(m) /\ Shifts(m)'
  BY <1>1 DEF Shifts
<1> QED
  BY <1>1, <1>2, <1>3 DEF Heard, Acks

\* The last bit of a byte for writing reads zero.
LEMMA LastBitReads ==
  ASSUME LineClock, Calm, ByteStays, SDAStays, Talks, Says, Granted \/ Rest(loop_count),
         target.bits \in Nat, target.started, ~target.scl, target'.scl,
         target.phase = 8 - loop_count, loop_count \in 1 .. 8, loop_count = 1
  PROVE  Granted \/ target'.bits % 2 = 0
<1>1. CASE Granted
  BY <1>1
<1>2. CASE Rest(loop_count)
  <2>1. SDA \in target'.oe
    BY <1>2 DEF Rest, Says, SDAStays
  <2>2. target.phase < 8 /\ target.direction # "read"
    BY DEF Talks
  <2> QED
    BY <2>1, <2>2, ZeroRead
<1> QED
  BY <1>1, <1>2

LEMMA TurnsKept ==
  ASSUME LineClock, Calm, ByteStays, NEW l, NEW m, Keeps(l, m), Turns(l),
         FirstByte => FirstByte'
  PROVE  Turns(m)'
<1>1. /\ job' = job /\ byte_count' = byte_count /\ tx_shift' = tx_shift
      /\ target'.low = target.low
      /\ target.direction # "read" => target'.direction = target.direction
  BY DEF LineClock, Calm, ByteStays
<1>2. /\ Opens => Opens' /\ (FirstByte => FirstByte')
      /\ Talks => Talks' /\ (target'.direction = target.direction)
      /\ Even(8) => Even(8)'
      /\ (target.direction = "write" /\ ~target.low) => (target.direction = "write" /\ ~target.low)'
      /\ Excused => Excused'
  BY <1>1 DEF Opens, Talks, Even, Excused
<1>3. CASE m = l
  <2>1. l \in {"begun", "fresh", "again_begun", "rejoined"} => Opens'
    BY <1>2 DEF Turns
  <2>2. l = "open" => (Excused \/ (target.direction = "write" /\ ~target.low))'
    BY <1>2 DEF Turns
  <2>3. l = "next" => (Talks /\ (Opens /\ job.repeated = 1 => FirstByte))'
    <3>1. l = "next" => Talks /\ (Opens /\ job.repeated = 1 => FirstByte)
      BY DEF Turns
    <3>2. Talks /\ Opens' => Opens
      BY <1>1 DEF Talks, Opens
    <3> QED
      BY <1>1, <1>2, <3>1, <3>2
  <2>4. l = "pulled" => (Talks /\ (target.direction = "write" \/ Even(8)))'
    BY <1>2 DEF Turns
  <2>5. l \in Again => ~target'.low
    BY <1>1 DEF Turns
  <2> QED
    BY <1>3, <2>1, <2>2, <2>3, <2>4, <2>5 DEF Turns
<1>4. CASE m # l
  <2>1. \/ m = "parting" /\ l = "pulled"
        \/ m \in {"again", "again_rising", "again_waits", "again_high"} /\ l \in Again
        \/ m \in {"send", "send_rising", "send_high", "answer", "answer_rising", "answer_high", "out"}
    BY <1>4 DEF Keeps, Again
  <2>2. m \in Again => ~target.low
    <3>1. m = "parting" => ~target.low
      BY <2>1 DEF Turns, Talks, Again
    <3>2. m \in Again \ {"parting"} => l \in Again
      BY <2>1 DEF Again
    <3> QED
      BY <3>1, <3>2 DEF Turns
  <2> QED
    BY <1>1, <2>1, <2>2 DEF Turns, Again
<1> QED
  BY <1>3, <1>4

LEMMA ShiftsKept ==
  ASSUME LineClock, Calm, ByteStays, NEW l, NEW m, Keeps(l, m), At(l), At(m)', Turns(l), Shifts(l),
         target.bits \in Nat, l \in Bits => SDAStays,
         l \in Again => byte_count = 1 /\ job.repeated = 1 /\ job.reads > 0
  PROVE  Shifts(m)'
<1>1. /\ job' = job /\ byte_count' = byte_count /\ tx_shift' = tx_shift
      /\ last_tx_bit' = last_tx_bit /\ loop_count' = loop_count
      /\ target'.low = target.low
      /\ target.direction # "read" => target'.direction = target.direction
  BY DEF LineClock, Calm, ByteStays
<1>2. PICK c : c = loop_count
  OBVIOUS
<1>3. /\ Talks => Talks' /\ target'.direction = target.direction
      /\ Talks /\ Granted => Granted'
      /\ Even(c) => Even(c)'
      /\ Rest(c) => Rest(c)'
      /\ Even(c - 1) => Even(c - 1)'
      /\ Excused => Excused'
  BY <1>1 DEF Talks, Granted, Excused, Even, Rest
<1>4. m = "out" => (Talks /\ (Granted \/ Even(loop_count)))'
  <2>1. CASE m = "out" /\ l = "out"
    BY <1>1, <1>2, <1>3, <2>1 DEF Shifts
  <2>2. CASE m = "out" /\ l = "pulled"
    <3>1. c = 8
      BY <1>2, <2>2 DEF At, Counted, WholeBytes
    <3> QED
      BY <1>1, <1>2, <1>3, <2>2, <3>1 DEF Turns, Granted
  <2>3. CASE m = "out" /\ l = "rejoined"
    <3>1. Opens /\ Excused
      BY <2>3 DEF Turns, Excused, Again
    <3>2. Talks
      BY <3>1 DEF Talks, Opens
    <3> QED
      BY <1>3, <3>1, <3>2 DEF Granted
  <2> QED
    BY <2>1, <2>2, <2>3 DEF Keeps
<1>5. m \in Bits => l \in Bits /\ Talks /\ Says /\ (Granted \/ Rest(c))
  <2>1. m \in Bits => l \in Bits
    BY DEF Keeps, Bits
  <2> QED
    BY <1>2, <2>1 DEF Shifts, Bits
<1>6. m \in Bits => (Talks /\ Says /\ (Granted \/ Rest(loop_count)))'
  <2>1. m \in Bits /\ Says => Says'
    BY <1>1, <1>5 DEF Says, SDAStays
  <2>2. Rest(c)' => Rest(loop_count)'
    BY <1>1, <1>2 DEF Rest, Even
  <2>3. (Granted \/ Rest(c)) /\ Talks => (Granted \/ Rest(loop_count))'
    BY ONLY <1>3, <2>2, Zenon
  <2> QED
    BY <1>3, <1>5, <2>1, <2>3, Zenon
<1>7. m = "send_high" \/ (m = "send_rising" /\ target'.scl) =>
        (loop_count = 1 => Granted' \/ target'.bits % 2 = 0)
  <2> SUFFICES ASSUME m = "send_high" \/ (m = "send_rising" /\ target'.scl), loop_count = 1
               PROVE  Granted' \/ target'.bits % 2 = 0
    OBVIOUS
  <2>1. l \in {"send", "send_rising", "send_high"} /\ m \in Bits
    BY DEF Keeps, Bits
  <2>2. target'.scl
    <3>1. m = "send_high" => target'.scl
      BY DEF At, Kind, HeldLabels, RisingLabels, HighLabels, High
    <3> QED
      BY <3>1
  <2>3. target.scl => l # "send"
    BY DEF At, Kind, HeldLabels, Held, LineClock, Wired
  <2>4. CASE target.scl
    <3>1. Granted \/ target.bits % 2 = 0
      BY <2>1, <2>3, <2>4 DEF Shifts
    <3>2. target'.bits = target.bits
      BY <2>4 DEF Calm
    <3> QED
      BY <1>3, <1>5, <2>1, <3>1, <3>2
  <2>5. CASE ~target.scl
    <3>1. l \in {"send", "send_rising"}
      <4>1. l = "send_high" => target.scl
        BY DEF At, Kind, HeldLabels, RisingLabels, HighLabels, High
      <4> QED
        BY <2>1, <2>5, <4>1
    <3>2. c \in 1 .. 8
      BY <1>2, <3>1 DEF At, Counted, OutBits
    <3>3. target.started /\ target.phase = 8 - c
      <4>1. Place(l, c) = 8 - c
        BY <3>1 DEF Place
      <4>2. (Kind(l) = "held" /\ Held(8 - c)) \/ (Kind(l) = "rising" /\ Freed(8 - c))
        BY <1>2, <3>1, <4>1 DEF At, Kind, HeldLabels, RisingLabels
      <4> QED
        BY <2>5, <4>2 DEF Held, Freed
    <3>4. Granted \/ target'.bits % 2 = 0
      BY <1>2, <1>5, <2>1, <2>2, <2>5, <3>1, <3>2, <3>3, LastBitReads DEF Bits
    <3> QED
      BY <1>3, <1>5, <2>1, <3>4
  <2> QED
    BY <2>4, <2>5
<1>8. m = "sent" => IF c = 1 THEN (target.low /\ Granted)' ELSE (Talks /\ (Granted \/ Even(c - 1)))'
  <2> SUFFICES ASSUME m = "sent"
               PROVE  IF c = 1 THEN (target.low /\ Granted)' ELSE (Talks /\ (Granted \/ Even(c - 1)))'
    OBVIOUS
  <2>1. l = "sent"
    BY DEF Keeps
  <2>2. CASE c = 1
    <3>1. target.low /\ Granted
      BY <1>2, <2>1, <2>2 DEF Shifts
    <3>2. Granted'
      BY <1>1, <1>3, <3>1 DEF Granted
    <3> QED
      BY <1>1, <2>2, <3>1, <3>2
  <2>3. CASE c # 1
    <3>1. Talks /\ (Granted \/ Even(loop_count - 1))
      BY <1>2, <2>1, <2>3 DEF Shifts
    <3>2. Talks /\ (Granted \/ Even(c - 1))
      BY <1>2, <3>1
    <3>3. (Talks /\ (Granted \/ Even(c - 1)))'
      BY ONLY <1>3, <3>2, Zenon
    <3> QED
      BY ONLY <2>3, <3>3, Zenon
  <2> QED
    BY <2>2, <2>3
<1> QED
  BY <1>1, <1>2, <1>4, <1>6, <1>7, <1>8 DEF Shifts, Bits

LEMMA HeardKept ==
  ASSUME LineClock, Unmoved, ByteStays, NEW l, NEW m, Keeps(l, m), At(l), At(m)', Heard(l),
         FirstByte => FirstByte', target.bits \in Nat, l \in Bits => SDAStays,
         l \in Again => byte_count = 1 /\ job.repeated = 1 /\ job.reads > 0
  PROVE  Heard(m)'
<1>1. Calm
  BY CalmClock
<1>2. Turns(m)'
  BY <1>1, TurnsKept DEF Heard
<1>3. Shifts(m)'
  BY <1>1, ShiftsKept DEF Heard
<1>4. Acks(m)'
  <2>1. m \notin FailedLabels
    BY DEF Keeps, Heard, Acks, FailedLabels
  <2>2. m \in {"let", "answer", "answer_rising", "answer_high"} =>
          l \in {"let", "answer", "answer_rising", "answer_high"}
    BY DEF Keeps
  <2>3. m \in {"let", "answer", "answer_rising", "answer_high"} => target.low /\ Granted
    BY <2>2 DEF Heard, Acks
  <2>4. Granted => Granted'
    BY <1>1 DEF Granted, Excused, Calm, LineClock, ByteStays
  <2> QED
    BY <1>1, <2>1, <2>3, <2>4 DEF Acks, Calm
<1> QED
  BY <1>2, <1>3, <1>4 DEF Heard

\* A word that leaves the byte and the clock as they are.
LEMMA QuietHears ==
  ASSUME NEW w, NEW h, Acted(w, h), ByteStays, NEW l, NEW m, Keeps(l, m), At(l), At(m)', Heard(l),
         FirstByte => FirstByte', target.bits \in Nat,
         l \in Again => byte_count = 1 /\ job.repeated = 1 /\ job.reads > 0,
         target'.oe = target.oe \/ (Kind(l) = "held" /\ (l \in Bits => SDAStays))
  PROVE  Heard(m)'
<1>1. LineClock
  BY DEF Acted
<1>2. l \in Bits => SDAStays
  BY DEF SDAStays
<1>3. Unmoved
  <2>1. CASE Kind(l) = "held"
    BY <2>1 DEF At, Held, Unmoved
  <2>2. CASE target'.oe = target.oe
    BY <2>2 DEF Unmoved, SDAStays
  <2> QED
    BY <2>1, <2>2
<1> QED
  BY <1>1, <1>2, <1>3, HeardKept

\* START, and the START in the middle of a transaction.
LEMMA StartHears ==
  ASSUME NEW h, Acted(F!Low(1, h), h), NEW l, NEW n, At(l),
         <<l, n>> \in {<<"idle_high", "begun">>, <<"again_high", "again_begun">>}
  PROVE  Heard(n)'
<1>1. LineClock /\ SDA \in target'.oe /\ SCLStays
  BY DEF Acted, Moves
<1>2. target.scl /\ target.sda /\ SCL \notin target.oe
  <2>1. CASE l = "idle_high"
    BY <2>1 DEF At, Kind, HeldLabels, RisingLabels, HighLabels, IdleLabels, Idle
  <2>2. CASE l = "again_high"
    BY <2>2 DEF At, Kind, HeldLabels, RisingLabels, HighLabels, High, Parts
  <2> QED
    BY <2>1, <2>2
<1>3. target'.scl
  BY <1>1, <1>2, NoStretch DEF LineClock, Wired, SCLStays
<1>4. Begins
  BY <1>1, <1>2, <1>3 DEF LineClock, Begins, Ends, Rises, Falls, Rests, Wired
<1>5. Opens'
  BY <1>4 DEF Begins, Opens
<1>6. n \in {"begun", "again_begun"} /\ ~target'.low
  BY <1>5 DEF Opens
<1>7. Turns(n)'
  BY <1>5, <1>6 DEF Turns
<1>8. Shifts(n)' /\ Acks(n)'
  BY <1>6 DEF Shifts, Acks, FailedLabels
<1> QED
  BY <1>7, <1>8 DEF Heard

\* A falling clock.
LEMMA FallHears ==
  ASSUME NEW h, Acted(F!Low(0, h), h), NEW l, NEW n, Drops(l, n), At(l), Heard(l), Fair, Fair',
         FirstByte => FirstByte', Opening(l)
  PROVE  Heard(n)'
<1>1. LineClock /\ SCL \in target'.oe /\ job' = job
  BY DEF Acted, Moves, LineClock
<1>2. ByteStays
  BY DEF Acted, Acts, ActsOnShift, ActsOnCounts, F!Low, F!patch, ByteStays
<1>3. PICK c, f : c = loop_count /\ f = Place(l, c)
  OBVIOUS
<1>4. target.started /\ target.scl /\ target.phase = f
  <2>1. Kind(l) = "high"
    BY DropsTable DEF At
  <2> QED
    BY <1>3, <2>1 DEF At, High
<1>5. ~target'.scl
  BY <1>1 DEF LineClock, Wired
<1>6. Falls
  BY <1>1, <1>4, <1>5 DEF LineClock, Begins, Ends, Rises, Falls, Rests
<1>7. Excused => Excused'
  BY <1>1, <1>2 DEF Excused, ByteStays
<1>8. CASE <<l, n>> \in {<<"begun", "fresh">>, <<"begun", "next">>, <<"again_begun", "rejoined">>}
  <2>1. f = 0
    BY <1>3, <1>8 DEF Place
  <2>2. Opens
    BY <1>8 DEF Heard, Turns
  <2>3. Opens'
    BY <1>4, <1>6, <2>1, <2>2 DEF Falls, Opens
  <2>4. Talks' /\ ~target'.low
    BY <2>3 DEF Talks, Opens
  <2>5. n = "next" /\ job'.repeated = 1 => FirstByte'
    BY <1>1, <1>8 DEF Opening
  <2>6. Turns(n)'
    BY <1>8, <2>3, <2>4, <2>5 DEF Turns
  <2>7. Shifts(n)' /\ Acks(n)'
    BY <1>8 DEF Shifts, Acks, FailedLabels
  <2> QED
    BY <2>6, <2>7 DEF Heard
<1>9. CASE l = "send_high" /\ n = "sent"
  <2>1. c \in 1 .. 8 /\ f = 9 - c
    BY <1>3, <1>9 DEF At, Counted, OutBits, Place
  <2>2. Talks /\ (Granted \/ Rest(c)) /\ (c = 1 => Granted \/ target.bits % 2 = 0)
    BY <1>3, <1>9 DEF Heard, Shifts
  <2>3. CASE c = 1
    <3>1. f = 8
      BY <2>1, <2>3
    <3>2. PICK ack \in BOOLEAN :
            /\ target'.low = ack /\ (told'.nacked <=> told.nacked \/ ~ack)
            /\ target'.direction = IF target.direction = "write" THEN "write" ELSE IF ~ack THEN "none"
                                   ELSE IF target.bits % 2 = 1 THEN "addressed" ELSE "write"
      BY <1>4, <1>6, <2>2, <3>1 DEF Falls, Talks, Answered
    <3>3. ack
      BY <3>2 DEF Fair
    <3>4. Granted'
      <4>1. CASE Excused
        BY <1>7, <4>1 DEF Granted
      <4>2. CASE target.direction = "write" \/ target.bits % 2 = 0
        <5>1. target'.direction = "write"
          BY <3>2, <3>3, <4>2
        <5> QED
          BY <5>1 DEF Granted
      <4> QED
        BY <2>2, <2>3, <4>1, <4>2 DEF Granted
    <3>5. Shifts(n)'
      BY <1>2, <1>3, <1>9, <2>3, <3>2, <3>3, <3>4 DEF Shifts, ByteStays
    <3> QED
      BY <1>9, <3>5 DEF Heard, Turns, Acks, FailedLabels, Again
  <2>4. CASE c # 1
    <3>1. f < 8 /\ f # 8
      BY <2>1, <2>4
    <3>2. target'.direction = target.direction /\ ~target'.low
      BY <1>4, <1>6, <2>2, <3>1 DEF Falls, Talks
    <3>3. Talks' /\ (Granted => Granted')
      BY <1>7, <2>2, <3>2 DEF Talks, Granted
    <3>4. Rest(c) => Even(c - 1)'
      BY <1>2, <2>4 DEF Rest, Even, ByteStays
    <3>5. loop_count' = c /\ (Even(c - 1)' => Even(loop_count - 1)')
      BY <1>2, <1>3 DEF ByteStays, Even
    <3>6. (Talks /\ (Granted \/ Even(loop_count - 1)))'
      BY ONLY <2>2, <3>3, <3>4, <3>5, Zenon
    <3>7. Shifts(n)'
      BY <1>9, <2>4, <3>5, <3>6 DEF Shifts
    <3> QED
      BY <1>9, <3>7 DEF Heard, Turns, Acks, FailedLabels, Again
  <2> QED
    BY <2>3, <2>4
<1>10. CASE l = "answer_high" /\ n = "open"
  <2>1. f = 9
    BY <1>3, <1>10 DEF Place
  <2>2. Granted
    BY <1>10 DEF Heard, Acks
  <2>3. target.direction = "write" => target'.direction = "write" /\ ~target'.low
    BY <1>4, <1>6, <2>1 DEF Falls
  <2>4. Turns(n)'
    BY <1>7, <1>10, <2>2, <2>3 DEF Turns, Granted, Again
  <2> QED
    BY <1>10, <2>4 DEF Heard, Shifts, Acks, FailedLabels
<1>11. CASE n \in {"between", "closing", "bit_over"}
  BY <1>11, SilentHears DEF Silent
<1>12. l \notin FailedLabels
  BY DEF Heard, Acks
<1> QED
  BY <1>8, <1>9, <1>10, <1>11, <1>12 DEF Drops, FailedLabels

\* Shifting doubles a byte, and what is left of it is as even as before.
LEMMA ShiftedEven ==
  ASSUME NEW x \in Byte, NEW c \in 1 .. 8, NEW y, NEW z, y = ((2 * x) % 256) + 0,
         z = x \div 128, x % Weights[c] = 0
  PROVE  IF c = 1 THEN z = 0 ELSE y % Weights[c - 1] = 0
<1>0. x \in Int /\ 0 <= x /\ x < 256
  BY DEF Byte
<1>1. CASE c = 1
  <2>1. x % 256 = 0
    BY <1>1 DEF Weights
  <2>2. x = 0
    BY ONLY <1>0, <2>1
  <2> QED
    BY <1>1, <2>2
<1>2. /\ x % 128 = 0 => y % 256 = 0
      /\ x % 64 = 0 => y % 128 = 0
      /\ x % 32 = 0 => y % 64 = 0
      /\ x % 16 = 0 => y % 32 = 0
      /\ x % 8 = 0 => y % 16 = 0
      /\ x % 4 = 0 => y % 8 = 0
      /\ x % 2 = 0 => y % 4 = 0
  <2>1. PICK q \in {0, 1} : y = 2 * x - 256 * q
    BY ONLY <1>0, y = ((2 * x) % 256) + 0
  <2>2. x % 128 = 0 => y % 256 = 0 BY ONLY <1>0, <2>1
  <2>3. x % 64 = 0 => y % 128 = 0 BY ONLY <1>0, <2>1
  <2>4. x % 32 = 0 => y % 64 = 0 BY ONLY <1>0, <2>1
  <2>5. x % 16 = 0 => y % 32 = 0 BY ONLY <1>0, <2>1
  <2>6. x % 8 = 0 => y % 16 = 0 BY ONLY <1>0, <2>1
  <2>7. x % 4 = 0 => y % 8 = 0 BY ONLY <1>0, <2>1
  <2>8. x % 2 = 0 => y % 4 = 0 BY ONLY <1>0, <2>1
  <2> QED
    BY ONLY <2>2, <2>3, <2>4, <2>5, <2>6, <2>7, <2>8
<1>4. /\ Weights[2] = 128 /\ Weights[3] = 64 /\ Weights[4] = 32 /\ Weights[5] = 16
      /\ Weights[6] = 8 /\ Weights[7] = 4 /\ Weights[8] = 2 /\ Weights[1] = 256
  BY DEF Weights
<1>5. c = 1 \/ c = 2 \/ c = 3 \/ c = 4 \/ c = 5 \/ c = 6 \/ c = 7 \/ c = 8
  OBVIOUS
<1>6. CASE c # 1
  <2>1. \/ (c = 2 /\ c - 1 = 1) \/ (c = 3 /\ c - 1 = 2) \/ (c = 4 /\ c - 1 = 3)
        \/ (c = 5 /\ c - 1 = 4) \/ (c = 6 /\ c - 1 = 5) \/ (c = 7 /\ c - 1 = 6)
        \/ (c = 8 /\ c - 1 = 7)
    BY ONLY <1>5, <1>6
  <2>2. y % Weights[c - 1] = 0
    BY <1>2, <1>4, <2>1
  <2> QED
    BY <1>6, <2>2
<1> QED
  BY <1>1, <1>6

\* A bit is put on SDA.
LEMMA OutHears ==
  ASSUME NEW h, Acted(F!shift_out(1, FALSE, TRUE), h), At("out"), Heard("out"), tx_shift \in Byte
  PROVE  Heard("set")'
<1>1. LineClock /\ SCLStays /\ (SDA \in target'.oe <=> last_tx_bit' # 1)
  BY DEF Acted, Moves
<1>2. /\ last_tx_bit' = tx_shift \div 128 /\ tx_shift' = ((2 * tx_shift) % 256) + 0
      /\ loop_count' = loop_count /\ byte_count' = byte_count
  BY DEF Acted, Acts, ActsOnShift, ActsOnCounts, F!shift_out, Leaving, Shifted
<1>3. PICK c : c = loop_count
  OBVIOUS
<1>4. c \in 1 .. 8
  BY <1>3 DEF At, Counted, OutBits
<1>5. SCL \in target.oe
  BY DEF At, Kind, HeldLabels, Held
<1>6. Calm
  BY <1>1, <1>5, CalmClock DEF Unmoved
<1>7. Talks /\ (Granted \/ Even(c))
  BY <1>3 DEF Heard, Shifts
<1>8. Talks' /\ (Granted => Granted')
  BY <1>1, <1>2, <1>6, <1>7 DEF Talks, Granted, Excused, Calm, LineClock
<1>9. Even(c) => Rest(c)'
  <2> SUFFICES ASSUME Even(c) PROVE Rest(c)'
    OBVIOUS
  <2>1. tx_shift % Weights[c] = 0
    BY DEF Even
  <2>2. IF c = 1 THEN last_tx_bit' = 0 ELSE tx_shift' % Weights[c - 1] = 0
    BY ONLY <1>2, <1>4, <2>1, tx_shift \in Byte, ShiftedEven
  <2> QED
    BY <1>2, <2>2 DEF Rest, Even
<1>10. Rest(c)' => Rest(loop_count)'
  BY <1>2, <1>3 DEF Rest, Even
<1>11. Says'
  BY <1>1 DEF Says
<1>12. (Talks /\ Says /\ (Granted \/ Rest(loop_count)))'
  BY ONLY <1>7, <1>8, <1>9, <1>10, <1>11, Zenon
<1>13. Shifts("set")'
  BY <1>12 DEF Shifts
<1> QED
  BY <1>13 DEF Heard, Turns, Acks, FailedLabels, Again

\* A bit is over: the next one, or the answer of the target.
LEMMA CountHears ==
  ASSUME NEW w, NEW h, Acted(w, h), w.op = "DJNZ", At("sent"), Heard("sent"),
         NEW m, m = IF loop_count = 1 THEN "let" ELSE "out"
  PROVE  Heard(m)'
<1>1. LineClock /\ target'.oe = target.oe
  BY DEF Acted, Moves
<1>2. /\ last_tx_bit' = last_tx_bit /\ tx_shift' = tx_shift
      /\ loop_count' = loop_count - 1 /\ byte_count' = byte_count
  BY DEF Acted, Acts, ActsOnShift, ActsOnCounts
<1>3. Calm
  BY <1>1, CalmClock DEF Unmoved, SDAStays, At, Kind, HeldLabels, Held
<1>4. CASE loop_count = 1
  <2>1. target.low /\ Granted
    BY <1>4 DEF Heard, Shifts
  <2>2. target'.low /\ Granted'
    BY <1>1, <1>2, <1>3, <2>1 DEF Granted, Excused, Calm, LineClock
  <2>3. m = "let"
    BY <1>4
  <2> QED
    BY <2>2, <2>3 DEF Heard, Turns, Shifts, Acks, FailedLabels, Again
<1>5. CASE loop_count # 1
  <2>1. Talks /\ (Granted \/ Even(loop_count - 1))
    BY <1>5 DEF Heard, Shifts
  <2>2. Talks' /\ (Granted => Granted') /\ (Even(loop_count - 1) => Even(loop_count)')
    BY <1>1, <1>2, <1>3, <2>1 DEF Talks, Granted, Excused, Even, Calm, LineClock
  <2>3. (Talks /\ (Granted \/ Even(loop_count)))'
    BY ONLY <2>1, <2>2, Zenon
  <2>4. m = "out"
    BY <1>5
  <2> QED
    BY <2>3, <2>4 DEF Heard, Turns, Shifts, Acks, FailedLabels, Again
<1> QED
  BY <1>4, <1>5

\* A byte is loaded, or pulled from the queue.
LEMMA LoadHears ==
  ASSUME NEW w, NEW h, Acted(w, h), w.op = "LOAD", w.count = 8, NEW l, l \in {"fresh", "open"},
         At(l), Heard(l), Suits(w, l)
  PROVE  Heard("out")'
<1>1. LineClock /\ job' = job
  BY DEF Acted, LineClock
<1>2. tx_shift' = w.byte /\ loop_count' = 8 /\ byte_count' = byte_count
  BY DEF Acted, Acts, ActsOnShift, ActsOnCounts
<1>3. Calm
  BY <1>1, CalmClock DEF Unmoved, At, Kind, HeldLabels, Held
<1>4. CASE l = "fresh"
  <2>1. Opens /\ (w.byte % 2 = 0 \/ Excused)
    BY <1>4 DEF Heard, Turns, Suits, Excused
  <2>2. Talks' /\ (Excused => Granted')
    BY <1>1, <1>2, <1>3, <2>1 DEF Opens, Talks, Calm, Excused, Granted
  <2>3. w.byte % 2 = 0 => Even(loop_count)'
    BY <1>2 DEF Even, Weights
  <2>4. (Talks /\ (Granted \/ Even(loop_count)))'
    BY ONLY <2>1, <2>2, <2>3, Zenon
  <2> QED
    BY <2>4 DEF Heard, Turns, Shifts, Acks, FailedLabels, Again
<1>5. CASE l = "open"
  <2>1. target.direction = "write" /\ ~target.low
    BY <1>5 DEF Heard, Turns, Suits, Excused
  <2>2. (Talks /\ Granted)'
    BY <1>3, <2>1 DEF Calm, Talks, Granted
  <2> QED
    BY <2>2 DEF Heard, Turns, Shifts, Acks, FailedLabels, Again
<1> QED
  BY <1>4, <1>5

LEMMA PullHears ==
  ASSUME NEW h, Acted(F!PULL, h), NEW l, NEW n, At(l), Heard(l), Suits(F!PULL, l), ~Empty(tx),
         <<l, n>> \in {<<"next", "pulled">>, <<"open", "out">>}
  PROVE  Heard(n)'
<1>0. F!PULL.op = "PULL"
  BY DEF F!PULL, F!Word
<1>1. LineClock /\ job' = job
  BY DEF Acted, LineClock
<1>2. tx_shift' = Front(tx) /\ loop_count' = 8 /\ byte_count' = byte_count
  BY <1>0 DEF Acted, Acts, ActsOnShift, ActsOnCounts
<1>3. Calm
  BY <1>1, CalmClock DEF Unmoved, At, Kind, HeldLabels, Held
<1>4. CASE l = "next"
  <2>1. Talks /\ job.repeated = 1 /\ Head(job.bytes) % 2 = 0 /\ (Opens => FirstByte)
    BY <1>4 DEF Heard, Turns, Suits
  <2>2. CASE target.direction = "write"
    <3>1. Talks' /\ target'.direction = "write"
      BY <1>3, <2>1, <2>2 DEF Talks, Calm
    <3> QED
      BY <1>4, <3>1 DEF Heard, Turns, Shifts, Acks, FailedLabels, Again
  <2>3. CASE target.direction # "write"
    <3>1. Opens
      BY <2>1, <2>3 DEF Talks, Opens
    <3>2. Front(tx) % 2 = 0
      BY <2>1, <3>1 DEF FirstByte
    <3>3. Talks' /\ Even(8)'
      BY <1>2, <1>3, <2>1, <3>2 DEF Talks, Calm, Even, Weights
    <3> QED
      BY <1>4, <3>3 DEF Heard, Turns, Shifts, Acks, FailedLabels, Again
  <2> QED
    BY <2>2, <2>3
<1>5. CASE l = "open"
  <2>1. target.direction = "write" /\ ~target.low
    BY <1>0, <1>5 DEF Heard, Turns, Suits, Excused
  <2>2. (Talks /\ Granted)'
    BY <1>3, <2>1 DEF Calm, Talks, Granted
  <2> QED
    BY <1>5, <2>2 DEF Heard, Turns, Shifts, Acks, FailedLabels, Again
<1> QED
  BY <1>4, <1>5

\* Another byte follows.
LEMMA LoopHears ==
  ASSUME NEW w, NEW h, Acted(w, h), w.op = "BYTE_LOOP", At("open"), Heard("open"),
         Suits(w, "open"), byte_count # 1, NEW t, t \in {"open", "next"}
  PROVE  Heard(t)'
<1>1. LineClock
  BY DEF Acted
<1>2. Calm
  BY <1>1, CalmClock DEF Unmoved, At, Kind, HeldLabels, Held
<1>3. target.direction = "write" /\ ~target.low
  BY DEF Heard, Turns, Suits, Excused
<1>4. target'.direction = "write" /\ ~target'.low
  BY <1>2, <1>3 DEF Calm
<1>5. Talks' /\ ~Opens'
  BY <1>4 DEF Talks, Opens
<1>6. Turns(t)'
  BY <1>4, <1>5 DEF Turns, Again
<1> QED
  BY <1>6 DEF Heard, Shifts, Acks, FailedLabels

\* An acknowledge is seen.
LEMMA AnswerSeen ==
  ASSUME NEW w, w.op = "BRANCH", w.lane = 1, w.level = TRUE, Wired, Seen("answer_high"),
         Heard("answer_high")
  PROVE  ~Sees(w)
<1>1. ~target.sda
  BY DEF Heard, Acks, Wired
<1>2. SDA \notin input_sync.lanes
  BY <1>1 DEF Seen, Settled
<1> QED
  BY <1>2 DEF Sees, SDA


\* Words that neither begin nor end a byte, nor move the clock down.
LEMMA QuietWords ==
  ASSUME NEW w, NEW h, NEW limit, Acted(w, h), NEW l, NEW n, NEW t, NEW m,
         Fits(w, l, n, t, h, limit), Lands(w, l, n, t, m), Heard(l), Wired, Seen(l),
         w.op \notin {"LOAD", "OUT", "DJNZ", "BYTE_LOOP", "HALT", "TRAP", "STREAM"},
         ~(w.op = "PULL" /\ ~Empty(tx)), ~(w = F!Low(0, h)),
         ~(w = F!Low(1, h) /\ l \in {"idle_high", "again_high"})
  PROVE  \/ m \in Silent
         \/ /\ Keeps(l, m)
            /\ target'.oe = target.oe \/ (Kind(l) = "held" /\ (l \in Bits => SDAStays))
<1>0. l \notin FailedLabels /\ Moves(w, h)
  BY DEF Heard, Acks, Acted
<1>a. ASSUME m = l PROVE Keeps(l, m)
  BY <1>a DEF Keeps
<1>1. CASE w = F!drive({}, {}, h) /\ l = "idle" /\ n = "idle_high"
  <2>1. m = n
    BY <1>1 DEF Lands, F!drive
  <2> QED
    BY <1>1, <2>1 DEF Silent
<1>2. CASE (WaitsFor(w, 0, limit) \/ WaitsFor(w, 1, limit)) /\ l = "idle_high" /\ n = l
  <2>1. m = l
    BY <1>2 DEF Lands, WaitsFor
  <2> QED
    BY <1>2, <2>1 DEF Silent
<1>3. CASE w = F!Low(1, h) /\ Sets(l, n)
  <2>1. m = n
    BY <1>3 DEF Lands, F!Low, F!patch
  <2> QED
    BY <1>0, <1>3, <2>1 DEF Sets, Silent, FailedLabels
<1>4. CASE w = F!Free(1, h) /\ (Frees(l, n) \/ Closes(l, n))
  <2>1. m = n
    BY <1>4 DEF Lands, F!Free, F!patch
  <2>2. CASE Closes(l, n)
    BY <1>0, <2>1, <2>2 DEF Closes, Silent, FailedLabels
  <2>3. CASE Frees(l, n)
    <3>1. Kind(l) = "held" /\ l \notin Bits
      BY <2>3 DEF Frees, Kind, HeldLabels, Bits
    <3>2. m \in Silent \/ Keeps(l, m)
      BY <2>1, <2>3 DEF Frees, Silent, Keeps
    <3> QED
      BY <3>1, <3>2
  <2> QED
    BY <1>4, <2>2, <2>3
<1>5. CASE w = F!Free(0, 4) /\ Releases(l, n)
  <2>1. m = n /\ SDAStays
    BY <1>0, <1>5 DEF Lands, Moves, F!Free, F!patch
  <2>2. Kind(l) = "held"
    BY <1>5 DEF Releases, Kind, HeldLabels
  <2>3. m \in Silent \/ Keeps(l, m)
    BY <1>0, <1>5, <2>1 DEF Releases, Silent, Keeps, FailedLabels
  <2> QED
    BY <2>1, <2>2, <2>3
<1>6. CASE WaitsFor(w, 0, limit) /\ Climbs(l, n)
  <2>1. (m = l \/ m = n) /\ target'.oe = target.oe
    BY <1>0, <1>6 DEF Lands, WaitsFor, Moves
  <2>2. m \in Silent \/ Keeps(l, n) \/ m = l
    BY <1>0, <1>6, <2>1 DEF Climbs, Silent, Keeps, FailedLabels
  <2> QED
    BY <1>a, <2>1, <2>2 DEF Silent
<1>7. CASE WaitsFor(w, 1, limit) /\ l = "again_waits" /\ n = "again_high"
  <2>1. (m = l \/ m = n) /\ target'.oe = target.oe
    BY <1>0, <1>7 DEF Lands, WaitsFor, Moves
  <2> QED
    BY <1>7, <1>a, <2>1 DEF Keeps
<1>8. CASE w = F!hold(h) /\ Waits(l, n)
  <2>1. m = n /\ target'.oe = target.oe
    BY <1>0, <1>8 DEF Lands, Moves, F!hold, F!patch
  <2>2. Keeps(l, m)
    BY <1>8, <2>1 DEF Waits, Keeps
  <2> QED
    BY <2>1, <2>2
<1>9. CASE \/ w.op = "IN" /\ n = l
           \/ w = F!check_tx(1) /\ n = l
           \/ w = F!SAMPLE /\ n = l
           \/ w = F!PUSH /\ n = l
           \/ w.op = "LAST_BYTE" /\ l = "ninth" /\ n = l /\ t = l
           \/ w = F!PULL
  <2>1. m = l /\ target'.oe = target.oe
    BY <1>0, <1>9 DEF Lands, Moves, F!check_tx, F!SAMPLE, F!PUSH, F!PULL, F!Word
  <2> QED
    BY <1>a, <2>1
<1>10. CASE /\ w.op = "BRANCH" /\ w.lane = 1 /\ w.level = TRUE
            /\ l = "answer_high" /\ n = l /\ t = "failed_high"
  <2>1. ~Sees(w)
    BY <1>10, AnswerSeen
  <2>2. m = l /\ target'.oe = target.oe
    BY <1>0, <1>10, <2>1 DEF Lands, Moves
  <2> QED
    BY <1>a, <2>2
<1>11. CASE w.op = "LAST_BYTE" /\ l = "pulled" /\ n = "out" /\ t = "parting"
  <2>1. (m = n \/ m = t) /\ target'.oe = target.oe
    BY <1>0, <1>11 DEF Lands, Moves
  <2> QED
    BY <1>11, <2>1 DEF Keeps
<1>12. CASE w.op = "JUMP" /\ l = "rejoined" /\ t = "out"
  <2>1. m = t /\ target'.oe = target.oe
    BY <1>0, <1>12 DEF Lands, Moves
  <2> QED
    BY <1>12, <2>1 DEF Keeps
<1>13. /\ w = F!shift_out(1, FALSE, TRUE) => w.op = "OUT"
       /\ w = F!HALT => w.op = "HALT"
       /\ w = F!TRAP => w.op = "TRAP"
  BY DEF F!shift_out, F!HALT, F!TRAP, F!Word
<1> QED
  BY <1>1, <1>2, <1>3, <1>4, <1>5, <1>6, <1>7, <1>8, <1>9, <1>10, <1>11, <1>12, <1>13 DEF Fits

LEMMA QuietStays ==
  ASSUME NEW w, NEW h, Acted(w, h),
         w.op \notin {"LOAD", "OUT", "DJNZ", "BYTE_LOOP", "STREAM"}, ~(w.op = "PULL" /\ ~Empty(tx))
  PROVE  ByteStays
BY DEF Acted, Acts, ActsOnShift, ActsOnCounts, ByteStays

\* A rival may join only where the controller begins.
Starting(w, l, h) == w = F!Low(1, h) /\ l \in {"idle_high", "again_high"}

LEMMA NotBegins ==
  ASSUME NEW w, NEW h, NEW limit, Acted(w, h), NEW l, NEW n, NEW t, At(l),
         Fits(w, l, n, t, h, limit), ~Starting(w, l, h), Begins
  PROVE  FALSE
<1>1. /\ target.scl /\ target'.scl /\ SDA \in target'.oe
      /\ SDA \notin target.oe /\ SCL \notin target.oe /\ SCL \notin target'.oe
  BY DEF Begins, Acted, LineClock, Wired
<1>2. Moves(w, h) /\ ~SDAStays /\ target'.oe # target.oe
  BY <1>1 DEF Acted, SDAStays
<1>3. Kind(l) # "held"
  BY <1>1 DEF At, Held
<1>4. w.op \in {"DRIVE", "PATCH", "OUT"}
  BY <1>2 DEF Moves
<1>5. w # F!drive({}, {}, h) /\ w # F!Low(0, h) /\ w # F!Free(1, h) /\ w # F!Free(0, 4)
      /\ w # F!hold(h)
  BY <1>1, <1>2 DEF Moves
<1>6. ~Sets(l, n) /\ l # "out"
  BY <1>3 DEF Sets, Kind, HeldLabels
<1>7. w # F!check_tx(1) /\ w # F!SAMPLE /\ w # F!PULL /\ w # F!PUSH /\ w # F!HALT /\ w # F!TRAP
  BY <1>4 DEF F!check_tx, F!SAMPLE, F!PULL, F!PUSH, F!HALT, F!TRAP, F!Word
<1>8. ~WaitsFor(w, 0, limit) /\ ~WaitsFor(w, 1, limit)
  BY <1>4 DEF WaitsFor
<1> QED
  BY <1>4, <1>5, <1>6, <1>7, <1>8 DEF Fits, Starting

\* Every word leaves the target where the next label says, or where it was before.
LEMMA HeardActs ==
  ASSUME NEW w, NEW h, NEW limit, Acted(w, h), NEW l, NEW n, NEW t, NEW m,
         Fits(w, l, n, t, h, limit), Lands(w, l, n, t, m), At(l), At(m)', Seen(l), Stocked(l),
         Opening(l), Suits(w, l), Fair => Heard(l), Fair',
         ~(w.op = "PULL" /\ ~Empty(tx)) /\ FirstByte => FirstByte',
         target.bits \in Nat, tx_shift \in Byte,
         w.op \notin {"HALT", "TRAP"}
  PROVE  Heard(m)'
<1>0. LineClock /\ Wired
  BY DEF Acted, LineClock
<1>1. CASE Starting(w, l, h)
  <2>1. m = n /\ w = F!Low(1, h) /\ l \in {"idle_high", "again_high"}
    BY <1>1 DEF Lands, F!Low, F!patch, Starting
  <2>2. <<l, n>> \in {<<"idle_high", "begun">>, <<"again_high", "again_begun">>}
    BY <2>1 DEF Fits, Sets, WaitsFor, F!drive, F!Low, F!Free, F!hold, F!patch, F!shift_out,
       F!check_tx, F!SAMPLE, F!HALT, F!TRAP, F!Word, F!PULL, F!PUSH, Drops, Waits, Releases, Frees,
       Closes, Climbs
  <2> QED
    BY <2>1, <2>2, StartHears
<1>2. CASE ~Starting(w, l, h)
  <2>0. ~Begins
    BY <1>2, NotBegins
  <2>1. Fair /\ Heard(l)
    BY <1>0, <2>0, FairBefore
  <2>2. CASE w = F!Low(0, h)
    <3>1. m = n
      BY <2>2 DEF Lands, F!Low, F!patch
    <3>2. Drops(l, n)
      BY <2>2 DEF Fits, Sets, WaitsFor, F!drive, F!Low, F!Free, F!hold, F!patch, F!shift_out,
         F!check_tx, F!SAMPLE, F!HALT, F!TRAP, F!Word, F!PULL, F!PUSH
    <3>3. FirstByte => FirstByte'
      BY <2>2 DEF F!Low, F!patch
    <3> QED
      BY <2>1, <2>2, <3>1, <3>2, <3>3, FallHears
  <2>3. CASE w.op = "LOAD"
    <3>1. m = n /\ w.count = 8 /\ ((l \in {"fresh", "open"} /\ n = "out") \/ n = "clear")
      BY <2>3 DEF Fits, Lands, WaitsFor, F!drive, F!Low, F!Free, F!hold, F!patch, F!shift_out,
         F!check_tx, F!SAMPLE, F!HALT, F!TRAP, F!Word, F!PULL, F!PUSH
    <3>2. CASE l \in {"fresh", "open"} /\ n = "out"
      BY <2>1, <2>3, <3>1, <3>2, LoadHears
    <3>3. CASE n = "clear"
      BY <3>1, <3>3, SilentHears DEF Silent
    <3> QED
      BY <3>1, <3>2, <3>3
  <2>4. CASE w.op = "OUT"
    <3>1. m = n /\ w = F!shift_out(1, FALSE, TRUE) /\ l = "out" /\ n = "set"
      BY <2>4 DEF Fits, Lands, WaitsFor, F!drive, F!Low, F!Free, F!hold, F!patch, F!shift_out,
         F!check_tx, F!SAMPLE, F!HALT, F!TRAP, F!Word, F!PULL, F!PUSH
    <3> QED
      BY <2>1, <3>1, OutHears
  <2>5. CASE w.op = "DJNZ"
    <3>1. /\ m = IF loop_count = 1 THEN n ELSE t
          /\ (l = "sent" /\ n = "let" /\ t = "out") \/ (n = "ninth" /\ t = "bit")
      BY <2>5 DEF Fits, Lands, WaitsFor, F!drive, F!Low, F!Free, F!hold, F!patch, F!shift_out,
         F!check_tx, F!SAMPLE, F!HALT, F!TRAP, F!Word, F!PULL, F!PUSH
    <3>2. CASE l = "sent" /\ n = "let" /\ t = "out"
      <4>1. m = IF loop_count = 1 THEN "let" ELSE "out"
        BY <3>1, <3>2
      <4> QED
        BY <2>1, <2>5, <3>2, <4>1, CountHears
    <3>3. CASE n = "ninth" /\ t = "bit"
      BY <3>1, <3>3, SilentHears DEF Silent
    <3> QED
      BY <3>1, <3>2, <3>3
  <2>6. CASE w.op = "BYTE_LOOP"
    <3>1. /\ m = IF byte_count = 1 THEN n ELSE t
          /\ n = "closing"
          /\ (l = "open" /\ t \in {"open", "next"}) \/ (l = "between" /\ t = l)
      BY <2>6 DEF Fits, Lands, WaitsFor, F!drive, F!Low, F!Free, F!hold, F!patch, F!shift_out,
         F!check_tx, F!SAMPLE, F!HALT, F!TRAP, F!Word, F!PULL, F!PUSH
    <3>2. CASE byte_count # 1 /\ l = "open"
      BY <2>1, <2>6, <3>1, <3>2, LoopHears
    <3>3. CASE ~(byte_count # 1 /\ l = "open")
      BY <3>1, <3>3, SilentHears DEF Silent
    <3> QED
      BY <3>2, <3>3
  <2>7. CASE w.op = "STREAM"
    <3>1. m = n /\ n \in {"idle", "between"}
      BY <2>7 DEF Fits, Lands, WaitsFor, F!drive, F!Low, F!Free, F!hold, F!patch, F!shift_out,
         F!check_tx, F!SAMPLE, F!HALT, F!TRAP, F!Word, F!PULL, F!PUSH
    <3> QED
      BY <3>1, SilentHears DEF Silent
  <2>8. CASE w.op = "PULL" /\ ~Empty(tx)
    <3>1. m = n /\ w = F!PULL /\ <<l, n>> \in {<<"next", "pulled">>, <<"open", "out">>}
      BY <2>8 DEF Fits, Lands, WaitsFor, F!drive, F!Low, F!Free, F!hold, F!patch, F!shift_out,
         F!check_tx, F!SAMPLE, F!HALT, F!TRAP, F!Word, F!PULL, F!PUSH
    <3> QED
      BY <2>1, <2>8, <3>1, PullHears
  <2>9. CASE /\ w.op \notin {"LOAD", "OUT", "DJNZ", "BYTE_LOOP", "HALT", "TRAP", "STREAM"}
             /\ ~(w.op = "PULL" /\ ~Empty(tx)) /\ ~(w = F!Low(0, h))
    <3>1. \/ m \in Silent
          \/ /\ Keeps(l, m)
             /\ target'.oe = target.oe \/ (Kind(l) = "held" /\ (l \in Bits => SDAStays))
      BY <1>0, <1>2, <2>1, <2>9, QuietWords DEF Starting
    <3>2. CASE m \in Silent
      BY <3>2, SilentHears
    <3>3. CASE /\ Keeps(l, m)
               /\ target'.oe = target.oe \/ (Kind(l) = "held" /\ (l \in Bits => SDAStays))
      <4>1. ByteStays
        BY <2>9, QuietStays
      <4>2. l \in Again => byte_count = 1 /\ job.repeated = 1 /\ job.reads > 0
        BY DEF Stocked, Suits
      <4>3. FirstByte => FirstByte'
        BY <2>9
      <4> QED
        BY ONLY <2>1, <3>3, <4>1, <4>2, Acted(w, h), At(l), At(m)', <4>3,
           target.bits \in Nat, QuietHears
    <3> QED
      BY <3>1, <3>2, <3>3
  <2> QED
    BY <2>2, <2>3, <2>4, <2>5, <2>6, <2>7, <2>8, <2>9
<1> QED
  BY <1>1, <1>2

\* Where the controller looks at a line, and how it comes there.
LEMMA SeenFrom ==
  ASSUME NEW w, NEW h, NEW limit, NEW l, NEW n, NEW t, NEW m, Acted(w, h),
         Fits(w, l, n, t, h, limit), Lands(w, l, n, t, m), w.op \notin {"HALT", "TRAP"},
         m \in {"idle_high", "send", "send_rising", "send_high", "answer", "answer_rising",
                "answer_high"}
  PROVE  \/ m = "idle_high" /\ (w = F!drive({}, {}, h) \/ (l = m /\ w.op = "WAIT"))
         \/ m = "send" /\ w = F!hold(h)
         \/ m = "answer" /\ w = F!Free(1, h)
         \/ <<l, m>> = <<"send", "send_rising">> /\ w = F!Free(0, 4)
         \/ <<l, m>> = <<"answer", "answer_rising">> /\ w = F!Free(0, 4)
         \/ /\ <<l, m>> \in {<<"send_rising", "send_rising">>, <<"send_rising", "send_high">>,
                             <<"send_high", "send_high">>, <<"answer_rising", "answer_rising">>,
                             <<"answer_rising", "answer_high">>, <<"answer_high", "answer_high">>}
            /\ target'.oe = target.oe
<1>1. /\ w = F!hold(h) => target'.oe = target.oe
      /\ w.op \notin {"DRIVE", "PATCH", "OUT"} => target'.oe = target.oe
  BY DEF Acted, Moves
<1>2. CASE w.op \in {"DRIVE", "PATCH"}
  BY <1>1, <1>2 DEF Fits, Lands, WaitsFor, F!drive, F!Low, F!Free, F!hold, F!patch, F!shift_out,
     F!check_tx, F!SAMPLE, F!HALT, F!TRAP, F!Word, F!PULL, F!PUSH, Sets, Drops, Frees, Closes,
     Releases, Waits
<1>3. CASE w.op = "WAIT"
  BY <1>1, <1>3 DEF Fits, Lands, WaitsFor, F!drive, F!Low, F!Free, F!hold, F!patch, F!shift_out,
     F!check_tx, F!SAMPLE, F!HALT, F!TRAP, F!Word, F!PULL, F!PUSH, Climbs
<1>4. CASE w.op \notin {"DRIVE", "PATCH", "WAIT"}
  BY <1>1, <1>4 DEF Fits, Lands, WaitsFor, F!drive, F!Low, F!Free, F!hold, F!patch, F!shift_out,
     F!check_tx, F!SAMPLE, F!HALT, F!TRAP, F!Word, F!PULL, F!PUSH
<1> QED
  BY <1>2, <1>3, <1>4

LEMMA SeenActs ==
  ASSUME NEW w, NEW h, NEW limit, NEW l, NEW n, NEW t, NEW m, Acted(w, h),
         Fits(w, l, n, t, h, limit), Lands(w, l, n, t, m), w.op \notin {"HALT", "TRAP"},
         At(l), Seen(l)
  PROVE  Seen(m)'
<1>0. /\ LineClock /\ delay_left = 0 /\ h \in Nat /\ h - 1 >= 3
      /\ w = F!hold(h) => delay_left' = h - 1
      /\ w = F!drive({}, {}, h) => delay_left' = h - 1
      /\ w = F!Free(1, h) => SDA \notin target'.oe /\ delay_left' = h - 1
      /\ w = F!Free(0, 4) => SCL \notin target'.oe /\ SDAStays
      /\ w.op = "WAIT" => target'.oe = target.oe
  BY DEF Acted, Moves
<1>1. CASE m \notin {"idle_high", "send", "send_rising", "send_high", "answer", "answer_rising",
                     "answer_high"}
  BY <1>1 DEF Seen
<1>2. CASE m = "idle_high" /\ l = m /\ w.op = "WAIT"
  <2>1. Settled(SCL, TRUE) /\ Settled(SDA, TRUE)
    BY <1>0, <1>2 DEF Seen, Settles, Settled
  <2>2. target.scl /\ target.sda
    BY <1>2 DEF At, Kind, HeldLabels, RisingLabels, HighLabels, IdleLabels, Idle
  <2>3. Settles(SCL, TRUE)' /\ Settles(SDA, TRUE)'
    BY <1>0, <2>1, <2>2 DEF LineClock, BusLanes, Settles, Settled, SCL, SDA
  <2> QED
    BY <1>2, <2>3 DEF Seen
<1>3. CASE \/ m = "idle_high" /\ w = F!drive({}, {}, h)
           \/ m = "send" /\ w = F!hold(h)
           \/ m = "answer" /\ w = F!Free(1, h)
  <2>1. delay_left' >= 3 /\ delay_left' >= 2
    BY <1>0, <1>3
  <2>2. (m = "answer" => SDA \notin target'.oe)
    BY <1>0, <1>3
  <2> QED
    BY <1>3, <2>1, <2>2 DEF Seen, Settles
<1>4. CASE /\ <<l, m>> = <<"send", "send_rising">> \/ <<l, m>> = <<"answer", "answer_rising">>
           /\ w = F!Free(0, 4)
  <2>1. target'.sda = target.sda
    BY <1>0, <1>4, LevelStays
  <2>2. Settles(SDA, target.sda)
    BY <1>4 DEF Seen
  <2>3. Settled(SDA, target.sda)'
    BY <1>0, <2>1, <2>2, SettlesOn
  <2> QED
    BY <1>0, <1>4, <2>3 DEF Seen, SDAStays
<1>5. CASE /\ <<l, m>> \in {<<"send_rising", "send_rising">>, <<"send_rising", "send_high">>,
                            <<"send_high", "send_high">>, <<"answer_rising", "answer_rising">>,
                            <<"answer_rising", "answer_high">>, <<"answer_high", "answer_high">>}
           /\ target'.oe = target.oe
  <2>1. target'.sda = target.sda
    BY <1>0, <1>5, LevelStays DEF SDAStays
  <2>2. Settled(SDA, target.sda)
    BY <1>5 DEF Seen
  <2>3. Settled(SDA, target.sda)'
    BY <1>0, <2>1, <2>2, StillSettled
  <2> QED
    BY <1>5, <2>3 DEF Seen
<1> QED
  BY <1>1, <1>2, <1>3, <1>4, <1>5, SeenFrom

\* The first labels of a program.
LEMMA OpeningActs ==
  ASSUME NEW w, NEW h, NEW limit, NEW l, NEW n, NEW t, NEW m, job' = job,
         Fits(w, l, n, t, h, limit), Lands(w, l, n, t, m), w.op \notin {"HALT", "TRAP"},
         Opening(l), ~(w.op = "PULL" /\ ~Empty(tx)) /\ FirstByte => FirstByte'
  PROVE  Opening(m)'
<1>1. m \in {"idle", "idle_high", "begun"} => l \in {"idle", "idle_high"} /\ w.op # "PULL"
  <2>1. CASE w.op \in {"DRIVE", "PATCH"}
    BY <2>1 DEF Fits, Lands, WaitsFor, F!drive, F!Low, F!Free, F!hold, F!patch, F!shift_out,
       F!check_tx, F!SAMPLE, F!HALT, F!TRAP, F!Word, F!PULL, F!PUSH, Sets, Drops, Frees, Closes,
       Releases, Waits
  <2>2. CASE w.op = "WAIT"
    BY <2>2 DEF Fits, Lands, WaitsFor, F!drive, F!Low, F!Free, F!hold, F!patch, F!shift_out,
       F!check_tx, F!SAMPLE, F!HALT, F!TRAP, F!Word, F!PULL, F!PUSH, Climbs
  <2>3. CASE w.op \notin {"DRIVE", "PATCH", "WAIT"}
    BY <2>3 DEF Fits, Lands, WaitsFor, F!drive, F!Low, F!Free, F!hold, F!patch, F!shift_out,
       F!check_tx, F!SAMPLE, F!HALT, F!TRAP, F!Word, F!PULL, F!PUSH
  <2> QED
    BY <2>1, <2>2, <2>3
<1> QED
  BY <1>1 DEF Opening

\* A word other than STREAM does not leave the end of a program, and only LAST_BYTE
\* leads to the repeated START.
LEMMA LooseStays ==
  ASSUME NEW w, NEW h, NEW limit, NEW l, NEW n, NEW t, NEW m, Fits(w, l, n, t, h, limit),
         Lands(w, l, n, t, m), w.op \notin {"HALT", "TRAP"}
  PROVE  /\ l \in Loose /\ w.op # "STREAM" => m \in Loose
         /\ m \in Again => \/ l \in Again /\ w.op \notin {"STREAM", "BYTE_LOOP"}
                           \/ w.op = "LAST_BYTE" /\ byte_count = 1
         /\ w.op = "BYTE_LOOP" /\ byte_count = 1 => m \in Loose
         /\ w.op = "STREAM" => w.count > 0
<1>1. CASE w.op \in {"DRIVE", "PATCH"}
  BY <1>1 DEF Fits, Lands, WaitsFor, F!drive, F!Low, F!Free, F!hold, F!patch, F!shift_out,
     F!check_tx, F!SAMPLE, F!HALT, F!TRAP, F!Word, F!PULL, F!PUSH, Sets, Drops, Frees, Closes,
     Releases, Waits, Loose, Again
<1>2. CASE w.op = "WAIT"
  BY <1>2 DEF Fits, Lands, WaitsFor, F!drive, F!Low, F!Free, F!hold, F!patch, F!shift_out,
     F!check_tx, F!SAMPLE, F!HALT, F!TRAP, F!Word, F!PULL, F!PUSH, Climbs, Loose, Again
<1>3. CASE w.op \notin {"DRIVE", "PATCH", "WAIT"}
  BY <1>3 DEF Fits, Lands, WaitsFor, F!drive, F!Low, F!Free, F!hold, F!patch, F!shift_out,
     F!check_tx, F!SAMPLE, F!HALT, F!TRAP, F!Word, F!PULL, F!PUSH, Loose, Again
<1> QED
  BY <1>1, <1>2, <1>3

\* As long as bytes are to come, their count is above zero.
LEMMA StockedActs ==
  ASSUME NEW w, NEW h, NEW limit, NEW l, NEW n, NEW t, NEW m, Acted(w, h),
         Fits(w, l, n, t, h, limit), Lands(w, l, n, t, m), w.op \notin {"HALT", "TRAP"},
         Stocked(l), pc \in Nat, byte_count \in Byte, stream_enabled \in BOOLEAN,
         pc = 0 /\ Streaming => w.op = "STREAM", job' = job
  PROVE  Stocked(m)'
<1>1. /\ l \in Loose /\ w.op # "STREAM" => m \in Loose
      /\ m \in Again => \/ l \in Again /\ w.op \notin {"STREAM", "BYTE_LOOP"}
                        \/ w.op = "LAST_BYTE" /\ byte_count = 1
      /\ w.op = "BYTE_LOOP" /\ byte_count = 1 => m \in Loose
      /\ w.op = "STREAM" => w.count > 0
  BY LooseStays
<1>2. /\ w.op \notin {"STREAM", "BYTE_LOOP"} => byte_count' = byte_count
      /\ w.op = "STREAM" => byte_count' = w.count
      /\ w.op = "BYTE_LOOP" => byte_count' = byte_count - 1
      /\ stream_enabled' = (stream_enabled \/ w.op = "STREAM")
  BY DEF Acted, Acts, ActsOnCounts
<1>3. w.op = "BYTE_LOOP" => stream_enabled /\ byte_count # 0
  BY DEF Acted, Rejected, NotStreaming, LoopExhausted
<1>4. Streaming' <=> Streaming
  BY DEF Streaming
<1>5. m \in Again => byte_count' = 1
  BY <1>1, <1>2 DEF Stocked
<1>6. ASSUME Streaming, m \notin Loose
      PROVE  stream_enabled' /\ byte_count' > 0
  <2>1. CASE w.op = "STREAM"
    BY <1>1, <1>2, <2>1
  <2>2. CASE w.op = "BYTE_LOOP"
    <3>1. byte_count \in Nat /\ byte_count # 0 /\ byte_count # 1
      BY <1>1, <1>3, <1>6, <2>2 DEF Byte
    <3>2. byte_count - 1 > 0
      BY ONLY <3>1
    <3> QED
      BY <1>2, <1>3, <2>2, <3>2
  <2>3. CASE w.op \notin {"STREAM", "BYTE_LOOP"}
    <3>1. pc > 0 /\ l \notin Loose
      BY <1>1, <1>6, <2>3
    <3> QED
      BY <1>2, <1>6, <2>3, <3>1 DEF Stocked
  <2> QED
    BY <2>1, <2>2, <2>3
<1> QED
  BY <1>4, <1>5, <1>6 DEF Stocked

\* What the host does on a clock.
LEMMA HostClock ==
  ASSUME BusClock
  PROVE  /\ run /\ run_prev => tx' = Edge(tx, tx_push, tx_pop, HostByte)
         /\ unsent' = IF host_strobe /\ ~command THEN Tail(unsent) ELSE unsent
<1>1. PICK pins \in HostPins(BusLanes) : EngineClock(pins, HostByte)
  BY DEF BusClock, BenchClock
<1>2. run /\ run_prev => ServeByte(HostByte)
  BY <1>1 DEF EngineClock
<1> QED
  BY <1>2 DEF BusClock, BenchClock, ServeByte

\* The first byte stays the first until a PULL takes it.
LEMMA FirstByteStays ==
  ASSUME OnBus, BusClock, running, Inv, FirstByte, NEW w, instruction = w,
         delay_left = 0 => ~(w.op = "PULL" /\ ~Empty(tx))
  PROVE  FirstByte'
<1>1. run /\ run_prev
  BY DEF OnBus, InStore, RunOnly
<1>2. /\ tx' = Edge(tx, tx_push, FALSE, HostByte)
      /\ unsent' = IF host_strobe /\ ~command THEN Tail(unsent) ELSE unsent
  <2>1. ~tx_pop
    BY DEF tx_pop, issue
  <2>2. tx_pop = FALSE
    BY <2>1 DEF tx_pop, issue, Executing
  <2> QED
    BY <1>1, <2>2, HostClock
<1>3. tx \in RingOf(Byte \cup {Unknown}) /\ Coherent(tx) /\ Depth \in Nat \ {0}
  BY DepthAssumption DEF Inv, TypeOK, QueueTypes, Written, QueuesCoherent
<1>4. job' = job
  BY BusPins
<1>5. tx_push \in BOOLEAN /\ (tx_push => ~Full(tx))
  BY DEF tx_push, host_strobe
<1>6. CASE ~Empty(tx)
  <2>1. ~Empty(tx') /\ Front(tx') = Front(tx)
    BY <1>2, <1>3, <1>5, <1>6, FrontStays
  <2> QED
    BY <1>4, <1>6, <2>1 DEF FirstByte
<1>7. CASE Empty(tx) /\ tx_push
  <2>1. HostByte = Head(job.bytes)
    BY <1>7 DEF HostByte, FirstByte, tx_push, command
  <2>2. tx.used = 0 /\ tx.wr = tx.rd /\ tx.rd \in Slots /\ DOMAIN tx.mem = Slots
    BY <1>3, <1>7 DEF Empty, Full, Coherent, Ahead, RingOf, Slots
  <2>3. tx'.used = 1 /\ tx'.mem[tx'.rd] = HostByte
    BY <1>2, <1>7, <2>2 DEF Edge
  <2> QED
    BY <1>4, <2>1, <2>3 DEF FirstByte, Empty, Front
<1>8. CASE Empty(tx) /\ ~tx_push
  <2>1. ~Full(tx)
    BY <1>3, <1>8 DEF Empty, Full
  <2>2. unsent' = unsent
    BY <1>2, <1>8, <2>1 DEF tx_push, command
  <2>3. Empty(tx')
    BY <1>2, <1>8 DEF Edge, Empty
  <2> QED
    BY <1>4, <1>8, <2>2, <2>3 DEF FirstByte
<1> QED
  BY <1>6, <1>7, <1>8

\* The host keeps its bytes until the program streams.
LEMMA BytesWait ==
  ASSUME OnBus, BusClock, ~stream_enabled => unsent = job.bytes
  PROVE  ~stream_enabled' => unsent' = job'.bytes
<1>1. job' = job /\ Next
  BY BusPins
<1>2. stream_enabled => stream_enabled'
  <2>1. CASE Stopped \/ Start
    BY <2>1 DEF OnBus, InStore, RunOnly, Stopped, Start, RunEdge
  <2>2. CASE Steps
    BY <2>2 DEF Steps, Delay, PastEnd, Reject, Drive, Patch, Wait, Jump, Branch, Sample, Load,
       Out, In, Djnz, CheckTx, Stream, PullReady, PushReady, Stall, ByteLoop, LastByte, Capture,
       Halt, Halted, FailClosed, streamVars
  <2> QED
    BY <1>1, <2>1, <2>2, ThreeClocks DEF OnBus
<1>3. ~stream_enabled => unsent' = unsent
  BY HostClock DEF host_strobe
<1> QED
  BY <1>1, <1>2, <1>3

\* The image in the store is complete throughout.
LEMMA LoaderStays ==
  ASSUME OnBus, BusClock
  PROVE  UNCHANGED loaderVars
<1>1. Loader
  BY BusPins, ThreeClocks DEF OnBus
<1> QED
  BY <1>1 DEF Loader, Rewind, Overrun, TakeByte, CompleteWord, NoStrobe, LoadStrobe, OnBus,
     InStore, RunOnly

\* What a word of these programs may be rejected for.
LEMMA FitsRejected ==
  ASSUME NEW w, NEW l, NEW n, NEW t, NEW h, NEW limit, Fits(w, l, n, t, h, limit)
  PROVE  /\ w.op \in {"WAIT", "OUT", "IN", "BRANCH", "CHECK_TX"} => w.lane \in {0, 1}
         /\ w.op = "WAIT" =>
              \/ (WaitsFor(w, 0, limit) \/ WaitsFor(w, 1, limit)) /\ l = "idle_high"
              \/ WaitsFor(w, 0, limit) /\ Climbs(l, n)
              \/ WaitsFor(w, 1, limit) /\ l = "again_waits"
         /\ w.op = "CHECK_TX" => w.lane = 1 /\ l = "send_high"
         /\ w.op = "DJNZ" => l \in {"sent", "bit_over"}
         /\ w.op = "STREAM" => w.count > 0
         /\ w.op = "TRAP" => l = "failed_done"
<1>1. CASE w.op \in {"DRIVE", "PATCH"}
  BY <1>1
<1>2. CASE w.op = "WAIT"
  BY <1>2 DEF Fits, WaitsFor, F!drive, F!Low, F!Free, F!hold, F!patch, F!shift_out,
     F!check_tx, F!SAMPLE, F!HALT, F!TRAP, F!Word, F!PULL, F!PUSH
<1>3. CASE w.op \notin {"DRIVE", "PATCH", "WAIT"}
  BY <1>3 DEF Fits, WaitsFor, F!drive, F!Low, F!Free, F!hold, F!patch, F!shift_out,
     F!check_tx, F!SAMPLE, F!HALT, F!TRAP, F!Word, F!PULL, F!PUSH
<1> QED
  BY <1>1, <1>2, <1>3

\* A queue is only turned to while bytes are to come.
LEMMA QueueStocked ==
  ASSUME NEW w, NEW l, NEW n, NEW t, NEW h, NEW limit, Fits(w, l, n, t, h, limit),
         w.op \in {"PULL", "PUSH", "BYTE_LOOP", "LAST_BYTE"}, Stocked(l), Suits(w, l), pc \in Nat,
         pc = 0 /\ Streaming => w.op = "STREAM"
  PROVE  stream_enabled /\ byte_count > 0
<1>1. l \notin Loose
  BY QueueSpots DEF Spots, Loose, Again
<1>2. Streaming /\ pc > 0
  BY DEF Suits
<1> QED
  BY <1>1, <1>2 DEF Stocked

\* A wait that is given up.
LEMMA WaitGivenUp ==
  ASSUME LineClock, NEW w, NEW l, NEW n, NEW t, NEW h, Fits(w, l, n, t, h, job.limit), At(l),
         Seen(l), Fair => Heard(l), delay_left = 0, w.op = "WAIT", ~Sees(w),
         wait_elapsed = w.limit - 1
  PROVE  target.late \/ ~Fair
<1>0. PICK lane \in {0, 1} : WaitsFor(w, lane, job.limit)
  BY FitsRejected
<1>1. lane \notin input_sync.lanes /\ wait_elapsed = job.limit - 1
  BY <1>0 DEF WaitsFor, Sees
<1>2. CASE l = "idle_high"
  <2>1. SCL \in input_sync.lanes /\ SDA \in input_sync.lanes
    BY <1>2 DEF Seen, Settles
  <2> QED
    BY <1>0, <1>1, <2>1 DEF SCL, SDA
<1>3. CASE WaitsFor(w, 0, job.limit) /\ Climbs(l, n)
  <2>1. Kind(l) = "rising"
    BY <1>3, ClimbsTable DEF At
  <2>2. Freed(Place(l, loop_count))
    BY <2>1 DEF At
  <2>3. SCL \notin input_sync.lanes
    BY <1>0, <1>1, <1>3 DEF WaitsFor, SCL
  <2> QED
    BY <1>1, <2>2, <2>3, FreedLate
<1>4. CASE WaitsFor(w, 1, job.limit) /\ l = "again_waits"
  <2>1. SDA \notin target.oe /\ Settled(SDA, target.sda)
    BY <1>4 DEF At, Parts
  <2>2. SDA \notin input_sync.lanes
    BY <1>0, <1>1, <1>4 DEF WaitsFor, SDA
  <2>3. ~target.sda
    BY <2>1, <2>2 DEF Settled
  <2>4. Fair => ~target.low
    BY <1>4 DEF Heard, Turns, Again
  <2> QED
    BY <2>1, <2>3, <2>4 DEF LineClock, Wired, Fair
<1> QED
  BY <1>2, <1>3, <1>4, FitsRejected

\* A word is only rejected after a stretch beyond the limit, a NACK, or with a rival.
LEMMA RejectedExcused ==
  ASSUME LineClock, NEW w, NEW l, NEW n, NEW t, NEW h, Fits(w, l, n, t, h, job.limit), At(l),
         Seen(l), Fair => Heard(l), Stocked(l), Suits(w, l), delay_left = 0, instruction = w,
         pc \in Nat, pc = 0 /\ Streaming => w.op = "STREAM", Rejected
  PROVE  target.late \/ ~Fair
<1>0. w.op \in I2COps /\ LineClock /\ Wired
  BY FitsWords DEF LineClock
<1>1. ~BadLane
  BY FitsRejected DEF BadLane, Lanes
<1>2. CASE TimesOut
  BY <1>2, WaitGivenUp DEF TimesOut
<1>3. CASE Conflicts
  <2>1. w.lane = SDA /\ l = "send_high"
    BY <1>3, FitsRejected DEF Conflicts, SDA
  <2>2. SDA \in input_sync.lanes <=> target.sda
    BY <2>1 DEF Seen, Settled
  <2>3. Fair => Talks /\ Says
    BY <2>1 DEF Heard, Shifts
  <2>4. Fair => (target.sda <=> last_tx_bit = 1)
    BY <1>0, <2>3 DEF Wired, Talks, Says, Fair
  <2> QED
    BY <1>3, <2>1, <2>2, <2>4 DEF Conflicts
<1>4. ~NotStreaming
  BY <1>0, QueueStocked DEF NotStreaming, I2COps
<1>5. ~LoopExhausted
  <2>1. w.op \in {"BYTE_LOOP", "LAST_BYTE"} => byte_count # 0
    BY QueueStocked
  <2>2. w.op = "DJNZ" => loop_count # 0
    <3>1. w.op = "DJNZ" => l \in {"sent", "bit_over"}
      BY FitsRejected
    <3> QED
      BY <3>1 DEF At, Counted, OutBits, InBits
  <2>3. w.op = "STREAM" => w.count # 0
    BY FitsRejected
  <2> QED
    BY <2>1, <2>2, <2>3 DEF LoopExhausted
<1>6. CASE instruction.op = "TRAP"
  <2>1. l = "failed_done"
    BY <1>6, FitsRejected
  <2> QED
    BY <2>1 DEF Heard, Acks, FailedLabels
<1>7. instruction.op # "ILLEGAL"
  BY <1>0 DEF I2COps
<1> QED
  BY <1>1, <1>2, <1>3, <1>4, <1>5, <1>6, <1>7 DEF Rejected

\* While the delay counts nothing changes for the program.
LEMMA KnowsCounts ==
  ASSUME LineClock, Counting, target'.oe = target.oe, delay_left \in Nat \ {0}, NEW l, At(l), At(l)',
         Knows(l), Stocked(l), FirstByte => FirstByte', target.bits \in Nat,
         l \in Again => job.repeated = 1 /\ job.reads > 0
  PROVE  Knows(l)' /\ Stocked(l)'
<1>1. /\ delay_left' = delay_left - 1 /\ ByteStays /\ stream_enabled' = stream_enabled
      /\ pc' = pc /\ job' = job
  BY DEF Counting, shiftVars, streamVars, ByteStays, LineClock
<1>2. target'.sda = target.sda /\ SDAStays /\ Unmoved
  BY LevelStays DEF SDAStays, Unmoved
<1>3. Seen(l)'
  <2>1. l = "idle_high" => Settles(SCL, TRUE)' /\ Settles(SDA, TRUE)'
    <3>1. CASE l = "idle_high"
      <4>1. target.scl /\ target.sda
        BY <3>1 DEF At, Kind, HeldLabels, RisingLabels, HighLabels, IdleLabels, Idle
      <4>2. SCL \in input_meta'.lanes /\ SDA \in input_meta'.lanes /\ input_sync' = input_meta
        BY <4>1 DEF LineClock, BusLanes, SCL, SDA
      <4>3. Settles(SCL, TRUE) /\ Settles(SDA, TRUE)
        BY <3>1 DEF Knows, Seen
      <4>4. delay_left >= 3 => delay_left' >= 2
        BY <1>1
      <4> QED
        BY <4>2, <4>3, <4>4 DEF Settles
    <3> QED
      BY <3>1
  <2>2. Settles(SDA, target.sda) => Settles(SDA, target.sda)'
    BY <1>1, <1>2, StillSettles
  <2>3. Settled(SDA, target.sda) => Settled(SDA, target.sda)'
    BY <1>2, StillSettled
  <2> QED
    BY <2>1, <2>2, <2>3 DEF Knows, Seen
<1>4. Opening(l)'
  BY <1>1 DEF Knows, Opening
<1>5. Stocked(l)'
  BY <1>1 DEF Stocked, Streaming, ByteStays
<1>6. Fair' => Heard(l)'
  <2>1. Fair' => Fair /\ Heard(l)
    <3>1. ~Begins
      BY <1>2, CalmClock DEF Calm
    <3> QED
      BY <3>1, FairBefore DEF Knows
  <2>2. Keeps(l, l)
    BY DEF Keeps
  <2>3. l \in Again => byte_count = 1 /\ job.repeated = 1 /\ job.reads > 0
    BY DEF Stocked
  <2>4. Heard(l) => Heard(l)'
    BY ONLY LineClock, <1>1, <1>2, <2>2, <2>3, At(l), At(l)', FirstByte => FirstByte',
       target.bits \in Nat, HeardKept
  <2> QED
    BY <2>1, <2>4
<1> QED
  BY <1>3, <1>4, <1>5, <1>6 DEF Knows

\* A word that is not rejected.
LEMMA KnowsActs ==
  ASSUME NEW w, NEW h, NEW limit, NEW l, NEW n, NEW t, NEW m, Acted(w, h),
         Fits(w, l, n, t, h, limit), Lands(w, l, n, t, m), w.op \notin {"HALT", "TRAP"},
         At(l), At(m)', Knows(l), Stocked(l), Suits(w, l),
         ~(w.op = "PULL" /\ ~Empty(tx)) /\ FirstByte => FirstByte',
         target.bits \in Nat, tx_shift \in Byte, pc \in Nat, byte_count \in Byte,
         stream_enabled \in BOOLEAN, pc = 0 /\ Streaming => w.op = "STREAM"
  PROVE  Knows(m)' /\ Stocked(m)'
<1>1. Seen(l) /\ Opening(l) /\ (Fair => Heard(l)) /\ job' = job
  BY DEF Knows, Acted, LineClock
<1>2. Seen(m)'
  BY <1>1, SeenActs
<1>3. Opening(m)'
  BY <1>1, OpeningActs
<1>4. Stocked(m)'
  BY <1>1, StockedActs
<1>5. Fair' => Heard(m)'
  BY <1>1, HeardActs
<1> QED
  BY <1>2, <1>3, <1>4, <1>5 DEF Knows

\* What excuses a fault is never forgotten while both lines are free.
LEMMA ExcuseLasts ==
  ASSUME LineClock, SDA \notin target'.oe, Excusable
  PROVE  Excusable'
<1>1. target.late => target'.late
  BY DEF LineClock, Stretching
<1>2. Fair' => Fair
  BY FairBefore DEF Begins
<1> QED
  BY <1>1, <1>2 DEF Excusable

\* What holds on every clock.
FaultBase ==
  /\ target.bits \in Nat /\ byte_index = 0 /\ ~loader_error
  /\ ~stream_enabled => unsent = job.bytes

LEMMA FaultBaseClock ==
  ASSUME OnBus, Wired, BusClock, FaultBase
  PROVE  FaultBase'
<1>1. target'.bits \in Nat
  BY BusPins, BitsAreNumbers DEF FaultBase
<1>2. byte_index' = 0 /\ ~loader_error'
  BY LoaderStays DEF loaderVars, FaultBase
<1>3. ~stream_enabled' => unsent' = job'.bytes
  BY BytesWait DEF FaultBase
<1> QED
  BY <1>1, <1>2, <1>3 DEF FaultBase

\* The word at pc of a running program.
LEMMA WordNow ==
  ASSUME LinesInv, running, NEW w, w = job.program[pc + 1], NEW l, l = Here
  PROVE  /\ Fits(w, l, Label(Labels, pc + 1 + 1), Label(Labels, w.target + 1), job.half, job.limit)
         /\ Suits(w, l) /\ w.op \in I2COps /\ At(l) /\ pc \in Nat
         /\ pc = 0 /\ Streaming => w.op = "STREAM"
         /\ l \in Again => job.repeated = 1 /\ job.reads > 0
<1>1. /\ pc \in 0 .. Len(job.program) - 1 /\ job \in Jobs /\ job.program \in Seq(Words) /\ At(Here)
  BY DEF LinesInv, RunsAt, OnBus, InStore
<1>2. Fits(w, l, Label(Labels, pc + 1 + 1), Label(Labels, w.target + 1), job.half, job.limit)
  BY <1>1, WordHere
<1>3. Suits(w, l)
  BY <1>1, WordSuits
<1>4. w.op \in I2COps
  BY <1>2, FitsWords
<1>5. At(l)
  BY <1>1 DEF At, Parts
<1>6. l \in Again => job.repeated = 1 /\ job.reads > 0
  BY <1>3 DEF Suits
<1>7. pc = 0 /\ Streaming => w.op = "STREAM"
  BY DEF Streaming
<1> QED
  BY <1>1, <1>2, <1>3, <1>4, <1>5, <1>6, <1>7

\* A clock of a running program.
LEMMA DelayedFaults ==
  ASSUME LinesInv, Inv, FaultInv, BusClock, running, delay_left # 0
  PROVE  running' /\ Knows(Here)' /\ Stocked(Here)'
<1>1. OnBus /\ Wired /\ target.phase \in 0 .. 9 /\ RunsAt /\ LinesInv' /\ running'
  BY DelayedLines DEF LinesInv
<1>2. PICK w, l : w = job.program[pc + 1] /\ l = Here
  OBVIOUS
<1>3. /\ w.op \in I2COps /\ At(l) /\ (l \in Again => job.repeated = 1 /\ job.reads > 0)
  BY <1>2, WordNow
<1>4. Counting /\ delay_left \in Nat \ {0}
  BY <1>1, <1>2, <1>3, RunClock DEF RunsAt
<1>5. out_value' = {} /\ out_enable' = out_enable
  BY <1>1, <1>4 DEF Counting, Wired
<1>6. LineClock /\ Labels' = Labels /\ target'.oe = target.oe
  BY <1>1, <1>5, ActsAreWired DEF LineClock, Wired
<1>7. Here' = l
  BY <1>2, <1>4, <1>6 DEF Counting, Here, Label
<1>8. At(l)'
  <2>1. At(Here)'
    BY <1>1 DEF LinesInv, RunsAt
  <2> QED
    BY <1>7, <2>1 DEF At, Parts
<1>9. FirstByte => FirstByte'
  BY <1>1, FirstByteStays
<1>10. Knows(l) /\ Stocked(l) /\ target.bits \in Nat
  <2>1. Knows(Here) /\ Stocked(Here) /\ target.bits \in Nat
    BY DEF FaultInv
  <2> QED
    BY <1>2, <2>1
<1>11. Knows(l)' /\ Stocked(l)'
  BY ONLY <1>3, <1>4, <1>6, <1>8, <1>9, <1>10, KnowsCounts
<1> QED
  BY <1>1, <1>7, <1>11, KnowsHere

LEMMA ActedFaults ==
  ASSUME LinesInv, Inv, FaultInv, BusClock, running, delay_left = 0, NEW w,
         w = job.program[pc + 1], instruction = w, ~Rejected, w.op \notin {"HALT", "TRAP"},
         UNCHANGED statusVars, Acts(w)
  PROVE  running' /\ Knows(Here)' /\ Stocked(Here)'
<1>1. /\ OnBus /\ Wired /\ target.phase \in 0 .. 9 /\ RunsAt /\ LinesInv' /\ running'
      /\ job \in Jobs
  BY ActedLines DEF LinesInv, statusVars, OnBus
<1>2. PICK l, n, t : l = Here /\ n = Label(Labels, pc + 1 + 1) /\ t = Label(Labels, w.target + 1)
  OBVIOUS
<1>3. /\ Fits(w, l, n, t, job.half, job.limit) /\ Suits(w, l) /\ w.op \in I2COps /\ At(l)
      /\ pc \in Nat /\ (pc = 0 /\ Streaming => w.op = "STREAM")
  BY <1>2, WordNow
<1>4. out_value' = {}
  <2>1. out_value = {} /\ ActsOnPins(w)
    BY <1>1 DEF Wired, Acts
  <2>2. (w.op \in {"DRIVE", "PATCH"} => w.value = {}) /\ (w.op = "OUT" => w.drain)
    BY <1>3, FitsWords
  <2> QED
    BY ONLY <2>1, <2>2 DEF ActsOnPins
<1>5. LineClock /\ job' = job /\ Labels' = Labels
  BY <1>1, <1>4, ActsAreWired
<1>6. job.half \in Nat /\ job.half >= 4 /\ (w.op # "WAIT" => wait_elapsed = 0)
  BY <1>1, JobIsTyped DEF RunsAt
<1>7. Acted(w, job.half)
  BY <1>1, <1>5, <1>6, LanesMove DEF Acted, LineClock
<1>8. PICK m : m = Here'
  OBVIOUS
<1>9. Lands(w, l, n, t, m)
  BY <1>2, <1>5, <1>8, WordLands DEF Acts
<1>10. At(m)'
  <2>1. At(Here)'
    BY <1>1 DEF LinesInv, RunsAt
  <2> QED
    BY <1>8, <2>1 DEF At, Parts
<1>11. ~(w.op = "PULL" /\ ~Empty(tx)) /\ FirstByte => FirstByte'
  BY <1>1, FirstByteStays
<1>12. Knows(l) /\ Stocked(l) /\ target.bits \in Nat
  <2>1. Knows(Here) /\ Stocked(Here) /\ target.bits \in Nat
    BY DEF FaultInv
  <2> QED
    BY <1>2, <2>1
<1>13. tx_shift \in Byte /\ byte_count \in Byte /\ stream_enabled \in BOOLEAN
  <2>1. ShiftTypes /\ StreamTypes
    BY DEF Inv, TypeOK, ExecutorTypes
  <2> QED
    BY ONLY <2>1 DEF ShiftTypes, StreamTypes
<1>14. Knows(m)' /\ Stocked(m)'
  BY ONLY <1>3, <1>7, <1>9, <1>10, <1>11, <1>12, <1>13, w.op \notin {"HALT", "TRAP"}, KnowsActs
<1> QED
  BY <1>1, <1>8, <1>14, KnowsHere

\* A word that is rejected.
LEMMA RejectedFaults ==
  ASSUME LinesInv, FaultInv, BusClock, running, delay_left = 0, NEW w,
         w = job.program[pc + 1], instruction = w, Rejected, Faults
  PROVE  ~running' /\ Excusable'
<1>1. OnBus /\ Wired /\ target.phase \in 0 .. 9 /\ ~running' /\ out_enable' = {} /\ out_value' = {}
  BY DEF LinesInv, Faults, Wired
<1>2. LineClock
  BY <1>1, ActsAreWired
<1>3. SDA \notin target'.oe
  BY <1>1, <1>2 DEF LineClock, Wired
<1>4. PICK l : l = Here
  OBVIOUS
<1>5. PICK n, t : n = Label(Labels, pc + 1 + 1) /\ t = Label(Labels, w.target + 1)
  OBVIOUS
<1>6. /\ Fits(w, l, n, t, job.half, job.limit) /\ Suits(w, l) /\ At(l)
      /\ pc \in Nat /\ (pc = 0 /\ Streaming => w.op = "STREAM")
  BY <1>4, <1>5, WordNow
<1>7. Seen(l) /\ (Fair => Heard(l)) /\ Stocked(l)
  <2>1. Knows(Here) /\ Stocked(Here)
    BY DEF FaultInv
  <2> QED
    BY <1>4, <2>1 DEF Knows
<1>8. Excusable
  BY <1>2, <1>6, <1>7, RejectedExcused DEF Excusable
<1> QED
  BY <1>1, <1>2, <1>3, <1>8, ExcuseLasts

LEMMA RunningFaults ==
  ASSUME LinesInv, Inv, FaultInv, BusClock, running
  PROVE  FaultInv'
<1>1. FaultBase'
  BY FaultBaseClock DEF FaultBase, FaultInv, LinesInv
<1>2. LinesInv'
  BY LinesStep
<1>3. CASE running' /\ Knows(Here)' /\ Stocked(Here)'
  BY <1>1, <1>3 DEF FaultInv, FaultBase
<1>4. CASE ~running' /\ (fault' => Excusable')
  <2>1. run_prev'
    BY BusStays, BusPins, ThreeClocks DEF Synchronize, LinesInv, OnBus, InStore, RunOnly
  <2> QED
    BY <1>1, <1>4, <2>1 DEF FaultInv, FaultBase
<1>5. CASE delay_left # 0
  BY <1>3, <1>5, DelayedFaults
<1>6. CASE delay_left = 0
  <2>1. OnBus /\ RunsAt
    BY DEF LinesInv
  <2>2. /\ pc \in 0 .. Len(job.program) - 1 /\ stream_enabled \in BOOLEAN /\ ~fault
    BY <2>1 DEF RunsAt
  <2>3. PICK w : w = job.program[pc + 1]
    OBVIOUS
  <2>4. w.op \in I2COps
    BY <2>3, WordNow
  <2>5. /\ instruction = w
        /\ \/ Rejected /\ Faults
           \/ w.op = "HALT" /\ Halts
           \/ ~Rejected /\ w.op \notin {"HALT", "TRAP"} /\ UNCHANGED statusVars /\ Acts(w)
    BY <1>6, <2>1, <2>2, <2>3, <2>4, RunClock
  <2>6. CASE Rejected /\ Faults
    BY <1>4, <1>6, <2>3, <2>5, <2>6, RejectedFaults
  <2>7. CASE w.op = "HALT" /\ Halts
    BY <1>4, <2>2, <2>7 DEF Halts
  <2>8. CASE ~Rejected /\ w.op \notin {"HALT", "TRAP"} /\ UNCHANGED statusVars /\ Acts(w)
    BY <1>3, <1>6, <2>3, <2>5, <2>8, ActedFaults
  <2> QED
    BY <2>5, <2>6, <2>7, <2>8
<1> QED
  BY <1>5, <1>6

\* The first word of a program, before its first clock.
LEMMA KnowsStart ==
  ASSUME job \in Jobs, Empty(tx), unsent = job.bytes, pc = 0
  PROVE  Knows("idle") /\ Stocked("idle")
<1>1. job.repeated = 1 => job.bytes # << >>
  <2>1. WriteCall(job) \/ WriteStreamCall(job) \/ ReadCall(job) \/ TransactionCall(job)
    BY ONLY I2CAssumption, job \in Jobs
  <2>2. CASE TransactionCall(job)
    <3>1. Len(job.bytes) \in 2 .. 255
      BY <2>2 DEF TransactionCall
    <3>2. Len(job.bytes) > 0
      BY ONLY <3>1, PairBound
    <3> QED
      BY <3>2
  <2>3. CASE ~TransactionCall(job)
    BY <2>1, <2>3 DEF WriteCall, WriteStreamCall, ReadCall
  <2> QED
    BY <2>2, <2>3
<1>2. Heard("idle")
  BY SilentHears DEF Silent
<1>3. Seen("idle")
  BY DEF Seen
<1>4. Opening("idle")
  BY <1>1 DEF Opening, FirstByte
<1>5. Stocked("idle")
  BY DEF Stocked, Again
<1> QED
  BY <1>2, <1>3, <1>4, <1>5 DEF Knows

LEMMA RestingFaults ==
  ASSUME LinesInv, FaultInv, Inv, BusClock, ~running
  PROVE  FaultInv'
<1>1. /\ OnBus /\ Wired /\ target.phase \in 0 .. 9 /\ RestsAt /\ job \in Jobs
      /\ InStore(job.program) /\ out_enable = {}
  BY DEF LinesInv, OnBus, RestsAt
<1>2. Next /\ job' = job
  BY BusPins
<1>3. FaultBase /\ FaultBase'
  BY <1>1, FaultBaseClock DEF FaultBase, FaultInv
<1>4. out_enable' = {} /\ out_value' = {} /\ (running' => pc' = 0)
  BY <1>1, <1>2, RestClock DEF Wired
<1>5. LineClock
  BY <1>1, <1>4, Lines
<1>6. SDA \notin target'.oe
  BY <1>4, <1>5 DEF LineClock, Wired
<1>7. CASE run_prev
  <2>1. run_prev' /\ ~running' /\ fault' = fault
    BY <1>1, <1>2, <1>7, RestsClock
  <2>2. fault' => Excusable'
    BY <1>5, <1>6, <2>1, ExcuseLasts DEF FaultInv
  <2> QED
    BY <1>3, <2>1, <2>2 DEF FaultInv, FaultBase
<1>8. CASE ~run_prev /\ ~run
  <2>1. ~running' /\ ~fault'
    BY <1>1, <1>2, <1>8, ThreeClocks DEF Stopped, Abort
  <2> QED
    BY <1>3, <2>1 DEF FaultInv, FaultBase
<1>9. CASE ~run_prev /\ run
  <2>1. Start
    BY <1>1, <1>2, <1>9, ThreeClocks
  <2>2. /\ job.program \in Seq(Words) /\ DOMAIN Labels = DOMAIN job.program
        /\ Labels[1] = "idle" /\ 1 \in DOMAIN Labels
    BY <1>1, JobIsTyped DEF Typed, InStore
  <2>3. length # 0
    BY <1>1, <2>2 DEF InStore, Stored
  <2>4. running' /\ stream_enabled' = FALSE /\ pc' = 0 /\ tx' = Cleared(tx)
    BY <1>3, <2>1, <2>3 DEF Start, BadImage, FaultBase, ClearExecution, ClearQueues
  <2>5. Empty(tx')
    BY <2>4 DEF Cleared, Empty
  <2>6. unsent' = job'.bytes
    BY <1>3, <2>4 DEF FaultBase
  <2>7. Here' = "idle"
    <3>1. Labels' = Labels
      BY <1>2 DEF Labels, Streaming
    <3> QED
      BY <2>2, <2>4, <3>1 DEF Here, Label
  <2>8. (job \in Jobs)' /\ (Empty(tx))' /\ (unsent = job.bytes)' /\ (pc = 0)'
    BY <1>1, <1>2, <2>4, <2>5, <2>6 DEF Empty
  <2>9. Knows("idle")' /\ Stocked("idle")'
    BY <2>8, KnowsStart, PTL
  <2>10. Knows(Here)' /\ Stocked(Here)'
    BY <2>7, <2>9, KnowsHere
  <2> QED
    BY <1>3, <2>4, <2>10 DEF FaultInv, FaultBase
<1> QED
  BY <1>7, <1>8, <1>9

LEMMA InitialFaults == BusInit => FaultInv
<1> SUFFICES ASSUME BusInit PROVE FaultInv
  OBVIOUS
<1>1. Loaded(job.program) /\ TargetInit /\ unsent = job.bytes
  BY DEF BusInit, BenchInit
<1>2. target.bits \in Nat
  BY <1>1 DEF TargetInit
<1> QED
  BY <1>1, <1>2 DEF Loaded, ResetEngine, FaultInv

LEMMA StillFaults ==
  ASSUME FaultInv, UNCHANGED i2cVars
  PROVE  FaultInv'
<1>1. UNCHANGED <<vars, job, unsent, target, told>>
  BY DEF i2cVars, benchVars
<1>2. /\ input_meta' = input_meta /\ input_sync' = input_sync /\ run_prev' = run_prev
      /\ running' = running /\ fault' = fault /\ pc' = pc /\ delay_left' = delay_left
      /\ loop_count' = loop_count /\ byte_count' = byte_count /\ tx_shift' = tx_shift
      /\ last_tx_bit' = last_tx_bit /\ stream_enabled' = stream_enabled /\ tx' = tx
      /\ byte_index' = byte_index /\ loader_error' = loader_error
      /\ job' = job /\ unsent' = unsent /\ target' = target /\ told' = told
  BY <1>1 DEF vars, syncVars, loaderVars, statusVars, shiftVars, streamVars, queueVars
<1>3. Here' = Here /\ (FirstByte <=> FirstByte') /\ (Fair <=> Fair') /\ (Excused <=> Excused')
  BY <1>2 DEF Here, Label, Labels, Streaming, FirstByte, Empty, Front, Fair, Excused
<1>4. PICK l : l = Here
  OBVIOUS
<1>5. Seen(l) => Seen(l)'
  BY <1>2 DEF Seen, Settles, Settled
<1>6. Stocked(l) => Stocked(l)'
  BY <1>2 DEF Stocked, Streaming
<1>7. Opening(l) => Opening(l)'
  BY <1>2, <1>3 DEF Opening
<1>8. /\ Talks <=> Talks'
      /\ Opens <=> Opens'
      /\ Says <=> Says'
      /\ Granted <=> Granted'
  BY <1>2, <1>3 DEF Talks, Opens, Says, Granted
<1>9. /\ \A c : Even(c) <=> Even(c)'
      /\ \A c : Rest(c) <=> Rest(c)'
  BY <1>2 DEF Even, Rest
<1>10. Turns(l) => Turns(l)'
  BY <1>2, <1>3, <1>8, <1>9 DEF Turns
<1>11. Shifts(l) => Shifts(l)'
  BY <1>2, <1>8 DEF Shifts, Even, Rest
<1>12. Acks(l) => Acks(l)'
  BY <1>2, <1>8 DEF Acks
<1>13. running => Knows(Here)' /\ Stocked(Here)'
  <2>1. running => Knows(l) /\ Stocked(l)
    BY <1>4 DEF FaultInv
  <2>2. running => Knows(l)' /\ Stocked(l)'
    BY <1>3, <1>5, <1>6, <1>7, <1>10, <1>11, <1>12, <2>1 DEF Knows, Heard
  <2> QED
    BY <1>3, <1>4, <2>2, KnowsHere
<1> QED
  BY <1>2, <1>3, <1>13 DEF FaultInv, Excusable

\* The clock may be stretched at any of its releases for as long as the limit allows and
\* no longer, and nothing but a stretch beyond it, a NACK or a rival is a fault, for every
\* program, limit and byte (tools/streaming.py:99-117, 146-199).
THEOREM StretchIsExact == BusSpec => []StretchLimitExact
<1>1. BusInit => LinesInv /\ Inv /\ FaultInv
  <2>1. ASSUME BusInit PROVE Inv
    <3>1. job \in Jobs /\ Loaded(job.program)
      BY <2>1 DEF BusInit, BenchInit
    <3>2. /\ job.program \in [1 .. Len(job.program) -> Words]
          /\ Len(job.program) \in 0 .. MemWords
      BY <3>1, BenchAssumption, MemAssumption
    <3> QED
      BY <3>1, <3>2, LoadedInv
  <2> QED
    BY <2>1, InitialLines, InitialFaults
<1>2. LinesInv /\ Inv /\ FaultInv /\ [BusClock]_i2cVars => (LinesInv /\ Inv /\ FaultInv)'
  <2> SUFFICES ASSUME LinesInv, Inv, FaultInv, [BusClock]_i2cVars
               PROVE  (LinesInv /\ Inv /\ FaultInv)'
    OBVIOUS
  <2>1. LinesInv'
    BY LinesStep
  <2>2. Inv'
    BY BusPins, NextInv DEF i2cVars, benchVars
  <2>3. FaultInv'
    BY RestingFaults, RunningFaults, StillFaults
  <2> QED
    BY <2>1, <2>2, <2>3
<1>3. LinesInv /\ FaultInv => StretchLimitExact
  BY DEF LinesInv, RunsAt, RestsAt, FaultInv, Excusable, Fair, StretchLimitExact, Idle
<1> QED
  BY <1>1, <1>2, <1>3, PTL DEF BusSpec

===================================================================================
