------------------------ MODULE BridgeReleaseProofs ------------------------
(***************************************************************************)
(* Proofs about two components that share nothing but this module.         *)
(*                                                                         *)
(* The simulator bridge, for every telemetry and every threshold: spoofing *)
(* that shows in two signals is caught, an outcome is judged once for each *)
(* alert, and what is forgiven was quiet.                                  *)
(*                                                                         *)
(* The release, for every set of revisions, gaps and measurements: what is *)
(* in production passed its gates, a relapse blocks, and the two readers   *)
(* of the POA&M differ by the labels one of them does not know; and the    *)
(* continuous authorisation, for every set of rules: it is given or at     *)
(* risk and nothing between.                                               *)
(***************************************************************************)
EXTENDS SimBridge, ReleasePipeline, ContinuousAto, FiniteSetTheorems, TLAPS

-----------------------------------------------------------------------------
(* The detector.  The window of an anomaly counts the records since the    *)
(* last one down, and whoever met two signals has fired.                   *)

Detectors ==
  [last_eph : Ephs \cup {NoEph}, ekf_signal : BOOLEAN, ekf_ttl : 0..CorrWindow,
   eph_jumped : BOOLEAN, few : BOOLEAN, fired : BOOLEAN, clean_streak : 0..RearmAfter]

(* What holds of a detector d, n records after the last anomaly. *)
Counts(d, n) ==
  /\ d \in Detectors /\ n \in 0..CorrWindow
  /\ d.ekf_ttl = IF n < CorrWindow THEN CorrWindow - 1 - n ELSE 0
  /\ d.ekf_signal <=> d.ekf_ttl > 0

DetectorInv ==
  /\ DOMAIN heard = {"since_anomaly", "degraded", "spoofed"}
  /\ Counts(detector, heard.since_anomaly)
  /\ heard.degraded = detector.few
  /\ detector.ekf_signal /\ GpsSignals(detector) => detector.fired

(* The windows.  The alerts are in learned, queue and pending one after    *)
(* the other; an older window is a longer one, so that only the oldest     *)
(* fills up; and a threat that was heard is in every window it concerns.   *)

PendingWindows == [alert : Nat, records : Seq(BOOLEAN)]
QueuedItems == [alert : Nat, assessed : Assessments, observations : Nat]
Lessons == [alert : Nat, verdict : {"tp", "fp", "inconclusive"}]

Placed ==
  /\ raised \in Nat
  /\ pending \in Seq(PendingWindows) /\ queue \in Seq(QueuedItems) /\ learned \in Seq(Lessons)
  /\ Len(learned) + Len(queue) + Len(pending) = raised
  /\ \A i \in DOMAIN learned : learned[i].alert = i
  /\ \A i \in DOMAIN queue : queue[i].alert = Len(learned) + i
  /\ \A i \in DOMAIN pending : pending[i].alert = Len(learned) + Len(queue) + i

WindowInv ==
  /\ \A i \in DOMAIN pending : Len(pending[i].records) < OutcomeWindow
  /\ \A i, j \in DOMAIN pending : i < j => Len(pending[j].records) < Len(pending[i].records)

ThreatInv ==
  /\ DOMAIN heard = {"since_anomaly", "degraded", "spoofed"}
  /\ heard.spoofed \subseteq 1..raised
  /\ \A i \in DOMAIN pending :
       pending[i].alert \in heard.spoofed =>
         \E k \in DOMAIN pending[i].records : pending[i].records[k]
  /\ \A i \in DOMAIN queue :
       queue[i].assessed = "confirmed_fp" => queue[i].alert \notin heard.spoofed
  /\ ForgivenIsQuiet

BridgeInv == Placed /\ WindowInv /\ ThreatInv

LEMMA LeastOf ==
  ASSUME NEW m \in Int, NEW n \in Int
  PROVE  Least(m, n) \in {m, n} /\ Least(m, n) <= m /\ Least(m, n) <= n
BY DEF Least

LEMMA UpdatedDetector ==
  ASSUME NEW d \in Detectors, NEW r \in TelemetryRecords
  PROVE  /\ Updated(d, r) \in Detectors
         /\ IF r.type = "EKF_STATUS_REPORT" /\ r.anomaly
            THEN Updated(d, r).ekf_signal /\ Updated(d, r).ekf_ttl = CorrWindow
            ELSE Updated(d, r).ekf_signal = d.ekf_signal /\ Updated(d, r).ekf_ttl = d.ekf_ttl
         /\ Updated(d, r).few = IF r.type = "GPS_RAW_INT" THEN r.few ELSE d.few
<1>1. CASE r \in EkfRecords
  <2>1. r.type = "EKF_STATUS_REPORT" /\ r.anomaly \in BOOLEAN
    BY <1>1 DEF EkfRecords
  <2>2. CorrWindow \in 0..CorrWindow
    BY BridgeAssumption
  <2>. QED  BY <2>1, <2>2 DEF Updated, UpdateEkf, Detectors
<1>2. CASE r \in GpsRecords
  <2>1. r.type = "GPS_RAW_INT" /\ r.few \in BOOLEAN /\ r.eph \in Ephs \cup {NoEph}
    BY <1>2 DEF GpsRecords
  <2>2. Jumped(d, r) \in BOOLEAN
    BY DEF Jumped
  <2> DEFINE j == Jumped(d, r)
  <2>3. Updated(d, r) = [d EXCEPT !.last_eph = IF r.eph = NoEph THEN d.last_eph ELSE r.eph,
                                  !.eph_jumped = j, !.few = r.few]
    BY <2>1 DEF Updated, UpdateGps
  <2> HIDE DEF j
  <2>4. j \in BOOLEAN
    BY <2>2 DEF j
  <2>. QED  BY <2>1, <2>3, <2>4 DEF Detectors
<1>. QED  BY <1>1, <1>2 DEF TelemetryRecords

LEMMA AgedDetector ==
  ASSUME NEW d \in Detectors
  PROVE  /\ Aged(d) \in Detectors /\ Aged(d).few = d.few
         /\ Aged(d).ekf_ttl = IF d.ekf_ttl > 0 THEN d.ekf_ttl - 1 ELSE 0
         /\ Aged(d).ekf_signal <=> d.ekf_signal /\ d.ekf_ttl # 1
<1>1. d.ekf_ttl \in 0..CorrWindow /\ CorrWindow \in Nat
  BY BridgeAssumption DEF Detectors
<1>2. (IF d.ekf_ttl > 0 THEN d.ekf_ttl - 1 ELSE d.ekf_ttl) \in 0..CorrWindow
  BY <1>1
<1> DEFINE t == IF d.ekf_ttl > 0 THEN d.ekf_ttl - 1 ELSE d.ekf_ttl
           e == d.ekf_signal /\ d.ekf_ttl # 1
<1>3. Aged(d) = [d EXCEPT !.ekf_ttl = t, !.ekf_signal = e] /\ e \in BOOLEAN
  BY DEF Aged
<1>4. t = IF d.ekf_ttl > 0 THEN d.ekf_ttl - 1 ELSE 0
  BY <1>1
<1>5. e <=> d.ekf_signal /\ d.ekf_ttl # 1
  OBVIOUS
<1> HIDE DEF t, e
<1>6. t \in 0..CorrWindow
  BY <1>2 DEF t
<1>7. /\ Aged(d) \in Detectors /\ Aged(d).few = d.few
      /\ Aged(d).ekf_ttl = t /\ Aged(d).ekf_signal = e
  BY <1>3, <1>6 DEF Detectors
<1>. QED  BY <1>4, <1>5, <1>7

LEMMA RearmedDetector ==
  ASSUME NEW d \in Detectors
  PROVE  /\ Rearmed(d) \in Detectors /\ Rearmed(d).few = d.few
         /\ Rearmed(d).ekf_ttl = d.ekf_ttl /\ Rearmed(d).ekf_signal = d.ekf_signal
         /\ Rearmed(d).eph_jumped = d.eph_jumped
<1> DEFINE n == Least(d.clean_streak + 1, RearmAfter)
<1>1. d.clean_streak \in 0..RearmAfter /\ RearmAfter \in Nat
  BY BridgeAssumption DEF Detectors
<1>2. n \in 0..RearmAfter /\ 0 \in 0..RearmAfter
  BY <1>1 DEF Least
<1>3. \/ Rearmed(d) = [d EXCEPT !.clean_streak = 0]
      \/ Rearmed(d) = [d EXCEPT !.clean_streak = n, !.fired = d.fired /\ n < RearmAfter]
  BY DEF Rearmed
<1> HIDE DEF n
<1>. QED  BY <1>2, <1>3 DEF Detectors

LEMMA SensedCounts ==
  ASSUME NEW d, NEW n, Counts(d, n), NEW r \in TelemetryRecords
  PROVE  /\ Counts(Sensed(d, r),
                   IF r.type = "EKF_STATUS_REPORT" /\ r.anomaly THEN 0
                   ELSE Least(n + 1, CorrWindow))
         /\ Sensed(d, r).few = IF r.type = "GPS_RAW_INT" THEN r.few ELSE d.few
<1> DEFINE u == Updated(d, r)
           a == Aged(u)
           s == Rearmed(a)
<1>1. d \in Detectors
  BY DEF Counts
<1>2. /\ u \in Detectors
      /\ IF r.type = "EKF_STATUS_REPORT" /\ r.anomaly
         THEN u.ekf_signal /\ u.ekf_ttl = CorrWindow
         ELSE u.ekf_signal = d.ekf_signal /\ u.ekf_ttl = d.ekf_ttl
      /\ u.few = IF r.type = "GPS_RAW_INT" THEN r.few ELSE d.few
  BY <1>1, UpdatedDetector
<1> HIDE DEF u
<1>3. /\ a \in Detectors /\ a.few = u.few
      /\ a.ekf_ttl = IF u.ekf_ttl > 0 THEN u.ekf_ttl - 1 ELSE 0
      /\ a.ekf_signal <=> u.ekf_signal /\ u.ekf_ttl # 1
  BY <1>2, AgedDetector
<1> HIDE DEF a
<1>4. /\ s \in Detectors /\ s.few = a.few
      /\ s.ekf_ttl = a.ekf_ttl /\ s.ekf_signal = a.ekf_signal
  BY <1>3, RearmedDetector
<1>5. Sensed(d, r) = s
  BY DEF Sensed, s, a, u
<1> HIDE DEF s
<1>6. CorrWindow \in Nat \ {0} /\ n \in 0..CorrWindow
  BY BridgeAssumption DEF Counts
<1>7. CASE r.type = "EKF_STATUS_REPORT" /\ r.anomaly
  <2>1. s.ekf_ttl = CorrWindow - 1
    BY <1>2, <1>3, <1>4, <1>6, <1>7
  <2>2. s.ekf_signal <=> CorrWindow # 1
    BY <1>2, <1>3, <1>4, <1>7
  <2>. QED  BY <1>2, <1>3, <1>4, <1>5, <1>6, <1>7, <2>1, <2>2 DEF Counts
<1>8. CASE ~(r.type = "EKF_STATUS_REPORT" /\ r.anomaly)
  <2> DEFINE m == Least(n + 1, CorrWindow)
  <2>1. m \in 0..CorrWindow /\ m = IF n < CorrWindow THEN n + 1 ELSE CorrWindow
    BY <1>6 DEF Least
  <2> HIDE DEF m
  <2>2. /\ d.ekf_ttl = IF n < CorrWindow THEN CorrWindow - 1 - n ELSE 0
        /\ d.ekf_signal <=> d.ekf_ttl > 0
    BY DEF Counts
  <2>3. s.ekf_ttl = IF m < CorrWindow THEN CorrWindow - 1 - m ELSE 0
    BY <1>2, <1>3, <1>4, <1>6, <1>8, <2>1, <2>2
  <2>4. s.ekf_signal <=> d.ekf_ttl > 0 /\ d.ekf_ttl # 1
    BY <1>2, <1>3, <1>4, <1>8, <2>2
  <2>5. s.ekf_signal <=> s.ekf_ttl > 0
    BY <1>6, <2>1, <2>2, <2>3, <2>4
  <2>6. Counts(s, m)
    BY <1>4, <2>1, <2>3, <2>5 DEF Counts
  <2>. QED  BY <1>2, <1>3, <1>4, <1>5, <1>8, <2>6 DEF m
<1>. QED  BY <1>7, <1>8

LEMMA ObservedCounts ==
  ASSUME NEW d, NEW n, Counts(d, n)
  PROVE  /\ Counts(Observed(d), n) /\ Observed(d).few = d.few
         /\ Observed(d).ekf_signal /\ GpsSignals(Observed(d)) => Observed(d).fired
<1>1. d \in Detectors
  BY DEF Counts
<1>2. (d.fired \/ Detects(d)) \in BOOLEAN
  BY DEF Detects
<1> DEFINE f == d.fired \/ Detects(d)
<1>3. Observed(d) = [d EXCEPT !.fired = f]
  BY DEF Observed
<1> HIDE DEF f
<1>4. /\ Observed(d) \in Detectors /\ Observed(d).fired = f /\ Observed(d).few = d.few
      /\ Observed(d).eph_jumped = d.eph_jumped
      /\ Observed(d).ekf_signal = d.ekf_signal /\ Observed(d).ekf_ttl = d.ekf_ttl
  BY <1>1, <1>2, <1>3 DEF Detectors, f
<1>5. Counts(Observed(d), n)
  BY <1>4 DEF Counts
<1>6. d.ekf_signal /\ GpsSignals(d) => f
  BY <1>1 DEF f, Detects, Detectors
<1>. QED  BY <1>4, <1>5, <1>6 DEF GpsSignals

LEMMA TakeDetects ==
  ASSUME DetectorInv, NEW r \in TelemetryRecords, NEW alerts,
         Take(r, Sensed(detector, r), alerts)
  PROVE  DetectorInv'
<1> DEFINE s == Sensed(detector, r)
           n == IF r.type = "EKF_STATUS_REPORT" /\ r.anomaly THEN 0
                ELSE Least(heard.since_anomaly + 1, CorrWindow)
<1>1. Counts(s, n) /\ s.few = IF r.type = "GPS_RAW_INT" THEN r.few ELSE detector.few
  BY SensedCounts DEF DetectorInv
<1>2. /\ DOMAIN heard' = {"since_anomaly", "degraded", "spoofed"}
      /\ heard'.since_anomaly = n
      /\ heard'.degraded = IF r.type = "GPS_RAW_INT" THEN r.few ELSE heard.degraded
      /\ detector' = Observed(s)
  BY DEF Take, Hear
<1> HIDE DEF s, n
<1>3. /\ Counts(detector', n) /\ detector'.few = s.few
      /\ detector'.ekf_signal /\ GpsSignals(detector') => detector'.fired
  BY <1>1, <1>2, ObservedCounts
<1>. QED  BY <1>1, <1>2, <1>3 DEF DetectorInv

LEMMA QuietCounts ==
  Counts(Quiet, CorrWindow) /\ Quiet.few = FALSE /\ ~Quiet.ekf_signal
BY BridgeAssumption DEF Counts, Quiet, Detectors

LEMMA InitDetector == BridgeInit => DetectorInv
<1> SUFFICES ASSUME BridgeInit PROVE DetectorInv
  OBVIOUS
<1>1. /\ detector = Quiet /\ heard.since_anomaly = CorrWindow /\ heard.degraded = FALSE
      /\ DOMAIN heard = {"since_anomaly", "degraded", "spoofed"}
  BY DEF BridgeInit, Unheard
<1>. QED  BY <1>1, QuietCounts DEF DetectorInv

LEMMA NextDetector == DetectorInv /\ [BridgeNext]_bridge => DetectorInv'
<1> SUFFICES ASSUME DetectorInv, [BridgeNext]_bridge PROVE DetectorInv'
  OBVIOUS
<1>1. CASE Receive
  BY <1>1, TakeDetects DEF Receive, Process
<1>2. CASE RunFails
  BY <1>2, TakeDetects DEF RunFails, ProcessRaises
<1>3. ASSUME UNCHANGED <<detector, heard>> PROVE DetectorInv'
  BY <1>3 DEF DetectorInv
<1>4. CASE FlushPending
  BY <1>3, <1>4 DEF FlushPending
<1>5. CASE Poll
  BY <1>3, <1>5 DEF Poll
<1>6. CASE Reset
  BY <1>6, QuietCounts DEF Reset, DetectorInv, Unheard
<1>7. CASE UNCHANGED bridge
  BY <1>3, <1>7 DEF bridge
<1>8. CASE StreamEnds \/ RunStream
  BY <1>3, <1>8 DEF StreamEnds, RunStream
<1>. QED  BY <1>1, <1>2, <1>4, <1>5, <1>6, <1>7, <1>8 DEF BridgeNext

(* An EKF anomaly and few satellites within the window of the detector are *)
(* caught, whatever came between them and whichever came first, also when  *)
(* a run of the pipeline raises (sim_bridge/detector.py).                  *)
THEOREM SpoofingIsCaught == BridgeSpec => []CorrelatedIsCaught
<1>1. DetectorInv => CorrelatedIsCaught
  <2> SUFFICES ASSUME DetectorInv, heard.since_anomaly <= CorrWindow - 2, heard.degraded
               PROVE  detector.fired
    BY DEF CorrelatedIsCaught
  <2>1. detector.ekf_ttl > 0
    BY BridgeAssumption DEF DetectorInv, Counts
  <2>. QED  BY <2>1 DEF DetectorInv, Counts, GpsSignals
<1>. QED  BY <1>1, InitDetector, NextDetector, PTL DEF BridgeSpec

-----------------------------------------------------------------------------
(* What stands at an interval of positions. *)
Part(s, c, b) == [n \in 1..(b - c) |-> s[c + n]]

LEMMA AtInterval ==
  ASSUME NEW s, NEW c \in Nat, NEW b \in Nat, c <= b
  PROVE  At(s, (c + 1)..b) = Part(s, c, b)
<1> DEFINE a == c + 1
<1>1. \A k \in Nat : k + 1 >= a => Cardinality(a..k) = k - a + 1
  <2> SUFFICES ASSUME NEW k \in Nat, k + 1 >= a PROVE Cardinality(a..k) = k - a + 1
    OBVIOUS
  <2>1. Cardinality(a..k) = IF a > k THEN 0 ELSE k - a + 1
    <3>1. a \in Int /\ k \in Int
      OBVIOUS
    <3>. QED  BY <3>1, FS_Interval
  <2>. QED  BY <2>1
<1>2. ASSUME NEW n \in 1..(b - a + 1) PROVE Nth(a..b, n) = a + n - 1
  <2>1. \A k \in a..b : Cardinality({j \in a..b : j <= k}) = k - a + 1
    <3> SUFFICES ASSUME NEW k \in a..b PROVE Cardinality({j \in a..b : j <= k}) = k - a + 1
      OBVIOUS
    <3>1. {j \in a..b : j <= k} = a..k /\ k \in Nat /\ k + 1 >= a
      OBVIOUS
    <3>. QED  BY <1>1, <3>1
  <2>2. a + n - 1 \in a..b
    OBVIOUS
  <2>3. \A k \in a..b : k - a + 1 = n <=> k = a + n - 1
    OBVIOUS
  <2> HIDE DEF a
  <2>. QED  BY <2>1, <2>2, <2>3 DEF Nth
<1>3. Cardinality(a..b) = b - a + 1
  BY <1>1
<1>4. b - a + 1 = b - c /\ \A n \in 1..(b - c) : a + n - 1 = c + n
  OBVIOUS
<1> HIDE DEF a
<1>5. At(s, a..b) = [n \in 1..(b - c) |-> s[c + n]]
  BY <1>2, <1>3, <1>4 DEF At
<1>. QED  BY <1>5 DEF a, Part

LEMMA GrownWindows ==
  ASSUME NEW ps \in Seq(PendingWindows), NEW r, NEW t \in BOOLEAN, t = ThreatPresent(r)
  PROVE  /\ Grown(ps, r) \in Seq(PendingWindows) /\ Len(Grown(ps, r)) = Len(ps)
         /\ \A i \in 1..Len(ps) :
              /\ ps[i] \in PendingWindows
              /\ Grown(ps, r)[i] \in PendingWindows
              /\ Grown(ps, r)[i].alert = ps[i].alert
              /\ Grown(ps, r)[i].records = Append(ps[i].records, t)
<1>1. \A i \in 1..Len(ps) : ps[i] \in PendingWindows
  OBVIOUS
<1> DEFINE g(i) == [ps[i] EXCEPT !.records = Append(ps[i].records, t)]
<1>2. Len(ps) \in Nat /\ Grown(ps, r) = [i \in 1..Len(ps) |-> g(i)]
  BY DEF Grown
<1>3. ASSUME NEW i \in 1..Len(ps)
      PROVE  /\ g(i) \in PendingWindows /\ g(i).alert = ps[i].alert
             /\ g(i).records = Append(ps[i].records, t)
  <2>1. ps[i].records \in Seq(BOOLEAN) /\ ps[i] \in PendingWindows
    BY <1>1 DEF PendingWindows
  <2>2. Append(ps[i].records, t) \in Seq(BOOLEAN)
    BY <2>1
  <2>. QED  BY <2>1, <2>2 DEF PendingWindows
<1> HIDE DEF g, PendingWindows
<1>4. Grown(ps, r) \in Seq(PendingWindows) /\ Len(Grown(ps, r)) = Len(ps)
  BY <1>2, <1>3
<1>5. \A i \in 1..Len(ps) : Grown(ps, r)[i] = g(i)
  BY <1>2
<1>. QED  BY <1>1, <1>3, <1>4, <1>5

(* Only the oldest window fills up. *)
LEMMA OldestFills ==
  ASSUME Placed, WindowInv, NEW r, ThreatPresent(r) \in BOOLEAN
  PROVE  \E c \in {0, 1} :
           LET grown == Grown(pending, r) IN
           /\ c <= Len(pending)
           /\ Completed(grown) = [n \in 1..c |-> grown[n]]
           /\ Growing(grown) = [n \in 1..(Len(pending) - c) |-> grown[c + n]]
           /\ \A i \in 1..Len(pending) : Complete(grown[i]) <=> i <= c
<1> DEFINE grown == Grown(pending, r)
           L == Len(pending)
<1>1. pending \in Seq(PendingWindows) /\ L \in Nat
  BY DEF Placed
<1>2. /\ grown \in Seq(PendingWindows) /\ Len(grown) = L
      /\ \A i \in 1..L :
           /\ pending[i] \in PendingWindows
           /\ grown[i].records = Append(pending[i].records, ThreatPresent(r))
  BY <1>1, GrownWindows
<1>3. \A i \in 1..L : /\ Len(pending[i].records) \in Nat
                      /\ Len(grown[i].records) = Len(pending[i].records) + 1
  <2> SUFFICES ASSUME NEW i \in 1..L
               PROVE  /\ Len(pending[i].records) \in Nat
                      /\ Len(grown[i].records) = Len(pending[i].records) + 1
    OBVIOUS
  <2>1. pending[i].records \in Seq(BOOLEAN)
    BY <1>2 DEF PendingWindows
  <2> HIDE DEF grown, L
  <2>. QED  BY <1>2, <2>1
<1>4. \A i \in 1..L : i # 1 => ~Complete(grown[i])
  <2> SUFFICES ASSUME NEW i \in 1..L, i # 1 PROVE ~Complete(grown[i])
    OBVIOUS
  <2>1. 1 \in DOMAIN pending /\ i \in DOMAIN pending /\ 1 < i
    BY <1>1
  <2>2. Len(pending[i].records) < Len(pending[1].records)
        /\ Len(pending[1].records) < OutcomeWindow
    BY <2>1 DEF WindowInv
  <2>3. /\ Len(pending[i].records) \in Nat /\ Len(pending[1].records) \in Nat
        /\ Len(grown[i].records) = Len(pending[i].records) + 1
    BY <1>1, <1>3, <2>1
  <2>4. OutcomeWindow \in Nat
    BY BridgeAssumption
  <2> HIDE DEF grown
  <2>. QED  BY <2>2, <2>3, <2>4 DEF Complete
<1> DEFINE c == IF L > 0 /\ Complete(grown[1]) THEN 1 ELSE 0
<1>5. c \in {0, 1} /\ c <= L /\ \A i \in 1..L : Complete(grown[i]) <=> i <= c
  <2> HIDE DEF grown, L
  <2>. QED  BY <1>1, <1>4
<1> HIDE DEF grown, c, L
<1>6. DOMAIN grown = 1..L
  BY <1>1, <1>2
<1>7. /\ {i \in DOMAIN grown : Complete(grown[i])} = 1..c
      /\ {i \in DOMAIN grown : ~Complete(grown[i])} = (c + 1)..L
  BY <1>1, <1>5, <1>6
<1>8. Completed(grown) = [n \in 1..c |-> grown[n]]
  <2>1. At(grown, (0 + 1)..c) = Part(grown, 0, c)
    <3>1. c \in Nat /\ 0 \in Nat /\ 0 <= c
      BY <1>5
    <3>. QED  BY <3>1, AtInterval
  <2>2. c - 0 = c /\ 0 + 1 = 1 /\ \A n \in 1..c : 0 + n = n
    BY <1>5
  <2>. QED  BY <1>7, <2>1, <2>2 DEF Completed, Part
<1>9. Growing(grown) = [n \in 1..(L - c) |-> grown[c + n]]
  <2>1. At(grown, (c + 1)..L) = Part(grown, c, L)
    <3>1. c \in Nat
      BY <1>5
    <3>. QED  BY <1>1, <1>5, <3>1, AtInterval
  <2>. QED  BY <1>7, <2>1 DEF Growing, Part
<1>. QED  BY <1>5, <1>8, <1>9 DEF grown, L

LEMMA AssessType == ASSUME NEW w PROVE Assess(w) \in Assessments
BY DEF Assess, Assessments

LEMMA ForgivenWindow ==
  ASSUME NEW w \in Seq(BOOLEAN), Assess(w) = "confirmed_fp"
  PROVE  \A k \in DOMAIN w : ~w[k]
<1>1. SUFFICES ASSUME NEW k \in DOMAIN w, w[k] PROVE FALSE
  OBVIOUS
<1>2. k - 1 \in 0..(Len(w) - 1) /\ \A j \in 1..1 : w[(k - 1) + j]
  BY <1>1
<1>3. HasRun(w, 1)
  BY <1>2 DEF HasRun
<1>4. ~HasRun(w, 1)
  BY DEF Assess
<1>. QED  BY <1>3, <1>4

LEMMA Threats == ASSUME NEW r \in TelemetryRecords PROVE ThreatPresent(r) \in BOOLEAN
BY DEF TelemetryRecords, EkfRecords, GpsRecords, ThreatPresent

LEMMA ItemOf ==
  ASSUME NEW p \in PendingWindows
  PROVE  OutcomeItem(p) \in QueuedItems
<1>1. Len(p.records) \in Nat /\ p.alert \in Nat
  BY DEF PendingWindows
<1>. QED  BY <1>1, AssessType DEF OutcomeItem, QueuedItems

(* The alert of a record, if there is one. *)
Raises(alerts) == alerts \in {<<>>, <<[alert |-> raised + 1, records |-> <<>>]>>}

LEMMA TakeWindows ==
  ASSUME BridgeInv, NEW r \in TelemetryRecords, NEW s, NEW alerts, Raises(alerts),
         Take(r, s, alerts)
  PROVE  BridgeInv'
<1> DEFINE grown == Grown(pending, r)
           t == ThreatPresent(r)
           L == Len(pending)
           Q == Len(queue)
           M == Len(alerts)
<1>1. /\ L \in Nat /\ Q \in Nat /\ Len(learned) \in Nat /\ raised \in Nat
      /\ pending \in Seq(PendingWindows) /\ queue \in Seq(QueuedItems)
      /\ learned \in Seq(Lessons)
      /\ Len(learned) + Q + L = raised /\ t \in BOOLEAN
  BY Threats DEF BridgeInv, Placed
<1>2. /\ M \in {0, 1} /\ alerts \in Seq(PendingWindows) /\ DOMAIN alerts = 1..M
      /\ M = 1 => alerts[1].alert = raised + 1 /\ alerts[1].records = <<>>
  <2> DEFINE new == [alert |-> raised + 1, records |-> <<>>]
  <2>1. new \in PendingWindows
    BY <1>1 DEF PendingWindows
  <2>2. new.alert = raised + 1 /\ new.records = <<>>
    OBVIOUS
  <2>3. alerts = <<>> \/ alerts = <<new>>
    BY DEF Raises
  <2> HIDE DEF new, PendingWindows
  <2>4. CASE alerts = <<>>
    BY <2>4
  <2>5. CASE alerts = <<new>>
    BY <2>1, <2>2, <2>5
  <2>. QED  BY <2>3, <2>4, <2>5
<1>3. /\ grown \in Seq(PendingWindows) /\ Len(grown) = L
      /\ \A i \in 1..L : /\ pending[i] \in PendingWindows /\ grown[i] \in PendingWindows
                         /\ grown[i].alert = pending[i].alert
                         /\ grown[i].records = Append(pending[i].records, t)
  BY <1>1, GrownWindows
<1>4. PICK c \in {0, 1} :
        /\ c <= L
        /\ Completed(grown) = [n \in 1..c |-> grown[n]]
        /\ Growing(grown) = [n \in 1..(L - c) |-> grown[c + n]]
        /\ \A i \in 1..L : Complete(grown[i]) <=> i <= c
  BY <1>1, OldestFills DEF BridgeInv
<1>5. /\ pending' = Growing(grown) \o alerts
      /\ queue' = queue \o Items(Completed(grown))
      /\ raised' = raised + M /\ learned' = learned
      /\ DOMAIN heard' = {"since_anomaly", "degraded", "spoofed"}
      /\ heard'.spoofed = heard.spoofed \cup
                            (IF t THEN {pending[i].alert : i \in DOMAIN pending} ELSE {})
  BY DEF Take, Hear
<1> HIDE DEF grown, t, L, Q, M, PendingWindows, QueuedItems
<1>6. /\ pending' \in Seq(PendingWindows) /\ Len(pending') = L - c + M
      /\ \A i \in 1..(L - c) : pending'[i] = grown[c + i]
      /\ M = 1 => pending'[L - c + 1] = alerts[1]
  <2> DEFINE growing == [n \in 1..(L - c) |-> grown[c + n]]
  <2>1. L - c \in Nat /\ \A n \in 1..(L - c) : c + n \in 1..L
    BY <1>1, <1>4
  <2>2. growing \in Seq(PendingWindows) /\ Len(growing) = L - c
    BY <1>3, <2>1
  <2>3. \A n \in 1..(L - c) : growing[n] = grown[c + n]
    OBVIOUS
  <2>4. pending' = growing \o alerts
    BY <1>4, <1>5
  <2> HIDE DEF growing
  <2>5. /\ pending' \in Seq(PendingWindows) /\ Len(pending') = Len(growing) + Len(alerts)
        /\ \A i \in 1..Len(growing) : pending'[i] = growing[i]
    BY <1>2, <2>2, <2>4
  <2>6. \A k \in 1..Len(alerts) : pending'[Len(growing) + k] = alerts[k]
    BY <1>2, <2>2, <2>4
  <2>7. Len(alerts) = M
    BY DEF M
  <2>8. M = 1 => 1 \in 1..Len(alerts)
    BY <2>7
  <2>9. M = 1 => pending'[L - c + 1] = alerts[1]
    BY <2>2, <2>6, <2>8
  <2>. QED  BY <2>2, <2>3, <2>5, <2>7, <2>9
<1>7. /\ queue' \in Seq(QueuedItems) /\ Len(queue') = Q + c
      /\ \A i \in 1..Q : queue'[i] = queue[i]
      /\ c = 1 => queue'[Q + 1] = OutcomeItem(grown[1])
  <2> DEFINE full == [n \in 1..c |-> grown[n]]
             new == [i \in 1..c |-> OutcomeItem(grown[i])]
  <2>1. c \in Nat /\ \A n \in 1..c : n \in 1..L
    BY <1>1, <1>4
  <2>2. Items(full) = new
    BY DEF Items
  <2>3. \A n \in 1..c : OutcomeItem(grown[n]) \in QueuedItems
    BY <1>3, <2>1, ItemOf
  <2>4. new \in Seq(QueuedItems) /\ Len(new) = c
    BY <2>1, <2>3
  <2>5. c = 1 => new[1] = OutcomeItem(grown[1])
    OBVIOUS
  <2>6. queue' = queue \o new
    BY <1>4, <1>5, <2>2
  <2> HIDE DEF new, full
  <2>7. /\ queue' \in Seq(QueuedItems) /\ Len(queue') = Q + c
        /\ \A i \in 1..Q : queue'[i] = queue[i]
    BY <1>1, <2>4, <2>6 DEF Q
  <2>8. \A k \in 1..Len(new) : queue'[Len(queue) + k] = new[k]
    BY <1>1, <2>4, <2>6
  <2>9. c = 1 => queue'[Q + 1] = new[1]
    <3>1. c = 1 => 1 \in 1..Len(new)
      BY <2>4
    <3>. QED  BY <2>8, <3>1 DEF Q
  <2>. QED  BY <2>5, <2>7, <2>9
<1>8. \A i \in 1..L : pending[i].alert = Len(learned) + Q + i
  BY <1>1 DEF BridgeInv, Placed, L, Q
<1>9. \A i \in 1..(L - c + M) :
        \/ i \in 1..(L - c) /\ c + i \in 1..L /\ pending'[i] = grown[c + i]
        \/ M = 1 /\ i = L - c + 1 /\ pending'[i] = alerts[1]
  <2>1. /\ L \in Nat /\ c \in {0, 1} /\ M \in {0, 1} /\ c <= L
    BY <1>1, <1>2, <1>4
  <2>2. \A i \in 1..(L - c + M) :
          (i \in 1..(L - c) /\ c + i \in 1..L) \/ (M = 1 /\ i = L - c + 1)
    <3> SUFFICES ASSUME NEW i \in 1..(L - c + M), ~(i <= L - c)
                 PROVE  M = 1 /\ i = L - c + 1
      BY <2>1
    <3>. QED  BY <2>1
  <2>. QED  BY <1>6, <2>2
<1>10. \A i \in 1..(Q + c) :
         \/ i \in 1..Q /\ queue'[i] = queue[i]
         \/ c = 1 /\ i = Q + 1 /\ queue'[i] = OutcomeItem(grown[1]) /\ 1 \in 1..L
  <2>1. Q \in Nat /\ L \in Nat /\ c \in {0, 1} /\ c <= L
    BY <1>1, <1>4
  <2>2. \A i \in 1..(Q + c) : i \in 1..Q \/ (c = 1 /\ i = Q + 1 /\ 1 \in 1..L)
    BY <2>1
  <2>. QED  BY <1>7, <2>2
<1>11. DOMAIN pending' = 1..(L - c + M) /\ DOMAIN queue' = 1..(Q + c) /\ DOMAIN pending = 1..L
       /\ DOMAIN queue = 1..Q
  BY <1>1, <1>6, <1>7 DEF L, Q
<1>12. Placed'
  <2>1. raised' \in Nat /\ Len(learned) + Len(queue') + Len(pending') = raised'
    <3>1. /\ L \in Nat /\ Q \in Nat /\ Len(learned) \in Nat
          /\ Len(learned) + Q + L = raised /\ c \in {0, 1} /\ M \in {0, 1}
          /\ raised' = raised + M /\ Len(queue') = Q + c /\ Len(pending') = L - c + M
      BY <1>1, <1>2, <1>4, <1>5, <1>6, <1>7
    <3>. QED  BY <3>1
  <2>2. \A i \in DOMAIN learned' : learned'[i].alert = i
    BY <1>5 DEF BridgeInv, Placed
  <2>3. \A i \in DOMAIN queue' : queue'[i].alert = Len(learned) + i
    <3> SUFFICES ASSUME NEW i \in 1..(Q + c) PROVE queue'[i].alert = Len(learned) + i
      BY <1>11
    <3>1. CASE i \in 1..Q /\ queue'[i] = queue[i]
      BY <1>11, <3>1 DEF BridgeInv, Placed
    <3>2. CASE i = Q + 1 /\ queue'[i] = OutcomeItem(grown[1]) /\ 1 \in 1..L
      <4>1. OutcomeItem(grown[1]).alert = pending[1].alert
        BY <1>3, <3>2 DEF OutcomeItem
      <4>2. pending[1].alert = Len(learned) + Q + 1
        BY <1>8, <3>2
      <4>3. Q \in Nat /\ Len(learned) \in Nat
        BY <1>1
      <4>. QED  BY <3>2, <4>1, <4>2, <4>3
    <3>. QED  BY <1>10, <3>1, <3>2
  <2>4. \A i \in DOMAIN pending' : pending'[i].alert = Len(learned) + Len(queue') + i
    <3> SUFFICES ASSUME NEW i \in 1..(L - c + M)
                 PROVE  pending'[i].alert = Len(learned) + (Q + c) + i
      BY <1>7, <1>11
    <3>1. CASE i \in 1..(L - c) /\ c + i \in 1..L /\ pending'[i] = grown[c + i]
      <4>1. pending'[i].alert = Len(learned) + Q + (c + i)
        BY <1>3, <1>8, <3>1
      <4>. QED  BY <1>1, <1>4, <3>1, <4>1
    <3>2. CASE M = 1 /\ i = L - c + 1 /\ pending'[i] = alerts[1]
      <4>1. pending'[i].alert = raised + 1
        BY <1>2, <3>2
      <4>2. /\ L \in Nat /\ Q \in Nat /\ Len(learned) \in Nat
            /\ Len(learned) + Q + L = raised /\ c \in {0, 1} /\ i = L - c + 1
        BY <1>1, <1>4, <3>2
      <4>. QED  BY <4>1, <4>2
    <3>. QED  BY <1>9, <3>1, <3>2
  <2>. QED  BY <1>1, <1>5, <1>6, <1>7, <2>1, <2>2, <2>3, <2>4 DEF Placed
<1>13. \A i \in 1..L : /\ pending[i].records \in Seq(BOOLEAN)
                       /\ Len(pending[i].records) \in Nat
                       /\ Len(grown[i].records) = Len(pending[i].records) + 1
  <2> SUFFICES ASSUME NEW i \in 1..L
               PROVE  /\ pending[i].records \in Seq(BOOLEAN)
                      /\ Len(pending[i].records) \in Nat
                      /\ Len(grown[i].records) = Len(pending[i].records) + 1
    OBVIOUS
  <2>1. pending[i].records \in Seq(BOOLEAN)
    BY <1>3 DEF PendingWindows
  <2>2. grown[i].records = Append(pending[i].records, t) /\ t \in BOOLEAN
    BY <1>1, <1>3
  <2>3. \A w \in Seq(BOOLEAN) : Len(w) \in Nat /\ Len(Append(w, t)) = Len(w) + 1
    BY <2>2
  <2>. QED  BY <2>1, <2>2, <2>3
<1>14. WindowInv'
  <2>1. OutcomeWindow \in Nat \ {0}
    BY BridgeAssumption
  <2>2. M = 1 => Len(alerts[1].records) = 0
    BY <1>2
  <2>3. \A i \in 1..(L - c + M) : Len(pending'[i].records) < OutcomeWindow
    <3> SUFFICES ASSUME NEW i \in 1..(L - c + M) PROVE Len(pending'[i].records) < OutcomeWindow
      OBVIOUS
    <3>1. CASE i \in 1..(L - c) /\ c + i \in 1..L /\ pending'[i] = grown[c + i]
      <4>1. ~Complete(grown[c + i])
        <5>1. ~(c + i <= c)
          BY <1>4, <3>1
        <5>. QED  BY <1>4, <3>1, <5>1
      <4>2. Len(grown[c + i].records) \in Nat
        BY <1>13, <3>1
      <4>. QED  BY <2>1, <3>1, <4>1, <4>2 DEF Complete
    <3>2. CASE M = 1 /\ i = L - c + 1 /\ pending'[i] = alerts[1]
      BY <2>1, <2>2, <3>2
    <3>. QED  BY <1>9, <3>1, <3>2
  <2>4. \A i, j \in 1..(L - c + M) :
          i < j => Len(pending'[j].records) < Len(pending'[i].records)
    <3> SUFFICES ASSUME NEW i \in 1..(L - c + M), NEW j \in 1..(L - c + M), i < j
                 PROVE  Len(pending'[j].records) < Len(pending'[i].records)
      OBVIOUS
    <3>1. i \in 1..(L - c) /\ c + i \in 1..L /\ pending'[i] = grown[c + i]
      BY <1>1, <1>2, <1>4, <1>9
    <3>2. Len(pending'[i].records) = Len(pending[c + i].records) + 1
          /\ Len(pending[c + i].records) \in Nat
      BY <1>13, <3>1
    <3>3. CASE j \in 1..(L - c) /\ c + j \in 1..L /\ pending'[j] = grown[c + j]
      <4>1. Len(pending'[j].records) = Len(pending[c + j].records) + 1
            /\ Len(pending[c + j].records) \in Nat
        BY <1>13, <3>3
      <4>2. c + i < c + j
        BY <1>4, <3>1, <3>3
      <4>3. Len(pending[c + j].records) < Len(pending[c + i].records)
        BY <1>11, <3>1, <3>3, <4>2 DEF BridgeInv, WindowInv
      <4>. QED  BY <3>2, <4>1, <4>3
    <3>4. CASE M = 1 /\ j = L - c + 1 /\ pending'[j] = alerts[1]
      BY <2>2, <3>2, <3>4
    <3>. QED  BY <1>9, <3>3, <3>4
  <2>. QED  BY <1>11, <2>3, <2>4 DEF WindowInv
<1>15. ThreatInv'
  <2>1. heard.spoofed \subseteq 1..raised /\ \A i \in 1..L : pending[i].alert \in 1..raised
    <3>1. heard.spoofed \subseteq 1..raised
      BY DEF BridgeInv, ThreatInv
    <3>2. L \in Nat /\ Q \in Nat /\ Len(learned) \in Nat /\ Len(learned) + Q + L = raised
      BY <1>1
    <3>3. \A i \in 1..L : Len(learned) + Q + i \in 1..raised
      BY <3>2
    <3>. QED  BY <1>8, <3>1, <3>3
  <2>2. heard'.spoofed \subseteq 1..raised
    BY <1>5, <1>11, <2>1
  <2>3. \A n \in heard'.spoofed :
          n \in heard.spoofed \/ (t /\ \E i \in 1..L : n = pending[i].alert)
    BY <1>5, <1>11
  <2>4. ASSUME NEW i \in 1..L, grown[i].alert \in heard'.spoofed
        PROVE  \E k \in DOMAIN grown[i].records : grown[i].records[k]
    <3> DEFINE w == pending[i].records
    <3>1. w \in Seq(BOOLEAN) /\ Len(w) \in Nat /\ grown[i].records = Append(w, t)
          /\ grown[i].alert = pending[i].alert
      BY <1>3, <1>13
    <3>2. CASE grown[i].alert \in heard.spoofed
      <4>1. PICK k \in DOMAIN w : w[k]
        BY <1>11, <3>1, <3>2 DEF BridgeInv, ThreatInv
      <4> HIDE DEF w
      <4>2. k \in DOMAIN Append(w, t) /\ Append(w, t)[k] = w[k]
        BY <1>1, <3>1
      <4>. QED  BY <3>1, <4>1, <4>2
    <3>3. CASE t
      <4> HIDE DEF w
      <4>1. Len(w) + 1 \in DOMAIN Append(w, t) /\ Append(w, t)[Len(w) + 1] = t
        BY <1>1, <3>1
      <4>. QED  BY <3>1, <3>3, <4>1
    <3>. QED  BY <2>3, <2>4, <3>2, <3>3
  <2>5. \A i \in DOMAIN pending' :
          pending'[i].alert \in heard'.spoofed =>
            \E k \in DOMAIN pending'[i].records : pending'[i].records[k]
    <3> SUFFICES ASSUME NEW i \in 1..(L - c + M), pending'[i].alert \in heard'.spoofed
                 PROVE  \E k \in DOMAIN pending'[i].records : pending'[i].records[k]
      BY <1>11
    <3>1. CASE c + i \in 1..L /\ pending'[i] = grown[c + i]
      BY <2>4, <3>1
    <3>2. CASE M = 1 /\ pending'[i] = alerts[1]
      BY <1>1, <1>2, <2>2, <3>2
    <3>. QED  BY <1>9, <3>1, <3>2
  <2>6. \A i \in DOMAIN queue' :
          queue'[i].assessed = "confirmed_fp" => queue'[i].alert \notin heard'.spoofed
    <3> SUFFICES ASSUME NEW i \in 1..(Q + c), queue'[i].assessed = "confirmed_fp",
                        queue'[i].alert \in heard'.spoofed
                 PROVE  FALSE
      BY <1>11
    <3>1. CASE i \in 1..Q /\ queue'[i] = queue[i]
      <4>1. queue[i].alert \notin heard.spoofed /\ queue[i].alert = Len(learned) + i
        BY <1>11, <3>1 DEF BridgeInv, ThreatInv, Placed
      <4>2. PICK j \in 1..L : queue[i].alert = pending[j].alert
        BY <2>3, <3>1, <4>1
      <4>. QED  BY <1>1, <1>8, <3>1, <4>1, <4>2
    <3>2. CASE queue'[i] = OutcomeItem(grown[1]) /\ 1 \in 1..L
      <4>1. Assess(grown[1].records) = "confirmed_fp" /\ grown[1].alert \in heard'.spoofed
        BY <3>2 DEF OutcomeItem
      <4>2. grown[1].records \in Seq(BOOLEAN)
        BY <1>3, <3>2 DEF PendingWindows
      <4>. QED  BY <2>4, <3>2, <4>1, <4>2, ForgivenWindow
    <3>. QED  BY <1>10, <3>1, <3>2
  <2>7. ForgivenIsQuiet'
    <3> SUFFICES ASSUME NEW i \in DOMAIN learned, learned[i].verdict = "fp",
                        learned[i].alert \in heard'.spoofed
                 PROVE  FALSE
      BY <1>5 DEF ForgivenIsQuiet
    <3>1. learned[i].alert \notin heard.spoofed /\ learned[i].alert = i /\ i \in 1..Len(learned)
      BY <1>1 DEF BridgeInv, ThreatInv, ForgivenIsQuiet, Placed
    <3>2. PICK j \in 1..L : learned[i].alert = pending[j].alert
      BY <2>3, <3>1
    <3>. QED  BY <1>1, <1>8, <3>1, <3>2
  <2>8. heard'.spoofed \subseteq 1..raised'
    BY <1>1, <1>2, <1>5, <2>2
  <2>. QED  BY <1>5, <2>5, <2>6, <2>7, <2>8 DEF ThreatInv
<1>. QED  BY <1>12, <1>14, <1>15 DEF BridgeInv

LEMMA Concatenated ==
  ASSUME NEW S, NEW s \in Seq(S), NEW t \in Seq(S)
  PROVE  /\ s \o t \in Seq(S) /\ Len(s \o t) = Len(s) + Len(t)
         /\ \A i \in 1..Len(s) : (s \o t)[i] = s[i]
         /\ \A i \in 1..Len(t) : (s \o t)[Len(s) + i] = t[i]
<1>1. Len(s) \in Nat /\ Len(t) \in Nat
  OBVIOUS
<1>2. s \o t \in Seq(S) /\ Len(s \o t) = Len(s) + Len(t)
  OBVIOUS
<1>3. \A i \in 1..Len(s) : (s \o t)[i] = s[i]
  OBVIOUS
<1>4. ASSUME NEW i \in 1..Len(t) PROVE (s \o t)[Len(s) + i] = t[i]
  <2>1. Len(s) + i \in 1..(Len(s) + Len(t)) /\ Len(s) + i > Len(s) /\ (Len(s) + i) - Len(s) = i
    BY <1>1
  <2>. QED  BY <2>1
<1>. QED  BY <1>2, <1>3, <1>4

LEMMA FlushWindows ==
  ASSUME BridgeInv, FlushPending
  PROVE  BridgeInv'
<1> DEFINE L == Len(pending)
           Q == Len(queue)
           new == [i \in 1..L |-> OutcomeItem(pending[i])]
<1>1. /\ L \in Nat /\ Q \in Nat /\ Len(learned) \in Nat /\ raised \in Nat
      /\ pending \in Seq(PendingWindows) /\ queue \in Seq(QueuedItems)
      /\ learned \in Seq(Lessons) /\ Len(learned) + Q + L = raised
      /\ DOMAIN pending = 1..L /\ DOMAIN queue = 1..Q
  BY DEF BridgeInv, Placed
<1>2. /\ pending' = <<>> /\ queue' = queue \o new
      /\ UNCHANGED <<detector, learned, raised, heard>>
  BY <1>1 DEF FlushPending, Items
<1> HIDE DEF L, Q, PendingWindows, QueuedItems
<1>3. \A i \in 1..L : pending[i] \in PendingWindows /\ OutcomeItem(pending[i]) \in QueuedItems
  BY <1>1, ItemOf
<1>4. new \in Seq(QueuedItems) /\ Len(new) = L /\ \A i \in 1..L : new[i] = OutcomeItem(pending[i])
  BY <1>1, <1>3
<1> HIDE DEF new
<1>5. /\ queue' \in Seq(QueuedItems) /\ Len(queue') = Q + L
      /\ \A i \in 1..Q : queue'[i] = queue[i]
      /\ \A i \in 1..L : queue'[Q + i] = new[i]
  <2>1. /\ queue \o new \in Seq(QueuedItems) /\ Len(queue \o new) = Len(queue) + Len(new)
        /\ \A i \in 1..Len(queue) : (queue \o new)[i] = queue[i]
        /\ \A i \in 1..Len(new) : (queue \o new)[Len(queue) + i] = new[i]
    <3>1. queue \in Seq(QueuedItems) /\ new \in Seq(QueuedItems)
      BY <1>1, <1>4
    <3>. QED  BY <3>1, Concatenated
  <2>2. queue' = queue \o new /\ Len(queue) = Q /\ Len(new) = L
    BY <1>2, <1>4 DEF Q
  <2>. QED  BY <2>1, <2>2
<1>6. \A i \in 1..(Q + L) :
        \/ i \in 1..Q /\ queue'[i] = queue[i]
        \/ i - Q \in 1..L /\ queue'[i] = OutcomeItem(pending[i - Q])
  <2> SUFFICES ASSUME NEW i \in 1..(Q + L), i \notin 1..Q
               PROVE  i - Q \in 1..L /\ queue'[i] = OutcomeItem(pending[i - Q])
    BY <1>5
  <2>1. i - Q \in 1..L /\ i = Q + (i - Q)
    BY <1>1
  <2>. QED  BY <1>4, <1>5, <2>1
<1>7. /\ \A i \in 1..L : pending[i].alert = Len(learned) + Q + i
      /\ \A i \in 1..Q : queue[i].alert = Len(learned) + i
  BY <1>1 DEF BridgeInv, Placed, Q
<1>8. DOMAIN queue' = 1..(Q + L) /\ pending' \in Seq(PendingWindows) /\ Len(pending') = 0
      /\ DOMAIN pending' = {}
  BY <1>1, <1>2, <1>5
<1>9. Placed'
  <2>1. \A i \in 1..(Q + L) : queue'[i].alert = Len(learned) + i
    <3> SUFFICES ASSUME NEW i \in 1..(Q + L) PROVE queue'[i].alert = Len(learned) + i
      OBVIOUS
    <3>1. CASE i \in 1..Q /\ queue'[i] = queue[i]
      BY <1>7, <3>1
    <3>2. CASE i - Q \in 1..L /\ queue'[i] = OutcomeItem(pending[i - Q])
      <4>1. queue'[i].alert = Len(learned) + Q + (i - Q)
        BY <1>7, <3>2 DEF OutcomeItem
      <4>. QED  BY <1>1, <4>1
    <3>. QED  BY <1>6, <3>1, <3>2
  <2>2. Len(learned) + Len(queue') + Len(pending') = raised
    BY <1>1, <1>5, <1>8
  <2>3. \A i \in DOMAIN learned : learned[i].alert = i
    BY DEF BridgeInv, Placed
  <2>. QED  BY <1>1, <1>2, <1>5, <1>8, <2>1, <2>2, <2>3 DEF Placed
<1>10. WindowInv'
  BY <1>8 DEF WindowInv
<1>11. ThreatInv'
  <2>1. ASSUME NEW i \in 1..(Q + L), queue'[i].assessed = "confirmed_fp",
               queue'[i].alert \in heard.spoofed
        PROVE  FALSE
    <3>1. CASE i \in 1..Q /\ queue'[i] = queue[i]
      BY <1>1, <2>1, <3>1 DEF BridgeInv, ThreatInv
    <3>2. CASE i - Q \in 1..L /\ queue'[i] = OutcomeItem(pending[i - Q])
      <4> DEFINE p == pending[i - Q]
      <4>1. /\ Assess(p.records) = "confirmed_fp" /\ p.alert \in heard.spoofed
            /\ p.records \in Seq(BOOLEAN)
        BY <1>3, <2>1, <3>2 DEF OutcomeItem, PendingWindows
      <4>2. \E k \in DOMAIN p.records : p.records[k]
        BY <1>1, <3>2, <4>1 DEF BridgeInv, ThreatInv
      <4>. QED  BY <4>1, <4>2, ForgivenWindow
    <3>. QED  BY <1>6, <3>1, <3>2
  <2>. QED  BY <1>2, <1>8, <2>1 DEF BridgeInv, ThreatInv, ForgivenIsQuiet
<1>. QED  BY <1>9, <1>10, <1>11 DEF BridgeInv

LEMMA LessonOf ==
  ASSUME NEW q \in QueuedItems
  PROVE  /\ Lesson(q) \in Lessons /\ Lesson(q).alert = q.alert
         /\ Lesson(q).verdict = "fp" => q.assessed = "confirmed_fp"
<1>1. Decide(q) \in {"tp", "fp", "inconclusive"}
      /\ (Decide(q) = "fp" => q.assessed = "confirmed_fp")
  BY DEF Decide
<1>. QED  BY <1>1 DEF Lesson, Lessons, QueuedItems

LEMMA PollWindows ==
  ASSUME BridgeInv, Poll
  PROVE  BridgeInv'
<1> DEFINE N == Len(learned)
           Q == Len(queue)
           new == [i \in 1..Q |-> Lesson(queue[i])]
<1>1. /\ N \in Nat /\ Q \in Nat /\ Len(pending) \in Nat /\ raised \in Nat
      /\ pending \in Seq(PendingWindows) /\ queue \in Seq(QueuedItems)
      /\ learned \in Seq(Lessons) /\ N + Q + Len(pending) = raised
      /\ DOMAIN learned = 1..N /\ DOMAIN queue = 1..Q
  BY DEF BridgeInv, Placed
<1>2. /\ queue' = <<>> /\ learned' = learned \o new
      /\ UNCHANGED <<detector, pending, raised, heard>>
  BY <1>1 DEF Poll
<1> HIDE DEF N, Q, QueuedItems, Lessons
<1>3. \A i \in 1..Q : queue[i] \in QueuedItems /\ Lesson(queue[i]) \in Lessons
  BY <1>1, LessonOf
<1>4. new \in Seq(Lessons) /\ Len(new) = Q /\ \A i \in 1..Q : new[i] = Lesson(queue[i])
  BY <1>1, <1>3
<1> HIDE DEF new
<1>5. /\ learned' \in Seq(Lessons) /\ Len(learned') = N + Q
      /\ \A i \in 1..N : learned'[i] = learned[i]
      /\ \A i \in 1..Q : learned'[N + i] = new[i]
  <2>1. /\ learned \o new \in Seq(Lessons) /\ Len(learned \o new) = Len(learned) + Len(new)
        /\ \A i \in 1..Len(learned) : (learned \o new)[i] = learned[i]
        /\ \A i \in 1..Len(new) : (learned \o new)[Len(learned) + i] = new[i]
    <3>1. learned \in Seq(Lessons) /\ new \in Seq(Lessons)
      BY <1>1, <1>4
    <3>. QED  BY <3>1, Concatenated
  <2>2. learned' = learned \o new /\ Len(learned) = N /\ Len(new) = Q
    BY <1>2, <1>4 DEF N
  <2>. QED  BY <2>1, <2>2
<1>6. \A i \in 1..(N + Q) :
        \/ i \in 1..N /\ learned'[i] = learned[i]
        \/ i - N \in 1..Q /\ learned'[i] = Lesson(queue[i - N])
  <2> SUFFICES ASSUME NEW i \in 1..(N + Q), i \notin 1..N
               PROVE  i - N \in 1..Q /\ learned'[i] = Lesson(queue[i - N])
    BY <1>5
  <2>1. i - N \in 1..Q /\ i = N + (i - N)
    BY <1>1
  <2>. QED  BY <1>4, <1>5, <2>1
<1>7. \A i \in 1..Q : queue[i].alert = N + i
  BY <1>1 DEF BridgeInv, Placed, N
<1>8. DOMAIN learned' = 1..(N + Q) /\ queue' \in Seq(QueuedItems) /\ Len(queue') = 0
      /\ DOMAIN queue' = {}
  BY <1>1, <1>2, <1>5
<1>9. Placed'
  <2>1. \A i \in 1..(N + Q) : learned'[i].alert = i
    <3> SUFFICES ASSUME NEW i \in 1..(N + Q) PROVE learned'[i].alert = i
      OBVIOUS
    <3>1. CASE i \in 1..N /\ learned'[i] = learned[i]
      BY <1>1, <3>1 DEF BridgeInv, Placed
    <3>2. CASE i - N \in 1..Q /\ learned'[i] = Lesson(queue[i - N])
      <4>1. learned'[i].alert = N + (i - N)
        BY <1>3, <1>7, <3>2, LessonOf
      <4>. QED  BY <1>1, <4>1
    <3>. QED  BY <1>6, <3>1, <3>2
  <2>2. Len(learned') + Len(queue') + Len(pending) = raised
    BY <1>1, <1>5, <1>8
  <2>3. \A i \in DOMAIN pending : pending[i].alert = Len(learned') + Len(queue') + i
    <3> SUFFICES ASSUME NEW i \in DOMAIN pending
                 PROVE  pending[i].alert = Len(learned') + Len(queue') + i
      OBVIOUS
    <3>1. pending[i].alert = N + Q + i /\ i \in Nat
      BY <1>1 DEF BridgeInv, Placed, N, Q
    <3>2. N \in Nat /\ Q \in Nat /\ Len(learned') = N + Q /\ Len(queue') = 0
      BY <1>1, <1>5, <1>8
    <3>. QED  BY <3>1, <3>2
  <2>. QED  BY <1>1, <1>2, <1>5, <1>8, <2>1, <2>2, <2>3 DEF Placed
<1>10. WindowInv'
  BY <1>2 DEF BridgeInv, WindowInv
<1>11. ThreatInv'
  <2>1. ASSUME NEW i \in 1..(N + Q), learned'[i].verdict = "fp",
               learned'[i].alert \in heard.spoofed
        PROVE  FALSE
    <3>1. CASE i \in 1..N /\ learned'[i] = learned[i]
      BY <1>1, <2>1, <3>1 DEF BridgeInv, ThreatInv, ForgivenIsQuiet
    <3>2. CASE i - N \in 1..Q /\ learned'[i] = Lesson(queue[i - N])
      <4> DEFINE q == queue[i - N]
      <4>1. q \in QueuedItems /\ i - N \in DOMAIN queue
        BY <1>1, <1>3, <3>2
      <4>2. learned'[i].alert = q.alert /\ q.assessed = "confirmed_fp"
        BY <2>1, <3>2, <4>1, LessonOf
      <4>3. q.alert \notin heard.spoofed
        BY <4>1, <4>2 DEF BridgeInv, ThreatInv
      <4>. QED  BY <2>1, <4>2, <4>3
    <3>. QED  BY <1>6, <3>1, <3>2
  <2>. QED  BY <1>2, <1>8, <2>1 DEF BridgeInv, ThreatInv, ForgivenIsQuiet
<1>. QED  BY <1>9, <1>10, <1>11 DEF BridgeInv

LEMMA InitBridge == BridgeInit => BridgeInv
<1> SUFFICES ASSUME BridgeInit PROVE BridgeInv
  OBVIOUS
<1>1. Placed
  BY DEF BridgeInit, Placed
<1>2. WindowInv
  BY DEF BridgeInit, WindowInv
<1>3. ThreatInv
  BY DEF BridgeInit, ThreatInv, ForgivenIsQuiet, Unheard
<1>. QED  BY <1>1, <1>2, <1>3 DEF BridgeInv

LEMMA NextBridge == BridgeInv /\ [BridgeNext]_bridge => BridgeInv'
<1> SUFFICES ASSUME BridgeInv, [BridgeNext]_bridge PROVE BridgeInv'
  OBVIOUS
<1>1. CASE Receive
  BY <1>1, TakeWindows DEF Receive, Process, Raises
<1>2. CASE RunFails
  BY <1>2, TakeWindows DEF RunFails, ProcessRaises, Raises
<1>3. ASSUME UNCHANGED <<pending, queue, learned, raised>>, heard'.spoofed = heard.spoofed,
             DOMAIN heard' = {"since_anomaly", "degraded", "spoofed"}
      PROVE  BridgeInv'
  BY <1>3 DEF BridgeInv, Placed, WindowInv, ThreatInv, ForgivenIsQuiet
<1>4. CASE FlushPending
  BY <1>4, FlushWindows
<1>5. CASE Poll
  BY <1>5, PollWindows
<1>6. CASE Reset
  BY <1>3, <1>6 DEF Reset, judging, Unheard
<1>7. CASE UNCHANGED bridge
  BY <1>3, <1>7 DEF bridge, judging, BridgeInv, ThreatInv
<1>8. CASE StreamEnds \/ RunStream
  BY <1>3, <1>8 DEF StreamEnds, RunStream, judging, BridgeInv, ThreatInv
<1>. QED  BY <1>1, <1>2, <1>4, <1>5, <1>6, <1>7, <1>8 DEF BridgeNext

LEMMA InvariantBridge == BridgeSpec => []BridgeInv
BY InitBridge, NextBridge, PTL DEF BridgeSpec

(* Windows that overlap, a flush in mid-window and polls between records   *)
(* lose no outcome of an alert and repeat none, and keep the order of the  *)
(* alerts (sim_bridge/bridge.py, sim_bridge/observation_source.py).        *)
THEOREM EachAlertIsJudgedOnce == BridgeSpec => []OneOutcomePerAlert
<1>1. BridgeInv => OneOutcomePerAlert
  <2> SUFFICES ASSUME BridgeInv PROVE OneOutcomePerAlert
    OBVIOUS
  <2> DEFINE a == Alerts(learned)
             b == Alerts(queue)
             c == Alerts(pending)
             N == Len(learned)
             Q == Len(queue)
             L == Len(pending)
  <2>1. /\ N \in Nat /\ Q \in Nat /\ L \in Nat /\ N + Q + L = raised
        /\ DOMAIN learned = 1..N /\ DOMAIN queue = 1..Q /\ DOMAIN pending = 1..L
    BY DEF BridgeInv, Placed
  <2>2. /\ a \in Seq(Nat) /\ Len(a) = N /\ \A i \in 1..N : a[i] = i
    <3>1. \A i \in 1..N : learned[i].alert = i
      BY <2>1 DEF BridgeInv, Placed
    <3>2. a = [i \in 1..N |-> i]
      BY <2>1, <3>1 DEF Alerts
    <3> HIDE DEF a
    <3>. QED  BY <2>1, <3>2
  <2>3. /\ b \in Seq(Nat) /\ Len(b) = Q /\ \A i \in 1..Q : b[i] = N + i
    <3>1. \A i \in 1..Q : queue[i].alert = N + i
      BY <2>1 DEF BridgeInv, Placed
    <3>2. b = [i \in 1..Q |-> N + i]
      BY <2>1, <3>1 DEF Alerts
    <3> HIDE DEF b, N
    <3>. QED  BY <2>1, <3>2
  <2>4. /\ c \in Seq(Nat) /\ Len(c) = L /\ \A i \in 1..L : c[i] = N + Q + i
    <3>1. \A i \in 1..L : pending[i].alert = N + Q + i
      BY <2>1 DEF BridgeInv, Placed
    <3>2. c = [i \in 1..L |-> N + Q + i]
      BY <2>1, <3>1 DEF Alerts
    <3> HIDE DEF c, N, Q
    <3>. QED  BY <2>1, <3>2
  <2> HIDE DEF a, b, c, N, Q, L
  <2> DEFINE ab == a \o b
  <2>5. ab \in Seq(Nat) /\ Len(ab) = N + Q /\ \A i \in 1..(N + Q) : ab[i] = i
    <3>1. ab \in Seq(Nat) /\ Len(ab) = N + Q
      BY <2>2, <2>3, Concatenated
    <3>2. /\ \A i \in 1..N : ab[i] = a[i]
          /\ \A i \in 1..Q : ab[N + i] = b[i]
      BY <2>2, <2>3, Concatenated
    <3>3. ASSUME NEW i \in 1..(N + Q) PROVE ab[i] = i
      <4>1. CASE i <= N
        BY <2>1, <2>2, <3>2, <4>1
      <4>2. CASE i > N
        <5>1. i - N \in 1..Q /\ i = N + (i - N)
          BY <2>1, <4>2
        <5>. QED  BY <2>3, <3>2, <5>1
      <4>3. i <= N \/ i > N
        BY <2>1
      <4>. QED  BY <4>1, <4>2, <4>3
    <3>. QED  BY <3>1, <3>3
  <2> HIDE DEF ab
  <2> DEFINE abc == ab \o c
  <2>6. abc \in Seq(Nat) /\ Len(abc) = raised /\ \A i \in 1..raised : abc[i] = i
    <3>1. abc \in Seq(Nat) /\ Len(abc) = raised
      <4>1. abc \in Seq(Nat) /\ Len(abc) = Len(ab) + Len(c)
        BY <2>4, <2>5, Concatenated
      <4>. QED  BY <2>1, <2>4, <2>5, <4>1
    <3>2. /\ \A i \in 1..(N + Q) : abc[i] = ab[i]
          /\ \A i \in 1..L : abc[(N + Q) + i] = c[i]
      BY <2>4, <2>5, Concatenated
    <3>3. ASSUME NEW i \in 1..raised PROVE abc[i] = i
      <4>1. CASE i <= N + Q
        BY <2>1, <2>5, <3>2, <4>1
      <4>2. CASE i > N + Q
        <5>1. i - (N + Q) \in 1..L /\ i = (N + Q) + (i - (N + Q))
          BY <2>1, <4>2
        <5>. QED  BY <2>4, <3>2, <5>1
      <4>3. i <= N + Q \/ i > N + Q
        BY <2>1
      <4>. QED  BY <4>1, <4>2, <4>3
    <3>. QED  BY <3>1, <3>3
  <2> HIDE DEF abc
  <2>7. abc = [n \in 1..raised |-> n]
    <3>1. abc = [n \in 1..Len(abc) |-> abc[n]]
      BY <2>6
    <3>. QED  BY <2>6, <3>1
  <2>. QED  BY <2>7 DEF OneOutcomePerAlert, abc, ab, a, b, c
<1>. QED  BY <1>1, InvariantBridge, PTL

(* What is learned to be harmless showed no threat in the whole window     *)
(* after its alert, overlapping windows included (sim_bridge/outcome.py).  *)
THEOREM HarmlessWasQuiet == BridgeSpec => []ForgivenIsQuiet
<1>1. BridgeInv => ForgivenIsQuiet
  BY DEF BridgeInv, ThreatInv
<1>. QED  BY <1>1, InvariantBridge, PTL

-----------------------------------------------------------------------------
Stages == {"gates", "approval", "bump", "synced", "rollout"}
Deployments ==
  [rev : Revisions, stage : Stages, fresh : BOOLEAN, tag : Revisions \cup {None}, bumped : BOOLEAN]

(* A deployment that left the gates has passed them, for the revision it   *)
(* was started for, which it keeps until the manifests name it.            *)
GatesPassed(rev) == GatesExit(Results[rev], "prod") = 0

Safe(d) ==
  d # None => /\ d \in Deployments
              /\ d.stage # "gates" => GatesPassed(d.rev)

SafeRuns(runs) == runs = [ref \in Refs |-> runs[ref]] /\ \A ref \in Refs : Safe(runs[ref])

SafeWaits(waits) ==
  /\ waits = [ref \in Refs |-> waits[ref]]
  /\ \A ref \in Refs : waits[ref] # None => waits[ref] \in Revisions

RoadInv ==
  /\ main \in Revisions /\ manifest \in Revisions
  /\ SafeRuns(deploy)
  /\ SafeWaits(waiting)
  /\ ProductionPassedItsGates

(* There are finitely many items, so that they can be counted.             *)
PoamInv == IsFiniteSet(poam) /\ RelapseIsCritical

ReleaseInv == RoadInv /\ PoamInv

-----------------------------------------------------------------------------
(* The road. *)

LEMMA QueuedSafe ==
  ASSUME NEW rev \in Revisions
  PROVE  Safe(Queued(rev))
<1>1. Queued(rev) \in Deployments /\ Queued(rev).stage = "gates"
  BY DEF Queued, Deployments, Stages
<1>. QED  BY <1>1 DEF Safe

LEMMA MovedSafe ==
  ASSUME NEW runs, SafeRuns(runs)
  PROVE  SafeRuns(Moved(runs))
<1> DEFINE m(ref) == [runs[ref] EXCEPT !.fresh = FALSE]
<1>1. ASSUME NEW ref \in Refs, runs[ref] # None PROVE Safe(m(ref))
  <2>1. runs[ref] \in Deployments /\ Safe(runs[ref])
    BY <1>1 DEF SafeRuns, Safe
  <2>2. m(ref) \in Deployments /\ m(ref).stage = runs[ref].stage /\ m(ref).rev = runs[ref].rev
    BY <2>1 DEF Deployments
  <2>. QED  BY <1>1, <2>1, <2>2 DEF Safe
<1>2. Safe(None)
  BY DEF Safe
<1>3. Moved(runs) = [ref \in Refs |-> IF runs[ref] = None THEN None ELSE m(ref)]
  BY DEF Moved
<1> HIDE DEF m
<1>. QED  BY <1>1, <1>2, <1>3 DEF SafeRuns

LEMMA OneSafe ==
  ASSUME NEW runs, SafeRuns(runs), NEW ref \in Refs, NEW d, Safe(d)
  PROVE  SafeRuns([runs EXCEPT ![ref] = d])
BY DEF SafeRuns

LEMMA EnqueueSafe ==
  ASSUME NEW runs, SafeRuns(runs), SafeWaits(waiting), NEW ref \in Refs, NEW rev \in Revisions,
         Enqueue(ref, rev, runs)
  PROVE  SafeRuns(deploy') /\ SafeWaits(waiting')
<1>1. CASE runs[ref] = None
  BY <1>1, QueuedSafe, OneSafe DEF Enqueue
<1>2. CASE runs[ref] # None
  <2>1. deploy' = runs /\ waiting' = [waiting EXCEPT ![ref] = rev]
    BY <1>2 DEF Enqueue
  <2>. QED  BY <2>1 DEF SafeWaits
<1>. QED  BY <1>1, <1>2

LEMMA PushedRoad ==
  ASSUME RoadInv, NEW rev \in Revisions, main' = rev, Triggered(rev), UNCHANGED manifest
  PROVE  RoadInv'
<1>1. SafeRuns(Moved(deploy)) /\ Enqueue("main", rev, Moved(deploy)) /\ "main" \in Refs
  BY MovedSafe DEF RoadInv, Triggered, Refs
<1>2. SafeRuns(deploy') /\ SafeWaits(waiting')
  BY <1>1, EnqueueSafe DEF RoadInv
<1>. QED  BY <1>2 DEF RoadInv, ProductionPassedItsGates, Revisions

LEMMA EndedRoad ==
  ASSUME RoadInv, NEW ref \in Refs, NEW runs, SafeRuns(runs), DeployEnds(ref, runs),
         UNCHANGED <<main, manifest>>
  PROVE  RoadInv'
<1> DEFINE d == IF waiting[ref] = None THEN None ELSE Queued(waiting[ref])
<1>1. deploy' = [runs EXCEPT ![ref] = d] /\ waiting' = [waiting EXCEPT ![ref] = None]
  BY DEF DeployEnds
<1>2. Safe(d)
  BY QueuedSafe DEF RoadInv, SafeWaits, Safe
<1> HIDE DEF d
<1>3. SafeRuns(deploy')
  BY <1>1, <1>2, OneSafe
<1>4. SafeWaits(waiting')
  BY <1>1 DEF RoadInv, SafeWaits
<1>. QED  BY <1>3, <1>4 DEF RoadInv, ProductionPassedItsGates

(* A deployment under way goes on to a stage after the gates. *)
LEMMA OnwardRoad ==
  ASSUME RoadInv, NEW ref \in Refs, deploy[ref] # None, GatesPassed(deploy[ref].rev),
         UNCHANGED <<main, manifest, waiting>>,
         NEW d \in Deployments, d.rev = deploy[ref].rev, deploy' = [deploy EXCEPT ![ref] = d]
  PROVE  RoadInv'
<1>1. Safe(d)
  BY DEF Safe
<1>2. SafeRuns(deploy')
  BY <1>1, OneSafe DEF RoadInv
<1>. QED  BY <1>2 DEF RoadInv, ProductionPassedItsGates

LEMMA BumpRoad ==
  ASSUME RoadInv, NEW ref \in Refs, Bump(ref)
  PROVE  RoadInv'
<1> DEFINE c == deploy[ref]
<1>1. /\ c # None /\ c.stage = "bump" /\ UNCHANGED main
      /\ SafeRuns(deploy) /\ deploy = [r \in Refs |-> deploy[r]]
  BY DEF Bump, AtStage, DeployUnchanged, RoadInv, SafeRuns
<1>2. c \in Deployments /\ GatesPassed(c.rev) /\ c.rev \in Revisions
  BY <1>1 DEF SafeRuns, Safe, Deployments
<1>3. CASE c.tag = Bumped(ref) /\ UNCHANGED <<manifest, waiting>>
           /\ deploy' = [deploy EXCEPT ![ref].stage = "synced"]
  <2> DEFINE d == [c EXCEPT !.stage = "synced"]
  <2>1. d \in Deployments /\ d.rev = c.rev
    BY <1>2 DEF Deployments, Stages
  <2>2. deploy' = [deploy EXCEPT ![ref] = d]
    BY <1>1, <1>3
  <2> HIDE DEF d
  <2>. QED  BY <1>1, <1>2, <1>3, <2>1, <2>2, OnwardRoad
<1>4. CASE /\ manifest' = Bumped(ref) /\ UNCHANGED waiting
           /\ deploy' = [Moved(deploy) EXCEPT ![ref] =
                           [deploy[ref] EXCEPT !.stage = "synced", !.bumped = TRUE]]
  <2> DEFINE d == [c EXCEPT !.stage = "synced", !.bumped = TRUE]
  <2>1. d \in Deployments /\ d.rev = c.rev
    BY <1>2 DEF Deployments, Stages
  <2>2. Safe(d)
    BY <1>2, <2>1 DEF Safe
  <2>3. deploy' = [Moved(deploy) EXCEPT ![ref] = d]
    BY <1>4
  <2> HIDE DEF d
  <2>4. SafeRuns(deploy')
    BY <1>1, <2>2, <2>3, MovedSafe, OneSafe
  <2>5. manifest' = c.rev
    BY <1>4 DEF Bumped
  <2> HIDE DEF c
  <2>. QED
    BY <1>1, <1>2, <1>4, <2>4, <2>5 DEF RoadInv, ProductionPassedItsGates, GatesPassed
<1>5. CASE DeployEnds(ref, deploy) /\ UNCHANGED manifest
  BY <1>1, <1>5, EndedRoad
<1>. QED  BY <1>3, <1>4, <1>5 DEF Bump

LEMMA NextRoad == RoadInv /\ [Next]_vars => RoadInv'
<1> SUFFICES ASSUME RoadInv, [Next]_vars PROVE RoadInv'
  OBVIOUS
<1>1. ASSUME UNCHANGED <<main, manifest, deploy, waiting>> PROVE RoadInv'
  BY <1>1 DEF RoadInv, ProductionPassedItsGates
<1>2. ASSUME NEW rev \in Revisions, Push(rev) PROVE RoadInv'
  BY <1>2, PushedRoad DEF Push, Pushed
<1>3. ASSUME Pushed(main), UNCHANGED <<main, manifest>> PROVE RoadInv'
  BY <1>3, PushedRoad DEF Pushed, RoadInv
<1>4. ASSUME NEW live, NEW baseline, Register(live, baseline) PROVE RoadInv'
  BY <1>3, <1>4 DEF Register
<1>5. CASE RegisterGates
  BY <1>3, <1>5 DEF RegisterGates
<1>6. ASSUME NEW i, NEW entry, Track(i, entry) PROVE RoadInv'
  BY <1>3, <1>6 DEF Track
<1>7. ASSUME NEW i, NEW risk, Rerate(i, risk) PROVE RoadInv'
  BY <1>3, <1>7 DEF Rerate
<1>8. CASE Rebuild
  BY <1>3, <1>8 DEF Rebuild
<1>9. CASE Restore
  BY <1>9, PushedRoad DEF Restore, RoadInv
<1>10. CASE Nightly
  BY <1>1, <1>10 DEF Nightly
<1>11. CASE Atlas
  BY <1>1, <1>11 DEF Atlas
<1>12. ASSUME NEW live, ReportAndPoam(live) PROVE RoadInv'
  BY <1>1, <1>12 DEF ReportAndPoam
<1>13. CASE RunElsewhere \/ DayPasses
  BY <1>1, <1>13 DEF RunElsewhere, DayPasses
<1>14. ASSUME NEW ref \in Refs, NEW rev \in Revisions, Dispatch(ref, rev) PROVE RoadInv'
  <2>1. SafeRuns(deploy') /\ SafeWaits(waiting')
    BY <1>14, EnqueueSafe DEF Dispatch, RoadInv
  <2>. QED  BY <1>14, <2>1 DEF Dispatch, RoadInv, ProductionPassedItsGates
<1>15. /\ SafeRuns(deploy) /\ deploy = [r \in Refs |-> deploy[r]] /\ manifest \in Revisions
       /\ \A ref \in Refs : deploy[ref] # None =>
            /\ deploy[ref] \in Deployments
            /\ deploy[ref].stage # "gates" => GatesPassed(deploy[ref].rev)
  BY DEF RoadInv, SafeRuns, Safe
<1>16. ASSUME NEW ref \in Refs, Gated(ref) PROVE RoadInv'
  <2>1. UNCHANGED <<main, manifest>>
    BY <1>16 DEF Gated, DeployUnchanged, MainUnchanged
  <2>2. CASE ReleaseReady(deploy[ref].rev)
    <3> DEFINE d == [deploy[ref] EXCEPT !.stage = "approval"]
    <3>1. deploy[ref] # None /\ deploy' = [deploy EXCEPT ![ref] = d] /\ UNCHANGED waiting
      BY <1>15, <1>16, <2>2 DEF Gated, AtStage
    <3>2. d \in Deployments /\ d.rev = deploy[ref].rev
      BY <1>15, <3>1 DEF Deployments, Stages
    <3>3. GatesPassed(deploy[ref].rev)
      BY <2>2 DEF ReleaseReady, GatesPassed
    <3> HIDE DEF d
    <3>. QED  BY <2>1, <3>1, <3>2, <3>3, OnwardRoad
  <2>3. CASE ~ReleaseReady(deploy[ref].rev)
    BY <1>15, <1>16, <2>1, <2>3, EndedRoad DEF Gated
  <2>. QED  BY <2>2, <2>3
<1>17. ASSUME NEW ref \in Refs, Approve(ref) PROVE RoadInv'
  <2> DEFINE seen == IF erased THEN None ELSE manifest
             d == [deploy[ref] EXCEPT !.stage = "bump", !.fresh = TRUE, !.tag = seen]
  <2>1. /\ deploy[ref] # None /\ deploy[ref].stage = "approval"
        /\ UNCHANGED <<main, manifest, waiting>>
    BY <1>17 DEF Approve, AtStage, DeployUnchanged, MainUnchanged
  <2>2. deploy' = [deploy EXCEPT ![ref] = d]
    BY <1>15, <1>17 DEF Approve
  <2>3. seen \in Revisions \cup {None}
    BY <1>15
  <2> HIDE DEF seen
  <2>4. d \in Deployments /\ d.rev = deploy[ref].rev
    BY <1>15, <2>1, <2>3 DEF Deployments, Stages
  <2> HIDE DEF d
  <2>. QED  BY <1>15, <2>1, <2>2, <2>4, OnwardRoad
<1>18. ASSUME NEW ref \in Refs, Refuse(ref) \/ Healthy(ref) PROVE RoadInv'
  BY <1>15, <1>18, EndedRoad DEF Refuse, Healthy, DeployUnchanged, MainUnchanged
<1>19. ASSUME NEW ref \in Refs, Degraded(ref) PROVE RoadInv'
  <2>1. PICK runs : DeployEnds(ref, runs) /\ SafeRuns(runs)
    BY <1>15, <1>19, MovedSafe DEF Degraded
  <2>. QED  BY <1>19, <2>1, EndedRoad DEF Degraded, DeployUnchanged
<1>20. ASSUME NEW ref \in Refs, Watch(ref) PROVE RoadInv'
  <2> DEFINE d == [deploy[ref] EXCEPT !.stage = "rollout"]
  <2>1. /\ deploy[ref] # None /\ deploy[ref].stage = "synced"
        /\ UNCHANGED <<main, manifest, waiting>>
    BY <1>20 DEF Watch, AtStage, DeployUnchanged, MainUnchanged
  <2>2. deploy' = [deploy EXCEPT ![ref] = d]
    BY <1>15, <1>20 DEF Watch
  <2>3. d \in Deployments /\ d.rev = deploy[ref].rev
    BY <1>15, <2>1 DEF Deployments, Stages
  <2> HIDE DEF d
  <2>. QED  BY <1>15, <2>1, <2>2, <2>3, OnwardRoad
<1>21. CASE UNCHANGED vars
  BY <1>1, <1>21 DEF vars
<1>. QED
  BY <1>2, <1>4, <1>5, <1>6, <1>7, <1>8, <1>9, <1>10, <1>11, <1>12, <1>13, <1>14, <1>16,
     <1>17, <1>18, <1>19, <1>20, <1>21, BumpRoad DEF Next

LEMMA InitRoad == Init => RoadInv
<1> SUFFICES ASSUME Init PROVE RoadInv
  OBVIOUS
<1>1. main = First /\ manifest = First /\ First \in Revisions
  BY ReleaseAssumption DEF Init, Revisions
<1>2. deploy = [ref \in Refs |-> None] /\ waiting = [ref \in Refs |-> None]
  BY DEF Init
<1>. QED
  BY <1>1, <1>2 DEF RoadInv, SafeRuns, SafeWaits, Safe, ProductionPassedItsGates

(* The image that the manifests name is of a revision that passed the      *)
(* domain gates itself, though main moves on while its deployment waits    *)
(* for an approval (_workspace/02_pipeline_config/.github/workflows/       *)
(* cd-prod.yml).                                                           *)
THEOREM OnlyGatedRevisionsShip == Spec => []ProductionPassedItsGates
<1>1. RoadInv => ProductionPassedItsGates
  BY DEF RoadInv
<1>. QED  BY <1>1, InitRoad, NextRoad, PTL DEF Spec

-----------------------------------------------------------------------------
(* The POA&M. *)

LEMMA ImageFinite ==
  ASSUME NEW S, IsFiniteSet(S), NEW f
  PROVE  IsFiniteSet({f[x] : x \in S})
<1> DEFINE T == {f[x] : x \in S}
           g == [x \in S |-> f[x]]
<1>1. g \in Surjection(S, T)
  BY DEF Surjection
<1> HIDE DEF T, g
<1>2. IsFiniteSet(T)
  BY <1>1, FS_Surjection
<1>. QED  BY <1>2 DEF T

LEMMA SingletonFilter ==
  ASSUME NEW x, NEW S, S \subseteq {x}
  PROVE  IsFiniteSet(S)
BY FS_Singleton, FS_Subset

LEMMA FailuresFinite ==
  ASSUME NEW rev \in Revisions, NEW files
  PROVE  IsFiniteSet(CollectFailures(Results[rev], files))
<1> DEFINE r == Results[rev]
<1>1. /\ IsFiniteSet(DOMAIN r.downgrade) /\ IsFiniteSet(DOMAIN r.garak)
      /\ IsFiniteSet(r.pyrit)
  BY ReleaseAssumption DEF Revisions
<1> HIDE DEF r
<1>2. IsFiniteSet(AtlasFailures(r))
  <2> DEFINE A == {f \in {Failure("AML.T0020", "memory_poisoning", "all")} : r.robust > 0}
             B == {f \in {Failure("AML.T0051", "prompt_injection_downgrade", "all")} : r.attack > 0}
             C == {f \in {Failure("AML.T0015", "mimicry_evasion", "all")} : r.mimicry > 0}
             D == {f \in {Failure("AML.T0020", "baseline_advantage_lost", "all")} :
                     r.naive <= r.robust /\ r.robust > 0}
  <2>1. IsFiniteSet(A) /\ IsFiniteSet(B) /\ IsFiniteSet(C) /\ IsFiniteSet(D)
    BY SingletonFilter
  <2>2. AtlasFailures(r) = ((A \cup B) \cup C) \cup D
    BY DEF AtlasFailures
  <2> HIDE DEF A, B, C, D
  <2>3. IsFiniteSet(A \cup B)
    BY <2>1, FS_Union
  <2>4. IsFiniteSet((A \cup B) \cup C)
    BY <2>1, <2>3, FS_Union
  <2>. QED  BY <2>1, <2>2, <2>4, FS_Union
<1>3. IsFiniteSet(SkeletonFailures(r))
  <2> DEFINE V == {v \in DOMAIN r.downgrade : r.downgrade[v] # None /\ r.downgrade[v] > 0}
             f == [v \in V |-> Failure("PYRIT-SEV-DOWNGRADE", v, "HIGH_alerts")]
  <2>1. IsFiniteSet(V)
    BY <1>1, FS_Subset
  <2>2. SkeletonFailures(r) = {f[v] : v \in V}
    BY DEF SkeletonFailures
  <2> HIDE DEF V, f
  <2>. QED  BY <2>1, <2>2, ImageFinite
<1>4. IsFiniteSet(GarakFailures(r))
  <2> DEFINE P == {p \in DOMAIN r.garak :
                     r.garak[p].total > 0 /\ 20 * r.garak[p].failed > r.garak[p].total}
             f == [p \in P |-> Failure("GARAK-" \o p, p, "garak_default")]
  <2>1. IsFiniteSet(P)
    BY <1>1, FS_Subset
  <2>2. GarakFailures(r) = {f[p] : p \in P}
    BY DEF GarakFailures
  <2> HIDE DEF P, f
  <2>. QED  BY <2>1, <2>2, ImageFinite
<1>5. IsFiniteSet(PyritFailures(r))
  <2> DEFINE O == {o \in r.pyrit : o.rate > 0}
             f == [o \in O |-> Failure(o.ttp, o.objective, o.scenario)]
  <2>1. IsFiniteSet(O)
    BY <1>1, FS_Subset
  <2>2. PyritFailures(r) = {f[o] : o \in O}
    BY DEF PyritFailures
  <2> HIDE DEF O, f
  <2>. QED  BY <2>1, <2>2, ImageFinite
<1> DEFINE a == IF "atlas" \in files THEN AtlasFailures(r) ELSE {}
           b == IF "redteam" \in files THEN SkeletonFailures(r) ELSE {}
           c == IF "garak" \in files THEN GarakFailures(r) ELSE {}
           d == IF "pyrit" \in files THEN PyritFailures(r) ELSE {}
<1>6. IsFiniteSet(a) /\ IsFiniteSet(b) /\ IsFiniteSet(c) /\ IsFiniteSet(d)
  BY <1>2, <1>3, <1>4, <1>5, FS_EmptySet
<1>7. CollectFailures(r, files) = ((a \cup b) \cup c) \cup d
  BY DEF CollectFailures
<1> HIDE DEF a, b, c, d
<1>8. IsFiniteSet(a \cup b)
  BY <1>6, FS_Union
<1>9. IsFiniteSet((a \cup b) \cup c)
  BY <1>6, <1>8, FS_Union
<1>10. IsFiniteSet(CollectFailures(r, files))
  BY <1>6, <1>7, <1>9, FS_Union
<1>. QED  BY <1>10 DEF r

LEMMA CriticalIsKnown ==
  "critical" \in DOMAIN SeverityAliases /\ SeverityAliases["critical"] = "critical"
BY DEF SeverityAliases

LEMMA ProfileFinite == IsFiniteSet(BuildPoam)
<1> DEFINE G == {g \in DOMAIN Gaps : Gaps[g] # "implemented"}
           f == [g \in G |-> Item(<<"poam", g>>,
                                  IF Gaps[g] = "planned" THEN "ko_high" ELSE "ko_medium",
                                  Gaps[g], "registered")]
<1>1. IsFiniteSet(G)
  BY GatesAssumption, FS_Subset
<1>2. BuildPoam = {f[g] : g \in G}
  BY DEF BuildPoam
<1> HIDE DEF G, f
<1>. QED  BY <1>1, <1>2, ImageFinite

LEMMA GatesFinite ==
  ASSUME NEW rev
  PROVE  IsFiniteSet(EmitPoamItems(Results[rev], "prod"))
<1> DEFINE r == Results[rev]
           t == Profiles["prod"]
           F == FailedGates(r, "prod")
           f == [g \in F |-> Item(<<"check_gates", g.name, "prod">>,
                                  CASE g.severity = "critical" -> "ko_critical"
                                    [] g.severity = "high"     -> "ko_high"
                                    [] OTHER                   -> "ko_medium",
                                  "planned", "registered")]
<1>1. IsFiniteSet(F)
  <2> DEFINE A == {CheckFpRecurrence(r, t)}
             b1 == Gate("atlas_t0020_memory_poisoning", 100 - r.robust >= t.atlas, "critical")
             b2 == Gate("atlas_t0051_prompt_injection", 100 - r.attack >= t.injection, "critical")
             b3 == Gate("atlas_t0015_mimicry_limit", TRUE, "medium")
             c1 == Gate("kpi_triage_precision", r.precision >= t.precision, "high")
             c2 == Gate("kpi_triage_recall", r.recall >= t.recall, "critical")
  <2>1. RunGates(r, "prod") = ((((A \cup {b1}) \cup {b2}) \cup {b3}) \cup {c1}) \cup {c2}
    <3>1. RunGates(r, "prod") = {CheckFpRecurrence(r, t)} \cup CheckAtlasRedteam(r, t) \cup CheckKpi(r, t)
      BY DEF RunGates
    <3>2. CheckAtlasRedteam(r, t) = {b1, b2, b3}
      BY DEF CheckAtlasRedteam
    <3>3. CheckKpi(r, t) = {c1, c2}
      BY DEF CheckKpi
    <3> HIDE DEF b1, b2, b3, c1, c2, t, r
    <3>. QED  BY <3>1, <3>2, <3>3
  <2>2. IsFiniteSet(A) /\ \A x : IsFiniteSet({x})
    BY FS_Singleton
  <2> HIDE DEF A, b1, b2, b3, c1, c2
  <2>3. IsFiniteSet(A \cup {b1})
    BY <2>2, FS_Union
  <2>4. IsFiniteSet((A \cup {b1}) \cup {b2})
    BY <2>2, <2>3, FS_Union
  <2>5. IsFiniteSet(((A \cup {b1}) \cup {b2}) \cup {b3})
    BY <2>2, <2>4, FS_Union
  <2>6. IsFiniteSet((((A \cup {b1}) \cup {b2}) \cup {b3}) \cup {c1})
    BY <2>2, <2>5, FS_Union
  <2>7. IsFiniteSet(RunGates(r, "prod"))
    <3> DEFINE S == (((A \cup {b1}) \cup {b2}) \cup {b3}) \cup {c1}
    <3>1. IsFiniteSet(S) /\ IsFiniteSet({c2}) /\ RunGates(r, "prod") = S \cup {c2}
      BY <2>1, <2>2, <2>6
    <3> HIDE DEF S
    <3>. QED  BY <3>1, FS_Union
  <2>8. F \subseteq RunGates(r, "prod")
    BY DEF FailedGates
  <2> HIDE DEF F
  <2>. QED  BY <2>7, <2>8, FS_Subset
<1> HIDE DEF F
<1>2. EmitPoamItems(r, "prod") = {f[g] : g \in F}
  BY DEF EmitPoamItems, F
<1> HIDE DEF f
<1>4. IsFiniteSet(EmitPoamItems(r, "prod"))
  BY <1>1, <1>2, ImageFinite
<1>. QED  BY <1>4 DEF r

LEMMA CampaignFinite ==
  ASSUME NEW failed, IsFiniteSet(failed), NEW baseline
  PROVE  IsFiniteSet({BuildPoamItem(f, baseline) : f \in failed})
<1> DEFINE b == [f \in failed |-> BuildPoamItem(f, baseline)]
<1>1. {BuildPoamItem(f, baseline) : f \in failed} = {b[f] : f \in failed}
  OBVIOUS
<1> HIDE DEF b
<1>. QED  BY <1>1, ImageFinite

LEMMA MergedFinite ==
  ASSUME NEW old, IsFiniteSet(old), NEW new, IsFiniteSet(new)
  PROVE  IsFiniteSet(Merge(old, new))
<1> DEFINE rest == {i \in old : \A n \in new : n.key # i.key}
<1>1. IsFiniteSet(rest)
  BY FS_Subset
<1>2. IsFiniteSet(rest \cup new)
  BY <1>1, FS_Union
<1>. QED  BY <1>2 DEF Merge

(* Somebody writes an item anew. *)
LEMMA RewrittenFinite ==
  ASSUME IsFiniteSet(poam), NEW i, NEW j
  PROVE  IsFiniteSet((poam \ {i}) \cup {j})
<1>1. IsFiniteSet(poam \ {i}) /\ IsFiniteSet({j})
  BY FS_Subset, FS_Singleton
<1>. QED  BY <1>1, FS_Union

(* What a registered campaign leaves. *)
Blocked(failed, baseline, items) ==
  /\ \A f \in failed :
       \E i \in items : /\ i.key = KeyOfFailure(f) /\ ~IsClosed(i)
                        /\ f.ttp \in baseline => ClassifyItem(i) = "critical"
  /\ (\E f \in failed : f.ttp \in baseline) => ThresholdExit(items, "block") = 1

LEMMA RegisteredRelapse ==
  ASSUME NEW failed, NEW baseline, NEW items, NEW old, IsFiniteSet(items),
         items = Merge(old, {BuildPoamItem(f, baseline) : f \in failed})
  PROVE  Blocked(failed, baseline, items)
<1>1. ASSUME NEW f \in failed
      PROVE  LET i == BuildPoamItem(f, baseline) IN
             /\ i \in items /\ i.key = KeyOfFailure(f) /\ ~IsClosed(i)
             /\ f.ttp \in baseline => ClassifyItem(i) = "critical"
  <2> DEFINE i == BuildPoamItem(f, baseline)
             entry == IF f.ttp \in baseline THEN "relapse" ELSE "registered"
             risk == IF f.ttp \in baseline THEN "critical" ELSE DefaultRisk(f.ttp)
  <2>1. i \in items
    BY DEF Merge
  <2>2. i = [key |-> KeyOfFailure(f), risk |-> risk, status |-> "planned", entries |-> <<entry>>]
    BY DEF BuildPoamItem, Item
  <2>3. entry \notin Keyworded
    BY DEF Keyworded
  <2> HIDE DEF entry
  <2>4. ~IsClosed(i)
    <3>1. i.entries = <<entry>>
      BY <2>2
    <3> HIDE DEF i
    <3>2. Last(i.entries) = entry
      BY <3>1 DEF Last
    <3>. QED  BY <2>3, <3>2 DEF IsClosed
  <2>5. f.ttp \in baseline => ClassifyItem(i) = "critical"
    <3>1. f.ttp \in baseline => i.risk = "critical"
      BY <2>2
    <3> HIDE DEF i
    <3>. QED  BY <3>1, CriticalIsKnown DEF ClassifyItem
  <2>6. i.key = KeyOfFailure(f)
    BY <2>2
  <2>. QED  BY <2>1, <2>4, <2>5, <2>6
<1>2. ASSUME NEW f \in failed, f.ttp \in baseline
      PROVE  ThresholdExit(items, "block") = 1
  <2> DEFINE C == {i \in items : ~IsClosed(i) /\ ClassifyItem(i) = "critical"}
  <2>1. BuildPoamItem(f, baseline) \in C
    BY <1>1, <1>2
  <2>2. IsFiniteSet(C)
    BY FS_Subset
  <2>3. OpenCounts(items)["critical"] = Cardinality(C)
    BY DEF OpenCounts, Severities
  <2> HIDE DEF C
  <2>4. Cardinality(C) > 0
    BY <2>1, <2>2, FS_CardinalityType, FS_EmptySet
  <2>5. "critical" \in Violations(OpenCounts(items), ReleaseLimits)
    BY <2>3, <2>4 DEF Violations, ReleaseLimits
  <2>. QED  BY <2>5 DEF ThresholdExit
<1>. QED  BY <1>1, <1>2 DEF Blocked

LEMMA OtherStepPoam ==
  ASSUME IsFiniteSet(poam'), registered' = None
  PROVE  PoamInv'
BY DEF PoamInv, RelapseIsCritical

LEMMA RegisterPoam ==
  ASSUME PoamInv, main \in Revisions, NEW live, NEW baseline, Register(live, baseline)
  PROVE  PoamInv'
<1> DEFINE failed == CollectFailures(Results[main], {"atlas", "redteam"} \cup live)
           new == {BuildPoamItem(f, baseline) : f \in failed}
<1>1. poam' = Merge(poam, new) /\ registered' = [failed |-> failed, baseline |-> baseline]
  BY DEF Register
<1>2. IsFiniteSet(failed)
  BY FailuresFinite
<1> HIDE DEF failed
<1>3. IsFiniteSet(new)
  BY <1>2, CampaignFinite
<1>5. IsFiniteSet(poam')
  <2> HIDE DEF new
  <2>. QED  BY <1>1, <1>3, MergedFinite DEF PoamInv
<1>6. Blocked(failed, baseline, poam')
  BY <1>1, <1>5, RegisteredRelapse
<1>7. registered'.failed = failed /\ registered'.baseline = baseline
  BY <1>1
<1>8. RelapseIsCritical'
  BY <1>6, <1>7 DEF RelapseIsCritical, Blocked
<1>. QED  BY <1>5, <1>8 DEF PoamInv

LEMMA NextPoam == PoamInv /\ RoadInv /\ [Next]_vars => PoamInv'
<1> SUFFICES ASSUME PoamInv, RoadInv, [Next]_vars PROVE PoamInv'
  OBVIOUS
<1>1. IsFiniteSet(poam) /\ main \in Revisions
  BY DEF PoamInv, RoadInv
<1>2. ASSUME UNCHANGED poam, registered' = None PROVE PoamInv'
  BY <1>1, <1>2, OtherStepPoam
<1>3. ASSUME NEW rev, Push(rev) PROVE PoamInv'
  BY <1>2, <1>3 DEF Push
<1>4. ASSUME NEW live, NEW baseline, Register(live, baseline) PROVE PoamInv'
  BY <1>1, <1>4, RegisterPoam
<1>5. CASE RegisterGates
  <2> DEFINE new == EmitPoamItems(Results[main], "prod")
  <2>1. poam' = Merge(poam, new) /\ registered' = None
    BY <1>5 DEF RegisterGates
  <2>2. IsFiniteSet(new)
    BY GatesFinite
  <2> HIDE DEF new
  <2>. QED  BY <1>1, <2>1, <2>2, MergedFinite, OtherStepPoam
<1>6. ASSUME NEW i, NEW j, poam' = (poam \ {i}) \cup {j}, registered' = None PROVE PoamInv'
  BY <1>1, <1>6, RewrittenFinite, OtherStepPoam
<1>7. ASSUME NEW i, NEW entry, Track(i, entry) PROVE PoamInv'
  BY <1>6, <1>7 DEF Track
<1>8. ASSUME NEW i, NEW risk, Rerate(i, risk) PROVE PoamInv'
  BY <1>6, <1>8 DEF Rerate
<1>9. CASE Rebuild
  BY <1>9, ProfileFinite, OtherStepPoam DEF Rebuild
<1>10. CASE Restore \/ Nightly \/ Atlas \/ RunElsewhere \/ DayPasses
  BY <1>2, <1>10 DEF Restore, Nightly, Atlas, RunElsewhere, DayPasses
<1>11. ASSUME NEW live, ReportAndPoam(live) PROVE PoamInv'
  BY <1>2, <1>11 DEF ReportAndPoam
<1>12. ASSUME NEW ref, NEW rev, Dispatch(ref, rev) PROVE PoamInv'
  BY <1>2, <1>12 DEF Dispatch
<1>13. ASSUME DeployUnchanged PROVE PoamInv'
  BY <1>2, <1>13 DEF DeployUnchanged
<1>14. ASSUME NEW ref,
              Gated(ref) \/ Approve(ref) \/ Refuse(ref) \/ Bump(ref) \/ Watch(ref)
                \/ Healthy(ref) \/ Degraded(ref)
       PROVE  PoamInv'
  BY <1>13, <1>14 DEF Gated, Approve, Refuse, Bump, Watch, Healthy, Degraded
<1>15. CASE UNCHANGED vars
  BY <1>15 DEF vars, PoamInv, RelapseIsCritical
<1>. QED
  BY <1>3, <1>4, <1>5, <1>7, <1>8, <1>9, <1>10, <1>11, <1>12, <1>14, <1>15 DEF Next

LEMMA InvariantRelease == Spec => [](RoadInv /\ PoamInv)
<1>1. Init => RoadInv /\ PoamInv
  <2>1. Init => IsFiniteSet(poam) /\ registered = None
    BY ProfileFinite DEF Init
  <2>2. IsFiniteSet(poam) /\ registered = None => PoamInv
    BY DEF PoamInv, RelapseIsCritical
  <2>. QED  BY <2>1, <2>2, InitRoad
<1>2. RoadInv /\ PoamInv /\ [Next]_vars => (RoadInv /\ PoamInv)'
  BY NextRoad, NextPoam
<1>. QED  BY <1>1, <1>2, PTL DEF Spec

(* A technique that the last main run withstood and a registered campaign  *)
(* finds failing is open and critical in the POA&M, also when an item for  *)
(* it was closed before, and the thresholds block                          *)
(* (scripts/ai_redteam_to_poam.py, compliance/oscal).                      *)
THEOREM RelapseBlocks == Spec => []RelapseIsCritical
<1>1. PoamInv => RelapseIsCritical
  BY DEF PoamInv
<1>. QED  BY <1>1, InvariantRelease, PTL

(* Every item counts as often in both, and as severe, that both can read.  *)
LEMMA BothCount ==
  ASSUME NEW i, ReadByMetrics(i)
  PROVE  ClassifyItem(i) = SeverityOfPoam(i)
<1>1. CASE i.risk = None
  BY <1>1, GatesAssumption DEF ClassifyItem, SeverityOfPoam, ReadByMetrics
<1>2. CASE i.risk # None
  <2>1. i.risk \in DOMAIN MetricsAliases
    BY <1>2 DEF ReadByMetrics
  <2>2. \A l \in DOMAIN MetricsAliases :
          l \in DOMAIN SeverityAliases /\ SeverityAliases[l] = MetricsAliases[l]
    BY DEF MetricsAliases, SeverityAliases
  <2>. QED  BY <1>2, <2>1, <2>2 DEF ClassifyItem, SeverityOfPoam, ReadByMetrics
<1>. QED  BY <1>1, <1>2

(* The exporter counts the open items of each severity as the gate does,   *)
(* but for those with a label it does not know, which it counts as medium: *)
(* their maps of labels have drifted apart                                 *)
(* (check_poam_thresholds.py:56, oscal_to_metrics.py:79).                  *)
THEOREM SameCounts == Spec => []GateAndMetricsAgree
<1> DEFINE unread == {i \in poam : ~IsClosed(i) /\ ~ReadByMetrics(i)}
           kept_  == poam \ unread
           gate(s) == {i \in kept_ : ~IsClosed(i) /\ ClassifyItem(i) = s}
           shown(s) == {i \in poam : ~MetricsIsClosed(i) /\ SeverityOfPoam(i) = s}
<1>1. \A i : MetricsIsClosed(i) <=> IsClosed(i)
  BY DEF IsClosed, MetricsIsClosed
<1>2. \A i \in unread : SeverityOfPoam(i) = "medium"
  BY DEF SeverityOfPoam
<1>3. \A i \in kept_ : ~IsClosed(i) => ClassifyItem(i) = SeverityOfPoam(i)
  BY BothCount
<1>4. \A s \in Severities : s # "medium" => shown(s) = gate(s)
  BY <1>1, <1>2, <1>3
<1>5. shown("medium") = gate("medium") \cup unread /\ gate("medium") \cap unread = {}
  BY <1>1, <1>2, <1>3
<1>6. ASSUME IsFiniteSet(poam)
      PROVE  Cardinality(shown("medium")) = Cardinality(gate("medium")) + Cardinality(unread)
  <2>1. IsFiniteSet(gate("medium")) /\ IsFiniteSet(unread)
    BY <1>6, FS_Subset
  <2> DEFINE A == gate("medium")
  <2>2. shown("medium") = A \cup unread /\ A \cap unread = {} /\ IsFiniteSet(A)
    BY <1>5, <2>1
  <2>3. Cardinality(A \cap unread) = 0
    BY <2>2, FS_EmptySet
  <2> HIDE DEF A, unread
  <2>4. Cardinality(A \cup unread) = Cardinality(A) + Cardinality(unread) - Cardinality(A \cap unread)
    BY <2>1, <2>2, FS_Union
  <2>5. Cardinality(A) \in Nat /\ Cardinality(unread) \in Nat
    BY <2>1, <2>2, FS_CardinalityType
  <2>. QED  BY <2>2, <2>3, <2>4, <2>5 DEF A
<1>7. PoamInv => GateAndMetricsAgree
  <2> SUFFICES ASSUME IsFiniteSet(poam) PROVE GateAndMetricsAgree
    BY DEF PoamInv
  <2> DEFINE O == OpenCounts(kept_)
             B == OpenBySeverity(poam)
  <2>1. O = [s \in Severities |-> Cardinality(gate(s))]
    BY DEF OpenCounts
  <2>2. B = [s \in Severities |-> Cardinality(shown(s))]
    BY DEF OpenBySeverity
  <2>3. "medium" \in Severities
    BY DEF Severities
  <2>4. \A s \in Severities :
          B[s] = IF s = "medium" THEN O[s] + Cardinality(unread) ELSE O[s]
    <3>1. B["medium"] = O["medium"] + Cardinality(unread)
      BY <1>6, <2>1, <2>2, <2>3
    <3>2. ASSUME NEW s \in Severities, s # "medium" PROVE B[s] = O[s]
      BY <1>4, <2>1, <2>2, <3>2
    <3> HIDE DEF O, B, unread
    <3>. QED  BY <3>1, <3>2
  <2>5. DOMAIN O = Severities /\ DOMAIN B = Severities /\ B = [s \in Severities |-> B[s]]
    BY <2>1, <2>2
  <2> HIDE DEF O, B, unread, gate, shown
  <2>6. B = [O EXCEPT !.medium = O["medium"] + Cardinality(unread)]
    BY <2>3, <2>4, <2>5
  <2>. QED  BY <2>6 DEF GateAndMetricsAgree, O, B, unread, kept_
<1>. QED  BY <1>7, InvariantRelease, PTL

-----------------------------------------------------------------------------
(* The continuous authorisation. *)

(* The policies as they are shipped: the words of the service levels are   *)
(* not those of the controls, and what the rules reach has a level of its  *)
(* own, no lower than the floor (slo-rules.yaml, cato-controls.yaml).      *)
ShippedPolicies ==
  /\ "slo" \in DOMAIN Controls
  /\ \A r \in SloRules : r.severity \in {"warning", "critical"}
  /\ \E r \in SloRules :
       r.metric = "bas_readiness_ratio" /\ r.operator = "lt" /\ r.threshold >= Floor

(* Whether it is called coverage or readiness, what the floor is held      *)
(* against is how many of the rules see the attack natively.               *)
LEMMA MeasuredIsReadiness ==
  ASSUME NEW scenarios
  PROVE  MeasuredRatio(RunBas(scenarios)) = RunBas(scenarios).readiness_ratio
<1> DEFINE detected == {s \in scenarios : Detected(s)}
           native   == {s \in detected : s.instrumentation = "native"}
<1>1. CASE detected \ native = {}
  <2>1. native = detected
    BY <1>1
  <2>. QED  BY <1>1, <2>1 DEF MeasuredRatio, RunBas
<1>2. CASE detected \ native # {}
  BY <1>2 DEF MeasuredRatio, RunBas
<1>. QED  BY <1>1, <1>2

LEMMA BreachIsHigh ==
  ASSUME NEW bas, NEW breaches, NEW findings, ShippedPolicies,
         breaches \in SUBSET SloRules, breaches # {}
  PROVE  AssessAto(bas, breaches, findings).authorization = "at_risk"
<1>1. PICK b \in breaches : b \in SloRules
  OBVIOUS
<1> DEFINE p == PoamItem("slo", "high", b)
<1>2. b.severity \notin DOMAIN SevRank
  BY <1>1 DEF ShippedPolicies, SevRank
<1>3. p \in SloGaps(breaches)
  BY <1>1, <1>2 DEF SloGaps, ShippedPolicies
<1>4. p \in Gapped(bas, breaches, findings)
  BY <1>3 DEF Gapped
<1>5. RankOf(p.severity) = SevRank.high
  BY DEF PoamItem, RankOf, SevRank
<1>6. SevRank.high >= SevRank.high
  BY DEF SevRank
<1>. QED  BY <1>4, <1>5, <1>6 DEF AssessAto, Authorize

(* What a scrape reads the rules from. *)
Readings(scenarios, read) ==
  LET bas == RunBas(scenarios)
  IN  [m \in DOMAIN read \cup DOMAIN BasMetrics(bas) |->
         IF m \in DOMAIN BasMetrics(bas) THEN BasMetrics(bas)[m] ELSE read[m]]

LEMMA ReadinessIsRead ==
  ASSUME NEW scenarios, NEW counters, NEW judged, NEW read
  PROVE  LET values == Snapshot(counters, judged, Readings(scenarios, read))
         IN  /\ "bas_readiness_ratio" \in DOMAIN values
             /\ values["bas_readiness_ratio"] = RunBas(scenarios).readiness_ratio
<1> DEFINE M == BasMetrics(RunBas(scenarios))
           seen == Readings(scenarios, read)
<1>1. "bas_readiness_ratio" \in DOMAIN M /\ M["bas_readiness_ratio"] = RunBas(scenarios).readiness_ratio
  BY DEF BasMetrics
<1> HIDE DEF M
<1>2. "bas_readiness_ratio" \in DOMAIN seen /\ seen["bas_readiness_ratio"] = RunBas(scenarios).readiness_ratio
  <2>1. seen = [m \in DOMAIN read \cup DOMAIN M |-> IF m \in DOMAIN M THEN M[m] ELSE read[m]]
    BY DEF Readings, M
  <2>. QED  BY <1>1, <2>1
<1> HIDE DEF seen
<1>3. "bas_readiness_ratio" \notin Counters
  BY DEF Counters
<1>. QED  BY <1>2, <1>3 DEF Snapshot, seen

(* A ratio is a number. *)
LEMMA RatioIsNat ==
  ASSUME NEW n \in Nat, NEW total \in Nat PROVE Ratio(n, total) \in Nat
BY DEF Ratio

(* The floor of the controls never decides: whatever the rules, the        *)
(* counters and the rest of what is read, a scrape says authorized when no *)
(* service level is broken and at risk when one is, and never conditional  *)
(* (app/metrics.py _cato_metrics).                                         *)
THEOREM AuthorizedOrAtRisk ==
  ASSUME ShippedPolicies,
         NEW scenarios, IsFiniteSet(scenarios), NEW counters, NEW judged, NEW read
  PROVE  Scrape(scenarios, counters, judged, read).authorization =
           IF Breaches(Snapshot(counters, judged, Readings(scenarios, read))) = {}
           THEN "authorized" ELSE "at_risk"
<1> DEFINE bas == RunBas(scenarios)
           values == Snapshot(counters, judged, Readings(scenarios, read))
           broken == Breaches(values)
<1>1. Scrape(scenarios, counters, judged, read) = AssessAto(bas, broken, {})
  BY DEF Scrape, Readings
<1>2. broken \in SUBSET SloRules
  BY DEF Breaches
<1>3. CASE broken # {}
  <2> HIDE DEF broken, bas
  <2>. QED  BY <1>1, <1>2, <1>3, BreachIsHigh DEF broken
<1>4. CASE broken = {}
  <2>1. PICK r \in SloRules :
          r.metric = "bas_readiness_ratio" /\ r.operator = "lt" /\ r.threshold >= Floor
    BY DEF ShippedPolicies
  <2>2. r.threshold \in Int /\ Floor \in Nat
    BY <2>1, AtoAssumption
  <2>3. bas.readiness_ratio \in Nat
    <3> DEFINE D == {s \in scenarios : Detected(s)}
               N == {s \in D : s.instrumentation = "native"}
    <3>1. IsFiniteSet(N) /\ N \subseteq scenarios
      BY FS_Subset
    <3>2. Cardinality(N) \in Nat /\ Cardinality(scenarios) \in Nat
      BY <3>1, FS_CardinalityType
    <3>3. bas.readiness_ratio = Ratio(Cardinality(N), Cardinality(scenarios))
      BY DEF RunBas
    <3>. QED  BY <3>2, <3>3, RatioIsNat
  <2>4. ~(bas.readiness_ratio < r.threshold)
    <3>1. ~Violates(values[r.metric], r)
      BY <1>4, <2>1, ReadinessIsRead DEF Breaches
    <3>. QED  BY <3>1, <2>1, ReadinessIsRead DEF Violates
  <2>5. ~(MeasuredRatio(bas) < Floor)
    <3>1. MeasuredRatio(bas) = bas.readiness_ratio
      BY MeasuredIsReadiness
    <3> HIDE DEF bas
    <3>. QED  BY <3>1, <2>1, <2>2, <2>3, <2>4
  <2> HIDE DEF broken, bas, values
  <2>6. BasGap(bas) = {}
    BY <2>5 DEF BasGap
  <2>7. Gapped(bas, broken, {}) = {}
    BY <1>4, <2>6 DEF Gapped, SloGaps, SbomGaps
  <2>. QED  BY <1>1, <1>4, <2>7 DEF AssessAto, Authorize, broken, values, bas
<1>. QED  BY <1>3, <1>4

(* A service level on a counter, once broken, stays broken: the counters   *)
(* run from the start of the process, so what is meant as a surge of       *)
(* alerts (slo-rules.yaml alerts_total) puts the platform at risk for good.*)
THEOREM SurgeNeverEnds ==
  ASSUME ShippedPolicies,
         NEW now \in [Counters -> Nat], NEW later \in [Counters -> Nat],
         \A m \in Counters : now[m] <= later[m],
         NEW judged, NEW judged_later, NEW read, NEW read_later,
         NEW scenarios, NEW scenarios_later,
         NEW rule \in Breaches(Snapshot(now, judged, Readings(scenarios, read))),
         rule.metric \in Counters, rule.operator = "gt"
  PROVE  Scrape(scenarios_later, later, judged_later, read_later).authorization = "at_risk"
<1> DEFINE values  == Snapshot(now, judged, Readings(scenarios, read))
           current == Snapshot(later, judged_later, Readings(scenarios_later, read_later))
<1>1. rule \in SloRules /\ rule.threshold \in Int
  BY AtoAssumption DEF Breaches
<1>2. values[rule.metric] = now[rule.metric]
  BY DEF Snapshot, Counters
<1>3. rule.metric \in DOMAIN current /\ current[rule.metric] = later[rule.metric]
  BY DEF Snapshot, Counters
<1>4. now[rule.metric] > rule.threshold
  <2>1. Violates(values[rule.metric], rule)
    BY DEF Breaches
  <2>. QED  BY <2>1, <1>2 DEF Violates
<1>5. later[rule.metric] > rule.threshold
  <2>1. now[rule.metric] \in Nat /\ later[rule.metric] \in Nat /\ now[rule.metric] <= later[rule.metric]
    OBVIOUS
  <2>. QED  BY <1>1, <1>4, <2>1
<1> HIDE DEF current
<1>6. rule \in Breaches(current)
  BY <1>1, <1>3, <1>5 DEF Breaches, Violates
<1>7. Breaches(current) \in SUBSET SloRules
  BY DEF Breaches
<1>8. Scrape(scenarios_later, later, judged_later, read_later)
        = AssessAto(RunBas(scenarios_later), Breaches(current), {})
  BY DEF Scrape, Readings, current
<1>. QED  BY <1>6, <1>7, <1>8, BreachIsHigh
=============================================================================
