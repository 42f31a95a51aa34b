------------------------------ MODULE SimBridge ------------------------------
(***************************************************************************)
(* The simulator bridge (sim_bridge/): the telemetry of the vehicle goes   *)
(* record by record through the detector of GNSS spoofing, an alert goes   *)
(* through the pipeline, the records that follow it are gathered into a    *)
(* window, the window is judged by what happened to the vehicle, and the   *)
(* judgement waits in a queue for the worker that learns from it.  A run   *)
(* of the pipeline that raises ends the stream, as run_stream and          *)
(* scripts/sim_live_bridge.py do not catch it.                             *)
(*                                                                         *)
(* One step is one record, one poll of the worker, or a call of the owner  *)
(* of the stream.  A record is reduced to what the thresholds tell apart.  *)
(* What the pipeline does with an alert is SocPipeline's; here its run     *)
(* returns or raises.  Counters that only ever meet one threshold stop at  *)
(* it.                                                                     *)
(***************************************************************************)
EXTENDS Integers, SequencesExt, Positions

CONSTANTS
  CorrWindow,        \* records for which an EKF anomaly is kept
  RearmAfter,        \* clean records that rearm the detector
  EphJump,           \* what a jump of Eph is
  Ephs,              \* the values of Eph that come
  OutcomeWindow,     \* records of a window
  EffectMin,         \* records in a row that make an effect
  MinObservations,   \* records without which nothing is called ineffective
  RecordsPerMinute,  \* how records are converted to minutes
  MinWindowForFp,    \* minutes without which nothing is learned ineffective
  NoEph,             \* a record that carries no Eph
  MaxAlerts          \* bound: the alerts whose run returned

ASSUME BridgeAssumption ==
  /\ {CorrWindow, RearmAfter, OutcomeWindow, EffectMin, RecordsPerMinute} \subseteq Nat \ {0}
  /\ {EphJump, MinObservations, MinWindowForFp, MaxAlerts} \subseteq Nat
  /\ Ephs \subseteq Int /\ NoEph \notin Ephs

(* EKF_STATUS_REPORT with or without an anomaly, and GPS_RAW_INT. *)
EkfRecords == [type : {"EKF_STATUS_REPORT"}, anomaly : BOOLEAN]
GpsRecords == [type : {"GPS_RAW_INT"}, eph : Ephs \cup {NoEph}, few : BOOLEAN]
TelemetryRecords == EkfRecords \cup GpsRecords

VARIABLES
  detector,  \* GpsSpoofDetector
  pending,   \* alerts whose window is being gathered, oldest first
  queue,     \* SimBridgeObservationSource: judged windows
  learned,   \* what the worker polled, oldest first
  raised,    \* how many alerts came out of the pipeline
  open,      \* whether the stream of records is read
  heard      \* history: the raw telemetry, see Hear

judging == <<pending, queue, raised>>
bridge == <<detector, judging, learned, heard, open>>

Quiet ==
  [last_eph |-> NoEph, ekf_signal |-> FALSE, ekf_ttl |-> 0,
   eph_jumped |-> FALSE, few |-> FALSE, fired |-> FALSE, clean_streak |-> 0]

(* spoofed: alerts after which a threat was heard before their window was  *)
(* full; since_anomaly: records since the last EKF anomaly; degraded: what the   *)
(* last GPS record said.                                                   *)
Unheard ==
  [since_anomaly |-> CorrWindow, degraded |-> FALSE, spoofed |-> {}]

BridgeInit ==
  /\ detector = Quiet
  /\ pending = <<>> /\ queue = <<>> /\ learned = <<>>
  /\ raised = 0
  /\ heard = Unheard
  /\ open = TRUE

-----------------------------------------------------------------------------
(* The detector. *)

Least(m, n) == IF m <= n THEN m ELSE n

Jumped(d, r) ==
  /\ r.eph # NoEph /\ d.last_eph # NoEph
  /\ r.eph - d.last_eph >= EphJump

(* Faulty variant of UpdateEkf: a record without an anomaly ends the window. *)
UpdateEkfClears(d, r) ==
  [d EXCEPT !.ekf_signal = r.anomaly, !.ekf_ttl = IF r.anomaly THEN CorrWindow ELSE 0]

(* _update_ekf: an anomaly arms the window, its absence leaves it alone. *)
UpdateEkf(d, r) ==
  IF r.anomaly THEN [d EXCEPT !.ekf_signal = TRUE, !.ekf_ttl = CorrWindow] ELSE d

(* _update_gps: the signals are those of the last GPS record. *)
UpdateGps(d, r) ==
  [d EXCEPT !.last_eph = IF r.eph = NoEph THEN @ ELSE r.eph,
            !.eph_jumped = Jumped(d, r),
            !.few = r.few]

Updated(d, r) ==
  IF r.type = "EKF_STATUS_REPORT" THEN UpdateEkf(d, r) ELSE UpdateGps(d, r)

(* The window counts down on every record, the one that armed it too. *)
Aged(d) ==
  [d EXCEPT !.ekf_ttl = IF @ > 0 THEN @ - 1 ELSE @,
            !.ekf_signal = @ /\ d.ekf_ttl # 1]

GpsSignals(d) == d.eph_jumped \/ d.few

Rearmed(d) ==
  IF d.ekf_signal \/ GpsSignals(d)
  THEN [d EXCEPT !.clean_streak = 0]
  ELSE LET n == Least(d.clean_streak + 1, RearmAfter) IN
       [d EXCEPT !.clean_streak = n, !.fired = @ /\ n < RearmAfter]

Sensed(d, r) == Rearmed(Aged(Updated(d, r)))

(* observe: an EKF anomaly and a second signal, once per incident. *)
Detects(sensed) == sensed.ekf_signal /\ GpsSignals(sensed) /\ ~sensed.fired

Observed(sensed) == [sensed EXCEPT !.fired = @ \/ Detects(sensed)]

-----------------------------------------------------------------------------
(* The windows. *)

(* _threat_present: an EKF anomaly or few satellites, but no jump of Eph. *)
ThreatPresent(r) == IF r.type = "EKF_STATUS_REPORT" THEN r.anomaly ELSE r.few

(* The longest run of threats in a row is n or longer. *)
HasRun(window, n) ==
  \E i \in 0..(Len(window) - n) : \A k \in 1..n : window[i + k]

(* OutcomeProbe.assess: an effect is believed from any window, its absence *)
(* only from a long one.                                                   *)
Assess(window) ==
  IF HasRun(window, EffectMin) THEN "confirmed_tp"
  ELSE IF Len(window) >= MinObservations /\ ~HasRun(window, 1) THEN "confirmed_fp"
  ELSE "inconclusive"

OutcomeItem(p) ==
  [alert |-> p.alert, assessed |-> Assess(p.records), observations |-> Len(p.records)]

(* Faulty variant of Grown: only the oldest window takes the record. *)
GrownOldest(ps, r) ==
  [i \in DOMAIN ps |->
     IF i = 1 THEN [ps[i] EXCEPT !.records = Append(@, ThreatPresent(r))] ELSE ps[i]]

(* _accumulate_pending: every window takes the record. *)
Grown(ps, r) ==
  [i \in DOMAIN ps |-> [ps[i] EXCEPT !.records = Append(@, ThreatPresent(r))]]

Complete(p) == Len(p.records) >= OutcomeWindow

(* Faulty variants: a window that settles nothing is dropped, and a full one stays. *)
CompletedDecided(ps) ==
  At(ps, {i \in DOMAIN ps : Complete(ps[i]) /\ Assess(ps[i].records) # "inconclusive"})
GrowingKeepsFull(ps) == ps

Completed(ps) == At(ps, {i \in DOMAIN ps : Complete(ps[i])})
Growing(ps) == At(ps, {i \in DOMAIN ps : ~Complete(ps[i])})

Items(ps) == [i \in DOMAIN ps |-> OutcomeItem(ps[i])]

-----------------------------------------------------------------------------
(* What the worker learns. *)

(* round(): to the nearest, halves to the even one. *)
Rounded(n, d) ==
  LET q == n \div d
      twice == 2 * (n % d)
  IN IF twice > d \/ (twice = d /\ q % 2 = 1) THEN q + 1 ELSE q

(* _to_observation: the minutes of a window, one at least. *)
WindowMin(item) == Max({1, Rounded(item.observations, RecordsPerMinute)})

(* ProbeEngine.decide on the observation.  The alerts of the simulator name *)
(* no actor, so none reoccurs, and no decoy is touched.                     *)
Decide(item) ==
  CASE item.assessed = "confirmed_tp" -> "tp"
    [] item.assessed = "confirmed_fp" /\ WindowMin(item) >= MinWindowForFp -> "fp"
    [] OTHER -> "inconclusive"

Lesson(item) == [alert |-> item.alert, verdict |-> Decide(item)]

-----------------------------------------------------------------------------
(* Steps. *)

Hear(r, sensed) ==
  heard' =
    [since_anomaly |-> IF r.type = "EKF_STATUS_REPORT" /\ r.anomaly
                       THEN 0 ELSE Least(heard.since_anomaly + 1, CorrWindow),
     degraded |-> IF r.type = "GPS_RAW_INT" THEN r.few ELSE heard.degraded,
     spoofed |-> heard.spoofed \cup
                   (IF ThreatPresent(r) THEN {pending[i].alert : i \in DOMAIN pending}
                    ELSE {})]

(* process: the windows take the record before the detector sees it, so an *)
(* alert's own record is not in its window.                                *)
Take(r, sensed, alerts) ==
  LET grown == Grown(pending, r) IN
  /\ open
  /\ detector' = Observed(sensed)
  /\ pending' = Growing(grown) \o alerts
  /\ queue' = queue \o Items(Completed(grown))
  /\ raised' = raised + Len(alerts)
  /\ Hear(r, sensed)
  /\ UNCHANGED learned

Process(r) ==
  LET sensed == Sensed(detector, r)
      alerts == IF Detects(sensed) THEN <<[alert |-> raised + 1, records |-> <<>>]>>
                ELSE <<>>
  IN /\ raised + Len(alerts) <= MaxAlerts
     /\ Take(r, sensed, alerts)
     /\ UNCHANGED open

(* The run of the pipeline raises: the alert leaves no window, the         *)
(* detector holds it for fired, and nobody reads on.                       *)
ProcessRaises(r) ==
  LET sensed == Sensed(detector, r) IN
  /\ Detects(sensed)
  /\ Take(r, sensed, <<>>)
  /\ open' = FALSE

(* flush_pending: at the end of a stream, short windows are judged too. *)
FlushPending ==
  /\ pending # <<>>
  /\ queue' = queue \o Items(pending)
  /\ pending' = <<>>
  /\ UNCHANGED <<detector, learned, raised, heard, open>>

(* apoll: the worker takes the whole queue. *)
Poll ==
  /\ queue # <<>>
  /\ learned' = learned \o [i \in DOMAIN queue |-> Lesson(queue[i])]
  /\ queue' = <<>>
  /\ UNCHANGED <<detector, pending, raised, heard, open>>

(* reset: the owner calls an incident over. *)
Reset ==
  /\ detector' = Quiet
  /\ heard' = [Unheard EXCEPT !.spoofed = heard.spoofed]
  /\ UNCHANGED <<judging, learned, open>>

(* run_stream: the records are over, or the owner reads on with the same   *)
(* bridge, the windows as they were left.                                  *)
StreamEnds ==
  /\ open /\ open' = FALSE
  /\ UNCHANGED <<detector, judging, learned, heard>>
RunStream ==
  /\ ~open /\ open' = TRUE
  /\ UNCHANGED <<detector, judging, learned, heard>>

Receive == \E r \in TelemetryRecords : Process(r)
RunFails == \E r \in TelemetryRecords : ProcessRaises(r)

BridgeNext ==
  \/ Receive \/ RunFails \/ StreamEnds \/ RunStream
  \/ FlushPending \/ Poll \/ Reset

(* As long as the stream is read the vehicle reports at a steady rate.     *)
(* Nothing is assumed of what the repository leaves to others: to read on  *)
(* after an end, to flush, to poll.                                        *)
Fairness == WF_bridge(Receive)

BridgeSpec == BridgeInit /\ [][BridgeNext]_bridge /\ Fairness

-----------------------------------------------------------------------------
(* Properties. *)

Windows == UNION {[1..n -> BOOLEAN] : n \in 0..(OutcomeWindow - 1)}

Assessments == {"confirmed_tp", "confirmed_fp", "inconclusive"}

(* Every variable holds what the code keeps in it; a window that is full is *)
(* no longer pending.                                                       *)
TypeOK ==
  /\ detector \in [last_eph : Ephs \cup {NoEph}, ekf_signal : BOOLEAN,
                    ekf_ttl : 0..CorrWindow, eph_jumped : BOOLEAN, few : BOOLEAN,
                    fired : BOOLEAN, clean_streak : 0..RearmAfter]
  /\ raised \in 0..MaxAlerts
  /\ pending \in Seq([alert : 1..MaxAlerts, records : Windows])
  /\ queue \in Seq([alert : 1..MaxAlerts, assessed : Assessments,
                     observations : 0..OutcomeWindow])
  /\ learned \in Seq([alert : 1..MaxAlerts, verdict : {"tp", "fp", "inconclusive"}])
  /\ heard \in [since_anomaly : 0..CorrWindow, degraded : BOOLEAN,
                 spoofed : SUBSET (1..MaxAlerts)]
  /\ open \in BOOLEAN

(* The two halves of a spoofing arrive in messages of different types and   *)
(* an EKF anomaly lasts an instant: an anomaly and few satellites that come *)
(* close enough are caught, whatever came between them and whichever came   *)
(* first (detector.observe).                                                *)
CorrelatedIsCaught ==
  heard.since_anomaly <= CorrWindow - 2 /\ heard.degraded => detector.fired

Alerts(seq) == [i \in DOMAIN seq |-> seq[i].alert]

(* Each alert that came out of the pipeline is in one place, once, and in   *)
(* the order of the alerts: windows that overlap, a flush in mid-window and *)
(* a poll between two records lose and repeat none.                         *)
OneOutcomePerAlert ==
  Alerts(learned) \o Alerts(queue) \o Alerts(pending) = [n \in 1..raised |-> n]

(* What is learned to be harmless showed no threat in the whole window that *)
(* followed its alert, overlapping ones included.                           *)
ForgivenIsQuiet ==
  \A i \in DOMAIN learned :
    learned[i].verdict = "fp" => learned[i].alert \notin heard.spoofed

(* A window whose stream is read on is judged, whatever other windows      *)
(* begin or end meanwhile: only a stream that ends, as it does when a run  *)
(* of the pipeline raises, leaves an alert without an outcome.             *)
OutcomeArrives ==
  \A n \in 1..MaxAlerts :
    raised >= n ~> \/ \E i \in DOMAIN queue : queue[i].alert = n
                   \/ \E i \in DOMAIN learned : learned[i].alert = n
                   \/ ~open

=============================================================================
