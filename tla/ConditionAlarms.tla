--------------------------- MODULE ConditionAlarms ---------------------------
(***************************************************************************)
(* The maintenance tick's condition alarms: an asset whose positions stop  *)
(* (rules/offline.py), a camera that goes blind (vision/service.py), a     *)
(* zone over its capacity (rules/occupancy.py).  Each detector reads what  *)
(* ingest stored, then writes an alarm unless one covers the episode; the  *)
(* tick runs it in its own transaction and survives its failure            *)
(* (ingest/tick.py).  Reports may arrive late, people acknowledge alarms,  *)
(* change caps and disable cameras, retention deletes alarms and health.   *)
(*                                                                         *)
(* The detectors treat their subjects one by one, so a behaviour is about  *)
(* one subject of one kind.                                                *)
(***************************************************************************)
EXTENDS Integers, FiniteSets, FiniteSetsExt

CONSTANTS
  SilentAfter,     \* offline_threshold_s, vision_camera_stale_s
  Caps,            \* values of a zone's max_occupancy; NoCap: not opted in, or malformed
  MaxInside,       \* assets that can be inside a zone
  KeepAlarms,      \* retain_events_days
  KeepHealth,      \* retain_vision_health_days
  ConditionSteps,  \* changes by people and failed steps in a behaviour
  ConditionEnd     \* the last clock value

ASSUME ConditionAssumption == ConditionEnd \in Nat

VARIABLES
  condKind,        \* "asset", "camera" or "zone"
  condNow,         \* the server's clock
  condReports,     \* stored fixes or health rows: [ts, says]
  condZone,        \* [inside, cap]: assets confirmed inside and the zone's cap
  condEnabled,     \* the camera's enabled flag
  condAlarms,      \* alarm rows: [ts, state, cleared]
  condScan,        \* what the running detector has read, or NoScan
  condSteps,       \* steps of people and failures left
  condSpell        \* alarms raised since the subject was last seen back, or since a run of
                   \* no signal newer than the last of them

condVars == <<condKind, condNow, condReports, condZone, condEnabled, condAlarms,
              condScan, condSteps, condSpell>>

NoCap == -1
NoScan == [at |-> -1, reports |-> {}, zone |-> [inside |-> 0, cap |-> NoCap]]

(* What a report says: a fix its ignition (unknown counts as running), a health
   row whether frames arrive (a frozen picture has a frame time: not streamless). *)
Says == IF condKind = "asset" THEN {"running", "parked"} ELSE {"frames", "streamless"}

ConditionInit ==
  /\ condKind \in {"asset", "camera", "zone"}
  /\ condNow = 0 /\ condReports = {} /\ condEnabled = TRUE
  /\ condZone \in [inside : {0}, cap : Caps]
  /\ condAlarms = {} /\ condScan = NoScan /\ condSpell = 0
  /\ condSteps = ConditionSteps

-----------------------------------------------------------------------------
(* The world and ingest. *)

LastAlarm == Max({a.ts : a \in condAlarms} \cup {-1})
Capped(z) == z.cap # NoCap
Over(z) == Capped(z) /\ z.inside > z.cap

TimePasses == /\ condNow < ConditionEnd
              /\ condNow' = condNow + 1
              /\ UNCHANGED <<condKind, condReports, condZone, condEnabled, condAlarms,
                             condScan, condSteps, condSpell>>

(* What shows that a subject was back: any fix of an asset, but of a camera a health
   row with frames only, a node without a signal being just as blind as a silent one. *)
ShowsBack(r) == condKind = "asset" \/ r.says # "streamless"

(* A fix or a health row is stored, perhaps long after its device took it. *)
ReportArrives(ts, says) ==
  /\ condKind # "zone"
  /\ ts <= condNow /\ \A r \in condReports : r.ts # ts
  /\ LET report == [ts |-> ts, says |-> says]
     IN  /\ condReports' = condReports \cup {report}
         /\ condSpell' = IF ShowsBack(report) /\ ts > LastAlarm THEN 0 ELSE condSpell
  /\ UNCHANGED <<condKind, condNow, condZone, condEnabled, condAlarms, condScan, condSteps>>

ZoneChanges(z) ==
  /\ condZone' = z
  /\ condSpell' = IF Capped(z) /\ ~Over(z) THEN 0 ELSE condSpell
  /\ UNCHANGED <<condKind, condNow, condReports, condEnabled, condAlarms, condScan>>

(* The zone engine confirms an entry or an exit. *)
OccupancyChanges(n) ==
  /\ condKind = "zone" /\ n \in {condZone.inside - 1, condZone.inside + 1}
  /\ n \in 0 .. MaxInside
  /\ ZoneChanges([condZone EXCEPT !.inside = n]) /\ UNCHANGED condSteps

PersonOrFault == condSteps > 0 /\ condSteps' = condSteps - 1

SetCap(cap) ==
  /\ condKind = "zone" /\ cap # condZone.cap /\ PersonOrFault
  /\ ZoneChanges([condZone EXCEPT !.cap = cap])

SetEnabled ==
  /\ condKind = "camera" /\ PersonOrFault
  /\ condEnabled' = ~condEnabled
  /\ UNCHANGED <<condKind, condNow, condReports, condZone, condAlarms, condScan, condSpell>>

AcknowledgeAlarm(a) ==
  /\ a.state = "open" /\ PersonOrFault
  /\ condAlarms' = (condAlarms \ {a}) \cup {[a EXCEPT !.state = "acknowledged"]}
  /\ UNCHANGED <<condKind, condNow, condReports, condZone, condEnabled, condScan, condSpell>>

(* run_retention: alarms and health rows past their classes' age; a deleted alarm
   no longer covers its episode. *)
Retention ==
  LET old == {a \in condAlarms : a.ts < condNow - KeepAlarms}
      gone == {r \in condReports : condKind = "camera" /\ r.ts < condNow - KeepHealth}
  IN  /\ condScan = NoScan
      /\ old # {} \/ gone # {}
      /\ condAlarms' = condAlarms \ old
      /\ condReports' = condReports \ gone
      /\ condSpell' = IF LastAlarm \in {a.ts : a \in old} THEN 0 ELSE condSpell
      /\ UNCHANGED <<condKind, condNow, condZone, condEnabled, condScan, condSteps>>

-----------------------------------------------------------------------------
(* The detectors. *)

Newest(R) == CHOOSE r \in R : \A q \in R : q.ts <= r.ts

(* detect_offline: when the current silence began, if it is one. *)
AssetSilence(scan) ==
  {r.ts : r \in {q \in scan.reports : /\ q = Newest(scan.reports)
                                      /\ scan.at - q.ts > SilentAfter
                                      /\ q.says # "parked"}}

\* Mutant: every report without a signal starts the run again.
LatestNoSignal(R) ==
  LET run == {r.ts : r \in {q \in R : q.says = "streamless"}}
  IN  IF run = {} THEN {} ELSE {Max(run)}

(* _no_signal_since: the start of the unbroken run of streamless health. *)
NoSignalSince(R) ==
  LET good == {r.ts : r \in {q \in R : q.says = "frames"}}
      run == {r.ts : r \in {q \in R : q.says = "streamless" /\ \A g \in good : q.ts > g}}
  IN  IF run = {} THEN {} ELSE {Min(run)}

(* detect_camera_offline: when the current blind window began. *)
CameraBlindness(scan) ==
  LET last == Newest(scan.reports).ts
      down == IF Newest(scan.reports).says = "streamless" THEN NoSignalSince(scan.reports) ELSE {}
      cutoff == scan.at - SilentAfter
  IN  IF scan.reports = {} \/ ~condEnabled THEN {}
      ELSE IF last >= cutoff THEN {d \in down : d < cutoff}
      ELSE IF down = {} THEN {last} ELSE down

(* alarmed_since: an alarm raised since the episode began covers it, whatever its state. *)
AlarmedSince(since) == \E a \in condAlarms : a.ts >= since

\* Mutant: a cleared breach still counts, so the zone is never armed again.
ClearedOrNot == {a \in condAlarms : a.ts = LastAlarm}

(* _current_breach: the zone's latest alarm, if its episode was not cleared. *)
CurrentBreach == {a \in condAlarms : a.ts = LastAlarm /\ ~a.cleared}

DetectorReads ==
  /\ condScan = NoScan
  /\ condScan' = [at |-> condNow, reports |-> condReports, zone |-> condZone]
  /\ UNCHANGED <<condKind, condNow, condReports, condZone, condEnabled, condAlarms,
                 condSteps, condSpell>>

NewAlarm(ts) == [ts |-> ts, state |-> "open", cleared |-> FALSE]

(* The subject is already back when the alarm is written. *)
BackSince(ts) == IF condKind = "zone" THEN Capped(condZone) /\ ~Over(condZone)
                 ELSE \E r \in condReports : ShowsBack(r) /\ r.ts > ts

(* The camera's node reports no signal, in a run of which no row that was read is as old
   as the last alarm. *)
RunIsNew(R) ==
  /\ condKind = "camera" /\ Newest(R).says = "streamless"
  /\ \A r \in R : r.says = "streamless" /\ r.ts <= LastAlarm =>
                   \E g \in R : g.says = "frames" /\ g.ts >= r.ts

RaiseIf(due) ==
  /\ condAlarms' = IF due THEN condAlarms \cup {NewAlarm(condScan.at)} ELSE condAlarms
  /\ condSpell' = IF ~due THEN condSpell
                  ELSE IF BackSince(condScan.at) THEN 0
                  ELSE IF RunIsNew(condScan.reports) THEN 1 ELSE condSpell + 1

DetectorEnds ==
  /\ condScan # NoScan /\ condScan' = NoScan
  /\ UNCHANGED <<condKind, condNow, condReports, condZone, condEnabled, condSteps>>

DetectOffline ==
  /\ condKind = "asset" /\ DetectorEnds
  /\ RaiseIf(\E since \in AssetSilence(condScan) : ~AlarmedSince(since))

DetectCameraOffline ==
  /\ condKind = "camera" /\ DetectorEnds
  /\ RaiseIf(\E since \in CameraBlindness(condScan) : ~AlarmedSince(since))

DetectZoneOccupancy ==
  /\ condKind = "zone" /\ DetectorEnds
  /\ IF Capped(condScan.zone) /\ ~Over(condScan.zone)
     THEN /\ condAlarms' = (condAlarms \ CurrentBreach)
                             \cup {[a EXCEPT !.cleared = TRUE] : a \in CurrentBreach}
          /\ UNCHANGED condSpell
     ELSE RaiseIf(Over(condScan.zone) /\ CurrentBreach = {})

(* tick.run: the step fails and is rolled back; the next tick retries it. *)
DetectorFails ==
  /\ condScan # NoScan /\ condScan' = NoScan /\ PersonOrFault
  /\ UNCHANGED <<condKind, condNow, condReports, condZone, condEnabled, condAlarms, condSpell>>

Detector == DetectorReads \/ DetectOffline \/ DetectCameraOffline \/ DetectZoneOccupancy

ConditionNext ==
  \/ TimePasses
  \/ \E ts \in 0 .. ConditionEnd, says \in Says : ReportArrives(ts, says)
  \/ \E n \in 0 .. MaxInside : OccupancyChanges(n)
  \/ \E cap \in Caps : SetCap(cap)
  \/ SetEnabled
  \/ \E a \in condAlarms : AcknowledgeAlarm(a)
  \/ Retention
  \/ DetectorFails
  \/ Detector

(* The tick runs for ever; reports, people and faults owe nothing. *)
ConditionSpec == ConditionInit /\ [][ConditionNext]_condVars /\ WF_condVars(Detector)

-----------------------------------------------------------------------------
(* One alarm per episode: an alarm is followed by another only after the subject
   showed that it was back (a fix or a health row with frames taken after the
   alarm, occupancy within the cap) or retention deleted the alarm; late reports,
   heartbeats without a signal, acknowledgements, failed steps and a report stored
   while the detector runs raise none (detect_offline, detect_camera_offline,
   detect_zone_occupancy).  One exception, once per run: a camera whose node
   reports no signal in a run that, as stored, began after the last alarm. *)
OneAlarmPerEpisode == condSpell <= 1

Scan == [at |-> condNow, reports |-> condReports, zone |-> condZone]
Unalarmed ==
  \/ condKind = "asset" /\ \E since \in AssetSilence(Scan) : LastAlarm < since
  \/ condKind = "camera" /\ \E since \in CameraBlindness(Scan) : LastAlarm < since
  \/ condKind = "zone" /\ Over(condZone) /\ \A a \in condAlarms : a.cleared

(* No condition stays unseen: an asset that stays silent, a camera that stays
   blind and a zone that stays over its cap get an alarm of this episode, whatever
   alarms earlier episodes left behind and whoever acknowledged them. *)
ConditionsAlarmed == Unalarmed ~> ~Unalarmed
=============================================================================
