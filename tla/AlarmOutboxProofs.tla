-------------------------- MODULE AlarmOutboxProofs --------------------------
(***************************************************************************)
(* An alarm, its notification rows and its incident stay together while    *)
(* retention deletes, the dispatcher sends and supervisors act, and no     *)
(* notification repeats without a fault; for any alarms and recipients.    *)
(***************************************************************************)
EXTENDS AlarmOutbox, OutboxProofs

LEMMA RetainNat == Retain \in Nat /\ Retain > 0
  BY RetainAssumption DEF RetainAssumption

AlarmTypes ==
  /\ event \in [Sources -> {"none", "stored", "purged"}]
  /\ age \in [Sources -> Nat]
  /\ incident \in [Sources -> {"none", "open", "closed"}]
  /\ doomed \subseteq Sources /\ dropped \subseteq Sources

\* The rows of an alarm are there while it is within its window and gone once it is gone; what
\* the open retention run has chosen stays past its window.
WholeInv ==
  /\ \A i \in Items : /\ event[i[1]] = "stored" /\ age[i[1]] < Retain => row[i].state # "none"
                      /\ row[i].state # "none" => event[i[1]] = "stored"
  /\ \A s \in doomed : age[s] >= Retain
  /\ IncidentKeepsAlarm

\* Nothing has been sent of an alarm that has not been raised, but for faults.
FreshInv == \A i \in Items : event[i[1]] = "none" => delivered[i] <= faults

IndInv == OutboxInv /\ AlarmTypes /\ WholeInv /\ FreshInv

\* A message is of an alarm and for a target.
LEMMA ItemParts == /\ \A i \in Items : i[1] \in Sources
                   /\ \A s \in Sources, t \in Targets : <<s, t>> \in Items /\ <<s, t>>[1] = s
  BY DEF Items

\* No alarm has been raised at the start.
LEMMA InitInv == Init => IndInv
  <1> SUFFICES ASSUME Init PROVE IndInv
    OBVIOUS
  <1>1. OutboxInv
    BY OutboxInitInv DEF Init
  <1>2. AlarmTypes
    BY DEF Init, AlarmTypes
  <1>3. WholeInv /\ FreshInv
    BY ItemParts DEF Init, OutboxInit, WholeInv, FreshInv, IncidentKeepsAlarm, NoRow
  <1> QED
    BY <1>1, <1>2, <1>3 DEF IndInv

\* The dispatcher deletes no row and makes up none.
LEMMA OutboxActions ==
  ASSUME IndInv, Steps \/ Environment, UNCHANGED <<event, age, incident, doomed, dropped>>
  PROVE  IndInv'
  <1> USE DEF IndInv
  <1>1. OutboxInv' /\ Frame
    BY OutboxStep DEF Steps
  <1>2. AlarmTypes'
    BY DEF AlarmTypes
  <1>3. WholeInv'
    BY <1>1 DEF WholeInv, Frame, IncidentKeepsAlarm
  <1>4. FreshInv'
    BY <1>1, ItemParts DEF FreshInv, Frame, WholeInv, OutboxInv, Shape
  <1> QED
    BY <1>1, <1>2, <1>3, <1>4

\* Time takes alarms past their window, never back.
LEMMA ElapseStep == ASSUME IndInv, Elapse PROVE IndInv'
  <1> USE DEF IndInv
  <1>1. OutboxInv' /\ Frame
    BY OutboxStep DEF Elapse
  <1>2. /\ event' = event /\ incident' = incident /\ doomed' = doomed /\ dropped' = dropped
        /\ \A s \in Sources : age'[s] \in Nat /\ age[s] <= age'[s]
        /\ age' \in [Sources -> Nat]
    BY RetainNat DEF Elapse, AlarmTypes
  <1>3. AlarmTypes'
    BY <1>2 DEF AlarmTypes
  <1>4. WholeInv'
    BY <1>1, <1>2, ItemParts, RetainNat DEF WholeInv, Frame, IncidentKeepsAlarm, AlarmTypes
  <1>5. FreshInv'
    BY <1>1, <1>2, ItemParts DEF FreshInv, Frame, WholeInv, OutboxInv, Shape
  <1> QED
    BY <1>1, <1>3, <1>4, <1>5

\* An alarm is stored with its rows.
LEMMA PersistEventStep == ASSUME IndInv, NEW s \in Sources, PersistEvent(s) PROVE IndInv'
  <1> USE DEF IndInv
  <1>1. /\ event[s] = "none" /\ event' = [event EXCEPT ![s] = "stored"]
        /\ row' = [i \in Items |-> IF i[1] = s THEN Queued ELSE row[i]]
        /\ UNCHANGED <<mem, pass, step, faults, delivered, age, incident, doomed, dropped>>
    BY DEF PersistEvent
  <1>2. \A i \in Items : row'[i] = IF i[1] = s THEN Queued ELSE row[i]
    BY <1>1
  <1>3. \A i \in Items : i[1] = s => /\ row[i].state = "none" /\ mem[i] = NoRow /\ i \notin pass
                                     /\ delivered[i] <= faults
    BY <1>1 DEF WholeInv, OutboxInv, PassInv, FreshInv
  <1>4. IsRow(Queued) /\ Queued.state = "pending"
    BY DEF Queued, IsRow, RowStates
  <1>5. Shape'
    BY <1>1, <1>2, <1>4 DEF OutboxInv, Shape
  <1>6. PassInv'
    BY <1>1, <1>2, <1>3, <1>4 DEF OutboxInv, PassInv, Shape, Clean
  <1>7. RepeatInv'
    BY <1>1, <1>2, <1>3, <1>4 DEF OutboxInv, RepeatInv
  <1>8. AlarmTypes'
    BY <1>1 DEF AlarmTypes
  <1>9. WholeInv'
    BY <1>1, <1>2, <1>4, ItemParts DEF WholeInv, IncidentKeepsAlarm, AlarmTypes
  <1>10. FreshInv'
    BY <1>1, ItemParts DEF FreshInv, AlarmTypes
  <1> QED
    BY <1>5, <1>6, <1>7, <1>8, <1>9, <1>10 DEF OutboxInv

\* An incident is raised from a stored alarm.
LEMMA IncidentStep == ASSUME IndInv, NEW s \in Sources, RaiseIncident(s) \/ CloseIncident(s)
                      PROVE  IndInv'
  <1> USE DEF IndInv
  <1>1. /\ UNCHANGED <<outboxVars, event, age, doomed, dropped>> /\ event[s] = "stored"
        /\ \E x \in {"open", "closed"} : incident' = [incident EXCEPT ![s] = x]
    BY DEF RaiseIncident, CloseIncident, WholeInv, IncidentKeepsAlarm
  <1>2. OutboxInv'
    BY <1>1, OutboxRests DEF outboxVars
  <1>3. AlarmTypes'
    BY <1>1 DEF AlarmTypes
  <1>4. WholeInv' /\ FreshInv'
    BY <1>1 DEF WholeInv, FreshInv, IncidentKeepsAlarm, AlarmTypes, outboxVars
  <1> QED
    BY <1>2, <1>3, <1>4

\* Retention chooses alarms past their window.
LEMMA RetentionStartStep == ASSUME IndInv, NEW C \in SUBSET Sources, RetentionStart(C) PROVE IndInv'
  <1> USE DEF IndInv
  <1>1. /\ UNCHANGED <<row, mem, pass, faults, delivered, event, age, incident>>
        /\ step = "after" /\ step' = "purging" /\ doomed' = Purgeable(C) /\ dropped' = C
    BY DEF RetentionStart
  <1>2. OutboxInv'
    BY <1>1, OutboxRests
  <1>3. AlarmTypes'
    BY <1>1 DEF AlarmTypes, Purgeable
  <1>4. WholeInv' /\ FreshInv'
    BY <1>1 DEF WholeInv, FreshInv, IncidentKeepsAlarm, Purgeable
  <1> QED
    BY <1>2, <1>3, <1>4

\* What retention deletes: rows of alarms past their window, and of those the alarms no
\* incident points at when they are deleted.
LEMMA RetentionCommitStep == ASSUME IndInv, RetentionCommit PROVE IndInv'
  <1> USE DEF IndInv
  <1> DEFINE gone == doomed \cap Purgeable(dropped)
  <1>1. /\ event' = [s \in Sources |-> IF s \in gone THEN "purged" ELSE event[s]]
        /\ incident' = [s \in Sources |-> IF s \in dropped THEN "none" ELSE incident[s]]
        /\ row' = [i \in Items |-> IF i[1] \in doomed THEN NoRow ELSE row[i]]
        /\ step = "purging" /\ step' = "idle" /\ doomed' = {} /\ dropped' = {}
        /\ UNCHANGED <<mem, pass, faults, delivered, age>>
    BY DEF RetentionCommit
  <1>2. \A i \in Items : row'[i] = IF i[1] \in doomed THEN NoRow ELSE row[i]
    BY <1>1
  <1>3. IsRow(NoRow) /\ NoRow.state = "none"
    BY DEF NoRow, IsRow, RowStates
  <1>4. pass = {} /\ \A i \in Items : mem[i] = NoRow
    BY <1>1 DEF OutboxInv, PassInv, Clean
  <1>5. Shape'
    BY <1>1, <1>2, <1>3 DEF OutboxInv, Shape
  <1>6. PassInv'
    BY <1>1, <1>4 DEF PassInv, Clean
  <1>7. RepeatInv'
    BY <1>1, <1>2, <1>3 DEF OutboxInv, RepeatInv
  <1>8. /\ gone \subseteq doomed /\ \A s \in gone : s \in dropped \/ incident[s] = "none"
        /\ \A s \in gone : event[s] = "stored"
    BY DEF Purgeable
  <1> HIDE DEF gone
  <1>9. AlarmTypes'
    BY <1>1 DEF AlarmTypes
  <1>10. WholeInv'
    <2>1. ASSUME NEW i \in Items
          PROVE  /\ event'[i[1]] = "stored" /\ age'[i[1]] < Retain => row'[i].state # "none"
                 /\ row'[i].state # "none" => event'[i[1]] = "stored"
      <3>1. i[1] \in Sources
        BY ItemParts
      <3>2. i[1] \in doomed => ~ (age[i[1]] < Retain)
        BY <3>1, RetainNat DEF WholeInv, AlarmTypes
      <3> QED
        BY <1>1, <1>2, <1>3, <1>8, <3>1, <3>2 DEF WholeInv
    <2>2. IncidentKeepsAlarm'
      BY <1>1, <1>8 DEF WholeInv, IncidentKeepsAlarm
    <2> QED
      BY <1>1, <2>1, <2>2 DEF WholeInv
  <1>11. FreshInv'
    BY <1>1, <1>8, ItemParts DEF FreshInv
  <1> QED
    BY <1>5, <1>6, <1>7, <1>9, <1>10, <1>11 DEF OutboxInv

\* A retention run that fails deletes nothing.
LEMMA RetentionFailsStep == ASSUME IndInv, RetentionFails PROVE IndInv'
  <1> USE DEF IndInv
  <1>1. /\ UNCHANGED <<row, mem, pass, delivered, event, age, incident>> /\ faults' = faults + 1
        /\ step = "purging" /\ step' = "idle" /\ doomed' = {} /\ dropped' = {}
    BY DEF RetentionFails
  <1>2. Shape' /\ RepeatInv'
    BY <1>1 DEF OutboxInv, Shape, RepeatInv
  <1>3. PassInv'
    BY <1>1 DEF OutboxInv, PassInv, Clean
  <1>4. AlarmTypes' /\ WholeInv'
    BY <1>1 DEF AlarmTypes, WholeInv, IncidentKeepsAlarm
  <1>5. FreshInv'
    BY <1>1 DEF FreshInv, OutboxInv, Shape
  <1> QED
    BY <1>2, <1>3, <1>4, <1>5 DEF OutboxInv

\* Every step keeps the invariant.
LEMMA Invariance == IndInv /\ [Next]_vars => IndInv'
  <1> SUFFICES ASSUME IndInv, [Next]_vars PROVE IndInv'
    OBVIOUS
  <1>1. CASE UNCHANGED vars
    <2>1. OutboxInv'
      BY <1>1, OutboxRests DEF vars, outboxVars, IndInv
    <2>2. AlarmTypes' /\ WholeInv' /\ FreshInv'
      BY <1>1 DEF vars, outboxVars, IndInv, AlarmTypes, WholeInv, FreshInv, IncidentKeepsAlarm
    <2> QED
      BY <2>1, <2>2 DEF IndInv
  <1>2. CASE \E s \in Sources : PersistEvent(s) \/ RaiseIncident(s) \/ CloseIncident(s)
    BY <1>2, PersistEventStep, IncidentStep
  <1>3. CASE (Steps \/ Environment) /\ UNCHANGED <<event, age, incident, doomed, dropped>>
    BY <1>3, OutboxActions
  <1>4. CASE Elapse
    BY <1>4, ElapseStep
  <1>5. CASE \E C \in SUBSET Sources : RetentionStart(C)
    BY <1>5, RetentionStartStep
  <1>6. CASE RetentionCommit \/ RetentionFails
    BY <1>6, RetentionCommitStep, RetentionFailsStep
  <1> QED
    BY <1>1, <1>2, <1>3, <1>4, <1>5, <1>6 DEF Next

-----------------------------------------------------------------------------
\* Retention deletes a notification only with its alarm (_purge_events), an alarm is never
\* stored without its rows (persist_event, enqueue_for_event), and an incident raised or closed
\* while retention runs never loses the alarm it points at.
THEOREM AlarmsStayWhole == Spec => []AlarmStaysWhole
  <1>1. IndInv => AlarmStaysWhole
    BY ItemParts DEF IndInv, WholeInv, AlarmStaysWhole, RowsFollowEvent
  <1> QED
    BY <1>1, InitInv, Invariance, PTL DEF Spec

\* A notification arrives more than once only if a crash, a failed commit or a lost answer
\* came between its send and the commit that records it (dispatch_due), one repeat per fault.
THEOREM AlertsRepeatOnlyAfterFaults == Spec => []RepeatsNeedFaults
  <1>1. IndInv => RepeatsNeedFaults
    BY DEF IndInv, OutboxInv, RepeatInv, RepeatsNeedFaults
  <1> QED
    BY <1>1, InitInv, Invariance, PTL DEF Spec

\* Storing an alarm and deleting one leave every notification that has been tried as it was,
\* or gone.
LEMMA AlarmOutage == ASSUME IndInv, OutageInv, [Next]_vars PROVE OutageInv'
  <1> USE DEF IndInv
  <1>1. pass \subseteq Items /\ \A i \in pass : row[i].state = "pending"
    BY DEF OutboxInv, Shape, PassInv
  <1>2. CASE UNCHANGED <<row, mem, pass, elapsed, up, outage, outages, delivered>>
    BY <1>1, <1>2, MovedOutage
  <1>3. ASSUME NEW s \in Sources, PersistEvent(s) PROVE OutageInv'
    <2>1. /\ row' = [i \in Items |-> IF i[1] = s THEN Queued ELSE row[i]] /\ event[s] = "none"
          /\ UNCHANGED <<mem, pass, elapsed, up, outage, outages, delivered>>
      BY <1>3 DEF PersistEvent
    <2>2. \A i \in Items : row'[i] = IF i[1] = s THEN Queued ELSE row[i]
      BY <2>1
    <2>3. \A i \in pass : row'[i] = row[i]
      BY <1>1, <2>1, <2>2 DEF WholeInv
    <2> QED
      BY <1>1, <2>1, <2>2, <2>3, MovedOutage
  <1>4. CASE RetentionCommit
    <2>1. /\ row' = [i \in Items |-> IF i[1] \in doomed THEN NoRow ELSE row[i]]
          /\ UNCHANGED <<mem, pass, elapsed, up, outage, outages, delivered>> /\ step = "purging"
      BY <1>4 DEF RetentionCommit
    <2>2. \A i \in Items : row'[i] = IF i[1] \in doomed THEN NoRow ELSE row[i]
      BY <2>1
    <2>3. pass = {}
      BY <2>1 DEF OutboxInv, PassInv
    <2> QED
      BY <2>1, <2>2, <2>3, MovedOutage
  <1>5. CASE Steps \/ Environment
    BY <1>5, OutageStep DEF Steps
  <1>6. CASE Elapse
    BY <1>6, OutageStep DEF Elapse
  <1> QED
    BY <1>2, <1>3, <1>4, <1>5, <1>6 DEF Next, vars, outboxVars, RaiseIncident, CloseIncident,
                                        RetentionStart, RetentionFails

\* "an outage delays but never loses an alert" (docs/OPERATIONS.md), for one outage shorter
\* than the backoffs: a notification nobody received is given up only after its channel was
\* down for all of them (dispatch_due).
THEOREM AlertsOutlastOutages == Spec => []OutageOnlyDelays
  <1>1. Init => OutageInv
    BY OutageInit DEF Init
  <1> QED
    BY <1>1, InitInv, Invariance, AlarmOutage, OutageGivesUp, PTL DEF Spec
=============================================================================
