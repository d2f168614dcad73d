------------------------------ MODULE AlarmOutbox ------------------------------
(***************************************************************************)
(* Alarm notifications: events and their outbox rows, written together     *)
(* (events/repository.py, notifications/outbox.py), the dispatcher of      *)
(* Outbox, and the retention run that deletes old events with their rows   *)
(* (retention.py) while supervisors raise and close incidents on them      *)
(* (operations/incidents.py).                                              *)
(***************************************************************************)
EXTENDS Outbox

CONSTANT Retain         \* retain_events_days

ASSUME RetainAssumption == Retain \in Nat \ {0}

VARIABLES event,      \* each alarm: "none", "stored" or "purged"
          age,        \* its age, up to Retain
          incident,   \* the incident that points at it: "none", "open" or "closed"
          doomed,     \* alarms whose rows the open retention run deleted
          dropped     \* incidents the open retention run deleted

vars == <<outboxVars, event, age, incident, doomed, dropped>>

Init ==
  /\ OutboxInit
  /\ event = [s \in Sources |-> "none"] /\ age = [s \in Sources |-> 0]
  /\ incident = [s \in Sources |-> "none"]
  /\ doomed = {} /\ dropped = {}

\* persist_event of an alarm that qualifies, and enqueue_for_event: one row per target in
\* the event's own transaction.
PersistEvent(s) ==
  /\ event[s] = "none" /\ event' = [event EXCEPT ![s] = "stored"]
  /\ row' = [i \in Items |-> IF i[1] = s THEN Queued ELSE row[i]]
  /\ UNCHANGED <<mem, pass, step, elapsed, up, outage, outages, faults, delivered,
                 age, incident, doomed, dropped>>

Elapse ==
  /\ ElapseOutbox
  /\ age' = [s \in Sources |->
               IF event[s] = "stored" /\ age[s] < Retain THEN age[s] + 1 ELSE age[s]]
  /\ UNCHANGED <<event, incident, doomed, dropped>>

\* A supervisor raises an incident from the alarm, and later closes it.
RaiseIncident(s) ==
  /\ event[s] = "stored" /\ incident[s] = "none"
  /\ incident' = [incident EXCEPT ![s] = "open"]
  /\ UNCHANGED <<outboxVars, event, age, doomed, dropped>>

CloseIncident(s) ==
  /\ incident[s] = "open"
  /\ incident' = [incident EXCEPT ![s] = "closed"]
  /\ UNCHANGED <<outboxVars, event, age, doomed, dropped>>

\* Mutant: the incidents that point at an old alarm are not looked at.
PurgeableIgnoresIncidents(gone) ==
  {s \in Sources : event[s] = "stored" /\ age[s] >= Retain}

\* _purge_events: past the cutoff, and no incident left that points at it.
Purgeable(gone) ==
  {s \in Sources : event[s] = "stored" /\ age[s] >= Retain
                   /\ (incident[s] = "none" \/ s \in gone)}

\* run_retention up to the DELETE of the notifications.  C are the closed incidents past
\* their own window, deleted before.
RetentionStart(C) ==
  /\ step = "after"
  /\ C \subseteq {s \in Sources : incident[s] = "closed"}
  /\ step' = "purging" /\ doomed' = Purgeable(C) /\ dropped' = C
  /\ UNCHANGED <<row, mem, pass, elapsed, up, outage, outages, faults, delivered,
                 event, age, incident>>

\* The DELETE of the events reads the incidents again (READ COMMITTED), then the run commits.
RetentionCommit ==
  /\ step = "purging"
  /\ LET gone == doomed \cap Purgeable(dropped)
     IN  /\ event' = [s \in Sources |-> IF s \in gone THEN "purged" ELSE event[s]]
         /\ incident' = [s \in Sources |-> IF s \in dropped THEN "none" ELSE incident[s]]
  /\ row' = [i \in Items |-> IF i[1] \in doomed THEN NoRow ELSE row[i]]
  /\ step' = "idle" /\ doomed' = {} /\ dropped' = {}
  /\ UNCHANGED <<mem, pass, elapsed, up, outage, outages, faults, delivered, age>>

RetentionFails ==
  /\ step = "purging" /\ faults < MaxFaults
  /\ faults' = faults + 1 /\ step' = "idle" /\ doomed' = {} /\ dropped' = {}
  /\ UNCHANGED <<row, mem, pass, elapsed, up, outage, outages, delivered,
                 event, age, incident>>

Steps == Dispatch \/ TickEnd
Next == \/ \E s \in Sources : PersistEvent(s) \/ RaiseIncident(s) \/ CloseIncident(s)
        \/ (Steps \/ Environment) /\ UNCHANGED <<event, age, incident, doomed, dropped>>
        \/ Elapse
        \/ \E C \in SUBSET Sources : RetentionStart(C)
        \/ RetentionCommit \/ RetentionFails

\* The ingestor's maintenance thread keeps ticking and time passes; channels need not return.
Fairness == /\ WF_vars(Steps /\ UNCHANGED <<event, age, incident, doomed, dropped>>)
            /\ WF_vars(RetentionCommit) /\ WF_vars(Elapse)

Spec == Init /\ [][Next]_vars
FairSpec == Spec /\ Fairness

-----------------------------------------------------------------------------
(* Properties.                                                             *)

\* No alarm within its retention window is ever without its rows, and no row outlives its
\* alarm (the foreign key that would roll the whole retention run back).
RowsFollowEvent ==
  \A s \in Sources, t \in Targets :
    /\ event[s] = "stored" /\ age[s] < Retain => row[<<s, t>>].state # "none"
    /\ row[<<s, t>>].state # "none" => event[s] = "stored"

\* An alarm an incident points at is never deleted (_purge_events), though incidents are
\* raised and closed while the retention run is under way.
IncidentKeepsAlarm == \A s \in Sources : incident[s] # "none" => event[s] = "stored"

\* An alarm, its notification rows and the incident raised from it stay together, whatever
\* retention, the dispatcher and supervisors do at the same time (persist_event, _purge_events).
AlarmStaysWhole == RowsFollowEvent /\ IncidentKeepsAlarm

\* Every queued notification is settled: sent, given up visibly, or deleted with its alarm.
\* No channel has to come back for that, and a step that raises (tick.run) does not stop it.
EveryAlertSettles ==
  \A i \in Items : row[i].state = "pending" ~> row[i].state # "pending"
===============================================================================
