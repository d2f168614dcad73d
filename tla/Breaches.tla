-------------------------------- MODULE Breaches --------------------------------
(***************************************************************************)
(* The personal-data breach register: two notices with deadlines fixed     *)
(* when the breach is recorded, the maintenance tick that raises an alarm  *)
(* as a deadline nears and when it passes, and the requests that record a  *)
(* notice or close the breach and acknowledge its alarms                   *)
(* (breaches/service.py, api/routers/breaches.py), with the retention run  *)
(* that deletes old alarms and closed breaches.  Time is in coarse units.  *)
(***************************************************************************)
EXTENDS Naturals

CONSTANTS BreachIds,
          NoticeAfter,       \* [regulator, individuals]: MM_BREACH_*_NOTICE_H
          WarnBefore,        \* MM_BREACH_WARN_BEFORE_H, 0 for no warning
          DeadlineFrom,      \* MM_BREACH_DEADLINE_FROM: "discovered" or "occurred"
          BreachSkew,        \* max_future_skew_s
          RetainAlarms,      \* retain_events_days
          RetainBreaches,    \* retain_audit_days
          BreachMaxTime      \* bound: the clock

VARIABLES breach,       \* breach_records
          breachAlarm,  \* events "breach-<id>-<notice>-<stage>"
          breachTick,   \* the tick step: whether it is running, the alarms it is about to insert
          breachClock,
          late          \* history: alarms a running tick held when their notice was settled

breachVars == <<breach, breachAlarm, breachTick, breachClock, late>>

Notices == {"regulator", "individuals"}
Stages == {"due", "overdue"}
AlarmIds == BreachIds \X Notices \X Stages
Never == BreachMaxTime + 100          \* no deadline, no close time
NoBreach == [state |-> "none"]
NoTick == [running |-> FALSE, batch |-> {}]
NotRaised == [state |-> "none", ts |-> 0]

\* The settings are numbers of time units.
ASSUME BreachAssumption == NoticeAfter \in [Notices -> Nat] /\ BreachMaxTime \in Nat

BreachInit ==
  /\ breach = [b \in BreachIds |-> NoBreach]
  /\ breachAlarm = [a \in AlarmIds |-> NotRaised]
  /\ breachTick = NoTick /\ breachClock = 0 /\ late = {}

\* deadlines: individuals have none when they need not be told.  occurred is Never if unknown.
Deadlines(discovered, occurred, notifyIndividuals) ==
  LET start == IF DeadlineFrom = "occurred" /\ occurred # Never THEN occurred ELSE discovered
  IN  [n \in Notices |-> IF n = "regulator" \/ notifyIndividuals
                         THEN start + NoticeAfter[n] ELSE Never]

\* record_breach; a discovery in the future or before the occurrence is refused.
RecordBreach(b, discovered, occurred, notifyIndividuals) ==
  /\ breach[b] = NoBreach
  /\ discovered <= breachClock + BreachSkew
  /\ occurred = Never \/ occurred <= discovered
  /\ breach' = [breach EXCEPT ![b] =
                  [state |-> "open", due |-> Deadlines(discovered, occurred, notifyIndividuals),
                   sent |-> [n \in Notices |-> FALSE], closedAt |-> Never]]
  /\ UNCHANGED <<breachAlarm, breachTick, breachClock, late>>

NoticeStatus(row, n, now, warn) ==
  CASE row.sent[n]              -> "sent"
    [] ~row.sent[n] /\ row.due[n] = Never -> "not_required"
    [] ~row.sent[n] /\ row.due[n] # Never /\ row.state = "closed" -> "not_sent"
    [] OTHER -> IF now >= row.due[n] THEN "overdue"
                ELSE IF warn > 0 /\ now + warn >= row.due[n] THEN "due_soon" ELSE "pending"

AlarmsOf(b, notices) == {b} \X notices \X Stages

\* Mutant: only the warnings are acknowledged.
WarningsOnly(b, notices) ==
  [a \in AlarmIds |-> IF a \in AlarmsOf(b, notices) /\ a[3] = "due" /\ breachAlarm[a].state = "open"
                      THEN [breachAlarm[a] EXCEPT !.state = "acknowledged"] ELSE breachAlarm[a]]

\* _acknowledge_alarms
AcknowledgeAlarms(b, notices) ==
  [a \in AlarmIds |-> IF a \in AlarmsOf(b, notices) /\ breachAlarm[a].state = "open"
                      THEN [breachAlarm[a] EXCEPT !.state = "acknowledged"] ELSE breachAlarm[a]]

Settles(b, notices) == late' = late \cup (breachTick.batch \cap AlarmsOf(b, notices))

\* record_notice: one that is not required is refused; recording it again is a correction.
NoticeAccepted(b, n) ==
  breach[b].state \in {"open", "closed"} /\ (n = "individuals" => breach[b].due[n] # Never)

RecordNotice(b, n) ==
  /\ NoticeAccepted(b, n)
  /\ breach' = [breach EXCEPT ![b].sent[n] = TRUE]
  /\ breachAlarm' = AcknowledgeAlarms(b, {n})
  /\ Settles(b, {n})
  /\ UNCHANGED <<breachTick, breachClock>>

\* close_breach
ClosedRow(b) == [breach[b] EXCEPT !.state = "closed", !.closedAt = breachClock]

CloseBreach(b) ==
  /\ breach[b].state = "open"
  /\ breach' = [breach EXCEPT ![b] = ClosedRow(b)]
  /\ breachAlarm' = AcknowledgeAlarms(b, Notices)
  /\ Settles(b, Notices)
  /\ UNCHANGED <<breachTick, breachClock>>

\* A supervisor acknowledges an alarm like any other event (acknowledge_event).
AckBreachAlarm(a) ==
  /\ breachAlarm[a].state \in {"open", "acknowledged"}
  /\ breachAlarm' = [breachAlarm EXCEPT ![a].state = "acknowledged"]
  /\ UNCHANGED <<breach, breachTick, breachClock, late>>

\* The alarm that stands for a status, if it asks for one.
StageOf(status) == IF status = "overdue" THEN "overdue" ELSE "due"

\* Mutant: the warning counts as the alarm of the deadline too.
RaisedAtAnyStage(a) == \E s \in Stages : breachAlarm[<<a[1], a[2], s>>].state # "none"
\* Its deterministic id is among the events.
AlreadyRaised(a) == breachAlarm[a].state # "none"

\* check_breach_deadlines: what it reads of the open breaches and of the alarms raised before.
DeadlineAlarms ==
  {a \in AlarmIds :
     /\ breach[a[1]].state = "open"
     /\ LET status == NoticeStatus(breach[a[1]], a[2], breachClock, WarnBefore)
        IN  status \in {"due_soon", "overdue"} /\ a[3] = StageOf(status)
     /\ ~AlreadyRaised(a)}

CheckBreachDeadlines ==
  /\ breachTick = NoTick /\ breachTick' = [running |-> TRUE, batch |-> DeadlineAlarms]
  /\ UNCHANGED <<breach, breachAlarm, breachClock, late>>

\* Its commit, with the rows it decided on when it read.
BreachTickCommit ==
  /\ breachTick # NoTick
  /\ breachAlarm' = [a \in AlarmIds |-> IF a \in breachTick.batch
                                        THEN [state |-> "open", ts |-> breachClock]
                                        ELSE breachAlarm[a]]
  /\ breachTick' = NoTick
  /\ UNCHANGED <<breach, breachClock, late>>

\* The step raises or the process dies: rolled back, the next tick tries again.
BreachTickFails ==
  /\ breachTick.batch # {} /\ breachTick' = NoTick
  /\ UNCHANGED <<breach, breachAlarm, breachClock, late>>

\* The retention step of the tick: _purge_events and _purge_closed_breaches.
BreachRetention ==
  /\ breachTick = NoTick
  /\ breachAlarm' = [a \in AlarmIds |-> IF breachAlarm[a].ts + RetainAlarms < breachClock
                                        THEN NotRaised ELSE breachAlarm[a]]
  /\ breach' = [b \in BreachIds |->
                  IF breach[b].state = "closed" /\ breach[b].closedAt + RetainBreaches < breachClock
                  THEN [state |-> "deleted"] ELSE breach[b]]
  /\ late' = {a \in late : breachAlarm'[a] # NotRaised}
  /\ UNCHANGED <<breachTick, breachClock>>

BreachClockTick ==
  /\ breachClock < BreachMaxTime /\ breachClock' = breachClock + 1
  /\ UNCHANGED <<breach, breachAlarm, breachTick, late>>

BreachNext ==
  \/ \E b \in BreachIds, d \in 0..BreachMaxTime, o \in 0..BreachMaxTime \cup {Never},
        n \in BOOLEAN : d + 1 >= breachClock /\ RecordBreach(b, d, o, n)
  \/ \E b \in BreachIds, n \in Notices : RecordNotice(b, n)
  \/ \E b \in BreachIds : CloseBreach(b)
  \/ \E a \in AlarmIds : AckBreachAlarm(a)
  \/ CheckBreachDeadlines \/ BreachTickCommit \/ BreachTickFails
  \/ BreachRetention \/ BreachClockTick

\* The tick runs again and again, and does not fail for ever.
BreachFairness ==
  /\ WF_breachVars(CheckBreachDeadlines) /\ SF_breachVars(BreachTickCommit)

BreachSpec == BreachInit /\ [][BreachNext]_breachVars /\ BreachFairness

--------------------------------------------------------------------------------

Settled(b, n) ==
  breach[b].state = "closed" \/ (breach[b].state = "open" /\ breach[b].sent[n])

\* Recording a notice or closing a breach silences its alarms: one that is still open on a
\* settled notice was in the hands of a tick that had read the breach before.
SettledIsSilent ==
  \A a \in AlarmIds : Settled(a[1], a[2]) /\ breachAlarm[a].state = "open" => a \in late

Overdue(b, n) ==
  /\ breach[b].state = "open" /\ ~breach[b].sent[n]
  /\ breach[b].due[n] <= breachClock

\* An overdue notice of an open breach gets its critical alarm, also after retention deleted
\* the first one, unless the notice is recorded or the breach closed.
OverdueIsAlarmed ==
  \A b \in BreachIds, n \in Notices :
    Overdue(b, n) ~> (~Overdue(b, n) \/ breachAlarm[<<b, n, "overdue">>].state # "none")
================================================================================
