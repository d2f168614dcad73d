----------------------------- MODULE ReportOutbox -----------------------------
(***************************************************************************)
(* Shift reports (operations/shift_reports.py): the maintenance tick queues*)
(* a report per recipient once a shift has ended long enough ago, the      *)
(* dispatcher of Outbox sends it, committing row by row, and retention     *)
(* deletes deliveries by the end of their shift.                           *)
(***************************************************************************)
EXTENDS Outbox

CONSTANTS Delay, CatchUp,   \* report_delay_s, report_catchup_h
          Retain            \* retain_events_days

ASSUME ReportAssumption ==
  /\ Delay \in Nat /\ CatchUp \in Nat \ {0} /\ Retain \in Nat \ {0}
  \* Deliveries are kept longer than shifts are caught up (a year against a day by default).
  /\ Delay + CatchUp <= Retain + 1
  /\ CommitEach = TRUE
  /\ IsFiniteSet(Sources) /\ IsFiniteSet(Targets)

VARIABLES age,        \* time since each shift ended, -1 while it runs
          queuedTimes, \* history: how often a report was queued for a recipient
          resent      \* history: messages sent again, over all recipients

vars == <<outboxVars, age, queuedTimes, resent>>

\* Past Horizon no rule tells ages apart.
Horizon == Max({Delay + CatchUp, Retain + 1})

Init ==
  /\ OutboxInit
  /\ age = [s \in Sources |-> -1]
  /\ queuedTimes = [i \in Items |-> 0] /\ resent = 0

\* Shifts end one after another.
ShiftEnds(s) ==
  /\ age[s] = -1 /\ age' = [age EXCEPT ![s] = 0]
  /\ UNCHANGED <<outboxVars, queuedTimes, resent>>

Elapse ==
  /\ ElapseOutbox
  /\ age' = [s \in Sources |-> IF age[s] \in 0 .. Horizon - 1 THEN age[s] + 1 ELSE age[s]]
  /\ UNCHANGED <<queuedTimes, resent>>

\* windows_ending_between: ended at least Delay ago, and less than CatchUp before that.
Window == {s \in Sources : Delay <= age[s] /\ age[s] < Delay + CatchUp}

\* The recipients of a due shift that have no row yet.
Missing == {i \in Items : i[1] \in Window /\ row[i].state = "none"}

\* queue_due_reports, the step before the dispatcher's in the same tick.
QueueDueReports ==
  /\ step = "idle" /\ Missing # {}
  /\ row' = [i \in Items |-> IF i \in Missing THEN Queued ELSE row[i]]
  /\ queuedTimes' = [i \in Items |-> queuedTimes[i] + IF i \in Missing THEN 1 ELSE 0]
  /\ UNCHANGED <<mem, pass, step, elapsed, up, outage, outages, faults, delivered, age, resent>>

\* run_retention: deliveries of shifts that ended before the cutoff.
Retention ==
  /\ step = "after" /\ step' = "idle"
  /\ row' = [i \in Items |-> IF age[i[1]] > Retain THEN NoRow ELSE row[i]]
  /\ UNCHANGED <<mem, pass, elapsed, up, outage, outages, faults, delivered,
                 age, queuedTimes, resent>>

\* A message that reaches a recipient who has had it since it was queued is sent again.
CountResent ==
  resent' = resent + IF \E i \in Items : /\ delivered'[i] # delivered[i]
                                         /\ queuedTimes[i] <= delivered[i] THEN 1 ELSE 0

Steps == Dispatch \/ TickEnd
Next == \/ \E s \in Sources : ShiftEnds(s)
        \/ QueueDueReports
        \/ (Steps \/ Environment) /\ CountResent /\ UNCHANGED <<age, queuedTimes>>
        \/ Elapse
        \/ Retention

Spec == Init /\ [][Next]_vars

-----------------------------------------------------------------------------
(* Properties.                                                             *)

\* "a recipient already queued for a shift is never queued again, whatever the tick does"
\* (queue_due_reports).  Where deliveries are kept longer than shifts are caught up.
NeverQueuedAgain == \A i \in Items : queuedTimes[i] <= 1

\* "a power cut mid-batch re-sends at most the report in flight" (send_due_reports): over all
\* recipients together there is at most one repeated message per fault.
OneResendPerCut == resent <= faults

\* A report is sent once: its recipient is queued once, and only a power cut repeats it
\* (queue_due_reports, send_due_reports).
ReportsSentOnce == NeverQueuedAgain /\ OneResendPerCut
===============================================================================
