------------------------------- MODULE Incidents -------------------------------
(***************************************************************************)
(* Incidents: the lifecycle a supervisor drives over an alarm, its         *)
(* append-only timeline, and the version column that rejects an edit made  *)
(* on a stale copy (operations/incidents.py, api/routers/incidents.py).    *)
(* A request reads the row in one step and commits in another; requests    *)
(* for a missing row, or a row of another site, change nothing (404).      *)
(***************************************************************************)
EXTENDS Naturals, Sequences

CONSTANTS Supervisors,   \* each has at most one request under way
          IncidentIds,
          Alarms,        \* events an incident may be raised from
          NoAlarm,
          MaxTimeline    \* bound: entries on one timeline

VARIABLES incident,   \* the incidents table
          timeline,   \* the incident_notes of each incident, oldest first
          edit        \* what each supervisor's open transaction will write

incidentVars == <<incident, timeline, edit>>

NoIncident == [state |-> "none"]
Deleted == [state |-> "deleted"]
NoEdit == [id |-> "none"]

IncidentStates == {"open", "acknowledged", "investigating", "assigned", "resolved", "closed"}

\* _ALLOWED
Allowed ==
  [open          |-> IncidentStates \ {"open"},
   acknowledged  |-> {"investigating", "assigned", "resolved", "closed"},
   investigating |-> {"assigned", "resolved", "closed"},
   assigned      |-> {"investigating", "resolved", "closed"},
   resolved      |-> {"closed", "investigating"},
   closed        |-> {}]

CanTransition(current, target) == target \in Allowed[current]

NewIncident(e) ==
  [state |-> "open", event |-> e, version |-> 1, assignee |-> FALSE, resolution |-> FALSE]

\* _append: a timeline entry.
Entry(kind, from, to) == [kind |-> kind, from |-> from, to |-> to]

Exists(i) == incident[i] \notin {NoIncident, Deleted}

IncidentInit ==
  /\ incident = [i \in IncidentIds |-> NoIncident]
  /\ timeline = [i \in IncidentIds |-> <<>>]
  /\ edit = [s \in Supervisors |-> NoEdit]

CreateWith(i, e) ==
  /\ incident[i] = NoIncident
  /\ incident' = [incident EXCEPT ![i] = NewIncident(e)]
  /\ timeline' = [timeline EXCEPT ![i] = <<Entry("state_change", "none", "open")>>]
  /\ UNCHANGED edit

\* POST incidents: an event_id, if given, must be an event of the site.
CreateIncident(i, e) == e \in Alarms \cup {NoAlarm} /\ CreateWith(i, e)

\* POST events/{event_id}/incident
IncidentFromEvent(i, e) == e \in Alarms /\ CreateWith(i, e)

\* transition_incident on a copy of the row: an "assigned" needs an assignee in the request
\* or on the row, a "resolved" a resolution in the request.
TransitionOk(row, to, assignee, resolution) ==
  /\ CanTransition(row.state, to)
  /\ to = "assigned" => assignee \/ row.assignee
  /\ to = "resolved" => resolution

Transitioned(row, to, assignee) ==
  [row EXCEPT !.state = to,
              !.assignee = @ \/ assignee,
              !.resolution = @ \/ to = "resolved"]

\* POST transition, up to the commit.
TransitionIncident(s, i, to, assignee, resolution) ==
  /\ edit[s] = NoEdit /\ Exists(i) /\ Len(timeline[i]) < MaxTimeline
  /\ TransitionOk(incident[i], to, assignee, resolution)
  /\ edit' = [edit EXCEPT ![s] =
                [id |-> i, row |-> Transitioned(incident[i], to, assignee),
                 note |-> Entry("state_change", incident[i].state, to)]]
  /\ UNCHANGED <<incident, timeline>>

\* POST notes, up to the commit.  updated_at is touched, so the note goes through the
\* version check as well.
AddIncidentNote(s, i) ==
  /\ edit[s] = NoEdit /\ Exists(i) /\ Len(timeline[i]) < MaxTimeline
  /\ edit' = [edit EXCEPT ![s] =
                [id |-> i, row |-> incident[i], note |-> Entry("note", "none", "none")]]
  /\ UNCHANGED <<incident, timeline>>

\* Mutant: the row is updated whatever its version.
AnyVersion(s) == Exists(edit[s].id)

\* version_id_col: the UPDATE matches the version that was read.
VersionMatches(s) ==
  Exists(edit[s].id) /\ incident[edit[s].id].version = edit[s].row.version

\* The commit, together with the timeline entry and the audit row.
CommitEdit(s) ==
  /\ edit[s] # NoEdit /\ VersionMatches(s)
  /\ LET e == edit[s] IN
       /\ incident' = [incident EXCEPT ![e.id] = [e.row EXCEPT !.version = @ + 1]]
       /\ timeline' = [timeline EXCEPT ![e.id] = Append(@, e.note)]
  /\ edit' = [edit EXCEPT ![s] = NoEdit]

\* StaleDataError: a transition answers 409, a note fails; both are rolled back.
RejectEdit(s) ==
  /\ edit[s] # NoEdit /\ ~VersionMatches(s)
  /\ edit' = [edit EXCEPT ![s] = NoEdit]
  /\ UNCHANGED <<incident, timeline>>

\* Retention deletes closed incidents with their notes (_purge_closed_incidents).
PurgeIncident(i) ==
  /\ incident[i].state = "closed"
  /\ incident' = [incident EXCEPT ![i] = Deleted]
  /\ timeline' = [timeline EXCEPT ![i] = <<>>]
  /\ UNCHANGED edit

IncidentNext ==
  \/ \E i \in IncidentIds, e \in Alarms \cup {NoAlarm} :
       CreateIncident(i, e) \/ IncidentFromEvent(i, e)
  \/ \E s \in Supervisors, i \in IncidentIds, to \in IncidentStates, a, r \in BOOLEAN :
       TransitionIncident(s, i, to, a, r)
  \/ \E s \in Supervisors, i \in IncidentIds : AddIncidentNote(s, i)
  \/ \E s \in Supervisors : CommitEdit(s) \/ RejectEdit(s)
  \/ \E i \in IncidentIds : PurgeIncident(i)

IncidentSpec == IncidentInit /\ [][IncidentNext]_incidentVars

--------------------------------------------------------------------------------

IsMove(entry) == entry.kind = "state_change"

\* Entry k is the first move after entry j; entry k is the last move.
Follows(t, j, k) == j < k /\ IsMove(t[j]) /\ IsMove(t[k]) /\ \A m \in (j + 1)..(k - 1) : ~IsMove(t[m])
LastMove(t, k) == IsMove(t[k]) /\ \A m \in (k + 1)..Len(t) : ~IsMove(t[m])

Tells(t, row) ==
  /\ t[1] = Entry("state_change", "none", "open")
  /\ \A j, k \in 1..Len(t) : Follows(t, j, k) => t[k].from = t[j].to /\ CanTransition(t[j].to, t[k].to)
  /\ \A k \in 1..Len(t) : LastMove(t, k) => t[k].to = row.state
  /\ Len(t) = row.version

\* However two supervisors' requests interleave, the timeline tells the whole story of an
\* incident: its moves form one unbroken chain of allowed transitions from "open" to the
\* state the row shows, and every accepted edit is one entry (the version counts them).
TimelineTellsAll == \A i \in IncidentIds : Exists(i) => Tells(timeline[i], incident[i])
================================================================================
