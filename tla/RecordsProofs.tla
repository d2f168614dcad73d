----------------------------- MODULE RecordsProofs -----------------------------
(***************************************************************************)
(* Proofs about the registers people edit: incidents, personal-data        *)
(* breaches, accounts, devices, the rule versions and models of vision,    *)
(* imported documents, work orders, fuel and dispatch.  Each part states   *)
(* the types of the register, the invariant that its requests in flight    *)
(* keep, and one lemma for every action.                                   *)
(***************************************************************************)
EXTENDS Incidents, Breaches, Accounts, Devices, VisionRegistry, Imports, Upkeep, Fuel,
        Dispatch, FiniteSetTheorems, WellFoundedInduction, TLAPS

-----------------------------------------------------------------------------
(* Incidents (Incidents).                                                  *)

IncidentRows == [state : IncidentStates, event : Alarms \cup {NoAlarm}, version : Nat \ {0},
                 assignee : BOOLEAN, resolution : BOOLEAN]
Notes == [kind : {"state_change", "note"}, from : IncidentStates \cup {"none"},
          to : IncidentStates \cup {"none"}]
Edits == [id : IncidentIds, row : IncidentRows, note : Notes]

IncidentTypes ==
  /\ incident \in [IncidentIds -> IncidentRows \cup {NoIncident, Deleted}]
  /\ timeline \in [IncidentIds -> Seq(Notes)]
  /\ edit \in [Supervisors -> Edits \cup {NoEdit}]

\* An edit is for an incident that was there, was read at this version or before, and, if the
\* version is still the one that was read, continues the story from the state the row shows.
Continues(e, row) ==
  \/ e.note.kind = "note" /\ e.row.state = row.state
  \/ /\ e.note.kind = "state_change" /\ e.note.from = row.state /\ e.note.to = e.row.state
     /\ CanTransition(row.state, e.row.state)

EditCurrent(e) ==
  /\ incident[e.id] # NoIncident
  /\ Exists(e.id) => /\ e.row.version <= incident[e.id].version
                     /\ e.row.version = incident[e.id].version => Continues(e, incident[e.id])

EditsCurrent == \A s \in Supervisors : edit[s] # NoEdit => EditCurrent(edit[s])

\* Rows that are there are rows; an edit under way is one.
LEMMA IncidentKinds ==
  ASSUME IncidentTypes
  PROVE  /\ \A i \in IncidentIds : Exists(i) <=> incident[i] \in IncidentRows
         /\ \A s \in Supervisors : edit[s] # NoEdit => edit[s] \in Edits
  <1>1. \A x \in IncidentRows : x.state \in IncidentStates
    BY DEF IncidentRows
  <1>2. NoIncident.state = "none" /\ Deleted.state = "deleted"
    BY DEF NoIncident, Deleted
  <1>3. NoIncident \notin IncidentRows /\ Deleted \notin IncidentRows
    BY <1>1, <1>2 DEF IncidentStates
  <1> QED
    BY <1>3 DEF IncidentTypes, Exists

\* An accepted edit adds one entry, and the timeline still tells the whole story.
LEMMA TellsMore ==
  ASSUME NEW t \in Seq(Notes), NEW row \in IncidentRows, NEW e \in Edits, NEW new \in IncidentRows,
         Tells(t, row), Continues(e, row), new.state = e.row.state, new.version = row.version + 1
  PROVE  Tells(Append(t, e.note), new)
  <1> DEFINE n == Len(t)
             u == Append(t, e.note)
  <1>1. /\ n \in Nat /\ n >= 1 /\ Len(u) = n + 1 /\ u[n + 1] = e.note
        /\ \A k \in 1..n : u[k] = t[k]
    <2>1. e.note \in Notes
      BY DEF Edits
    <2>2. n = row.version /\ row.version \in Nat \ {0}
      BY DEF Tells, IncidentRows
    <2> QED
      BY <2>1, <2>2
  <1>2. u[1] = Entry("state_change", "none", "open")
    BY <1>1 DEF Tells
  <1>3. Len(u) = new.version
    BY <1>1 DEF Tells
  <1>4. /\ \A j, k \in 1..n : Follows(t, j, k) => t[k].from = t[j].to /\ CanTransition(t[j].to, t[k].to)
        /\ \A k \in 1..n : LastMove(t, k) => t[k].to = row.state
    BY DEF Tells
  <1> HIDE DEF u, n
  <1>5. \A j, k \in 1..n : Follows(u, j, k) => Follows(t, j, k)
    <2> SUFFICES ASSUME NEW j \in 1..n, NEW k \in 1..n, Follows(u, j, k) PROVE Follows(t, j, k)
      OBVIOUS
    <2>1. \A m \in (j + 1)..(k - 1) : m \in 1..n
      BY <1>1
    <2> QED
      BY <1>1, <2>1 DEF Follows
  <1>6. \A j \in 1..n : Follows(u, j, n + 1) => LastMove(t, j)
    <2> SUFFICES ASSUME NEW j \in 1..n, Follows(u, j, n + 1) PROVE LastMove(t, j)
      OBVIOUS
    <2>1. \A m \in (j + 1)..n : m \in 1..n /\ m \in (j + 1)..((n + 1) - 1)
      BY <1>1
    <2> QED
      BY <1>1, <2>1 DEF Follows, LastMove, n
  <1>7. \A k \in 1..n : LastMove(u, k) => LastMove(t, k) /\ ~IsMove(e.note)
    <2> SUFFICES ASSUME NEW k \in 1..n, LastMove(u, k) PROVE LastMove(t, k) /\ ~IsMove(e.note)
      OBVIOUS
    <2>1. \A m \in (k + 1)..n : m \in 1..n /\ m \in (k + 1)..(n + 1)
      BY <1>1
    <2>2. n + 1 \in (k + 1)..(n + 1)
      BY <1>1
    <2> QED
      BY <1>1, <2>1, <2>2 DEF LastMove, n
  <1>8. ASSUME NEW j \in 1..Len(u), NEW k \in 1..Len(u), Follows(u, j, k)
        PROVE  u[k].from = u[j].to /\ CanTransition(u[j].to, u[k].to)
    <2>1. j \in 1..n /\ (k \in 1..n \/ k = n + 1)
      BY <1>1, <1>8 DEF Follows
    <2>2. CASE k \in 1..n
      BY <1>1, <1>4, <1>5, <1>8, <2>1, <2>2
    <2>3. CASE k = n + 1
      <3>1. t[j].to = row.state /\ u[j] = t[j]
        BY <1>1, <1>4, <1>6, <1>8, <2>1, <2>3
      <3>2. IsMove(e.note) /\ u[k] = e.note
        BY <1>1, <1>8, <2>3 DEF Follows
      <3>3. e.note.from = row.state /\ e.note.to = e.row.state /\ CanTransition(row.state, e.row.state)
        BY <3>2 DEF IsMove, Continues
      <3> QED
        BY <3>1, <3>2, <3>3
    <2> QED
      BY <2>1, <2>2, <2>3
  <1>9. ASSUME NEW k \in 1..Len(u), LastMove(u, k) PROVE u[k].to = new.state
    <2>1. k \in 1..n \/ k = n + 1
      BY <1>1
    <2>2. CASE k \in 1..n
      <3>1. t[k].to = row.state /\ ~IsMove(e.note) /\ u[k] = t[k]
        BY <1>1, <1>4, <1>7, <1>9, <2>2
      <3> QED
        BY <3>1 DEF Continues, IsMove
    <2>3. CASE k = n + 1
      BY <1>1, <1>9, <2>3 DEF LastMove, IsMove, Continues
    <2> QED
      BY <2>1, <2>2, <2>3
  <1> QED
    BY <1>2, <1>3, <1>8, <1>9 DEF Tells, u

\* POST incidents, POST events/{event_id}/incident
LEMMA CreateStep ==
  ASSUME IncidentTypes, EditsCurrent, TimelineTellsAll, NEW i \in IncidentIds,
         NEW e \in Alarms \cup {NoAlarm}, CreateWith(i, e)
  PROVE  IncidentTypes' /\ EditsCurrent' /\ TimelineTellsAll'
  <1> DEFINE row == NewIncident(e)
             first == Entry("state_change", "none", "open")
             t == <<first>>
  <1>1. /\ incident[i] = NoIncident /\ incident' = [incident EXCEPT ![i] = row]
        /\ timeline' = [timeline EXCEPT ![i] = t] /\ edit' = edit
    BY DEF CreateWith
  <1>2. row \in IncidentRows /\ row.state = "open" /\ row.version = 1
    BY DEF NewIncident, IncidentRows, IncidentStates
  <1>3. first \in Notes /\ IsMove(first) /\ first.to = "open"
    BY DEF Entry, Notes, IsMove, IncidentStates
  <1>4. t \in Seq(Notes) /\ Len(t) = 1 /\ t[1] = first
    <2> HIDE DEF first
    <2> QED
      BY <1>3
  <1>5. Tells(t, row)
    <2> HIDE DEF t, row
    <2>1. \A j, k \in 1..Len(t) : ~Follows(t, j, k)
      BY <1>4 DEF Follows
    <2>2. \A k \in 1..Len(t) : t[k] = first
      BY <1>4
    <2> QED
      BY <1>2, <1>3, <1>4, <2>1, <2>2 DEF Tells
  <1> HIDE DEF row, t, first
  <1>6. IncidentTypes'
    BY <1>1, <1>2, <1>4 DEF IncidentTypes
  <1>7. EditsCurrent'
    <2> SUFFICES ASSUME NEW s \in Supervisors, edit[s] # NoEdit PROVE EditCurrent(edit[s])'
      BY <1>1 DEF EditsCurrent
    <2>1. edit[s].id \in IncidentIds /\ edit[s].id # i
      BY <1>1, IncidentKinds DEF EditsCurrent, EditCurrent, Edits
    <2>2. incident'[edit[s].id] = incident[edit[s].id]
      BY <1>1, <2>1 DEF IncidentTypes
    <2>3. EditCurrent(edit[s])
      BY DEF EditsCurrent
    <2> QED
      BY <1>1, <2>2, <2>3 DEF EditCurrent, Exists
  <1>8. TimelineTellsAll'
    <2> SUFFICES ASSUME NEW k \in IncidentIds, Exists(k)' PROVE Tells(timeline'[k], incident'[k])
      BY DEF TimelineTellsAll
    <2>1. CASE k = i
      <3>1. timeline'[k] = t /\ incident'[k] = row
        BY <1>1, <2>1 DEF IncidentTypes
      <3> QED
        BY <1>5, <3>1
    <2>2. CASE k # i
      BY <1>1, <2>2 DEF IncidentTypes, TimelineTellsAll, Exists
    <2> QED
      BY <2>1, <2>2
  <1> QED
    BY <1>6, <1>7, <1>8

\* A request has read the row.
LEMMA BeginEditStep ==
  ASSUME IncidentTypes, EditsCurrent, TimelineTellsAll, NEW s \in Supervisors, NEW e \in Edits,
         Exists(e.id), e.row.version = incident[e.id].version, Continues(e, incident[e.id]),
         edit' = [edit EXCEPT ![s] = e], UNCHANGED <<incident, timeline>>
  PROVE  IncidentTypes' /\ EditsCurrent' /\ TimelineTellsAll'
  <1>1. IncidentTypes'
    BY DEF IncidentTypes
  <1>2. EditCurrent(e)
    <2>1. incident[e.id].version \in Nat
      BY IncidentKinds DEF Edits, IncidentRows
    <2> QED
      BY <2>1 DEF EditCurrent, Exists
  <1>3. \A q \in Supervisors : edit'[q] = IF q = s THEN e ELSE edit[q]
    BY DEF IncidentTypes
  <1>4. EditsCurrent'
    <2> SUFFICES ASSUME NEW q \in Supervisors, edit'[q] # NoEdit PROVE EditCurrent(edit[q])'
      BY DEF EditsCurrent
    <2>1. EditCurrent(edit'[q])
      BY <1>2, <1>3 DEF EditsCurrent
    <2> QED
      BY <2>1 DEF EditCurrent, Exists
  <1>5. TimelineTellsAll'
    BY DEF TimelineTellsAll, Exists
  <1> QED
    BY <1>1, <1>4, <1>5

\* transition_incident reads, and checks the transition.
LEMMA TransitionStep ==
  ASSUME IncidentTypes, EditsCurrent, TimelineTellsAll, NEW s \in Supervisors, NEW i \in IncidentIds,
         NEW to \in IncidentStates, NEW a \in BOOLEAN, NEW r \in BOOLEAN, TransitionIncident(s, i, to, a, r)
  PROVE  IncidentTypes' /\ EditsCurrent' /\ TimelineTellsAll'
  <1> DEFINE x == incident[i]
             row == Transitioned(x, to, a)
             note == Entry("state_change", x.state, to)
             e == [id |-> i, row |-> row, note |-> note]
  <1>1. /\ Exists(i) /\ CanTransition(x.state, to) /\ edit' = [edit EXCEPT ![s] = e]
        /\ UNCHANGED <<incident, timeline>>
    BY DEF TransitionIncident, TransitionOk
  <1>2. x \in IncidentRows
    BY <1>1, IncidentKinds
  <1>3. note \in Notes /\ note.kind = "state_change" /\ note.from = x.state /\ note.to = to
    BY <1>2 DEF Entry, Notes, IncidentRows
  <1>4. row \in IncidentRows /\ row.state = to /\ row.version = x.version
    <2> HIDE DEF x
    <2> DEFINE y == [x EXCEPT !.state = to]
               flag == x.assignee \/ a
               done == x.resolution \/ to = "resolved"
    <2>1. y \in IncidentRows /\ y.state = to /\ y.version = x.version /\ y.resolution = x.resolution
      BY <1>2 DEF IncidentRows
    <2>2. flag \in BOOLEAN /\ done \in BOOLEAN
      OBVIOUS
    <2>3. row = [[y EXCEPT !.assignee = flag] EXCEPT !.resolution = done]
      BY <1>2 DEF Transitioned, IncidentRows
    <2> HIDE DEF y, flag, done, row
    <2>4. /\ [y EXCEPT !.assignee = flag] \in IncidentRows /\ [y EXCEPT !.assignee = flag].state = to
          /\ [y EXCEPT !.assignee = flag].version = x.version
      BY <2>1, <2>2 DEF IncidentRows
    <2> DEFINE z == [y EXCEPT !.assignee = flag]
    <2>5. z \in IncidentRows /\ z.state = to /\ z.version = x.version /\ row = [z EXCEPT !.resolution = done]
      BY <2>3, <2>4
    <2> HIDE DEF z
    <2> QED
      BY <2>2, <2>5 DEF IncidentRows
  <1> HIDE DEF row, note
  <1>5. e \in Edits /\ e.id = i /\ e.row = row /\ e.note = note
    BY <1>3, <1>4 DEF Edits
  <1> HIDE DEF e
  <1>6. Continues(e, incident[e.id])
    BY <1>1, <1>3, <1>4, <1>5 DEF Continues
  <1> QED
    BY <1>1, <1>4, <1>5, <1>6, BeginEditStep

\* POST notes reads.
LEMMA AddNoteStep ==
  ASSUME IncidentTypes, EditsCurrent, TimelineTellsAll, NEW s \in Supervisors, NEW i \in IncidentIds,
         AddIncidentNote(s, i)
  PROVE  IncidentTypes' /\ EditsCurrent' /\ TimelineTellsAll'
  <1> DEFINE x == incident[i]
             note == Entry("note", "none", "none")
             e == [id |-> i, row |-> x, note |-> note]
  <1>1. Exists(i) /\ edit' = [edit EXCEPT ![s] = e] /\ UNCHANGED <<incident, timeline>>
    BY DEF AddIncidentNote
  <1>2. x \in IncidentRows
    BY <1>1, IncidentKinds
  <1>3. note \in Notes /\ note.kind = "note"
    BY DEF Entry, Notes
  <1> HIDE DEF note
  <1>4. e \in Edits /\ e.id = i /\ e.row = x /\ e.note = note
    BY <1>2, <1>3 DEF Edits
  <1> HIDE DEF e
  <1>5. Continues(e, incident[e.id])
    BY <1>3, <1>4 DEF Continues
  <1> QED
    BY <1>1, <1>4, <1>5, BeginEditStep

\* The commit of an edit whose version still is the row's.
LEMMA CommitEditStep ==
  ASSUME IncidentTypes, EditsCurrent, TimelineTellsAll, NEW s \in Supervisors, CommitEdit(s)
  PROVE  IncidentTypes' /\ EditsCurrent' /\ TimelineTellsAll'
  <1> DEFINE e == edit[s]
             i == e.id
             x == incident[i]
             new == [e.row EXCEPT !.version = @ + 1]
             t == Append(timeline[i], e.note)
  <1>1. /\ e # NoEdit /\ Exists(i) /\ x.version = e.row.version
        /\ incident' = [incident EXCEPT ![i] = new] /\ timeline' = [timeline EXCEPT ![i] = t]
        /\ edit' = [edit EXCEPT ![s] = NoEdit]
    BY DEF CommitEdit, VersionMatches
  <1>2. e \in Edits
    BY <1>1, IncidentKinds
  <1>3. i \in IncidentIds /\ e.row \in IncidentRows /\ e.note \in Notes
    BY <1>2 DEF Edits
  <1>4. x \in IncidentRows
    BY <1>1, <1>3, IncidentKinds
  <1>5. Continues(e, x)
    BY <1>1 DEF EditsCurrent, EditCurrent
  <1>6. new \in IncidentRows /\ new.state = e.row.state /\ new.version = x.version + 1
    <2> DEFINE y == e.row
    <2>1. y \in IncidentRows /\ y.version \in Nat \ {0} /\ y.version = x.version
      BY <1>1, <1>3 DEF IncidentRows
    <2> HIDE DEF y
    <2>2. /\ [y EXCEPT !.version = @ + 1] \in IncidentRows /\ [y EXCEPT !.version = @ + 1].state = y.state
          /\ [y EXCEPT !.version = @ + 1].version = y.version + 1
      BY <2>1 DEF IncidentRows
    <2> QED
      BY <2>1, <2>2 DEF y
  <1>7. timeline[i] \in Seq(Notes) /\ t \in Seq(Notes)
    BY <1>3 DEF IncidentTypes
  <1>8. Tells(timeline[i], x)
    BY <1>1, <1>3 DEF TimelineTellsAll
  <1>9. Tells(t, new)
    <2> HIDE DEF e, new, x
    <2> QED
      BY <1>2, <1>4, <1>5, <1>6, <1>7, <1>8, TellsMore
  <1> HIDE DEF new, t
  <1>10. IncidentTypes'
    BY <1>1, <1>3, <1>6, <1>7 DEF IncidentTypes
  <1>11. \A k \in IncidentIds : /\ k = i => incident'[k] = new /\ timeline'[k] = t
                                /\ k # i => incident'[k] = incident[k] /\ timeline'[k] = timeline[k]
    BY <1>1, <1>3 DEF IncidentTypes
  <1>12. EditsCurrent'
    <2> SUFFICES ASSUME NEW q \in Supervisors, edit'[q] # NoEdit PROVE EditCurrent(edit[q])'
      BY DEF EditsCurrent
    <2>1. edit'[q] = edit[q] /\ edit[q] # NoEdit
      BY <1>1 DEF IncidentTypes
    <2> DEFINE d == edit[q]
    <2>2. d \in Edits /\ EditCurrent(d)
      BY <2>1, IncidentKinds DEF EditsCurrent
    <2>3. d.id \in IncidentIds /\ d.row.version \in Nat
      BY <2>2 DEF Edits, IncidentRows
    <2> HIDE DEF d
    <2>4. CASE d.id = i
      <3>1. incident'[d.id] = new
        BY <1>11, <2>3, <2>4
      <3>2. d.row.version <= x.version
        BY <1>1, <2>2, <2>4 DEF EditCurrent
      <3>3. x.version \in Nat /\ d.row.version < new.version
        BY <1>4, <1>6, <2>3, <3>2 DEF IncidentRows
      <3>4. new # NoIncident
        <4>1. new.state \in IncidentStates /\ NoIncident.state = "none"
          BY <1>6 DEF IncidentRows, NoIncident
        <4> QED
          BY <4>1 DEF IncidentStates
      <3>5. d.row.version <= new.version /\ d.row.version # new.version
        BY <1>6, <2>3, <3>3 DEF IncidentRows
      <3>6. incident'[d.id] # NoIncident /\ d.row.version <= incident'[d.id].version
            /\ d.row.version # incident'[d.id].version
        BY <3>1, <3>4, <3>5
      <3>7. edit'[q] = d
        BY <2>1 DEF d
      <3> QED
        BY <3>6, <3>7 DEF EditCurrent
    <2>5. CASE d.id # i
      <3>1. incident'[d.id] = incident[d.id]
        BY <1>11, <2>3, <2>5
      <3>2. edit'[q] = d
        BY <2>1 DEF d
      <3> QED
        BY <2>2, <3>1, <3>2 DEF EditCurrent, Exists
    <2> QED
      BY <2>4, <2>5
  <1>13. TimelineTellsAll'
    <2> SUFFICES ASSUME NEW k \in IncidentIds, Exists(k)' PROVE Tells(timeline'[k], incident'[k])
      BY DEF TimelineTellsAll
    <2>1. CASE k = i
      BY <1>9, <1>11, <2>1
    <2>2. CASE k # i
      BY <1>11, <2>2 DEF TimelineTellsAll, Exists
    <2> QED
      BY <2>1, <2>2
  <1> QED
    BY <1>10, <1>12, <1>13

\* A stale edit is rolled back; retention deletes a closed incident with its notes.
LEMMA RejectAndPurgeStep ==
  ASSUME IncidentTypes, EditsCurrent, TimelineTellsAll,
         (\E s \in Supervisors : RejectEdit(s)) \/ (\E i \in IncidentIds : PurgeIncident(i))
  PROVE  IncidentTypes' /\ EditsCurrent' /\ TimelineTellsAll'
  <1>1. ASSUME NEW s \in Supervisors, RejectEdit(s) PROVE IncidentTypes' /\ EditsCurrent' /\ TimelineTellsAll'
    <2>1. edit' = [edit EXCEPT ![s] = NoEdit] /\ UNCHANGED <<incident, timeline>>
      BY <1>1 DEF RejectEdit
    <2>2. \A q \in Supervisors : edit'[q] # NoEdit => edit'[q] = edit[q]
      BY <2>1 DEF IncidentTypes
    <2>3. IncidentTypes' /\ TimelineTellsAll'
      BY <2>1 DEF IncidentTypes, TimelineTellsAll, Exists
    <2>4. EditsCurrent'
      BY <2>1, <2>2 DEF EditsCurrent, EditCurrent, Exists
    <2> QED
      BY <2>3, <2>4
  <1>2. ASSUME NEW i \in IncidentIds, PurgeIncident(i) PROVE IncidentTypes' /\ EditsCurrent' /\ TimelineTellsAll'
    <2> DEFINE none == <<>>
    <2>1. /\ incident' = [incident EXCEPT ![i] = Deleted] /\ timeline' = [timeline EXCEPT ![i] = none]
          /\ edit' = edit
      BY <1>2 DEF PurgeIncident
    <2>2. none \in Seq(Notes)
      OBVIOUS
    <2> HIDE DEF none
    <2>3. IncidentTypes'
      BY <2>1, <2>2 DEF IncidentTypes
    <2>4. \A k \in IncidentIds : k # i => incident'[k] = incident[k] /\ timeline'[k] = timeline[k]
      BY <2>1 DEF IncidentTypes
    <2>5. incident'[i] = Deleted /\ Deleted # NoIncident /\ ~Exists(i)'
      BY <2>1 DEF IncidentTypes, Deleted, NoIncident, Exists
    <2>6. EditsCurrent'
      <3> SUFFICES ASSUME NEW q \in Supervisors, edit[q] # NoEdit PROVE EditCurrent(edit[q])'
        BY <2>1 DEF EditsCurrent
      <3>1. edit[q].id \in IncidentIds /\ EditCurrent(edit[q])
        BY IncidentKinds DEF Edits, EditsCurrent
      <3> QED
        BY <2>1, <2>4, <2>5, <3>1 DEF EditCurrent, Exists
    <2>7. TimelineTellsAll'
      BY <2>4, <2>5 DEF TimelineTellsAll, Exists
    <2> QED
      BY <2>3, <2>6, <2>7
  <1> QED
    BY <1>1, <1>2

\* The timeline tells the whole story of an incident (transition_incident, _append, the version
\* column): for any number of supervisors whose requests interleave, the moves on it form one
\* chain of allowed transitions from "open" to the row's state, and it has one entry for every
\* accepted edit.
THEOREM TimelinesTellAll == IncidentSpec => []TimelineTellsAll
  <1> DEFINE Inv == IncidentTypes /\ EditsCurrent /\ TimelineTellsAll
  <1>1. IncidentInit => Inv
    <2> SUFFICES ASSUME IncidentInit PROVE Inv
      OBVIOUS
    <2> DEFINE none == <<>>
    <2>1. none \in Seq(Notes) /\ timeline = [i \in IncidentIds |-> none]
      BY DEF IncidentInit
    <2> HIDE DEF none
    <2>2. IncidentTypes
      BY <2>1 DEF IncidentInit, IncidentTypes
    <2>3. EditsCurrent /\ TimelineTellsAll
      BY DEF IncidentInit, EditsCurrent, TimelineTellsAll, Exists
    <2> QED
      BY <2>2, <2>3
  <1>2. Inv /\ [IncidentNext]_incidentVars => Inv'
    <2> SUFFICES ASSUME IncidentTypes, EditsCurrent, TimelineTellsAll, [IncidentNext]_incidentVars
                 PROVE  IncidentTypes' /\ EditsCurrent' /\ TimelineTellsAll'
      OBVIOUS
    <2>1. CASE UNCHANGED incidentVars
      BY <2>1 DEF incidentVars, IncidentTypes, EditsCurrent, EditCurrent, TimelineTellsAll, Exists
    <2>2. ASSUME NEW i \in IncidentIds, NEW e \in Alarms \cup {NoAlarm},
                 CreateIncident(i, e) \/ IncidentFromEvent(i, e)
          PROVE  IncidentTypes' /\ EditsCurrent' /\ TimelineTellsAll'
      BY <2>2, CreateStep DEF CreateIncident, IncidentFromEvent
    <2>3. ASSUME NEW s \in Supervisors, NEW i \in IncidentIds, NEW to \in IncidentStates,
                 NEW a \in BOOLEAN, NEW r \in BOOLEAN, TransitionIncident(s, i, to, a, r)
          PROVE  IncidentTypes' /\ EditsCurrent' /\ TimelineTellsAll'
      BY <2>3, TransitionStep
    <2>4. CASE \E s \in Supervisors, i \in IncidentIds : AddIncidentNote(s, i)
      BY <2>4, AddNoteStep
    <2>5. CASE \E s \in Supervisors : CommitEdit(s)
      BY <2>5, CommitEditStep
    <2>6. CASE (\E s \in Supervisors : RejectEdit(s)) \/ (\E i \in IncidentIds : PurgeIncident(i))
      BY <2>6, RejectAndPurgeStep
    <2> QED
      BY <2>1, <2>2, <2>3, <2>4, <2>5, <2>6 DEF IncidentNext
  <1> QED
    BY <1>1, <1>2, PTL DEF IncidentSpec

-----------------------------------------------------------------------------
(* The breach register (Breaches).                                         *)

Gone == [state |-> "deleted"]
BreachRows == [state : {"open", "closed"}, due : [Notices -> Nat], sent : [Notices -> BOOLEAN],
               closedAt : Nat]
AlarmRows == [state : {"none", "open", "acknowledged"}, ts : Nat]

BreachTypes ==
  /\ breach \in [BreachIds -> BreachRows \cup {NoBreach, Gone}]
  /\ breachAlarm \in [AlarmIds -> AlarmRows]
  /\ breachTick \in [running : BOOLEAN, batch : SUBSET AlarmIds]
  /\ breachClock \in Nat

\* An alarm on a settled notice that is open, or that a running tick is about to open, is one
\* the tick held when the notice was settled.
SettledIsHeld ==
  \A a \in AlarmIds :
    Settled(a[1], a[2]) /\ (breachAlarm[a].state = "open" \/ a \in breachTick.batch) => a \in late

\* The constants, and the rows that are there.
LEMMA BreachNames ==
  /\ NoticeAfter \in [Notices -> Nat] /\ BreachMaxTime \in Nat /\ Never \in Nat
  /\ \A x \in BreachRows \cup {NoBreach, Gone} : x.state \in {"open", "closed"} => x \in BreachRows
  <1>1. NoticeAfter \in [Notices -> Nat] /\ BreachMaxTime \in Nat
    BY BreachAssumption DEF BreachAssumption
  <1>2. Never \in Nat
    BY <1>1 DEF Never
  <1>3. ASSUME NEW x \in BreachRows \cup {NoBreach, Gone}, x.state \in {"open", "closed"}
        PROVE  x \in BreachRows
    BY <1>3 DEF NoBreach, Gone
  <1> QED
    BY <1>1, <1>2, <1>3

\* Deadlines are times.
LEMMA DeadlinesAreTimes ==
  ASSUME NEW d \in Nat, NEW o \in Nat, NEW n \in BOOLEAN
  PROVE  Deadlines(d, o, n) \in [Notices -> Nat]
  <1> DEFINE start == IF DeadlineFrom = "occurred" /\ o # Never THEN o ELSE d
  <1>1. start \in Nat
    OBVIOUS
  <1>2. \A m \in Notices : start + NoticeAfter[m] \in Nat
    BY <1>1, BreachNames
  <1> QED
    BY <1>2, BreachNames DEF Deadlines

\* Settling notices: their open alarms are acknowledged, and the ones a running tick holds are
\* marked late.
LEMMA SettleStep ==
  ASSUME BreachTypes, SettledIsHeld, NEW b \in BreachIds, NEW ns \in SUBSET Notices, NEW row \in BreachRows,
         breach' = [breach EXCEPT ![b] = row], breachAlarm' = AcknowledgeAlarms(b, ns), Settles(b, ns),
         UNCHANGED <<breachTick, breachClock>>,
         \A n \in Notices \ ns : Settled(b, n)' => Settled(b, n)
  PROVE  BreachTypes' /\ SettledIsHeld'
  <1>1. ASSUME NEW a \in AlarmIds
        PROVE  /\ breachAlarm'[a] \in AlarmRows
               /\ breachAlarm'[a].state = "open" => breachAlarm[a].state = "open" /\ a \notin AlarmsOf(b, ns)
    <2> DEFINE y == breachAlarm[a]
    <2>1. y \in AlarmRows
      BY DEF BreachTypes
    <2>2. breachAlarm'[a] = IF a \in AlarmsOf(b, ns) /\ y.state = "open"
                            THEN [y EXCEPT !.state = "acknowledged"] ELSE y
      BY DEF AcknowledgeAlarms
    <2> HIDE DEF y
    <2>3. [y EXCEPT !.state = "acknowledged"] \in AlarmRows /\ [y EXCEPT !.state = "acknowledged"].state # "open"
      BY <2>1 DEF AlarmRows
    <2> QED
      BY <2>1, <2>2, <2>3 DEF y
  <1>2. breachAlarm' \in [AlarmIds -> AlarmRows]
    BY <1>1 DEF AcknowledgeAlarms
  <1>3. BreachTypes'
    BY <1>2 DEF BreachTypes
  <1>4. SettledIsHeld'
    <2> SUFFICES ASSUME NEW a \in AlarmIds, Settled(a[1], a[2])',
                        breachAlarm'[a].state = "open" \/ a \in breachTick.batch
                 PROVE  a \in late'
      BY DEF SettledIsHeld
    <2>1. late' = late \cup (breachTick.batch \cap AlarmsOf(b, ns))
      BY DEF Settles
    <2>2. CASE a \in AlarmsOf(b, ns)
      BY <1>1, <2>1, <2>2
    <2>3. CASE a \notin AlarmsOf(b, ns)
      <3>1. a[1] \in BreachIds /\ a[2] \in Notices /\ a[3] \in Stages /\ a = <<a[1], a[2], a[3]>>
        BY DEF AlarmIds
      <3>2. a[1] # b \/ a[2] \in Notices \ ns
        BY <2>3, <3>1 DEF AlarmsOf
      <3>3. Settled(a[1], a[2])
        BY <3>1, <3>2 DEF Settled, BreachTypes
      <3> QED
        BY <1>1, <2>1, <3>3 DEF SettledIsHeld
    <2> QED
      BY <2>2, <2>3
  <1> QED
    BY <1>3, <1>4

\* record_notice
LEMMA NoticeStep ==
  ASSUME BreachTypes, SettledIsHeld, NEW b \in BreachIds, NEW n \in Notices, RecordNotice(b, n)
  PROVE  BreachTypes' /\ SettledIsHeld'
  <1> DEFINE y == breach[b]
             row == [y EXCEPT !.sent[n] = TRUE]
  <1>1. /\ breach' = [breach EXCEPT ![b] = row] /\ breachAlarm' = AcknowledgeAlarms(b, {n}) /\ Settles(b, {n})
        /\ UNCHANGED <<breachTick, breachClock>> /\ y.state \in {"open", "closed"}
    BY DEF RecordNotice, NoticeAccepted
  <1>2. y \in BreachRows
    <2>1. breach[b] \in BreachRows \cup {NoBreach, Gone}
      BY DEF BreachTypes
    <2> QED
      BY <1>1, <2>1, BreachNames
  <1>3. y.sent \in [Notices -> BOOLEAN]
    BY <1>2 DEF BreachRows
  <1>4. row.state = y.state /\ row.sent = [y.sent EXCEPT ![n] = TRUE] /\ row \in BreachRows
    <2> HIDE DEF y
    <2> QED
      BY <1>2 DEF BreachRows
  <1>5. \A m \in Notices \ {n} : Settled(b, m)' => Settled(b, m)
    <2>1. breach'[b] = row
      BY <1>1 DEF BreachTypes
    <2>2. \A m \in Notices \ {n} : row.sent[m] = y.sent[m]
      BY <1>3, <1>4
    <2> HIDE DEF row
    <2> QED
      BY <1>4, <2>1, <2>2 DEF Settled
  <1> HIDE DEF row, y
  <1> QED
    BY <1>1, <1>4, <1>5, SettleStep

\* close_breach
LEMMA CloseStep ==
  ASSUME BreachTypes, SettledIsHeld, NEW b \in BreachIds, CloseBreach(b)
  PROVE  BreachTypes' /\ SettledIsHeld'
  <1> DEFINE y == breach[b]
             row == [y EXCEPT !.state = "closed", !.closedAt = breachClock]
  <1>1. /\ breach' = [breach EXCEPT ![b] = row] /\ breachAlarm' = AcknowledgeAlarms(b, Notices)
        /\ Settles(b, Notices) /\ UNCHANGED <<breachTick, breachClock>> /\ y.state = "open"
    BY DEF CloseBreach, ClosedRow
  <1>2. y \in BreachRows
    <2>1. breach[b] \in BreachRows \cup {NoBreach, Gone}
      BY DEF BreachTypes
    <2> QED
      BY <1>1, <2>1, BreachNames
  <1>3. row \in BreachRows
    <2>1. breachClock \in Nat
      BY DEF BreachTypes
    <2> HIDE DEF y
    <2> QED
      BY <1>2, <2>1 DEF BreachRows
  <1> HIDE DEF row
  <1> QED
    BY <1>1, <1>3, SettleStep

\* record_breach: nothing is settled yet.
LEMMA RecordBreachStep ==
  ASSUME BreachTypes, SettledIsHeld, NEW b \in BreachIds, NEW d \in Nat, NEW o \in Nat, NEW n \in BOOLEAN,
         RecordBreach(b, d, o, n)
  PROVE  BreachTypes' /\ SettledIsHeld'
  <1> DEFINE due == Deadlines(d, o, n)
             sent == [m \in Notices |-> FALSE]
             row == [state |-> "open", due |-> due, sent |-> sent, closedAt |-> Never]
  <1>1. breach' = [breach EXCEPT ![b] = row] /\ UNCHANGED <<breachAlarm, breachTick, breachClock, late>>
    BY DEF RecordBreach
  <1>2. due \in [Notices -> Nat] /\ sent \in [Notices -> BOOLEAN] /\ \A m \in Notices : ~sent[m]
    BY DeadlinesAreTimes
  <1> HIDE DEF due, sent
  <1>3. row \in BreachRows /\ row.state = "open" /\ row.sent = sent
    BY <1>2, BreachNames DEF BreachRows
  <1> HIDE DEF row
  <1>4. BreachTypes'
    BY <1>1, <1>3 DEF BreachTypes
  <1>5. SettledIsHeld'
    <2> SUFFICES ASSUME NEW a \in AlarmIds, Settled(a[1], a[2])',
                        breachAlarm[a].state = "open" \/ a \in breachTick.batch
                 PROVE  a \in late
      BY <1>1 DEF SettledIsHeld
    <2>1. a[1] \in BreachIds /\ a[2] \in Notices
      BY DEF AlarmIds
    <2>2. a[1] # b
      <3>1. breach'[b] = row
        BY <1>1 DEF BreachTypes
      <3> QED
        BY <1>2, <1>3, <2>1, <3>1 DEF Settled
    <2>3. Settled(a[1], a[2])
      BY <1>1, <2>1, <2>2 DEF Settled, BreachTypes
    <2> QED
      BY <2>3 DEF SettledIsHeld
  <1> QED
    BY <1>4, <1>5

\* check_breach_deadlines reads: nothing it holds is settled.
LEMMA CheckStep ==
  ASSUME BreachTypes, SettledIsHeld, CheckBreachDeadlines
  PROVE  BreachTypes' /\ SettledIsHeld'
  <1>1. /\ breachTick' = [running |-> TRUE, batch |-> DeadlineAlarms]
        /\ UNCHANGED <<breach, breachAlarm, breachClock, late>>
    BY DEF CheckBreachDeadlines
  <1>2. DeadlineAlarms \in SUBSET AlarmIds
    BY DEF DeadlineAlarms
  <1>3. BreachTypes'
    <2> DEFINE alarms == DeadlineAlarms
    <2>1. alarms \in SUBSET AlarmIds /\ breachTick' = [running |-> TRUE, batch |-> alarms]
      BY <1>1, <1>2
    <2> HIDE DEF alarms
    <2> QED
      BY <1>1, <2>1 DEF BreachTypes
  <1>4. ASSUME NEW a \in DeadlineAlarms PROVE ~Settled(a[1], a[2])
    BY DEF DeadlineAlarms, NoticeStatus, Settled
  <1>5. SettledIsHeld'
    <2>1. breachTick'.batch = DeadlineAlarms
      BY <1>1
    <2>2. \A a \in AlarmIds : Settled(a[1], a[2])' <=> Settled(a[1], a[2])
      BY <1>1 DEF Settled
    <2> QED
      BY <1>1, <1>4, <2>1, <2>2 DEF SettledIsHeld
  <1> QED
    BY <1>3, <1>5

\* The tick's commit opens what it held, its failure drops it.
LEMMA TickEndStep ==
  ASSUME BreachTypes, SettledIsHeld, BreachTickCommit \/ BreachTickFails
  PROVE  BreachTypes' /\ SettledIsHeld'
  <1>1. /\ breachTick' = NoTick /\ UNCHANGED <<breach, breachClock, late>>
        /\ \/ breachAlarm' = breachAlarm
           \/ breachAlarm' = [a \in AlarmIds |-> IF a \in breachTick.batch
                                                 THEN [state |-> "open", ts |-> breachClock]
                                                 ELSE breachAlarm[a]]
    BY DEF BreachTickCommit, BreachTickFails
  <1>2. NoTick \in [running : BOOLEAN, batch : SUBSET AlarmIds] /\ NoTick.batch = {}
    BY DEF NoTick
  <1>3. [state |-> "open", ts |-> breachClock] \in AlarmRows
    BY DEF BreachTypes, AlarmRows
  <1>4. breachAlarm' \in [AlarmIds -> AlarmRows]
    BY <1>1, <1>3 DEF BreachTypes
  <1>5. BreachTypes'
    BY <1>1, <1>2, <1>4 DEF BreachTypes
  <1>6. ASSUME NEW a \in AlarmIds, breachAlarm'[a].state = "open" \/ a \in breachTick'.batch
        PROVE  breachAlarm[a].state = "open" \/ a \in breachTick.batch
    BY <1>1, <1>2, <1>6
  <1>7. \A a \in AlarmIds : Settled(a[1], a[2])' <=> Settled(a[1], a[2])
    BY <1>1 DEF Settled
  <1> QED
    BY <1>1, <1>5, <1>6, <1>7 DEF SettledIsHeld

\* Retention deletes alarms and closed breaches, and opens nothing.
LEMMA BreachRetentionStep ==
  ASSUME BreachTypes, SettledIsHeld, BreachRetention
  PROVE  BreachTypes' /\ SettledIsHeld'
  <1>1. /\ breachAlarm' = [a \in AlarmIds |-> IF breachAlarm[a].ts + RetainAlarms < breachClock
                                              THEN NotRaised ELSE breachAlarm[a]]
        /\ breach' = [b \in BreachIds |->
                        IF breach[b].state = "closed" /\ breach[b].closedAt + RetainBreaches < breachClock
                        THEN Gone ELSE breach[b]]
        /\ late' = {a \in late : breachAlarm'[a] # NotRaised}
        /\ UNCHANGED <<breachTick, breachClock>> /\ breachTick.batch = {}
    BY DEF BreachRetention, Gone, NoTick
  <1>2. NotRaised \in AlarmRows /\ NotRaised.state = "none" /\ Gone.state = "deleted"
    BY DEF NotRaised, AlarmRows, Gone
  <1>3. \A a \in AlarmIds : breachAlarm'[a] = NotRaised \/ breachAlarm'[a] = breachAlarm[a]
    BY <1>1
  <1>4. \A b \in BreachIds : breach'[b] = Gone \/ breach'[b] = breach[b]
    BY <1>1
  <1>5. BreachTypes'
    <2>1. breachAlarm' \in [AlarmIds -> AlarmRows]
      BY <1>1, <1>2, <1>3 DEF BreachTypes
    <2>2. breach' \in [BreachIds -> BreachRows \cup {NoBreach, Gone}]
      BY <1>1, <1>4 DEF BreachTypes
    <2> QED
      BY <1>1, <2>1, <2>2 DEF BreachTypes
  <1>6. SettledIsHeld'
    <2> SUFFICES ASSUME NEW a \in AlarmIds, Settled(a[1], a[2])', breachAlarm'[a].state = "open"
                 PROVE  a \in late'
      BY <1>1 DEF SettledIsHeld
    <2>1. breachAlarm'[a] = breachAlarm[a] /\ breachAlarm'[a] # NotRaised
      BY <1>2, <1>3
    <2>2. a[1] \in BreachIds
      BY DEF AlarmIds
    <2>3. Settled(a[1], a[2])
      BY <1>2, <1>4, <2>2 DEF Settled
    <2> QED
      BY <1>1, <2>1, <2>3 DEF SettledIsHeld
  <1> QED
    BY <1>5, <1>6

\* acknowledge_event closes an alarm; the clock opens none.
LEMMA AckAndClockStep ==
  ASSUME BreachTypes, SettledIsHeld, BreachClockTick \/ \E a \in AlarmIds : AckBreachAlarm(a)
  PROVE  BreachTypes' /\ SettledIsHeld'
  <1>1. CASE BreachClockTick
    BY <1>1 DEF BreachClockTick, BreachTypes, SettledIsHeld, Settled
  <1>2. ASSUME NEW a \in AlarmIds, AckBreachAlarm(a) PROVE BreachTypes' /\ SettledIsHeld'
    <2> DEFINE y == breachAlarm[a]
    <2>1. /\ breachAlarm' = [breachAlarm EXCEPT ![a] = [y EXCEPT !.state = "acknowledged"]]
          /\ UNCHANGED <<breach, breachTick, breachClock, late>> /\ y \in AlarmRows
      BY <1>2 DEF AckBreachAlarm, BreachTypes
    <2> HIDE DEF y
    <2>2. [y EXCEPT !.state = "acknowledged"] \in AlarmRows /\ [y EXCEPT !.state = "acknowledged"].state # "open"
      BY <2>1 DEF AlarmRows
    <2> DEFINE z == [y EXCEPT !.state = "acknowledged"]
    <2>3. z \in AlarmRows /\ z.state # "open" /\ breachAlarm' = [breachAlarm EXCEPT ![a] = z]
      BY <2>1, <2>2
    <2> HIDE DEF z
    <2>4. BreachTypes'
      BY <2>1, <2>3 DEF BreachTypes
    <2>5. \A c \in AlarmIds : breachAlarm'[c].state = "open" => breachAlarm[c].state = "open"
      BY <2>3 DEF BreachTypes
    <2>6. \A c \in AlarmIds : Settled(c[1], c[2])' <=> Settled(c[1], c[2])
      BY <2>1 DEF Settled
    <2> QED
      BY <2>1, <2>4, <2>5, <2>6 DEF SettledIsHeld
  <1> QED
    BY <1>1, <1>2

\* Recording a notice or closing a breach silences its alarms (record_notice, close_breach,
\* _acknowledge_alarms): for any breaches, deadlines and retention, an alarm that is open on a
\* settled notice is one that a tick had read before it was settled and committed after.
THEOREM SettledNoticesAreSilent == BreachSpec => []SettledIsSilent
  <1> DEFINE Inv == BreachTypes /\ SettledIsHeld
  <1>1. BreachInit => Inv
    <2> SUFFICES ASSUME BreachInit PROVE Inv
      OBVIOUS
    <2>1. NotRaised \in AlarmRows /\ NoTick \in [running : BOOLEAN, batch : SUBSET AlarmIds]
      BY DEF NotRaised, AlarmRows, NoTick
    <2>2. BreachTypes
      BY <2>1 DEF BreachInit, BreachTypes
    <2>3. SettledIsHeld
      <3>1. ASSUME NEW a \in AlarmIds PROVE ~Settled(a[1], a[2])
        <4>1. a[1] \in BreachIds
          BY DEF AlarmIds
        <4>2. breach[a[1]].state = "none"
          BY <4>1 DEF BreachInit, NoBreach
        <4> QED
          BY <4>2 DEF Settled
      <3> QED
        BY <3>1 DEF SettledIsHeld
    <2> QED
      BY <2>2, <2>3
  <1>2. Inv /\ [BreachNext]_breachVars => Inv'
    <2> SUFFICES ASSUME BreachTypes, SettledIsHeld, [BreachNext]_breachVars
                 PROVE  BreachTypes' /\ SettledIsHeld'
      OBVIOUS
    <2>1. CASE UNCHANGED breachVars
      BY <2>1 DEF breachVars, BreachTypes, SettledIsHeld, Settled
    <2>2. ASSUME NEW b \in BreachIds, NEW d \in 0..BreachMaxTime, NEW o \in 0..BreachMaxTime \cup {Never},
                 NEW n \in BOOLEAN, RecordBreach(b, d, o, n)
          PROVE  BreachTypes' /\ SettledIsHeld'
      <3>1. d \in Nat /\ o \in Nat
        BY BreachNames
      <3> QED
        BY <2>2, <3>1, RecordBreachStep
    <2>3. CASE \E b \in BreachIds, n \in Notices : RecordNotice(b, n)
      BY <2>3, NoticeStep
    <2>4. CASE \E b \in BreachIds : CloseBreach(b)
      BY <2>4, CloseStep
    <2>5. CASE BreachClockTick \/ \E a \in AlarmIds : AckBreachAlarm(a)
      BY <2>5, AckAndClockStep
    <2>6. CASE CheckBreachDeadlines
      BY <2>6, CheckStep
    <2>7. CASE BreachTickCommit \/ BreachTickFails
      BY <2>7, TickEndStep
    <2>8. CASE BreachRetention
      BY <2>8, BreachRetentionStep
    <2> QED
      BY <2>1, <2>2, <2>3, <2>4, <2>5, <2>6, <2>7, <2>8 DEF BreachNext
  <1>3. Inv => SettledIsSilent
    BY DEF SettledIsHeld, SettledIsSilent
  <1> QED
    BY <1>1, <1>2, <1>3, PTL DEF BreachSpec

-----------------------------------------------------------------------------
(* Accounts and login (Accounts).                                          *)

Words == Passwords \cup {"none"}
Hashes == [password : Words, salt : Nat]
Locks == [row : BOOLEAN, count : Nat, until : Nat]
Entries == [token : Words, hash : Hashes, expiry : Nat]
LoginRows == [phase : {"idle", "user", "lock", "verify", "accepted", "refused", "failed"},
              password : Words, hash : Hashes, lock : Locks, held : SUBSET Words, lockSeen : BOOLEAN]
Resets == [busy : BOOLEAN, password : Words, lock : Locks]

AccountTypes ==
  /\ accUser \in Hashes /\ accLock \in Locks /\ accCache \in Entries /\ accAdmin \in Resets
  /\ accLogin \in [Logins -> LoginRows]
  /\ accNow \in Nat /\ accSalt \in Nat

\* What a request in flight has seen: the password and the lock of the moment, and the
\* password of the hash it read.
Followed(x) ==
  /\ Running(x) => /\ x.password \in Passwords /\ accUser.password \in x.held
                   /\ LockedOut(accLock) => x.lockSeen
  /\ x.phase \in {"lock", "verify"} => x.hash.password \in x.held

Answered(x) ==
  /\ x.phase = "accepted" => x.password \in x.held
  /\ x.phase = "refused" => x.lockSeen \/ x.held # {x.password}

\* The cache holds only what was verified.
AccountFollowed ==
  /\ accCache.token = accCache.hash.password
  /\ \A q \in Logins : Followed(accLogin[q]) /\ Answered(accLogin[q])

\* The constants, and what is there before anything is.
LEMMA AccountNames ==
  /\ "none" \notin Passwords /\ LockTime \in Nat /\ CacheTime \in Nat
  /\ NoHash \in Hashes /\ NoLock \in Locks /\ NoEntry \in Entries /\ NoLogin \in LoginRows /\ NoReset \in Resets
  <1>1. "none" \notin Passwords /\ LockTime \in Nat /\ CacheTime \in Nat /\ "none" \in Words
    BY AccountAssumption DEF AccountAssumption, Words
  <1>2. NoHash \in Hashes /\ NoLock \in Locks
    BY <1>1 DEF NoHash, Hashes, NoLock, Locks
  <1>3. NoEntry \in Entries /\ NoReset \in Resets
    BY <1>1, <1>2 DEF NoEntry, Entries, NoReset, Resets
  <1>4. NoLogin \in LoginRows
    BY <1>1, <1>2 DEF NoLogin, LoginRows
  <1> QED
    BY <1>1, <1>2, <1>3, <1>4

\* lockout.py keeps the row well-formed.
LEMMA LocksAreRows ==
  ASSUME AccountTypes, NEW lock \in Locks
  PROVE  RecordFailure(lock) \in Locks /\ Clear(lock) \in Locks
  <1>1. accLock \in Locks /\ accNow \in Nat /\ accLock.until \in Nat /\ lock.count \in Nat
    BY DEF AccountTypes, Locks
  <1>2. RecordFailure(lock) \in Locks
    <2> DEFINE until == IF lock.count + 1 >= MaxFailures THEN accNow + LockTime ELSE accLock.until
    <2>1. until \in Nat
      BY <1>1, AccountNames
    <2> HIDE DEF until
    <2>2. [row |-> TRUE, count |-> lock.count + 1, until |-> until] \in Locks
      BY <1>1, <2>1 DEF Locks
    <2> QED
      BY <2>2 DEF RecordFailure, until
  <1>3. Clear(lock) \in Locks
    BY <1>1 DEF Clear, Locks
  <1> QED
    BY <1>2, <1>3

\* Watch: what each request has seen once a step is over, given what the step made of it.
LEMMA WatchStep ==
  ASSUME AccountTypes, NEW logins \in [Logins -> LoginRows], Watch(logins),
         accUser' \in Hashes, accLock' \in Locks, accNow' \in Nat,
         \A q \in Logins :
           /\ Running(logins[q]) => logins[q].password \in Passwords
           /\ logins[q].phase \in {"lock", "verify"} =>
                logins[q].hash.password \in logins[q].held \cup {accUser'.password}
           /\ Answered(logins[q])
  PROVE  /\ accLogin' \in [Logins -> LoginRows]
         /\ \A q \in Logins : Followed(accLogin[q])' /\ Answered(accLogin[q])'
  <1> DEFINE locked == accLock'.row /\ accLock'.until > accNow'
             seen(x) == [x EXCEPT !.held = @ \cup {accUser'.password}, !.lockSeen = @ \/ locked]
  <1>1. accLogin' = [q \in Logins |-> IF Running(logins[q]) THEN seen(logins[q]) ELSE logins[q]]
    BY DEF Watch
  <1>2. accUser'.password \in Words
    BY DEF Hashes
  <1>3. ASSUME NEW x \in LoginRows
        PROVE  /\ seen(x) \in LoginRows /\ seen(x).phase = x.phase /\ seen(x).password = x.password
               /\ seen(x).hash = x.hash /\ seen(x).held = x.held \cup {accUser'.password}
               /\ locked => seen(x).lockSeen
    <2>1. x.held \cup {accUser'.password} \in SUBSET Words /\ x.lockSeen \in BOOLEAN
      BY <1>2 DEF LoginRows
    <2> DEFINE held == x.held \cup {accUser'.password}
               flag == x.lockSeen \/ locked
    <2>2. flag \in BOOLEAN /\ (locked => flag) /\ seen(x) = [x EXCEPT !.held = held, !.lockSeen = flag]
      OBVIOUS
    <2> HIDE DEF held, flag, locked, seen
    <2>3. /\ [x EXCEPT !.held = held] \in LoginRows
          /\ [x EXCEPT !.held = held].held = held /\ [x EXCEPT !.held = held].phase = x.phase
          /\ [x EXCEPT !.held = held].password = x.password /\ [x EXCEPT !.held = held].hash = x.hash
      BY <2>1 DEF LoginRows, held
    <2> DEFINE y == [x EXCEPT !.held = held]
    <2>4. seen(x) = [y EXCEPT !.lockSeen = flag]
      BY <2>2
    <2>5. y \in LoginRows /\ y.held = held /\ y.phase = x.phase /\ y.password = x.password /\ y.hash = x.hash
      BY <2>3
    <2> HIDE DEF y
    <2>6. /\ [y EXCEPT !.lockSeen = flag] \in LoginRows /\ [y EXCEPT !.lockSeen = flag].held = y.held
          /\ [y EXCEPT !.lockSeen = flag].phase = y.phase /\ [y EXCEPT !.lockSeen = flag].hash = y.hash
          /\ [y EXCEPT !.lockSeen = flag].password = y.password
          /\ [y EXCEPT !.lockSeen = flag].lockSeen = flag
      BY <2>2, <2>5 DEF LoginRows
    <2> QED
      BY <2>2, <2>4, <2>5, <2>6 DEF held
  <1> HIDE DEF seen, locked
  <1>4. accLogin' \in [Logins -> LoginRows]
    BY <1>1, <1>3
  <1>5. ASSUME NEW q \in Logins PROVE Followed(accLogin[q])' /\ Answered(accLogin[q])'
    <2> DEFINE x == logins[q]
    <2>1. x \in LoginRows
      OBVIOUS
    <2>2. CASE Running(x)
      <3>1. accLogin'[q] = seen(x)
        BY <1>1, <2>2
      <3>2. /\ seen(x).phase \notin {"accepted", "refused"} /\ seen(x).password \in Passwords
            /\ accUser'.password \in seen(x).held
            /\ seen(x).phase \in {"lock", "verify"} => seen(x).hash.password \in seen(x).held
            /\ locked => seen(x).lockSeen
        BY <1>3, <2>1, <2>2 DEF Running
      <3> QED
        BY <3>1, <3>2 DEF Followed, Answered, Running, LockedOut, locked
    <2>3. CASE ~Running(x)
      <3>1. accLogin'[q] = x /\ x.phase \notin {"lock", "verify"} /\ Answered(x)
        BY <1>1, <2>3 DEF Running
      <3> QED
        BY <2>3, <3>1 DEF Followed, Answered, Running
    <2> QED
      BY <2>2, <2>3
  <1> QED
    BY <1>4, <1>5

\* A step that only one request takes: the others were followed before.
LEMMA OneLoginStep ==
  ASSUME AccountTypes, AccountFollowed, NEW q \in Logins, NEW row \in LoginRows,
         Watch([accLogin EXCEPT ![q] = row]), accUser' = accUser, accNow' = accNow, accLock' \in Locks,
         Running(row) => row.password \in Passwords,
         row.phase \in {"lock", "verify"} => row.hash.password \in row.held \cup {accUser.password},
         Answered(row)
  PROVE  /\ accLogin' \in [Logins -> LoginRows]
         /\ \A r \in Logins : Followed(accLogin[r])' /\ Answered(accLogin[r])'
  <1> DEFINE logins == [accLogin EXCEPT ![q] = row]
  <1>1. logins \in [Logins -> LoginRows] /\ \A r \in Logins : logins[r] = IF r = q THEN row ELSE accLogin[r]
    BY DEF AccountTypes
  <1>2. accUser' \in Hashes /\ accNow' \in Nat
    BY DEF AccountTypes
  <1>3. \A r \in Logins : Followed(accLogin[r]) /\ Answered(accLogin[r])
    BY DEF AccountFollowed
  <1>4. Watch(logins)
    OBVIOUS
  <1> HIDE DEF logins
  <1>5. ASSUME NEW r \in Logins
        PROVE  /\ Running(logins[r]) => logins[r].password \in Passwords
               /\ logins[r].phase \in {"lock", "verify"} =>
                    logins[r].hash.password \in logins[r].held \cup {accUser'.password}
               /\ Answered(logins[r])
    <2>1. CASE r = q
      BY <1>1, <2>1
    <2>2. CASE r # q
      BY <1>1, <1>3, <2>2 DEF Followed
    <2> QED
      BY <2>1, <2>2
  <1> QED
    BY <1>1, <1>2, <1>4, <1>5, WatchStep

\* A step that no request takes.
LEMMA NoLoginStep ==
  ASSUME AccountTypes, AccountFollowed, Watch(accLogin),
         accUser' \in Hashes, accNow' \in Nat, accLock' \in Locks
  PROVE  /\ accLogin' \in [Logins -> LoginRows]
         /\ \A r \in Logins : Followed(accLogin[r])' /\ Answered(accLogin[r])'
  <1>1. accLogin \in [Logins -> LoginRows]
    BY DEF AccountTypes
  <1>2. \A r \in Logins : Followed(accLogin[r]) /\ Answered(accLogin[r])
    BY DEF AccountFollowed
  <1>3. \A r \in Logins : /\ Running(accLogin[r]) => accLogin[r].password \in Passwords
                          /\ accLogin[r].phase \in {"lock", "verify"} =>
                               accLogin[r].hash.password \in accLogin[r].held \cup {accUser'.password}
                          /\ Answered(accLogin[r])
    BY <1>2 DEF Followed
  <1> QED
    BY <1>1, <1>3, WatchStep

\* A request begins.
LEMMA BeginLoginStep ==
  ASSUME AccountTypes, AccountFollowed, NEW q \in Logins, NEW p \in Passwords, BeginLogin(q, p)
  PROVE  AccountTypes' /\ AccountFollowed'
  <1> DEFINE row == [NoLogin EXCEPT !.phase = "user", !.password = p]
  <1>1. /\ Watch([accLogin EXCEPT ![q] = row])
        /\ UNCHANGED <<accUser, accLock, accCache, accAdmin, accNow, accSalt>>
    BY DEF BeginLogin
  <1>2. row \in LoginRows /\ row.phase = "user" /\ row.password = p
    <2>1. p \in Words
      BY DEF Words
    <2> QED
      BY <2>1, AccountNames DEF LoginRows, NoLogin
  <1> HIDE DEF row
  <1>3. accLock' \in Locks
    BY <1>1 DEF AccountTypes
  <1>4. /\ accLogin' \in [Logins -> LoginRows]
        /\ \A r \in Logins : Followed(accLogin[r])' /\ Answered(accLogin[r])'
    BY <1>1, <1>2, <1>3, OneLoginStep DEF Answered
  <1>5. AccountTypes'
    BY <1>1, <1>4 DEF AccountTypes
  <1> QED
    BY <1>1, <1>4, <1>5 DEF AccountFollowed

\* get_user reads the row.
LEMMA ReadUserStep ==
  ASSUME AccountTypes, AccountFollowed, NEW q \in Logins, ReadUser(q)
  PROVE  AccountTypes' /\ AccountFollowed'
  <1> DEFINE x == accLogin[q]
             phase == IF accUser = NoHash THEN "refused" ELSE "lock"
             row == [[x EXCEPT !.hash = accUser] EXCEPT !.phase = phase]
  <1>1. /\ Watch([accLogin EXCEPT ![q] = row]) /\ x.phase = "user"
        /\ UNCHANGED <<accUser, accLock, accCache, accAdmin, accNow, accSalt>>
    BY DEF ReadUser, AccountTypes
  <1>2. x \in LoginRows /\ accUser \in Hashes /\ phase \in {"refused", "lock"}
    BY DEF AccountTypes
  <1>3. x.password \in Passwords /\ accUser.password \in x.held
    BY <1>1 DEF AccountFollowed, Followed, Running
  <1>4. phase = "refused" => accUser.password = "none"
    BY DEF NoHash
  <1> HIDE DEF x, phase
  <1>5. /\ row \in LoginRows /\ row.phase = phase /\ row.password = x.password
        /\ row.hash = accUser /\ row.held = x.held
    <2> DEFINE y == [x EXCEPT !.hash = accUser]
    <2>1. /\ y \in LoginRows /\ y.hash = accUser /\ y.password = x.password /\ y.held = x.held
          /\ row = [y EXCEPT !.phase = phase]
      BY <1>2 DEF LoginRows
    <2> HIDE DEF y, row
    <2>2. /\ [y EXCEPT !.phase = phase] \in LoginRows /\ [y EXCEPT !.phase = phase].phase = phase
          /\ [y EXCEPT !.phase = phase].password = y.password /\ [y EXCEPT !.phase = phase].hash = y.hash
          /\ [y EXCEPT !.phase = phase].held = y.held
      BY <1>2, <2>1 DEF LoginRows
    <2> QED
      BY <2>1, <2>2
  <1> HIDE DEF row
  <1>6. Answered(row)
    BY <1>2, <1>3, <1>4, <1>5, AccountNames DEF Answered
  <1>7. accLock' \in Locks
    BY <1>1 DEF AccountTypes
  <1>8. /\ accLogin' \in [Logins -> LoginRows]
        /\ \A r \in Logins : Followed(accLogin[r])' /\ Answered(accLogin[r])'
    BY <1>1, <1>3, <1>5, <1>6, <1>7, OneLoginStep
  <1>9. AccountTypes'
    BY <1>1, <1>8 DEF AccountTypes
  <1> QED
    BY <1>1, <1>8, <1>9 DEF AccountFollowed

\* is_locked, then the cache.
LEMMA CheckLoginStep ==
  ASSUME AccountTypes, AccountFollowed, NEW q \in Logins, CheckLogin(q)
  PROVE  AccountTypes' /\ AccountFollowed'
  <1> DEFINE x == accLogin[q]
             phase == IF LockedOut(accLock) THEN "refused"
                      ELSE IF Cached(x.password, x.hash) THEN "accepted" ELSE "verify"
             row == [[x EXCEPT !.lock = accLock] EXCEPT !.phase = phase]
  <1>1. /\ Watch([accLogin EXCEPT ![q] = row]) /\ x.phase = "lock"
        /\ UNCHANGED <<accUser, accLock, accCache, accAdmin, accNow, accSalt>>
    BY DEF CheckLogin, AccountTypes
  <1>2. x \in LoginRows /\ accLock \in Locks /\ phase \in {"refused", "accepted", "verify"}
    BY DEF AccountTypes
  <1>3. /\ x.password \in Passwords /\ x.hash.password \in x.held
        /\ LockedOut(accLock) => x.lockSeen
    BY <1>1 DEF AccountFollowed, Followed, Running
  <1>4. phase = "refused" => x.lockSeen
    BY <1>3
  <1>5. phase = "accepted" => x.password = x.hash.password
    BY DEF Cached, AccountFollowed
  <1> HIDE DEF x, phase
  <1>6. /\ row \in LoginRows /\ row.phase = phase /\ row.password = x.password
        /\ row.hash = x.hash /\ row.held = x.held /\ row.lockSeen = x.lockSeen
    <2> DEFINE y == [x EXCEPT !.lock = accLock]
    <2>1. /\ y \in LoginRows /\ y.hash = x.hash /\ y.password = x.password /\ y.held = x.held
          /\ y.lockSeen = x.lockSeen /\ row = [y EXCEPT !.phase = phase]
      BY <1>2 DEF LoginRows
    <2> HIDE DEF y, row
    <2>2. /\ [y EXCEPT !.phase = phase] \in LoginRows /\ [y EXCEPT !.phase = phase].phase = phase
          /\ [y EXCEPT !.phase = phase].password = y.password /\ [y EXCEPT !.phase = phase].hash = y.hash
          /\ [y EXCEPT !.phase = phase].held = y.held /\ [y EXCEPT !.phase = phase].lockSeen = y.lockSeen
      BY <1>2, <2>1 DEF LoginRows
    <2> QED
      BY <2>1, <2>2
  <1> HIDE DEF row
  <1>7. Answered(row)
    BY <1>3, <1>4, <1>5, <1>6 DEF Answered
  <1>8. accLock' \in Locks
    BY <1>1 DEF AccountTypes
  <1>9. /\ accLogin' \in [Logins -> LoginRows]
        /\ \A r \in Logins : Followed(accLogin[r])' /\ Answered(accLogin[r])'
    BY <1>1, <1>3, <1>6, <1>7, <1>8, OneLoginStep
  <1>10. AccountTypes'
    BY <1>1, <1>9 DEF AccountTypes
  <1> QED
    BY <1>1, <1>9, <1>10 DEF AccountFollowed

\* verify_password against the hash that was read, and what it writes.
LEMMA VerifyLoginStep ==
  ASSUME AccountTypes, AccountFollowed, NEW q \in Logins, VerifyLogin(q)
  PROVE  AccountTypes' /\ AccountFollowed'
  <1> DEFINE x == accLogin[q]
             right == x.password = x.hash.password
             collides == ~right /\ FailureCollides(x.lock)
             phase == IF right THEN "accepted" ELSE IF collides THEN "failed" ELSE "refused"
             row == [x EXCEPT !.phase = phase]
  <1>1. /\ Watch([accLogin EXCEPT ![q] = row]) /\ x.phase = "verify"
        /\ accCache' = IF right THEN CacheEntry(x.password, x.hash) ELSE accCache
        /\ accLock' = IF right THEN Clear(x.lock) ELSE IF collides THEN accLock ELSE RecordFailure(x.lock)
        /\ UNCHANGED <<accUser, accAdmin, accNow, accSalt>>
    BY DEF VerifyLogin, AccountTypes
  <1>2. x \in LoginRows /\ phase \in {"accepted", "failed", "refused"}
    BY DEF AccountTypes
  <1>3. x.password \in Passwords /\ x.hash.password \in x.held /\ x.hash \in Hashes /\ x.lock \in Locks
        /\ x.password \in Words
    BY <1>1, <1>2 DEF AccountFollowed, Followed, Running, LoginRows
  <1>4. accLock' \in Locks
    BY <1>1, <1>3, LocksAreRows DEF AccountTypes
  <1>5. /\ phase = "accepted" => x.password = x.hash.password
        /\ phase = "refused" => x.password # x.hash.password
    OBVIOUS
  <1>6. accCache' \in Entries /\ accCache'.token = accCache'.hash.password
    <2>1. CASE right
      <3>1. accNow + CacheTime \in Nat
        BY AccountNames DEF AccountTypes
      <3>2. CacheEntry(x.password, x.hash) \in Entries
        BY <1>3, <3>1 DEF CacheEntry, Entries
      <3> QED
        BY <1>1, <2>1, <3>2 DEF CacheEntry
    <2>2. CASE ~right
      BY <1>1, <2>2 DEF AccountTypes, AccountFollowed
    <2> QED
      BY <2>1, <2>2
  <1> HIDE DEF x, phase, right, collides
  <1>7. /\ row \in LoginRows /\ row.phase = phase /\ row.password = x.password
        /\ row.hash = x.hash /\ row.held = x.held /\ row.lockSeen = x.lockSeen
    BY <1>2 DEF LoginRows
  <1> HIDE DEF row
  <1>8. Answered(row)
    BY <1>3, <1>5, <1>7 DEF Answered
  <1>9. /\ accLogin' \in [Logins -> LoginRows]
        /\ \A r \in Logins : Followed(accLogin[r])' /\ Answered(accLogin[r])'
    BY <1>1, <1>3, <1>4, <1>7, <1>8, OneLoginStep
  <1>10. AccountTypes'
    BY <1>1, <1>4, <1>6, <1>9 DEF AccountTypes
  <1> QED
    BY <1>6, <1>9, <1>10 DEF AccountFollowed

\* add_user drops the cache, then create_user commits a new hash.
LEMMA ResetStep ==
  ASSUME AccountTypes, AccountFollowed, CommitReset \/ \E p \in Passwords : BeginReset(p)
  PROVE  AccountTypes' /\ AccountFollowed'
  <1>1. ASSUME NEW p \in Passwords, BeginReset(p) PROVE AccountTypes' /\ AccountFollowed'
    <2>1. /\ accAdmin' = [busy |-> TRUE, password |-> p, lock |-> accLock] /\ accCache' = NoEntry
          /\ UNCHANGED <<accUser, accLock, accNow, accSalt>> /\ Watch(accLogin)
      BY <1>1 DEF BeginReset
    <2>2. accAdmin' \in Resets /\ accUser' \in Hashes /\ accNow' \in Nat /\ accLock' \in Locks
      BY <2>1 DEF AccountTypes, Resets, Words
    <2>3. /\ accLogin' \in [Logins -> LoginRows]
          /\ \A r \in Logins : Followed(accLogin[r])' /\ Answered(accLogin[r])'
      BY <2>1, <2>2, NoLoginStep
    <2>4. accCache' \in Entries /\ accCache'.token = accCache'.hash.password
      BY <2>1, AccountNames DEF NoEntry, NoHash
    <2>5. AccountTypes'
      BY <2>1, <2>2, <2>3, <2>4 DEF AccountTypes
    <2> QED
      BY <2>3, <2>4, <2>5 DEF AccountFollowed
  <1>2. CASE CommitReset
    <2>1. /\ accUser' = [password |-> accAdmin.password, salt |-> accSalt + 1] /\ accSalt' = accSalt + 1
          /\ accLock' = Clear(accAdmin.lock) /\ accAdmin' = NoReset
          /\ UNCHANGED <<accCache, accNow>> /\ Watch(accLogin)
      BY <1>2 DEF CommitReset
    <2>2. accAdmin.password \in Words /\ accAdmin.lock \in Locks /\ accSalt + 1 \in Nat
      BY DEF AccountTypes, Resets
    <2>3. accUser' \in Hashes /\ accNow' \in Nat /\ accLock' \in Locks
      BY <2>1, <2>2, LocksAreRows DEF AccountTypes, Hashes
    <2>4. /\ accLogin' \in [Logins -> LoginRows]
          /\ \A r \in Logins : Followed(accLogin[r])' /\ Answered(accLogin[r])'
      BY <2>1, <2>3, NoLoginStep
    <2>5. AccountTypes'
      BY <2>1, <2>2, <2>3, <2>4, AccountNames DEF AccountTypes
    <2> QED
      BY <2>1, <2>4, <2>5 DEF AccountFollowed
  <1> QED
    BY <1>1, <1>2

\* The process restarts; time passes.
LEMMA RestartAndTickStep ==
  ASSUME AccountTypes, AccountFollowed, RestartApi \/ AccountTick
  PROVE  AccountTypes' /\ AccountFollowed'
  <1>1. CASE AccountTick
    <2>1. accNow' = accNow + 1 /\ UNCHANGED <<accUser, accLock, accCache, accAdmin, accSalt>> /\ Watch(accLogin)
      BY <1>1 DEF AccountTick
    <2>2. accUser' \in Hashes /\ accNow' \in Nat /\ accLock' \in Locks
      BY <2>1 DEF AccountTypes
    <2>3. /\ accLogin' \in [Logins -> LoginRows]
          /\ \A r \in Logins : Followed(accLogin[r])' /\ Answered(accLogin[r])'
      BY <2>1, <2>2, NoLoginStep
    <2>4. AccountTypes'
      BY <2>1, <2>2, <2>3 DEF AccountTypes
    <2> QED
      BY <2>1, <2>3, <2>4 DEF AccountFollowed
  <1>2. CASE RestartApi
    <2>1. /\ accCache' = NoEntry /\ accAdmin' = NoReset /\ UNCHANGED <<accUser, accLock, accNow, accSalt>>
          /\ accLogin' = [q \in Logins |-> IF Running(accLogin[q]) THEN NoLogin ELSE accLogin[q]]
      BY <1>2 DEF RestartApi
    <2>2. accLogin' \in [Logins -> LoginRows]
      BY <2>1, AccountNames DEF AccountTypes
    <2>3. ASSUME NEW q \in Logins PROVE Followed(accLogin[q])' /\ Answered(accLogin[q])'
      <3>1. NoLogin.phase = "idle"
        BY DEF NoLogin
      <3>2. CASE Running(accLogin[q])
        <4>1. accLogin'[q] = NoLogin
          BY <2>1, <3>2
        <4> QED
          BY <3>1, <4>1 DEF Followed, Answered, Running
      <3>3. CASE ~Running(accLogin[q])
        <4>1. accLogin'[q] = accLogin[q] /\ Answered(accLogin[q])
          BY <2>1, <3>3 DEF AccountFollowed
        <4> QED
          BY <3>3, <4>1 DEF Followed, Answered, Running
      <3> QED
        BY <3>2, <3>3
    <2>4. AccountTypes'
      BY <2>1, <2>2, AccountNames DEF AccountTypes
    <2>5. accCache'.token = accCache'.hash.password
      BY <2>1 DEF NoEntry, NoHash
    <2> QED
      BY <2>3, <2>4, <2>5 DEF AccountFollowed
  <1> QED
    BY <1>1, <1>2

\* A login is answered by what the account was while the request ran (authenticate, the cache
\* of verified credentials, create_user): for any number of requests, replacements and
\* restarts, one that is accepted gave a password the account had then, and one that is
\* refused met another password, no account or a lock.
THEOREM LoginsMatchAccount == AccountSpec => []AnswersMatchAccount
  <1> DEFINE Inv == AccountTypes /\ AccountFollowed
  <1>1. AccountInit => Inv
    <2> SUFFICES ASSUME AccountInit PROVE Inv
      OBVIOUS
    <2>1. AccountTypes
      BY AccountNames DEF AccountInit, AccountTypes
    <2>2. AccountFollowed
      BY DEF AccountInit, AccountFollowed, Followed, Answered, Running, NoLogin, NoEntry, NoHash
    <2> QED
      BY <2>1, <2>2
  <1>2. Inv /\ [AccountNext]_accVars => Inv'
    <2> SUFFICES ASSUME AccountTypes, AccountFollowed, [AccountNext]_accVars
                 PROVE  AccountTypes' /\ AccountFollowed'
      OBVIOUS
    <2>1. CASE UNCHANGED accVars
      BY <2>1 DEF accVars, AccountTypes, AccountFollowed, Followed, Answered, Running, LockedOut
    <2>2. CASE \E q \in Logins : \/ \E p \in Passwords : BeginLogin(q, p)
                                 \/ ReadUser(q) \/ CheckLogin(q) \/ VerifyLogin(q)
      BY <2>2, BeginLoginStep, ReadUserStep, CheckLoginStep, VerifyLoginStep
    <2>3. CASE CommitReset \/ \E p \in Passwords : BeginReset(p)
      BY <2>3, ResetStep
    <2>4. CASE RestartApi \/ AccountTick
      BY <2>4, RestartAndTickStep
    <2> QED
      BY <2>1, <2>2, <2>3, <2>4 DEF AccountNext
  <1>3. Inv => AnswersMatchAccount
    BY DEF AccountFollowed, Answered, AnswersMatchAccount
  <1> QED
    BY <1>1, <1>2, <1>3, PTL DEF AccountSpec
-----------------------------------------------------------------------------
(* Devices and the broker's files (Devices).                               *)

ProvisionedRows == [asset : DeviceAssets, source : {"tracker", "vision-edge"}, enabled : BOOLEAN,
                    secret : Nat]
DeviceEdits == [op : {"register", "rotate", "enable"}, id : DeviceIds, row : ProvisionedRows,
                set : ProvisionedRows]

DeviceTypes ==
  /\ devTable \in [DeviceIds -> ProvisionedRows \cup {NoDevice}]
  /\ devReq \in [Admins -> DeviceEdits \cup {NoDeviceEdit}]
  /\ \A m \in Admins : devReq[m] # NoDeviceEdit => devTable[devReq[m].id] \in ProvisionedRows
  /\ DOMAIN devWindow = {"begun", "complete", "loaded"} /\ devEdits \in Nat
  /\ DOMAIN devFiles = {"passwd", "acl"} /\ DOMAIN devGen = {"phase", "passwd", "acl"}

IsKey(right) == right[1] = "key"

\* Keys that were a device's at some moment of a window, with all that were so throughout; the
\* same for topics.
KeysWithin(keys, window) == keys \subseteq window.some /\ {x \in window.all : IsKey(x)} \subseteq keys
TopicsWithin(topics, window) ==
  topics \subseteq window.some /\ {x \in window.all : ~IsKey(x)} \subseteq topics

\* A window goes on to the present table, and that of the running generation began last.
WindowsNest ==
  /\ \A w \in {"begun", "complete", "loaded"} :
       devWindow[w].all \subseteq Rights(devTable) /\ Rights(devTable) \subseteq devWindow[w].some
  /\ devWindow.begun.some \subseteq devWindow.complete.some
  /\ devWindow.complete.all \subseteq devWindow.begun.all

\* What the generator has rendered and what it has put in place.
FilesFollow ==
  /\ KeysWithin(devFiles.passwd, devWindow.complete) /\ TopicsWithin(devFiles.acl, devWindow.complete)
  /\ devGen.phase # "idle" => KeysWithin(devGen.passwd, devWindow.begun)
  /\ devGen.phase \in {"replace passwd", "replace acl"} => TopicsWithin(devGen.acl, devWindow.begun)
  /\ devGen.phase = "replace acl" => devFiles.passwd = devGen.passwd

DeviceInv == WindowsNest /\ FilesFollow /\ BrokerFollowsTable

\* The two files together grant what HTTP ingest grants: the keys are in the one, the topics
\* in the other (render_password_file, render_mosquitto_acl, position_refusal, vision_refusal).
LEMMA FilesAreRights ==
  ASSUME NEW t \in [DeviceIds -> ProvisionedRows \cup {NoDevice}]
  PROVE  /\ RenderPasswd(t) \subseteq Rights(t) /\ RenderAcl(t) \subseteq Rights(t)
         /\ {x \in Rights(t) : IsKey(x)} \subseteq RenderPasswd(t)
         /\ {x \in Rights(t) : ~IsKey(x)} \subseteq RenderAcl(t)
  <1> DEFINE P == {x \in DeviceIds \X DeviceAssets : PositionAllowed(t[x[1]], x[2])}
             V == {d \in DeviceIds : VisionAllowed(t[d])}
             positions == {<<"position", x[1], x[2]>> : x \in P}
             visions == {<<"vision", d, "site">> : d \in V}
  <1>1. Rights(t) = RenderPasswd(t) \cup positions \cup visions
    BY DEF Rights, RenderPasswd
  <1>2. ASSUME NEW x \in RenderPasswd(t) PROVE IsKey(x)
    BY <1>2 DEF RenderPasswd, IsKey
  <1>3. ASSUME NEW y \in positions PROVE ~IsKey(y) /\ y \in RenderAcl(t)
    <2>1. PICK x \in P : y = <<"position", x[1], x[2]>>
      OBVIOUS
    <2>2. x[1] \in DeviceIds /\ PositionAllowed(t[x[1]], x[2])
      OBVIOUS
    <2> DEFINE d == x[1]
    <2>3. d \in Listed(t) /\ t[d].source # "vision-edge" /\ t[d].asset = x[2]
      BY <2>2 DEF PositionAllowed, Listed
    <2>4. y = <<"position", d, t[d].asset>>
      BY <2>1, <2>3
    <2> HIDE DEF d
    <2> QED
      BY <2>3, <2>4 DEF RenderAcl, IsKey
  <1>4. ASSUME NEW y \in visions PROVE ~IsKey(y) /\ y \in RenderAcl(t)
    <2>1. PICK d \in V : y = <<"vision", d, "site">>
      OBVIOUS
    <2>2. d \in Listed(t) /\ t[d].source = "vision-edge"
      BY DEF VisionAllowed, Listed
    <2> QED
      BY <2>1, <2>2 DEF RenderAcl, IsKey
  <1>5. ASSUME NEW y \in RenderAcl(t) PROVE y \in positions \cup visions
    <2>1. PICK d \in Listed(t) : y = IF t[d].source = "vision-edge" THEN <<"vision", d, "site">>
                                     ELSE <<"position", d, t[d].asset>>
      BY DEF RenderAcl
    <2>2. d \in DeviceIds /\ t[d] # NoDevice /\ t[d].enabled /\ t[d] \in ProvisionedRows
      BY <2>1 DEF Listed
    <2>3. CASE t[d].source = "vision-edge"
      <3>1. d \in V
        BY <2>2, <2>3 DEF VisionAllowed
      <3> QED
        BY <2>1, <2>3, <3>1
    <2>4. CASE t[d].source # "vision-edge"
      <3> DEFINE x == <<d, t[d].asset>>
      <3>1. t[d].asset \in DeviceAssets
        BY <2>2 DEF ProvisionedRows
      <3>2. x \in DeviceIds \X DeviceAssets /\ x[1] = d /\ x[2] = t[d].asset
        BY <2>2, <3>1
      <3> HIDE DEF x
      <3>3. x \in P
        BY <2>2, <2>4, <3>2 DEF PositionAllowed
      <3>4. y = <<"position", x[1], x[2]>>
        BY <2>1, <2>4, <3>2
      <3> QED
        BY <3>3, <3>4
    <2> QED
      BY <2>3, <2>4
  <1> HIDE DEF positions, visions
  <1> QED
    BY <1>1, <1>2, <1>3, <1>4, <1>5

\* Requests that only read, and the generator's own steps, leave the table's types alone.
LEMMA BeginEditTypes ==
  ASSUME DeviceTypes, NEW m \in Admins, NEW e \in DeviceEdits \cup {NoDeviceEdit}, BeginEdit(m, e),
         e # NoDeviceEdit => devTable[e.id] \in ProvisionedRows
  PROVE  DeviceTypes' /\ UNCHANGED <<devTable, devGen, devFiles, devLoaded, devWindow>>
  <1>1. /\ devReq' = [devReq EXCEPT ![m] = e] /\ devEdits' = devEdits + 1
        /\ UNCHANGED <<devTable, devGen, devFiles, devLoaded, devWindow>>
    BY DEF BeginEdit
  <1>2. /\ devReq' \in [Admins -> DeviceEdits \cup {NoDeviceEdit}] /\ devEdits' \in Nat
        /\ \A k \in Admins : devReq'[k] = IF k = m THEN e ELSE devReq[k]
    BY <1>1 DEF DeviceTypes
  <1> QED
    BY <1>1, <1>2 DEF DeviceTypes

LEMMA RegisterTypes ==
  ASSUME DeviceTypes, NEW m \in Admins, NEW d \in DeviceIds, NEW a \in DeviceAssets,
         NEW source \in {"tracker", "vision-edge"}, BeginRegister(m, d, a, source)
  PROVE  DeviceTypes' /\ UNCHANGED <<devTable, devGen, devFiles, devLoaded, devWindow>>
  <1> DEFINE r == devTable[d]
             n == devEdits + 2
             new == [asset |-> a, source |-> source, enabled |-> TRUE, secret |-> n]
             e == [op |-> "register", id |-> d, row |-> r, set |-> new]
             x == IF BoundElsewhere(d, a) \/ r = NoDevice THEN NoDeviceEdit ELSE e
  <1>1. n \in Nat /\ r \in ProvisionedRows \cup {NoDevice}
    BY DEF DeviceTypes
  <1>2. BeginEdit(m, x)
    BY DEF BeginRegister
  <1> HIDE DEF n, r
  <1>3. new \in ProvisionedRows
    BY <1>1 DEF ProvisionedRows
  <1> HIDE DEF new
  <1>4. r # NoDevice => e \in DeviceEdits /\ e.id = d
    BY <1>1, <1>3 DEF DeviceEdits
  <1> HIDE DEF e
  <1>5. x \in DeviceEdits \cup {NoDeviceEdit} /\ (x # NoDeviceEdit => devTable[x.id] \in ProvisionedRows)
    BY <1>1, <1>4 DEF r
  <1> HIDE DEF x
  <1> QED
    BY <1>2, <1>5, BeginEditTypes

\* rotate_secret and set_enabled change a row that is there.
LEMMA ChangeTypes ==
  ASSUME DeviceTypes, NEW m \in Admins, NEW d \in DeviceIds, NEW op \in {"rotate", "enable"},
         devTable[d] # NoDevice, NEW new, devTable[d] \in ProvisionedRows => new \in ProvisionedRows,
         BeginEdit(m, [op |-> op, id |-> d, row |-> devTable[d], set |-> new])
  PROVE  DeviceTypes' /\ UNCHANGED <<devTable, devGen, devFiles, devLoaded, devWindow>>
  <1> DEFINE r == devTable[d]
             e == [op |-> op, id |-> d, row |-> r, set |-> new]
  <1>1. r \in ProvisionedRows /\ new \in ProvisionedRows /\ BeginEdit(m, e)
    BY DEF DeviceTypes
  <1> HIDE DEF r
  <1>2. e \in DeviceEdits /\ e.id = d
    BY <1>1 DEF DeviceEdits
  <1> HIDE DEF e
  <1>3. devTable[e.id] \in ProvisionedRows
    BY <1>1, <1>2 DEF r
  <1> QED
    BY <1>1, <1>2, <1>3, BeginEditTypes

LEMMA RotateTypes ==
  ASSUME DeviceTypes, NEW m \in Admins, NEW d \in DeviceIds, BeginRotate(m, d)
  PROVE  DeviceTypes' /\ UNCHANGED <<devTable, devGen, devFiles, devLoaded, devWindow>>
  <1> DEFINE n == devEdits + 2
             new == [devTable[d] EXCEPT !.secret = n]
  <1>1. n \in Nat
    BY DEF DeviceTypes
  <1>2. devTable[d] # NoDevice /\ BeginEdit(m, [op |-> "rotate", id |-> d, row |-> devTable[d], set |-> new])
    BY DEF BeginRotate
  <1> HIDE DEF n
  <1>3. devTable[d] \in ProvisionedRows => new \in ProvisionedRows
    BY <1>1 DEF ProvisionedRows
  <1> HIDE DEF new
  <1> QED
    BY <1>2, <1>3, ChangeTypes

LEMMA EnableTypes ==
  ASSUME DeviceTypes, NEW m \in Admins, NEW d \in DeviceIds, NEW on \in BOOLEAN, BeginEnable(m, d, on)
  PROVE  DeviceTypes' /\ UNCHANGED <<devTable, devGen, devFiles, devLoaded, devWindow>>
  <1> DEFINE new == [devTable[d] EXCEPT !.enabled = on]
  <1>1. devTable[d] # NoDevice /\ BeginEdit(m, [op |-> "enable", id |-> d, row |-> devTable[d], set |-> new])
    BY DEF BeginEnable
  <1>2. devTable[d] \in ProvisionedRows => new \in ProvisionedRows
    BY DEF ProvisionedRows
  <1> HIDE DEF new
  <1> QED
    BY <1>1, <1>2, ChangeTypes

\* The commit of an edit.
LEMMA CommitTypes == ASSUME DeviceTypes, NEW m \in Admins, CommitDeviceEdit(m) PROVE DeviceTypes'
  <1> DEFINE x == devReq[m]
             old == devTable[x.id]
             row == [f \in DOMAIN NoDevice |-> IF x.set[f] # x.row[f] THEN x.set[f] ELSE old[f]]
             table == [devTable EXCEPT ![x.id] = row]
  <1>1. /\ x # NoDeviceEdit /\ devTable' = IF OneDevicePerAsset(table) THEN table ELSE devTable
        /\ devReq' = [devReq EXCEPT ![m] = NoDeviceEdit]
        /\ devWindow' = [w \in DOMAIN devWindow |-> Widen(devWindow[w])]
        /\ UNCHANGED <<devGen, devFiles, devEdits>>
    BY DEF CommitDeviceEdit
  <1>2. x \in DeviceEdits /\ old \in ProvisionedRows
    BY <1>1 DEF DeviceTypes
  <1>3. x.set \in ProvisionedRows /\ x.row \in ProvisionedRows /\ x.id \in DeviceIds
    BY <1>2 DEF DeviceEdits
  <1>4. row \in ProvisionedRows
    <2> DEFINE s == x.set
               r == x.row
    <2>1. s \in ProvisionedRows /\ r \in ProvisionedRows /\ old \in ProvisionedRows
      BY <1>2, <1>3
    <2> HIDE DEF s, r, old
    <2>2. DOMAIN NoDevice = {"asset", "source", "enabled", "secret"}
      BY DEF NoDevice
    <2>3. row = [f \in DOMAIN NoDevice |-> IF s[f] # r[f] THEN s[f] ELSE old[f]]
      BY DEF s, r
    <2>4. row = [asset |-> IF s.asset # r.asset THEN s.asset ELSE old.asset,
                 source |-> IF s.source # r.source THEN s.source ELSE old.source,
                 enabled |-> IF s.enabled # r.enabled THEN s.enabled ELSE old.enabled,
                 secret |-> IF s.secret # r.secret THEN s.secret ELSE old.secret]
      BY <2>2, <2>3
    <2> HIDE DEF row
    <2> QED
      BY <2>1, <2>4 DEF ProvisionedRows
  <1> HIDE DEF row
  <1>5. /\ devTable' \in [DeviceIds -> ProvisionedRows \cup {NoDevice}]
        /\ \A d \in DeviceIds : devTable[d] \in ProvisionedRows => devTable'[d] \in ProvisionedRows
    BY <1>1, <1>3, <1>4 DEF DeviceTypes
  <1>6. /\ devReq' \in [Admins -> DeviceEdits \cup {NoDeviceEdit}]
        /\ \A k \in Admins : devReq'[k] # NoDeviceEdit =>
             devReq[k] # NoDeviceEdit /\ devReq'[k] = devReq[k] /\ devReq[k].id \in DeviceIds
    BY <1>1 DEF DeviceTypes, DeviceEdits
  <1> QED
    BY <1>1, <1>5, <1>6 DEF DeviceTypes

\* The commit of an edit widens every window by the rights it gave and took.
LEMMA CommitWidens == ASSUME DeviceTypes, DeviceInv, NEW m \in Admins, CommitDeviceEdit(m) PROVE DeviceInv'
  <1>1. /\ devWindow' = [w \in DOMAIN devWindow |-> Widen(devWindow[w])]
        /\ UNCHANGED <<devGen, devFiles, devLoaded>>
    BY DEF CommitDeviceEdit
  <1>2. ASSUME NEW w \in {"begun", "complete", "loaded"}
        PROVE  /\ devWindow'[w].some = devWindow[w].some \cup Rights(devTable)'
               /\ devWindow'[w].all = devWindow[w].all \cap Rights(devTable)'
    BY <1>1 DEF DeviceTypes, Widen
  <1>3. /\ devWindow'.begun.some = devWindow.begun.some \cup Rights(devTable)'
        /\ devWindow'.begun.all = devWindow.begun.all \cap Rights(devTable)'
        /\ devWindow'.complete.some = devWindow.complete.some \cup Rights(devTable)'
        /\ devWindow'.complete.all = devWindow.complete.all \cap Rights(devTable)'
        /\ devWindow'.loaded.some = devWindow.loaded.some \cup Rights(devTable)'
        /\ devWindow'.loaded.all = devWindow.loaded.all \cap Rights(devTable)'
    BY <1>2
  <1>4. WindowsNest'
    BY <1>2, <1>3 DEF DeviceInv, WindowsNest
  <1>5. FilesFollow'
    BY <1>1, <1>3 DEF DeviceInv, FilesFollow, KeysWithin, TopicsWithin
  <1>6. BrokerFollowsTable'
    BY <1>1, <1>3 DEF DeviceInv, BrokerFollowsTable
  <1> QED
    BY <1>4, <1>5, <1>6 DEF DeviceInv

\* The generator renders, replaces and dies; the broker loads.
LEMMA RenderPasswdInv == ASSUME DeviceTypes, DeviceInv, RenderPasswdStep PROVE DeviceTypes' /\ DeviceInv'
  <1>1. /\ devGen' = [phase |-> "acl", passwd |-> RenderPasswd(devTable), acl |-> {}]
        /\ devWindow' = [devWindow EXCEPT !.begun = Window(devTable)]
        /\ UNCHANGED <<devTable, devReq, devFiles, devLoaded, devEdits>>
    BY DEF RenderPasswdStep
  <1>2. /\ devWindow'.begun.some = Rights(devTable) /\ devWindow'.begun.all = Rights(devTable)
        /\ devWindow'.complete = devWindow.complete /\ devWindow'.loaded = devWindow.loaded
        /\ DOMAIN devWindow' = DOMAIN devWindow
    BY <1>1 DEF DeviceTypes, Window
  <1>3. DeviceTypes'
    <2>1. DOMAIN devGen' = {"phase", "passwd", "acl"}
      BY <1>1
    <2> QED
      BY <1>1, <1>2, <2>1 DEF DeviceTypes
  <1>4. WindowsNest'
    BY <1>1, <1>2 DEF DeviceInv, WindowsNest
  <1>5. FilesFollow'
    <2>1. devGen'.phase = "acl" /\ devGen'.passwd = RenderPasswd(devTable)
      BY <1>1
    <2>2. KeysWithin(devGen.passwd, devWindow.begun)'
      BY <1>2, <2>1, FilesAreRights DEF KeysWithin, DeviceTypes
    <2> QED
      BY <1>1, <1>2, <2>1, <2>2 DEF DeviceInv, FilesFollow, KeysWithin, TopicsWithin
  <1>6. BrokerFollowsTable'
    BY <1>1, <1>2 DEF DeviceInv, BrokerFollowsTable
  <1> QED
    BY <1>3, <1>4, <1>5, <1>6 DEF DeviceInv

LEMMA RenderAclInv == ASSUME DeviceTypes, DeviceInv, RenderAclStep PROVE DeviceTypes' /\ DeviceInv'
  <1>1. /\ devGen' = [devGen EXCEPT !.phase = "replace passwd", !.acl = RenderAcl(devTable)]
        /\ devGen.phase = "acl"
        /\ UNCHANGED <<devTable, devReq, devFiles, devLoaded, devWindow, devEdits>>
    BY DEF RenderAclStep
  <1>2. /\ devGen'.phase = "replace passwd" /\ devGen'.passwd = devGen.passwd
        /\ devGen'.acl = RenderAcl(devTable) /\ DOMAIN devGen' = DOMAIN devGen
    BY <1>1 DEF DeviceTypes
  <1>3. TopicsWithin(devGen.acl, devWindow.begun)'
    <2>1. /\ devWindow.begun.all \subseteq Rights(devTable)
          /\ Rights(devTable) \subseteq devWindow.begun.some
      BY DEF DeviceInv, WindowsNest
    <2> QED
      BY <1>1, <1>2, <2>1, FilesAreRights DEF TopicsWithin, DeviceTypes
  <1>4. FilesFollow'
    BY <1>1, <1>2, <1>3 DEF DeviceInv, FilesFollow, KeysWithin, TopicsWithin
  <1> QED
    BY <1>1, <1>2, <1>4 DEF DeviceTypes, DeviceInv, WindowsNest, BrokerFollowsTable

LEMMA ReplacePasswdInv == ASSUME DeviceTypes, DeviceInv, ReplacePasswd PROVE DeviceTypes' /\ DeviceInv'
  <1>1. /\ devFiles' = [devFiles EXCEPT !.passwd = devGen.passwd]
        /\ devGen' = [devGen EXCEPT !.phase = "replace acl"] /\ devGen.phase = "replace passwd"
        /\ UNCHANGED <<devTable, devReq, devLoaded, devWindow, devEdits>>
    BY DEF ReplacePasswd
  <1>2. /\ devGen'.phase = "replace acl" /\ devGen'.passwd = devGen.passwd /\ devGen'.acl = devGen.acl
        /\ DOMAIN devGen' = DOMAIN devGen /\ DOMAIN devFiles' = DOMAIN devFiles
        /\ devFiles'.passwd = devGen.passwd /\ devFiles'.acl = devFiles.acl
    BY <1>1 DEF DeviceTypes
  <1>3. KeysWithin(devGen.passwd, devWindow.complete)
    BY <1>1 DEF DeviceInv, WindowsNest, FilesFollow, KeysWithin
  <1>4. FilesFollow'
    BY <1>1, <1>2, <1>3 DEF DeviceInv, FilesFollow, KeysWithin, TopicsWithin
  <1> QED
    BY <1>1, <1>2, <1>4 DEF DeviceTypes, DeviceInv, WindowsNest, BrokerFollowsTable

LEMMA ReplaceAclInv == ASSUME DeviceTypes, DeviceInv, ReplaceAcl PROVE DeviceTypes' /\ DeviceInv'
  <1>1. /\ devFiles' = [devFiles EXCEPT !.acl = devGen.acl]
        /\ devGen' = [devGen EXCEPT !.phase = "idle"] /\ devGen.phase = "replace acl"
        /\ devWindow' = [devWindow EXCEPT !.complete = devWindow.begun]
        /\ UNCHANGED <<devTable, devReq, devLoaded, devEdits>>
    BY DEF ReplaceAcl
  <1>2. /\ devGen'.phase = "idle" /\ DOMAIN devGen' = DOMAIN devGen /\ DOMAIN devFiles' = DOMAIN devFiles
        /\ devFiles'.acl = devGen.acl /\ devFiles'.passwd = devFiles.passwd
        /\ devWindow'.complete = devWindow.begun /\ devWindow'.begun = devWindow.begun
        /\ devWindow'.loaded = devWindow.loaded /\ DOMAIN devWindow' = DOMAIN devWindow
    BY <1>1 DEF DeviceTypes
  <1>3. FilesFollow'
    BY <1>1, <1>2 DEF DeviceInv, FilesFollow, KeysWithin, TopicsWithin
  <1>4. WindowsNest'
    BY <1>1, <1>2 DEF DeviceInv, WindowsNest
  <1> QED
    BY <1>1, <1>2, <1>3, <1>4 DEF DeviceTypes, DeviceInv, BrokerFollowsTable

LEMMA GeneratorDiesInv == ASSUME DeviceTypes, DeviceInv, GeneratorDies PROVE DeviceTypes' /\ DeviceInv'
  <1>1. /\ devGen' = [devGen EXCEPT !.phase = "idle"]
        /\ UNCHANGED <<devTable, devReq, devFiles, devLoaded, devWindow, devEdits>>
    BY DEF GeneratorDies
  <1>2. devGen'.phase = "idle" /\ DOMAIN devGen' = DOMAIN devGen
    BY <1>1 DEF DeviceTypes
  <1>3. FilesFollow'
    BY <1>1, <1>2 DEF DeviceInv, FilesFollow, KeysWithin, TopicsWithin
  <1> QED
    BY <1>1, <1>2, <1>3 DEF DeviceTypes, DeviceInv, WindowsNest, BrokerFollowsTable

LEMMA ReloadInv == ASSUME DeviceTypes, DeviceInv, ReloadBroker PROVE DeviceTypes' /\ DeviceInv'
  <1>1. /\ devLoaded' = devFiles.passwd \cup devFiles.acl
        /\ devWindow' = [devWindow EXCEPT !.loaded = devWindow.complete]
        /\ UNCHANGED <<devTable, devReq, devGen, devFiles, devEdits>>
    BY DEF ReloadBroker
  <1>2. /\ devWindow'.loaded = devWindow.complete /\ devWindow'.begun = devWindow.begun
        /\ devWindow'.complete = devWindow.complete /\ DOMAIN devWindow' = DOMAIN devWindow
    BY <1>1 DEF DeviceTypes
  <1>3. BrokerFollowsTable'
    BY <1>1, <1>2 DEF DeviceInv, FilesFollow, KeysWithin, TopicsWithin, BrokerFollowsTable
  <1>4. FilesFollow'
    BY <1>1, <1>2 DEF DeviceInv, FilesFollow, KeysWithin, TopicsWithin
  <1>5. WindowsNest'
    BY <1>1, <1>2 DEF DeviceInv, WindowsNest
  <1> QED
    BY <1>1, <1>2, <1>3, <1>4, <1>5 DEF DeviceTypes, DeviceInv

LEMMA DeviceInitInv == DeviceInit => DeviceTypes /\ DeviceInv
  <1> SUFFICES ASSUME DeviceInit PROVE DeviceTypes /\ DeviceInv
    OBVIOUS
  <1>1. devTable \in [DeviceIds -> ProvisionedRows \cup {NoDevice}]
    <2>1. DeviceRows \subseteq ProvisionedRows
      BY DEF DeviceRows, ProvisionedRows
    <2>2. devTable \in [DeviceIds -> DeviceRows \cup {NoDevice}]
      BY DEF DeviceInit
    <2> QED
      BY <2>1, <2>2
  <1>2. /\ devReq = [m \in Admins |-> NoDeviceEdit] /\ devEdits = 0
        /\ devGen = [phase |-> "idle", passwd |-> {}, acl |-> {}]
        /\ devFiles = [passwd |-> RenderPasswd(devTable), acl |-> RenderAcl(devTable)]
        /\ devLoaded = devFiles.passwd \cup devFiles.acl
        /\ devWindow = [begun |-> Window(devTable), complete |-> Window(devTable),
                        loaded |-> Window(devTable)]
    BY DEF DeviceInit
  <1>3. /\ devFiles.passwd = RenderPasswd(devTable) /\ devFiles.acl = RenderAcl(devTable)
        /\ devGen.phase = "idle" /\ DOMAIN devGen = {"phase", "passwd", "acl"}
        /\ DOMAIN devFiles = {"passwd", "acl"} /\ DOMAIN devWindow = {"begun", "complete", "loaded"}
    BY <1>2
  <1>4. /\ devWindow.begun = Window(devTable) /\ devWindow.complete = Window(devTable)
        /\ devWindow.loaded = Window(devTable)
        /\ Window(devTable).some = Rights(devTable) /\ Window(devTable).all = Rights(devTable)
    BY <1>2 DEF Window
  <1>5. DeviceTypes
    BY <1>1, <1>2, <1>3 DEF DeviceTypes
  <1>6. WindowsNest
    BY <1>4 DEF WindowsNest
  <1>7. FilesFollow
    BY <1>1, <1>3, <1>4, FilesAreRights DEF FilesFollow, KeysWithin, TopicsWithin
  <1>8. BrokerFollowsTable
    BY <1>1, <1>2, <1>3, <1>4, FilesAreRights DEF BrokerFollowsTable
  <1> QED
    BY <1>5, <1>6, <1>7, <1>8 DEF DeviceInv

\* The broker grants what HTTP ingest grants up to the changes since the generation it loaded
\* began, whatever edits interleave with write_broker_files and wherever it dies; for any
\* devices, assets, administrators and generations.
THEOREM BrokerFollows == DeviceSpec => []BrokerFollowsTable
  <1>1. DeviceTypes /\ DeviceInv /\ [DeviceNext]_devVars => DeviceTypes' /\ DeviceInv'
    <2> SUFFICES ASSUME DeviceTypes, DeviceInv, [DeviceNext]_devVars PROVE DeviceTypes' /\ DeviceInv'
      OBVIOUS
    <2>1. ASSUME DeviceTypes', UNCHANGED <<devTable, devGen, devFiles, devLoaded, devWindow>>
          PROVE  DeviceTypes' /\ DeviceInv'
      BY <2>1 DEF DeviceInv, WindowsNest, FilesFollow, KeysWithin, TopicsWithin, BrokerFollowsTable
    <2>2. CASE UNCHANGED devVars
      <3>1. DeviceTypes'
        BY <2>2 DEF devVars, DeviceTypes
      <3> QED
        BY <2>1, <2>2, <3>1 DEF devVars
    <2>3. ASSUME NEW m \in Admins, NEW d \in DeviceIds, NEW a \in DeviceAssets,
                 NEW source \in {"tracker", "vision-edge"}, BeginRegister(m, d, a, source)
          PROVE  DeviceTypes' /\ DeviceInv'
      BY <2>1, <2>3, RegisterTypes
    <2>4. ASSUME NEW m \in Admins, CommitDeviceEdit(m) PROVE DeviceTypes' /\ DeviceInv'
      BY <2>4, CommitTypes, CommitWidens
    <2> QED
      BY <2>1, <2>2, <2>3, <2>4, RotateTypes, EnableTypes, RenderPasswdInv, RenderAclInv, ReplacePasswdInv,
         ReplaceAclInv, GeneratorDiesInv, ReloadInv DEF DeviceNext
  <1>2. DeviceInv => BrokerFollowsTable
    BY DEF DeviceInv
  <1> QED
    BY <1>1, <1>2, DeviceInitInv, PTL DEF DeviceSpec

-----------------------------------------------------------------------------
(* Rule versions and models (VisionRegistry).                              *)

RuleRows == [content : Contents \cup {"default"}, from : Nat, to : Nat]
ModelRows == [content : Contents, architecture : Architectures, licence : Licences,
              status : {"experimental", "validation", "production", "retired"}]
RuleChanges == [op : {"rules", "retire"}, keys : SUBSET RuleVersions, row : RuleRows]
ModelChanges == [op : {"model", "status"}, keys : SUBSET ModelVersions, row : ModelRows]

RegistryTypes ==
  /\ regRules \in [RuleVersions -> RuleRows \cup {NoRule}]
  /\ regModels \in [ModelVersions -> ModelRows \cup {NoModel}]
  /\ regReq \in [Registrars -> RuleChanges \cup ModelChanges \cup {NoChange}]
  /\ regNow \in Nat

\* A retirement is dated when it was read; a model to be put into production is one the audit
\* clears, and still there.
ChangesStand ==
  \A a \in Registrars :
    LET x == regReq[a] IN
    /\ x.op = "retire" => x.row.to <= regNow /\ \A v \in x.keys : regRules[v] # NoRule
    /\ x.op = "model" => x.row.status = "experimental"
    /\ x.op = "status" => \A k \in x.keys : /\ regModels[k] # NoModel
                                            /\ x.row.status = "production" =>
                                                 regModels[k].architecture = "cleared"

SeenStand ==
  /\ \A v \in RuleVersions : \A c : <<v, c>> \in regSeen => regRules[v] # NoRule /\ regRules[v].content = c
  /\ \A k \in ModelVersions : \A c : <<k, c>> \in regSeen => regModels[k] # NoModel /\ regModels[k].content = c
  /\ regEnded \subseteq RuleVersions
  /\ \A v \in regEnded : regRules[v] # NoRule /\ regRules[v].to <= regNow
  /\ \A k \in ModelVersions : regModels[k].status = "production" => regModels[k].architecture = "cleared"

\* The constants, and what is not there is no row.
LEMMA RegistryNames ==
  /\ RuleVersions \cap ModelVersions = {} /\ DefaultRules \subseteq RuleVersions /\ RegistryEnd \in Nat
  /\ \A x \in RuleRows : x # NoRule
  /\ \A x \in ModelRows : x # NoModel
  <1>1. /\ RuleVersions \cap ModelVersions = {} /\ DefaultRules \subseteq RuleVersions
        /\ RegistryEnd \in Nat /\ "none" \notin Contents
    BY RegistryAssumption DEF RegistryAssumption
  <1>2. ASSUME NEW x \in RuleRows PROVE x # NoRule
    <2>1. x.content \in Contents \cup {"default"} /\ NoRule.content = "none"
      BY DEF RuleRows, NoRule
    <2> QED
      BY <1>1, <2>1
  <1>3. ASSUME NEW x \in ModelRows PROVE x # NoModel
    <2>1. x.content \in Contents /\ NoModel.content = "none"
      BY DEF ModelRows, NoModel
    <2> QED
      BY <1>1, <2>1
  <1> QED
    BY <1>1, <1>2, <1>3

\* A change begins.
LEMMA BeginChangeStep ==
  ASSUME RegistryTypes, ChangesStand, SeenStand, NEW a \in Registrars,
         NEW x \in RuleChanges \cup ModelChanges, BeginChange(a, x),
         x.op = "retire" => x.row.to <= regNow /\ \A v \in x.keys : regRules[v] # NoRule,
         x.op = "model" => x.row.status = "experimental",
         x.op = "status" => \A k \in x.keys : /\ regModels[k] # NoModel
                                              /\ x.row.status = "production" =>
                                                   regModels[k].architecture = "cleared"
  PROVE  RegistryTypes' /\ ChangesStand' /\ SeenStand'
  <1>1. /\ regReq' = [regReq EXCEPT ![a] = x]
        /\ UNCHANGED <<regRules, regModels, regNow, regSeen, regEnded>>
    BY DEF BeginChange
  <1>2. /\ regReq' \in [Registrars -> RuleChanges \cup ModelChanges \cup {NoChange}]
        /\ \A b \in Registrars : regReq'[b] = IF b = a THEN x ELSE regReq[b]
    BY <1>1 DEF RegistryTypes
  <1>3. RegistryTypes' /\ SeenStand'
    BY <1>1, <1>2 DEF RegistryTypes, SeenStand
  <1>4. ChangesStand'
    BY <1>1, <1>2 DEF ChangesStand
  <1> QED
    BY <1>3, <1>4

\* What a request commits to: rules and models that are there keep their content, rules end no
\* later than they did, or now, and models keep their architecture.
LEMMA CommitChangeStep ==
  ASSUME RegistryTypes, ChangesStand, SeenStand, NEW a \in Registrars, EndChange(a),
         regRules' \in [RuleVersions -> RuleRows \cup {NoRule}],
         regModels' \in [ModelVersions -> ModelRows \cup {NoModel}],
         \A v \in RuleVersions : regRules[v] # NoRule =>
           /\ regRules'[v] # NoRule /\ regRules'[v].content = regRules[v].content
           /\ regRules'[v].to = regRules[v].to \/ regRules'[v].to <= regNow,
         \A k \in ModelVersions :
           /\ regModels[k] # NoModel => /\ regModels'[k] # NoModel
                                        /\ regModels'[k].content = regModels[k].content
                                        /\ regModels'[k].architecture = regModels[k].architecture
           /\ regModels'[k].status = "production" => regModels'[k].architecture = "cleared"
  PROVE  RegistryTypes' /\ ChangesStand' /\ SeenStand'
  <1>1. regReq' = [regReq EXCEPT ![a] = NoChange] /\ UNCHANGED <<regNow, regSeen, regEnded>>
    BY DEF EndChange
  <1>2. /\ regReq' \in [Registrars -> RuleChanges \cup ModelChanges \cup {NoChange}]
        /\ \A b \in Registrars : regReq'[b] = IF b = a THEN NoChange ELSE regReq[b]
    BY <1>1 DEF RegistryTypes
  <1>3. RegistryTypes'
    BY <1>1, <1>2 DEF RegistryTypes
  <1>4. SeenStand'
    BY <1>1 DEF SeenStand
  <1>5. ChangesStand'
    <2> SUFFICES ASSUME NEW b \in Registrars
                 PROVE  LET x == regReq'[b] IN
                        /\ x.op = "retire" => x.row.to <= regNow' /\ \A v \in x.keys : regRules'[v] # NoRule
                        /\ x.op = "model" => x.row.status = "experimental"
                        /\ x.op = "status" => \A k \in x.keys : /\ regModels'[k] # NoModel
                                                                /\ x.row.status = "production" =>
                                                                     regModels'[k].architecture = "cleared"
      BY DEF ChangesStand
    <2>1. CASE b = a
      <3>1. regReq'[b].op = "none"
        BY <1>2, <2>1 DEF NoChange
      <3> QED
        BY <3>1
    <2>2. CASE b # a
      <3> DEFINE x == regReq[b]
      <3>1. regReq'[b] = x /\ x \in RuleChanges \cup ModelChanges \cup {NoChange}
        BY <1>2, <2>2 DEF RegistryTypes
      <3>2. /\ x.op = "retire" => x.keys \subseteq RuleVersions
            /\ x.op = "status" => x.keys \subseteq ModelVersions
        BY <3>1 DEF RuleChanges, ModelChanges, NoChange
      <3>3. /\ x.op = "retire" => x.row.to <= regNow /\ \A v \in x.keys : regRules[v] # NoRule
            /\ x.op = "model" => x.row.status = "experimental"
            /\ x.op = "status" => \A k \in x.keys : /\ regModels[k] # NoModel
                                                    /\ x.row.status = "production" =>
                                                         regModels[k].architecture = "cleared"
        BY DEF ChangesStand
      <3> HIDE DEF x
      <3> QED
        BY <1>1, <3>1, <3>2, <3>3
    <2> QED
      BY <2>1, <2>2
  <1> QED
    BY <1>3, <1>4, <1>5

\* The times a rule is active are natural numbers.
LEMMA RegistryTimes == ASSUME RegistryTypes PROVE regNow \in Nat /\ RegistryEnd \in Nat /\ Forever \in Nat
  BY RegistryNames DEF RegistryTypes, Forever

\* publish_rule reads.
LEMMA PublishStep ==
  ASSUME RegistryTypes, ChangesStand, SeenStand, NEW a \in Registrars, NEW v \in RuleVersions,
         NEW c \in Contents, NEW from \in 0 .. RegistryEnd, NEW to \in {regNow + 1, Forever},
         PublishRule(a, v, c, from, to)
  PROVE  RegistryTypes' /\ ChangesStand' /\ SeenStand'
  <1> DEFINE row == [content |-> c, from |-> from, to |-> to]
             x == [op |-> "rules", keys |-> {v}, row |-> row]
  <1>1. BeginChange(a, x)
    BY DEF PublishRule
  <1>2. row \in RuleRows
    BY RegistryTimes DEF RuleRows
  <1> HIDE DEF row
  <1>3. x \in RuleChanges /\ x.op = "rules"
    BY <1>2 DEF RuleChanges
  <1> HIDE DEF x
  <1> QED
    BY <1>1, <1>3, BeginChangeStep

\* retire_rule_version reads.
LEMMA RetireStep ==
  ASSUME RegistryTypes, ChangesStand, SeenStand, NEW a \in Registrars, NEW v \in RuleVersions,
         RetireRule(a, v)
  PROVE  RegistryTypes' /\ ChangesStand' /\ SeenStand'
  <1> DEFINE row == [regRules[v] EXCEPT !.to = regNow]
             x == [op |-> "retire", keys |-> {v}, row |-> row]
  <1>1. BeginChange(a, x) /\ regRules[v] # NoRule
    BY DEF RetireRule
  <1>2. row \in RuleRows /\ row.to = regNow
    <2>1. regRules[v] \in RuleRows
      BY <1>1 DEF RegistryTypes
    <2> QED
      BY RegistryTimes, <2>1 DEF RuleRows
  <1> HIDE DEF row
  <1>3. x \in RuleChanges /\ x.op = "retire" /\ x.row.to <= regNow /\ x.keys = {v}
    BY RegistryTimes, <1>2 DEF RuleChanges
  <1> HIDE DEF x
  <1> QED
    BY <1>1, <1>3, BeginChangeStep

\* install_default_rules reads.
LEMMA InstallStep ==
  ASSUME RegistryTypes, ChangesStand, SeenStand, NEW a \in Registrars, InstallDefaults(a)
  PROVE  RegistryTypes' /\ ChangesStand' /\ SeenStand'
  <1> DEFINE row == [content |-> "default", from |-> regNow, to |-> Forever]
             keys == {v \in DefaultRules : regRules[v] = NoRule}
             x == [op |-> "rules", keys |-> keys, row |-> row]
  <1>1. BeginChange(a, x)
    BY DEF InstallDefaults
  <1>2. row \in RuleRows
    BY RegistryTimes DEF RuleRows
  <1>3. keys \in SUBSET RuleVersions
    BY RegistryNames
  <1> HIDE DEF row, keys
  <1>4. x \in RuleChanges /\ x.op = "rules"
    BY <1>2, <1>3 DEF RuleChanges
  <1> HIDE DEF x
  <1> QED
    BY <1>1, <1>4, BeginChangeStep

\* register_model reads.
LEMMA RegisterStep ==
  ASSUME RegistryTypes, ChangesStand, SeenStand, NEW a \in Registrars, NEW k \in ModelVersions,
         NEW c \in Contents, NEW architecture \in Architectures, NEW licence \in Licences,
         RegisterModel(a, k, c, architecture, licence)
  PROVE  RegistryTypes' /\ ChangesStand' /\ SeenStand'
  <1> DEFINE row == [content |-> c, architecture |-> architecture, licence |-> licence,
                     status |-> "experimental"]
             x == [op |-> "model", keys |-> {k}, row |-> row]
  <1>1. BeginChange(a, x)
    BY DEF RegisterModel
  <1>2. row \in ModelRows /\ row.status = "experimental"
    BY DEF ModelRows
  <1> HIDE DEF row
  <1>3. x \in ModelChanges /\ x.op = "model" /\ x.row.status = "experimental"
    BY <1>2 DEF ModelChanges
  <1> HIDE DEF x
  <1> QED
    BY <1>1, <1>3, BeginChangeStep

\* set_status reads; production must not be blocked.
LEMMA StatusStep ==
  ASSUME RegistryTypes, ChangesStand, SeenStand, NEW a \in Registrars, NEW k \in ModelVersions,
         NEW s \in {"validation", "production", "retired"}, SetStatus(a, k, s)
  PROVE  RegistryTypes' /\ ChangesStand' /\ SeenStand'
  <1> DEFINE row == [regModels[k] EXCEPT !.status = s]
             x == [op |-> "status", keys |-> {k}, row |-> row]
  <1>1. /\ BeginChange(a, x) /\ regModels[k] # NoModel
        /\ s = "production" => ~ProductionBlocked(regModels[k])
    BY DEF SetStatus
  <1>2. regModels[k] \in ModelRows
    BY <1>1 DEF RegistryTypes
  <1>3. row \in ModelRows /\ row.status = s
    BY <1>2 DEF ModelRows
  <1>4. s = "production" => regModels[k].architecture = "cleared"
    BY <1>1 DEF ProductionBlocked, AuditedLicence
  <1> HIDE DEF row
  <1>5. x \in ModelChanges /\ x.op = "status" /\ x.row.status = s /\ x.keys = {k}
    BY <1>3 DEF ModelChanges
  <1> HIDE DEF x
  <1> QED
    BY <1>1, <1>4, <1>5, BeginChangeStep


\* What a request that commits holds, by its operation.
LEMMA ChangeKinds ==
  ASSUME RegistryTypes, NEW a \in Registrars
  PROVE  /\ regReq[a].op \in {"rules", "retire"} =>
              regReq[a].keys \subseteq RuleVersions /\ regReq[a].row \in RuleRows
         /\ regReq[a].op \in {"model", "status"} =>
              regReq[a].keys \subseteq ModelVersions /\ regReq[a].row \in ModelRows
  <1> DEFINE x == regReq[a]
  <1>1. x \in RuleChanges \cup ModelChanges \cup {NoChange}
    BY DEF RegistryTypes
  <1> HIDE DEF x
  <1>2. /\ x.op \in {"rules", "retire"} => x.keys \subseteq RuleVersions /\ x.row \in RuleRows
        /\ x.op \in {"model", "status"} => x.keys \subseteq ModelVersions /\ x.row \in ModelRows
    BY <1>1 DEF RuleChanges, ModelChanges, NoChange
  <1> QED
    BY <1>2 DEF x

\* Rule versions are committed: all of them, or none when one was taken meanwhile.
LEMMA CommitRulesStep ==
  ASSUME RegistryTypes, ChangesStand, SeenStand, NEW a \in Registrars, CommitRules(a)
  PROVE  RegistryTypes' /\ ChangesStand' /\ SeenStand'
  <1>1. /\ regReq[a].op = "rules" /\ EndChange(a) /\ regModels' = regModels
        /\ regRules' = IF KeyTaken(a) THEN regRules
                       ELSE [v \in RuleVersions |-> IF v \in regReq[a].keys THEN regReq[a].row
                                                    ELSE regRules[v]]
    BY DEF CommitRules
  <1>2. regReq[a].row \in RuleRows
    BY <1>1, ChangeKinds
  <1>3. regRules' \in [RuleVersions -> RuleRows \cup {NoRule}]
    BY <1>1, <1>2 DEF RegistryTypes
  <1>4. ASSUME NEW v \in RuleVersions, regRules[v] # NoRule PROVE regRules'[v] = regRules[v]
    BY <1>1, <1>4 DEF KeyTaken
  <1>5. regModels' \in [ModelVersions -> ModelRows \cup {NoModel}]
    BY <1>1 DEF RegistryTypes
  <1>6. \A k \in ModelVersions : regModels'[k].status = "production" => regModels'[k].architecture = "cleared"
    BY <1>1 DEF SeenStand
  <1> QED
    BY <1>1, <1>3, <1>4, <1>5, <1>6, CommitChangeStep

\* A retirement is committed, over what is there: the earlier of two stands or is replaced.
LEMMA CommitRetireStep ==
  ASSUME RegistryTypes, ChangesStand, SeenStand, NEW a \in Registrars, CommitRetire(a)
  PROVE  RegistryTypes' /\ ChangesStand' /\ SeenStand'
  <1>1. /\ regReq[a].op = "retire" /\ EndChange(a) /\ regModels' = regModels
        /\ regRules' = [v \in RuleVersions |-> IF v \in regReq[a].keys
                                               THEN [regRules[v] EXCEPT !.to = regReq[a].row.to]
                                               ELSE regRules[v]]
    BY DEF CommitRetire
  <1>2. regReq[a].keys \subseteq RuleVersions /\ regReq[a].row \in RuleRows
    BY <1>1, ChangeKinds
  <1>3. /\ regReq[a].row.to \in Nat /\ regReq[a].row.to <= regNow
        /\ \A v \in regReq[a].keys : regRules[v] # NoRule
    BY <1>1, <1>2 DEF ChangesStand, RuleRows
  <1>4. ASSUME NEW v \in RuleVersions
        PROVE  /\ regRules'[v] \in RuleRows \cup {NoRule}
               /\ regRules[v] # NoRule => /\ regRules'[v] \in RuleRows
                                          /\ regRules'[v].content = regRules[v].content
                                          /\ regRules'[v].to = regRules[v].to \/ regRules'[v].to <= regNow
    <2>1. CASE v \in regReq[a].keys
      <3> DEFINE to == regReq[a].row.to
                 y == regRules[v]
      <3>1. y \in RuleRows /\ regRules'[v] = [y EXCEPT !.to = to] /\ to \in Nat
        BY <1>1, <1>3, <2>1 DEF RegistryTypes
      <3> HIDE DEF to, y
      <3>2. /\ [y EXCEPT !.to = to] \in RuleRows
            /\ [y EXCEPT !.to = to].content = y.content /\ [y EXCEPT !.to = to].to = to
        BY <3>1 DEF RuleRows
      <3> QED
        BY <1>3, <3>1, <3>2 DEF to, y
    <2>2. CASE v \notin regReq[a].keys
      BY <1>1, <2>2 DEF RegistryTypes
    <2> QED
      BY <2>1, <2>2
  <1>5. regRules' \in [RuleVersions -> RuleRows \cup {NoRule}]
    BY <1>1, <1>4
  <1>6. /\ regModels' \in [ModelVersions -> ModelRows \cup {NoModel}]
        /\ \A k \in ModelVersions : regModels'[k].status = "production" =>
                                      regModels'[k].architecture = "cleared"
    BY <1>1 DEF RegistryTypes, SeenStand
  <1> QED
    BY <1>1, <1>4, <1>5, <1>6, CommitChangeStep, RegistryNames

\* A model is committed, unless it was meanwhile.
LEMMA CommitModelStep ==
  ASSUME RegistryTypes, ChangesStand, SeenStand, NEW a \in Registrars, CommitModel(a)
  PROVE  RegistryTypes' /\ ChangesStand' /\ SeenStand'
  <1>1. /\ regReq[a].op = "model" /\ EndChange(a) /\ regRules' = regRules
        /\ regModels' = [k \in ModelVersions |-> IF k \in regReq[a].keys /\ regModels[k] = NoModel
                                                 THEN regReq[a].row ELSE regModels[k]]
    BY DEF CommitModel
  <1>2. regReq[a].row \in ModelRows /\ regReq[a].row.status = "experimental"
    BY <1>1, ChangeKinds DEF ChangesStand
  <1>3. /\ regModels' \in [ModelVersions -> ModelRows \cup {NoModel}]
        /\ regRules' \in [RuleVersions -> RuleRows \cup {NoRule}]
    BY <1>1, <1>2 DEF RegistryTypes
  <1>4. ASSUME NEW k \in ModelVersions
        PROVE  /\ regModels[k] # NoModel => regModels'[k] = regModels[k]
               /\ regModels'[k].status = "production" => regModels'[k].architecture = "cleared"
    BY <1>1, <1>2 DEF SeenStand
  <1>5. \A v \in RuleVersions : regRules'[v] = regRules[v]
    BY <1>1
  <1> QED
    BY <1>1, <1>3, <1>4, <1>5, CommitChangeStep

\* A status is committed; the model's architecture is the one it was judged on.
LEMMA CommitStatusStep ==
  ASSUME RegistryTypes, ChangesStand, SeenStand, NEW a \in Registrars, CommitStatus(a)
  PROVE  RegistryTypes' /\ ChangesStand' /\ SeenStand'
  <1>1. /\ regReq[a].op = "status" /\ EndChange(a) /\ regRules' = regRules
        /\ regModels' = [k \in ModelVersions |-> IF k \in regReq[a].keys
                                                 THEN [regModels[k] EXCEPT !.status = regReq[a].row.status]
                                                 ELSE regModels[k]]
    BY DEF CommitStatus
  <1>2. regReq[a].keys \subseteq ModelVersions /\ regReq[a].row \in ModelRows
    BY <1>1, ChangeKinds
  <1>3. \A k \in regReq[a].keys : /\ regModels[k] # NoModel
                                  /\ regReq[a].row.status = "production" =>
                                       regModels[k].architecture = "cleared"
    BY <1>1 DEF ChangesStand
  <1>4. ASSUME NEW k \in ModelVersions
        PROVE  /\ regModels'[k] \in ModelRows \cup {NoModel}
               /\ regModels[k] # NoModel => /\ regModels'[k] \in ModelRows
                                            /\ regModels'[k].content = regModels[k].content
                                            /\ regModels'[k].architecture = regModels[k].architecture
               /\ regModels'[k].status = "production" => regModels'[k].architecture = "cleared"
    <2>1. CASE k \in regReq[a].keys
      <3> DEFINE s == regReq[a].row.status
                 y == regModels[k]
      <3>1. y \in ModelRows /\ regModels'[k] = [y EXCEPT !.status = s]
        BY <1>1, <1>3, <2>1 DEF RegistryTypes
      <3>2. s \in {"experimental", "validation", "production", "retired"}
        BY <1>2 DEF ModelRows
      <3> HIDE DEF s, y
      <3>3. /\ [y EXCEPT !.status = s] \in ModelRows /\ [y EXCEPT !.status = s].content = y.content
            /\ [y EXCEPT !.status = s].architecture = y.architecture /\ [y EXCEPT !.status = s].status = s
        BY <3>1, <3>2 DEF ModelRows
      <3> QED
        BY <1>3, <2>1, <3>1, <3>3 DEF s, y
    <2>2. CASE k \notin regReq[a].keys
      BY <1>1, <2>2 DEF RegistryTypes, SeenStand
    <2> QED
      BY <2>1, <2>2
  <1>5. regModels' \in [ModelVersions -> ModelRows \cup {NoModel}]
    BY <1>1, <1>4
  <1>6. regRules' \in [RuleVersions -> RuleRows \cup {NoRule}] /\ \A v \in RuleVersions : regRules'[v] = regRules[v]
    BY <1>1 DEF RegistryTypes
  <1> QED
    BY <1>1, <1>4, <1>5, <1>6, CommitChangeStep, RegistryNames

\* Readers are given what is there.
LEMMA FetchStep ==
  ASSUME RegistryTypes, ChangesStand, SeenStand, FetchRegistry
  PROVE  RegistryTypes' /\ ChangesStand' /\ SeenStand'
  <1> DEFINE rules == {<<v, regRules[v].content>> : v \in {v \in RuleVersions : Active(regRules[v], regNow)}}
             models == {<<k, regModels[k].content>> : k \in {k \in ModelVersions : regModels[k] # NoModel}}
  <1>1. /\ regSeen' = regSeen \cup rules \cup models
        /\ regEnded' = regEnded \cup {v \in RuleVersions : regRules[v] # NoRule /\ regRules[v].to <= regNow}
        /\ UNCHANGED <<regRules, regModels, regReq, regNow>>
    BY DEF FetchRegistry
  <1>2. RegistryTypes' /\ ChangesStand'
    BY <1>1 DEF RegistryTypes, ChangesStand
  <1>3. ASSUME NEW v \in RuleVersions, NEW c, <<v, c>> \in regSeen'
        PROVE  regRules[v] # NoRule /\ regRules[v].content = c
    <2>1. CASE <<v, c>> \in regSeen
      BY <2>1 DEF SeenStand
    <2>2. CASE <<v, c>> \in rules
      BY <2>2 DEF Active
    <2>3. <<v, c>> \notin models
      BY RegistryNames
    <2> QED
      BY <1>1, <1>3, <2>1, <2>2, <2>3
  <1>4. ASSUME NEW k \in ModelVersions, NEW c, <<k, c>> \in regSeen'
        PROVE  regModels[k] # NoModel /\ regModels[k].content = c
    <2>1. CASE <<k, c>> \in regSeen
      BY <2>1 DEF SeenStand
    <2>2. CASE <<k, c>> \in models
      BY <2>2
    <2>3. <<k, c>> \notin rules
      BY RegistryNames
    <2> QED
      BY <1>1, <1>4, <2>1, <2>2, <2>3
  <1>5. regEnded' \subseteq RuleVersions /\ \A v \in regEnded' : regRules[v] # NoRule /\ regRules[v].to <= regNow
    BY <1>1 DEF SeenStand
  <1>6. SeenStand'
    BY <1>1, <1>3, <1>4, <1>5 DEF SeenStand
  <1> QED
    BY <1>2, <1>6

\* Time passes: what has ended stays so.
LEMMA RegistryTickStep ==
  ASSUME RegistryTypes, ChangesStand, SeenStand, RegistryTick
  PROVE  RegistryTypes' /\ ChangesStand' /\ SeenStand'
  <1>1. /\ regNow' = regNow + 1 /\ regNow \in Nat
        /\ UNCHANGED <<regRules, regModels, regReq, regSeen, regEnded>>
    BY DEF RegistryTick, RegistryTypes
  <1>2. RegistryTypes'
    BY <1>1 DEF RegistryTypes
  <1>3. ChangesStand'
    <2>1. ASSUME NEW a \in Registrars, regReq[a].op = "retire" PROVE regReq[a].row.to <= regNow'
      <3>1. regReq[a].row.to \in Nat /\ regReq[a].row.to <= regNow
        BY <2>1, ChangeKinds DEF RuleRows, ChangesStand
      <3> QED
        BY <1>1, <3>1
    <2> QED
      BY <1>1, <2>1 DEF ChangesStand
  <1>4. SeenStand'
    <2>1. ASSUME NEW v \in regEnded PROVE regRules[v].to <= regNow'
      <3>1. regRules[v] \in RuleRows /\ regRules[v].to <= regNow
        BY <2>1 DEF RegistryTypes, SeenStand
      <3>2. regRules[v].to \in Nat
        BY <3>1 DEF RuleRows
      <3> QED
        BY <1>1, <3>1, <3>2
    <2> QED
      BY <1>1, <2>1 DEF SeenStand
  <1> QED
    BY <1>2, <1>3, <1>4

\* What was published stands (create_rule_version, retire_rule_version, register_model,
\* set_status): whatever number of administrators read and commit at once, a rule version or
\* model that a reader was given keeps its content, an ended rule is never active again, and a
\* model in production is one the licence audit clears.
THEOREM PublicationsStand == RegistrySpec => []PublishedStands
  <1> DEFINE Inv == RegistryTypes /\ ChangesStand /\ SeenStand
  <1>1. RegistryInit => Inv
    <2> SUFFICES ASSUME RegistryInit PROVE Inv
      OBVIOUS
    <2>1. RegistryTypes
      BY DEF RegistryInit, RegistryTypes
    <2>2. ChangesStand
      BY DEF RegistryInit, ChangesStand, NoChange
    <2>3. SeenStand
      BY DEF RegistryInit, SeenStand, NoModel
    <2> QED
      BY <2>1, <2>2, <2>3
  <1>2. Inv /\ [RegistryNext]_regVars => Inv'
    <2> SUFFICES ASSUME RegistryTypes, ChangesStand, SeenStand, [RegistryNext]_regVars
                 PROVE  RegistryTypes' /\ ChangesStand' /\ SeenStand'
      OBVIOUS
    <2>1. CASE UNCHANGED regVars
      BY <2>1 DEF regVars, RegistryTypes, ChangesStand, SeenStand
    <2>2. CASE FetchRegistry \/ RegistryTick
      BY <2>2, FetchStep, RegistryTickStep
    <2>3. ASSUME NEW a \in Registrars, NEW v \in RuleVersions, NEW c \in Contents,
                 NEW from \in 0 .. RegistryEnd, NEW to \in {regNow + 1, Forever},
                 PublishRule(a, v, c, from, to)
          PROVE  RegistryTypes' /\ ChangesStand' /\ SeenStand'
      BY <2>3, PublishStep
    <2>4. ASSUME NEW a \in Registrars, NEW v \in RuleVersions, RetireRule(a, v)
          PROVE  RegistryTypes' /\ ChangesStand' /\ SeenStand'
      BY <2>4, RetireStep
    <2>5. ASSUME NEW a \in Registrars,
                 InstallDefaults(a) \/ CommitRules(a) \/ CommitRetire(a) \/ CommitModel(a) \/ CommitStatus(a)
          PROVE  RegistryTypes' /\ ChangesStand' /\ SeenStand'
      BY <2>5, InstallStep, CommitRulesStep, CommitRetireStep, CommitModelStep, CommitStatusStep
    <2>6. ASSUME NEW a \in Registrars, NEW k \in ModelVersions, NEW c \in Contents,
                 NEW architecture \in Architectures, NEW licence \in Licences,
                 RegisterModel(a, k, c, architecture, licence)
          PROVE  RegistryTypes' /\ ChangesStand' /\ SeenStand'
      BY <2>6, RegisterStep
    <2>7. ASSUME NEW a \in Registrars, NEW k \in ModelVersions,
                 NEW s \in {"validation", "production", "retired"}, SetStatus(a, k, s)
          PROVE  RegistryTypes' /\ ChangesStand' /\ SeenStand'
      BY <2>7, StatusStep
    <2> QED
      BY <2>1, <2>2, <2>3, <2>4, <2>5, <2>6, <2>7 DEF RegistryNext
  <1>3. Inv => PublishedStands
    <2> SUFFICES ASSUME RegistryTypes, SeenStand PROVE PublishedStands
      OBVIOUS
    <2>1. ASSUME NEW v \in regEnded PROVE ~Active(regRules[v], regNow)
      <3>1. regRules[v] \in RuleRows /\ regRules[v].to <= regNow
        BY <2>1 DEF RegistryTypes, SeenStand
      <3>2. regRules[v].to \in Nat /\ regNow \in Nat
        BY <3>1 DEF RuleRows, RegistryTypes
      <3> QED
        BY <3>1, <3>2 DEF Active
    <2> QED
      BY <2>1 DEF PublishedStands, SeenStand
  <1> QED
    BY <1>1, <1>2, <1>3, PTL DEF RegistrySpec

-----------------------------------------------------------------------------
(* Imported records (Imports).                                             *)

ImportEvents == [key : ImportKeys \cup {"none"}, about : {"none", "odd", "conflict"}]
ImportRequests == [busy : BOOLEAN, batch : Seq(ImportItems), done : Nat, adds : Seq(ImportItems),
                   written : Seq(ImportItems), event : ImportEvents, events : SUBSET ImportEvents,
                   gone : SUBSET ImportKeys]

OddEvent(k) == [key |-> k, about |-> "odd"]
ConflictEvent(k) == [key |-> k, about |-> "conflict"]

\* An event is raised, or the request will raise it.
Told(r, e) == e \in impRaised \cup impReq[r].events \cup {impReq[r].event}

\* The rows a request will commit.
Pending(r) == ToSet(impReq[r].written) \cup ToSet(impReq[r].adds)

\* The row with a key is there, committed or flushed by the request.
Stands(r, k, c) == \/ k \in DOMAIN impRows /\ impRows[k] = c
                   \/ [key |-> k, content |-> c] \in ToSet(impReq[r].written)

\* An item is one the request will commit, or a row with its key is there, and a difference is told.
Held(r, x) ==
  \/ x \in Pending(r)
  \/ \E c : Stands(r, x.key, c) /\ (impRegister = "result" /\ c # x.content => Told(r, ConflictEvent(x.key)))

\* Rows flushed are the request's own: nobody else has, or committed, their keys.
WrittenAlone ==
  \A r \in Importers :
    /\ \A x \in ToSet(impReq[r].written) : x.key \notin DOMAIN impRows
    /\ \A x, y \in ToSet(impReq[r].written) : x.key = y.key => x = y
    /\ \A s \in Importers \ {r} :
         \A x \in ToSet(impReq[r].written), y \in ToSet(impReq[s].written) : x.key # y.key

ImportTypes ==
  /\ impReq \in [Importers -> ImportRequests] /\ impAlarms \subseteq impRaised
  /\ impRegister \in {"ticket", "measurement", "result", "reading"}
  /\ \A r \in Importers : impReq[r].busy \/ impReq[r] = IdleRequest

\* An odd row that is stored, or will be, is told.
OddIsTold ==
  /\ \A k \in DOMAIN impRows :
       Alarming([key |-> k, content |-> impRows[k]]) => OddEvent(k) \in impRaised
  /\ \A r \in Importers : \A x \in Pending(r) : Alarming(x) => Told(r, OddEvent(x.key))

\* Every item dealt with is held, unless it is malformed or retention deleted its key.
DealtWith ==
  \A r \in Importers : \A i \in DOMAIN impReq[r].batch :
    i <= impReq[r].done /\ impReq[r].batch[i].content # "malformed"
      /\ impReq[r].batch[i].key \notin impReq[r].gone
    => Held(r, impReq[r].batch[i])

ImportInv == ImportTypes /\ WrittenAlone /\ OddIsTold /\ DealtWith /\ NothingAbsorbed

LEMMA RowsAreCounted == MaxRows \in Nat
  BY ImportAssumption

\* The elements of two lists, one after the other.
LEMMA ToSetConcat == ASSUME NEW S, NEW s \in Seq(S), NEW t \in Seq(S)
                     PROVE  ToSet(s \o t) = ToSet(s) \cup ToSet(t) /\ s \o t \in Seq(S)
  <1>1. /\ s \o t \in Seq(S) /\ DOMAIN s = 1 .. Len(s) /\ DOMAIN t = 1 .. Len(t) /\ Len(s) \in Nat /\ Len(t) \in Nat
        /\ DOMAIN (s \o t) = 1 .. Len(s) + Len(t)
    OBVIOUS
  <1>2. \A i \in 1 .. Len(s) + Len(t) : (s \o t)[i] = IF i <= Len(s) THEN s[i] ELSE t[i - Len(s)]
    OBVIOUS
  <1>3. ASSUME NEW x \in ToSet(s \o t) PROVE x \in ToSet(s) \cup ToSet(t)
    <2>1. PICK i \in 1 .. Len(s) + Len(t) : x = (s \o t)[i]
      BY <1>1 DEF ToSet
    <2>2. i \in 1 .. Len(s) \/ i - Len(s) \in 1 .. Len(t)
      BY <1>1
    <2>3. CASE i \in 1 .. Len(s)
      BY <1>1, <1>2, <2>1, <2>3 DEF ToSet
    <2>4. CASE i \notin 1 .. Len(s)
      <3>1. x = t[i - Len(s)] /\ i - Len(s) \in DOMAIN t
        BY <1>1, <1>2, <2>1, <2>2, <2>4
      <3> QED
        BY <3>1 DEF ToSet
    <2> QED
      BY <2>3, <2>4
  <1>4. ASSUME NEW x \in ToSet(s) PROVE x \in ToSet(s \o t)
    <2>1. PICK i \in 1 .. Len(s) : x = s[i]
      BY <1>1 DEF ToSet
    <2>2. i \in DOMAIN (s \o t) /\ (s \o t)[i] = x
      BY <1>1, <1>2, <2>1
    <2> QED
      BY <2>2 DEF ToSet
  <1>5. ASSUME NEW x \in ToSet(t) PROVE x \in ToSet(s \o t)
    <2>1. PICK i \in 1 .. Len(t) : x = t[i]
      BY <1>1 DEF ToSet
    <2>2. i + Len(s) \in DOMAIN (s \o t) /\ (s \o t)[i + Len(s)] = x
      BY <1>1, <1>2, <2>1
    <2> QED
      BY <2>2 DEF ToSet
  <1> QED
    BY <1>1, <1>3, <1>4, <1>5

\* The elements of short lists.
LEMMA ToSetShort == ToSet(<<>>) = {} /\ \A x : ToSet(<<x>>) = {x}
  BY DEF ToSet

\* Rows as many as their keys have different ones.
LEMMA KeysDiffer ==
  ASSUME NEW s \in Seq(ImportItems), ~ (Cardinality(KeysOf(s)) < Len(s)),
         NEW x \in ToSet(s), NEW y \in ToSet(s), x.key = y.key
  PROVE  x = y
  <1> DEFINE f == [i \in 1 .. Len(s) |-> s[i].key]
             K == KeysOf(s)
  <1>1. Len(s) \in Nat /\ DOMAIN s = 1 .. Len(s)
    OBVIOUS
  <1>2. f \in Surjection(1 .. Len(s), K)
    <2>1. K = {s[i].key : i \in 1 .. Len(s)}
      BY <1>1 DEF KeysOf, ToSet
    <2> QED
      BY <2>1 DEF Surjection
  <1>3. IsFiniteSet(1 .. Len(s)) /\ Cardinality(1 .. Len(s)) = Len(s)
    <2>1. 1 \in Int /\ Len(s) \in Int
      BY <1>1
    <2>2. IsFiniteSet(1 .. Len(s)) /\ Cardinality(1 .. Len(s)) = IF 1 > Len(s) THEN 0 ELSE Len(s) - 1 + 1
      BY <2>1, FS_Interval
    <2> QED
      BY <1>1, <2>2
  <1> HIDE DEF f, K
  <1>4. /\ IsFiniteSet(K) /\ Cardinality(K) <= Len(s)
        /\ Cardinality(K) = Len(s) <=> f \in Injection(1 .. Len(s), K)
    BY <1>2, <1>3, FS_Surjection
  <1>5. Cardinality(K) \in Nat
    BY <1>4, FS_CardinalityType
  <1>6. f \in Injection(1 .. Len(s), K)
    BY <1>1, <1>4, <1>5 DEF K
  <1>7. \A i, j \in 1 .. Len(s) : f[i] = f[j] => i = j
    BY <1>6 DEF Injection, IsInjective
  <1>8. PICK i \in 1 .. Len(s), j \in 1 .. Len(s) : x = s[i] /\ y = s[j]
    BY <1>1 DEF ToSet
  <1> QED
    BY <1>7, <1>8 DEF f

\* Rows are only added to.
RowsGrow == /\ DOMAIN impRows \subseteq DOMAIN impRows'
            /\ \A k \in DOMAIN impRows : impRows'[k] = impRows[k]

\* A request that is not the one moving keeps what it holds and told.
LEMMA OthersHold ==
  ASSUME NEW s, impReq'[s] = impReq[s], RowsGrow, impRaised \subseteq impRaised', impRegister' = impRegister
  PROVE  /\ \A e : Told(s, e) => Told(s, e)'
         /\ \A x : Held(s, x) => Held(s, x)'
  <1>1. \A e : Told(s, e) => Told(s, e)'
    BY DEF Told
  <1>2. \A k, c : Stands(s, k, c) => Stands(s, k, c)'
    BY DEF Stands, RowsGrow
  <1> QED
    BY <1>1, <1>2 DEF Held, Pending, ConflictEvent

\* One request moves to new; rows and raised events only grow.
LEMMA RequestMoves ==
  ASSUME ImportInv, NEW r \in Importers, NEW new \in ImportRequests, impReq' = [impReq EXCEPT ![r] = new],
         RowsGrow, impRaised \subseteq impRaised', impRegister' = impRegister, impAlarms' \subseteq impRaised',
         new.busy \/ new = IdleRequest,
         \A x \in ToSet(new.written) : x.key \notin DOMAIN impRows',
         \A x, y \in ToSet(new.written) : x.key = y.key => x = y,
         \A s \in Importers \ {r} : \A x \in ToSet(impReq[s].written) :
           /\ x.key \notin DOMAIN impRows'
           /\ \A y \in ToSet(new.written) : x.key # y.key,
         \A k \in DOMAIN impRows' : Alarming([key |-> k, content |-> impRows'[k]]) => OddEvent(k) \in impRaised',
         \A x \in Pending(r)' : Alarming(x) => Told(r, OddEvent(x.key))',
         \A i \in DOMAIN new.batch :
           i <= new.done /\ new.batch[i].content # "malformed" /\ new.batch[i].key \notin new.gone
           => Held(r, new.batch[i])',
         NothingAbsorbed'
  PROVE  ImportInv'
  <1>1. impReq'[r] = new /\ \A s \in Importers : s # r => impReq'[s] = impReq[s]
    BY DEF ImportInv, ImportTypes
  <1>2. ImportTypes'
    <2>1. impReq' \in [Importers -> ImportRequests]
      BY DEF ImportInv, ImportTypes
    <2>2. \A s \in Importers : impReq'[s].busy \/ impReq'[s] = IdleRequest
      BY <1>1 DEF ImportInv, ImportTypes
    <2> QED
      BY <2>1, <2>2 DEF ImportInv, ImportTypes, IdleRequest, NoEvent
  <1>3. WrittenAlone'
    BY <1>1 DEF ImportInv, WrittenAlone
  <1>4. \A s \in Importers : s # r => /\ \A e : Told(s, e) => Told(s, e)'
                                      /\ \A x : Held(s, x) => Held(s, x)'
    BY <1>1, OthersHold
  <1>5. OddIsTold'
    <2>1. \A s \in Importers : s # r => Pending(s)' = Pending(s)
      BY <1>1 DEF Pending
    <2>2. \A x : Alarming(x)' <=> Alarming(x)
      BY DEF Alarming
    <2>3. ASSUME NEW s \in Importers, NEW x \in Pending(s)', Alarming(x)' PROVE Told(s, OddEvent(x.key))'
      <3>1. CASE s = r
        BY <2>2, <2>3, <3>1
      <3>2. CASE s # r
        BY <1>4, <2>1, <2>2, <2>3, <3>2 DEF ImportInv, OddIsTold
      <3> QED
        BY <3>1, <3>2
    <2> QED
      BY <2>2, <2>3 DEF OddIsTold, OddEvent
  <1>6. DealtWith'
    <2>1. ASSUME NEW s \in Importers, NEW q, q = impReq'[s], NEW i \in DOMAIN q.batch, i <= q.done,
                 q.batch[i].content # "malformed", q.batch[i].key \notin q.gone
          PROVE  Held(s, q.batch[i])'
      <3>1. CASE s = r
        BY <1>1, <2>1, <3>1
      <3>2. CASE s # r
        BY <1>1, <1>4, <2>1, <3>2 DEF ImportInv, DealtWith
      <3> QED
        BY <3>1, <3>2
    <2> QED
      BY <2>1 DEF DealtWith
  <1> QED
    BY <1>2, <1>3, <1>5, <1>6 DEF ImportInv

\* A request that ended, with its rows rolled back.
LEMMA IdleIsRequest == IdleRequest \in ImportRequests /\ ToSet(IdleRequest.written) = {}
  <1> DEFINE Items == Seq(ImportItems)
  <1>1. <<>> \in Items
    OBVIOUS
  <1>2. NoEvent \in ImportEvents
    BY DEF NoEvent, ImportEvents
  <1> HIDE DEF Items
  <1>3. IdleRequest \in [busy : BOOLEAN, batch : Items, done : Nat, adds : Items, written : Items,
                         event : ImportEvents, events : SUBSET ImportEvents, gone : SUBSET ImportKeys]
    BY <1>1, <1>2 DEF IdleRequest
  <1>4. IdleRequest \in ImportRequests
    BY <1>3 DEF Items, ImportRequests
  <1> QED
    BY <1>4, ToSetShort DEF IdleRequest

LEMMA AbortStep == ASSUME ImportInv, NEW r \in Importers, Abort(r) PROVE ImportInv'
  <1>1. /\ impReq' = [impReq EXCEPT ![r] = IdleRequest]
        /\ UNCHANGED <<impRegister, impRows, impAlarms, impAnswered, impRaised>>
    BY DEF Abort, EndRequest
  <1>2. impReq'[r] = IdleRequest
    BY <1>1 DEF ImportInv, ImportTypes
  <1>3. Pending(r)' = {} /\ \A i : i \notin DOMAIN IdleRequest.batch
    BY <1>2, ToSetShort DEF Pending, IdleRequest
  <1>4. NothingAbsorbed'
    BY <1>1 DEF ImportInv, NothingAbsorbed, Alarming
  <1>5. \A k \in DOMAIN impRows : Alarming([key |-> k, content |-> impRows[k]]) => OddEvent(k) \in impRaised
    BY DEF ImportInv, OddIsTold
  <1>6. \A s \in Importers : \A x \in ToSet(impReq[s].written) : x.key \notin DOMAIN impRows
    BY DEF ImportInv, WrittenAlone
  <1>7. impAlarms \subseteq impRaised
    BY DEF ImportInv, ImportTypes
  <1> QED
    BY <1>1, <1>3, <1>4, <1>5, <1>6, <1>7, IdleIsRequest, RequestMoves DEF RowsGrow

LEMMA SubmitStep == ASSUME ImportInv, NEW r \in Importers, NEW batch \in Batches, Submit(r, batch) PROVE ImportInv'
  <1>1. PICK new : new = [IdleRequest EXCEPT !.busy = TRUE, !.batch = batch]
    OBVIOUS
  <1>2. /\ impReq' = [impReq EXCEPT ![r] = new]
        /\ UNCHANGED <<impRegister, impRows, impAlarms, impAnswered, impRaised>>
    BY <1>1 DEF Submit
  <1>3. batch \in Seq(ImportItems)
    <2>1. PICK n \in 1 .. (IF Csv(impRegister) THEN MaxRows ELSE 1) : batch \in [1 .. n -> ImportItems]
      BY DEF Batches
    <2>2. n \in Nat
      BY <2>1, RowsAreCounted
    <2> QED
      BY <2>1, <2>2
  <1>4. /\ new \in ImportRequests /\ new.busy = TRUE /\ new.written = <<>> /\ new.adds = <<>> /\ new.done = 0
        /\ new.batch = batch
    <2> DEFINE Items == Seq(ImportItems)
    <2>1. <<>> \in Items /\ batch \in Items
      BY <1>3
    <2>2. NoEvent \in ImportEvents
      BY DEF NoEvent, ImportEvents
    <2> HIDE DEF Items
    <2>3. new = [busy |-> TRUE, batch |-> batch, done |-> 0, adds |-> <<>>, written |-> <<>>,
                 event |-> NoEvent, events |-> {}, gone |-> {}]
      BY <1>1 DEF IdleRequest
    <2>4. new \in [busy : BOOLEAN, batch : Items, done : Nat, adds : Items, written : Items,
                   event : ImportEvents, events : SUBSET ImportEvents, gone : SUBSET ImportKeys]
      BY <2>1, <2>2, <2>3
    <2> QED
      BY <2>3, <2>4 DEF Items, ImportRequests
  <1>5. impReq'[r] = new
    BY <1>2 DEF ImportInv, ImportTypes
  <1>6. Pending(r)' = {} /\ ToSet(new.written) = {}
    BY <1>4, <1>5, ToSetShort DEF Pending
  <1>7. \A i \in DOMAIN new.batch : ~ (i <= new.done)
    BY <1>3, <1>4
  <1>8. NothingAbsorbed'
    BY <1>2 DEF ImportInv, NothingAbsorbed, Alarming
  <1>9. \A k \in DOMAIN impRows : Alarming([key |-> k, content |-> impRows[k]]) => OddEvent(k) \in impRaised
    BY DEF ImportInv, OddIsTold
  <1>10. \A s \in Importers : \A x \in ToSet(impReq[s].written) : x.key \notin DOMAIN impRows
    BY DEF ImportInv, WrittenAlone
  <1>11. impAlarms \subseteq impRaised
    BY DEF ImportInv, ImportTypes
  <1> QED
    BY <1>2, <1>4, <1>6, <1>7, <1>8, <1>9, <1>10, <1>11, RequestMoves DEF RowsGrow

\* A request's fields.
LEMMA RequestFields ==
  ASSUME NEW q \in ImportRequests
  PROVE  /\ q.busy \in BOOLEAN /\ q.batch \in Seq(ImportItems) /\ q.done \in Nat /\ q.adds \in Seq(ImportItems)
         /\ q.written \in Seq(ImportItems) /\ q.event \in ImportEvents /\ q.events \subseteq ImportEvents
         /\ q.gone \subseteq ImportKeys
         /\ \A x \in ToSet(q.written) \cup ToSet(q.adds) \cup ToSet(q.batch) : x \in ImportItems
  <1>1. /\ q.busy \in BOOLEAN /\ q.batch \in Seq(ImportItems) /\ q.done \in Nat /\ q.adds \in Seq(ImportItems)
        /\ q.written \in Seq(ImportItems) /\ q.event \in ImportEvents /\ q.events \subseteq ImportEvents
        /\ q.gone \subseteq ImportKeys
    BY DEF ImportRequests
  <1>2. \A s \in Seq(ImportItems) : \A x \in ToSet(s) : x \in ImportItems
    BY DEF ToSet
  <1> QED
    BY <1>1, <1>2

\* The content of the row a request sees is that of a row that is there.
LEMMA SeenStands ==
  ASSUME ImportTypes, NEW r \in Importers, NEW k \in SeenByRequest(r) PROVE Stands(r, k, ContentSeen(r, k))
  <1>1. CASE k \in DOMAIN impRows
    BY <1>1 DEF Stands, ContentSeen
  <1>2. CASE k \notin DOMAIN impRows
    <2>1. PICK y : y = CHOOSE x \in ToSet(impReq[r].written) : x.key = k
      OBVIOUS
    <2>2. \E x \in ToSet(impReq[r].written) : x.key = k
      BY <1>2 DEF SeenByRequest, KeysOf
    <2>3. y \in ToSet(impReq[r].written) /\ y.key = k
      BY <2>1, <2>2
    <2>4. impReq[r] \in ImportRequests
      BY DEF ImportTypes
    <2>5. y \in ImportItems
      BY <2>3, <2>4, RequestFields
    <2>6. y = [key |-> k, content |-> y.content]
      BY <2>3, <2>5 DEF ImportItems
    <2>7. ContentSeen(r, k) = y.content
      BY <1>2, <2>1 DEF ContentSeen
    <2> QED
      BY <2>3, <2>6, <2>7 DEF Stands
  <1> QED
    BY <1>1, <1>2

\* What recording an item comes to: its row is added unless one is seen, and what must be told is.
LEMMA RecordTells ==
  ASSUME ImportTypes, NEW r \in Importers, NEW x \in ImportItems, NEW what, what = Record(r, x),
         NEW told, told = impAlarms \cup impReq[r].events \cup {what.alarm}
  PROVE  /\ what.adds = <<>> \/ (what.adds = <<x>> /\ x.key \notin SeenByRequest(r))
         /\ x.content # "malformed" /\ x.key \notin SeenByRequest(r) => what.adds = <<x>>
         /\ what.alarm \in ImportEvents
         /\ x.key \notin SeenByRequest(r) /\ Alarming(x) => OddEvent(x.key) \in told
         /\ x.key \in SeenByRequest(r) /\ impRegister = "result" /\ ContentSeen(r, x.key) # x.content
            => ConflictEvent(x.key) \in told
  <1>1. NoEvent \in ImportEvents /\ x.key \in ImportKeys
    BY DEF NoEvent, ImportEvents, ImportItems
  <1>2. OddEvent(x.key) \in ImportEvents /\ ConflictEvent(x.key) \in ImportEvents
    BY <1>1 DEF OddEvent, ConflictEvent, ImportEvents
  <1>3. RowFor(r, x) = <<>> \/ (RowFor(r, x) = <<x>> /\ x.key \notin SeenByRequest(r))
    BY DEF RowFor
  <1>4. x.key \notin SeenByRequest(r) => RowFor(r, x) = <<x>>
    BY DEF RowFor
  <1>5. CASE impRegister = "ticket"
    <2>1. /\ what.adds = IF x.content = "malformed" THEN <<>> ELSE RowFor(r, x)
          /\ what.alarm = NoEvent
      BY <1>5 DEF Record, RecordTicket
    <2> QED
      BY <1>1, <1>3, <1>4, <1>5, <2>1 DEF Alarming
  <1>6. CASE impRegister = "measurement"
    <2>1. what.adds = RowFor(r, x) /\ what.alarm = NoEvent
      BY <1>6 DEF Record, RecordMeasurement
    <2> QED
      BY <1>1, <1>3, <1>4, <1>6, <2>1 DEF Alarming
  <1>7. CASE impRegister \in {"result", "reading"}
    <2>1. what.adds = RowFor(r, x) /\ what.alarm = AlarmFor(r, x)
      BY <1>7 DEF Record, RecordResult, RecordReading
    <2>2. what.alarm \in ImportEvents
      BY <1>1, <1>2, <2>1 DEF AlarmFor, OddEvent, ConflictEvent
    <2>3. ASSUME x.key \notin SeenByRequest(r), Alarming(x) PROVE OddEvent(x.key) \in told
      BY <2>1, <2>3 DEF AlarmFor, OddEvent
    <2>4. ASSUME x.key \in SeenByRequest(r), impRegister = "result", ContentSeen(r, x.key) # x.content
          PROVE  ConflictEvent(x.key) \in told
      BY <2>1, <2>4 DEF AlarmFor, Diverges, ConflictEvent
    <2> QED
      BY <1>3, <1>4, <2>1, <2>2, <2>3, <2>4
  <1> QED
    BY <1>5, <1>6, <1>7 DEF ImportTypes

\* Events have names.
LEMMA EventsAreNamed == \A k : OddEvent(k) # NoEvent /\ ConflictEvent(k) # NoEvent
  BY DEF OddEvent, ConflictEvent, NoEvent

LEMMA NextItemStep == ASSUME ImportInv, NEW r \in Importers, NextItem(r) PROVE ImportInv'
  <1>1. PICK q : q = impReq[r]
    OBVIOUS
  <1>2. q \in ImportRequests /\ impAlarms \subseteq impRaised /\ ImportTypes
    BY <1>1 DEF ImportInv, ImportTypes
  <1>3. /\ q.batch \in Seq(ImportItems) /\ q.done \in Nat /\ q.adds \in Seq(ImportItems) /\ q.written \in Seq(ImportItems)
        /\ q.event \in ImportEvents /\ q.events \subseteq ImportEvents /\ q.gone \subseteq ImportKeys /\ q.busy \in BOOLEAN
    BY <1>2, RequestFields
  <1>4. q.busy /\ q.done < Len(q.batch) /\ q.event = NoEvent
    BY <1>1 DEF NextItem
  <1>5. PICK x : x = q.batch[q.done + 1]
    OBVIOUS
  <1>6. x \in ImportItems /\ q.done + 1 \in DOMAIN q.batch
    BY <1>3, <1>4, <1>5
  <1>7. PICK what : what = Record(r, x)
    OBVIOUS
  <1>8. CASE what.refused
    <2>1. Abort(r)
      BY <1>1, <1>5, <1>7, <1>8 DEF NextItem
    <2> QED
      BY <2>1, AbortStep
  <1>9. CASE ~what.refused
    <2>1. PICK new : new = [q EXCEPT !.done = @ + 1, !.adds = @ \o what.adds, !.event = what.alarm]
      OBVIOUS
    <2>2. /\ impReq' = [impReq EXCEPT ![r] = new]
          /\ UNCHANGED <<impRegister, impRows, impAlarms, impAnswered, impRaised>>
      BY <1>1, <1>5, <1>7, <1>9, <2>1 DEF NextItem
    <2>3. PICK told : told = impAlarms \cup q.events \cup {what.alarm}
      OBVIOUS
    <2>4. /\ what.adds = <<>> \/ (what.adds = <<x>> /\ x.key \notin SeenByRequest(r))
          /\ x.content # "malformed" /\ x.key \notin SeenByRequest(r) => what.adds = <<x>>
          /\ what.alarm \in ImportEvents
          /\ x.key \notin SeenByRequest(r) /\ Alarming(x) => OddEvent(x.key) \in told
          /\ x.key \in SeenByRequest(r) /\ impRegister = "result" /\ ContentSeen(r, x.key) # x.content
             => ConflictEvent(x.key) \in told
      BY <1>1, <1>2, <1>6, <1>7, <2>3, RecordTells
    <2>5. what.adds \in Seq(ImportItems)
      <3>1. \A S : <<>> \in Seq(S) /\ \A z \in S : <<z>> \in Seq(S)
        OBVIOUS
      <3> QED
        BY <1>6, <2>4, <3>1, Zenon
    <2>6. PICK adds : adds = q.adds \o what.adds
      OBVIOUS
    <2>7. adds \in Seq(ImportItems) /\ ToSet(adds) = ToSet(q.adds) \cup ToSet(what.adds)
      BY <1>3, <2>5, <2>6, ToSetConcat
    <2>8. new = [busy |-> q.busy, batch |-> q.batch, done |-> q.done + 1, adds |-> adds, written |-> q.written,
                 event |-> what.alarm, events |-> q.events, gone |-> q.gone]
      BY <1>2, <2>1, <2>6 DEF ImportRequests
    <2>9. new \in ImportRequests
      <3> DEFINE Items == Seq(ImportItems)
      <3>1. q.batch \in Items /\ adds \in Items /\ q.written \in Items
        BY <1>3, <2>7
      <3> HIDE DEF Items
      <3>2. new \in [busy : BOOLEAN, batch : Items, done : Nat, adds : Items, written : Items,
                     event : ImportEvents, events : SUBSET ImportEvents, gone : SUBSET ImportKeys]
        BY <1>3, <2>4, <2>8, <3>1
      <3> QED
        BY <3>2 DEF Items, ImportRequests
    <2>10. impReq'[r] = new
      BY <2>2 DEF ImportInv, ImportTypes
    <2>11. \A e : e # NoEvent /\ Told(r, e) => Told(r, e)'
      BY <1>1, <1>4, <2>2, <2>8, <2>10 DEF Told
    <2>12. \A e \in told : Told(r, e)'
      BY <1>2, <2>2, <2>3, <2>8, <2>10 DEF Told
    <2>13. Pending(r)' = Pending(r) \cup ToSet(what.adds)
      BY <1>1, <2>7, <2>8, <2>10 DEF Pending
    <2>14. \A y : Held(r, y) => Held(r, y)'
      <3>1. \A k, c : Stands(r, k, c) => Stands(r, k, c)'
        BY <1>1, <2>2, <2>8, <2>10 DEF Stands
      <3>2. \A k : Told(r, ConflictEvent(k)) => Told(r, ConflictEvent(k))'
        BY <2>11, EventsAreNamed
      <3> QED
        BY <2>2, <2>13, <3>1, <3>2 DEF Held
    <2>15. x.content # "malformed" => Held(r, x)'
      <3>1. CASE x.key \notin SeenByRequest(r)
        BY <2>4, <2>13, <3>1, ToSetShort DEF Held
      <3>2. CASE x.key \in SeenByRequest(r)
        <4>1. PICK c : c = ContentSeen(r, x.key)
          OBVIOUS
        <4>2. Stands(r, x.key, c)
          BY <1>2, <3>2, <4>1, SeenStands
        <4>3. Stands(r, x.key, c)'
          BY <1>1, <2>2, <2>8, <2>10, <4>2 DEF Stands
        <4>4. impRegister' = "result" /\ c # x.content => Told(r, ConflictEvent(x.key))'
          BY <2>2, <2>4, <2>12, <3>2, <4>1
        <4> QED
          BY <4>3, <4>4 DEF Held
      <3> QED
        BY <3>1, <3>2
    <2>16. \A i \in DOMAIN new.batch :
             i <= new.done /\ new.batch[i].content # "malformed" /\ new.batch[i].key \notin new.gone
             => Held(r, new.batch[i])'
      <3> SUFFICES ASSUME NEW i \in DOMAIN new.batch, i <= new.done, new.batch[i].content # "malformed",
                          new.batch[i].key \notin new.gone
                   PROVE  Held(r, new.batch[i])'
        OBVIOUS
      <3>1. new.batch = q.batch /\ new.done = q.done + 1 /\ new.gone = q.gone
        BY <2>8
      <3>2. i = q.done + 1 \/ i <= q.done
        BY <1>3, <3>1
      <3>3. CASE i = q.done + 1
        BY <1>5, <2>15, <3>1, <3>3
      <3>4. CASE i <= q.done
        BY <1>1, <2>14, <3>1, <3>4 DEF ImportInv, DealtWith
      <3> QED
        BY <3>2, <3>3, <3>4
    <2>17. \A y \in Pending(r)' : Alarming(y) => Told(r, OddEvent(y.key))'
      <3>1. \A y \in ToSet(what.adds) : y = x /\ x.key \notin SeenByRequest(r)
        BY <2>4, ToSetShort
      <3>2. \A y \in Pending(r) : Alarming(y) => Told(r, OddEvent(y.key))'
        BY <2>11, EventsAreNamed DEF ImportInv, OddIsTold
      <3> QED
        BY <2>4, <2>12, <2>13, <3>1, <3>2
    <2>18. NothingAbsorbed'
      BY <2>2 DEF ImportInv, NothingAbsorbed, Alarming
    <2>19. \A k \in DOMAIN impRows' : Alarming([key |-> k, content |-> impRows'[k]]) => OddEvent(k) \in impRaised'
      BY <2>2 DEF ImportInv, OddIsTold
    <2>20. new.written = impReq[r].written /\ new.busy
      BY <1>1, <1>4, <2>8
    <2>21. /\ \A y \in ToSet(new.written) : y.key \notin DOMAIN impRows'
           /\ \A y, z \in ToSet(new.written) : y.key = z.key => y = z
           /\ \A s \in Importers \ {r} : \A y \in ToSet(impReq[s].written) :
                /\ y.key \notin DOMAIN impRows'
                /\ \A z \in ToSet(new.written) : y.key # z.key
      BY <2>2, <2>20 DEF ImportInv, WrittenAlone
    <2>22. RowsGrow /\ impRaised \subseteq impRaised' /\ impRegister' = impRegister /\ impAlarms' \subseteq impRaised'
      BY <1>2, <2>2 DEF RowsGrow
    <2>23. impReq' = [impReq EXCEPT ![r] = new] /\ (new.busy \/ new = IdleRequest)
      BY <2>2, <2>20
    <2> QED
      BY <2>9, <2>16, <2>17, <2>18, <2>19, <2>21, <2>22, <2>23, RequestMoves
  <1> QED
    BY <1>8, <1>9

\* Rows inserted without waiting or colliding are the request's own.
LEMMA InsertedAlone ==
  ASSUME ImportInv, NEW r \in Importers, ~RowsWait(r), ~RowsCollide(r)
  PROVE  /\ \A x \in Pending(r) : x \in ImportItems /\ x.key \notin DOMAIN impRows
         /\ \A x, y \in Pending(r) : x.key = y.key => x = y
         /\ \A s \in Importers \ {r} : \A x \in ToSet(impReq[s].written) : \A y \in Pending(r) : x.key # y.key
  <1>1. PICK q \in ImportRequests : q = impReq[r]
    BY DEF ImportInv, ImportTypes
  <1>2. \A x \in Pending(r) : x \in ImportItems
    BY <1>1, RequestFields DEF Pending
  <1>3. \A x \in ToSet(q.adds) : x.key \in KeysOf(q.adds)
    BY DEF KeysOf
  <1>4. \A x \in ToSet(q.written) : x.key \in KeysOf(q.written)
    BY DEF KeysOf
  <1>5. \A x \in ToSet(q.adds) : x.key \notin DOMAIN impRows /\ x.key \notin KeysOf(q.written)
    BY <1>1, <1>3 DEF RowsCollide, SeenByRequest
  <1>6. \A x, y \in ToSet(q.adds) : x.key = y.key => x = y
    <2>1. q.adds \in Seq(ImportItems) /\ ~ (Cardinality(KeysOf(q.adds)) < Len(q.adds))
      BY <1>1, RequestFields DEF RowsCollide
    <2> QED
      BY <2>1, KeysDiffer
  <1>7. ASSUME NEW s \in Importers \ {r}, NEW x \in ToSet(impReq[s].written), NEW y \in ToSet(q.adds)
        PROVE  x.key # y.key
    <2>1. impReq[s].busy
      BY <1>7, IdleIsRequest DEF ImportInv, ImportTypes
    <2>2. KeysOf(q.adds) \cap KeysOf(impReq[s].written) = {}
      BY <1>1, <2>1 DEF RowsWait, Others
    <2>3. x.key \in KeysOf(impReq[s].written)
      BY DEF KeysOf
    <2> QED
      BY <1>3, <2>2, <2>3
  <1>8. /\ \A x \in ToSet(q.written) : x.key \notin DOMAIN impRows
        /\ \A x, y \in ToSet(q.written) : x.key = y.key => x = y
        /\ \A s \in Importers \ {r} : \A x \in ToSet(impReq[s].written), y \in ToSet(q.written) : x.key # y.key
    BY <1>1 DEF ImportInv, WrittenAlone
  <1>9. Pending(r) = ToSet(q.written) \cup ToSet(q.adds)
    BY <1>1 DEF Pending
  <1> QED
    BY <1>2, <1>4, <1>5, <1>6, <1>7, <1>8, <1>9

LEMMA PersistStep == ASSUME ImportInv, NEW r \in Importers, PersistDeduped(r) PROVE ImportInv'
  <1>1. PICK q : q = impReq[r]
    OBVIOUS
  <1>2. q \in ImportRequests /\ impAlarms \subseteq impRaised /\ (q.busy \/ q = IdleRequest)
    BY <1>1 DEF ImportInv, ImportTypes
  <1>3. /\ q.batch \in Seq(ImportItems) /\ q.done \in Nat /\ q.adds \in Seq(ImportItems) /\ q.written \in Seq(ImportItems)
        /\ q.event \in ImportEvents /\ q.events \subseteq ImportEvents /\ q.gone \subseteq ImportKeys /\ q.busy \in BOOLEAN
    BY <1>2, RequestFields
  <1>4. q.event # NoEvent /\ ~RowsWait(r)
    BY <1>1 DEF PersistDeduped
  <1>5. CASE RowsCollide(r)
    <2>1. Abort(r)
      BY <1>5 DEF PersistDeduped
    <2> QED
      BY <2>1, AbortStep
  <1>6. CASE ~RowsCollide(r)
    <2>1. PICK events : events = IF EventTaken(r, q.event) THEN q.events ELSE q.events \cup {q.event}
      OBVIOUS
    <2>2. PICK new : new = [q EXCEPT !.written = @ \o q.adds, !.adds = <<>>, !.event = NoEvent, !.events = events]
      OBVIOUS
    <2>3. /\ impReq' = [impReq EXCEPT ![r] = new]
          /\ UNCHANGED <<impRegister, impRows, impAlarms, impAnswered, impRaised>>
      BY <1>1, <1>6, <2>1, <2>2 DEF PersistDeduped
    <2>4. PICK written : written = q.written \o q.adds
      OBVIOUS
    <2>5. written \in Seq(ImportItems) /\ ToSet(written) = ToSet(q.written) \cup ToSet(q.adds)
      BY <1>3, <2>4, ToSetConcat
    <2>6. new = [busy |-> q.busy, batch |-> q.batch, done |-> q.done, adds |-> <<>>, written |-> written,
                 event |-> NoEvent, events |-> events, gone |-> q.gone]
      BY <1>2, <2>2, <2>4 DEF ImportRequests
    <2>7. new \in ImportRequests
      <3> DEFINE Items == Seq(ImportItems)
      <3>1. q.batch \in Items /\ <<>> \in Items /\ written \in Items
        BY <1>3, <2>5
      <3>2. NoEvent \in ImportEvents /\ events \subseteq ImportEvents
        BY <1>3, <2>1 DEF NoEvent, ImportEvents
      <3> HIDE DEF Items
      <3>3. new \in [busy : BOOLEAN, batch : Items, done : Nat, adds : Items, written : Items,
                     event : ImportEvents, events : SUBSET ImportEvents, gone : SUBSET ImportKeys]
        BY <1>3, <2>6, <3>1, <3>2
      <3> QED
        BY <3>3 DEF Items, ImportRequests
    <2>8. impReq'[r] = new
      BY <2>3 DEF ImportInv, ImportTypes
    <2>9. \A e : Told(r, e) => Told(r, e)'
      <3>1. q.events \subseteq events /\ q.event \in impRaised \cup events
        BY <1>2, <2>1 DEF EventTaken
      <3> QED
        BY <1>1, <2>3, <2>6, <2>8, <3>1 DEF Told
    <2>10. Pending(r)' = Pending(r) /\ ToSet(new.written) = Pending(r)
      BY <1>1, <2>5, <2>6, <2>8, ToSetShort DEF Pending
    <2>11. \A y : Held(r, y) => Held(r, y)'
      <3>1. \A k, c : Stands(r, k, c) => Stands(r, k, c)'
        BY <1>1, <2>3, <2>8, <2>10 DEF Stands, Pending
      <3> QED
        BY <2>3, <2>9, <2>10, <3>1 DEF Held, ConflictEvent
    <2>12. \A i \in DOMAIN new.batch :
             i <= new.done /\ new.batch[i].content # "malformed" /\ new.batch[i].key \notin new.gone
             => Held(r, new.batch[i])'
      <3>1. new.batch = q.batch /\ new.done = q.done /\ new.gone = q.gone
        BY <2>6
      <3> QED
        BY <1>1, <2>11, <3>1 DEF ImportInv, DealtWith
    <2>13. \A y \in Pending(r)' : Alarming(y) => Told(r, OddEvent(y.key))'
      BY <2>9, <2>10 DEF ImportInv, OddIsTold
    <2>14. NothingAbsorbed'
      BY <2>3 DEF ImportInv, NothingAbsorbed, Alarming
    <2>15. \A k \in DOMAIN impRows' : Alarming([key |-> k, content |-> impRows'[k]]) => OddEvent(k) \in impRaised'
      BY <2>3 DEF ImportInv, OddIsTold
    <2>16. /\ \A y \in ToSet(new.written) : y.key \notin DOMAIN impRows'
           /\ \A y, z \in ToSet(new.written) : y.key = z.key => y = z
           /\ \A s \in Importers \ {r} : \A y \in ToSet(impReq[s].written) :
                /\ y.key \notin DOMAIN impRows'
                /\ \A z \in ToSet(new.written) : y.key # z.key
      <3>1. \A s \in Importers : \A y \in ToSet(impReq[s].written) : y.key \notin DOMAIN impRows
        BY DEF ImportInv, WrittenAlone
      <3> QED
        BY <1>4, <1>6, <2>3, <2>10, <3>1, InsertedAlone
    <2>17. RowsGrow /\ impRaised \subseteq impRaised' /\ impRegister' = impRegister /\ impAlarms' \subseteq impRaised'
      BY <1>2, <2>3 DEF RowsGrow
    <2>18. impReq' = [impReq EXCEPT ![r] = new] /\ (new.busy \/ new = IdleRequest)
      BY <1>2, <1>4, <2>3, <2>6 DEF IdleRequest
    <2> QED
      BY <2>7, <2>12, <2>13, <2>14, <2>15, <2>16, <2>17, <2>18, RequestMoves
  <1> QED
    BY <1>5, <1>6

LEMMA CommitStep == ASSUME ImportInv, NEW r \in Importers, CommitImport(r) PROVE ImportInv'
  <1>1. PICK q : q = impReq[r]
    OBVIOUS
  <1>2. q \in ImportRequests /\ impAlarms \subseteq impRaised
    BY <1>1 DEF ImportInv, ImportTypes
  <1>3. /\ q.batch \in Seq(ImportItems) /\ q.done \in Nat /\ q.adds \in Seq(ImportItems) /\ q.written \in Seq(ImportItems)
    BY <1>2, RequestFields
  <1>4. q.done = Len(q.batch) /\ q.event = NoEvent /\ ~RowsWait(r)
    BY <1>1 DEF CommitImport
  <1>5. CASE RowsCollide(r)
    <2>1. Abort(r)
      BY <1>5 DEF CommitImport
    <2> QED
      BY <2>1, AbortStep
  <1>6. CASE ~RowsCollide(r)
    <2>1. PICK new : new = ToSet(q.written \o q.adds)
      OBVIOUS
    <2>2. new = Pending(r)
      BY <1>1, <1>3, <2>1, ToSetConcat DEF Pending
    <2>3. /\ impRows' = [k \in DOMAIN impRows \cup {x.key : x \in new} |->
                           IF k \in DOMAIN impRows THEN impRows[k] ELSE (CHOOSE x \in new : x.key = k).content]
          /\ impAlarms' = impAlarms \cup q.events /\ impRaised' = impRaised \cup q.events
          /\ impAnswered' = impAnswered \cup {x \in ToSet(q.batch) : x.content # "malformed" /\ x.key \notin q.gone}
          /\ impReq' = [impReq EXCEPT ![r] = IdleRequest] /\ impRegister' = impRegister
      BY <1>1, <1>6, <2>1 DEF CommitImport, EndRequest
    <2>4. /\ \A x \in new : x \in ImportItems /\ x.key \notin DOMAIN impRows
          /\ \A x, y \in new : x.key = y.key => x = y
          /\ \A s \in Importers \ {r} : \A x \in ToSet(impReq[s].written) : \A y \in new : x.key # y.key
      BY <1>4, <1>6, <2>2, InsertedAlone
    <2>5. DOMAIN impRows' = DOMAIN impRows \cup {x.key : x \in new}
      BY <2>3
    <2>6. RowsGrow
      BY <2>3 DEF RowsGrow
    <2>7. ASSUME NEW x \in new PROVE x.key \in DOMAIN impRows' /\ impRows'[x.key] = x.content
      <3>1. PICK y : y = CHOOSE z \in new : z.key = x.key
        OBVIOUS
      <3>2. y \in new /\ y.key = x.key
        BY <3>1
      <3>3. y = x
        BY <2>4, <3>2
      <3>4. x.key \in DOMAIN impRows' /\ x.key \notin DOMAIN impRows
        BY <2>4, <2>5
      <3>5. impRows'[x.key] = y.content
        BY <2>3, <3>1, <3>4
      <3> QED
        BY <3>3, <3>4, <3>5
    <2>8. \A e : e # NoEvent /\ Told(r, e) => e \in impRaised'
      BY <1>1, <1>4, <2>3 DEF Told
    <2>9. \A k \in DOMAIN impRows' : Alarming([key |-> k, content |-> impRows'[k]]) => OddEvent(k) \in impRaised'
      <3> SUFFICES ASSUME NEW k \in DOMAIN impRows', Alarming([key |-> k, content |-> impRows'[k]])
                   PROVE  OddEvent(k) \in impRaised'
        OBVIOUS
      <3>1. CASE k \in DOMAIN impRows
        BY <2>3, <2>6, <3>1 DEF ImportInv, OddIsTold, RowsGrow
      <3>2. CASE k \notin DOMAIN impRows
        <4>1. PICK x \in new : x.key = k
          BY <2>5, <3>2
        <4>2. impRows'[k] = x.content /\ x = [key |-> k, content |-> x.content]
          BY <2>4, <2>7, <4>1 DEF ImportItems
        <4>3. Told(r, OddEvent(k))
          BY <2>2, <4>1, <4>2 DEF ImportInv, OddIsTold
        <4> QED
          BY <2>8, <4>3, EventsAreNamed
      <3> QED
        BY <3>1, <3>2
    <2>10. NothingAbsorbed'
      <3>1. \A x \in impAnswered' : /\ x.key \in DOMAIN impRows'
                                    /\ impRegister = "result" /\ impRows'[x.key] # x.content
                                         => ConflictEvent(x.key) \in impRaised'
        <4> TAKE x \in impAnswered'
        <4>1. CASE x \in impAnswered
          BY <2>3, <2>6, <4>1 DEF ImportInv, NothingAbsorbed, RowsGrow, ConflictEvent
        <4>2. CASE x \notin impAnswered
          <5>1. x \in ToSet(q.batch) /\ x.content # "malformed" /\ x.key \notin q.gone
            BY <2>3, <4>2
          <5>2. PICK i \in DOMAIN q.batch : x = q.batch[i]
            BY <5>1 DEF ToSet
          <5>3. i <= q.done
            BY <1>3, <1>4, <5>2
          <5>4. Held(r, x)
            BY <1>1, <5>1, <5>2, <5>3 DEF ImportInv, DealtWith
          <5>5. CASE x \in Pending(r)
            BY <2>2, <2>7, <5>5
          <5>6. CASE x \notin Pending(r)
            <6>1. PICK c : /\ Stands(r, x.key, c)
                           /\ impRegister = "result" /\ c # x.content => Told(r, ConflictEvent(x.key))
              BY <5>4, <5>6 DEF Held
            <6>2. x.key \in DOMAIN impRows' /\ impRows'[x.key] = c
              <7>1. CASE x.key \in DOMAIN impRows /\ impRows[x.key] = c
                BY <2>6, <7>1 DEF RowsGrow
              <7>2. CASE [key |-> x.key, content |-> c] \in ToSet(impReq[r].written)
                <8>1. PICK y \in new : y = [key |-> x.key, content |-> c]
                  BY <2>2, <7>2 DEF Pending
                <8>2. y.key = x.key /\ y.content = c
                  BY <8>1
                <8> QED
                  BY <2>7, <8>2
              <7> QED
                BY <6>1, <7>1, <7>2 DEF Stands
            <6> QED
              BY <2>8, <6>1, <6>2, EventsAreNamed
          <5> QED
            BY <5>5, <5>6
        <4> QED
          BY <4>1, <4>2
      <3>2. \A k, c : Alarming([key |-> k, content |-> c])' <=> Alarming([key |-> k, content |-> c])
        BY <2>3 DEF Alarming
      <3>3. ASSUME NEW x \in impAnswered', NEW c, c = impRows'[x.key], Alarming([key |-> x.key, content |-> c])'
            PROVE  OddEvent(x.key) \in impRaised'
        <4>1. x.key \in DOMAIN impRows'
          BY <3>1
        <4>2. Alarming([key |-> x.key, content |-> c])
          BY <3>2, <3>3
        <4> QED
          BY <2>9, <3>3, <4>1, <4>2
      <3>4. \A x \in impAnswered' : /\ x.key \in DOMAIN impRows'
                                    /\ impRegister' = "result" /\ impRows'[x.key] # x.content
                                         => ConflictEvent(x.key) \in impRaised'
        <4>1. impRegister' = impRegister
          BY <2>3
        <4> QED
          BY <3>1, <4>1
      <3> QED
        BY <3>3, <3>4 DEF NothingAbsorbed, ConflictEvent, OddEvent
    <2>11. impReq'[r] = IdleRequest
      BY <2>3 DEF ImportInv, ImportTypes
    <2>12. Pending(r)' = {} /\ \A i : i \notin DOMAIN IdleRequest.batch
      BY <2>11, ToSetShort DEF Pending, IdleRequest
    <2>13. \A s \in Importers \ {r} : \A x \in ToSet(impReq[s].written) : x.key \notin DOMAIN impRows'
      <3>1. \A s \in Importers : \A x \in ToSet(impReq[s].written) : x.key \notin DOMAIN impRows
        BY DEF ImportInv, WrittenAlone
      <3> QED
        BY <2>4, <2>5, <3>1
    <2>14. impRaised \subseteq impRaised' /\ impAlarms' \subseteq impRaised' /\ impRegister' = impRegister
      BY <1>2, <2>3
    <2>15. impReq' = [impReq EXCEPT ![r] = IdleRequest]
      BY <2>3
    <2> QED
      BY <2>6, <2>9, <2>10, <2>12, <2>13, <2>14, <2>15, IdleIsRequest, RequestMoves
  <1> QED
    BY <1>5, <1>6

\* Retention deletes a record: every running request knows that its key is gone.
LEMMA PurgeRecordStep == ASSUME ImportInv, NEW k \in ImportKeys, PurgeRecord(k) PROVE ImportInv'
  <1>1. /\ impRows' = Restrict(impRows, DOMAIN impRows \ {k}) /\ impAnswered' = {x \in impAnswered : x.key # k}
        /\ UNCHANGED <<impRegister, impAlarms, impRaised>>
        /\ impReq' = [r \in Importers |-> IF impReq[r].busy THEN [impReq[r] EXCEPT !.gone = @ \cup {k}] ELSE impReq[r]]
    BY DEF PurgeRecord
  <1>2. /\ DOMAIN impRows' = DOMAIN impRows \ {k}
        /\ \A j \in DOMAIN impRows' : impRows'[j] = impRows[j]
    BY <1>1 DEF Restrict
  <1>3. ASSUME NEW r \in Importers
        PROVE  /\ impReq'[r] \in ImportRequests /\ (impReq'[r].busy \/ impReq'[r] = IdleRequest)
               /\ impReq'[r].batch = impReq[r].batch /\ impReq'[r].done = impReq[r].done
               /\ impReq'[r].adds = impReq[r].adds /\ impReq'[r].written = impReq[r].written
               /\ impReq'[r].event = impReq[r].event /\ impReq'[r].events = impReq[r].events
               /\ (impReq'[r].gone = impReq[r].gone \cup {k} \/ impReq[r] = IdleRequest)
               /\ impReq[r].gone \subseteq impReq'[r].gone
    <2>1. PICK q \in ImportRequests : q = impReq[r]
      BY DEF ImportInv, ImportTypes
    <2>2. q.gone \cup {k} \subseteq ImportKeys
      BY <2>1, RequestFields
    <2>3. CASE q.busy
      <3>1. impReq'[r] = [q EXCEPT !.gone = q.gone \cup {k}]
        BY <1>1, <2>1, <2>3
      <3>2. PICK new : new = impReq'[r]
        OBVIOUS
      <3>3. /\ new.busy = q.busy /\ new.batch = q.batch /\ new.done = q.done /\ new.adds = q.adds
            /\ new.written = q.written /\ new.event = q.event /\ new.events = q.events
            /\ new.gone = q.gone \cup {k}
        BY <2>1, <3>1, <3>2 DEF ImportRequests
      <3>4. new \in ImportRequests
        <4> DEFINE Items == Seq(ImportItems)
                   Shapes == [busy : BOOLEAN, batch : Items, done : Nat, adds : Items, written : Items,
                                 event : ImportEvents, events : SUBSET ImportEvents, gone : SUBSET ImportKeys]
        <4>1. Shapes = ImportRequests
          BY DEF ImportRequests
        <4> HIDE DEF Items
        <4>2. q \in Shapes
          BY <2>1, <4>1
        <4>3. [q EXCEPT !.gone = q.gone \cup {k}] \in Shapes
          BY <2>2, <4>2
        <4> QED
          BY <3>1, <3>2, <4>1, <4>3
      <3> QED
        BY <2>1, <2>3, <3>2, <3>3, <3>4
    <2>4. CASE ~q.busy
      <3>1. impReq'[r] = q /\ q = IdleRequest
        BY <1>1, <2>1, <2>4 DEF ImportInv, ImportTypes
      <3> QED
        BY <2>1, <3>1
    <2> QED
      BY <2>3, <2>4
  <1>4. ImportTypes'
    <2>1. impReq' \in [Importers -> ImportRequests]
      BY <1>1, <1>3
    <2> QED
      BY <1>1, <1>3, <2>1 DEF ImportInv, ImportTypes, IdleRequest, NoEvent
  <1>5. WrittenAlone'
    BY <1>2, <1>3 DEF ImportInv, WrittenAlone
  <1>6. \A r \in Importers : /\ Pending(r)' = Pending(r)
                             /\ \A e : Told(r, e) => Told(r, e)'
    BY <1>1, <1>3 DEF Pending, Told
  <1>7. \A x : Alarming(x)' <=> Alarming(x)
    BY <1>1 DEF Alarming
  <1>8. OddIsTold'
    BY <1>1, <1>2, <1>6, <1>7 DEF ImportInv, OddIsTold, OddEvent
  <1>9. DealtWith'
    <2>1. ASSUME NEW r \in Importers, NEW x, x.key # k, Held(r, x) PROVE Held(r, x)'
      <3>1. \A c : Stands(r, x.key, c) => Stands(r, x.key, c)'
        BY <1>2, <1>3, <2>1 DEF Stands
      <3> QED
        BY <1>1, <1>6, <2>1, <3>1 DEF Held, ConflictEvent
    <2>2. ASSUME NEW r \in Importers, NEW q, q = impReq'[r], NEW i \in DOMAIN q.batch, i <= q.done,
                 q.batch[i].content # "malformed", q.batch[i].key \notin q.gone
          PROVE  Held(r, q.batch[i])'
      <3>1. impReq[r] # IdleRequest
        BY <1>3, <2>2 DEF IdleRequest
      <3>2. q.batch[i].key # k /\ q.batch[i].key \notin impReq[r].gone
        BY <1>3, <2>2, <3>1
      <3>3. Held(r, q.batch[i])
        BY <1>3, <2>2, <3>2 DEF ImportInv, DealtWith
      <3> QED
        BY <2>1, <3>2, <3>3
    <2> QED
      BY <2>2 DEF DealtWith
  <1>10. NothingAbsorbed'
    BY <1>1, <1>2, <1>7 DEF ImportInv, NothingAbsorbed
  <1> QED
    BY <1>4, <1>5, <1>8, <1>9, <1>10 DEF ImportInv

LEMMA ImportInitInv == ImportInit => ImportInv
  <1> SUFFICES ASSUME ImportInit PROVE ImportInv
    OBVIOUS
  <1>1. /\ impReq = [r \in Importers |-> IdleRequest] /\ DOMAIN impRows = {} /\ impAlarms = {} /\ impAnswered = {}
        /\ impRegister \in {"ticket", "measurement", "result", "reading"}
    BY DEF ImportInit
  <1>2. ImportTypes
    BY <1>1, IdleIsRequest DEF ImportTypes
  <1>3. \A r \in Importers : ToSet(impReq[r].written) = {} /\ Pending(r) = {}
    BY <1>1, IdleIsRequest, ToSetShort DEF Pending, IdleRequest
  <1>4. \A r \in Importers : \A i : i \notin DOMAIN impReq[r].batch
    BY <1>1 DEF IdleRequest
  <1> QED
    BY <1>1, <1>2, <1>3, <1>4 DEF ImportInv, WrittenAlone, OddIsTold, DealtWith, NothingAbsorbed

LEMMA ImportStepInv == ImportInv /\ [ImportNext]_impVars => ImportInv'
  <1> SUFFICES ASSUME ImportInv, [ImportNext]_impVars PROVE ImportInv'
    OBVIOUS
  <1>1. ASSUME NEW r \in Importers,
               \/ \E batch \in Batches : Submit(r, batch)
               \/ NextItem(r) \/ PersistDeduped(r) \/ CommitImport(r) \/ RequestDies(r)
        PROVE  ImportInv'
    BY <1>1, SubmitStep, NextItemStep, PersistStep, CommitStep, AbortStep DEF RequestDies
  <1>2. ASSUME NEW k \in ImportKeys, PurgeRecord(k) PROVE ImportInv'
    BY <1>2, PurgeRecordStep
  <1>3. CASE (\E e \in impAlarms : PurgeAlarm(e)) \/ UNCHANGED impVars
    <2>1. impAlarms' \subseteq impAlarms /\ UNCHANGED <<impRegister, impRows, impReq, impAnswered, impRaised>>
      BY <1>3 DEF PurgeAlarm, impVars
    <2>2. ImportTypes' /\ WrittenAlone'
      BY <2>1 DEF ImportInv, ImportTypes, WrittenAlone, IdleRequest, NoEvent
    <2>3. /\ \A r, e : Told(r, e)' <=> Told(r, e)
          /\ \A r : Pending(r)' = Pending(r)
          /\ \A r, x : Held(r, x)' <=> Held(r, x)
          /\ \A x : Alarming(x)' <=> Alarming(x)
      BY <2>1 DEF Told, Pending, Held, Stands, Alarming, ConflictEvent
    <2>4. OddIsTold' /\ DealtWith' /\ NothingAbsorbed'
      BY <2>1, <2>3 DEF ImportInv, OddIsTold, DealtWith, NothingAbsorbed, OddEvent
    <2> QED
      BY <2>2, <2>4 DEF ImportInv
  <1> QED
    BY <1>1, <1>2, <1>3 DEF ImportNext

\* record_result, record_reading, import_csv and _persist_deduped: nothing answered is absorbed in
\* silence, for any registers, keys, batches and number of requests that race, collide and die.
THEOREM ImportsAbsorbNothing == ImportSpec => []NothingAbsorbed
  <1>1. ImportInv => NothingAbsorbed
    BY DEF ImportInv
  <1> QED
    BY <1>1, ImportInitInv, ImportStepInv, PTL DEF ImportSpec

-----------------------------------------------------------------------------
(* Numbers. *)

\* A set of natural numbers has a least one.
LEMMA LeastNat == ASSUME NEW T, T \subseteq Nat, T # {} PROVE \E x \in T : \A y \in T : x <= y
  <1>1. PICK x \in T : \A y \in T : ~ (<<y, x>> \in OpToRel(<, Nat))
    BY NatLessThanWellFounded, WFMin, Zenon
  <1>2. ASSUME NEW y \in T PROVE x <= y
    <2>1. ~ (<<y, x>> \in OpToRel(<, Nat))
      BY <1>1
    <2>2. x \in Nat /\ y \in Nat
      OBVIOUS
    <2>3. ~ (y < x)
      BY <2>1, <2>2 DEF OpToRel
    <2> QED
      BY <2>2, <2>3
  <1> QED
    BY <1>2

\* A set of integers with an upper bound has a greatest one, and Max is it.
LEMMA GreatestInt ==
  ASSUME NEW S, S \subseteq Int, S # {}, NEW N \in Int, \A s \in S : s <= N
  PROVE  Max(S) \in S /\ Max(S) \in Int /\ \A y \in S : y <= Max(S)
  <1> DEFINE T == {N - s : s \in S}
  <1>1. T \subseteq Nat /\ T # {}
    <2>1. \A s \in S : N - s \in Nat
      OBVIOUS
    <2> QED
      BY <2>1
  <1>2. PICK x \in T : \A y \in T : x <= y
    BY <1>1, LeastNat
  <1>3. PICK m \in S : x = N - m
    OBVIOUS
  <1>4. ASSUME NEW y \in S PROVE m >= y
    <2>1. N - y \in T
      OBVIOUS
    <2>2. N - m <= N - y
      BY <1>2, <1>3, <2>1
    <2>3. m \in Int /\ y \in Int
      OBVIOUS
    <2> QED
      BY <2>2, <2>3
  <1>5. \E z \in S : \A y \in S : z >= y
    BY <1>4
  <1>6. Max(S) \in S /\ \A y \in S : Max(S) >= y
    BY <1>5 DEF Max
  <1> QED
    BY <1>6

\* The two ends of a pair.
LEMMA PairEnds == ASSUME NEW a \in Int, NEW b \in Int
                  PROVE  Max({a, b}) \in {a, b} /\ Min({a, b}) \in {a, b} /\ Min({a, b}) <= b
  <1>1. \E x \in {a, b} : \A y \in {a, b} : x >= y
    BY a >= b \/ b >= a
  <1>2. \E x \in {a, b} : \A y \in {a, b} : x <= y
    BY a >= b \/ b >= a
  <1> QED
    BY <1>1, <1>2 DEF Max, Min

-----------------------------------------------------------------------------
(* Work orders and health (Upkeep).                                        *)

OrderRows == [type : {"service", "repair"}, status : {"open", "done"}, closed : Int]
DoneRows == [type : {"service", "repair", "none"}, asked : Int, done : Int]
UpkeepRequests == [order : WorkOrders \cup {"none"}, at : Int]

UpkeepTypes ==
  /\ upClock \in Nat /\ upPlan \in Nat
  /\ upOrder \in [WorkOrders -> OrderRows \cup {NoOrder}] /\ upDone \in [WorkOrders -> DoneRows]
  /\ upRequest \in [Mechanics -> UpkeepRequests]

\* An order that is open was never completed; one that was completed and is still there says so,
\* with a time between the first it was asked for and the time it was done.
OrderSound(o) ==
  /\ upOrder[o].status = "open" => upDone[o].done = NeverServiced /\ upOrder[o].closed = NeverServiced
  /\ upOrder[o].status = "done" =>
       /\ upDone[o].type = upOrder[o].type /\ upDone[o].done \in Nat
       /\ upDone[o].asked <= upOrder[o].closed /\ upOrder[o].closed <= upDone[o].done
  /\ upDone[o].done = NeverServiced => upDone[o].type = "none"
  /\ upDone[o].done # NeverServiced => upDone[o].asked \in Nat /\ upDone[o].done <= upClock
                                       /\ upDone[o].asked <= upDone[o].done

\* A request in flight is of this tick or the last; the order it read was completed, if at all,
\* no earlier than it read it.
InFlight(m) ==
  upRequest[m] # NoUpkeepRequest =>
    /\ upRequest[m].order \in WorkOrders /\ upRequest[m].at \in Nat
    /\ upRequest[m].at <= upClock /\ upClock <= upRequest[m].at + 1
    /\ upOrder[upRequest[m].order] # NoOrder \/ upDone[upRequest[m].order].done # NeverServiced
    /\ upDone[upRequest[m].order].done # NeverServiced => upRequest[m].at <= upDone[upRequest[m].order].done

\* A service that retention deleted is succeeded by one that stays no earlier, whichever of its
\* completions commits last.
Succeeds(o, p) ==
  /\ o \in Services /\ upDone[p].asked <= upOrder[o].closed
  /\ \A m \in Mechanics : upRequest[m] # NoUpkeepRequest /\ upRequest[m].order = o
                          => upDone[p].asked <= upRequest[m].at

UpkeepInv ==
  /\ UpkeepTypes
  /\ \A o \in WorkOrders : OrderSound(o)
  /\ \A m \in Mechanics : InFlight(m)
  /\ \A p \in WorkOrders : upDone[p].type = "service" => p \in Services \/ \E o \in WorkOrders : Succeeds(o, p)

LEMMA OrdersAreKept == KeepOrders \in Nat /\ ServiceDays \subseteq Nat \ {0}
  BY UpkeepAssumption

\* Rows are not the absence of one.
LEMMA OrdersAreRows == NoOrder \notin OrderRows /\ NoOrder.status = "none" /\ NoOrder.type = "none"
                       /\ NoOrder.closed = NeverServiced
  BY DEF NoOrder, OrderRows

\* The latest service is one of them, and none is later.
LEMMA LatestIsOne ==
  ASSUME UpkeepInv, Services # {}
  PROVE  /\ \E o \in Services : upOrder[o].closed = LatestClosed
         /\ LatestClosed \in Nat
         /\ \A o \in Services : upOrder[o].closed \in Nat /\ upOrder[o].closed <= LatestClosed
  <1> DEFINE times == {upOrder[o].closed : o \in Services} \cup {NeverServiced}
  <1>1. upClock \in Nat
    BY DEF UpkeepInv, UpkeepTypes
  <1>2. ASSUME NEW o \in Services PROVE upOrder[o].closed \in Nat /\ upOrder[o].closed <= upClock
    <2>1. o \in WorkOrders /\ upOrder[o].status = "done"
      BY DEF Services
    <2>2. upOrder[o].closed \in Int /\ upDone[o].done \in Int
      BY <2>1 DEF UpkeepInv, UpkeepTypes, OrderRows, DoneRows, NoOrder, NeverServiced
    <2>3. /\ upDone[o].done \in Nat /\ upDone[o].asked <= upOrder[o].closed
          /\ upOrder[o].closed <= upDone[o].done
      BY <2>1 DEF UpkeepInv, OrderSound
    <2>4. upDone[o].asked \in Nat /\ upDone[o].done <= upClock
      BY <2>1, <2>3 DEF UpkeepInv, OrderSound, NeverServiced
    <2> QED
      BY <1>1, <2>2, <2>3, <2>4
  <1>3. times \subseteq Int /\ times # {} /\ \A s \in times : s <= upClock
    BY <1>1, <1>2 DEF NeverServiced
  <1>4. LatestClosed = Max(times)
    BY DEF LatestClosed
  <1>5. LatestClosed \in times /\ \A s \in times : s <= LatestClosed
    <2> HIDE DEF times
    <2>1. upClock \in Int
      BY <1>1
    <2>2. Max(times) \in times /\ \A s \in times : s <= Max(times)
      BY <1>3, <2>1, GreatestInt
    <2> QED
      BY <1>4, <2>2
  <1>6. PICK x \in Services : TRUE
    OBVIOUS
  <1>7. upOrder[x].closed \in times /\ upOrder[x].closed \in Nat
    BY <1>2, <1>6
  <1>8. LatestClosed # NeverServiced
    <2> HIDE DEF times
    <2>1. upOrder[x].closed <= LatestClosed
      BY <1>5, <1>7
    <2> QED
      BY <1>7, <2>1 DEF NeverServiced
  <1>9. \A o \in Services : upOrder[o].closed <= LatestClosed
    BY <1>5
  <1> QED
    BY <1>2, <1>5, <1>8, <1>9

\* The baseline lies between the last service asked for and the last done.
LEMMA BaselineTold == ASSUME UpkeepInv PROVE HealthTellsService
  <1> DEFINE served == {o \in WorkOrders : upDone[o].type = "service"}
             asks == {upDone[o].asked : o \in served}
             dones == {upDone[o].done : o \in served}
             from == IF served = {} THEN {upPlanned} ELSE Max(asks) .. Max(dones)
  <1>1. Services \subseteq served
    BY DEF UpkeepInv, OrderSound, Services
  <1>2. Baseline \in from
    <2>1. CASE served = {}
      BY <1>1, <2>1 DEF Baseline
    <2>2. CASE served # {}
      <3>1. Services # {}
        BY <2>2 DEF UpkeepInv, Succeeds
      <3>2. Baseline = LatestClosed
        BY <3>1 DEF Baseline
      <3>3. upClock \in Int
        BY DEF UpkeepInv, UpkeepTypes
      <3>4. ASSUME NEW o \in served
            PROVE  /\ upDone[o].asked \in Int /\ upDone[o].done \in Int
                   /\ upDone[o].asked <= upClock /\ upDone[o].done <= upClock
        <4>1. upDone[o].done # NeverServiced
          BY DEF UpkeepInv, OrderSound
        <4>2. upDone[o].done \in Int /\ upDone[o].asked \in Int
          BY DEF UpkeepInv, UpkeepTypes, DoneRows
        <4>3. upDone[o].done <= upClock /\ upDone[o].asked <= upDone[o].done
          BY <4>1 DEF UpkeepInv, OrderSound
        <4> QED
          BY <3>3, <4>2, <4>3
      <3>5. asks \subseteq Int /\ asks # {} /\ dones \subseteq Int /\ dones # {}
        BY <2>2, <3>4
      <3>6. (\A s \in asks : s <= upClock) /\ \A s \in dones : s <= upClock
        BY <3>4
      <3>7. Max(asks) \in asks /\ Max(asks) \in Int /\ Max(dones) \in Int /\ \A s \in dones : s <= Max(dones)
        <4> HIDE DEF asks, dones
        <4> QED
          BY <3>3, <3>5, <3>6, GreatestInt
      <3>8. PICK p \in served : Max(asks) = upDone[p].asked
        BY <3>7
      <3>9. PICK x \in Services : upDone[p].asked <= upOrder[x].closed
        <4>1. CASE p \in Services
          BY <4>1 DEF UpkeepInv, OrderSound, Services
        <4>2. CASE p \notin Services
          BY <4>2 DEF UpkeepInv, Succeeds
        <4> QED
          BY <4>1, <4>2
      <3>10. PICK o \in Services : upOrder[o].closed = LatestClosed
        BY <3>1, LatestIsOne
      <3>11. upOrder[o].closed <= upDone[o].done /\ upDone[o].done \in dones /\ upDone[o].done \in Int
        BY <1>1, <3>4 DEF UpkeepInv, OrderSound, Services
      <3>12. LatestClosed \in Nat /\ upOrder[x].closed \in Nat /\ upOrder[x].closed <= LatestClosed
        BY <3>1, LatestIsOne
      <3> HIDE DEF asks, dones
      <3>13. LatestClosed <= Max(dones)
        BY <3>7, <3>10, <3>11, <3>12
      <3>14. Max(asks) <= LatestClosed
        BY <3>7, <3>8, <3>9, <3>12
      <3> QED
        BY <2>2, <3>2, <3>7, <3>12, <3>13, <3>14
    <2> QED
      BY <2>1, <2>2
  <1>3. ASSUME upPlan # 0 PROVE Health = RiskBand(upClock - Baseline, upPlan)
    BY <1>3 DEF Health
  <1> QED
    BY <1>2, <1>3 DEF HealthTellsService

\* What a row of the table and the history of it say, in one place.
LEMMA OrderFacts ==
  ASSUME UpkeepInv, NEW o \in WorkOrders
  PROVE  /\ upDone[o].asked \in Int /\ upDone[o].done \in Int /\ upOrder[o].closed \in Int
         /\ upOrder[o] # NoOrder => upOrder[o] \in OrderRows
         /\ upOrder[o].closed # NeverServiced => upOrder[o].status = "done"
         /\ upOrder[o].status = "done" => upDone[o].done # NeverServiced /\ upDone[o].done \in Nat
         /\ upOrder[o] # NoOrder /\ upDone[o].done # NeverServiced => upOrder[o].status = "done"
         /\ upOrder[o] # NoOrder /\ upDone[o].done = NeverServiced => upOrder[o].status = "open"
  <1>1. upDone[o] \in DoneRows /\ upOrder[o] \in OrderRows \cup {NoOrder}
    BY DEF UpkeepInv, UpkeepTypes
  <1>2. upDone[o].asked \in Int /\ upDone[o].done \in Int
    BY <1>1 DEF DoneRows
  <1>3. OrderSound(o)
    BY DEF UpkeepInv
  <1>4. CASE upOrder[o] = NoOrder
    <2>1. upOrder[o].status = "none" /\ upOrder[o].closed = NeverServiced
      BY <1>4, OrdersAreRows
    <2> QED
      BY <1>2, <1>4, <2>1 DEF NeverServiced
  <1>5. CASE upOrder[o] \in OrderRows
    <2>1. upOrder[o].closed \in Int /\ upOrder[o].status \in {"open", "done"}
      BY <1>5 DEF OrderRows
    <2> QED
      BY <1>2, <1>3, <1>5, <2>1 DEF OrderSound, NeverServiced
  <1> QED
    BY <1>1, <1>4, <1>5

LEMMA UpkeepStarts == ASSUME UpkeepInit PROVE UpkeepInv
  <1>1. UpkeepTypes
    BY DEF UpkeepInit, UpkeepTypes, DoneRows, UpkeepRequests, NoUpkeepRequest, NeverServiced
  <1>2. ASSUME NEW o \in WorkOrders PROVE OrderSound(o) /\ upDone[o].type = "none"
    <2>1. upOrder[o].status = "none" /\ upDone[o].done = NeverServiced /\ upDone[o].type = "none"
      BY OrdersAreRows DEF UpkeepInit
    <2> QED
      BY <2>1 DEF OrderSound
  <1>3. \A m \in Mechanics : InFlight(m)
    BY DEF UpkeepInit, InFlight
  <1> QED
    BY <1>1, <1>2, <1>3 DEF UpkeepInv

LEMMA TimePasses == ASSUME UpkeepInv, ClockTicks PROVE UpkeepInv'
  <1>1. UpkeepTypes'
    BY DEF UpkeepInv, UpkeepTypes, ClockTicks
  <1>2. ASSUME NEW o \in WorkOrders PROVE OrderSound(o)'
    <2>1. OrderSound(o) /\ upDone[o].done \in Int /\ upClock \in Nat
      BY OrderFacts DEF UpkeepInv, UpkeepTypes
    <2> QED
      BY <2>1 DEF OrderSound, ClockTicks
  <1>3. ASSUME NEW m \in Mechanics PROVE InFlight(m)'
    <2>1. InFlight(m) /\ upClock \in Nat
      BY DEF UpkeepInv, UpkeepTypes
    <2> QED
      BY <2>1 DEF InFlight, ClockTicks
  <1>4. Services' = Services
    BY DEF Services, ClockTicks
  <1>5. \A o, p \in WorkOrders : Succeeds(o, p) => Succeeds(o, p)'
    BY <1>4 DEF Succeeds, ClockTicks
  <1>6. \A p \in WorkOrders : upDone'[p].type = "service" => p \in Services' \/ \E o \in WorkOrders : Succeeds(o, p)'
    BY <1>4, <1>5 DEF UpkeepInv, ClockTicks
  <1> QED
    BY <1>1, <1>2, <1>3, <1>6 DEF UpkeepInv

LEMMA PlanChanges == ASSUME UpkeepInv, NEW days \in ServiceDays, UpsertPlan(days) PROVE UpkeepInv'
  <1>1. UpkeepTypes'
    BY OrdersAreKept DEF UpkeepInv, UpkeepTypes, UpsertPlan
  <1>2. \A o \in WorkOrders : OrderSound(o)'
    BY DEF UpkeepInv, OrderSound, UpsertPlan
  <1>3. \A m \in Mechanics : InFlight(m)'
    BY DEF UpkeepInv, InFlight, UpsertPlan
  <1>4. Services' = Services
    BY DEF Services, UpsertPlan
  <1>5. \A o, p \in WorkOrders : Succeeds(o, p) => Succeeds(o, p)'
    BY <1>4 DEF Succeeds, UpsertPlan
  <1>6. \A p \in WorkOrders : upDone'[p].type = "service" => p \in Services' \/ \E o \in WorkOrders : Succeeds(o, p)'
    BY <1>4, <1>5 DEF UpkeepInv, UpsertPlan
  <1> QED
    BY <1>1, <1>2, <1>3, <1>6 DEF UpkeepInv

LEMMA OrderOpens ==
  ASSUME UpkeepInv, NEW o \in WorkOrders, NEW type \in {"service", "repair"}, OpenWorkOrder(o, type)
  PROVE  UpkeepInv'
  <1> DEFINE row == NewOrder(type)
  <1>1. row \in OrderRows /\ row.status = "open" /\ row.closed = NeverServiced
    <2>1. row = [[NoOrder EXCEPT !.type = type] EXCEPT !.status = "open"]
      BY Zenon DEF NewOrder
    <2>2. [NoOrder EXCEPT !.type = type] = [type |-> type, status |-> "none", closed |-> NeverServiced]
      BY DEF NoOrder
    <2>3. row = [type |-> type, status |-> "open", closed |-> NeverServiced]
      <3> HIDE DEF row
      <3> QED
        BY <2>1, <2>2
    <2> HIDE DEF row
    <2> QED
      BY <2>3 DEF OrderRows, NeverServiced
  <1>2. row # NoOrder
    BY <1>1, OrdersAreRows
  <1> HIDE DEF row
  <1>3. /\ upOrder \in [WorkOrders -> OrderRows \cup {NoOrder}] /\ upOrder' = [upOrder EXCEPT ![o] = row]
        /\ upOrder[o] = NoOrder /\ upDone[o].done = NeverServiced
        /\ upClock' = upClock /\ upPlan' = upPlan /\ upRequest' = upRequest /\ upDone' = upDone
    BY DEF UpkeepInv, UpkeepTypes, OpenWorkOrder, row
  <1>4. upOrder'[o] = row /\ \A x \in WorkOrders : x # o => upOrder'[x] = upOrder[x]
    BY <1>3
  <1>5. UpkeepTypes'
    BY <1>1, <1>3 DEF UpkeepInv, UpkeepTypes
  <1>6. ASSUME NEW x \in WorkOrders PROVE OrderSound(x)'
    <2>1. CASE x = o
      BY <1>1, <1>3, <1>4, <2>1 DEF UpkeepInv, OrderSound
    <2>2. CASE x # o
      BY <1>3, <1>4, <2>2 DEF UpkeepInv, OrderSound
    <2> QED
      BY <2>1, <2>2
  <1>7. ASSUME NEW m \in Mechanics PROVE InFlight(m)'
    <2>1. InFlight(m)
      BY DEF UpkeepInv
    <2> QED
      BY <1>2, <1>3, <1>4, <2>1 DEF InFlight
  <1>8. Services' = Services
    <2>1. o \notin Services /\ o \notin Services'
      BY <1>1, <1>3, <1>4, OrdersAreRows DEF Services
    <2> QED
      BY <1>4, <2>1 DEF Services
  <1>9. ASSUME NEW x \in WorkOrders, NEW p \in WorkOrders, Succeeds(x, p) PROVE Succeeds(x, p)'
    <2>1. x # o
      BY <1>3, <1>9, OrdersAreRows DEF Succeeds, Services
    <2> QED
      BY <1>3, <1>4, <1>8, <1>9, <2>1 DEF Succeeds
  <1>10. \A p \in WorkOrders : upDone'[p].type = "service" => p \in Services' \/ \E x \in WorkOrders : Succeeds(x, p)'
    BY <1>3, <1>8, <1>9 DEF UpkeepInv
  <1> QED
    BY <1>5, <1>6, <1>7, <1>10 DEF UpkeepInv

LEMMA CompletionReads ==
  ASSUME UpkeepInv, NEW m \in Mechanics, NEW o \in WorkOrders, ReadForCompletion(m, o) PROVE UpkeepInv'
  <1> DEFINE req == [order |-> o, at |-> upClock]
  <1>1. req \in UpkeepRequests /\ req.order = o /\ req.at = upClock /\ upClock \in Nat
    BY DEF UpkeepInv, UpkeepTypes, UpkeepRequests
  <1> HIDE DEF req
  <1>2. /\ upRequest \in [Mechanics -> UpkeepRequests] /\ upRequest' = [upRequest EXCEPT ![m] = req]
        /\ upOrder[o].status = "open"
        /\ upClock' = upClock /\ upPlan' = upPlan /\ upOrder' = upOrder /\ upDone' = upDone
    BY DEF UpkeepInv, UpkeepTypes, ReadForCompletion, Completable, req
  <1>3. upRequest'[m] = req /\ \A x \in Mechanics : x # m => upRequest'[x] = upRequest[x]
    BY <1>2
  <1>4. upDone[o].done = NeverServiced /\ upOrder[o] # NoOrder
    BY <1>2, OrdersAreRows DEF UpkeepInv, OrderSound
  <1>5. UpkeepTypes'
    BY <1>1, <1>2 DEF UpkeepInv, UpkeepTypes
  <1>6. \A x \in WorkOrders : OrderSound(x)'
    BY <1>2 DEF UpkeepInv, OrderSound
  <1>7. ASSUME NEW x \in Mechanics PROVE InFlight(x)'
    <2>1. CASE x = m
      BY <1>1, <1>2, <1>3, <1>4, <2>1 DEF InFlight
    <2>2. CASE x # m
      BY <1>2, <1>3, <2>2 DEF UpkeepInv, InFlight
    <2> QED
      BY <2>1, <2>2
  <1>8. Services' = Services
    BY <1>2 DEF Services
  <1>9. ASSUME NEW x \in WorkOrders, NEW p \in WorkOrders, Succeeds(x, p) PROVE Succeeds(x, p)'
    <2>1. x # o
      BY <1>2, <1>9 DEF Succeeds, Services
    <2> QED
      BY <1>1, <1>2, <1>3, <1>8, <1>9, <2>1 DEF Succeeds
  <1>10. \A p \in WorkOrders : upDone'[p].type = "service" => p \in Services' \/ \E x \in WorkOrders : Succeeds(x, p)'
    BY <1>2, <1>8, <1>9 DEF UpkeepInv
  <1> QED
    BY <1>5, <1>6, <1>7, <1>10 DEF UpkeepInv

\* A completed row keeps its type and takes the time it was given.
LEMMA CompletedRow ==
  ASSUME NEW row \in OrderRows, NEW at \in Int
  PROVE  /\ Closed(row, at) \in OrderRows /\ Closed(row, at).status = "done"
         /\ Closed(row, at).closed = at /\ Closed(row, at).type = row.type
  <1>1. Closed(row, at) = [[row EXCEPT !.status = "done"] EXCEPT !.closed = at]
    BY Zenon DEF Closed
  <1>2. [row EXCEPT !.status = "done"] = [type |-> row.type, status |-> "done", closed |-> row.closed]
    BY DEF OrderRows
  <1>3. Closed(row, at) = [type |-> row.type, status |-> "done", closed |-> at]
    BY <1>1, <1>2
  <1>4. row.type \in {"service", "repair"}
    BY DEF OrderRows
  <1> QED
    BY <1>3, <1>4 DEF OrderRows

\* What the history says of an order once a request completed it.
LEMMA FinishedRow ==
  ASSUME UpkeepInv, NEW o \in WorkOrders, upOrder[o] # NoOrder, NEW at \in Nat, at <= upClock,
         upDone[o].done # NeverServiced => at <= upDone[o].done
  PROVE  /\ Finished(o, at) \in DoneRows /\ Finished(o, at).type = upOrder[o].type
         /\ Finished(o, at).asked \in Nat /\ Finished(o, at).done \in Nat
         /\ Finished(o, at).asked <= at /\ at <= Finished(o, at).done /\ Finished(o, at).done <= upClock
         /\ upDone[o].done # NeverServiced => Finished(o, at).done = upDone[o].done
         /\ upDone[o].done = NeverServiced => Finished(o, at).done = upClock
  <1>1. upClock \in Nat /\ upDone[o] \in DoneRows /\ upOrder[o] \in OrderRows
    BY OrderFacts DEF UpkeepInv, UpkeepTypes
  <1>2. CASE upDone[o].done = NeverServiced
    <2>1. Finished(o, at) = [type |-> upOrder[o].type, asked |-> at, done |-> upClock]
      BY <1>2 DEF Finished
    <2>2. upOrder[o].type \in {"service", "repair"}
      BY <1>1 DEF OrderRows
    <2> QED
      BY <1>1, <1>2, <2>1, <2>2 DEF DoneRows
  <1>3. CASE upDone[o].done # NeverServiced
    <2> DEFINE first == Min({upDone[o].asked, at})
    <2>1. upOrder[o].status = "done" /\ upDone[o].done \in Nat
      BY <1>3, OrderFacts
    <2>2. upDone[o].type = upOrder[o].type /\ upDone[o].asked \in Nat /\ upDone[o].done <= upClock
      BY <1>3, <2>1 DEF UpkeepInv, OrderSound
    <2>3. first \in {upDone[o].asked, at} /\ first <= at
      BY <2>2, PairEnds
    <2>4. Finished(o, at) = [upDone[o] EXCEPT !.asked = first]
      BY <1>3 DEF Finished
    <2> HIDE DEF first
    <2>5. Finished(o, at) = [type |-> upDone[o].type, asked |-> first, done |-> upDone[o].done]
      BY <1>1, <2>4 DEF DoneRows
    <2>6. first \in Nat /\ first <= at
      BY <2>2, <2>3
    <2>7. upDone[o].type \in {"service", "repair", "none"}
      BY <1>1 DEF DoneRows
    <2> QED
      BY <1>3, <2>1, <2>2, <2>5, <2>6, <2>7 DEF DoneRows
  <1> QED
    BY <1>2, <1>3

LEMMA CompletionCommits == ASSUME UpkeepInv, NEW m \in Mechanics, CommitCompletion(m) PROVE UpkeepInv'
  <1>1. PICK q : q = upRequest[m]
    OBVIOUS
  <1>2. PICK o : o = q.order
    OBVIOUS
  <1>3. /\ q # NoUpkeepRequest /\ q \in UpkeepRequests
        /\ upRequest \in [Mechanics -> UpkeepRequests]
        /\ upRequest' = [upRequest EXCEPT ![m] = NoUpkeepRequest]
        /\ upClock' = upClock /\ upPlan' = upPlan /\ upClock \in Nat /\ upPlan \in Nat
    BY <1>1 DEF UpkeepInv, UpkeepTypes, CommitCompletion
  <1>4. /\ o \in WorkOrders /\ q.at \in Nat /\ q.at <= upClock
        /\ upDone[o].done # NeverServiced => q.at <= upDone[o].done
    BY <1>1, <1>2, <1>3 DEF UpkeepInv, InFlight
  <1>5. NoUpkeepRequest \in UpkeepRequests
    BY DEF NoUpkeepRequest, UpkeepRequests, NeverServiced
  <1>6. /\ upRequest' \in [Mechanics -> UpkeepRequests]
        /\ upRequest'[m] = NoUpkeepRequest /\ \A x \in Mechanics : x # m => upRequest'[x] = upRequest[x]
    BY <1>3, <1>5
  <1>7. CASE upOrder[o] = NoOrder
    <2>1. upOrder' = upOrder /\ upDone' = upDone
      BY <1>1, <1>2, <1>7 DEF CommitCompletion
    <2>2. UpkeepTypes'
      BY <1>3, <1>6, <2>1 DEF UpkeepInv, UpkeepTypes
    <2>3. \A x \in WorkOrders : OrderSound(x)'
      BY <1>3, <2>1 DEF UpkeepInv, OrderSound
    <2>4. \A x \in Mechanics : InFlight(x)'
      BY <1>3, <1>6, <2>1 DEF UpkeepInv, InFlight
    <2>5. Services' = Services
      BY <2>1 DEF Services
    <2>6. \A x, p \in WorkOrders : Succeeds(x, p) => Succeeds(x, p)'
      BY <1>6, <2>1, <2>5 DEF Succeeds
    <2>7. \A p \in WorkOrders : upDone'[p].type = "service" => p \in Services' \/ \E x \in WorkOrders : Succeeds(x, p)'
      BY <2>1, <2>5, <2>6 DEF UpkeepInv
    <2> QED
      BY <2>2, <2>3, <2>4, <2>7 DEF UpkeepInv
  <1>8. CASE upOrder[o] # NoOrder
    <2>1. PICK row : row = Closed(upOrder[o], q.at)
      OBVIOUS
    <2>2. PICK fin : fin = Finished(o, q.at)
      OBVIOUS
    <2>3. /\ upOrder' = [upOrder EXCEPT ![o] = row] /\ upDone' = [upDone EXCEPT ![o] = fin]
          /\ upOrder \in [WorkOrders -> OrderRows \cup {NoOrder}] /\ upDone \in [WorkOrders -> DoneRows]
      BY <1>1, <1>2, <1>8, <2>1, <2>2 DEF CommitCompletion, UpkeepInv, UpkeepTypes
    <2>4. row \in OrderRows /\ row.status = "done" /\ row.closed = q.at /\ row.type = upOrder[o].type
      BY <1>4, <1>8, <2>1, OrderFacts, CompletedRow
    <2>5. /\ fin \in DoneRows /\ fin.type = row.type /\ fin.asked \in Nat /\ fin.done \in Nat
          /\ fin.asked <= q.at /\ q.at <= fin.done /\ fin.done <= upClock
          /\ upDone[o].done # NeverServiced => fin.done = upDone[o].done
          /\ upDone[o].done = NeverServiced => fin.done = upClock
      BY <1>4, <1>8, <2>2, <2>4, FinishedRow
    <2>6. /\ upOrder'[o] = row /\ upDone'[o] = fin
          /\ \A x \in WorkOrders : x # o => upOrder'[x] = upOrder[x] /\ upDone'[x] = upDone[x]
      BY <1>4, <2>3
    <2>7. UpkeepTypes'
      BY <1>3, <1>6, <2>3, <2>4, <2>5 DEF UpkeepTypes
    <2>8. ASSUME NEW x \in WorkOrders PROVE OrderSound(x)'
      <3>1. CASE x = o
        BY <1>3, <1>4, <2>4, <2>5, <2>6, <3>1 DEF OrderSound, NeverServiced
      <3>2. CASE x # o
        BY <1>3, <2>6, <3>2 DEF UpkeepInv, OrderSound
      <3> QED
        BY <3>1, <3>2
    <2>9. ASSUME NEW x \in Mechanics PROVE InFlight(x)'
      <3>1. CASE upRequest'[x] = NoUpkeepRequest
        BY <3>1 DEF InFlight
      <3>2. CASE upRequest'[x] # NoUpkeepRequest
        <4>1. PICK r : r = upRequest[x]
          OBVIOUS
        <4>2. upRequest'[x] = r /\ r # NoUpkeepRequest
          BY <1>6, <3>2, <4>1
        <4>3. /\ r.order \in WorkOrders /\ r.at \in Nat /\ r.at <= upClock /\ upClock <= r.at + 1
              /\ upOrder[r.order] # NoOrder \/ upDone[r.order].done # NeverServiced
              /\ upDone[r.order].done # NeverServiced => r.at <= upDone[r.order].done
          BY <4>1, <4>2 DEF UpkeepInv, InFlight
        <4>4. CASE r.order = o
          <5>1. upDone'[r.order].done # NeverServiced
            BY <2>5, <2>6, <4>4 DEF NeverServiced
          <5>2. r.at <= upDone'[r.order].done
            BY <1>3, <2>5, <2>6, <4>3, <4>4
          <5> QED
            BY <1>3, <4>2, <4>3, <5>1, <5>2 DEF InFlight
        <4>5. CASE r.order # o
          BY <1>3, <2>6, <4>2, <4>3, <4>5 DEF InFlight
        <4> QED
          BY <4>4, <4>5
      <3> QED
        BY <3>1, <3>2
    <2>10. \A x \in Services : x \in Services'
      BY <2>4, <2>6 DEF Services
    <2>11. ASSUME NEW p \in WorkOrders, p # o, NEW x \in WorkOrders, Succeeds(x, p) PROVE Succeeds(x, p)'
      <3>1. upDone'[p] = upDone[p] /\ x \in Services'
        BY <2>6, <2>10, <2>11 DEF Succeeds
      <3>2. upDone[p].asked <= upOrder'[x].closed
        <4>1. CASE x = o
          BY <1>1, <1>2, <1>3, <2>4, <2>6, <2>11, <4>1 DEF Succeeds
        <4>2. CASE x # o
          BY <2>6, <2>11, <4>2 DEF Succeeds
        <4> QED
          BY <4>1, <4>2
      <3>3. \A y \in Mechanics : upRequest'[y] # NoUpkeepRequest /\ upRequest'[y].order = x
                                 => upDone[p].asked <= upRequest'[y].at
        BY <1>6, <2>11 DEF Succeeds
      <3> QED
        BY <3>1, <3>2, <3>3 DEF Succeeds
    <2>12. ASSUME NEW p \in WorkOrders, upDone'[p].type = "service"
           PROVE  p \in Services' \/ \E x \in WorkOrders : Succeeds(x, p)'
      <3>1. CASE p = o
        BY <2>4, <2>5, <2>6, <2>12, <3>1 DEF Services
      <3>2. CASE p # o
        <4>1. p \in Services \/ \E x \in WorkOrders : Succeeds(x, p)
          BY <2>6, <2>12, <3>2 DEF UpkeepInv
        <4> QED
          BY <2>10, <2>11, <3>2, <4>1
      <3> QED
        BY <3>1, <3>2
    <2> QED
      BY <2>7, <2>8, <2>9, <2>12 DEF UpkeepInv
  <1> QED
    BY <1>7, <1>8

LEMMA OrdersPurged == ASSUME UpkeepInv, PurgeOrders PROVE UpkeepInv'
  <1> DEFINE Purged(o) == /\ upOrder[o].closed # NeverServiced
                        /\ upOrder[o].closed < upClock - KeepOrders
                        /\ Expendable(o)
  <1>1. /\ KeepOrders \in Nat /\ KeepOrders > 0 /\ upClock \in Nat
        /\ upClock' = upClock /\ upPlan' = upPlan /\ upRequest' = upRequest /\ upDone' = upDone
        /\ upOrder' = [o \in WorkOrders |-> IF Purged(o) THEN NoOrder ELSE upOrder[o]]
    BY OrdersAreKept DEF PurgeOrders, UpkeepInv, UpkeepTypes
  <1>2. \A o \in WorkOrders : (Purged(o) => upOrder'[o] = NoOrder) /\ (~ Purged(o) => upOrder'[o] = upOrder[o])
    BY <1>1
  <1>3. \A o \in WorkOrders : Purged(o) => /\ upOrder[o].closed < upClock - KeepOrders
                                         /\ upDone[o].done # NeverServiced /\ o \notin
                                              {p \in Services : upOrder[p].closed = LatestClosed}
    BY OrderFacts DEF Expendable
  <1>4. \A o \in Services : upOrder[o].closed = LatestClosed => ~ Purged(o)
    BY DEF Expendable
  <1> HIDE DEF Purged
  <1>5. UpkeepTypes'
    BY <1>1 DEF UpkeepInv, UpkeepTypes
  <1>6. ASSUME NEW o \in WorkOrders PROVE OrderSound(o)'
    <2>1. OrderSound(o)
      BY DEF UpkeepInv
    <2>2. CASE Purged(o)
      BY <1>1, <1>2, <2>1, <2>2, OrdersAreRows DEF OrderSound
    <2>3. CASE ~ Purged(o)
      BY <1>1, <1>2, <2>1, <2>3 DEF OrderSound
    <2> QED
      BY <2>2, <2>3
  <1>7. ASSUME NEW m \in Mechanics PROVE InFlight(m)'
    <2>1. InFlight(m)
      BY DEF UpkeepInv
    <2> QED
      BY <1>1, <1>2, <1>3, <2>1 DEF InFlight
  <1>8. \A o \in Services : ~ Purged(o) => o \in Services'
    BY <1>2 DEF Services
  <1>9. ASSUME NEW p \in WorkOrders, NEW y \in Services, upDone[p].asked <= upOrder[y].closed, Purged(y)
        PROVE  \E z \in WorkOrders : Succeeds(z, p)'
    <2>1. PICK z \in Services : upOrder[z].closed = LatestClosed
      BY LatestIsOne
    <2>2. ~ Purged(z) /\ z \in Services' /\ z \in WorkOrders /\ upOrder'[z] = upOrder[z]
      BY <1>2, <1>4, <1>8, <2>1 DEF Services
    <2>3. upOrder[y].closed \in Nat /\ upOrder[z].closed \in Nat /\ upOrder[y].closed <= upOrder[z].closed
      BY <2>1, LatestIsOne
    <2>4. upDone[p].asked \in Int
      BY OrderFacts
    <2>5. upDone[p].asked <= upOrder[z].closed
      BY <1>9, <2>3, <2>4
    <2>6. y \in WorkOrders
      BY DEF Services
    <2>7. upOrder[y].closed < upClock - KeepOrders
      BY <1>3, <1>9, <2>6
    <2>8. ASSUME NEW m \in Mechanics, upRequest[m] # NoUpkeepRequest PROVE upDone[p].asked <= upRequest[m].at
      <3>1. upRequest[m].at \in Nat /\ upClock <= upRequest[m].at + 1
        BY <2>8 DEF UpkeepInv, InFlight
      <3> QED
        BY <1>1, <1>9, <2>3, <2>4, <2>7, <3>1
    <2>9. Succeeds(z, p)'
      BY <1>1, <2>2, <2>5, <2>8 DEF Succeeds
    <2> QED
      BY <2>2, <2>9
  <1>10. ASSUME NEW p \in WorkOrders, upDone'[p].type = "service"
         PROVE  p \in Services' \/ \E o \in WorkOrders : Succeeds(o, p)'
    <2>1. p \in Services \/ \E o \in WorkOrders : Succeeds(o, p)
      BY <1>1, <1>10 DEF UpkeepInv
    <2>2. CASE p \in Services
      <3>1. upDone[p].asked <= upOrder[p].closed
        BY <2>2 DEF UpkeepInv, OrderSound, Services
      <3> QED
        BY <1>8, <1>9, <2>2, <3>1
    <2>3. ASSUME NEW o \in WorkOrders, Succeeds(o, p) PROVE \E x \in WorkOrders : Succeeds(x, p)'
      <3>1. o \in Services /\ upDone[p].asked <= upOrder[o].closed
        BY <2>3 DEF Succeeds
      <3>2. CASE Purged(o)
        BY <1>9, <3>1, <3>2
      <3>3. CASE ~ Purged(o)
        <4>1. o \in Services' /\ upOrder'[o] = upOrder[o]
          BY <1>2, <1>8, <3>1, <3>3
        <4>2. Succeeds(o, p)'
          BY <1>1, <2>3, <4>1 DEF Succeeds
        <4> QED
          BY <4>2
      <3> QED
        BY <3>2, <3>3
    <2> QED
      BY <2>1, <2>2, <2>3
  <1> QED
    BY <1>5, <1>6, <1>7, <1>10 DEF UpkeepInv

LEMMA UpkeepStep == UpkeepInv /\ [UpkeepNext]_upVars => UpkeepInv'
  <1> SUFFICES ASSUME UpkeepInv, [UpkeepNext]_upVars PROVE UpkeepInv'
    OBVIOUS
  <1>1. CASE UNCHANGED upVars
    BY <1>1 DEF upVars, UpkeepInv, UpkeepTypes, OrderSound, InFlight, Succeeds, Services
  <1>2. CASE UpkeepNext
    BY <1>2, TimePasses, PlanChanges, OrderOpens, CompletionReads, CompletionCommits, OrdersPurged DEF UpkeepNext
  <1> QED
    BY <1>1, <1>2

(* The health indicator measures from the last service that happened, however many
   supervisors complete the same order, whatever the retention and the intervals
   (complete_work_order, _purge_work_orders, assess_health). *)
THEOREM HealthIsTold == UpkeepSpec => []HealthTellsService
  <1>1. UpkeepInit => UpkeepInv
    BY UpkeepStarts
  <1>2. UpkeepInv /\ [UpkeepNext]_upVars => UpkeepInv'
    BY UpkeepStep
  <1>3. UpkeepInv => HealthTellsService
    BY BaselineTold
  <1> QED
    BY <1>1, <1>2, <1>3, PTL DEF UpkeepSpec

-----------------------------------------------------------------------------
(* Fuel (Fuel).                                                            *)

FuelTransactions == [ts : Nat, what : {"delivery", "dispense"}, tank : {"tank", "none"},
                     litres : {FuelLitres}]
Dips == [ts : Nat, what : {"reading"}, tank : {"tank"}, litres : Int]
FuelRecords == fuelTxns \cup fuelReadings \cup fuelSlips

FuelTypes ==
  /\ fuelNow \in Nat /\ fuelLevel \in Int
  /\ fuelTxns \subseteq FuelTransactions /\ fuelReadings \subseteq Dips
  /\ fuelSlips \subseteq FuelTransactions \cup Dips /\ fuelLeaks \subseteq Nat
  /\ IsFiniteSet(fuelTxns) /\ IsFiniteSet(fuelReadings) /\ IsFiniteSet(fuelSlips)
  /\ IsFiniteSet(fuelLeaks)

\* Everything has happened by now, and no two records are of one time.
OneAtOneTime ==
  /\ \A x \in FuelRecords : x.ts <= fuelNow /\ \A y \in FuelRecords : x.ts = y.ts => x = y
  /\ \A t \in fuelLeaks : t <= fuelNow

\* What entered and left the tank between two times, metered or leaked.
Metered(moves, what, lo, hi) ==
  {m \in moves : m.tank = "tank" /\ m.what = what /\ lo < m.ts /\ m.ts < hi}
Leaked(leaks, lo, hi) == {t \in leaks : lo < t /\ t < hi}
Net(moves, leaks, lo, hi) ==
  FuelLitres * Cardinality(Metered(moves, "delivery", lo, hi))
    - FuelLitres * Cardinality(Metered(moves, "dispense", lo, hi))
    - FuelLitres * Cardinality(Leaked(leaks, lo, hi))

\* A dip whose later transactions are all still there, on paper or in the table.
Timely(a) == \/ a \in fuelReadings /\ a \notin fuelLate
             \/ a \in fuelSlips /\ a.what = "reading" /\ a.ts >= fuelNow - KeepFuel

Off(x) == x \in Int /\ -DipError <= x /\ x <= DipError

\* The level has followed the movements since a timely dip, and a later dip shows it.
LevelFollows ==
  \A a \in FuelRecords : Timely(a) =>
    LET x == fuelLevel - a.litres - Net(fuelTxns \cup fuelSlips, fuelLeaks, a.ts, fuelNow + 1)
    IN  Off(x) /\ x <= 0

DipsFollow ==
  \A a, b \in FuelRecords : Timely(a) /\ b.what = "reading" /\ a.ts < b.ts =>
    Off(b.litres - a.litres - Net(fuelTxns \cup fuelSlips, fuelLeaks, a.ts, b.ts))

\* A reconciliation compares two readings; while it is complete, both are still there and
\* everything between them is recorded.
Compares(a, b) ==
  /\ fuelReport.rows = {a, b} /\ a \in Dips /\ b \in Dips /\ a.ts < b.ts /\ b.ts <= fuelNow

ReportFollows ==
  /\ fuelReport = [phase |-> fuelReport.phase, rows |-> fuelReport.rows,
                   complete |-> fuelReport.complete, status |-> fuelReport.status]
  /\ fuelReport.status \in {"ok", "flagged"} => \E a, b \in fuelReport.rows : Compares(a, b)
  /\ fuelReport.phase = "levels" =>
       /\ fuelReport.status = "none" /\ \E a, b \in fuelReport.rows : Compares(a, b)
       /\ fuelReport.complete =>
            \E a, b \in fuelReadings :
              /\ Compares(a, b) /\ \A s \in fuelSlips : b.ts < s.ts
              /\ Off(b.litres - a.litres - Net(fuelTxns \cup fuelSlips, fuelLeaks, a.ts, b.ts))

FuelInv == FuelTypes /\ OneAtOneTime /\ LevelFollows /\ DipsFollow /\ ReportFollows
             /\ FlaggedIffLeaked

LEMMA FuelNumbers ==
  /\ FuelLitres \in Nat /\ FuelTolerance \in Nat /\ DipError \in Nat
  /\ DipError <= FuelTolerance /\ FuelTolerance + DipError < FuelLitres
  /\ KeepFuel \in Nat
  BY FuelAssumption DEF FuelAssumption

\* Records are transactions or dips, by what they are of.
LEMMA FuelKinds ==
  ASSUME FuelTypes
  PROVE  /\ \A x \in FuelRecords : /\ x.ts \in Nat /\ x.litres \in Int
                                   /\ x.what = "reading" <=> x \in Dips
                                   /\ x.what # "reading" <=> x \in FuelTransactions
         /\ \A x \in fuelReadings : x.what = "reading"
         /\ \A x \in fuelTxns : x.what \in {"delivery", "dispense"}
  <1>1. \A x \in FuelTransactions : /\ x.ts \in Nat /\ x.litres \in Int
                                    /\ x.what \in {"delivery", "dispense"}
    BY FuelNumbers DEF FuelTransactions
  <1>2. \A x \in Dips : x.ts \in Nat /\ x.litres \in Int /\ x.what = "reading"
    BY DEF Dips
  <1> QED
    BY <1>1, <1>2 DEF FuelTypes, FuelRecords

\* What is counted is finite.
LEMMA NetCounts ==
  ASSUME NEW moves, NEW leaks, IsFiniteSet(moves), IsFiniteSet(leaks), NEW lo, NEW hi
  PROVE  /\ \A what : /\ IsFiniteSet(Metered(moves, what, lo, hi))
                      /\ Cardinality(Metered(moves, what, lo, hi)) \in Nat
         /\ IsFiniteSet(Leaked(leaks, lo, hi)) /\ Cardinality(Leaked(leaks, lo, hi)) \in Nat
         /\ Net(moves, leaks, lo, hi) \in Int
  <1>1. ASSUME NEW what PROVE IsFiniteSet(Metered(moves, what, lo, hi))
    BY FS_Subset DEF Metered
  <1>2. IsFiniteSet(Leaked(leaks, lo, hi))
    BY FS_Subset DEF Leaked
  <1>3. \A what : Cardinality(Metered(moves, what, lo, hi)) \in Nat
    BY <1>1, FS_CardinalityType
  <1>4. Cardinality(Leaked(leaks, lo, hi)) \in Nat
    BY <1>2, FS_CardinalityType
  <1>5. PICK p \in Nat : p = Cardinality(Metered(moves, "delivery", lo, hi))
    BY <1>3
  <1>6. PICK q \in Nat : q = Cardinality(Metered(moves, "dispense", lo, hi))
    BY <1>3
  <1>7. PICK r \in Nat : r = Cardinality(Leaked(leaks, lo, hi))
    BY <1>4
  <1>8. Net(moves, leaks, lo, hi) = FuelLitres * p - FuelLitres * q - FuelLitres * r
    BY <1>5, <1>6, <1>7 DEF Net
  <1> QED
    BY <1>1, <1>2, <1>3, <1>4, <1>8, FuelNumbers

\* What is counted is decided by the movements of the tank between the two times.
LEMMA NetSame ==
  ASSUME NEW moves, NEW leaks, NEW lo, NEW hi, NEW moves2, NEW leaks2, NEW hi2,
         \A what \in {"delivery", "dispense"} :
           Metered(moves, what, lo, hi) = Metered(moves2, what, lo, hi2),
         Leaked(leaks, lo, hi) = Leaked(leaks2, lo, hi2)
  PROVE  Net(moves, leaks, lo, hi) = Net(moves2, leaks2, lo, hi2)
  BY DEF Net

LEMMA CountAdds ==
  ASSUME NEW S, IsFiniteSet(S), NEW x, x \notin S, NEW d \in {0, 1}
  PROVE  Cardinality(S \cup (IF d = 1 THEN {x} ELSE {})) = Cardinality(S) + d
  <1>1. Cardinality(S) \in Nat
    BY FS_CardinalityType
  <1>2. CASE d = 1
    <2>1. Cardinality(S \cup {x}) = Cardinality(S) + 1
      BY FS_AddElement
    <2> QED
      BY <1>2, <2>1
  <1>3. CASE d = 0
    <2>1. S \cup {} = S
      OBVIOUS
    <2> QED
      BY <1>1, <1>3, <2>1
  <1> QED
    BY <1>2, <1>3

\* One movement more.
LEMMA NetAdds ==
  ASSUME NEW moves, NEW leaks, IsFiniteSet(moves), IsFiniteSet(leaks), NEW lo, NEW hi,
         NEW moves2, NEW leaks2, NEW hi2, NEW d \in {0, 1}, NEW p \in {0, 1}, NEW l \in {0, 1},
         Cardinality(Metered(moves2, "delivery", lo, hi2)) = Cardinality(Metered(moves, "delivery", lo, hi)) + d,
         Cardinality(Metered(moves2, "dispense", lo, hi2)) = Cardinality(Metered(moves, "dispense", lo, hi)) + p,
         Cardinality(Leaked(leaks2, lo, hi2)) = Cardinality(Leaked(leaks, lo, hi)) + l
  PROVE  Net(moves2, leaks2, lo, hi2)
           = Net(moves, leaks, lo, hi) + FuelLitres * d - FuelLitres * p - FuelLitres * l
  <1> DEFINE D == Metered(moves, "delivery", lo, hi)
             P == Metered(moves, "dispense", lo, hi)
             L == Leaked(leaks, lo, hi)
  <1>2. Cardinality(D) \in Nat /\ Cardinality(P) \in Nat /\ Cardinality(L) \in Nat
    BY NetCounts
  <1>3. /\ Cardinality(Metered(moves2, "delivery", lo, hi2)) = Cardinality(D) + d
        /\ Cardinality(Metered(moves2, "dispense", lo, hi2)) = Cardinality(P) + p
        /\ Cardinality(Leaked(leaks2, lo, hi2)) = Cardinality(L) + l
    OBVIOUS
  <1> HIDE DEF D, P, L
  <1>6. PICK i \in Nat : i = Cardinality(D)
    BY <1>2
  <1>7. PICK j \in Nat : j = Cardinality(P)
    BY <1>2
  <1>8. PICK k \in Nat : k = Cardinality(L)
    BY <1>2
  <1>9. Net(moves, leaks, lo, hi) = FuelLitres * i - FuelLitres * j - FuelLitres * k
    BY <1>6, <1>7, <1>8 DEF Net, D, P, L
  <1>10. Net(moves2, leaks2, lo, hi2)
           = FuelLitres * (i + d) - FuelLitres * (j + p) - FuelLitres * (k + l)
    BY <1>3, <1>6, <1>7, <1>8 DEF Net
  <1>11. /\ FuelLitres * (i + d) = FuelLitres * i + FuelLitres * d
         /\ FuelLitres * (j + p) = FuelLitres * j + FuelLitres * p
         /\ FuelLitres * (k + l) = FuelLitres * k + FuelLitres * l
    BY FuelNumbers
  <1>12. \A c \in Nat : FuelLitres * c \in Int
    BY FuelNumbers
  <1>13. d \in Nat /\ p \in Nat /\ l \in Nat
    OBVIOUS
  <1> DEFINE di == FuelLitres * i   dd == FuelLitres * d   pj == FuelLitres * j
             pp == FuelLitres * p   lk == FuelLitres * k   ll == FuelLitres * l
  <1>14. /\ di \in Int /\ dd \in Int /\ pj \in Int /\ pp \in Int /\ lk \in Int /\ ll \in Int
    BY <1>12, <1>13
  <1>15. /\ Net(moves, leaks, lo, hi) = di - pj - lk
         /\ Net(moves2, leaks2, lo, hi2) = (di + dd) - (pj + pp) - (lk + ll)
    BY <1>9, <1>10, <1>11
  <1> HIDE DEF di, dd, pj, pp, lk, ll
  <1>16. Net(moves2, leaks2, lo, hi2) = Net(moves, leaks, lo, hi) + dd - pp - ll
    BY <1>14, <1>15
  <1> QED
    BY <1>16 DEF dd, pp, ll

\* Nothing lies between a time and the next.
LEMMA NetOfMoment ==
  ASSUME NEW moves, NEW leaks, NEW t \in Nat, \A m \in moves : m.ts \in Nat, leaks \subseteq Nat
  PROVE  Net(moves, leaks, t, t + 1) = 0
  <1>1. \A what : Metered(moves, what, t, t + 1) = {}
    BY DEF Metered
  <1>2. Leaked(leaks, t, t + 1) = {}
    <2>1. \A u \in leaks : ~ (t < u /\ u < t + 1)
      <3>1. ASSUME NEW u \in leaks PROVE ~ (t < u /\ u < t + 1)
        <4>1. u \in Nat
          OBVIOUS
        <4> QED
          BY <4>1
      <3> QED
        BY <3>1
    <2> QED
      BY <2>1 DEF Leaked
  <1>3. Net(moves, leaks, t, t + 1) = FuelLitres * 0 - FuelLitres * 0 - FuelLitres * 0
    BY <1>1, <1>2, FS_EmptySet DEF Net
  <1> QED
    BY <1>3, FuelNumbers

\* The readings a reconciliation compares are the first and the last it read.
LEMMA ReportEnds ==
  ASSUME NEW rows, NEW a \in Dips, NEW b \in Dips, rows = {a, b}, a.ts < b.ts
  PROVE  Opening(rows) = a /\ Closing(rows) = b
  <1>1. a.ts \in Nat /\ b.ts \in Nat
    BY DEF Dips
  <1>2. \A x \in rows : (\A y \in rows : x.ts <= y.ts) <=> x = a
    BY <1>1
  <1>3. \A x \in rows : (\A y \in rows : x.ts >= y.ts) <=> x = b
    BY <1>1
  <1>4. Opening(rows) = a
    BY <1>2 DEF Opening
  <1>5. Closing(rows) = b
    BY <1>3 DEF Closing
  <1> QED
    BY <1>4, <1>5

\* Nothing has been measured at the start.
LEMMA FuelInitInv == FuelInit => FuelInv
  <1> SUFFICES ASSUME FuelInit PROVE FuelInv
    OBVIOUS
  <1>1. FuelTypes
    BY FuelNumbers, FS_EmptySet DEF FuelInit, FuelTypes
  <1>2. OneAtOneTime /\ LevelFollows /\ DipsFollow
    BY DEF FuelInit, OneAtOneTime, LevelFollows, DipsFollow, FuelRecords
  <1>3. ReportFollows /\ FlaggedIffLeaked
    BY DEF FuelInit, NoFuelReport, ReportFollows, FlaggedIffLeaked
  <1> QED
    BY <1>1, <1>2, <1>3 DEF FuelInv

\* Something happens to the tank now: d delivered, p dispensed, l leaked, or none of it and a
\* dip, or a vehicle fuelled elsewhere.
Moved(x, S, d, p, l) ==
  /\ d \in {0, 1} /\ p \in {0, 1} /\ l \in {0, 1}
  /\ fuelNow' = fuelNow + 1 /\ fuelSlips' = fuelSlips \cup S
  /\ fuelLevel' = fuelLevel + FuelLitres * d - FuelLitres * p - FuelLitres * l
  /\ fuelLeaks' = fuelLeaks \cup (IF l = 1 THEN {fuelNow + 1} ELSE {})
  /\ UNCHANGED <<fuelTxns, fuelReadings, fuelLate, fuelReport, fuelLeft>>
  /\ S = {} \/ S = {x}
  /\ x \in FuelTransactions \cup Dips /\ x.ts = fuelNow + 1
  /\ {m \in S : m.tank = "tank" /\ m.what = "delivery"} = IF d = 1 THEN {x} ELSE {}
  /\ {m \in S : m.tank = "tank" /\ m.what = "dispense"} = IF p = 1 THEN {x} ELSE {}
  /\ x.what = "reading" => /\ d = 0 /\ p = 0 /\ l = 0
                           /\ fuelLevel <= x.litres /\ x.litres <= fuelLevel + DipError

LEMMA PourKeeps ==
  ASSUME FuelInv, NEW x, NEW S, NEW d, NEW p, NEW l, Moved(x, S, d, p, l) PROVE FuelInv'
  <1> USE DEF Moved
  <1> DEFINE moves == fuelTxns \cup fuelSlips
             next == fuelNow + 1
  <1>1. /\ fuelNow \in Nat /\ next \in Nat /\ next = fuelNow + 1 /\ fuelNow < next /\ fuelLevel \in Int
        /\ moves' = moves \cup S /\ moves \subseteq FuelRecords /\ fuelLeaks \subseteq Nat
        /\ FuelRecords' = FuelRecords \cup S
        /\ IsFiniteSet(moves) /\ IsFiniteSet(fuelLeaks)
    <2>1. fuelNow \in Nat /\ fuelLevel \in Int /\ fuelLeaks \subseteq Nat /\ IsFiniteSet(fuelLeaks)
      BY DEF FuelInv, FuelTypes
    <2>2. moves' = moves \cup S /\ moves \subseteq FuelRecords /\ FuelRecords' = FuelRecords \cup S
      BY DEF FuelRecords
    <2>3. IsFiniteSet(moves)
      BY FS_Union DEF FuelInv, FuelTypes
    <2> QED
      BY <2>1, <2>2, <2>3
  <1>2. \A m \in FuelRecords : m.ts \in Nat /\ m.litres \in Int /\ m.ts <= fuelNow
    BY FuelKinds DEF FuelInv, OneAtOneTime
  <1>3. x.ts = next /\ x.litres \in Int /\ (x.what = "reading" => x \in Dips)
    <2>1. x \in FuelTransactions => x.what # "reading" /\ x.litres \in Int
      BY FuelNumbers DEF FuelTransactions
    <2>2. x \in Dips => x.litres \in Int
      BY DEF Dips
    <2> QED
      BY <2>1, <2>2
  <1>4. x \notin FuelRecords /\ next \notin fuelLeaks /\ \A t \in fuelLeaks : t \in Nat /\ t <= fuelNow
    <2>1. \A t \in fuelLeaks : t \in Nat /\ t <= fuelNow
      BY <1>1 DEF FuelInv, OneAtOneTime
    <2>2. x \notin FuelRecords
      BY <1>1, <1>2, <1>3
    <2> QED
      BY <1>1, <2>1, <2>2
  <1>5. FuelTypes'
    <2>1. IsFiniteSet(S)
      <3>1. CASE S = {}
        BY <3>1, FS_EmptySet
      <3>2. CASE S = {x}
        BY <3>2, FS_Singleton
      <3> QED
        BY <3>1, <3>2
    <2>5. IsFiniteSet(IF l = 1 THEN {next} ELSE {})
      <3>1. CASE l = 1
        BY <3>1, FS_Singleton
      <3>2. CASE l = 0
        BY <3>2, FS_EmptySet
      <3> QED
        BY <3>1, <3>2
    <2>2. IsFiniteSet(fuelSlips') /\ IsFiniteSet(fuelLeaks')
      BY <2>1, <2>5, FS_Union DEF FuelInv, FuelTypes
    <2>3. fuelLevel' \in Int
      BY <1>1, FuelNumbers
    <2>4. fuelSlips' \subseteq FuelTransactions \cup Dips /\ fuelLeaks' \subseteq Nat
      BY <1>1 DEF FuelInv, FuelTypes
    <2> QED
      BY <1>1, <2>2, <2>3, <2>4 DEF FuelInv, FuelTypes
  <1> HIDE DEF next
  <1>6. OneAtOneTime'
    <2>1. \A m \in FuelRecords' : m.ts <= fuelNow' /\ \A n \in FuelRecords' : m.ts = n.ts => m = n
      BY <1>1, <1>2, <1>3 DEF FuelInv, OneAtOneTime
    <2>2. \A t \in fuelLeaks' : t <= fuelNow'
      BY <1>1, <1>4 DEF next
    <2> QED
      BY <2>1, <2>2 DEF OneAtOneTime
  <1>7. ASSUME NEW hi \in Nat, hi <= next, NEW lo
        PROVE  Net(moves', fuelLeaks', lo, hi) = Net(moves, fuelLeaks, lo, hi)
    <2>1. \A what : Metered(moves', what, lo, hi) = Metered(moves, what, lo, hi)
      BY <1>1, <1>3, <1>7 DEF Metered
    <2>2. Leaked(fuelLeaks', lo, hi) = Leaked(fuelLeaks, lo, hi)
      BY <1>1, <1>7 DEF Leaked, next
    <2> HIDE DEF moves
    <2> QED
      BY <2>1, <2>2, NetSame
  <1>8. ASSUME NEW lo \in Nat, lo <= fuelNow
        PROVE  Net(moves', fuelLeaks', lo, fuelNow' + 1)
                 = Net(moves, fuelLeaks, lo, fuelNow + 1) + FuelLitres * d - FuelLitres * p - FuelLitres * l
    <2>1. \A m \in moves : m.ts \in Nat /\ m.ts < fuelNow + 1 /\ m.ts < fuelNow' + 1
      BY <1>1, <1>2
    <2>2. lo < next /\ next < fuelNow' + 1 /\ fuelNow' + 1 \in Nat
      BY <1>1, <1>8
    <2>3. Metered(moves', "delivery", lo, fuelNow' + 1)
            = Metered(moves, "delivery", lo, fuelNow + 1)
                \cup (IF d = 1 THEN {x} ELSE {})
      <3>1. Metered(moves', "delivery", lo, fuelNow' + 1)
              = Metered(moves, "delivery", lo, fuelNow + 1)
                  \cup {m \in S : m.tank = "tank" /\ m.what = "delivery"}
        BY <1>1, <1>3, <2>1, <2>2 DEF Metered
      <3> QED
        BY <3>1
    <2>4. Metered(moves', "dispense", lo, fuelNow' + 1)
            = Metered(moves, "dispense", lo, fuelNow + 1)
                \cup (IF p = 1 THEN {x} ELSE {})
      <3>1. Metered(moves', "dispense", lo, fuelNow' + 1)
              = Metered(moves, "dispense", lo, fuelNow + 1)
                  \cup {m \in S : m.tank = "tank" /\ m.what = "dispense"}
        BY <1>1, <1>3, <2>1, <2>2 DEF Metered
      <3> QED
        BY <3>1
    <2>5. Leaked(fuelLeaks', lo, fuelNow' + 1)
            = Leaked(fuelLeaks, lo, fuelNow + 1) \cup (IF l = 1 THEN {next} ELSE {})
      <3>1. \A t \in fuelLeaks : t < fuelNow + 1 /\ t < fuelNow' + 1
        BY <1>1, <1>4
      <3>2. \A t \in (IF l = 1 THEN {next} ELSE {}) : lo < t /\ t < fuelNow' + 1
        BY <2>2
      <3>3. fuelLeaks' = fuelLeaks \cup (IF l = 1 THEN {next} ELSE {})
        BY DEF next
      <3> QED
        BY <3>1, <3>2, <3>3 DEF Leaked
    <2>6. x \notin moves
      BY <1>1, <1>4
    <2>7. PICK m1 : m1 = moves'
      OBVIOUS
    <2>8. PICK k1 : k1 = fuelLeaks'
      OBVIOUS
    <2>9. PICK h1 : h1 = fuelNow' + 1
      OBVIOUS
    <2> HIDE DEF moves
    <2>11. PICK h0 : h0 = fuelNow + 1
      OBVIOUS
    <2>12. /\ Metered(m1, "delivery", lo, h1) = Metered(moves, "delivery", lo, h0) \cup (IF d = 1 THEN {x} ELSE {})
           /\ Metered(m1, "dispense", lo, h1) = Metered(moves, "dispense", lo, h0) \cup (IF p = 1 THEN {x} ELSE {})
           /\ Leaked(k1, lo, h1) = Leaked(fuelLeaks, lo, h0) \cup (IF l = 1 THEN {next} ELSE {})
      BY <2>3, <2>4, <2>5, <2>7, <2>8, <2>9, <2>11
    <2>13. IsFiniteSet(moves) /\ IsFiniteSet(fuelLeaks) /\ x \notin moves /\ next \notin fuelLeaks
      BY <1>1, <1>4, <2>6
    <2>15. Cardinality(Metered(m1, "delivery", lo, h1)) = Cardinality(Metered(moves, "delivery", lo, h0)) + d
      <3>1. PICK M : M = Metered(moves, "delivery", lo, h0)
        OBVIOUS
      <3>2. IsFiniteSet(M)
        BY <2>13, <3>1, NetCounts
      <3>3. x \notin M
        BY <2>13, <3>1 DEF Metered
      <3>4. Cardinality(M \cup (IF d = 1 THEN {x} ELSE {})) = Cardinality(M) + d
        BY <3>2, <3>3, CountAdds
      <3>5. Metered(m1, "delivery", lo, h1) = M \cup (IF d = 1 THEN {x} ELSE {})
        BY <2>12, <3>1
      <3> QED
        BY <3>1, <3>4, <3>5, Zenon
    <2>16. Cardinality(Metered(m1, "dispense", lo, h1)) = Cardinality(Metered(moves, "dispense", lo, h0)) + p
      <3>1. PICK M : M = Metered(moves, "dispense", lo, h0)
        OBVIOUS
      <3>2. IsFiniteSet(M)
        BY <2>13, <3>1, NetCounts
      <3>3. x \notin M
        BY <2>13, <3>1 DEF Metered
      <3>4. Cardinality(M \cup (IF p = 1 THEN {x} ELSE {})) = Cardinality(M) + p
        BY <3>2, <3>3, CountAdds
      <3>5. Metered(m1, "dispense", lo, h1) = M \cup (IF p = 1 THEN {x} ELSE {})
        BY <2>12, <3>1
      <3> QED
        BY <3>1, <3>4, <3>5, Zenon
    <2>17. Cardinality(Leaked(k1, lo, h1)) = Cardinality(Leaked(fuelLeaks, lo, h0)) + l
      <3>1. PICK M : M = Leaked(fuelLeaks, lo, h0)
        OBVIOUS
      <3>2. IsFiniteSet(M)
        BY <2>13, <3>1, NetCounts
      <3>3. next \notin M
        BY <2>13, <3>1 DEF Leaked
      <3>4. Cardinality(M \cup (IF l = 1 THEN {next} ELSE {})) = Cardinality(M) + l
        BY <3>2, <3>3, CountAdds
      <3>5. Leaked(k1, lo, h1) = M \cup (IF l = 1 THEN {next} ELSE {})
        BY <2>12, <3>1
      <3> QED
        BY <3>1, <3>4, <3>5, Zenon
    <2>14. Net(m1, k1, lo, h1)
             = Net(moves, fuelLeaks, lo, h0) + FuelLitres * d - FuelLitres * p - FuelLitres * l
      BY <2>13, <2>15, <2>16, <2>17, NetAdds
    <2>10. Net(m1, k1, lo, h1)
             = Net(moves, fuelLeaks, lo, fuelNow + 1) + FuelLitres * d - FuelLitres * p - FuelLitres * l
      BY <2>11, <2>14
    <2> QED
      BY <2>7, <2>8, <2>9, <2>10
  <1>9. ASSUME NEW a \in FuelRecords', Timely(a)'
        PROVE  (a \in FuelRecords /\ Timely(a)) \/ (a = x /\ S = {x} /\ x.what = "reading")
    <2>1. CASE a \in FuelRecords
      <3>1. a # x
        BY <1>4, <2>1
      <3>2. Timely(a)
        BY <1>1, <1>2, <1>9, <2>1, <3>1, FuelNumbers DEF Timely
      <3> QED
        BY <2>1, <3>2
    <2>2. CASE a \notin FuelRecords
      <3>1. a = x /\ S = {x}
        BY <1>1, <2>2
      <3>2. a \notin fuelReadings
        BY <2>2 DEF FuelRecords
      <3>3. a.what = "reading"
        BY <1>9, <3>2 DEF Timely
      <3> QED
        BY <3>1, <3>3
    <2> QED
      BY <2>1, <2>2
  <1>10. LevelFollows'
    <2>1. ASSUME NEW a \in FuelRecords', Timely(a)'
          PROVE  /\ Off(fuelLevel' - a.litres - Net(moves', fuelLeaks', a.ts, fuelNow' + 1))
                 /\ fuelLevel' - a.litres - Net(moves', fuelLeaks', a.ts, fuelNow' + 1) <= 0
      <3>1. CASE a \in FuelRecords /\ Timely(a)
        <4>1. PICK n : n = Net(moves, fuelLeaks, a.ts, fuelNow + 1)
          OBVIOUS
        <4>2. n \in Int
          BY <1>1, <4>1, NetCounts
        <4>3. Off(fuelLevel - a.litres - n) /\ fuelLevel - a.litres - n <= 0
          BY <3>1, <4>1 DEF FuelInv, LevelFollows
        <4>4. a.ts \in Nat /\ a.ts <= fuelNow /\ a.litres \in Int
          BY <1>2, <3>1
        <4>5. Net(moves', fuelLeaks', a.ts, fuelNow' + 1)
                = n + FuelLitres * d - FuelLitres * p - FuelLitres * l
          BY <1>8, <4>1, <4>4
        <4>6. PICK z \in Int : z = FuelLitres * d - FuelLitres * p - FuelLitres * l
          BY FuelNumbers
        <4>7. Net(moves', fuelLeaks', a.ts, fuelNow' + 1) = n + z /\ fuelLevel' = fuelLevel + z
          BY <1>1, <4>2, <4>5, <4>6, FuelNumbers
        <4>8. fuelLevel' - a.litres - (n + z) = fuelLevel - a.litres - n
          BY <1>1, <4>2, <4>4, <4>7
        <4> QED
          BY <4>3, <4>7, <4>8
      <3>2. CASE a = x /\ S = {x} /\ x.what = "reading"
        <4>1. fuelLevel' = fuelLevel
          <5>1. FuelLitres * 0 = 0
            BY FuelNumbers
          <5> QED
            BY <1>1, <3>2, <5>1
        <4>2. \A m \in moves' : m.ts \in Nat
          BY <1>1, <1>2, <1>3
        <4>3. fuelLeaks' \subseteq Nat
          BY <1>5 DEF FuelTypes
        <4>4. PICK m1 : m1 = moves'
          OBVIOUS
        <4>5. PICK k1 : k1 = fuelLeaks'
          OBVIOUS
        <4>9. (\A m \in m1 : m.ts \in Nat) /\ k1 \subseteq Nat
          BY <4>2, <4>3, <4>4, <4>5
        <4>6. Net(m1, k1, next, next + 1) = 0
          BY <1>1, <4>9, NetOfMoment
        <4>7. Net(moves', fuelLeaks', a.ts, fuelNow' + 1) = 0
          BY <1>1, <1>3, <3>2, <4>4, <4>5, <4>6
        <4>8. fuelLevel - x.litres - 0 <= 0 /\ Off(fuelLevel - x.litres - 0)
          BY <1>1, <1>3, <3>2, FuelNumbers DEF Off
        <4> QED
          BY <3>2, <4>1, <4>7, <4>8
      <3> QED
        BY <1>9, <2>1, <3>1, <3>2
    <2> QED
      BY <2>1 DEF LevelFollows, moves
  <1>11. DipsFollow'
    <2>1. ASSUME NEW a \in FuelRecords', NEW b \in FuelRecords', Timely(a)', b.what = "reading", a.ts < b.ts
          PROVE  Off(b.litres - a.litres - Net(moves', fuelLeaks', a.ts, b.ts))
      <3>1. b.ts \in Nat /\ b.ts <= next
        BY <1>1, <1>2, <1>3
      <3>2. a \in FuelRecords /\ Timely(a)
        BY <1>1, <1>2, <1>3, <1>9, <2>1, <3>1
      <3>3. Net(moves', fuelLeaks', a.ts, b.ts) = Net(moves, fuelLeaks, a.ts, b.ts)
        BY <1>7, <3>1
      <3>4. CASE b \in FuelRecords
        BY <2>1, <3>2, <3>3, <3>4 DEF FuelInv, DipsFollow
      <3>5. CASE b \notin FuelRecords
        <4>1. b = x /\ b.ts = fuelNow + 1
          BY <1>1, <1>3, <3>5
        <4>2. PICK n : n = Net(moves, fuelLeaks, a.ts, fuelNow + 1)
          OBVIOUS
        <4>3. n \in Int /\ a.litres \in Int
          BY <1>1, <1>2, <3>2, <4>2, NetCounts
        <4>4. Off(fuelLevel - a.litres - n) /\ fuelLevel - a.litres - n <= 0
          BY <3>2, <4>2 DEF FuelInv, LevelFollows
        <4>5. fuelLevel <= b.litres /\ b.litres <= fuelLevel + DipError /\ b.litres \in Int
          BY <1>3, <2>1, <4>1
        <4>6. Off(b.litres - a.litres - n)
          BY <1>1, <4>3, <4>4, <4>5, FuelNumbers DEF Off
        <4> QED
          BY <3>3, <4>1, <4>2, <4>6
      <3> QED
        BY <3>4, <3>5
    <2> QED
      BY <2>1 DEF DipsFollow, moves
  <1>12. ReportFollows'
    <2>1. UNCHANGED <<fuelReport, fuelReadings>>
      OBVIOUS
    <2>2. ASSUME NEW a, NEW b, Compares(a, b)
          PROVE  Compares(a, b)' /\ b.ts \in Nat /\ b.ts < next
      BY <1>1, <2>1, <2>2 DEF Compares, Dips
    <2>3. ASSUME NEW a, NEW b, Compares(a, b), \A s \in fuelSlips : b.ts < s.ts,
                 Off(b.litres - a.litres - Net(moves, fuelLeaks, a.ts, b.ts))
          PROVE  /\ \A s \in fuelSlips' : b.ts < s.ts
                 /\ Off(b.litres - a.litres - Net(moves', fuelLeaks', a.ts, b.ts))
      <3>1. b.ts \in Nat /\ b.ts < next /\ b.ts <= next
        BY <1>1, <2>2, <2>3
      <3>2. \A s \in fuelSlips' : b.ts < s.ts
        BY <1>3, <2>3, <3>1
      <3>3. Net(moves', fuelLeaks', a.ts, b.ts) = Net(moves, fuelLeaks, a.ts, b.ts)
        BY <1>7, <3>1
      <3> QED
        BY <2>3, <3>2, <3>3
    <2>4. ReportFollows
      BY DEF FuelInv
    <2> QED
      BY <2>1, <2>2, <2>3, <2>4 DEF ReportFollows, moves
  <1>13. FlaggedIffLeaked'
    <2>1. CASE fuelReport.status \in {"ok", "flagged"}
      <3>1. PICK a, b \in fuelReport.rows : Compares(a, b)
        BY <2>1 DEF FuelInv, ReportFollows
      <3>2. Opening(fuelReport.rows) = a /\ Closing(fuelReport.rows) = b /\ b.ts \in Nat /\ b.ts <= fuelNow
        BY <3>1, ReportEnds DEF Compares, Dips
      <3>3. (\E t \in fuelLeaks' : t > a.ts /\ t < b.ts) <=> (\E t \in fuelLeaks : t > a.ts /\ t < b.ts)
        BY <1>1, <3>2
      <3> QED
        BY <3>2, <3>3 DEF FuelInv, FlaggedIffLeaked
    <2>2. CASE fuelReport.status \notin {"ok", "flagged"}
      BY <2>2 DEF FlaggedIffLeaked
    <2> QED
      BY <2>1, <2>2
  <1> QED
    BY <1>5, <1>6, <1>10, <1>11, <1>12, <1>13 DEF FuelInv

\* Every event at the tank is one PourKeeps speaks of.
LEMMA TankEvents ==
  ASSUME FuelInv, Deliver \/ Dispense \/ FuelOutside \/ Leak \/ \E error \in 0 .. DipError : Dip(error)
  PROVE  FuelInv'
  <1>1. fuelNow \in Nat /\ fuelLevel \in Int
    BY DEF FuelInv, FuelTypes
  <1>2. FuelLitres \in Nat /\ DipError \in Nat /\ FuelLitres * 0 = 0 /\ FuelLitres * 1 = FuelLitres
    BY FuelNumbers
  <1>3. \A what \in {"delivery", "dispense"}, tank \in {"tank", "none"} :
          /\ Txn(what, tank) \in FuelTransactions /\ Txn(what, tank).ts = fuelNow + 1
          /\ Txn(what, tank).what = what /\ Txn(what, tank).tank = tank
    BY <1>1, <1>2 DEF Txn, FuelTransactions
  <1>4. CASE Deliver
    <2> DEFINE x == Txn("delivery", "tank")
    <2>1. x \in FuelTransactions /\ x.ts = fuelNow + 1 /\ x.what = "delivery" /\ x.tank = "tank"
      BY <1>3
    <2>2. /\ fuelNow' = fuelNow + 1 /\ fuelSlips' = fuelSlips \cup {x}
          /\ fuelLevel' = fuelLevel + FuelLitres /\ fuelLeaks' = fuelLeaks
          /\ UNCHANGED <<fuelTxns, fuelReadings, fuelLate, fuelReport, fuelLeft>>
      BY <1>4 DEF Deliver, Pour
    <2> HIDE DEF x
    <2>3. fuelLevel' = fuelLevel + FuelLitres * 1 - FuelLitres * 0 - FuelLitres * 0
      BY <1>1, <1>2, <2>2
    <2>4. /\ {m \in {x} : m.tank = "tank" /\ m.what = "delivery"} = {x}
          /\ {m \in {x} : m.tank = "tank" /\ m.what = "dispense"} = {}
      BY <2>1
    <2>9. Moved(x, {x}, 1, 0, 0)
      BY <2>1, <2>2, <2>3, <2>4 DEF Moved
    <2> QED
      BY <2>9, PourKeeps
  <1>5. CASE Dispense
    <2> DEFINE x == Txn("dispense", "tank")
    <2>1. x \in FuelTransactions /\ x.ts = fuelNow + 1 /\ x.what = "dispense" /\ x.tank = "tank"
      BY <1>3
    <2>2. /\ fuelNow' = fuelNow + 1 /\ fuelSlips' = fuelSlips \cup {x}
          /\ fuelLevel' = fuelLevel + (-FuelLitres) /\ fuelLeaks' = fuelLeaks
          /\ UNCHANGED <<fuelTxns, fuelReadings, fuelLate, fuelReport, fuelLeft>>
      BY <1>5 DEF Dispense, Pour
    <2> HIDE DEF x
    <2>3. fuelLevel' = fuelLevel + FuelLitres * 0 - FuelLitres * 1 - FuelLitres * 0
      BY <1>1, <1>2, <2>2
    <2>4. /\ {m \in {x} : m.tank = "tank" /\ m.what = "delivery"} = {}
          /\ {m \in {x} : m.tank = "tank" /\ m.what = "dispense"} = {x}
      BY <2>1
    <2>9. Moved(x, {x}, 0, 1, 0)
      BY <2>1, <2>2, <2>3, <2>4 DEF Moved
    <2> QED
      BY <2>9, PourKeeps
  <1>6. CASE FuelOutside
    <2> DEFINE x == Txn("dispense", "none")
    <2>1. x \in FuelTransactions /\ x.ts = fuelNow + 1 /\ x.what = "dispense" /\ x.tank = "none"
      BY <1>3
    <2>2. /\ fuelNow' = fuelNow + 1 /\ fuelSlips' = fuelSlips \cup {x}
          /\ fuelLevel' = fuelLevel + 0 /\ fuelLeaks' = fuelLeaks
          /\ UNCHANGED <<fuelTxns, fuelReadings, fuelLate, fuelReport, fuelLeft>>
      BY <1>6 DEF FuelOutside, Pour
    <2> HIDE DEF x
    <2>3. fuelLevel' = fuelLevel + FuelLitres * 0 - FuelLitres * 0 - FuelLitres * 0
      BY <1>1, <1>2, <2>2
    <2>4. /\ {m \in {x} : m.tank = "tank" /\ m.what = "delivery"} = {}
          /\ {m \in {x} : m.tank = "tank" /\ m.what = "dispense"} = {}
      BY <2>1
    <2>9. Moved(x, {x}, 0, 0, 0)
      BY <2>1, <2>2, <2>3, <2>4 DEF Moved
    <2> QED
      BY <2>9, PourKeeps
  <1>7. CASE Leak
    <2> DEFINE x == Txn("delivery", "tank")
    <2>1. x \in FuelTransactions /\ x.ts = fuelNow + 1 /\ x.what = "delivery"
      BY <1>3
    <2>2. /\ fuelNow' = fuelNow + 1 /\ fuelSlips' = fuelSlips \cup {}
          /\ fuelLevel' = fuelLevel + (-FuelLitres) /\ fuelLeaks' = fuelLeaks \cup {fuelNow + 1}
          /\ UNCHANGED <<fuelTxns, fuelReadings, fuelLate, fuelReport, fuelLeft>>
      BY <1>7 DEF Leak, Pour
    <2> HIDE DEF x
    <2>3. fuelLevel' = fuelLevel + FuelLitres * 0 - FuelLitres * 0 - FuelLitres * 1
      BY <1>1, <1>2, <2>2
    <2>4. /\ {m \in {} : m.tank = "tank" /\ m.what = "delivery"} = {}
          /\ {m \in {} : m.tank = "tank" /\ m.what = "dispense"} = {}
      OBVIOUS
    <2>9. Moved(x, {}, 0, 0, 1)
      BY <2>1, <2>2, <2>3, <2>4 DEF Moved
    <2> QED
      BY <2>9, PourKeeps
  <1>8. CASE \E error \in 0 .. DipError : Dip(error)
    <2>1. PICK error \in 0 .. DipError : Dip(error)
      BY <1>8
    <2> DEFINE x == [ts |-> fuelNow + 1, what |-> "reading", tank |-> "tank", litres |-> fuelLevel + error]
    <2>2. /\ x \in Dips /\ x.ts = fuelNow + 1 /\ x.what = "reading"
          /\ fuelLevel <= x.litres /\ x.litres <= fuelLevel + DipError
      BY <1>1, <1>2 DEF Dips
    <2>3. /\ fuelNow' = fuelNow + 1 /\ fuelSlips' = fuelSlips \cup {x}
          /\ fuelLevel' = fuelLevel + 0 /\ fuelLeaks' = fuelLeaks
          /\ UNCHANGED <<fuelTxns, fuelReadings, fuelLate, fuelReport, fuelLeft>>
      BY <2>1 DEF Dip, Pour
    <2> HIDE DEF x
    <2>4. fuelLevel' = fuelLevel + FuelLitres * 0 - FuelLitres * 0 - FuelLitres * 0
      BY <1>1, <1>2, <2>3
    <2>5. /\ {m \in {x} : m.tank = "tank" /\ m.what = "delivery"} = {}
          /\ {m \in {x} : m.tank = "tank" /\ m.what = "dispense"} = {}
      BY <2>2
    <2>9. Moved(x, {x}, 0, 0, 0)
      BY <2>2, <2>3, <2>4, <2>5 DEF Moved
    <2> QED
      BY <2>9, PourKeeps
  <1> QED
    BY <1>4, <1>5, <1>6, <1>7, <1>8

\* Records come and go without disturbing what is known of the tank, as long as what was
\* metered after a timely dip stays.
LEMMA FollowKeeps ==
  ASSUME FuelInv, UNCHANGED <<fuelNow, fuelLevel, fuelLeaks>>, FuelRecords' \subseteq FuelRecords,
         \A a \in FuelRecords' : Timely(a)' =>
           /\ Timely(a)
           /\ \A what \in {"delivery", "dispense"}, hi \in Nat :
                Metered((fuelTxns \cup fuelSlips)', what, a.ts, hi)
                  = Metered(fuelTxns \cup fuelSlips, what, a.ts, hi)
  PROVE  OneAtOneTime' /\ LevelFollows' /\ DipsFollow'
  <1> DEFINE moves == fuelTxns \cup fuelSlips
  <1>1. OneAtOneTime'
    BY DEF FuelInv, OneAtOneTime
  <1>2. fuelNow + 1 \in Nat /\ \A x \in FuelRecords : x.ts \in Nat
    BY FuelKinds DEF FuelInv, FuelTypes
  <1>3. ASSUME NEW a \in FuelRecords', Timely(a)', NEW hi \in Nat
        PROVE  Net(moves', fuelLeaks', a.ts, hi) = Net(moves, fuelLeaks, a.ts, hi)
    <2>1. PICK m1 : m1 = moves'
      OBVIOUS
    <2>2. PICK m0 : m0 = moves
      OBVIOUS
    <2>3. \A what \in {"delivery", "dispense"} : Metered(m1, what, a.ts, hi) = Metered(m0, what, a.ts, hi)
      BY <1>3, <2>1, <2>2
    <2>4. Net(m1, fuelLeaks, a.ts, hi) = Net(m0, fuelLeaks, a.ts, hi)
      BY <2>3, NetSame
    <2> HIDE DEF moves
    <2> QED
      BY <2>1, <2>2, <2>4
  <1>4. LevelFollows'
    <2>1. ASSUME NEW a \in FuelRecords', Timely(a)'
          PROVE  /\ Off(fuelLevel' - a.litres - Net(moves', fuelLeaks', a.ts, fuelNow' + 1))
                 /\ fuelLevel' - a.litres - Net(moves', fuelLeaks', a.ts, fuelNow' + 1) <= 0
      <3>1. Net(moves', fuelLeaks', a.ts, fuelNow' + 1) = Net(moves, fuelLeaks, a.ts, fuelNow + 1)
        BY <1>2, <1>3, <2>1
      <3>2. a \in FuelRecords /\ Timely(a)
        BY <2>1
      <3> QED
        BY <3>1, <3>2 DEF FuelInv, LevelFollows
    <2> QED
      BY <2>1 DEF LevelFollows, moves
  <1>5. DipsFollow'
    <2>1. ASSUME NEW a \in FuelRecords', NEW b \in FuelRecords', Timely(a)', b.what = "reading", a.ts < b.ts
          PROVE  Off(b.litres - a.litres - Net(moves', fuelLeaks', a.ts, b.ts))
      <3>1. Net(moves', fuelLeaks', a.ts, b.ts) = Net(moves, fuelLeaks, a.ts, b.ts)
        BY <1>2, <1>3, <2>1
      <3>2. a \in FuelRecords /\ Timely(a) /\ b \in FuelRecords
        BY <2>1
      <3> QED
        BY <2>1, <3>1, <3>2 DEF FuelInv, DipsFollow
    <2> QED
      BY <2>1 DEF DipsFollow, moves
  <1> QED
    BY <1>1, <1>4, <1>5

\* A report whose records stay keeps what is known of it.
LEMMA ReportKeeps ==
  ASSUME FuelInv, UNCHANGED <<fuelNow, fuelLeaks, fuelReport>>, fuelReadings \subseteq fuelReadings',
         fuelSlips' \subseteq fuelSlips,
         \A a \in fuelReadings : \A what \in {"delivery", "dispense"}, hi \in Nat :
           Metered((fuelTxns \cup fuelSlips)', what, a.ts, hi)
             = Metered(fuelTxns \cup fuelSlips, what, a.ts, hi)
  PROVE  ReportFollows' /\ FlaggedIffLeaked'
  <1> DEFINE moves == fuelTxns \cup fuelSlips
  <1>1. \A a, b : Compares(a, b)' <=> Compares(a, b)
    BY DEF Compares
  <1>2. \A x \in fuelReadings : x.ts \in Nat
    BY FuelKinds DEF FuelInv, FuelRecords
  <1>3. ASSUME NEW a \in fuelReadings, NEW b \in fuelReadings
        PROVE  Net(moves', fuelLeaks', a.ts, b.ts) = Net(moves, fuelLeaks, a.ts, b.ts)
    <2>1. PICK m1 : m1 = moves'
      OBVIOUS
    <2>2. PICK m0 : m0 = moves
      OBVIOUS
    <2>3. \A what \in {"delivery", "dispense"} : Metered(m1, what, a.ts, b.ts) = Metered(m0, what, a.ts, b.ts)
      BY <1>2, <2>1, <2>2
    <2>4. Net(m1, fuelLeaks, a.ts, b.ts) = Net(m0, fuelLeaks, a.ts, b.ts)
      BY <2>3, NetSame
    <2> HIDE DEF moves
    <2> QED
      BY <2>1, <2>2, <2>4
  <1>4. ReportFollows'
    BY <1>1, <1>3 DEF FuelInv, ReportFollows, moves
  <1>5. FlaggedIffLeaked'
    BY DEF FuelInv, FlaggedIffLeaked
  <1> QED
    BY <1>4, <1>5

\* A transaction is written into the table.
LEMMA TransactionKeeps ==
  ASSUME FuelInv, NEW slip \in fuelSlips, RecordTransaction(slip) PROVE FuelInv'
  <1>1. /\ slip \in fuelSlips /\ fuelTxns' = fuelTxns \cup {slip} /\ fuelSlips' = fuelSlips \ {slip}
        /\ slip.what \in {"delivery", "dispense"}
        /\ UNCHANGED <<fuelNow, fuelLevel, fuelLeaks, fuelReadings, fuelLate, fuelReport>>
    BY DEF RecordTransaction, TransactionValid
  <1>2. (fuelTxns \cup fuelSlips)' = fuelTxns \cup fuelSlips /\ FuelRecords' = FuelRecords
    BY <1>1 DEF FuelRecords
  <1>3. slip \in FuelTransactions
    BY <1>1, FuelKinds DEF FuelInv, FuelRecords
  <1>4. FuelTypes'
    <2>1. IsFiniteSet(fuelTxns')
      BY <1>1, FS_AddElement DEF FuelInv, FuelTypes
    <2>2. IsFiniteSet(fuelSlips')
      BY <1>1, FS_Subset DEF FuelInv, FuelTypes
    <2> QED
      BY <1>1, <1>3, <2>1, <2>2 DEF FuelInv, FuelTypes
  <1>5. \A a : Timely(a)' => Timely(a)
    BY <1>1 DEF Timely
  <1>6. OneAtOneTime' /\ LevelFollows' /\ DipsFollow'
    BY <1>1, <1>2, <1>5, FollowKeeps
  <1>7. ReportFollows' /\ FlaggedIffLeaked'
    BY <1>1, <1>2, ReportKeeps
  <1> QED
    BY <1>4, <1>6, <1>7 DEF FuelInv

\* A dip is written into the table: what is metered is the same, and it is timely only if it
\* was on paper.
LEMMA ReadingKeeps ==
  ASSUME FuelInv, NEW slip \in fuelSlips, RecordTankReading(slip) PROVE FuelInv'
  <1>1. /\ slip \in fuelSlips /\ fuelReadings' = fuelReadings \cup {slip} /\ fuelSlips' = fuelSlips \ {slip}
        /\ slip.what = "reading" /\ fuelLate' = fuelLate \cup {x \in {slip} : x.ts < fuelNow - KeepFuel}
        /\ UNCHANGED <<fuelNow, fuelLevel, fuelLeaks, fuelTxns, fuelReport>>
    BY DEF RecordTankReading
  <1>2. FuelRecords' = FuelRecords
    BY <1>1 DEF FuelRecords
  <1>3. slip \in Dips /\ slip.ts \in Nat /\ fuelNow \in Nat
    BY <1>1, FuelKinds DEF FuelInv, FuelTypes, FuelRecords
  <1>4. FuelTypes'
    <2>1. IsFiniteSet(fuelReadings')
      BY <1>1, FS_AddElement DEF FuelInv, FuelTypes
    <2>2. IsFiniteSet(fuelSlips')
      BY <1>1, FS_Subset DEF FuelInv, FuelTypes
    <2> QED
      BY <1>1, <1>3, <2>1, <2>2 DEF FuelInv, FuelTypes
  <1>5. \A what \in {"delivery", "dispense"} : \A lo, hi :
          Metered((fuelTxns \cup fuelSlips)', what, lo, hi) = Metered(fuelTxns \cup fuelSlips, what, lo, hi)
    <2>1. ASSUME NEW what \in {"delivery", "dispense"}, NEW lo, NEW hi
          PROVE  Metered((fuelTxns \cup fuelSlips)', what, lo, hi) = Metered(fuelTxns \cup fuelSlips, what, lo, hi)
      <3>1. (fuelTxns \cup fuelSlips)' \subseteq fuelTxns \cup fuelSlips
        BY <1>1
      <3>2. \A m \in fuelTxns \cup fuelSlips : m \in (fuelTxns \cup fuelSlips)' \/ m.what = "reading"
        BY <1>1
      <3> QED
        BY <3>1, <3>2 DEF Metered
    <2> QED
      BY <2>1
  <1>6. \A a : Timely(a)' => Timely(a)
    <2>1. ASSUME NEW a, Timely(a)' PROVE Timely(a)
      <3>1. CASE a = slip
        BY <1>1, <1>3, <2>1, <3>1, FuelNumbers DEF Timely
      <3>2. CASE a # slip
        BY <1>1, <2>1, <3>2 DEF Timely
      <3> QED
        BY <3>1, <3>2
    <2> QED
      BY <2>1
  <1>7. OneAtOneTime' /\ LevelFollows' /\ DipsFollow'
    <2>1. UNCHANGED <<fuelNow, fuelLevel, fuelLeaks>> /\ FuelRecords' \subseteq FuelRecords
      BY <1>1, <1>2
    <2>2. \A a \in FuelRecords' : Timely(a)' =>
            /\ Timely(a)
            /\ \A what \in {"delivery", "dispense"}, hi \in Nat :
                 Metered((fuelTxns \cup fuelSlips)', what, a.ts, hi)
                   = Metered(fuelTxns \cup fuelSlips, what, a.ts, hi)
      BY <1>5, <1>6
    <2> QED
      BY <2>1, <2>2, FollowKeeps
  <1>8. ReportFollows' /\ FlaggedIffLeaked'
    BY <1>1, <1>5, ReportKeeps
  <1> QED
    BY <1>4, <1>7, <1>8 DEF FuelInv

\* Retention leaves everything after a timely dip, and spoils the report under way.
LEMMA PurgeKeeps ==
  ASSUME FuelInv, PurgeFuel PROVE FuelInv'
  <1> DEFINE kept(x) == x.ts >= fuelNow - KeepFuel
  <1>1. /\ fuelTxns' = {x \in fuelTxns : kept(x)} /\ fuelReadings' = {x \in fuelReadings : kept(x)}
        /\ fuelReport' = [fuelReport EXCEPT !.complete = FALSE]
        /\ UNCHANGED <<fuelNow, fuelLevel, fuelLeaks, fuelSlips, fuelLate>>
    BY DEF PurgeFuel
  <1>2. FuelRecords' \subseteq FuelRecords
    BY <1>1 DEF FuelRecords
  <1>3. fuelNow \in Nat /\ \A x \in FuelRecords : x.ts \in Nat
    BY FuelKinds DEF FuelInv, FuelTypes
  <1>4. FuelTypes'
    <2>1. IsFiniteSet(fuelTxns') /\ IsFiniteSet(fuelReadings')
      BY <1>1, FS_Subset DEF FuelInv, FuelTypes
    <2> QED
      BY <1>1, <2>1 DEF FuelInv, FuelTypes
  <1>5. ASSUME NEW a \in FuelRecords', Timely(a)'
        PROVE  /\ Timely(a)
               /\ \A what \in {"delivery", "dispense"}, hi \in Nat :
                    Metered((fuelTxns \cup fuelSlips)', what, a.ts, hi)
                      = Metered(fuelTxns \cup fuelSlips, what, a.ts, hi)
    <2>1. Timely(a) /\ a.ts >= fuelNow - KeepFuel /\ a.ts \in Nat
      BY <1>1, <1>2, <1>3, <1>5 DEF Timely
    <2>2. \A m \in FuelRecords : a.ts < m.ts => kept(m)
      BY <1>3, <2>1, FuelNumbers
    <2>3. (fuelTxns \cup fuelSlips)' \subseteq fuelTxns \cup fuelSlips
      BY <1>1
    <2>4. \A m \in fuelTxns \cup fuelSlips : a.ts < m.ts => m \in (fuelTxns \cup fuelSlips)'
      BY <1>1, <2>2 DEF FuelRecords
    <2>5. \A what, hi : Metered((fuelTxns \cup fuelSlips)', what, a.ts, hi)
                          = Metered(fuelTxns \cup fuelSlips, what, a.ts, hi)
      BY <2>3, <2>4 DEF Metered
    <2> QED
      BY <2>1, <2>5
  <1>6. OneAtOneTime' /\ LevelFollows' /\ DipsFollow'
    <2>1. UNCHANGED <<fuelNow, fuelLevel, fuelLeaks>>
      BY <1>1
    <2>2. \A a \in FuelRecords' : Timely(a)' =>
            /\ Timely(a)
            /\ \A what \in {"delivery", "dispense"}, hi \in Nat :
                 Metered((fuelTxns \cup fuelSlips)', what, a.ts, hi)
                   = Metered(fuelTxns \cup fuelSlips, what, a.ts, hi)
      BY <1>5
    <2> QED
      BY <1>2, <2>1, <2>2, FollowKeeps
  <1>7. fuelReport' = [phase |-> fuelReport.phase, rows |-> fuelReport.rows, complete |-> FALSE,
                       status |-> fuelReport.status]
    BY <1>1 DEF FuelInv, ReportFollows
  <1>8. \A a, b : Compares(a, b)' <=> Compares(a, b)
    BY <1>1, <1>7 DEF Compares
  <1>9. ReportFollows'
    BY <1>7, <1>8 DEF FuelInv, ReportFollows
  <1>10. FlaggedIffLeaked'
    BY <1>7 DEF FlaggedIffLeaked
  <1> QED
    BY <1>4, <1>6, <1>9, <1>10 DEF FuelInv

\* The reconciliation reads the first and the last dip of the window.
LEMMA LevelsKeep ==
  ASSUME FuelInv, NEW since, NEW until, ReadLevels(since, until) PROVE FuelInv'
  <1> DEFINE rows == {x \in fuelReadings : x.ts >= since /\ x.ts < until}
  <1>1. UNCHANGED <<fuelNow, fuelLevel, fuelLeaks, fuelSlips, fuelTxns, fuelReadings, fuelLate>>
    BY DEF ReadLevels
  <1>2. FuelTypes' /\ OneAtOneTime' /\ LevelFollows' /\ DipsFollow'
    BY <1>1 DEF FuelInv, FuelTypes, OneAtOneTime, LevelFollows, DipsFollow, FuelRecords, Timely,
                Net, Metered, Leaked
  <1>3. fuelReport' = IF Cardinality(rows) < 2
                      THEN [NoFuelReport EXCEPT !.phase = "done", !.status = "insufficient_data"]
                      ELSE [phase |-> "levels", rows |-> {Opening(rows), Closing(rows)},
                            complete |-> fuelSlips = {} /\ Opening(rows) \notin fuelLate,
                            status |-> "none"]
    BY DEF ReadLevels
  <1>4. rows \subseteq fuelReadings /\ IsFiniteSet(rows)
    BY FS_Subset DEF FuelInv, FuelTypes
  <1>5. \A x \in fuelReadings : /\ x \in Dips /\ x.ts \in Nat /\ x.what = "reading" /\ x.ts <= fuelNow
                                /\ \A y \in fuelReadings : x.ts = y.ts => x = y
    BY FuelKinds DEF FuelInv, FuelTypes, OneAtOneTime, FuelRecords
  <1>6. fuelNow \in Nat
    BY DEF FuelInv, FuelTypes
  <1> HIDE DEF rows
  <1>7. CASE Cardinality(rows) < 2
    <2>1. fuelReport' = [phase |-> "done", rows |-> {}, complete |-> TRUE, status |-> "insufficient_data"]
      BY <1>3, <1>7 DEF NoFuelReport
    <2>2. ReportFollows' /\ FlaggedIffLeaked'
      BY <2>1 DEF ReportFollows, FlaggedIffLeaked
    <2> QED
      BY <1>2, <2>2 DEF FuelInv
  <1>8. CASE ~ (Cardinality(rows) < 2)
    <2>1. rows # {} /\ \A x : rows # {x}
      <3>1. ASSUME rows = {} PROVE FALSE
        <4>1. Cardinality(rows) = 0
          BY <3>1, FS_EmptySet
        <4> QED
          BY <1>8, <4>1
      <3>2. ASSUME NEW x, rows = {x} PROVE FALSE
        <4>1. Cardinality(rows) = 1
          BY <3>2, FS_Singleton
        <4> QED
          BY <1>8, <4>1
      <3> QED
        BY <3>1, <3>2
    <2> DEFINE T == {x.ts : x \in rows}
    <2>2. T \subseteq Nat /\ T # {} /\ \A t \in T : t <= fuelNow
      BY <1>4, <1>5, <2>1
    <2>3. PICK p \in T : \A t \in T : p <= t
      BY <2>2, LeastNat
    <2>4. PICK q \in T : \A t \in T : t <= q
      <3>1. T \subseteq Int /\ fuelNow \in Int
        BY <1>6, <2>2
      <3> HIDE DEF T
      <3> QED
        BY <2>2, <3>1, GreatestInt
    <2>5. PICK a \in rows : a.ts = p
      OBVIOUS
    <2>6. PICK b \in rows : b.ts = q
      OBVIOUS
    <2>7. \A x \in rows : x \in fuelReadings /\ x.ts \in Nat /\ a.ts <= x.ts /\ x.ts <= b.ts
      BY <1>4, <1>5, <2>3, <2>4, <2>5, <2>6
    <2>8. a.ts < b.ts
      <3>1. SUFFICES ASSUME ~ (a.ts < b.ts) PROVE FALSE
        OBVIOUS
      <3>2. \A x \in rows : x.ts = a.ts
        BY <2>7, <3>1
      <3>3. \A x \in rows : x = a
        BY <1>5, <2>7, <3>2
      <3> QED
        BY <2>1, <3>3
    <2>9. Opening(rows) = a /\ Closing(rows) = b
      <3>1. \A x \in rows : (\A y \in rows : x.ts <= y.ts) <=> x = a
        BY <1>5, <2>7
      <3>2. \A x \in rows : (\A y \in rows : x.ts >= y.ts) <=> x = b
        BY <1>5, <2>7
      <3>3. Opening(rows) = a
        BY <3>1 DEF Opening
      <3>4. Closing(rows) = b
        BY <3>2 DEF Closing
      <3> QED
        BY <3>3, <3>4
    <2>10. fuelReport' = [phase |-> "levels", rows |-> {a, b},
                          complete |-> fuelSlips = {} /\ a \notin fuelLate, status |-> "none"]
      BY <1>3, <1>8, <2>9
    <2>11. a \in fuelReadings /\ b \in fuelReadings /\ a \in Dips /\ b \in Dips /\ b.ts <= fuelNow
      BY <1>5, <2>7
    <2>12. Compares(a, b)'
      BY <1>1, <2>8, <2>10, <2>11 DEF Compares
    <2>13. ASSUME fuelSlips = {}, a \notin fuelLate
           PROVE  Off(b.litres - a.litres - Net(fuelTxns \cup fuelSlips, fuelLeaks, a.ts, b.ts))
      <3>1. Timely(a) /\ a \in FuelRecords /\ b \in FuelRecords /\ b.what = "reading"
        BY <1>5, <2>11, <2>13 DEF Timely, FuelRecords
      <3> QED
        BY <2>8, <3>1 DEF FuelInv, DipsFollow
    <2>14. fuelReport'.complete =>
             /\ \A s \in fuelSlips' : b.ts < s.ts
             /\ Off(b.litres - a.litres - Net((fuelTxns \cup fuelSlips)', fuelLeaks', a.ts, b.ts))
      BY <1>1, <2>10, <2>13
    <2>15. ReportFollows'
      BY <1>1, <2>10, <2>11, <2>12, <2>14 DEF ReportFollows
    <2>16. FlaggedIffLeaked'
      BY <2>10 DEF FlaggedIffLeaked
    <2> QED
      BY <1>2, <2>15, <2>16 DEF FuelInv
  <1> QED
    BY <1>7, <1>8

\* More than the tolerance is missing exactly when something leaked.
LEMMA LeakShows ==
  ASSUME NEW e, Off(e), NEW r \in Nat, NEW v, v = e - FuelLitres * r
  PROVE  (v > FuelTolerance \/ -v > FuelTolerance) <=> r # 0
  <1>1. e \in Int /\ -DipError <= e /\ e <= DipError
    BY DEF Off
  <1>2. CASE r = 0
    <2>1. v = e
      BY <1>1, <1>2, FuelNumbers
    <2> QED
      BY <1>1, <1>2, <2>1, FuelNumbers
  <1>3. CASE r # 0
    <2>1. PICK k \in Nat : r = k + 1
      <3>1. r - 1 \in Nat /\ r = (r - 1) + 1
        BY <1>3
      <3> QED
        BY <3>1
    <2>2. PICK n \in Nat : n = FuelLitres * k
      BY FuelNumbers
    <2>3. FuelLitres * r = n + FuelLitres
      BY <2>1, <2>2, FuelNumbers
    <2>4. v <= DipError - FuelLitres
      BY <1>1, <2>2, <2>3, FuelNumbers
    <2>5. v \in Int
      BY <1>1, <2>2, <2>3, FuelNumbers
    <2> QED
      BY <1>3, <2>4, <2>5, FuelNumbers
  <1> QED
    BY <1>2, <1>3

\* The transactions between two readings are what was metered between them.
LEMMA ThroughputMetered ==
  ASSUME FuelInv, NEW a \in fuelReadings, NEW b \in fuelReadings, Compares(a, b),
         \A s \in fuelSlips : b.ts < s.ts
  PROVE  LET txns == Throughput(fuelReport.rows)
         IN  /\ {t \in txns : t.what = "delivery"}
                  = Metered(fuelTxns \cup fuelSlips, "delivery", a.ts, b.ts)
             /\ txns \ {t \in txns : t.what = "delivery"}
                  = Metered(fuelTxns \cup fuelSlips, "dispense", a.ts, b.ts)
  <1> DEFINE moves == fuelTxns \cup fuelSlips
  <1>1. Opening(fuelReport.rows) = a /\ Closing(fuelReport.rows) = b
    BY ReportEnds DEF Compares
  <1>2. /\ \A x \in FuelRecords : x.ts \in Nat
        /\ a.what = "reading" /\ b.what = "reading" /\ a \in FuelRecords /\ b \in FuelRecords
        /\ \A t \in fuelTxns : t.what \in {"delivery", "dispense"}
    BY FuelKinds DEF FuelInv, FuelRecords
  <1>3. \A t \in fuelTxns : t \in FuelRecords /\ t.ts # a.ts /\ t.ts # b.ts
    BY <1>2 DEF FuelInv, OneAtOneTime, FuelRecords
  <1>4. \A t \in fuelTxns : (t.ts >= a.ts /\ t.ts <= b.ts) <=> (a.ts < t.ts /\ t.ts < b.ts)
    BY <1>2, <1>3
  <1>5. \A s \in fuelSlips : ~ (s.ts < b.ts)
    <2>1. \A s \in fuelSlips : s.ts \in Nat /\ b.ts \in Nat
      BY <1>2 DEF FuelRecords
    <2> QED
      BY <2>1
  <1>6. Throughput(fuelReport.rows)
          = {t \in moves : t.tank = "tank" /\ t.what \in {"delivery", "dispense"} /\ a.ts < t.ts /\ t.ts < b.ts}
    BY <1>1, <1>2, <1>4, <1>5 DEF Throughput
  <1> QED
    BY <1>6 DEF Metered

\* The reconciliation sums what lies between them.
LEMMA SumKeeps ==
  ASSUME FuelInv, SumThroughput PROVE FuelInv'
  <1> DEFINE v == Variance(fuelReport.rows)
             status == IF v > FuelTolerance \/ -v > FuelTolerance THEN "flagged" ELSE "ok"
  <1>1. UNCHANGED <<fuelNow, fuelLevel, fuelLeaks, fuelSlips, fuelTxns, fuelReadings, fuelLate>>
    BY DEF SumThroughput
  <1>2. FuelTypes' /\ OneAtOneTime' /\ LevelFollows' /\ DipsFollow'
    BY <1>1 DEF FuelInv, FuelTypes, OneAtOneTime, LevelFollows, DipsFollow, FuelRecords, Timely,
                Net, Metered, Leaked
  <1>3. /\ fuelReport.phase = "levels"
        /\ fuelReport' = [fuelReport EXCEPT !.phase = "done", !.status = status]
    BY DEF SumThroughput
  <1> HIDE DEF status
  <1>4. fuelReport' = [phase |-> "done", rows |-> fuelReport.rows, complete |-> fuelReport.complete,
                       status |-> status]
    BY <1>3 DEF FuelInv, ReportFollows
  <1>5. \A a, b : Compares(a, b)' <=> Compares(a, b)
    BY <1>1, <1>4 DEF Compares
  <1>6. \E a, b \in fuelReport.rows : Compares(a, b)
    BY <1>3 DEF FuelInv, ReportFollows
  <1>7. ReportFollows'
    BY <1>4, <1>5, <1>6 DEF ReportFollows
  <1>8. FlaggedIffLeaked'
    <2>1. SUFFICES ASSUME fuelReport.complete
                   PROVE  status = "flagged" <=>
                            \E t \in fuelLeaks : t > Opening(fuelReport.rows).ts /\ t < Closing(fuelReport.rows).ts
      BY <1>1, <1>4 DEF FlaggedIffLeaked
    <2>2. PICK a, b \in fuelReadings :
            /\ Compares(a, b) /\ \A s \in fuelSlips : b.ts < s.ts
            /\ Off(b.litres - a.litres - Net(fuelTxns \cup fuelSlips, fuelLeaks, a.ts, b.ts))
      BY <1>3, <2>1 DEF FuelInv, ReportFollows
    <2>3. Opening(fuelReport.rows) = a /\ Closing(fuelReport.rows) = b
      BY <2>2, ReportEnds DEF Compares
    <2>4. PICK m : m = fuelTxns \cup fuelSlips
      OBVIOUS
    <2>5. IsFiniteSet(m) /\ IsFiniteSet(fuelLeaks)
      <3>1. IsFiniteSet(fuelTxns \cup fuelSlips)
        BY FS_Union DEF FuelInv, FuelTypes
      <3> QED
        BY <2>4, <3>1 DEF FuelInv, FuelTypes
    <2>6. PICK i \in Nat : i = Cardinality(Metered(m, "delivery", a.ts, b.ts))
      BY <2>5, NetCounts
    <2>7. PICK j \in Nat : j = Cardinality(Metered(m, "dispense", a.ts, b.ts))
      BY <2>5, NetCounts
    <2>8. PICK r \in Nat : r = Cardinality(Leaked(fuelLeaks, a.ts, b.ts))
      BY <2>5, NetCounts
    <2>9. a.litres \in Int /\ b.litres \in Int
      BY <2>2 DEF Compares, Dips
    <2>10. PICK fi \in Int : fi = FuelLitres * i
      BY <2>6, FuelNumbers
    <2>11. PICK fj \in Int : fj = FuelLitres * j
      BY <2>7, FuelNumbers
    <2>12. PICK fr \in Int : fr = FuelLitres * r
      BY <2>8, FuelNumbers
    <2>13. Net(m, fuelLeaks, a.ts, b.ts) = fi - fj - fr
      BY <2>6, <2>7, <2>8, <2>10, <2>11, <2>12 DEF Net
    <2>14. v = b.litres - (a.litres + fi - fj)
      <3>1. LET txns == Throughput(fuelReport.rows)
            IN  /\ {t \in txns : t.what = "delivery"} = Metered(m, "delivery", a.ts, b.ts)
                /\ txns \ {t \in txns : t.what = "delivery"} = Metered(m, "dispense", a.ts, b.ts)
        BY <2>2, <2>4, ThroughputMetered
      <3>2. LET txns == Throughput(fuelReport.rows)
                deliveries == {t \in txns : t.what = "delivery"}
            IN  v = b.litres - (a.litres + Litres(deliveries) - Litres(txns \ deliveries))
        BY <2>3 DEF Variance
      <3> QED
        BY <2>6, <2>7, <2>10, <2>11, <3>1, <3>2 DEF Litres
    <2>15. PICK e \in Int : e = b.litres - a.litres - (fi - fj - fr)
      BY <2>9
    <2>16. Off(e)
      BY <2>2, <2>4, <2>13, <2>15
    <2> HIDE DEF v
    <2>17. v = e - FuelLitres * r
      BY <2>9, <2>12, <2>14, <2>15
    <2>18. (v > FuelTolerance \/ -v > FuelTolerance) <=> r # 0
      BY <2>16, <2>17, LeakShows
    <2>19. r # 0 <=> Leaked(fuelLeaks, a.ts, b.ts) # {}
      BY <2>5, <2>8, NetCounts, FS_EmptySet
    <2>20. Leaked(fuelLeaks, a.ts, b.ts) # {} <=> \E t \in fuelLeaks : t > a.ts /\ t < b.ts
      BY DEF Leaked
    <2> QED
      BY <2>3, <2>18, <2>19, <2>20 DEF status
  <1> QED
    BY <1>2, <1>7, <1>8 DEF FuelInv

\* Theorem: the tank a complete reconciliation flags is the tank that leaked.
\* Whatever the amounts, tolerance and retention are, a reconciliation made from complete
\* records says "flagged" exactly when fuel left the tank unmetered between the readings it
\* compares (reconcile_tank, record_transaction, record_tank_reading, run_retention).
THEOREM LeaksAreFlagged == FuelSpec => []FlaggedIffLeaked
  <1>1. FuelInit => FuelInv
    BY FuelInitInv
  <1>2. FuelInv /\ [FuelNext]_fuelVars => FuelInv'
    <2> SUFFICES ASSUME FuelInv, [FuelNext]_fuelVars PROVE FuelInv'
      OBVIOUS
    <2>1. CASE Deliver \/ Dispense \/ FuelOutside \/ Leak \/ \E error \in 0 .. DipError : Dip(error)
      BY <2>1, TankEvents
    <2>2. CASE \E slip \in fuelSlips : RecordTransaction(slip) \/ RecordTankReading(slip)
      BY <2>2, TransactionKeeps, ReadingKeeps
    <2>3. CASE PurgeFuel
      BY <2>3, PurgeKeeps
    <2>4. CASE \E since, until \in 1 .. FuelEnd + 1 : ReadLevels(since, until)
      BY <2>4, LevelsKeep
    <2>5. CASE SumThroughput
      BY <2>5, SumKeeps
    <2>6. CASE UNCHANGED fuelVars
      <3>1. FuelTypes' /\ OneAtOneTime' /\ LevelFollows' /\ DipsFollow'
        BY <2>6 DEF FuelInv, FuelTypes, OneAtOneTime, LevelFollows, DipsFollow, FuelRecords, Timely,
                    Net, Metered, Leaked, fuelVars
      <3>2. ReportFollows'
        BY <2>6 DEF FuelInv, ReportFollows, Compares, Net, Metered, Leaked, fuelVars
      <3>3. FlaggedIffLeaked'
        BY <2>6 DEF FuelInv, FlaggedIffLeaked, fuelVars
      <3> QED
        BY <3>1, <3>2, <3>3 DEF FuelInv
    <2> QED
      BY <2>1, <2>2, <2>3, <2>4, <2>5, <2>6 DEF FuelNext
  <1>3. FuelInv => FlaggedIffLeaked
    BY DEF FuelInv
  <1> QED
    BY <1>1, <1>2, <1>3, PTL DEF FuelSpec

-----------------------------------------------------------------------------
(* Dispatch (Dispatch).                                                    *)

Jobs == [status : JobStatuses \cup {"deleted"}, target : Nat, priority : 0 .. TopPriority]
AssignmentStates == {"recommended", "approved", "active", "rejected", "released", "deleted"}
Assignments == [job : Nat, truck : Nat, state : AssignmentStates]
Proposals == [job : Nat, truck : Trucks, state : {"recommended"}]

RequestTypes(d) ==
  \/ request[d] = NoRequest
  \/ /\ request[d] = [kind |-> "recommend", deleted |-> request[d].deleted,
                      planned |-> request[d].planned, recs |-> request[d].recs]
     /\ request[d].planned \in BOOLEAN /\ request[d].recs \in Seq(Proposals)
     /\ request[d].deleted \subseteq DOMAIN assignment
     /\ \A n \in DOMAIN request[d].recs : request[d].recs[n].job \in DOMAIN job
  \/ /\ request[d] = [kind |-> "decide", row |-> request[d].row, state |-> request[d].state]
     /\ request[d].row \in DOMAIN assignment /\ request[d].state \in {"approved", "rejected"}

DispatchTypes ==
  /\ job \in Seq(Jobs) /\ assignment \in Seq(Assignments)
  /\ \A a \in DOMAIN assignment : assignment[a].job \in 0 .. Len(job)
  /\ request = [d \in Dispatchers |-> request[d]] /\ raced \in BOOLEAN
  /\ \A d \in Dispatchers : RequestTypes(d)

\* Rows that hold a truck or may come to hold it.
Live == Rows(Committed \cup {"recommended"})

\* Rows S and recommendations recs together: no truck twice, no job over its target.
OfJob(rows, S, j) == {a \in S : rows[a].job = j}
Fits(jobs, rows, S, recs) ==
  /\ \A a, b \in S : rows[a].truck = rows[b].truck => a = b
  /\ \A a \in S, n \in DOMAIN recs : rows[a].truck # recs[n].truck
  /\ \A m, n \in DOMAIN recs : recs[m].truck = recs[n].truck => m = n
  /\ \A j \in DOMAIN jobs :
       \/ jobs[j].target = 0
       \/ Cardinality(OfJob(rows, S, j)) + Cardinality(OfJob(recs, DOMAIN recs, j)) <= jobs[j].target

\* One recommend at a time, which holds the lock on every recommendation there is, and whose
\* own ones fit with what is committed.
OneRecommends ==
  \A d \in Dispatchers : Recommending(d) =>
    /\ \A e \in Dispatchers : Recommending(e) => e = d
    /\ Rows({"recommended"}) \subseteq request[d].deleted
    /\ request[d].planned => Fits(job, assignment, Rows(Committed), request[d].recs)

DispatchInv == DispatchTypes /\ (~raced => Fits(job, assignment, Live, <<>>) /\ OneRecommends)

LEMMA DispatchNumbers == NumTrucks \in Nat /\ JobKinds \subseteq [target : Nat, priority : 1 .. TopPriority]
                         /\ TopPriority \in Nat
  <1>1. TopPriority \in Nat
    BY SMT DEF TopPriority
  <1>2. NumTrucks \in Nat /\ JobKinds \subseteq [target : Nat, priority : 1 .. TopPriority]
    BY DispatchAssumption DEF DispatchAssumption
  <1> QED
    BY <1>1, <1>2

\* The rows a recommendation or a commitment is counted in are finite.
LEMMA OfJobFinite ==
  ASSUME NEW rows, NEW S, IsFiniteSet(S)
  PROVE  \A j : IsFiniteSet(OfJob(rows, S, j)) /\ Cardinality(OfJob(rows, S, j)) \in Nat
  <1>1. \A j : IsFiniteSet(OfJob(rows, S, j))
    BY FS_Subset DEF OfJob
  <1> QED
    BY <1>1, FS_CardinalityType

\* The types of the tables, by their indices.
LEMMA DispatchShape ==
  ASSUME DispatchTypes
  PROVE  /\ DOMAIN job = 1 .. Len(job) /\ Len(job) \in Nat
         /\ DOMAIN assignment = 1 .. Len(assignment) /\ Len(assignment) \in Nat
         /\ \A j \in DOMAIN job : job[j] \in Jobs
         /\ \A a \in DOMAIN assignment : assignment[a] \in Assignments
         /\ IsFiniteSet(DOMAIN assignment) /\ IsFiniteSet(DOMAIN job)
         /\ \A states : Rows(states) \subseteq DOMAIN assignment /\ IsFiniteSet(Rows(states))
  <1>1. /\ DOMAIN job = 1 .. Len(job) /\ Len(job) \in Nat
        /\ DOMAIN assignment = 1 .. Len(assignment) /\ Len(assignment) \in Nat
        /\ \A j \in DOMAIN job : job[j] \in Jobs
        /\ \A a \in DOMAIN assignment : assignment[a] \in Assignments
    BY DEF DispatchTypes
  <1>2. IsFiniteSet(DOMAIN assignment) /\ IsFiniteSet(DOMAIN job)
    BY <1>1, FS_Interval
  <1>3. \A states : Rows(states) \subseteq DOMAIN assignment
    BY DEF Rows
  <1> QED
    BY <1>1, <1>2, <1>3, FS_Subset

LEMMA RecsFinite ==
  ASSUME NEW P, NEW recs \in Seq(P) PROVE DOMAIN recs = 1 .. Len(recs) /\ Len(recs) \in Nat /\ IsFiniteSet(DOMAIN recs)
  <1>1. DOMAIN recs = 1 .. Len(recs) /\ Len(recs) \in Nat
    OBVIOUS
  <1> QED
    BY <1>1, FS_Interval

\* Fewer rows, of the same trucks and jobs, still fit, whatever jobs are added.
LEMMA FitsShrinks ==
  ASSUME NEW jobs, NEW rows, NEW S, NEW recs, Fits(jobs, rows, S, recs), IsFiniteSet(S),
         IsFiniteSet(DOMAIN recs), NEW jobs2, NEW rows2, NEW T, T \subseteq S,
         \A a \in T : rows2[a].truck = rows[a].truck /\ rows2[a].job = rows[a].job,
         \A j \in DOMAIN jobs2 : jobs2[j].target \in Nat,
         \A j \in DOMAIN jobs2 :
           \/ jobs2[j].target = 0
           \/ j \in DOMAIN jobs /\ jobs[j].target = jobs2[j].target
           \/ (\A a \in T : rows[a].job # j) /\ (\A n \in DOMAIN recs : recs[n].job # j)
  PROVE  Fits(jobs2, rows2, T, recs)
  <1>1. ASSUME NEW j \in DOMAIN jobs2, jobs2[j].target # 0
        PROVE  Cardinality(OfJob(rows2, T, j)) + Cardinality(OfJob(recs, DOMAIN recs, j)) <= jobs2[j].target
    <2>1. OfJob(rows2, T, j) \subseteq OfJob(rows, S, j)
      BY DEF OfJob
    <2>2. IsFiniteSet(OfJob(rows, S, j)) /\ Cardinality(OfJob(rows, S, j)) \in Nat
      BY OfJobFinite
    <2>3. Cardinality(OfJob(rows2, T, j)) <= Cardinality(OfJob(rows, S, j))
      BY <2>1, <2>2, FS_Subset
    <2>4. Cardinality(OfJob(recs, DOMAIN recs, j)) \in Nat
      BY OfJobFinite
    <2>5. Cardinality(OfJob(rows2, T, j)) \in Nat
      BY <2>1, <2>2, FS_Subset, FS_CardinalityType
    <2>6. jobs2[j].target \in Nat
      OBVIOUS
    <2>7. CASE j \in DOMAIN jobs /\ jobs[j].target = jobs2[j].target
      <3>1. Cardinality(OfJob(rows, S, j)) + Cardinality(OfJob(recs, DOMAIN recs, j)) <= jobs2[j].target
        BY <1>1, <2>7 DEF Fits
      <3> QED
        BY <2>2, <2>3, <2>4, <2>5, <2>6, <3>1
    <2>8. CASE (\A a \in T : rows[a].job # j) /\ (\A n \in DOMAIN recs : recs[n].job # j)
      <3>1. OfJob(rows2, T, j) = {} /\ OfJob(recs, DOMAIN recs, j) = {}
        BY <2>8 DEF OfJob
      <3> QED
        BY <2>6, <3>1, FS_EmptySet
    <2> QED
      BY <1>1, <2>7, <2>8
  <1> QED
    BY <1>1 DEF Fits

\* Once inserted, the recommendations are rows like the others.
Inserted(k, l) == {k + n : n \in 1 .. l}

LEMMA FitsInserted ==
  ASSUME NEW jobs, NEW rows, NEW S, NEW recs, Fits(jobs, rows, S, recs), IsFiniteSet(S),
         NEW k \in Nat, S \subseteq 1 .. k, NEW l \in Nat, DOMAIN recs = 1 .. l,
         NEW rows2, \A a \in S : rows2[a] = rows[a], \A n \in 1 .. l : rows2[k + n] = recs[n],
         \A j \in DOMAIN jobs : jobs[j].target \in Nat
  PROVE  Fits(jobs, rows2, S \cup Inserted(k, l), <<>>)
  <1> USE DEF Inserted
  <1> DEFINE T == S \cup Inserted(k, l)
  <1>1. \A a, b \in T : rows2[a].truck = rows2[b].truck => a = b
    <2>1. ASSUME NEW a \in T, NEW b \in T, rows2[a].truck = rows2[b].truck PROVE a = b
      <3>1. CASE a \in S /\ b \in S
        BY <2>1, <3>1 DEF Fits
      <3>2. CASE a \in S /\ b \notin S
        <4>1. PICK n \in 1 .. l : b = k + n
          BY <3>2
        <4>2. rows2[b] = recs[n] /\ rows2[a] = rows[a] /\ n \in DOMAIN recs
          BY <3>2, <4>1
        <4>3. rows[a].truck # recs[n].truck
          BY <3>2, <4>2 DEF Fits
        <4> QED
          BY <2>1, <4>2, <4>3
      <3>3. CASE a \notin S /\ b \in S
        <4>1. PICK n \in 1 .. l : a = k + n
          BY <3>3
        <4>2. rows2[a] = recs[n] /\ rows2[b] = rows[b] /\ n \in DOMAIN recs
          BY <3>3, <4>1
        <4>3. rows[b].truck # recs[n].truck
          BY <3>3, <4>2 DEF Fits
        <4> QED
          BY <2>1, <4>2, <4>3
      <3>4. CASE a \notin S /\ b \notin S
        <4>1. PICK m \in 1 .. l : a = k + m
          BY <3>4
        <4>2. PICK n \in 1 .. l : b = k + n
          BY <3>4
        <4>3. recs[m].truck = recs[n].truck
          BY <2>1, <4>1, <4>2
        <4>4. m = n
          BY <4>3 DEF Fits
        <4> QED
          BY <4>1, <4>2, <4>4
      <3> QED
        BY <3>1, <3>2, <3>3, <3>4
    <2> QED
      BY <2>1
  <1>2. ASSUME NEW j \in DOMAIN jobs, jobs[j].target # 0
        PROVE  Cardinality(OfJob(rows2, T, j)) + Cardinality(OfJob(<<>>, DOMAIN <<>>, j)) <= jobs[j].target
    <2> DEFINE N == OfJob(recs, DOMAIN recs, j)
               M == {k + n : n \in N}
    <2>1. OfJob(rows2, T, j) = OfJob(rows, S, j) \cup M
      <3>1. \A n \in 1 .. l : rows2[k + n].job = j <=> n \in N
        BY DEF OfJob
      <3>2. \A a \in S : rows2[a].job = rows[a].job
        OBVIOUS
      <3>3. M \subseteq {k + n : n \in 1 .. l} /\ \A n \in 1 .. l : n \in N => k + n \in M
        BY DEF OfJob
      <3>4. \A b \in M : b \in T /\ rows2[b].job = j
        <4>1. ASSUME NEW b \in M PROVE b \in T /\ rows2[b].job = j
          <5>1. PICK n \in N : b = k + n
            OBVIOUS
          <5>2. n \in 1 .. l
            BY <5>1 DEF OfJob
          <5> QED
            BY <3>1, <5>1, <5>2
        <4> QED
          BY <4>1
      <3>5. \A b \in T : rows2[b].job = j => b \in OfJob(rows, S, j) \cup M
        BY <3>1, <3>2, <3>3 DEF OfJob
      <3>6. \A b \in OfJob(rows, S, j) : b \in T /\ rows2[b].job = j
        BY <3>2 DEF OfJob
      <3> HIDE DEF M, N, T
      <3> QED
        BY <3>4, <3>5, <3>6 DEF OfJob
    <2>2. IsFiniteSet(N) /\ Cardinality(N) \in Nat
      <3>1. IsFiniteSet(DOMAIN recs)
        BY FS_Interval
      <3> QED
        BY <3>1, OfJobFinite
    <2>3. IsFiniteSet(M) /\ Cardinality(M) <= Cardinality(N)
      <3> DEFINE f == [n \in N |-> k + n]
      <3>1. f \in Surjection(N, M)
        BY DEF Surjection
      <3> HIDE DEF f, M, N
      <3> QED
        BY <2>2, <3>1, FS_Surjection
    <2>4. IsFiniteSet(OfJob(rows, S, j)) /\ Cardinality(OfJob(rows, S, j)) \in Nat
      BY OfJobFinite
    <2> HIDE DEF M
    <2>5. Cardinality(OfJob(rows, S, j) \cup M) <= Cardinality(OfJob(rows, S, j)) + Cardinality(N)
      <3>1. Cardinality(OfJob(rows, S, j) \cup M)
              = Cardinality(OfJob(rows, S, j)) + Cardinality(M) - Cardinality(OfJob(rows, S, j) \cap M)
        BY <2>3, <2>4, FS_Union
      <3>2. IsFiniteSet(OfJob(rows, S, j) \cap M)
        BY <2>3, FS_Subset
      <3>3. Cardinality(OfJob(rows, S, j) \cap M) \in Nat /\ Cardinality(M) \in Nat
        BY <2>3, <3>2, FS_CardinalityType
      <3> QED
        BY <2>2, <2>3, <2>4, <3>1, <3>3
    <2>6. Cardinality(OfJob(rows, S, j)) + Cardinality(N) <= jobs[j].target
      BY <1>2 DEF Fits
    <2>7. Cardinality(OfJob(<<>>, DOMAIN <<>>, j)) = 0
      <3>1. OfJob(<<>>, DOMAIN <<>>, j) = {}
        BY DEF OfJob
      <3> QED
        BY <3>1, FS_EmptySet
    <2>8. IsFiniteSet(OfJob(rows2, T, j)) /\ Cardinality(OfJob(rows2, T, j)) \in Nat
      BY <2>1, <2>3, <2>4, FS_Union, FS_CardinalityType
    <2> HIDE DEF N, T
    <2> QED
      BY <2>1, <2>2, <2>4, <2>5, <2>6, <2>7, <2>8
  <1>3. DOMAIN <<>> = {}
    OBVIOUS
  <1> QED
    BY <1>1, <1>2, <1>3 DEF Fits

\* The next job is an open one under its target.
LEMMA NextJobUnderTarget ==
  ASSUME DispatchTypes, NEW committed, NEW recs
  PROVE  LET j == NextJob(committed, recs)
         IN  j = 0 \/ (j \in DOMAIN job /\ UnderTarget(j, committed, recs))
  <1> DEFINE eligible == {j \in DOMAIN job : job[j].status = "open" /\ UnderTarget(j, committed, recs)}
             P == {job[j].priority : j \in eligible}
  <1>1. CASE eligible = {}
    BY <1>1 DEF NextJob
  <1>2. CASE eligible # {}
    <2>1. \A j \in eligible : j \in Nat /\ job[j].priority \in Int /\ job[j].priority <= TopPriority
      <3>1. \A j \in DOMAIN job : j \in Nat /\ job[j].priority \in 0 .. TopPriority
        BY DispatchShape DEF Jobs
      <3> QED
        BY <3>1, DispatchNumbers
    <2>2. P \subseteq Int /\ P # {} /\ \A p \in P : p <= TopPriority
      BY <1>2, <2>1
    <2>3. TopPriority \in Int
      BY DispatchNumbers
    <2>4. PICK top \in P : top \in Int /\ \A p \in P : p <= top
      <3> HIDE DEF P
      <3> QED
        BY <2>2, <2>3, GreatestInt
    <2> DEFINE F == {j \in eligible : job[j].priority = top}
    <2>5. F \subseteq Nat /\ F # {}
      BY <2>1, <2>4
    <2>6. PICK k \in F : \A j \in F : k <= j
      <3> HIDE DEF F
      <3> QED
        BY <2>5, LeastNat
    <2>7. \A j \in eligible : Before(k, j)
      <3>1. ASSUME NEW j \in eligible PROVE Before(k, j)
        <4>1. job[j].priority <= top /\ job[j].priority \in Int /\ job[k].priority = top
          BY <2>1, <2>4
        <4>2. job[j].priority = top => k <= j
          BY <2>6
        <4> QED
          BY <2>4, <4>1, <4>2 DEF Before
      <3> QED
        BY <3>1
    <2>8. k \in eligible
      OBVIOUS
    <2>9. NextJob(committed, recs) = CHOOSE j \in eligible : \A i \in eligible : Before(j, i)
      BY <1>2 DEF NextJob
    <2> HIDE DEF eligible
    <2>10. NextJob(committed, recs) \in eligible
      BY <2>7, <2>8, <2>9
    <2> QED
      BY <2>10 DEF eligible
  <1> QED
    BY <1>1, <1>2

\* The recommendations made for the trucks up to n fit with what is committed, if that fits.
CommittedFits == Fits(job, assignment, Rows(Committed), <<>>)
Recommended(n, recs) ==
  /\ recs \in Seq(Proposals) /\ \A i \in DOMAIN recs : recs[i].truck <= n /\ recs[i].job \in DOMAIN job
  /\ CommittedFits => Fits(job, assignment, Rows(Committed), recs)

LEMMA AssignedFits ==
  ASSUME DispatchTypes, NEW n \in 0 .. NumTrucks, n + 1 <= NumTrucks, NEW recs, Recommended(n, recs)
  PROVE  Recommended(n + 1, Assigned(recs, n + 1))
  <1> DEFINE committed == Rows(Committed)
             j == NextJob(committed, recs)
             t == n + 1
             new == [job |-> j, truck |-> t, state |-> "recommended"]
             more == Append(recs, new)
  <1>1. /\ recs \in Seq(Proposals) /\ DOMAIN recs = 1 .. Len(recs) /\ Len(recs) \in Nat
        /\ \A i \in DOMAIN recs : /\ recs[i] \in Proposals /\ recs[i].truck <= n /\ recs[i].truck \in Int
                                  /\ recs[i].job \in DOMAIN job
        /\ CommittedFits => Fits(job, assignment, committed, recs)
    <2>1. recs \in Seq(Proposals) /\ DOMAIN recs = 1 .. Len(recs) /\ Len(recs) \in Nat
      BY DEF Recommended
    <2>2. \A i \in DOMAIN recs : recs[i] \in Proposals
      BY <2>1
    <2>3. \A i \in DOMAIN recs : recs[i].truck \in Int
      BY <2>2, DispatchNumbers DEF Proposals, Trucks
    <2> QED
      BY <2>1, <2>2, <2>3 DEF Recommended
  <1>2. t \in Trucks /\ t \in Nat /\ n \in Nat
    BY DispatchNumbers DEF Trucks
  <1>3. CASE ~ (t \in Available(committed) /\ j # 0)
    <2>1. Assigned(recs, t) = recs
      BY <1>3 DEF Assigned
    <2>2. \A i \in DOMAIN recs : recs[i].truck <= t
      BY <1>1, <1>2
    <2> QED
      BY <1>1, <2>1, <2>2 DEF Recommended
  <1>4. CASE t \in Available(committed) /\ j # 0
    <2>1. j \in DOMAIN job /\ UnderTarget(j, committed, recs)
      BY <1>4, NextJobUnderTarget
    <2>2. Assigned(recs, t) = more
      BY <1>4 DEF Assigned
    <2>3. \A a \in committed : assignment[a].truck # t
      BY <1>4 DEF Available
    <2> HIDE DEF j
    <2>4. j \in Nat /\ new \in Proposals
      <3>1. j \in Nat
        BY <2>1, DispatchShape
      <3> QED
        BY <1>2, <3>1 DEF Proposals
    <2> DEFINE l == Len(recs) + 1
    <2>5. /\ more \in Seq(Proposals) /\ DOMAIN more = 1 .. l /\ more[l] = new
          /\ l \notin DOMAIN recs /\ DOMAIN more = DOMAIN recs \cup {l}
          /\ \A i \in DOMAIN recs : more[i] = recs[i]
      <3> HIDE DEF new
      <3>1. more \in Seq(Proposals) /\ Len(more) = l
        BY <1>1, <2>4
      <3>2. DOMAIN more = 1 .. l /\ more[l] = new
        BY <1>1, <2>4, <3>1
      <3>3. \A i \in DOMAIN recs : more[i] = recs[i]
        BY <1>1, <2>4
      <3>4. l \notin DOMAIN recs /\ DOMAIN more = DOMAIN recs \cup {l}
        BY <1>1, <3>2
      <3> QED
        BY <3>1, <3>2, <3>3, <3>4
    <2>6. new.truck = t /\ new.job = j
      OBVIOUS
    <2> HIDE DEF more, new, l
    <2>7. \A i \in DOMAIN more : more[i].truck <= t /\ more[i].job \in DOMAIN job
      <3>1. ASSUME NEW i \in DOMAIN more PROVE more[i].truck <= t /\ more[i].job \in DOMAIN job
        <4>1. CASE i = l
          BY <1>2, <2>1, <2>5, <2>6, <4>1
        <4>2. CASE i # l
          <5>1. i \in DOMAIN recs /\ more[i] = recs[i]
            BY <2>5, <4>2
          <5> QED
            BY <1>1, <1>2, <5>1
        <4> QED
          BY <4>1, <4>2
      <3> QED
        BY <3>1
    <2>8. ASSUME CommittedFits, NEW k \in DOMAIN job, job[k].target # 0
          PROVE  Cardinality(OfJob(assignment, committed, k)) + Cardinality(OfJob(more, DOMAIN more, k))
                   <= job[k].target
      <3>1. PICK c \in Nat : c = Cardinality(OfJob(assignment, committed, k))
        <4>1. IsFiniteSet(committed)
          BY DispatchShape
        <4> QED
          BY <4>1, OfJobFinite
      <3>2. IsFiniteSet(OfJob(recs, DOMAIN recs, k)) /\ Cardinality(OfJob(recs, DOMAIN recs, k)) \in Nat
        <4>1. IsFiniteSet(DOMAIN recs)
          BY <1>1, FS_Interval
        <4> QED
          BY <4>1, OfJobFinite
      <3>3. PICK r \in Nat : r = Cardinality(OfJob(recs, DOMAIN recs, k))
        BY <3>2
      <3>4. job[k].target \in Nat
        BY DispatchShape DEF Jobs
      <3>5. c + r <= job[k].target
        BY <1>1, <2>8, <3>1, <3>3 DEF Fits
      <3>6. CASE k # j
        <4>1. OfJob(more, DOMAIN more, k) = OfJob(recs, DOMAIN recs, k)
          BY <2>5, <2>6, <3>6 DEF OfJob
        <4> QED
          BY <3>1, <3>3, <3>5, <4>1
      <3>7. CASE k = j
        <4>1. OfJob(more, DOMAIN more, k) = OfJob(recs, DOMAIN recs, k) \cup {l}
          BY <2>5, <2>6, <3>7 DEF OfJob
        <4>2. l \notin OfJob(recs, DOMAIN recs, k)
          BY <2>5 DEF OfJob
        <4>3. Cardinality(OfJob(more, DOMAIN more, k)) = r + 1
          BY <3>2, <3>3, <4>1, <4>2, FS_AddElement
        <4>4. c + r < job[k].target
          BY <2>1, <2>8, <3>1, <3>3, <3>7 DEF UnderTarget, OfJob
        <4> QED
          BY <3>1, <3>4, <4>3, <4>4
      <3> QED
        BY <3>6, <3>7
    <2>9. CommittedFits => \A a \in committed, i \in DOMAIN more : assignment[a].truck # more[i].truck
      <3>1. ASSUME CommittedFits, NEW a \in committed, NEW i \in DOMAIN more PROVE assignment[a].truck # more[i].truck
        <4>1. CASE i = l
          BY <2>3, <2>5, <2>6, <4>1
        <4>2. CASE i # l
          <5>1. i \in DOMAIN recs /\ more[i] = recs[i]
            BY <2>5, <4>2
          <5> QED
            BY <1>1, <3>1, <5>1 DEF Fits
        <4> QED
          BY <4>1, <4>2
      <3> QED
        BY <3>1
    <2>10. CommittedFits => \A a, b \in DOMAIN more : more[a].truck = more[b].truck => a = b
      <3>1. \A i \in DOMAIN recs : more[i].truck # t
        BY <1>1, <1>2, <2>5
      <3>2. CommittedFits => \A a, b \in DOMAIN recs : more[a].truck = more[b].truck => a = b
        BY <1>1, <2>5 DEF Fits
      <3> QED
        BY <2>5, <2>6, <3>1, <3>2
    <2>11. CommittedFits => \A a, b \in committed : assignment[a].truck = assignment[b].truck => a = b
      BY <1>1 DEF Fits
    <2>12. CommittedFits => Fits(job, assignment, committed, more)
      BY <2>8, <2>9, <2>10, <2>11 DEF Fits
    <2> QED
      BY <2>2, <2>5, <2>7, <2>12 DEF Recommended
  <1> QED
    BY <1>3, <1>4

\* The loop of recommend, from its first truck to its last.
LEMMA LoopRuns ==
  ASSUME NEW N \in Nat
  PROVE  \E f : f = [t \in 0 .. N |-> IF t = 0 THEN <<>> ELSE Assigned(f[t - 1], t)]
  <1> DEFINE Runs(f, n) == f = [t \in 0 .. n |-> IF t = 0 THEN <<>> ELSE Assigned(f[t - 1], t)]
             T == {n \in 0 .. N : ~ \E f : Runs(f, n)}
  <1>1. SUFFICES T = {}
    <2>1. N \in 0 .. N
      OBVIOUS
    <2> QED
      BY <1>1, <2>1
  <1>2. SUFFICES ASSUME T # {} PROVE FALSE
    OBVIOUS
  <1>3. T \subseteq Nat
    OBVIOUS
  <1>4. PICK n \in T : \A m \in T : n <= m
    <2> HIDE DEF T
    <2> QED
      BY <1>2, <1>3, LeastNat
  <1>5. CASE n = 0
    <2>1. Runs([t \in 0 .. n |-> <<>>], n)
      BY <1>5
    <2> QED
      BY <1>4, <2>1
  <1>6. CASE n # 0
    <2>1. n - 1 \in 0 .. N /\ n - 1 \notin T /\ n \in Nat
      <3>1. n \in 0 .. N /\ n \in Nat
        BY <1>4
      <3>2. n - 1 \in 0 .. N
        BY <1>6, <3>1
      <3>3. ~ (n <= n - 1)
        BY <3>1
      <3> HIDE DEF T
      <3> QED
        BY <1>4, <3>1, <3>2, <3>3
    <2>2. PICK g : Runs(g, n - 1)
      BY <2>1
    <2> DEFINE f == [t \in 0 .. n |-> IF t = n THEN Assigned(g[n - 1], n) ELSE g[t]]
    <2>3. \A t \in 0 .. n - 1 : g[t] = (IF t = 0 THEN <<>> ELSE Assigned(g[t - 1], t)) /\ f[t] = g[t]
      BY <2>1, <2>2
    <2>4. ASSUME NEW t \in 0 .. n PROVE f[t] = IF t = 0 THEN <<>> ELSE Assigned(f[t - 1], t)
      <3>1. CASE t = n
        <4>1. f[n - 1] = g[n - 1]
          BY <1>6, <2>1, <2>3
        <4> QED
          BY <1>6, <3>1, <4>1
      <3>2. CASE t # n
        <4>1. t \in 0 .. n - 1
          BY <2>1, <3>2
        <4>2. t # 0 => t - 1 \in 0 .. n - 1
          BY <4>1
        <4> QED
          BY <2>3, <4>1, <4>2
      <3> QED
        BY <3>1, <3>2
    <2>5. Runs(f, n)
      BY <2>4
    <2> HIDE DEF f
    <2>6. \E h : Runs(h, n)
      BY <2>5
    <2> QED
      BY <1>4, <2>6
  <1> QED
    BY <1>5, <1>6

LEMMA RecommendationsFit ==
  ASSUME DispatchTypes
  PROVE  Recommended(NumTrucks, Recommendations)
  <1> DEFINE upTo == CHOOSE f : f = [t \in 0 .. NumTrucks |-> IF t = 0 THEN <<>> ELSE Assigned(f[t - 1], t)]
  <1>1. upTo = [t \in 0 .. NumTrucks |-> IF t = 0 THEN <<>> ELSE Assigned(upTo[t - 1], t)]
    BY DispatchNumbers, LoopRuns
  <1>2. Recommendations = upTo[NumTrucks]
    BY DEF Recommendations
  <1> HIDE DEF upTo
  <1> DEFINE T == {n \in 0 .. NumTrucks : ~ Recommended(n, upTo[n])}
  <1>3. SUFFICES T = {}
    BY <1>2, DispatchNumbers
  <1>4. SUFFICES ASSUME T # {} PROVE FALSE
    OBVIOUS
  <1>5. T \subseteq Nat
    OBVIOUS
  <1>6. PICK n \in T : \A m \in T : n <= m
    <2> HIDE DEF T
    <2> QED
      BY <1>4, <1>5, LeastNat
  <1>7. CASE n = 0
    <2>1. upTo[0] = <<>>
      BY <1>1, DispatchNumbers
    <2>2. Recommended(0, <<>>)
      BY DEF Recommended, CommittedFits
    <2> QED
      BY <1>6, <1>7, <2>1, <2>2
  <1>8. CASE n # 0
    <2>1. n - 1 \in 0 .. NumTrucks /\ n - 1 \notin T /\ (n - 1) + 1 = n /\ n <= NumTrucks
      BY <1>6, <1>8, DispatchNumbers
    <2>2. Recommended(n - 1, upTo[n - 1])
      BY <2>1
    <2>3. Recommended((n - 1) + 1, Assigned(upTo[n - 1], (n - 1) + 1))
      BY <2>1, <2>2, AssignedFits
    <2>4. upTo[n] = Assigned(upTo[n - 1], n)
      BY <1>1, <1>6, <1>8
    <2> QED
      BY <1>6, <2>1, <2>3, <2>4
  <1> QED
    BY <1>7, <1>8

LEMMA FunIsSeq ==
  ASSUME NEW S, NEW n \in Nat, NEW f \in [1 .. n -> S]
  PROVE  f \in Seq(S) /\ Len(f) = n
  OBVIOUS

\* Nothing is there at the start.
LEMMA DispatchInitInv == DispatchInit => DispatchInv
  <1> SUFFICES ASSUME DispatchInit PROVE DispatchInv
    OBVIOUS
  <1>1. DispatchTypes
    <2>1. \A S : <<>> \in Seq(S)
      OBVIOUS
    <2>2. job = <<>> /\ assignment = <<>> /\ raced = FALSE /\ request = [d \in Dispatchers |-> NoRequest]
      BY DEF DispatchInit
    <2>3. job \in Seq(Jobs) /\ assignment \in Seq(Assignments)
      BY <2>1, <2>2
    <2>4. \A a \in DOMAIN assignment : assignment[a].job \in 0 .. Len(job)
      BY <2>2
    <2>5. request = [d \in Dispatchers |-> request[d]] /\ \A d \in Dispatchers : RequestTypes(d)
      BY <2>2 DEF RequestTypes
    <2> QED
      BY <2>2, <2>3, <2>4, <2>5 DEF DispatchTypes
  <1>2. \A states : Rows(states) = {}
    BY DEF DispatchInit, Rows
  <1>3. Fits(job, assignment, Live, <<>>)
    BY <1>2 DEF DispatchInit, Fits, Live
  <1>4. OneRecommends
    BY DEF DispatchInit, OneRecommends, Recommending, NoRequest
  <1> QED
    BY <1>1, <1>3, <1>4 DEF DispatchInv

\* Tables that only grow leave an open request as it is.
LEMMA RequestStays ==
  ASSUME NEW d \in Dispatchers, RequestTypes(d), request'[d] = request[d],
         DOMAIN job \subseteq DOMAIN job', DOMAIN assignment \subseteq DOMAIN assignment'
  PROVE  RequestTypes(d)'
  BY DEF RequestTypes

LEMMA RequestKinds ==
  ASSUME NEW d \in Dispatchers, RequestTypes(d), Recommending(d)
  PROVE  /\ request[d].planned \in BOOLEAN /\ request[d].recs \in Seq(Proposals)
         /\ request[d].deleted \subseteq DOMAIN assignment
         /\ \A n \in DOMAIN request[d].recs : request[d].recs[n].job \in DOMAIN job
  BY DEF RequestTypes, Recommending, NoRequest

\* A step that frees rows, adds jobs or ends requests leaves the rest fitting.
LEMMA EasesKeeps ==
  ASSUME DispatchTypes, DispatchTypes', Fits(job, assignment, Live, <<>>), OneRecommends,
         Live' \subseteq Live,
         \A a \in Live' : assignment'[a].truck = assignment[a].truck /\ assignment'[a].job = assignment[a].job,
         \A j \in DOMAIN job' : \/ job'[j].target = 0 \/ j \notin DOMAIN job
                                \/ j \in DOMAIN job /\ job[j].target = job'[j].target,
         \A d \in Dispatchers : Recommending(d)' =>
           /\ Recommending(d) /\ request'[d] = request[d]
           /\ Rows(Committed)' \subseteq Rows(Committed)
           /\ Rows({"recommended"})' \subseteq Rows({"recommended"})
  PROVE  Fits(job, assignment, Live, <<>>)' /\ OneRecommends'
  <1>1. PICK jobs2 : jobs2 = job'
    OBVIOUS
  <1>2. PICK rows2 : rows2 = assignment'
    OBVIOUS
  <1>3. \A j \in DOMAIN jobs2 : jobs2[j].target \in Nat /\ j \in Nat /\ j >= 1
    <2>1. jobs2 \in Seq(Jobs)
      BY <1>1 DEF DispatchTypes
    <2>3. DOMAIN jobs2 = 1 .. Len(jobs2) /\ Len(jobs2) \in Nat /\ \A j \in DOMAIN jobs2 : jobs2[j] \in Jobs
      BY <2>1
    <2>2. DOMAIN jobs2 = 1 .. Len(jobs2) /\ Len(jobs2) \in Nat /\ \A j \in DOMAIN jobs2 : jobs2[j].target \in Nat
      BY <2>3 DEF Jobs
    <2> QED
      BY <2>2
  <1>4. \A a \in Live : assignment[a].job \in 0 .. Len(job)
    BY DispatchShape DEF DispatchTypes, Live
  <1>5. \A j \in DOMAIN jobs2 : j \notin DOMAIN job => \A a \in Live : assignment[a].job # j
    BY <1>3, <1>4, DispatchShape
  <1>6. ASSUME NEW S, NEW T, NEW recs, Fits(job, assignment, S, recs), S \subseteq Live, T \subseteq S,
               T \subseteq Live', IsFiniteSet(DOMAIN recs), \A n \in DOMAIN recs : recs[n].job \in DOMAIN job
        PROVE  Fits(jobs2, rows2, T, recs)
    <2>1. IsFiniteSet(S)
      BY <1>6, DispatchShape, FS_Subset DEF Live
    <2>2. \A a \in T : rows2[a].truck = assignment[a].truck /\ rows2[a].job = assignment[a].job
      BY <1>2, <1>6
    <2>3. \A j \in DOMAIN jobs2 :
            \/ jobs2[j].target = 0
            \/ j \in DOMAIN job /\ job[j].target = jobs2[j].target
            \/ (\A a \in T : assignment[a].job # j) /\ (\A n \in DOMAIN recs : recs[n].job # j)
      BY <1>1, <1>5, <1>6
    <2> QED
      BY <1>3, <1>6, <2>1, <2>2, <2>3, FitsShrinks
  <1>7. Fits(job, assignment, Live, <<>>)'
    <2>1. PICK L2 : L2 = Live'
      OBVIOUS
    <2>2. IsFiniteSet(DOMAIN <<>>) /\ \A n \in DOMAIN <<>> : <<>>[n].job \in DOMAIN job
      BY FS_EmptySet
    <2>3. Fits(jobs2, rows2, L2, <<>>)
      BY <1>6, <2>1, <2>2
    <2> QED
      BY <1>1, <1>2, <2>1, <2>3
  <1>8. OneRecommends'
    <2>1. ASSUME NEW d \in Dispatchers, Recommending(d)'
          PROVE  /\ \A e \in Dispatchers : Recommending(e)' => e = d
                 /\ Rows({"recommended"})' \subseteq request'[d].deleted
                 /\ request'[d].planned => Fits(job', assignment', Rows(Committed)', request'[d].recs)
      <3>1. Recommending(d) /\ request'[d] = request[d] /\ Rows(Committed)' \subseteq Rows(Committed)
            /\ Rows({"recommended"})' \subseteq Rows({"recommended"})
        BY <2>1
      <3>2. \A e \in Dispatchers : Recommending(e)' => e = d
        BY <3>1 DEF OneRecommends
      <3>3. Rows({"recommended"})' \subseteq request'[d].deleted
        BY <3>1 DEF OneRecommends
      <3>4. ASSUME request'[d].planned PROVE Fits(job', assignment', Rows(Committed)', request'[d].recs)
        <4>1. PICK T : T = Rows(Committed)'
          OBVIOUS
        <4>2. Fits(job, assignment, Rows(Committed), request[d].recs)
          BY <3>1, <3>4 DEF OneRecommends
        <4>3. T \subseteq Rows(Committed) /\ Rows(Committed) \subseteq Live
          BY <3>1, <4>1 DEF Rows, Live
        <4>4. T \subseteq Live'
          BY <4>1 DEF Rows, Live
        <4>5. request[d].recs \in Seq(Proposals) /\ \A n \in DOMAIN request[d].recs : request[d].recs[n].job \in DOMAIN job
          BY <3>1, RequestKinds DEF DispatchTypes
        <4>6. IsFiniteSet(DOMAIN request[d].recs)
          BY <4>5, RecsFinite
        <4>7. Fits(jobs2, rows2, T, request[d].recs)
          BY <1>6, <4>2, <4>3, <4>4, <4>5, <4>6
        <4> QED
          BY <1>1, <1>2, <3>1, <4>1, <4>7
      <3> QED
        BY <3>2, <3>3, <3>4
    <2> QED
      BY <2>1 DEF OneRecommends
  <1> QED
    BY <1>7, <1>8

\* A job is created, at the end of the table.
LEMMA CreateJobKeeps ==
  ASSUME DispatchInv, NEW k \in JobKinds, CreateJob(k) PROVE DispatchInv'
  <1>1. job' = Append(job, NewJob(k)) /\ UNCHANGED <<assignment, request, raced>>
    BY DEF CreateJob
  <1>2. DispatchTypes
    BY DEF DispatchInv
  <1>3. NewJob(k) \in Jobs
    <2>1. k.target \in Nat /\ k.priority \in 1 .. TopPriority
      BY DispatchNumbers
    <2>2. k.priority \in 0 .. TopPriority
      BY <2>1, DispatchNumbers
    <2> QED
      BY <2>1, <2>2 DEF NewJob, Jobs, JobStatuses
  <1>4. /\ job' \in Seq(Jobs) /\ Len(job') = Len(job) + 1 /\ DOMAIN job' = 1 .. Len(job) + 1
        /\ \A j \in DOMAIN job : job'[j] = job[j]
    <2>1. job \in Seq(Jobs)
      BY <1>2 DEF DispatchTypes
    <2> QED
      BY <1>1, <1>3, <2>1
  <1>5. DOMAIN job \subseteq DOMAIN job' /\ \A j \in DOMAIN job' : j \notin DOMAIN job \/ job[j] = job'[j]
    BY <1>2, <1>4, DispatchShape
  <1>6. DispatchTypes'
    <2>1. \A d \in Dispatchers : RequestTypes(d)'
      BY <1>1, <1>2, <1>5, RequestStays DEF DispatchTypes
    <2>2. \A a \in DOMAIN assignment' : assignment'[a].job \in 0 .. Len(job')
      BY <1>1, <1>2, <1>4, DispatchShape DEF DispatchTypes
    <2> QED
      BY <1>1, <1>2, <1>4, <2>1, <2>2 DEF DispatchTypes
  <1>7. ASSUME ~raced' PROVE Fits(job, assignment, Live, <<>>)' /\ OneRecommends'
    <2>1. \A states : Rows(states)' = Rows(states)
      BY <1>1 DEF Rows
    <2>2. Live' = Live
      BY <2>1 DEF Live
    <2>3. \A d \in Dispatchers : Recommending(d)' => Recommending(d) /\ request'[d] = request[d]
      BY <1>1 DEF Recommending
    <2>4. Fits(job, assignment, Live, <<>>) /\ OneRecommends
      BY <1>1, <1>7 DEF DispatchInv
    <2> QED
      BY <1>1, <1>2, <1>5, <1>6, <2>1, <2>2, <2>3, <2>4, EasesKeeps
  <1> QED
    BY <1>6, <1>7 DEF DispatchInv

\* A job changes its status, and releases its trucks when it ends.
LEMMA SetJobStatusKeeps ==
  ASSUME DispatchInv, NEW j \in DOMAIN job, NEW s \in JobStatuses, SetJobStatus(j, s) PROVE DispatchInv'
  <1>1. /\ job' = [job EXCEPT ![j].status = s] /\ UNCHANGED <<request, raced>>
        /\ assignment' = [a \in DOMAIN assignment |->
                            IF a \in Released(j, s)
                            THEN [assignment[a] EXCEPT !.state = "released"] ELSE assignment[a]]
    BY DEF SetJobStatus
  <1>2. DispatchTypes
    BY DEF DispatchInv
  <1>3. /\ DOMAIN job' = DOMAIN job
        /\ \A i \in DOMAIN job : job'[i] \in Jobs /\ job'[i].target = job[i].target
    <2>1. \A i \in DOMAIN job : job'[i] = IF i = j THEN [job[j] EXCEPT !.status = s] ELSE job[i]
      BY <1>1
    <2>2. DOMAIN job' = DOMAIN job
      BY <1>1
    <2>3. \A i \in DOMAIN job : job[i] \in Jobs
      BY <1>2, DispatchShape
    <2> QED
      BY <2>1, <2>2, <2>3 DEF Jobs
  <1>4. /\ DOMAIN assignment' = DOMAIN assignment
        /\ \A a \in DOMAIN assignment :
             /\ assignment'[a] \in Assignments
             /\ assignment'[a].truck = assignment[a].truck /\ assignment'[a].job = assignment[a].job
             /\ assignment'[a].state \in {assignment[a].state, "released"}
    <2>1. \A a \in DOMAIN assignment :
            assignment'[a] = IF a \in Released(j, s) THEN [assignment[a] EXCEPT !.state = "released"]
                             ELSE assignment[a]
      BY <1>1
    <2>2. DOMAIN assignment' = DOMAIN assignment
      BY <1>1
    <2>3. \A a \in DOMAIN assignment : assignment[a] \in Assignments
      BY <1>2, DispatchShape
    <2> QED
      BY <2>1, <2>2, <2>3 DEF Assignments, AssignmentStates
  <1>5. job' \in Seq(Jobs) /\ Len(job') = Len(job) /\ assignment' \in Seq(Assignments)
    <2>1. job' \in [1 .. Len(job) -> Jobs] /\ Len(job) \in Nat
      BY <1>1, <1>2, <1>3, DispatchShape
    <2>2. assignment' \in [1 .. Len(assignment) -> Assignments] /\ Len(assignment) \in Nat
      BY <1>1, <1>2, <1>4, DispatchShape
    <2> QED
      BY <2>1, <2>2, FunIsSeq
  <1>6. DispatchTypes'
    <2>1. \A d \in Dispatchers : RequestTypes(d)'
      BY <1>1, <1>2, <1>3, <1>4, RequestStays DEF DispatchTypes
    <2>2. \A a \in DOMAIN assignment' : assignment'[a].job \in 0 .. Len(job')
      BY <1>2, <1>4, <1>5 DEF DispatchTypes
    <2> QED
      BY <1>1, <1>2, <1>5, <2>1, <2>2 DEF DispatchTypes
  <1>7. ASSUME ~raced' PROVE Fits(job, assignment, Live, <<>>)' /\ OneRecommends'
    <2>1. /\ Rows(Committed)' \subseteq Rows(Committed)
          /\ Rows({"recommended"})' \subseteq Rows({"recommended"})
          /\ Live' \subseteq Live
      BY <1>4 DEF Rows, Live, Committed
    <2>2. \A a \in Live' : a \in DOMAIN assignment
      BY <1>4 DEF Rows, Live
    <2>3. \A d \in Dispatchers : Recommending(d)' => Recommending(d) /\ request'[d] = request[d]
      BY <1>1 DEF Recommending
    <2>4. Fits(job, assignment, Live, <<>>) /\ OneRecommends
      BY <1>1, <1>7 DEF DispatchInv
    <2>5. \A a \in Live' : assignment'[a].truck = assignment[a].truck /\ assignment'[a].job = assignment[a].job
      BY <1>4, <2>2
    <2>6. \A i \in DOMAIN job' : i \in DOMAIN job /\ job[i].target = job'[i].target
      BY <1>3
    <2> QED
      BY <1>2, <1>6, <2>1, <2>3, <2>4, <2>5, <2>6, EasesKeeps
  <1> QED
    BY <1>6, <1>7 DEF DispatchInv

\* Retention deletes an ended job with its rows.
LEMMA PurgeJobKeeps ==
  ASSUME DispatchInv, NEW j \in DOMAIN job, PurgeJob(j) PROVE DispatchInv'
  <1>1. /\ job' = [job EXCEPT ![j] = DeletedJob] /\ UNCHANGED <<request, raced>>
        /\ assignment' = [a \in DOMAIN assignment |->
                            IF assignment[a].job = j THEN DeletedRow ELSE assignment[a]]
    BY DEF PurgeJob
  <1>2. DispatchTypes
    BY DEF DispatchInv
  <1>0. DeletedJob \in Jobs /\ DeletedJob.target = 0 /\ DeletedRow \in Assignments /\ DeletedRow.state = "deleted"
        /\ DeletedRow.job = 0
    BY DispatchNumbers DEF DeletedJob, DeletedRow, Jobs, Assignments, AssignmentStates
  <1>3. /\ DOMAIN job' = DOMAIN job
        /\ \A i \in DOMAIN job : job'[i] \in Jobs /\ (job'[i].target = 0 \/ job'[i].target = job[i].target)
    <2>1. \A i \in DOMAIN job : job'[i] = IF i = j THEN DeletedJob ELSE job[i]
      BY <1>1
    <2>2. DOMAIN job' = DOMAIN job
      BY <1>1
    <2>3. \A i \in DOMAIN job : job[i] \in Jobs
      BY <1>2, DispatchShape
    <2> QED
      BY <1>0, <2>1, <2>2, <2>3
  <1>4. /\ DOMAIN assignment' = DOMAIN assignment
        /\ \A a \in DOMAIN assignment : assignment'[a] \in Assignments /\ assignment'[a] \in {assignment[a], DeletedRow}
    <2>1. \A a \in DOMAIN assignment : assignment'[a] = IF assignment[a].job = j THEN DeletedRow ELSE assignment[a]
      BY <1>1
    <2>2. DOMAIN assignment' = DOMAIN assignment
      BY <1>1
    <2>3. \A a \in DOMAIN assignment : assignment[a] \in Assignments
      BY <1>2, DispatchShape
    <2> QED
      BY <1>0, <2>1, <2>2, <2>3
  <1>5. job' \in Seq(Jobs) /\ Len(job') = Len(job) /\ assignment' \in Seq(Assignments)
    <2>1. job' \in [1 .. Len(job) -> Jobs] /\ Len(job) \in Nat
      BY <1>1, <1>2, <1>3, DispatchShape
    <2>2. assignment' \in [1 .. Len(assignment) -> Assignments] /\ Len(assignment) \in Nat
      BY <1>1, <1>2, <1>4, DispatchShape
    <2> QED
      BY <2>1, <2>2, FunIsSeq
  <1>6. DispatchTypes'
    <2>1. \A d \in Dispatchers : RequestTypes(d)'
      BY <1>1, <1>2, <1>3, <1>4, RequestStays DEF DispatchTypes
    <2>2. \A a \in DOMAIN assignment' : assignment'[a].job \in 0 .. Len(job')
      <3>1. Len(job) \in Nat
        BY <1>2, DispatchShape
      <3>2. ASSUME NEW a \in DOMAIN assignment PROVE assignment'[a].job \in 0 .. Len(job)
        <4>1. CASE assignment'[a] = DeletedRow
          BY <1>0, <3>1, <4>1
        <4>2. CASE assignment'[a] = assignment[a]
          BY <1>2, <4>2 DEF DispatchTypes
        <4> QED
          BY <1>4, <4>1, <4>2
      <3> QED
        BY <1>4, <1>5, <3>2
    <2> QED
      BY <1>1, <1>2, <1>5, <2>1, <2>2 DEF DispatchTypes
  <1>7. ASSUME ~raced' PROVE Fits(job, assignment, Live, <<>>)' /\ OneRecommends'
    <2>1. /\ Rows(Committed)' \subseteq Rows(Committed)
          /\ Rows({"recommended"})' \subseteq Rows({"recommended"})
          /\ Live' \subseteq Live
      BY <1>0, <1>4 DEF Rows, Live, Committed
    <2>2. \A a \in Live' : assignment'[a] = assignment[a]
      BY <1>0, <1>4 DEF Rows, Live, Committed
    <2>3. \A d \in Dispatchers : Recommending(d)' => Recommending(d) /\ request'[d] = request[d]
      BY <1>1 DEF Recommending
    <2>4. Fits(job, assignment, Live, <<>>) /\ OneRecommends
      BY <1>1, <1>7 DEF DispatchInv
    <2>6. \A i \in DOMAIN job' : i \in DOMAIN job /\ (job'[i].target = 0 \/ job[i].target = job'[i].target)
      BY <1>3
    <2> QED
      BY <1>2, <1>6, <2>1, <2>2, <2>3, <2>4, <2>6, EasesKeeps
  <1> QED
    BY <1>6, <1>7 DEF DispatchInv

\* A decision begins: it holds no lock.
LEMMA DecisionBegins ==
  ASSUME DispatchInv, NEW d \in Dispatchers, NEW a \in DOMAIN assignment,
         ApproveAssignment(d, a) \/ RejectAssignment(d, a)
  PROVE  DispatchInv'
  <1>1. PICK s \in {"approved", "rejected"} :
          /\ request' = [request EXCEPT ![d] = [kind |-> "decide", row |-> a, state |-> s]]
          /\ UNCHANGED <<job, assignment, raced>>
    BY DEF ApproveAssignment, RejectAssignment
  <1>2. DispatchTypes
    BY DEF DispatchInv
  <1>3. /\ request'[d] = [kind |-> "decide", row |-> a, state |-> s]
        /\ \A e \in Dispatchers : e # d => request'[e] = request[e]
        /\ request' = [e \in Dispatchers |-> request'[e]]
    BY <1>1, <1>2 DEF DispatchTypes
  <1>4. DispatchTypes'
    <2>1. RequestTypes(d)'
      BY <1>1, <1>3 DEF RequestTypes
    <2>2. ASSUME NEW e \in Dispatchers, e # d PROVE RequestTypes(e)'
      BY <1>1, <1>2, <1>3, <2>2, RequestStays DEF DispatchTypes
    <2> QED
      BY <1>1, <1>2, <1>3, <2>1, <2>2 DEF DispatchTypes
  <1>5. ASSUME ~raced' PROVE Fits(job, assignment, Live, <<>>)' /\ OneRecommends'
    <2>1. \A states : Rows(states)' = Rows(states)
      BY <1>1 DEF Rows
    <2>2. Live' = Live
      BY <2>1 DEF Live
    <2>3. \A e \in Dispatchers : Recommending(e)' => Recommending(e) /\ request'[e] = request[e]
      BY <1>3 DEF Recommending
    <2>4. Fits(job, assignment, Live, <<>>) /\ OneRecommends
      BY <1>1, <1>5 DEF DispatchInv
    <2> QED
      BY <1>1, <1>2, <1>4, <2>1, <2>2, <2>3, <2>4, EasesKeeps
  <1> QED
    BY <1>4, <1>5 DEF DispatchInv

\* A decision is written: while a recommend is under way every recommendation is locked, so
\* what is written over was decided already, and the decisions have raced.
LEMMA DecideKeeps ==
  ASSUME DispatchInv, NEW d \in Dispatchers, DecideCommit(d) PROVE DispatchInv'
  <1> DEFINE a == request[d].row
             s == request[d].state
  <1>1. /\ request[d].kind = "decide" /\ a \notin Locked
        /\ request' = [request EXCEPT ![d] = NoRequest] /\ job' = job
        /\ IF assignment[a].state = "deleted" THEN UNCHANGED <<assignment, raced>>
           ELSE /\ assignment' = [assignment EXCEPT ![a].state = s]
                /\ raced' = (raced \/ assignment[a].state # "recommended")
    BY DEF DecideCommit
  <1>2. DispatchTypes
    BY DEF DispatchInv
  <1>3. a \in DOMAIN assignment /\ s \in {"approved", "rejected"}
    BY <1>1, <1>2 DEF DispatchTypes, RequestTypes, NoRequest
  <1> HIDE DEF a, s
  <1>4. /\ request'[d] = NoRequest
        /\ \A e \in Dispatchers : e # d => request'[e] = request[e]
        /\ request' = [e \in Dispatchers |-> request'[e]]
    BY <1>1, <1>2 DEF DispatchTypes
  <1>5. /\ DOMAIN assignment' = DOMAIN assignment
        /\ \A b \in DOMAIN assignment :
             /\ assignment'[b] \in Assignments
             /\ assignment'[b].truck = assignment[b].truck /\ assignment'[b].job = assignment[b].job
             /\ b # a => assignment'[b] = assignment[b]
        /\ assignment'[a].state = s \/ assignment' = assignment
    <2>1. \A b \in DOMAIN assignment : assignment[b] \in Assignments
      BY <1>2, DispatchShape
    <2>2. CASE assignment[a].state = "deleted"
      BY <1>1, <2>1, <2>2
    <2>3. CASE assignment[a].state # "deleted"
      <3>1. assignment' = [assignment EXCEPT ![a].state = s]
        BY <1>1, <2>3
      <3>2. \A b \in DOMAIN assignment :
              assignment'[b] = IF b = a THEN [assignment[a] EXCEPT !.state = s] ELSE assignment[b]
        BY <3>1
      <3>3. [assignment[a] EXCEPT !.state = s] \in Assignments
        BY <1>3, <2>1 DEF Assignments, AssignmentStates
      <3>4. /\ [assignment[a] EXCEPT !.state = s].state = s
            /\ [assignment[a] EXCEPT !.state = s].truck = assignment[a].truck
            /\ [assignment[a] EXCEPT !.state = s].job = assignment[a].job
        BY <1>3, <2>1 DEF Assignments
      <3> QED
        BY <1>3, <2>1, <3>1, <3>2, <3>3, <3>4
    <2> QED
      BY <2>2, <2>3
  <1>6. DispatchTypes'
    <2>1. assignment' \in Seq(Assignments)
      <3>1. assignment' \in [1 .. Len(assignment) -> Assignments] /\ Len(assignment) \in Nat
        <4>1. assignment' = [b \in DOMAIN assignment |-> assignment'[b]]
          <5>1. assignment = [b \in DOMAIN assignment |-> assignment[b]]
            <6>1. assignment \in Seq(Assignments)
              BY <1>2 DEF DispatchTypes
            <6> QED
              BY <6>1
          <5>2. CASE assignment' = assignment
            BY <5>1, <5>2
          <5>3. CASE assignment' = [assignment EXCEPT ![a].state = s]
            BY <5>3
          <5> QED
            BY <1>1, <5>2, <5>3
        <4> QED
          BY <1>2, <1>5, <4>1, DispatchShape
      <3> QED
        BY <3>1, FunIsSeq
    <2>2. RequestTypes(d)'
      BY <1>4 DEF RequestTypes
    <2>3. ASSUME NEW e \in Dispatchers, e # d PROVE RequestTypes(e)'
      BY <1>1, <1>2, <1>4, <1>5, <2>3, RequestStays DEF DispatchTypes
    <2>4. raced' \in BOOLEAN
      BY <1>1, <1>2 DEF DispatchTypes
    <2> QED
      BY <1>1, <1>2, <1>4, <1>5, <2>1, <2>2, <2>3, <2>4 DEF DispatchTypes
  <1>7. ASSUME ~raced' PROVE Fits(job, assignment, Live, <<>>)' /\ OneRecommends'
    <2>1. assignment' = assignment \/ assignment[a].state = "recommended"
      BY <1>1, <1>7
    <2>2. ~raced
      BY <1>1, <1>7
    <2>3. Fits(job, assignment, Live, <<>>) /\ OneRecommends
      BY <2>2 DEF DispatchInv
    <2>4. Live' \subseteq Live
      BY <1>3, <1>5, <2>1 DEF Live, Rows
    <2>5. \A b \in Live' : b \in DOMAIN assignment
      BY <1>5 DEF Live, Rows
    <2>6. ASSUME NEW e \in Dispatchers, Recommending(e)'
          PROVE  /\ Recommending(e) /\ request'[e] = request[e]
                 /\ Rows(Committed)' \subseteq Rows(Committed)
                 /\ Rows({"recommended"})' \subseteq Rows({"recommended"})
      <3>1. Recommending(e) /\ request'[e] = request[e]
        BY <1>4, <2>6 DEF Recommending, NoRequest
      <3>2. a \notin Rows({"recommended"})
        BY <1>1, <2>3, <3>1 DEF OneRecommends, Locked
      <3>3. assignment' = assignment
        BY <1>3, <2>1, <3>2 DEF Rows
      <3> QED
        BY <3>1, <3>3 DEF Rows
    <2>7. \A b \in Live' : assignment'[b].truck = assignment[b].truck /\ assignment'[b].job = assignment[b].job
      BY <1>5, <2>5
    <2>8. \A j \in DOMAIN job' : j \in DOMAIN job /\ job[j].target = job'[j].target
      BY <1>1
    <2> QED
      BY <1>2, <1>6, <2>3, <2>4, <2>6, <2>7, <2>8, EasesKeeps
  <1> QED
    BY <1>6, <1>7 DEF DispatchInv

\* A recommend begins by deleting, and so locking, every recommendation there is.
LEMMA RecommendDeleteKeeps ==
  ASSUME DispatchInv, NEW d \in Dispatchers, RecommendDelete(d) PROVE DispatchInv'
  <1> DEFINE open == Rows({"recommended"})
             q == [kind |-> "recommend", deleted |-> open, planned |-> FALSE, recs |-> <<>>]
  <1>1. /\ request[d] = NoRequest /\ request' = [request EXCEPT ![d] = q]
        /\ raced' = (raced \/ \E e \in Dispatchers : Recommending(e))
        /\ UNCHANGED <<job, assignment>>
    BY DEF RecommendDelete
  <1>2. DispatchTypes
    BY DEF DispatchInv
  <1>3. /\ request'[d] = q
        /\ \A e \in Dispatchers : e # d => request'[e] = request[e]
        /\ request' = [e \in Dispatchers |-> request'[e]]
    BY <1>1, <1>2 DEF DispatchTypes
  <1>4. DispatchTypes'
    <2>1. RequestTypes(d)'
      <3>1. open \subseteq DOMAIN assignment
        BY DEF Rows
      <3>2. <<>> \in Seq(Proposals) /\ DOMAIN <<>> = {}
        OBVIOUS
      <3> QED
        BY <1>1, <1>3, <3>1, <3>2 DEF RequestTypes
    <2>2. ASSUME NEW e \in Dispatchers, e # d PROVE RequestTypes(e)'
      BY <1>1, <1>2, <1>3, <2>2, RequestStays DEF DispatchTypes
    <2>3. raced' \in BOOLEAN
      BY <1>1, <1>2 DEF DispatchTypes
    <2> QED
      BY <1>1, <1>2, <1>3, <2>1, <2>2, <2>3 DEF DispatchTypes
  <1>5. ASSUME ~raced' PROVE Fits(job, assignment, Live, <<>>)' /\ OneRecommends'
    <2>1. \A states : Rows(states)' = Rows(states)
      BY <1>1 DEF Rows
    <2>2. Live' = Live
      BY <2>1 DEF Live
    <2>3. ~raced /\ \A e \in Dispatchers : ~Recommending(e)
      BY <1>1, <1>5
    <2>4. Fits(job, assignment, Live, <<>>)'
      BY <1>1, <2>2, <2>3 DEF DispatchInv
    <2>5. \A e \in Dispatchers : Recommending(e)' => e = d
      BY <1>3, <2>3 DEF Recommending
    <2>6. Rows({"recommended"})' \subseteq request'[d].deleted /\ ~request'[d].planned
      BY <1>3, <2>1
    <2> QED
      BY <2>4, <2>5, <2>6 DEF OneRecommends
  <1> QED
    BY <1>4, <1>5 DEF DispatchInv

\* Its plan fits with what is committed when it reads.
LEMMA RecommendPlanKeeps ==
  ASSUME DispatchInv, NEW d \in Dispatchers, RecommendPlan(d) PROVE DispatchInv'
  <1>1. /\ Recommending(d) /\ ~request[d].planned
        /\ request' = [request EXCEPT ![d].planned = TRUE, ![d].recs = Recommendations]
        /\ UNCHANGED <<job, assignment, raced>>
    BY DEF RecommendPlan
  <1>2. DispatchTypes
    BY DEF DispatchInv
  <1>3. request[d] = [kind |-> "recommend", deleted |-> request[d].deleted,
                      planned |-> request[d].planned, recs |-> request[d].recs]
    BY <1>1, <1>2 DEF DispatchTypes, RequestTypes, Recommending, NoRequest
  <1>4. PICK R : R = Recommendations
    OBVIOUS
  <1>5. /\ request'[d] = [kind |-> "recommend", deleted |-> request[d].deleted, planned |-> TRUE, recs |-> R]
        /\ \A e \in Dispatchers : e # d => request'[e] = request[e]
        /\ request' = [e \in Dispatchers |-> request'[e]]
    <2>1. PICK q : q = request[d]
      OBVIOUS
    <2>2. PICK x, y, z : x = q.deleted /\ q = [kind |-> "recommend", deleted |-> x, planned |-> y, recs |-> z]
      BY <1>3, <2>1
    <2>12. PICK p : p = [q EXCEPT !.planned = TRUE]
      OBVIOUS
    <2>3. p = [kind |-> "recommend", deleted |-> x, planned |-> TRUE, recs |-> z]
      <3>1. PICK yes : yes = TRUE
        OBVIOUS
      <3>2. p = [q EXCEPT !.planned = yes]
        BY <2>12, <3>1
      <3>3. p = [kind |-> "recommend", deleted |-> x, planned |-> yes, recs |-> z]
        BY <2>2, <3>2
      <3> QED
        BY <3>1, <3>3
    <2>13. PICK r : r = [p EXCEPT !.recs = R]
      OBVIOUS
    <2>4. r = [kind |-> "recommend", deleted |-> x, planned |-> TRUE, recs |-> R]
      BY <2>3, <2>13
    <2>5. request = [e \in Dispatchers |-> request[e]]
      BY <1>2 DEF DispatchTypes
    <2>6. request' = [[request EXCEPT ![d].planned = TRUE] EXCEPT ![d].recs = R]
      BY <1>1, <1>4
    <2>7. PICK r1 : r1 = [request EXCEPT ![d] = p]
      OBVIOUS
    <2>8. request' = [r1 EXCEPT ![d] = [r1[d] EXCEPT !.recs = R]] /\ r1[d] = p
      BY <2>1, <2>5, <2>6, <2>7, <2>12
    <2>9. r1 = [e \in Dispatchers |-> r1[e]] /\ \A e \in Dispatchers : e # d => r1[e] = request[e]
      BY <2>5, <2>7
    <2>10. request'[d] = r
      BY <2>8, <2>9, <2>13
    <2>11. /\ \A e \in Dispatchers : e # d => request'[e] = request[e]
           /\ request' = [e \in Dispatchers |-> request'[e]]
      BY <2>8, <2>9
    <2> QED
      BY <2>1, <2>2, <2>4, <2>10, <2>11
  <1>6. R \in Seq(Proposals) /\ \A n \in DOMAIN R : R[n].job \in DOMAIN job
    BY <1>2, <1>4, RecommendationsFit DEF Recommended
  <1>7. DispatchTypes'
    <2>1. RequestTypes(d)'
      <3>1. request[d].deleted \subseteq DOMAIN assignment
        BY <1>1, <1>2, RequestKinds DEF DispatchTypes
      <3>2. PICK q2 : q2 = request'[d]
        OBVIOUS
      <3>3. /\ q2 = [kind |-> "recommend", deleted |-> q2.deleted, planned |-> q2.planned, recs |-> q2.recs]
            /\ q2.planned \in BOOLEAN /\ q2.recs = R /\ q2.deleted \subseteq DOMAIN assignment
        BY <1>5, <3>1, <3>2
      <3>4. q2.recs \in Seq(Proposals) /\ \A n \in DOMAIN q2.recs : q2.recs[n].job \in DOMAIN job
        BY <1>6, <3>3
      <3> QED
        BY <1>1, <3>2, <3>3, <3>4 DEF RequestTypes
    <2>2. ASSUME NEW e \in Dispatchers, e # d PROVE RequestTypes(e)'
      BY <1>1, <1>2, <1>5, <2>2, RequestStays DEF DispatchTypes
    <2> QED
      BY <1>1, <1>2, <1>5, <2>1, <2>2 DEF DispatchTypes
  <1>8. ASSUME ~raced' PROVE Fits(job, assignment, Live, <<>>)' /\ OneRecommends'
    <2>1. \A states : Rows(states)' = Rows(states)
      BY <1>1 DEF Rows
    <2>2. Live' = Live
      BY <2>1 DEF Live
    <2>3. Fits(job, assignment, Live, <<>>) /\ OneRecommends
      BY <1>1, <1>8 DEF DispatchInv
    <2>4. CommittedFits
      <3>3. DOMAIN <<>> = {}
        OBVIOUS
      <3>4. Rows(Committed) \subseteq Live
        BY DEF Live, Rows
      <3>5. IsFiniteSet(Live)
        BY <1>2, DispatchShape DEF Live
      <3>1. IsFiniteSet(Live) /\ Rows(Committed) \subseteq Live /\ IsFiniteSet(DOMAIN <<>>)
        BY <3>3, <3>4, <3>5, FS_EmptySet
      <3>2. \A j \in DOMAIN job : job[j].target \in Nat
        BY <1>2, DispatchShape DEF Jobs
      <3> QED
        BY <2>3, <3>1, <3>2, FitsShrinks DEF CommittedFits
    <2>5. Fits(job, assignment, Rows(Committed), R)
      BY <1>2, <1>4, <2>4, RecommendationsFit DEF Recommended
    <2>6. \A e \in Dispatchers : Recommending(e)' => Recommending(e)
      BY <1>1, <1>5 DEF Recommending
    <2>7. \A e \in Dispatchers : Recommending(e)' => e = d
      BY <1>1, <2>3, <2>6 DEF OneRecommends
    <2>8. Rows({"recommended"})' \subseteq request'[d].deleted
      BY <1>1, <1>5, <2>1, <2>3 DEF OneRecommends
    <2>9. Fits(job', assignment', Rows(Committed)', request'[d].recs)
      <3>1. request'[d].recs = R
        BY <1>5
      <3> QED
        BY <1>1, <2>1, <2>5, <3>1
    <2> QED
      BY <1>1, <2>2, <2>3, <2>7, <2>8, <2>9 DEF OneRecommends
  <1> QED
    BY <1>7, <1>8 DEF DispatchInv

\* It commits: the recommendations it deleted give way to its own, or nothing changes.
LEMMA RecommendCommitKeeps ==
  ASSUME DispatchInv, NEW d \in Dispatchers, RecommendCommit(d) PROVE DispatchInv'
  <1> DEFINE q == request[d]
             valid == \A n \in DOMAIN q.recs : job[q.recs[n].job].status # "deleted"
             kept == [a \in DOMAIN assignment |-> IF a \in q.deleted THEN DeletedRow ELSE assignment[a]]
  <1>1. /\ Recommending(d) /\ q.planned
        /\ assignment' = IF valid THEN kept \o q.recs ELSE assignment
        /\ request' = [request EXCEPT ![d] = NoRequest] /\ UNCHANGED <<job, raced>>
    BY DEF RecommendCommit
  <1>2. DispatchTypes
    BY DEF DispatchInv
  <1>3. /\ request'[d] = NoRequest
        /\ \A e \in Dispatchers : e # d => request'[e] = request[e]
        /\ request' = [e \in Dispatchers |-> request'[e]]
    BY <1>1, <1>2 DEF DispatchTypes
  <1>4. /\ q.recs \in Seq(Proposals) /\ q.deleted \subseteq DOMAIN assignment
        /\ \A n \in DOMAIN q.recs : q.recs[n].job \in DOMAIN job
    BY <1>1, <1>2, RequestKinds DEF DispatchTypes
  <1>5. DeletedRow \in Assignments /\ DeletedRow.state = "deleted" /\ DeletedRow.job = 0
    BY DEF DeletedRow, Assignments, AssignmentStates
  <1>6. PICK recs : recs = q.recs
    OBVIOUS
  <1>7. PICK l \in Nat : l = Len(recs)
    BY <1>4, <1>6
  <1>8. PICK k \in Nat : k = Len(assignment)
    BY <1>2, DispatchShape
  <1>9. /\ recs \in Seq(Proposals) /\ DOMAIN recs = 1 .. l /\ DOMAIN assignment = 1 .. k
        /\ \A n \in 1 .. l : recs[n] \in Proposals
    BY <1>2, <1>4, <1>6, <1>7, <1>8, DispatchShape
  <1>10. Proposals \subseteq Assignments
    BY DispatchNumbers DEF Proposals, Assignments, AssignmentStates, Trucks
  <1>11. kept \in Seq(Assignments) /\ Len(kept) = k /\ \A a \in 1 .. k : kept[a] \in {assignment[a], DeletedRow}
    <2>1. \A a \in DOMAIN assignment : assignment[a] \in Assignments
      BY <1>2, DispatchShape
    <2>2. kept \in [1 .. k -> Assignments]
      BY <1>5, <1>9, <2>1
    <2> QED
      BY <1>9, <2>2, FunIsSeq
  <1> HIDE DEF kept
  <1>12. CASE ~valid
    <2>1. assignment' = assignment
      BY <1>1, <1>12
    <2>2. DispatchTypes'
      <3>1. RequestTypes(d)'
        BY <1>3 DEF RequestTypes
      <3>2. ASSUME NEW e \in Dispatchers, e # d PROVE RequestTypes(e)'
        BY <1>1, <1>2, <1>3, <2>1, <3>2, RequestStays DEF DispatchTypes
      <3> QED
        BY <1>1, <1>2, <1>3, <2>1, <3>1, <3>2 DEF DispatchTypes
    <2>3. ASSUME ~raced' PROVE Fits(job, assignment, Live, <<>>)' /\ OneRecommends'
      <3>1. \A states : Rows(states)' = Rows(states)
        BY <2>1 DEF Rows
      <3>2. Live' = Live
        BY <3>1 DEF Live
      <3>3. Fits(job, assignment, Live, <<>>) /\ OneRecommends
        BY <1>1, <2>3 DEF DispatchInv
      <3>4. \A e \in Dispatchers : ~Recommending(e)'
        BY <1>1, <1>3, <3>3 DEF OneRecommends, Recommending, NoRequest
      <3> QED
        BY <1>1, <2>1, <3>2, <3>3, <3>4 DEF OneRecommends
    <2> QED
      BY <2>2, <2>3 DEF DispatchInv
  <1>13. CASE valid
    <2>1. assignment' = kept \o recs
      BY <1>1, <1>6, <1>13
    <2>2. recs \in Seq(Assignments)
      BY <1>7, <1>9, <1>10
    <2>3. /\ assignment' \in Seq(Assignments) /\ Len(assignment') = k + l
          /\ \A a \in 1 .. k : assignment'[a] = kept[a]
          /\ \A n \in 1 .. l : assignment'[k + n] = recs[n]
      <3>1. PICK K : K = kept
        OBVIOUS
      <3>2. K \in Seq(Assignments) /\ Len(K) = k
        BY <1>11, <3>1
      <3>3. Len(K \o recs) = k + l
        BY <1>7, <2>2, <3>2
      <3>4. K \o recs \in Seq(Assignments)
        BY <2>2, <3>2
      <3>5. \A a \in 1 .. k + l : (K \o recs)[a] = IF a <= k THEN K[a] ELSE recs[a - k]
        BY <1>7, <2>2, <3>2
      <3>6. ASSUME NEW a \in 1 .. k PROVE (K \o recs)[a] = K[a]
        <4>1. a \in 1 .. k + l /\ a <= k
          OBVIOUS
        <4> QED
          BY <3>5, <4>1
      <3>7. ASSUME NEW n \in 1 .. l PROVE (K \o recs)[k + n] = recs[n]
        <4>1. k + n \in 1 .. k + l /\ ~ (k + n <= k) /\ (k + n) - k = n
          OBVIOUS
        <4> QED
          BY <3>5, <4>1
      <3> QED
        BY <2>1, <3>1, <3>3, <3>4, <3>6, <3>7
    <2>4. DOMAIN assignment' = 1 .. k + l
      BY <2>3
    <2>5. \A a \in DOMAIN assignment' : a \in 1 .. k \/ \E n \in 1 .. l : a = k + n
      <3>1. ASSUME NEW a \in 1 .. k + l, a \notin 1 .. k PROVE \E n \in 1 .. l : a = k + n
        <4>1. a - k \in 1 .. l /\ a = k + (a - k)
          BY <3>1
        <4> QED
          BY <4>1
      <3> QED
        BY <2>4, <3>1
    <2>6. DispatchTypes'
      <3>1. RequestTypes(d)'
        BY <1>3 DEF RequestTypes
      <3>2. ASSUME NEW e \in Dispatchers, e # d PROVE RequestTypes(e)'
        <4>1. DOMAIN assignment \subseteq DOMAIN assignment'
          BY <1>9, <2>4
        <4> QED
          BY <1>1, <1>2, <1>3, <3>2, <4>1, RequestStays DEF DispatchTypes
      <3>3. \A a \in DOMAIN assignment' : assignment'[a].job \in 0 .. Len(job)
        <4>1. Len(job) \in Nat /\ DOMAIN job = 1 .. Len(job)
          BY <1>2, DispatchShape
        <4>2. \A n \in 1 .. l : recs[n].job \in 0 .. Len(job)
          BY <1>4, <1>6, <1>9, <4>1
        <4>3. ASSUME NEW a \in 1 .. k PROVE kept[a].job \in 0 .. Len(job)
          <5>1. CASE kept[a] = DeletedRow
            BY <1>5, <4>1, <5>1
          <5>2. CASE kept[a] = assignment[a]
            BY <1>2, <1>9, <5>2 DEF DispatchTypes
          <5> QED
            BY <1>11, <5>1, <5>2
        <4> QED
          BY <2>3, <2>5, <4>2, <4>3
      <3> QED
        BY <1>1, <1>2, <1>3, <2>3, <3>1, <3>2, <3>3 DEF DispatchTypes
    <2>7. ASSUME ~raced' PROVE Fits(job, assignment, Live, <<>>)' /\ OneRecommends'
      <3>1. Fits(job, assignment, Live, <<>>) /\ OneRecommends
        BY <1>1, <2>7 DEF DispatchInv
      <3>2. Fits(job, assignment, Rows(Committed), recs) /\ Rows({"recommended"}) \subseteq q.deleted
        BY <1>1, <1>6, <3>1 DEF OneRecommends
      <3>3. \A e \in Dispatchers : ~Recommending(e)'
        BY <1>1, <1>3, <3>1 DEF OneRecommends, Recommending, NoRequest
      <3> DEFINE S == {a \in Rows(Committed) : a \notin q.deleted}
                 T == S \cup Inserted(k, l)
      <3>4. \A a \in DOMAIN assignment : kept[a] = IF a \in q.deleted THEN DeletedRow ELSE assignment[a]
        BY DEF kept
      <3>5. \A a \in S : a \in 1 .. k /\ assignment'[a] = assignment[a]
        BY <1>9, <2>3, <3>4 DEF Rows
      <3>6. Live' \subseteq T
        <4>1. ASSUME NEW a \in Live' PROVE a \in T
          <5>1. a \in DOMAIN assignment' /\ assignment'[a].state \in Committed \cup {"recommended"}
            BY DEF Live, Rows
          <5>2. CASE a \in 1 .. k
            <6>1. a \in DOMAIN assignment /\ assignment'[a] = kept[a]
              BY <1>9, <2>3, <5>2
            <6>2. a \notin q.deleted
              BY <1>5, <3>4, <5>1, <6>1 DEF Committed
            <6>3. assignment'[a] = assignment[a] /\ a \notin Rows({"recommended"})
              BY <3>2, <3>4, <6>1, <6>2
            <6> QED
              BY <5>1, <6>1, <6>2, <6>3 DEF Rows
          <5>3. CASE \E n \in 1 .. l : a = k + n
            BY <5>3 DEF Inserted
          <5> QED
            BY <2>5, <5>1, <5>2, <5>3
        <4> QED
          BY <4>1
      <3>7. PICK rows2 : rows2 = assignment'
        OBVIOUS
      <3>8. \A j \in DOMAIN job : job[j].target \in Nat
        BY <1>2, DispatchShape DEF Jobs
      <3>9. IsFiniteSet(S) /\ S \subseteq Rows(Committed) /\ IsFiniteSet(Rows(Committed)) /\ IsFiniteSet(DOMAIN recs)
        <4>1. IsFiniteSet(Rows(Committed))
          BY <1>2, DispatchShape
        <4>2. IsFiniteSet(1 .. l)
          BY FS_Interval
        <4>3. S \in SUBSET Rows(Committed)
          OBVIOUS
        <4> HIDE DEF S
        <4> QED
          BY <1>9, <4>1, <4>2, <4>3, FS_Subset
      <3>10. IsFiniteSet(T)
        <4>1. T \subseteq 1 .. k + l
          BY <3>5 DEF Inserted
        <4>2. IsFiniteSet(1 .. k + l)
          BY FS_Interval
        <4> HIDE DEF T
        <4> QED
          BY <4>1, <4>2, FS_Subset
      <3> HIDE DEF S
      <3>11. Fits(job, assignment, S, recs)
        BY <3>2, <3>8, <3>9, FitsShrinks
      <3>12. Fits(job, rows2, T, <<>>)
        <4>1. \A a \in S : rows2[a] = assignment[a]
          BY <3>5, <3>7
        <4>2. \A n \in 1 .. l : rows2[k + n] = recs[n]
          BY <2>3, <3>7
        <4>3. S \subseteq 1 .. k
          BY <3>5
        <4> QED
          BY <1>9, <3>8, <3>9, <3>11, <4>1, <4>2, <4>3, FitsInserted
      <3> HIDE DEF T
      <3>13. PICK L2 : L2 = Live'
        OBVIOUS
      <3>14. Fits(job, rows2, L2, <<>>)
        <4>1. IsFiniteSet(DOMAIN <<>>) /\ L2 \subseteq T
          BY <3>6, <3>13, FS_EmptySet
        <4> QED
          BY <3>8, <3>10, <3>12, <4>1, FitsShrinks
      <3> QED
        BY <1>1, <3>3, <3>7, <3>13, <3>14 DEF OneRecommends
    <2> QED
      BY <2>6, <2>7 DEF DispatchInv
  <1> QED
    BY <1>12, <1>13

\* What fits is not overcommitted.
LEMMA FitsNotOvercommitted == DispatchInv => FleetNotOvercommitted
  <1> SUFFICES ASSUME DispatchInv, ~raced
               PROVE  /\ \A t \in Trucks : Cardinality({a \in Rows(Committed) : assignment[a].truck = t}) <= 1
                      /\ \A j \in DOMAIN job :
                           \/ job[j].target = 0
                           \/ Cardinality({a \in Rows(Committed) : assignment[a].job = j}) <= job[j].target
    BY DEF FleetNotOvercommitted
  <1>1. DispatchTypes /\ Fits(job, assignment, Live, <<>>)
    BY DEF DispatchInv
  <1>2. Rows(Committed) \subseteq Live /\ IsFiniteSet(Live) /\ IsFiniteSet(Rows(Committed))
    BY <1>1, DispatchShape DEF Rows, Live
  <1>3. ASSUME NEW t \in Trucks
        PROVE  Cardinality({a \in Rows(Committed) : assignment[a].truck = t}) <= 1
    <2> DEFINE A == {a \in Rows(Committed) : assignment[a].truck = t}
    <2>1. \A a, b \in A : a = b
      BY <1>1, <1>2 DEF Fits
    <2> HIDE DEF A
    <2>2. A = {} \/ \E a : A = {a}
      BY <2>1
    <2>3. Cardinality(A) = 0 \/ Cardinality(A) = 1
      BY <2>2, FS_EmptySet, FS_Singleton
    <2>4. Cardinality(A) <= 1
      BY <2>3
    <2> QED
      BY <2>4 DEF A
  <1>4. ASSUME NEW j \in DOMAIN job, job[j].target # 0
        PROVE  Cardinality({a \in Rows(Committed) : assignment[a].job = j}) <= job[j].target
    <2>1. Fits(job, assignment, Rows(Committed), <<>>)
      <3>1. \A i \in DOMAIN job : job[i].target \in Nat
        BY <1>1, DispatchShape DEF Jobs
      <3>2. IsFiniteSet(DOMAIN <<>>)
        BY FS_EmptySet
      <3> QED
        BY <1>1, <1>2, <3>1, <3>2, FitsShrinks
    <2>2. Cardinality(OfJob(assignment, Rows(Committed), j)) + Cardinality(OfJob(<<>>, DOMAIN <<>>, j)) <= job[j].target
      BY <1>4, <2>1 DEF Fits
    <2>3. Cardinality(OfJob(<<>>, DOMAIN <<>>, j)) = 0
      <3>1. OfJob(<<>>, DOMAIN <<>>, j) = {}
        BY DEF OfJob
      <3> QED
        BY <3>1, FS_EmptySet
    <2>4. Cardinality(OfJob(assignment, Rows(Committed), j)) \in Nat
      BY <1>2, OfJobFinite
    <2>5. Cardinality(OfJob(assignment, Rows(Committed), j)) <= job[j].target
      BY <2>2, <2>3, <2>4
    <2> QED
      BY <2>5 DEF OfJob
  <1> QED
    BY <1>3, <1>4

\* Theorem: the fleet is not overcommitted.
\* For any number of supervisors, trucks and jobs: unless two recommends overlapped or one
\* decision overwrote another, no truck is committed twice and no job gets more trucks than
\* it asked for, although approving checks neither (recommend, approve_assignment,
\* set_job_status, run_retention).
THEOREM FleetStaysWithinTargets == DispatchSpec => []FleetNotOvercommitted
  <1>1. DispatchInit => DispatchInv
    BY DispatchInitInv
  <1>2. DispatchInv /\ [DispatchNext]_dispatchVars => DispatchInv'
    <2> SUFFICES ASSUME DispatchInv, [DispatchNext]_dispatchVars PROVE DispatchInv'
      OBVIOUS
    <2>1. CASE \E k \in JobKinds : CreateJob(k)
      BY <2>1, CreateJobKeeps
    <2>2. CASE \E j \in DOMAIN job, s \in JobStatuses : SetJobStatus(j, s)
      BY <2>2, SetJobStatusKeeps
    <2>3. CASE \E j \in DOMAIN job : PurgeJob(j)
      BY <2>3, PurgeJobKeeps
    <2>4. CASE \E d \in Dispatchers : \/ RecommendDelete(d) \/ RecommendPlan(d) \/ RecommendCommit(d)
                                      \/ DecideCommit(d)
      BY <2>4, RecommendDeleteKeeps, RecommendPlanKeeps, RecommendCommitKeeps, DecideKeeps
    <2>5. CASE \E d \in Dispatchers, a \in DOMAIN assignment : ApproveAssignment(d, a) \/ RejectAssignment(d, a)
      BY <2>5, DecisionBegins
    <2>6. CASE UNCHANGED dispatchVars
      <3>1. UNCHANGED <<job, assignment, request, raced>>
        BY <2>6 DEF dispatchVars
      <3>2. DispatchTypes'
        BY <3>1 DEF DispatchInv, DispatchTypes, RequestTypes
      <3>3. \A states : Rows(states)' = Rows(states)
        BY <3>1 DEF Rows
      <3>4. Live' = Live
        BY <3>3 DEF Live
      <3>5. OneRecommends => OneRecommends'
        BY <3>1, <3>3 DEF OneRecommends, Recommending
      <3> QED
        BY <3>1, <3>2, <3>4, <3>5 DEF DispatchInv
    <2> QED
      BY <2>1, <2>2, <2>3, <2>4, <2>5, <2>6 DEF DispatchNext
  <1>3. DispatchInv => FleetNotOvercommitted
    BY FitsNotOvercommitted
  <1> QED
    BY <1>1, <1>2, <1>3, PTL DEF DispatchSpec

================================================================================
