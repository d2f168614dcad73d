-------------------------------- MODULE Shifts -------------------------------
(***************************************************************************)
(* Shift instances (operations/shifts.py): derived from a site's           *)
(* definitions (api/routers/operations.py), never stored, and computed in  *)
(* local time across midnight.  Time is in hours; the site's zone has a    *)
(* fixed offset, as Africa/Harare.                                         *)
(***************************************************************************)
EXTENDS Integers, FiniteSets, FiniteSetsExt

CONSTANTS
  ShiftNames,
  StartHours, Durations,   \* start_hour_local (0 .. 23) and duration_hours (1 .. 24)
  ZoneOffset,              \* local time minus UTC
  ShiftsBegin, ShiftsEnd,  \* the hours looked at
  SpanLengths,                   \* lengths of the spans asked of windows_ending_between
  MaxShiftEdits            \* bound on edits of the definitions

(* The API's bounds on a definition; spans no longer than AllWindows looks back. *)
ASSUME ShiftAssumption ==
  /\ StartHours \subseteq 0 .. 23 /\ Durations \subseteq 1 .. 24
  /\ ZoneOffset \in Int /\ ShiftsBegin \in Int /\ SpanLengths \subseteq 0 .. 72

VARIABLES shDefs, shNow, shEdits

shVars == <<shDefs, shNow, shEdits>>

Definitions == [start : StartHours, duration : Durations, enabled : BOOLEAN]
Undefined == [start |-> 0, duration |-> 0, enabled |-> FALSE]

ShiftInit ==
  /\ shDefs = [n \in ShiftNames |-> Undefined]
  /\ shNow = ShiftsBegin /\ shEdits = 0

(* upsert_shift_definition *)
UpsertShift(n, d) ==
  /\ shEdits < MaxShiftEdits
  /\ shEdits' = shEdits + 1
  /\ shDefs' = [shDefs EXCEPT ![n] = d]
  /\ UNCHANGED shNow

(* delete_shift_definition *)
DeleteShift(n) ==
  /\ shEdits < MaxShiftEdits /\ shDefs[n] # Undefined
  /\ shEdits' = shEdits + 1
  /\ shDefs' = [shDefs EXCEPT ![n] = Undefined]
  /\ UNCHANGED shNow

HourPasses ==
  /\ shNow < ShiftsEnd
  /\ shNow' = shNow + 1
  /\ UNCHANGED <<shDefs, shEdits>>

ShiftNext ==
  \/ \E n \in ShiftNames : DeleteShift(n) \/ \E d \in Definitions : UpsertShift(n, d)
  \/ HourPasses

ShiftSpec == ShiftInit /\ [][ShiftNext]_shVars

-----------------------------------------------------------------------------
(* definitions: the enabled ones, or two shifts of twelve hours *)
InForce ==
  LET enabled == {n \in ShiftNames : shDefs[n].enabled}
  IN  IF enabled = {} THEN {[name |-> "day", start |-> 6, duration |-> 12],
                            [name |-> "night", start |-> 18, duration |-> 12]}
      ELSE {[name |-> n, start |-> shDefs[n].start, duration |-> shDefs[n].duration] : n \in enabled}

LocalDay(at) == (at + ZoneOffset) \div 24

(* _window, in UTC *)
ShiftWindow(d, day) ==
  LET start == 24 * day + d.start - ZoneOffset
  IN  [name |-> d.name, day |-> day, start |-> start, end |-> start + d.duration]

Covers(w, at) == w.start <= at /\ at < w.end

(* The days resolve_shift looks at, in its order. *)
DaysTried(at) == <<LocalDay(at), LocalDay(at) - 1>>

(* resolve_shift: of the first day that has one, a shift that contains at
   (the definitions come in no particular order). *)
ResolveShift(at) ==
  LET found(i) == {w \in {ShiftWindow(d, DaysTried(at)[i]) : d \in InForce} : Covers(w, at)}
      days == {i \in DOMAIN DaysTried(at) : found(i) # {}}
  IN  IF days = {} THEN {} ELSE found(Min(days))

(* resolve_shift_by_id, of "<site>:<date>:<name>" *)
ResolveById(day, name) == {ShiftWindow(d, day) : d \in {d \in InForce : d.name = name}}

StartsAtDay(after) == LocalDay(after) - Max({d.duration : d \in InForce}) \div 24
(* The first day windows_ending_between looks at. *)
FirstDay(after) == LocalDay(after) - (Max({d.duration : d \in InForce}) \div 24 + 1)

WindowsEndingBetween(after, until) ==
  {w \in {ShiftWindow(d, day) : d \in InForce, day \in FirstDay(after) .. LocalDay(until)} :
     after < w.end /\ w.end <= until}

-----------------------------------------------------------------------------
(* Every shift instance there is, on any day that matters. *)
AllWindows(at) == {ShiftWindow(d, day) : d \in InForce,
                     day \in LocalDay(at) - 5 .. LocalDay(at) + 3}

(* Whatever the definitions, across midnight and for shifts of up to a day: a
   moment has a current shift exactly when some shift instance contains it,
   and it is one of these, found again by its id; and the instances reported
   as ended in a span are all that ended in it, so that spans that follow one
   another report each shift once (resolve_shift, resolve_shift_by_id,
   windows_ending_between). *)
ShiftsExact ==
  LET all == AllWindows(shNow) IN
  /\ ResolveShift(shNow) \subseteq {w \in all : Covers(w, shNow)}
  /\ ResolveShift(shNow) = {} => \A w \in all : ~Covers(w, shNow)
  /\ \A w \in ResolveShift(shNow) : ResolveById(w.day, w.name) = {w}
  /\ \A span \in SpanLengths :
       WindowsEndingBetween(shNow - span, shNow) = {w \in all : shNow - span < w.end /\ w.end <= shNow}
=============================================================================
