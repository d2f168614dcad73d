------------------------------- MODULE GateSearch -------------------------------
(***************************************************************************)
(* What Mine Monitor concludes from a recorded gate passage                *)
(* (access/service.py, api/routers/access.py): the authorisation verdict   *)
(* when it is first recorded, the physical search it may be selected for,  *)
(* the completion of that search with the detector's outcome, and the      *)
(* maintenance tick that escalates a search nobody completed.              *)
(***************************************************************************)
EXTENDS Naturals

CONSTANTS Entries,        \* passages, by their deterministic access id
          Guards,         \* supervisors completing searches, one request each
          SearchGrace,    \* access_search_grace_s
          OffShift,       \* times outside every shift window (operations/shifts.py)
          SearchRetain,   \* retain_events_days
          SearchMaxTime   \* bound: the clock

ASSUME SearchAssumption == SearchGrace \in Nat /\ SearchRetain \in Nat /\ SearchMaxTime \in Nat

VARIABLES searchClock,
          operator,      \* the operator the passages name
          entry,         \* access_events
          entryAlarm,    \* the alarms each passage ever raised, and the live missed/metal event
          completing,    \* each guard's open complete_search transaction
          searchTick     \* the passages the running missed_search step escalates

searchVars == <<searchClock, operator, entry, entryAlarm, completing, searchTick>>

NoEntry == [decision |-> "none"]
NoCompletion == [entry |-> "none"]
TickIdle == [running |-> FALSE, batch |-> {}]
Unknown == SearchMaxTime + 1
Alarmed == [denied |-> 0, missed |-> 0, metal |-> 0, missedAt |-> Unknown, metalAt |-> Unknown,
            purges |-> 0]

SearchInit ==
  /\ searchClock = 0
  /\ operator = [suspended |-> FALSE, inducted |-> TRUE, erased |-> FALSE]
  /\ entry = [p \in Entries |-> NoEntry]
  /\ entryAlarm = [p \in Entries |-> Alarmed]
  /\ completing = [g \in Guards |-> NoCompletion]
  /\ searchTick = TickIdle

\* authorize, for a registered operator
Verdict(at) ==
  CASE operator.erased                            -> "unknown"
    [] ~operator.erased /\ operator.suspended     -> "denied"
    [] ~operator.erased /\ ~operator.suspended /\ (~operator.inducted \/ at \in OffShift) -> "denied"
    [] OTHER                                      -> "granted"

\* record_access_event: a passage already stored is returned untouched.
Created(p) == entry[p] = NoEntry

\* ingest_access_event of a passage dated at: a repeat only finds the row.  A granted passage
\* may be selected for a search by the source or by its hash, a denied one by the source.
IngestAccessEvent(p, decision, selected, at) ==
  /\ at <= searchClock
  /\ entry[p] # NoEntry => /\ decision = entry[p].decision /\ selected = entry[p].selected
                           /\ at = entry[p].ts
  /\ Created(p)
  /\ entry' = [entry EXCEPT ![p] =
                 [decision |-> decision, ts |-> at, selected |-> selected,
                  completedAt |-> Unknown, escalated |-> FALSE]]
  /\ entryAlarm' = [entryAlarm EXCEPT ![p].denied =
                      IF Verdict(at) = "denied" /\ decision = "granted" THEN @ + 1 ELSE @]
  /\ UNCHANGED <<searchClock, operator, completing, searchTick>>

\* set_operator_access_status, and the erasure of the operator.
SetOperatorAccessStatus(suspended, inducted) ==
  /\ ~operator.erased
  /\ operator' = [operator EXCEPT !.suspended = suspended, !.inducted = inducted]
  /\ UNCHANGED <<searchClock, entry, entryAlarm, completing, searchTick>>

EraseOperator ==
  /\ ~operator.erased /\ operator' = [operator EXCEPT !.erased = TRUE]
  /\ UNCHANGED <<searchClock, entry, entryAlarm, completing, searchTick>>

\* complete_search up to the savepoint: what it read of the detector's alarm.
CompleteSearch(g, p, metal) ==
  /\ completing[g] = NoCompletion /\ entry[p] # NoEntry
  /\ completing' = [completing EXCEPT ![g] =
                      [entry |-> p, raise |-> metal /\ entryAlarm[p].metalAt = Unknown]]
  /\ UNCHANGED <<searchClock, operator, entry, entryAlarm, searchTick>>

\* The insert collides with the alarm another guard committed meanwhile (IntegrityError).
InsertSucceeds(p) == entryAlarm[p].metalAt = Unknown

CompleteCommit(g) ==
  /\ completing[g] # NoCompletion
  /\ LET p == completing[g].entry
         raised == completing[g].raise /\ InsertSucceeds(p)
     IN  /\ entry' = [entry EXCEPT ![p].completedAt = IF @ = Unknown THEN searchClock ELSE @]
         /\ entryAlarm' = IF raised
                          THEN [entryAlarm EXCEPT ![p].metal = @ + 1, ![p].metalAt = searchClock]
                          ELSE entryAlarm
  /\ completing' = [completing EXCEPT ![g] = NoCompletion]
  /\ UNCHANGED <<searchClock, operator, searchTick>>

\* Mutant: what was escalated before is found by its alarm alone.
PendingByAlarm(p) ==
  /\ entry[p] # NoEntry /\ entry[p].selected /\ entry[p].completedAt = Unknown
  /\ entryAlarm[p].missedAt = Unknown

\* The predicate of ix_access_events_search_pending.
SearchPending(p) ==
  /\ entry[p] # NoEntry /\ entry[p].selected /\ entry[p].completedAt = Unknown
  /\ ~entry[p].escalated

\* detect_missed_searches: what it reads, and its commit.
DetectMissedSearches ==
  /\ searchTick = TickIdle
  /\ searchTick' = [running |-> TRUE,
                    batch |-> {p \in Entries : SearchPending(p)
                                               /\ entry[p].ts + SearchGrace <= searchClock}]
  /\ UNCHANGED <<searchClock, operator, entry, entryAlarm, completing>>

SearchTickCommit ==
  /\ searchTick.running
  /\ entry' = [p \in Entries |-> IF p \in searchTick.batch
                                 THEN [entry[p] EXCEPT !.escalated = TRUE] ELSE entry[p]]
  /\ entryAlarm' = [p \in Entries |->
                      IF p \in searchTick.batch /\ entryAlarm[p].missedAt = Unknown
                      THEN [entryAlarm[p] EXCEPT !.missed = @ + 1, !.missedAt = searchClock]
                      ELSE entryAlarm[p]]
  /\ searchTick' = TickIdle
  /\ UNCHANGED <<searchClock, operator, completing>>

SearchTickDies ==
  /\ searchTick.batch # {} /\ searchTick' = TickIdle
  /\ UNCHANGED <<searchClock, operator, entry, entryAlarm, completing>>

\* Retention of events, a later step of the same tick.
Old(at) == at # Unknown /\ at + SearchRetain < searchClock

PurgeEntryAlarms ==
  /\ searchTick = TickIdle
  /\ \E p \in Entries : Old(entryAlarm[p].missedAt) \/ Old(entryAlarm[p].metalAt)
  /\ entryAlarm' = [p \in Entries |->
       [entryAlarm[p] EXCEPT !.missedAt = IF Old(@) THEN Unknown ELSE @,
                             !.metalAt = IF Old(@) THEN Unknown ELSE @,
                             !.purges = IF Old(entryAlarm[p].metalAt) THEN @ + 1 ELSE @]]
  /\ UNCHANGED <<searchClock, operator, entry, completing, searchTick>>

SearchClockTick ==
  /\ searchClock < SearchMaxTime /\ searchClock' = searchClock + 1
  /\ UNCHANGED <<operator, entry, entryAlarm, completing, searchTick>>

SearchNext ==
  \/ \E p \in Entries, d \in {"granted", "denied"}, s \in BOOLEAN, at \in 0..SearchMaxTime :
       IngestAccessEvent(p, d, s, at)
  \/ \E s, i \in BOOLEAN : SetOperatorAccessStatus(s, i)
  \/ EraseOperator
  \/ \E g \in Guards, p \in Entries, m \in BOOLEAN : CompleteSearch(g, p, m)
  \/ \E g \in Guards : CompleteCommit(g)
  \/ DetectMissedSearches \/ SearchTickCommit \/ SearchTickDies \/ PurgeEntryAlarms
  \/ SearchClockTick

SearchSpec == SearchInit /\ [][SearchNext]_searchVars

--------------------------------------------------------------------------------

\* Each passage raises each of its alarms at most once, whatever is replayed, whoever completes
\* it at the same time, and also after retention deleted the first alarm (only a detector
\* result recorded anew counts again); a search completed within the grace is never escalated.
PassageAlarmsOnce ==
  \A p \in Entries :
    LET a == entryAlarm[p] IN
      /\ a.denied <= 1 /\ a.missed <= 1 /\ a.metal <= 1 + a.purges
      /\ a.missed = 1 => entry[p].selected /\ entry[p].completedAt >= entry[p].ts + SearchGrace
================================================================================
