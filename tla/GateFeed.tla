-------------------------------- MODULE GateFeed --------------------------------
(***************************************************************************)
(* The gate poller (ingest/adapters/dahua_gate.py): gate passages appear   *)
(* on the vendor's appliance some time after they happen and with the      *)
(* gate's own clock; each poll asks for what is newer than a cursor        *)
(* derived from the rows stored so far, quarantines passages from the      *)
(* future (access/service.py) and keeps the health of the feed             *)
(* (ingest/source_health.py).  Retention deletes old passages.             *)
(***************************************************************************)
EXTENDS FiniteSetsExt, Integers

CONSTANTS Passages, Gates,
          GateSkews,       \* how far a gate's clock may be ahead (or behind, negative)
          PassageKinds,    \* "ok" or "malformed" (rejected by normalise_access_event)
          GateOverlap,     \* access_gate_overlap_s
          GateMaxSkew,     \* max_future_skew_s
          GateRetain,      \* retain_access_days
          GateOfflineAfter,\* access_gate_offline_s
          GateMaxTime      \* bound: the clock

ASSUME GateAssumption ==
  /\ GateOverlap \in Nat /\ GateMaxSkew \in Nat /\ GateRetain \in Nat
  /\ GateOfflineAfter \in Nat /\ GateMaxTime \in Nat
  /\ GateSkews \subseteq Int /\ PassageKinds \subseteq {"ok", "malformed"}

VARIABLES gateClock,
          passage,      \* what happened at the gates, and since when the appliance shows it
          accessRow,    \* access_events: the time each passage was stored
          quarantine,   \* access_quarantine
          skewAlarm,    \* state of each gate's latest source_clock_skew alarm
          poll,         \* the running poll: its now and what it fetched
          feed,         \* source_status: failing_since, and the source_offline alarm
          typedIn,      \* history: passages typed in under the feed's source system
          purged        \* history: passages retention deleted

gateVars == <<gateClock, passage, accessRow, quarantine, skewAlarm, poll, feed, typedIn, purged>>

NoPassage == [kind |-> "none"]
NotStored == GateMaxTime + 1
NoPoll == [now |-> -1, batch |-> {}]
NotFailing == -1

GateInit ==
  /\ gateClock = 0
  /\ passage = [p \in Passages |-> NoPassage]
  /\ accessRow = [p \in Passages |-> NotStored]
  /\ quarantine = {} /\ skewAlarm = [g \in Gates |-> "none"]
  /\ poll = NoPoll
  /\ feed = [lastPoll |-> -1, failingSince |-> NotFailing, alarmed |-> NotFailing, count |-> 0]
  /\ typedIn = FALSE /\ purged = {}

StoredPassages == {p \in Passages : accessRow[p] # NotStored}

\* Somebody passes a gate; the record carries the gate's clock.
PassGate(p, g, skew, kind) ==
  /\ passage[p] = NoPassage /\ gateClock + skew >= 0
  /\ passage' = [passage EXCEPT ![p] =
                   [kind |-> kind, gate |-> g, ts |-> gateClock + skew, seen |-> NotStored]]
  /\ UNCHANGED <<gateClock, accessRow, quarantine, skewAlarm, poll, feed, typedIn, purged>>

\* The appliance lists it, at once or later.
Appear(p) ==
  /\ passage[p] # NoPassage /\ passage[p].seen = NotStored
  /\ passage' = [passage EXCEPT ![p].seen = gateClock]
  /\ UNCHANGED <<gateClock, accessRow, quarantine, skewAlarm, poll, feed, typedIn, purged>>

\* Mutant: the cursor follows the gates' own clocks.
CursorByDeviceTime ==
  IF StoredPassages = {} THEN -1000 ELSE Max({passage[p].ts : p \in StoredPassages}) - GateOverlap

\* _since_cursor: -1000 stands for None.
SinceCursor ==
  IF StoredPassages = {} THEN -1000
  ELSE Min({Max({passage[p].ts : p \in StoredPassages}), Max({accessRow[p] : p \in StoredPassages})}) - GateOverlap

\* The retention floor: what is older is neither fetched nor stored.
Floor(now) == IF GateRetain > 0 THEN now - GateRetain ELSE -1000

\* DahuaHttpGateSource.fetch
Fetch(since) ==
  {p \in Passages : passage[p] # NoPassage /\ passage[p].seen <= gateClock /\ passage[p].ts > since}

\* poll_once up to the answer of the appliance.  Polls are ticks apart.
PollFetch ==
  /\ poll = NoPoll /\ gateClock > feed.lastPoll
  /\ poll' = [now |-> gateClock, batch |-> Fetch(Max({SinceCursor, Floor(gateClock)}))]
  /\ feed' = [feed EXCEPT !.lastPoll = gateClock]
  /\ UNCHANGED <<gateClock, passage, accessRow, quarantine, skewAlarm, typedIn, purged>>

\* _outage_alarm: an alarm was raised since the outage began.
OutageAlarmed(since) == feed.alarmed >= since

\* The fetch fails: record_failure tracks the outage and raises one alarm once it lasts.
\* A new outage starts the count of its alarms again.
PollFails ==
  /\ poll = NoPoll /\ gateClock > feed.lastPoll
  /\ LET since == IF feed.failingSince = NotFailing THEN gateClock ELSE feed.failingSince
         raise == gateClock - since >= GateOfflineAfter /\ ~OutageAlarmed(since)
     IN  feed' = [lastPoll |-> gateClock, failingSince |-> since,
                  alarmed |-> IF raise THEN gateClock ELSE feed.alarmed,
                  count |-> (IF feed.failingSince = NotFailing THEN 0 ELSE feed.count)
                            + (IF raise THEN 1 ELSE 0)]
  /\ UNCHANGED <<gateClock, passage, accessRow, quarantine, skewAlarm, poll, typedIn, purged>>

\* _reject_if_future
FromFuture(p, now) == passage[p].ts - now > GateMaxSkew

\* What the loop of poll_once stores of a batch, and what it quarantines.
Storable(batch, now) ==
  {p \in batch \ StoredPassages : /\ passage[p].kind = "ok" /\ passage[p].ts >= Floor(now)
                          /\ ~FromFuture(p, now)}

Quarantined(batch, now) ==
  {p \in batch \ quarantine : /\ passage[p].kind = "ok" /\ passage[p].ts >= Floor(now)
                              /\ FromFuture(p, now)}

\* quarantine_future_event alarms once per gate while its alarm is open.
SkewAlarms(new) ==
  [g \in Gates |-> IF \E p \in new : passage[p].gate = g THEN "open" ELSE skewAlarm[g]]

\* record_ok and the loop of poll_once, with one commit.
PollCommit ==
  /\ poll # NoPoll
  /\ accessRow' = [p \in Passages |-> IF p \in Storable(poll.batch, poll.now)
                                      THEN poll.now ELSE accessRow[p]]
  /\ LET new == Quarantined(poll.batch, poll.now)
     IN  quarantine' = quarantine \cup new /\ skewAlarm' = SkewAlarms(new)
  /\ feed' = [feed EXCEPT !.failingSince = NotFailing]
  /\ poll' = NoPoll
  /\ UNCHANGED <<gateClock, passage, typedIn, purged>>

\* The step dies with the process: nothing of the poll is kept.
PollDies ==
  /\ poll # NoPoll /\ poll' = NoPoll
  /\ UNCHANGED <<gateClock, passage, accessRow, quarantine, skewAlarm, feed, typedIn, purged>>

\* POST access/events: a supervisor types in a passage under the feed's source system.
TypeIn(p) ==
  /\ passage[p] # NoPassage /\ passage[p].kind = "ok" /\ p \notin StoredPassages
  /\ ~FromFuture(p, gateClock)
  /\ accessRow' = [accessRow EXCEPT ![p] = gateClock] /\ typedIn' = TRUE
  /\ UNCHANGED <<gateClock, passage, quarantine, skewAlarm, poll, feed, purged>>

AckSkewAlarm(g) ==
  /\ skewAlarm[g] = "open" /\ skewAlarm' = [skewAlarm EXCEPT ![g] = "acknowledged"]
  /\ UNCHANGED <<gateClock, passage, accessRow, quarantine, poll, feed, typedIn, purged>>

\* Retention, a later step of the same tick: access_events past their window.
PurgePassages ==
  /\ poll = NoPoll /\ GateRetain > 0
  /\ LET old == {p \in StoredPassages : passage[p].ts < gateClock - GateRetain} IN
       /\ old # {}
       /\ accessRow' = [p \in Passages |-> IF p \in old THEN NotStored ELSE accessRow[p]]
       /\ purged' = purged \cup old
  /\ UNCHANGED <<gateClock, passage, quarantine, skewAlarm, poll, feed, typedIn>>

GateClockTick ==
  /\ gateClock < GateMaxTime /\ gateClock' = gateClock + 1
  /\ UNCHANGED <<passage, accessRow, quarantine, skewAlarm, poll, feed, typedIn, purged>>

GateNext ==
  \/ \E p \in Passages, g \in Gates, s \in GateSkews, k \in PassageKinds : PassGate(p, g, s, k)
  \/ \E p \in Passages : Appear(p) \/ TypeIn(p)
  \/ \E g \in Gates : AckSkewAlarm(g)
  \/ PollFetch \/ PollFails \/ PollCommit \/ PollDies \/ PurgePassages \/ GateClockTick

GateSpec == GateInit /\ [][GateNext]_gateVars

--------------------------------------------------------------------------------

\* A passage the appliance lists within the overlap of its recorded time is never behind the
\* cursor while it is within retention: the next poll still asks for it, whichever gate's
\* passages were stored meanwhile and however polls failed - unless one was typed in under the
\* feed's own source system.
NothingBehindCursor ==
  ~typedIn =>
    \A p \in Passages :
      (/\ passage[p].kind = "ok" /\ passage[p].seen # NotStored
       /\ passage[p].seen - passage[p].ts < GateOverlap
       /\ passage[p].ts > Floor(gateClock)
       /\ p \notin StoredPassages \cup purged)
      => passage[p].ts > SinceCursor

\* What retention deleted stays deleted: no later poll stores the passage again, not even
\* when the deleted row was the one the cursor came from.
PurgedStaysPurged == typedIn \/ purged \cap StoredPassages = {}

\* A feed outage raises at most one alarm, and only once it has lasted.
OneAlarmPerOutage ==
  feed.failingSince # NotFailing =>
    \/ feed.count = 0
    \/ feed.count = 1 /\ feed.alarmed - feed.failingSince >= GateOfflineAfter

\* The feed stores each passage as long as it is kept and never again after (the cursor, its
\* overlap and floor against retention, dahua_gate.py), and an outage is alarmed once.
FeedIsExact == NothingBehindCursor /\ PurgedStaysPurged /\ OneAlarmPerOutage
================================================================================
