# A TLA+ verification project for mine-intelligence

Paths below are relative to `src/minemonitor/` unless they start with `docs/` or `README`.

## 1. The system

A site server of a mine: trackers send positions over MQTT or HTTP, the ingestor stores
them in PostgreSQL and evaluates zones and rules on the way in, a maintenance tick derives
haul cycles, raises condition alarms, sends notifications and shift reports and deletes old
rows, and supervisors work on alarms, incidents, breaches and dispatch through an API.

| Part | State it keeps | Operations | What makes it correct |
|---|---|---|---|
| Spool and publisher (`ingest/spool.py`, `ingest/mqtt.py`) | SQLite spool and quarantine; paho's queue | append, drain a batch, quarantine, delete after PUBACK | nothing is deleted before the broker has it; one bad entry blocks nothing |
| MQTT ingestor (`ingest/mqtt.py`) | broker session, the message in hand, the stop flag | validate, check registration, store with retry, raw fallback, acknowledge | acknowledge only a final outcome; rules run once per fix |
| Ingest service and zone pipeline (`ingest/service.py`, `pipeline.py`, `zones/engine.py`, `rules/evaluate.py`) | positions, `asset_zone_state`, events | lock the asset, insert, watermark, debounce, rules, commit | concurrent transports never step the same stale state; one alarm per episode |
| Events and outbox (`events/`, `notifications/`) | events, notification rows | persist with rows, dispatch with backoff, acknowledge | rows exist exactly while the alarm does; outcomes are earned; outages only delay |
| Shift reports (`operations/shift_reports.py`) | delivery rows | queue due shifts, send row by row | one queueing per recipient and shift, at most one repeated message per cut |
| Retention (`retention.py`) | none of its own | delete in dependency order, one transaction | never a referenced row; nothing still needed |
| Cycle rebuild (`cycles/recompute.py`, `storage/repositories.py`) | cursor per asset, cycles, buckets | mark late fixes, incremental tick, sliced rebuild on demand | no stored fix is missed by every later rebuild |
| Maintenance tick (`ingest/tick.py`) | status per step | run the plan, isolate a failing step | one failing step stops no other |
| Condition alarms (`rules/offline.py`, `rules/occupancy.py`, `vision/service.py`) | alarm rows of the current episode | detect in the tick, acknowledge | one alarm per episode, none unseen |
| Breaches (`breaches/`) | breach, two notices with deadlines, their alarms | record, notify, close, check deadlines | overdue is alarmed, settled is silent |
| Incidents (`operations/incidents.py`) | incident with version, timeline | create, transition, note | no lost edit, an unbroken timeline |
| Dispatch (`dispatch/`) | jobs, recommendations, assignments | create, recommend, decide, end | no truck on two jobs |
| Imports (`weighbridge/`, `laboratory/`, `generator/`, `reconciliation/`) | write-once rows, alarms | one record or a CSV | nothing answered is absorbed in silence |
| Maintenance (`maintenance/`) and fuel (`fuel/`) | plans, work orders; transactions, readings | complete, reconcile, assess | health and flags tell what happened |
| Accounts (`auth/`) | user, lockout row, verify cache | authenticate, replace | answers match the account |
| Devices (`devices/`) | device rows, password and ACL files | register, rotate, enable, generate | the broker follows the table |
| Gate access (`ingest/adapters/dahua_gate.py`, `access/`) | passages, quarantine, feed health, searches | poll, select, complete, escalate | nothing skipped, one alarm per cause |
| Trackers (`ingest/adapters/teltonika.py`) | connections, bindings | handshake, publish, acknowledge | acknowledged is published |
| Vision edge (`vision/edge/`) | outbox, buckets, frames, stills, cached configuration | sample, process, drain, upload, prune | counted once, delivered, within bounds |
| Vision core (`vision/`) | observations, events, rules, models, vendor records | ingest, promote, publish, retire | idempotent, published stands |
| Shift calendar (`operations/shifts.py`) | definitions | resolve current, by id, ended | the instance a clock on the wall shows |

How they meet: the publisher reaches the ingestor only through the broker; MQTT callback and
HTTP threads share the database and serialise per asset on an advisory lock; ingest and the
rebuild meet in the cursor row's lock; the tick runs its steps one after the other in one
thread of the ingestor while API threads change the same tables; events are the hand-over
from every rule to notifications, incidents and retention.

What is hard: redelivery and lost acknowledgements at every hop; values read before a lock
or a send and used after; transactions that are committed after an effect outside the
database; deletes that run while people raise incidents; a cursor that must not pass what
was not read; clocks of devices. `PROJECT.json` lists these hazards at their lines.

## 2. Modules

| Module | Models | Extends |
|---|---|---|
| `TelemetryDelivery` | abstract: what the store-and-forward path promises | |
| `StoreForward` | spool, publisher, broker, ingestor, database | |
| `MCStoreForward` | payloads and keys of the instances | `StoreForward` |
| `StoreForwardProofs` | invariance, safety theorems, refinement | `StoreForward` |
| `ZoneEngine` | debounce, rules and watermark as operators | |
| `ZonePipeline` | concurrent `store_and_process` on one asset | `ZoneEngine` |
| `ZoneTracks` | whole tracks of one asset against reference definitions | `ZoneEngine` |
| `ZonePipelineProofs` | the lock argument, the rows of whole tracks | `ZonePipeline`, `ZoneTracks` |
| `Outbox` | rows, dispatcher and channels shared by alarms and reports | |
| `AlarmOutbox` | events, incidents, retention | `Outbox` |
| `ReportOutbox` | shifts, catch-up window, retention | `Outbox` |
| `OutboxProofs` | what the dispatcher keeps, for either outbox | `Outbox` |
| `AlarmOutboxProofs`, `ReportOutboxProofs` | the theorems of each outbox, and of the shift calendar | the outbox, `OutboxProofs`; `Shifts` |
| `CycleRecompute` | cursor, ingest marks, tick, on-demand slices | |
| `MCCycleRecompute` | the budgets of its behaviours | `CycleRecompute` |
| `HaulCycles` | visits, cycles and buckets of one truck, and windowed rebuilds of them | |
| `VisionRules` | tracks and presence rules of one camera | |
| `Shifts` | shift instances derived from definitions | |
| `MCReports` | shift reports and the calendar side by side | `ReportOutbox`, `Shifts` |
| `MCTracks` | zone tracks, vision rules and haul cycles side by side; the tracks, windows and slices haul cycles are checked on | `ZoneTracks`, `VisionRules`, `HaulCycles` |
| `MCVisionRules` | two active versions of one vision rule | `VisionRules` |
| `AnalysisProofs` | vision events are exact, nothing slips past the cursor | `VisionRules`, `CycleRecompute` |
| `Incidents`, `Dispatch`, `Imports`, `Upkeep`, `Fuel`, `Accounts`, `Devices`, `VisionRegistry` | one register each that people edit | |
| `MCRecords` | the eight registers side by side | the eight |
| `GateFeed`, `GateSearch`, `TrackerLink`, `VisionEdge`, `Evidence`, `VendorEvents` | one source of data each, with its core side | |
| `MCFeeds` | the six feeds side by side | the six |
| `Breaches`, `ConditionAlarms` | alarms of the maintenance tick | |
| `MCAlarms` | the two and the zone pipeline side by side, with liveness; rows an old release may have left | `ZonePipeline`, `Breaches`, `ConditionAlarms` |
| `CameraSource` | the grabber thread of one camera | |
| `MCEdgeNode` | camera and edge outbox side by side, with liveness | `CameraSource`, `VisionEdge` |
| `RecordsProofs` | one theorem for each of six registers and for the breaches | `Incidents`, `Breaches`, `Accounts`, `Devices`, `VisionRegistry`, `Imports`, `Upkeep` |
| `FeedsProofs` | one theorem for each feed, the camera and the condition alarms | the six feeds, `CameraSource`, `ConditionAlarms` |

The modules that put several components side by side check, in one run, components that share
no state: the variable `moving` names the component a behaviour moves, the others stay in their
initial state. Components that do share state are in one module (`VisionEdge` has the node,
the broker and the core; `AlarmOutbox` has events, incidents and retention).

### StoreForward

A row is the index of its payload in `body`; a payload has a kind, which is what each check of
the path makes of it (good, invalid, ahead of the clock, unregistered, poison, unstorable).
`_drain_once` is split where another process can act or the power can fail: peek, publish, wait,
each autocommit DELETE, the two statements of `Spool.quarantine`. The callback is split into
checks, registration, store, raw store and acknowledgement. The broker (external) follows
QoS 1: it acknowledges and keeps a message for the persistent session, and acknowledges and
drops it when there is no session or its queue is full; that one leak is recorded in
`discarded`. An ack given on a connection that was replaced may or may not reach the broker.
A lost COMMIT reply makes the retry loop store the same fix again.

Left out: malformed payloads and wrong topics (acknowledged at once; the publisher cannot
produce them), the vision topic, and the site filter.

### ZoneEngine, ZonePipeline and ZoneTracks

`ZoneEngine` translates `engine.step` (`BreakRun`, `CountFix`, `Confirmed`, `Exited`, `Step`),
`on_inzone_fix` (`Overspeed`, `Dwell`), `on_entry` (for a restricted zone and an unauthorised
class) and the watermark of `process_position` (`Skipped`, `Heal`). A location is inside the
polygon, in the hysteresis band or beyond it; a speed falls in one of four classes, which is
all the code tells apart. `ZonePipeline` runs them from several transports: `received_at` is
stamped before the advisory lock is waited for, the transaction computes, and commits or rolls
back; the MQTT fallback inserts without the lock. Several zones do not interact except through
the transaction, so one zone stands for all. `ZoneTracks` takes the fixes one transaction after
the other, as the lock makes them, and compares whole tracks with declarative definitions of
when an entry, an exit or an alarm is due. The rows an older release may have left have their
watermark in the future and perhaps a dwell episode opened by the same clock (`LegacyRow`). A spell
over the limit that such a row had open goes on counting after the watermark is healed; the
definitions know only the fixes evaluated since, so `LegacyRow` leaves such rows out.

### Outbox, AlarmOutbox, ReportOutbox

Time is relative: a pending row holds the time to its next attempt, so the model needs no
clock. An attempt changes the row in the session (`mem`); the commit moves it to the table,
after the batch for alarms (`CommitEach = FALSE`), after the row for reports. A crash or a step
that raises drops `mem`, not what was sent. `AlarmOutbox` adds events with their rows in one
transaction, incidents raised at any time and the retention run, whose two DELETEs each see
the incidents committed by then. `ReportOutbox` adds the catch-up window and the retention of
deliveries; its history variables count how often a recipient was queued and how many messages
were sent again, over all recipients together.

### CycleRecompute

`stale` is the set of times whose derived rows do not yet account for a stored fix; what the
rows say is abstracted away. Ingest holds the cursor row from its upsert to its commit, the
tick from `_lock_cursor` to its commit, an on-demand rebuild only in its newest slice; all
rebuilders exclude each other by the advisory lock. Where a rebuild resumes (`cycles_from`)
depends on the track and is any time it may be. Left out: zone edits, the metric window (which
starts no later than the cycle window in the cases modelled) and retention of positions.
`HaulCycles` is the other half: the rows themselves, for one truck and one rebuilder at a time,
with the windows `_window_incremental` and `_window_on_demand` choose. An on-demand rebuild locks
out the tick from its window to the end of its first slice and in each slice after it (`held`);
fixes come between any two of its steps. `Requests` is the one thing asked of whoever calls
`POST /recompute`: `since` lies within the recorded history (section 3, what the properties leave
out).

### Registers people edit

A request reads, then commits; between the two, other requests, retention and jobs run. `Incidents`
has the `version` column that makes the second of two edits fail; a note does not check it and is
told by the flush. `Dispatch` splits `recommend` into its DELETE, its reads and its inserts at READ
COMMITTED. `Imports` keeps rows added but not flushed apart from rows written (`autoflush=False`,
`storage/db.py`), because the savepoint of an alarm is what flushes them, and lets a key inserted by
an open transaction make others wait. `Upkeep` is one component with a plan that counts days; a
completion whose order retention deleted since it was read fails at its UPDATE, and nothing is
deleted while retention of work orders is switched off. `Fuel` contains the tank: the property
compares the flag with what really left it. `Accounts` interleaves the steps of `authenticate` with
a replacement of the account; a hash is its password and a fresh salt. `Devices` has the two queries
and two renames of the generator. `VisionRegistry` has rule versions and models, and the edge nodes
that cite them.

### Feeds

`GateFeed` derives the poll cursor from the rows stored, as the code does, with gates whose
clocks are off, malformed records, records that become visible late, failing polls and retention;
`GateSearch`
follows one passage through verdict, search and alarms with two guards and the tick.
`TrackerLink` ends where `StoreForward` begins: publication is the append to the spool.
`VisionEdge` is the node with buckets and outbox, both transports, and the core's transaction;
a bucket is the set of frames it counts, so that a frame counted twice or never is visible. The
outbox is a set of rows numbered in the order they were put in. Time does not pass a bucket's end
by more than one unit before it is closed: the loop takes seconds, a bucket five minutes. What the
broker holds counts as reported, since a sent row may be pruned before the core has taken it.
`Evidence` is the ring of stills and its upload queue, one step per file operation.
`VendorEvents` is the batch ingest of a recorder's events.

### Alarms of the tick

`Breaches` and `ConditionAlarms` split each detector into the read of its input and the write of
its alarm, so that people, reports and retention come in between. `ConditionAlarms` is about one
subject: an asset, a camera or a zone.

### Rules over histories

`VisionRules`, `HaulCycles` and `Shifts` translate algorithms and compare them with definitions
written from what they are to compute: when a presence is concluded, which cycles the whole track
has, which shift covers an hour. The versions of `VisionRules` take their turns over an observation
as in `step`, each on the keys of its rule; all have the same parameters. A detection is matched to
its own subject's track and a fix knows its kind of zone: geometry is left out.

## 3. Runs

| Run | Shows |
|---|---|
| `StoreForwardKinds` | every kind of payload, poison and unstorable ones included, strict mode, one fault anywhere: `AckOnlyWhenFinal`, `ProcessedOnce`, and `Drains` under fairness |
| `StoreForwardFaults` | two faults, a broker queue of one, good and invalid payloads: `NoLoss`, refinement of `TelemetryDelivery` (`DeliverySpec`) |
| `Alarms` | two transports, legacy rows, raw fallback: `EvaluatedOnce`, `NoLostUpdate`, `LiveFixHeals`; breach deadlines and conditions: `SettledIsSilent`, `OneAlarmPerEpisode`, and `OverdueIsAlarmed`, `ConditionsAlarmed` under fairness |
| `Tracks` | zone visits and alarms (`TrackTold`), vision events (`EventsExact`) against their references; rebuilt cycles and buckets against a rebuild of the whole track (`RebuildMatchesHistory`): ticks, late fixes, on-demand rebuilds in slices |
| `AlarmOutbox` | `AlarmStaysWhole`, `RepeatsNeedFaults`, `EveryAlertSettles` under fairness |
| `ReportOutbox` | three attempts, two recipients: `ReportsSentOnce`, `OutageOnlyDelays`; shifts against the calendar (`ShiftsExact`) |
| `CycleRecompute` | `NothingSlips`, `EventuallyRebuilt` under fairness, for the tick with ingest any distance ahead and for a sliced rebuild beside it |
| `Records` | one property per register: `TimelineTellsAll`, `FleetNotOvercommitted`, `NothingAbsorbed`, `HealthTellsService`, `FlaggedIffLeaked`, `AnswersMatchAccount`, `BrokerFollowsTable`, `PublishedStands` |
| `Feeds` | one property per feed: `FeedIsExact`, `PassageAlarmsOnce`, `DeletedIsPublished`, `RecordedOnce`, `ReferencesHold`, `VendorEventsLand` |
| `EdgeNode` | `SampleRateKept`; `FramesResume`, `EventsArrive` under fairness |
| `StoreForwardStrict` | must find a violation of `DatabaseRestartRecovers`: in strict mode a database outage during the registration lookup ends the network thread, and ingest does not resume |
| `SharedRule` | must find a violation of `EventsFromEnoughFrames`: with two active versions of a vision rule an event is fired from one frame |

Bounds. Two rows suffice for head-of-line blocking and redelivery, and one or two faults for every
pair of a failure and the recovery from another; `MaxQueued` of 1 or 2 reaches the full broker
queue. Two transports, supervisors, guards, administrators or runs are what a lock, a version or a
unique key can be wrong for. Tracks of up to six fixes hold an entry and an exit, or, from a row
that is inside, an exit and a second visit, with a gap and a step back. Two or three attempts show
the last attempt, a retry and the doubling. Device times and slices of `CycleRecompute` give three
slices, with fixes before, between and after them. The worlds of `MCTracks` have tracks of up to
nine fixes beside a lookback of four to seven, so that a late fix restarts the rebuild in the middle
of a track, `since` begins a rebuild there (`DemandFrom`), and an on-demand rebuild has up to three
slices; each world turns on what the others leave out (every pattern of gaps, a late fix, slices,
time on the road, moves inside the loading zone), since all of it at once is too much to enumerate.
Retention ages are one or two units of a clock of three to five, so that rows are deleted under the
feet of every operation. Two starts of the edge node and a bucket of two units give a bucket cut in
two; four units of time let a sent row be pruned while later buckets are filed. `MaxOverdue`,
`Horizon`, `OverdueCap` and the cap of `outage` at `Patience` only merge values that no guard tells
apart; the timers of `CameraSource` are relative, so its behaviours have no end. `MCRecords`
permutes the people, who are interchangeable in every register; it checks invariants only.

Deadlock is not checked: rows, times and requests are bounded, so behaviours end.

Fairness. `StoreForward`: the drain thread and paho's threads keep running, paho reconnects,
a supervisor restarts the ingestor and the database is restored. Failures are bounded, never
fair. `AlarmOutbox`, `Breaches`, `ConditionAlarms`: the maintenance thread keeps ticking and, where
deadlines count, time passes; no channel has to come back and nobody has to acknowledge.
`CycleRecompute`: transactions end, the tick keeps coming, and a lock that is free again and
again is granted, since PostgreSQL queues its waiters (strong fairness on the steps that wait
for a lock). `CameraSource`: the grabber's loop and the analyser run, frames of a camera that is up
arrive; `VisionEdge`: the node is restarted, drains, and its requests are answered or fail;
failures are bounded.

Every property of a passing run has a mutant, an operator of the same module that changes one
definition as a plausible bug would, under which TLC finds the property violated.

### What the properties leave out, and why

Where the code does less than a comment or a reader would expect, the property says exactly what
holds, and the instance shows the rest is not hidden by a bound:

* `pipeline.py:67` says a watermark in the future "can only come from a bad-clock fix stored before
  ingest rejected them". `received_at` is stamped before `lock_asset` waits, so a fix that waited
  can take a regular watermark for one of those, be evaluated and drag it back.
* `operations/shift_reports.py:225` says a recipient is "never queued again". With
  `retain_events_days = 1` a delivery row is deleted while its shift is still within delay and
  catch-up, and the report is sent again; the run and the proof keep rows at least that long
  (`ReportAssumption`).
* `POST /recompute?since=` (`cycles/recompute.py:851`) moves the cursor to the newest fix whatever
  `since` is. With a `since` beyond the newest fix, or with fixes more than the lookback ahead of the
  cursor that the tick has not rebuilt yet, the cursor passes fixes no rebuild has read, unmarked,
  and they are left out until somebody rebuilds from further back; TLC shows `NothingSlips` violated
  when `Requests` admits a `since` in the future. Between the slices of a rebuild of the whole
  history the same happens to single fixes: one newer than the cursor but in the part already rebuilt
  is not marked (`storage/repositories.py:66`), and the newest slice moves the cursor past it; the
  cycle it closes is then missing until somebody rebuilds again, though line 66 says that such a fix
  "falls inside the next window anyway". It takes ingest further ahead of the cursor than ticks that
  succeed leave it: TLC finds `RebuildMatchesHistory` violated when `ahead` of `SlicedLateTrack` is 7
  (the whole track), and no difference for 3. `CycleRecompute` takes a fix as rebuilt with its own
  time; in the rows it also changes the cycle that began before it, perhaps in a slice already
  rebuilt, so `SlicedLateTrack` has `ahead` at a visit and an exit. The run of `CycleRecompute` and
  the proof are about a `since` in the recorded history (`Requests`) and ingest no further ahead than
  the lookback while rebuilds may be asked for (`RecomputeAssumption`); without on-demand rebuilds
  ingest may be any distance ahead.
* `Drains` lets the broker's queue stay as it is when strict mode's lookup has ended the
  network thread, which is what `StoreForwardStrict` shows; the spool empties even then.
* Alerts are delivered at least once, a batch being committed as a whole (`RepeatsNeedFaults`), and
  an incident raised between retention's two DELETEs keeps an alarm whose rows are gone.
* `dispatch/service.py:76` says trucks of an ended job return to the pool; an approval that read
  its recommendation before the job ended commits after it and stays committed.
  `FleetNotOvercommitted` also excepts two overlapping `recommend` requests.
* Registering a device answers 409 whenever the session does not autoflush
  (`api/routers/devices.py:60`, `storage/db.py:49`): the row just added is not found by
  `rotate_secret`. `Devices` models it so; rows come from seeding.
* A quarantined passage stays quarantined when its gate's clock is set right and the record is sent
  again with the right time, which is then stored as another passage (`access/service.py:243`).
* A bucket closed because the camera lost its scene can be opened again with the same id within the
  same start (`Dropped` in `VisionEdge`); its frames are not counted twice, but may be missing.
* `docs/OPERATIONS.md:594` changes a vision rule by publishing the new version and then retiring the
  old, and an edge node may fetch its configuration in between. Both versions then advance one streak
  (`vision/temporal.py:171`, the key holds the rule only), every observation counts twice, and the
  first of the two to conclude takes the event. `EventsExact` is about one active version of each rule
  (`OneVersionPerRule`); `SharedRule` shows the other case.
* Event ids of the temporal engine do not contain the zone: two zones entered in one frame can
  share one (`vision/temporal.py`, `_fire`).
* Segments of a cycle can differ between windowed and full rebuild for a truck that leaves and
  re-enters within `min_exit_s`, as `cycles/statemachine.py:36` hints; `RebuildMatchesHistory`
  compares them where no truck can.
* `vision/service.py:805` says "One alarm per blind window; a camera that recovers and goes dark
  again raises a new one". What counts is where the window, as stored, begins: a camera whose node
  was silent, and alarmed, and comes back without a signal is alarmed again in the same blindness,
  and so is one whose run of no signal a late row with frames cuts in two or whose first rows
  retention has deleted. `OneAlarmPerEpisode` counts a camera as back on rows with frames only and
  allows one more alarm for each run of no signal that, as read, began after the last one
  (`RunIsNew`, without which TLC finds it violated). A camera that shows frames for a moment between
  two alarms gets the second only when a health row says so.
* A dip of any age is taken (`fuel/service.py`, `record_tank_reading`). One written down when its
  retention window is over opens a reconciliation whose first movements retention has deleted, and
  a tank that did not leak is flagged; `FlaggedIffLeaked` is about opening dips written down in
  time (`fuelLate`), and `KeepFuel = 1` lets TLC reach both.
* A generator's latest reading is kept, its latest reading with engine hours is not
  (`retention.py:245`).
* Two completions of one work order that both read it open both write, so the close time is that
  of the second (`maintenance/service.py:145`); `HealthTellsService` allows the span between them.
* A tracker whose record holds impossible values sends it for ever, and nothing behind it
  (`TrackerLink`, "wild").
* An object the store refuses holds up every still behind it in the order of keys, until the ring
  gives it up (`vision/edge/evidence.py:151`); `ReferencesHold` allows that.

## 4. Proofs

`StoreForwardProofs` proves, for all payloads, kinds, batch sizes, queue limits, rows and
faults (assumptions `PayloadAssumption`, `BoundAssumption`):

* `TypeCorrect`, `NothingLost` (`NoLoss`), `RulesRunOnce` (`ProcessedOnce`), `AcksAreFinal`
  (`AckOnlyWhenFinal`) and `Refinement` (`DeliverySpec`).

`NoLoss` alone is not inductive: the drain deletes rows because of what it remembers. `IndInv`
adds that a PUBACK in flight and a row counted as done are safe on the broker's side
(`ConfirmedIsSafe`), that the message waited for is with paho or safe (`WaitingIsSafe`), that
the batch is still spooled, that between the two statements of the quarantine the copy exists,
and that the callback handles a message the broker still holds and acknowledges only an
outcome (`HandledIsHeld`). The lemmas go by what a step can disturb: `RowsGrow`, `StoreGrows`,
`SafeStable` and `SpoolShrinksSafely`, then one lemma per conjunct. Refinement maps every step
to accepting, storing, refusing or releasing rows; releasing needs `NoLoss` after the step.

`ZonePipelineProofs` proves, for any set of transports, any rule parameters, clock and
legacy rows (`RuleAssumption`, `PipelineAssumption`, `TrackAssumption`):

* `LockSerialises` (`LockInv`), `EachFixOnce` (`EvaluatedOnce`), `NoUpdateLost` (`NoLostUpdate`),
  `WatermarkHeals` (`LiveFixHeals`);
* `TracksAreTold` (`TrackTold`), for tracks of any length.

The argument for the first four needs one fact of `Evaluate` only, that the row it leaves has the
fix as its watermark: only the lock's holder is past `lock_asset` (`HolderOnly`), so what it
computed stays computed from the state in force (`ComputedFromCurrent`), and every evaluated fix is
a stored position, so it is never evaluated again. For whole tracks the invariant (`TrackInv`) is
that the row is a summary of the fixes evaluated so far: each counter is the length of a run or a
spell that ends at the last of them (`CountsRuns`, `CountsOver`), each timestamp that of its first
fix (`CountsStill`), each flag tells whether the spell has raised its alarm. `EvaluateSays` spells
out what one call makes of the row, `FixMeets` what the row is worth to the fix that finds it, after
a silence or a healed watermark; one lemma per rule then shows that the summary is kept and that the
transition or the alarm is due when it happens (`RunsStep`, `OverspeedStep`, `DwellStep`), and
`PastTold` that a later fix changes nothing that was due before.

`OutboxProofs` keeps `OutboxInv` for the dispatcher alone, whoever fills the outbox and deletes
from it (`OutboxAssumption`): only a running pass has uncommitted changes, of pending rows
(`PassInv`), and a message still to be sent has arrived at most once per fault (`RepeatInv`).
On it rest

* `AlarmsStayWhole` (`AlarmStaysWhole`) and `AlertsRepeatOnlyAfterFaults` (`RepeatsNeedFaults`) of
  `AlarmOutboxProofs`; what the open retention run has chosen stays past its window (`WholeInv`),
  and nothing has been sent of an alarm not yet raised (`FreshInv`);
* `ReportsAreSentOnce` (`ReportsSentOnce`) of `ReportOutboxProofs`. "One repeat per fault over all
  recipients" needs a count: messages sent again and messages that have arrived and will be sent
  again (`Owed`) together are no more than the faults (`OwedInv`); a row that is gone again is of a
  shift past its catching up (`QueueInv`), which is where `Delay + CatchUp <= Retain + 1` comes in,
  and the transaction holds one row (`CommitEach`);
* `AlertsOutlastOutages` and `ReportsOutlastOutages` (`OutageOnlyDelays`) of the same two modules, by
  `OutageInv`: a row nobody received fails only in its channel's one outage, and while that lasts it
  has been down for the backoffs so far (`Ramp`: `Base * (2^n - 1)`), less what is left to wait and
  one pass; so the row is given up after all of its backoffs and not before. That 2^(n+1) is twice
  2^n is itself derived, from the subsets of a set with one element more;
* `CalendarHolds` (`ShiftsExact`) and `NoInstanceMissed` for the calendar those reports follow
  (`ShiftAssumption`: the bounds the API puts on a definition). The reference TLC can evaluate looks
  at nine days around the hour; `NoInstanceMissed` is about the instances of every day there is.

`AnalysisProofs`, for any subjects, image zones, parameters, gaps between frames, number of frames
and changes of rules (`VisionRulesAssumption`), where one version of each rule is active:

* `VisionEventsAreExact` (`EventsExact`), with its two halves: an event is earned by one unbroken
  presence and told once (`EventsEarned`), and none that lasts long enough goes untold
  (`PresenceReported`);
* `OneVersionTakesEnoughFrames` (`EventsFromEnoughFrames`), which a second active version breaks.

What one frame makes of a key is what the key's own rule makes of it, in whatever order the versions
take their turns (`SteppedByOne`). The invariant (`RulesInv`) relates the engine to the observations:
the streak of a key is the presence that began at some observation and is unbroken since, with the
counts of its hits and of the misses after the last (`StreakTold`); any other presence still going on
began no earlier (`AliveHeld`), so the one the streak holds is the one to report; the cooldown runs
from an event of this engine (`CooldownTold`), and the presence of every such event is concluded or
over (`AllAnswered`). `KeyKept` shows that a hit, a miss, a track out of view and a forgotten key
preserve this; `EventMade`, `NewApart` and `NowReported` then give the events. A presence may be
reported by an event of a longer one that contains it, and a presence due within the cooldown is
concluded without one: `PresenceReported` says exactly that.

The same module, for the cursor (`RecomputeAssumption`): `NoChangeSlips` (`NothingSlips`) and
`CursorMovesAreCurrent`, the reason for the two locks: a rebuild about to move the cursor has seen
every change. `IndInv` says who holds a lock (`LockInv`), what a rebuild that will move the cursor
has read (`ReadInv`), and that the positions of an on-demand rebuild lie behind the cursor
(`DemandInv`).

`RecordsProofs`, for any number of people at once and any bounds:

* `TimelinesTellAll` (`TimelineTellsAll`): a request that read the current version holds the current
  row, so its commit extends the chain;
* `SettledNoticesAreSilent` (`SettledIsSilent`): an alarm that may still be raised on a settled notice
  is in the running tick's hands;
* `LoginsMatchAccount` (`AnswersMatchAccount`): the cache holds only what was
  verified, and what a request has read of the account is what the account was while it ran;
* `BrokerFollows` (`BrokerFollowsTable`): the windows of the generations nest (`WindowsNest`) and
  each file is within its own (`FilesFollow`), though the two files may be of two generations;
* `PublicationsStand` (`PublishedStands`): what a request will write stands against what it read;
* `ImportsAbsorbNothing` (`NothingAbsorbed`): a record a request has dealt with is stored or written
  by it, with the alarms it calls for (`DealtWith`, `OddIsTold`), and a key written by an open
  transaction is written by no other (`WrittenAlone`);
* `HealthIsTold` (`HealthTellsService`): a service that happened is still among the rows, or a later
  one is and stays later whichever of the open completions commits last (`Succeeds`);
* `LeaksAreFlagged` (`FlaggedIffLeaked`): since any dip written down in time, the level has moved by
  what is metered, measured or leaked after it (`LevelFollows`), so a later dip shows that up to the
  dips' errors (`DipsFollow`), and retention deletes from the old end only. What is missing between
  two dips is then a whole number of leaks, and by `FuelAssumption` one of them exceeds the
  tolerance in spite of the errors;
* `FleetStaysWithinTargets` (`FleetNotOvercommitted`): a recommend holds the lock on every
  recommendation there is, so while it runs what is committed only shrinks, and the plan it made
  still fits when it is written (`OneRecommends`, `Fits`). That the loop over the jobs makes a plan
  that fits is an induction over the jobs (`LoopRuns`), done by the least job that breaks it.

`FeedsProofs`, for any number of events, gates, guards, connections, runs, records and faults:

* `EvidenceReferencesHold` (`ReferencesHold`), `PassagesAlarmOnce` (`PassageAlarmsOnce`),
  `TrackerLosesNothing` (`DeletedIsPublished`), `RecorderEventsLand` (`VendorEventsLand`),
  `CadenceIsKept` (`SampleRateKept`), `EpisodesAlarmOnce` (`OneAlarmPerEpisode`), `GateFeedIsExact`
  (`FeedIsExact`), `VisionRecordsOnce` (`RecordedOnce`).

The invariants say what is in flight: a tracker's packet is a prefix of its store and an
acknowledgement covers published records only (`LinkHolds`); a run that has the tables to itself
collides with nothing and has alarmed all it has read (`RunAlone`); an alarm covers the episode it
was raised for (`Covers`), and where it does not a camera's run of no signal is newer than it
(`UncoveredRunIsNew`); what the gate's poller read in time is stored or in its hands (`CaughtUp`)
and what retention deleted lies behind the floor of the next poll (`PurgedBehind`). `EdgeInv` of the
edge node carries the argument why a bucket's id is never taken by another bucket: the ids filed so
far come before the next one in boot, epoch and start (`Past`), unless the camera was stopped and
started again; and a row leaves the outbox only when its bucket is long closed (`PrunedIsOld`), so
that no later bucket is filed under the id of one the core has. That needs `BucketLength <=
SentKept`, which holds by default (five minutes against an hour).

The assumptions about the other constants only give them their types, or keep apart the values that
stand for nothing (`AccountAssumption`, `BreachAssumption`, `TrackerAssumption` and so on).

Out of the prover's reach and only model-checked: liveness under fairness and `ENABLED`
(`Drains`, `EveryAlertSettles`, `EventuallyRebuilt`, `OverdueIsAlarmed`, `ConditionsAlarmed`,
`FramesResume`, `EventsArrive`), and one comparison of whole histories with its reference:
the cycles and buckets rebuilt from any set of fixes (`RebuildMatchesHistory`), which are computed by
recursion over data of any length.

## 5. Plan

1. Laboratory corrections beside retention, plans by engine hours, occupancy and camera rules of
   `VisionRules`, versions of a rule with parameters of their own, the scene a camera is given.
2. Proofs: the visits of `HaulCycles` by a recursive function, so that one rebuild of a whole track
   can be compared with the reference.

## 6. Not modelled

Operations reporting (scorecards, bottlenecks, trends, exceptions, the compliance pack) computes
figures from stored rows when asked; it keeps no state and nothing waits for it. Inference, image
geometry and image quality are real-valued computation. Wire formats and signatures are reduced to
what their outcome can be. Simulators, soak and smoke tools drive the system and are no part of it.
Schemas, configuration and the API shell are wiring; the columns and constraints they declare are
state of the modules above.
