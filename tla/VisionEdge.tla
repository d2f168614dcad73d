------------------------------- MODULE VisionEdge -------------------------------
(***************************************************************************)
(* A vision edge node and the core it reports to.  The node analyses the   *)
(* frames of a camera, counts them in rollup buckets, writes every         *)
(* conclusion to a durable outbox and drains the outbox to the core        *)
(* (vision/edge/node.py, runtime.py, outbox.py, publish.py,                *)
(* vision/rollup.py).  The core stores a batch in one transaction and      *)
(* promotes operational events to alarms (api/routers/vision.py,           *)
(* vision/service.py, ingest/mqtt.py).  The node and its link fail at any  *)
(* time.  Which frame concludes an event is the temporal rules' business   *)
(* (module VisionRules) and left open here.                                *)
(***************************************************************************)
EXTENDS Naturals, FiniteSets, FiniteSetsExt

CONSTANTS BucketLength,    \* bucket_s
          SentKept,        \* how long a sent row stays: an hour to a bucket's five minutes
          EdgeBatch,       \* drain's batch
          RefusedFrames,   \* frames whose event the core refuses: malformed, unknown rule
          Configs,         \* vision configurations: [scene, rules], scene 0 for no image zones
          EdgeBudgets,     \* bounds, of which a behaviour has one: its transport, how many
                           \* starts, configuration changes, concluded events and requests
                           \* the core works on at once, its length
          EdgeMaxTime      \* bound: the longest length; a frame is named by its time

ASSUME EdgeAssumption ==
  /\ BucketLength \in Nat \ {0} /\ SentKept \in Nat /\ BucketLength <= SentKept
  /\ EdgeMaxTime \in Nat
  /\ EdgeBudgets \subseteq [transport : {"http", "mqtt"}, configs : Nat, events : Nat, boots : Nat,
                            time : 1..EdgeMaxTime, posts : Nat]

VARIABLES edgeClock,
          node,        \* the EdgeNode process; its runtime is lost with it
          cached,      \* config.json
          coreConfig,  \* what edge_config would answer now
          left,        \* what is left of the budget
          outbox,      \* the SQLite outbox: rows, numbered in the order of created_at
          post,        \* the batch the node waits for, and the answer it will get
          serving,     \* requests the core is working on
          broker,      \* QoS 1 messages the broker holds for the core (external)
          core,        \* the core's rows: id -> the frames it stands for
          promoted,    \* how often the event was promoted to an alarm
          processed, lostFrames, dropped, cameraStopped, replayed   \* history

edgeVars == <<edgeClock, node, cached, coreConfig, left, outbox, post, serving, broker,
              core, promoted, processed, lostFrames, dropped, cameraStopped, replayed>>
coreVars == <<serving, broker, core, promoted, replayed>>
nodeVars == <<node, cached, outbox, post, processed, lostFrames, dropped, cameraStopped>>

Frames == 1..EdgeMaxTime
NoConfig == [scene |-> 0, rules |-> 0]
NoBucket == [start |-> 0, frames |-> {}]
Waiting == [kind |-> "waiting", id |-> <<>>]
Ok == [kind |-> "ok", id |-> <<>>]
TransientError == [kind |-> "error", id |-> <<>>]
NoPost == [batch |-> {}, answer |-> Waiting]
Down == [state |-> "down", boot |-> 0, config |-> NoConfig, epoch |-> 0, bucket |-> NoBucket]

EventId(f) == <<"event", f>>
ObservationId(f) == <<"observation", f>>
RollupId(start, boot, epoch) == <<"rollup", start, boot, epoch>>

EdgeInit ==
  /\ edgeClock = 1 /\ node = Down /\ cached = NoConfig
  /\ coreConfig \in {c \in Configs : c.scene # 0} /\ left \in EdgeBudgets
  /\ outbox = {} /\ post = NoPost /\ serving = {} /\ broker = {} /\ core = <<>>
  /\ promoted = [f \in Frames |-> 0]
  /\ processed = {} /\ lostFrames = {} /\ dropped = {} /\ cameraStopped = FALSE
  /\ replayed = {}

--------------------------------------------------------------------------------
\* The outbox.

OutboxIds(rows) == {r.id : r \in rows}
NextNo(rows) == 1 + Max({r.no : r \in rows} \cup {0})

\* put: INSERT OR IGNORE on the record's id.
Put(rows, id, frames) ==
  IF id \in OutboxIds(rows) THEN rows
  ELSE rows \cup {[id |-> id, frames |-> frames, at |-> edgeClock, no |-> NextNo(rows),
                   state |-> "pending"]}

Oldest(rows, n) == {r \in rows : Cardinality({q \in rows : q.no < r.no}) < n}

\* pending(limit), oldest first.
Batch(rows) == Oldest({r \in rows : r.state = "pending"}, EdgeBatch)

\* mark_sent and mark_dead
Mark(rows, ids, state) ==
  {IF r.id \in ids THEN [r EXCEPT !.state = state] ELSE r : r \in rows}

--------------------------------------------------------------------------------
\* Rollup buckets.

BucketStart(ts) == ts - (ts % BucketLength)

\* Mutant: the id of a bucket does not tell restarts apart.
BootlessId(n) == RollupId(n.bucket.start, 0, n.epoch)

\* The id a closed bucket is filed under.
BucketId(n) == RollupId(n.bucket.start, n.boot, n.epoch)

\* _close and the puts of what flush returns; an empty bucket has no samples.
Closed(rows, n) == IF n.bucket.frames = {} THEN rows ELSE Put(rows, BucketId(n), n.bucket.frames)

\* The frames of a bucket whose id is taken are never reported.
Dropped(rows, n) == IF n.bucket.frames # {} /\ BucketId(n) \in OutboxIds(rows)
                    THEN n.bucket.frames ELSE {}

Ended(n) == n.bucket # NoBucket /\ edgeClock >= n.bucket.start + BucketLength

--------------------------------------------------------------------------------
\* The node.

\* load_config: from the core, which is cached, or from the cache when the core cannot be reached.
Loaded == {coreConfig} \cup (IF cached # NoConfig THEN {cached} ELSE {})
Cache(c) == cached' = IF c = coreConfig THEN c ELSE cached

\* start at boot; without any configuration the node waits.
NodeStart ==
  /\ node.state = "down" /\ left.boots > 0
  /\ \E c \in Loaded :
       /\ Cache(c)
       /\ node' = [Down EXCEPT !.state = "up", !.boot = node.boot + 1, !.config = c]
  /\ left' = [left EXCEPT !.boots = @ - 1]
  /\ UNCHANGED <<edgeClock, coreConfig, outbox, post, processed, lostFrames, dropped, cameraStopped>>
  /\ UNCHANGED coreVars

\* process: event, observation in lab mode and rollup, all to the outbox first.
ProcessFrame(concludes, lab) ==
  LET f == edgeClock
      same == node.bucket.start = BucketStart(f) /\ node.bucket # NoBucket
      seen == IF concludes
              THEN Put(IF lab THEN Put(outbox, ObservationId(f), {f}) ELSE outbox, EventId(f), {f})
              ELSE outbox
  IN /\ node.state = "up" /\ node.config.scene # 0 /\ f \notin processed /\ post = NoPost
     /\ processed' = processed \cup {f}
     /\ IF concludes THEN left.events > 0 /\ left' = [left EXCEPT !.events = @ - 1]
        ELSE UNCHANGED left
     /\ IF same
        THEN /\ node' = [node EXCEPT !.bucket.frames = @ \cup {f}]
             /\ outbox' = seen /\ UNCHANGED dropped
        ELSE /\ node' = [node EXCEPT !.bucket = [start |-> BucketStart(f), frames |-> {f}]]
             /\ outbox' = Closed(seen, node) /\ dropped' = dropped \cup Dropped(outbox, node)
     /\ UNCHANGED <<edgeClock, cached, coreConfig, post, lostFrames, cameraStopped>>
     /\ UNCHANGED coreVars

\* The runtime's rollup bucket is closed and filed.
CloseBucket == /\ outbox' = Closed(outbox, node) /\ dropped' = dropped \cup Dropped(outbox, node)

\* idle: no frame arrives, due buckets close all the same.
Idle ==
  /\ node.state = "up" /\ node.config.scene # 0 /\ Ended(node) /\ post = NoPost
  /\ CloseBucket /\ node' = [node EXCEPT !.bucket = NoBucket]
  /\ UNCHANGED <<edgeClock, cached, coreConfig, left, post, processed, lostFrames, cameraStopped>>
  /\ UNCHANGED coreVars

\* apply_config for the camera: stopped without a scene, started with epoch 0, rebuilt with its
\* rollup when only rules changed and with a new epoch when the scene changed.
Stopped(c) == [node EXCEPT !.config = c, !.bucket = NoBucket]
Started(c) == [node EXCEPT !.config = c, !.bucket = NoBucket, !.epoch = 0]
Rebuilt(c) == IF c.scene = node.config.scene THEN [node EXCEPT !.config = c]
              ELSE [node EXCEPT !.config = c, !.bucket = NoBucket, !.epoch = @ + 1]
Applied(c) == IF c.scene = 0 THEN Stopped(c)
              ELSE IF node.config.scene = 0 THEN Started(c) ELSE Rebuilt(c)

\* _refresh
Refresh ==
  /\ node.state = "up" /\ post = NoPost
  /\ \E c \in Loaded :
       /\ c # node.config /\ Cache(c) /\ node' = Applied(c)
       /\ cameraStopped' = (cameraStopped \/ (c.scene = 0 /\ node.config.scene # 0))
       /\ IF c.scene = node.config.scene THEN UNCHANGED <<outbox, dropped>> ELSE CloseBucket
  /\ UNCHANGED <<edgeClock, coreConfig, left, post, processed, lostFrames>>
  /\ UNCHANGED coreVars

\* shutdown closes the bucket and delivers what it can before the process ends.
Shutdown ==
  /\ node.state = "up" /\ post = NoPost
  /\ CloseBucket /\ node' = [node EXCEPT !.state = "stopping", !.bucket = NoBucket]
  /\ UNCHANGED <<edgeClock, cached, coreConfig, left, post, processed, lostFrames, cameraStopped>>
  /\ UNCHANGED coreVars

\* The node dies: after its shutdown, or by a power cut with a bucket open.
NodeDies ==
  /\ node.state # "down" /\ node' = [Down EXCEPT !.boot = node.boot]
  /\ left.boots > 0
  /\ lostFrames' = lostFrames \cup node.bucket.frames /\ post' = NoPost
  /\ UNCHANGED <<edgeClock, cached, coreConfig, left, outbox, processed, dropped, cameraStopped>>
  /\ UNCHANGED coreVars

--------------------------------------------------------------------------------
\* Draining the outbox.

\* drain: the next batch is handed to the publisher.
DrainHttp ==
  /\ left.transport = "http" /\ node.state # "down" /\ post = NoPost
  /\ Batch(outbox) # {} /\ Cardinality(serving) < left.posts
  /\ post' = [batch |-> Batch(outbox), answer |-> Waiting]
  /\ serving' = serving \cup {[batch |-> Batch(outbox), fresh |-> {}, read |-> FALSE]}
  /\ UNCHANGED <<edgeClock, node, cached, coreConfig, left, outbox, broker, core, promoted,
                 processed, lostFrames, dropped, cameraStopped, replayed>>

\* MqttPublisher: sent once the broker confirmed the whole batch, else all stays pending.
DrainMqtt ==
  /\ left.transport = "mqtt" /\ node.state # "down" /\ Batch(outbox) # {}
  /\ LET batch == Batch(outbox)
     IN  \E n \in 0..Cardinality(batch) :
           /\ broker' = broker \cup Oldest(batch, n)
           /\ outbox' = IF n = Cardinality(batch) THEN Mark(outbox, OutboxIds(batch), "sent") ELSE outbox
  /\ UNCHANGED <<edgeClock, node, cached, coreConfig, left, post, serving, core, promoted,
                 processed, lostFrames, dropped, cameraStopped, replayed>>

\* Mutant: a batch that failed is marked as if it had been stored.
MarkAnyway(answer, batch) == Mark(outbox, OutboxIds(batch), "sent")

\* What drain makes of an answer: stored, one record refused, or a transient error.
AfterAnswer(answer, batch) ==
  CASE answer = Ok -> Mark(outbox, OutboxIds(batch), "sent")
    [] answer = TransientError -> outbox
    [] OTHER -> Mark(outbox, {answer.id}, "dead")

GetAnswer ==
  /\ post.answer # Waiting /\ node.state # "down"
  /\ outbox' = AfterAnswer(post.answer, post.batch) /\ post' = NoPost
  /\ UNCHANGED <<edgeClock, node, cached, coreConfig, left, processed, lostFrames, dropped, cameraStopped>>
  /\ UNCHANGED coreVars

\* The node gives up waiting: time-out, link down.  The core may still be at work.
PostFails ==
  /\ post # NoPost
  /\ outbox' = AfterAnswer(TransientError, post.batch) /\ post' = NoPost
  /\ UNCHANGED <<edgeClock, node, cached, coreConfig, left, processed, lostFrames, dropped, cameraStopped>>
  /\ UNCHANGED coreVars

\* prune_sent
PruneSent ==
  /\ node.state # "down" /\ post = NoPost
  /\ outbox' = {r \in outbox : r.state # "sent" \/ r.at + SentKept >= edgeClock}
  /\ outbox' # outbox
  /\ UNCHANGED <<edgeClock, node, cached, coreConfig, left, post, processed, lostFrames, dropped, cameraStopped>>
  /\ UNCHANGED coreVars

--------------------------------------------------------------------------------
\* The core.

Refused(r) == r.id[1] = "event" /\ r.id[2] \in RefusedFrames

Fresh(batch) == {r \in batch : r.id \notin DOMAIN core}

\* ingest of a batch up to the commit: the rows that are new as it sees them.
CoreReads(s) ==
  /\ s \in serving /\ ~s.read
  /\ serving' = (serving \ {s}) \cup {[s EXCEPT !.fresh = Fresh(s.batch), !.read = TRUE]}
  /\ UNCHANGED <<edgeClock, coreConfig, left, broker, core, promoted, replayed>>
  /\ UNCHANGED nodeVars

\* Rows in the core with the new ones; the first writer of an id wins.
Stored(rows) == [id \in DOMAIN core \cup {r.id : r \in rows} |->
                   IF id \in DOMAIN core THEN core[id] ELSE (CHOOSE r \in rows : r.id = id).frames]

IsEvent(r) == r.id[1] = "event"

\* _promote, in the same transaction; every event here is of a promoted type.
Promote(rows) == [f \in Frames |-> IF EventId(f) \in {r.id : r \in rows} THEN promoted[f] + 1
                                   ELSE promoted[f]]

\* An event another transaction stored since fails the insert, and with it the batch; a rollup,
\* health or observation row is skipped (_insert_once).
Collides(s) == \E r \in s.fresh : IsEvent(r) /\ r.id \in DOMAIN core

\* The request names the first record of the batch it refuses.
FirstRefused(batch) ==
  LET refused == {r \in batch : Refused(r)} IN CHOOSE r \in refused : \A q \in refused : r.no <= q.no

Answer(s) == IF \E r \in s.batch : Refused(r)
             THEN [kind |-> "refused", id |-> FirstRefused(s.batch).id]
             ELSE IF Collides(s) THEN TransientError ELSE Ok

\* The commit or the rollback, and the answer to the node if it still waits for this request.
CoreCommits(s) ==
  LET answer == Answer(s)
      stored == {r \in s.fresh : r.id \notin DOMAIN core} IN
  /\ s \in serving /\ s.read
  /\ serving' = serving \ {s}
  /\ IF answer = Ok
     THEN core' = Stored(stored) /\ promoted' = Promote({r \in s.fresh : IsEvent(r)})
     ELSE UNCHANGED <<core, promoted>>
  /\ post' = IF post.batch = s.batch /\ post.answer = Waiting THEN [post EXCEPT !.answer = answer]
             ELSE post
  /\ UNCHANGED <<edgeClock, node, cached, coreConfig, left, outbox, broker, processed,
                 lostFrames, dropped, cameraStopped, replayed>>

\* The core's worker dies or the database fails: rolled back.
CoreFails(s) ==
  /\ s \in serving /\ s.batch # post.batch
  /\ serving' = serving \ {s}
  /\ UNCHANGED <<edgeClock, coreConfig, left, broker, core, promoted, replayed>>
  /\ UNCHANGED nodeVars

\* _on_vision_message: stored or refused, then acknowledged; unacknowledged it comes again.
Consume(r, acked) ==
  /\ r \in broker
  /\ broker' = IF acked THEN broker \ {r} ELSE broker
  /\ IF Refused(r) \/ r.id \in DOMAIN core THEN UNCHANGED <<core, promoted>>
     ELSE core' = Stored({r}) /\ promoted' = Promote({r})
  /\ UNCHANGED <<edgeClock, coreConfig, left, serving, replayed>>
  /\ UNCHANGED nodeVars

\* recompute: an event concluded again from its stored observation is stored and never promoted.
Recomputed(f) == {[id |-> EventId(f), frames |-> {f}]}

RecomputeEvent(f) ==
  /\ ObservationId(f) \in DOMAIN core /\ EventId(f) \notin DOMAIN core
  /\ core' = Stored(Recomputed(f))
  /\ replayed' = replayed \cup {f}
  /\ UNCHANGED <<edgeClock, coreConfig, left, serving, broker, promoted>>
  /\ UNCHANGED nodeVars

\* An admin changes the scene, the rules or whether the camera is enabled.
ChangeConfig(c) ==
  /\ left.configs > 0 /\ c # coreConfig
  /\ coreConfig' = c /\ left' = [left EXCEPT !.configs = @ - 1]
  /\ UNCHANGED <<edgeClock, serving, broker, core, promoted, replayed>> /\ UNCHANGED nodeVars

\* A bucket that is due is closed, by a frame or by idle, before the clock moves on: the
\* node's loop takes seconds, a bucket minutes.
EdgeClockTick ==
  /\ edgeClock < left.time /\ edgeClock' = edgeClock + 1
  /\ node.bucket # NoBucket => ~Ended(node)
  /\ UNCHANGED <<coreConfig, left>> /\ UNCHANGED coreVars /\ UNCHANGED nodeVars

EdgeNext ==
  \/ NodeStart \/ Idle \/ Refresh \/ Shutdown \/ NodeDies
  \/ \E c, l \in BOOLEAN : (l => c) /\ ProcessFrame(c, l)
  \/ DrainHttp \/ DrainMqtt \/ GetAnswer \/ PostFails \/ PruneSent
  \/ \E s \in serving : CoreReads(s) \/ CoreCommits(s) \/ CoreFails(s)
  \/ \E r \in broker, a \in BOOLEAN : Consume(r, a)
  \/ \E f \in Frames : RecomputeEvent(f)
  \/ \E c \in Configs : ChangeConfig(c)
  \/ EdgeClockTick

\* The node comes back after a power cut and drains again and again; the core does not always
\* fail, nor answer only after the node has given up, nor lose the link to the broker for ever.
AnsweredInTime == \E s \in serving : CoreCommits(s) /\ post' # post

EdgeFairness ==
  /\ WF_edgeVars(NodeStart) /\ WF_edgeVars(DrainHttp) /\ SF_edgeVars(GetAnswer)
  /\ SF_edgeVars(\E s \in serving : s.batch = post.batch /\ CoreReads(s))
  /\ SF_edgeVars(AnsweredInTime)
  /\ WF_edgeVars(\E s \in serving : CoreReads(s) \/ CoreCommits(s))
  /\ SF_edgeVars(DrainMqtt /\ outbox' # outbox)
  /\ \A f \in Frames : SF_edgeVars(\E r \in broker : r.id = EventId(f) /\ Consume(r, TRUE))

EdgeSpec == EdgeInit /\ [][EdgeNext]_edgeVars /\ EdgeFairness

--------------------------------------------------------------------------------

Reported == {<<r.id, r.frames>> : r \in {x \in outbox \cup broker : x.id[1] = "rollup"}}
            \cup {<<id, core[id]>> : id \in {x \in DOMAIN core : x[1] = "rollup"}}

\* Every analysed frame is counted by exactly one rollup, the open one included, across
\* restarts, reconfigurations, resends and pruning; lost are only the open bucket of a node
\* that died and a bucket filed under the id of one closed before its camera was stopped and
\* started again, which has epoch 0 again.
FramesCountedOnce ==
  /\ \A f \in processed \ (lostFrames \cup dropped) :
       IF f \in node.bucket.frames THEN \A x \in Reported : f \notin x[2]
       ELSE Cardinality({x \in Reported : f \in x[2]}) = 1
  /\ \A x, y \in Reported : x[1] = y[1] => x = y
  /\ dropped # {} => cameraStopped

\* An event is promoted to an alarm at most once, however often its record is sent, also when a
\* late request and its retry are in the core together, and a record marked sent has been taken
\* over by the core or the broker.
DeliveredOnce ==
  /\ \A f \in Frames : promoted[f] <= 1
  /\ \A f \in Frames : promoted[f] = 1 <=> EventId(f) \in DOMAIN core /\ f \notin replayed
  /\ \A r \in outbox : r.state = "sent" =>
       \/ r.id \in DOMAIN core
       \/ left.transport = "mqtt" /\ (r.id \in {b.id : b \in broker} \/ Refused(r))

\* What the core holds is what the node saw, once (rollup buckets, the outbox, the
\* idempotent ingest of vision/service.py).
RecordedOnce == FramesCountedOnce /\ DeliveredOnce

\* What the node concluded reaches the core and is promoted, unless the core refuses it or a
\* recompute has stored the same event before.
EventsArrive ==
  \A f \in Frames :
    (EventId(f) \in OutboxIds(outbox)) ~> (promoted[f] = 1 \/ f \in RefusedFrames \cup replayed)
================================================================================
