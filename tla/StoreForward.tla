---------------------------- MODULE StoreForward ----------------------------
(***************************************************************************)
(* The store-and-forward path of a position: the publisher's SQLite spool  *)
(* (ingest/spool.py), the MQTT publisher that drains it and the MQTT       *)
(* ingestor that stores what the broker holds (ingest/mqtt.py), with the   *)
(* paho client and the Mosquitto broker between them modelled from how     *)
(* that code uses them.                                                    *)
(*                                                                         *)
(* A fix is a payload of a KIND: what each check of the path makes of it.  *)
(*   good          stored and processed                                    *)
(*   invalid       fails PositionIngest validation in the drain (spooled   *)
(*                 under an older, looser contract)                        *)
(*   ahead         dated near the future-skew limit: the ingestor's clock  *)
(*                 decides, each time it is delivered                      *)
(*   unregistered  no enabled device: refused in strict mode only          *)
(*   poison        zone/rule processing fails on it every time             *)
(*   unstorable    even the bare INSERT fails every time                   *)
(***************************************************************************)
EXTENDS Naturals, Sequences, FiniteSets

CONSTANTS Payloads, Keys, KeyOf,
          KindOf,      \* the kind of each payload
          BatchSize,   \* rows one drain pass peeks
          MaxQueued,   \* messages the broker keeps for an absent subscriber
          Strict,      \* mqtt_require_registered_device
          MaxRows,     \* bound: payloads appended to the spool
          MaxFaults    \* bound: crashes, disconnects, timeouts and outages

Kinds == {"good", "invalid", "ahead", "unregistered", "poison", "unstorable"}

ASSUME PayloadAssumption == KeyOf \in [Payloads -> Keys] /\ KindOf \in [Payloads -> Kinds]
ASSUME BoundAssumption ==
  /\ BatchSize \in Nat \ {0} /\ MaxQueued \in Nat
  /\ MaxRows \in Nat /\ MaxFaults \in Nat
  /\ Strict \in BOOLEAN

VARIABLES
  \* The spool file (durable).
  body,        \* every payload ever appended; a row's id is its index
  spool,       \* rows in the table spool
  quarantined, \* rows in the table spool_quarantine
  \* The publisher process (volatile).
  ppc,         \* where the drain thread is
  batch,       \* rows of the current pass still to look at
  done,        \* rows of the current pass confirmed by the broker
  info,        \* the message being waited for (MQTTMessageInfo)
  connected,   \* the _connected event
  out,         \* messages paho has not had a PUBACK for
  mids,        \* messages published so far by this client
  \* The broker.
  pubacks,     \* messages whose PUBACK is on its way to the publisher
  session,     \* the ingestor's persistent session exists
  queue,       \* messages kept for the ingestor, unacknowledged
  msgs,        \* messages enqueued so far
  \* The ingestor process (volatile).
  ipc,         \* where the network thread is
  cur,         \* the message its callback is handling
  seen,        \* messages delivered on the current connection
  stop,        \* the _stop event
  \* The database.
  dbUp, positions,
  processed,   \* how often live rules ran on each key
  \* History, and the fault budget.
  rejected,    \* rows the ingestor refused for good
  discarded,   \* rows the broker acknowledged and did not keep
  faults

spoolVars == <<body, spool, quarantined>>
pubVars   == <<ppc, batch, done, info, connected, out, mids>>
brokerVars == <<pubacks, session, queue, msgs>>
ingVars   == <<ipc, cur, seen, stop>>
dbVars    == <<dbUp, positions, processed>>
histVars  == <<rejected, discarded>>
vars == <<spoolVars, pubVars, brokerVars, ingVars, dbVars, histVars, faults>>

Rows     == 1 .. Len(body)
NoRow    == 0
Message  == [id : Nat, row : Nat]
NoMessage == [id |-> 0, row |-> NoRow]
KeyAt(r) == KeyOf[body[r]]
KindAt(r) == KindOf[body[r]]

\* The path has finished with row r: stored, or refused at some stage.
Refused   == quarantined \cup rejected \cup discarded
Settled(r) == KeyAt(r) \in positions \/ r \in Refused

Init ==
  /\ body = <<>> /\ spool = {} /\ quarantined = {}
  /\ ppc = "idle" /\ batch = {} /\ done = {} /\ info = NoMessage
  /\ connected = FALSE /\ out = {} /\ mids = 0
  /\ pubacks = {} /\ session = FALSE /\ queue = {} /\ msgs = 0
  /\ ipc = "down" /\ cur = NoMessage /\ seen = {} /\ stop = FALSE
  /\ dbUp = TRUE /\ positions = {} /\ processed = [k \in Keys |-> 0]
  /\ rejected = {} /\ discarded = {} /\ faults = 0

\* Spends one of the faults this instance may meet.
Fault == faults < MaxFaults /\ faults' = faults + 1

-----------------------------------------------------------------------------
(* The publisher: Spool and MqttPublisher.                                 *)

\* publish_position: one durable autocommit INSERT.
PublishPosition(p) ==
  /\ Len(body) < MaxRows
  /\ body' = Append(body, p)
  /\ spool' = spool \cup {Len(body) + 1}
  /\ UNCHANGED <<quarantined, pubVars, brokerVars, ingVars, dbVars, histVars, faults>>

\* MqttPublisher._on_connect; a refused CONNACK changes nothing.
PublisherConnect ==
  /\ ~connected
  /\ connected' = TRUE
  /\ UNCHANGED <<spoolVars, ppc, batch, done, info, out, mids, brokerVars, ingVars,
                 dbVars, histVars, faults>>

\* MqttPublisher._on_disconnect: paho keeps its unacknowledged messages, the
\* acknowledgements in flight are gone.
PublisherDisconnect ==
  /\ Fault
  /\ connected
  /\ connected' = FALSE
  /\ pubacks' = {}
  /\ UNCHANGED <<spoolVars, ppc, batch, done, info, out, mids, session, queue, msgs,
                 ingVars, dbVars, histVars>>

\* Spool.peek: the oldest rows, at most BatchSize of them.
Peeked(b) ==
  /\ b \subseteq spool
  /\ Cardinality(b) = IF Cardinality(spool) < BatchSize THEN Cardinality(spool) ELSE BatchSize
  /\ \A r \in b, q \in spool \ b : r < q

\* _drain_loop starts a pass of _drain_once, only while connected.
DrainStart ==
  /\ ppc = "idle" /\ connected /\ spool # {}
  /\ \E b \in SUBSET spool : Peeked(b) /\ batch' = b
  /\ ppc' = "pass" /\ done' = {}
  /\ UNCHANGED <<spoolVars, info, connected, out, mids, brokerVars, ingVars, dbVars,
                 histVars, faults>>

\* The next row of the pass.
NextRow(r) == r \in batch /\ \A q \in batch : r <= q

\* Mutant: the row leaves the spool before its copy is in the quarantine table.
QuarantineDeletesFirst(r) ==
  /\ ppc = "pass" /\ NextRow(r) /\ KindAt(r) = "invalid"
  /\ spool' = spool \ {r}
  /\ ppc' = "copied"
  /\ UNCHANGED <<body, quarantined, batch, done, info, connected, out, mids, brokerVars,
                 ingVars, dbVars, histVars, faults>>

\* An invalid entry: the first of Spool.quarantine's two autocommit statements.
QuarantineCopy(r) ==
  /\ ppc = "pass" /\ NextRow(r) /\ KindAt(r) = "invalid"
  /\ quarantined' = quarantined \cup {r}
  /\ ppc' = "copied"
  /\ UNCHANGED <<body, spool, batch, done, info, connected, out, mids, brokerVars,
                 ingVars, dbVars, histVars, faults>>

\* The second one, and on to the next entry.
QuarantineDelete(r) ==
  /\ ppc = "copied" /\ NextRow(r)
  /\ spool' = spool \ {r}
  /\ batch' = batch \ {r}
  /\ ppc' = "pass"
  /\ UNCHANGED <<body, quarantined, done, info, connected, out, mids, brokerVars,
                 ingVars, dbVars, histVars, faults>>

\* client.publish(qos=1): paho queues the message whether or not it is connected.
Publish(r) ==
  /\ ppc = "pass" /\ NextRow(r) /\ KindAt(r) # "invalid"
  /\ mids' = mids + 1
  /\ info' = [id |-> mids + 1, row |-> r]
  /\ out' = out \cup {info'}
  /\ ppc' = "waiting"
  /\ UNCHANGED <<spoolVars, batch, done, connected, brokerVars, ingVars, dbVars,
                 histVars, faults>>

\* info.is_published(): the PUBACK arrived within the wait.
Published ==
  /\ ppc = "waiting" /\ info \notin out
  /\ done' = done \cup {info.row}
  /\ batch' = batch \ {info.row}
  /\ ppc' = "pass" /\ info' = NoMessage
  /\ UNCHANGED <<spoolVars, connected, out, mids, brokerVars, ingVars, dbVars, histVars, faults>>

\* Mutant: an entry counts as done although no PUBACK came within the wait.
TimedOutCountsAsDone ==
  /\ ppc = "waiting" /\ info \in out
  /\ IF connected THEN Fault ELSE UNCHANGED faults
  /\ done' = done \cup {info.row}
  /\ ppc' = "deleting" /\ batch' = {} /\ info' = NoMessage
  /\ UNCHANGED <<spoolVars, connected, out, mids, brokerVars, ingVars, dbVars, histVars>>

\* RuntimeError while disconnected, or the five seconds ran out: break.
\* A time-out spends a fault; a lost connection already did.
NotPublished ==
  /\ ppc = "waiting" /\ info \in out
  /\ IF connected THEN Fault ELSE UNCHANGED faults
  /\ ppc' = "deleting" /\ batch' = {} /\ info' = NoMessage
  /\ UNCHANGED <<spoolVars, done, connected, out, mids, brokerVars, ingVars, dbVars, histVars>>

\* The loop ran through the whole batch.
PassDone ==
  /\ ppc = "pass" /\ batch = {}
  /\ ppc' = "deleting"
  /\ UNCHANGED <<spoolVars, batch, done, info, connected, out, mids, brokerVars, ingVars,
                 dbVars, histVars, faults>>

\* Spool.delete(done): one autocommit DELETE per row, in order.
DeleteOne(r) ==
  /\ ppc = "deleting" /\ r \in done /\ \A q \in done : r <= q
  /\ spool' = spool \ {r}
  /\ done' = done \ {r}
  /\ UNCHANGED <<body, quarantined, ppc, batch, info, connected, out, mids, brokerVars,
                 ingVars, dbVars, histVars, faults>>

DrainEnd ==
  /\ ppc = "deleting" /\ done = {}
  /\ ppc' = "idle"
  /\ UNCHANGED <<spoolVars, batch, done, info, connected, out, mids, brokerVars, ingVars,
                 dbVars, histVars, faults>>

\* The publisher process dies and is started again: paho's queue was in memory.
PublisherCrash ==
  /\ Fault
  /\ ppc' = "idle" /\ batch' = {} /\ done' = {} /\ info' = NoMessage
  /\ connected' = FALSE /\ out' = {} /\ pubacks' = {}
  /\ UNCHANGED <<spoolVars, mids, session, queue, msgs, ingVars, dbVars, histVars>>

-----------------------------------------------------------------------------
(* The broker (external): QoS 1 both ways and a persistent session for the *)
(* ingestor's fixed client id.                                             *)

\* The broker takes a message and answers; without a session, or with the
\* session's queue full, it acknowledges and keeps nothing.
BrokerAccept(m) ==
  /\ connected /\ m \in out \ pubacks
  /\ pubacks' = pubacks \cup {m}
  /\ IF session /\ Cardinality(queue) < MaxQueued
       THEN /\ queue' = queue \cup {[id |-> msgs + 1, row |-> m.row]}
            /\ msgs' = msgs + 1
            /\ UNCHANGED discarded
       ELSE /\ discarded' = discarded \cup {m.row}
            /\ UNCHANGED <<queue, msgs>>
  /\ UNCHANGED <<spoolVars, pubVars, session, ingVars, dbVars, rejected, faults>>

\* The PUBACK reaches paho.
PubAck(m) ==
  /\ connected /\ m \in pubacks
  /\ pubacks' = pubacks \ {m}
  /\ out' = out \ {m}
  /\ UNCHANGED <<spoolVars, ppc, batch, done, info, connected, mids, session, queue, msgs,
                 ingVars, dbVars, histVars, faults>>

\* Persistence keeps the session and its queue; both connections drop.
BrokerRestart ==
  /\ Fault
  /\ connected' = FALSE /\ pubacks' = {} /\ seen' = {}
  /\ UNCHANGED <<spoolVars, ppc, batch, done, info, out, mids, session, queue, msgs,
                 ipc, cur, stop, dbVars, histVars>>

-----------------------------------------------------------------------------
(* The ingestor: MqttIngestor.                                             *)

\* start and _on_connect: subscribing creates the persistent session.  A login
\* the broker refuses ends the process again and changes nothing.
IngestorStart ==
  /\ ipc = "down"
  /\ ipc' = "idle" /\ session' = TRUE /\ stop' = FALSE
  /\ UNCHANGED <<spoolVars, pubVars, pubacks, queue, msgs, cur, seen, dbVars, histVars, faults>>

\* The next message of this connection reaches _on_message.
Deliver(m) ==
  /\ ipc = "idle" /\ m \in queue \ seen
  /\ \A q \in queue \ seen : m.id <= q.id
  /\ cur' = m /\ seen' = seen \cup {m} /\ ipc' = "check"
  /\ UNCHANGED <<spoolVars, pubVars, brokerVars, stop, dbVars, histVars, faults>>

\* _handle: a fix dated too far ahead of this delivery's clock is refused.
RejectFuture ==
  /\ ipc = "check" /\ KindAt(cur.row) = "ahead"
  /\ rejected' = rejected \cup {cur.row}
  /\ ipc' = "ack"
  /\ UNCHANGED <<spoolVars, pubVars, brokerVars, cur, seen, stop, dbVars, discarded, faults>>

PassChecks ==
  /\ ipc = "check"
  /\ ipc' = IF Strict THEN "register" ELSE "store"
  /\ UNCHANGED <<spoolVars, pubVars, brokerVars, cur, seen, stop, dbVars, histVars, faults>>

\* _is_registered, with the database answering.
CheckRegistered ==
  /\ ipc = "register" /\ dbUp
  /\ IF KindAt(cur.row) = "unregistered"
       THEN rejected' = rejected \cup {cur.row} /\ ipc' = "ack"
       ELSE ipc' = "store" /\ UNCHANGED rejected
  /\ UNCHANGED <<spoolVars, pubVars, brokerVars, cur, seen, stop, dbVars, discarded, faults>>

\* _is_registered, with the database down: its exception leaves _on_message and
\* ends paho's network thread; the process and its maintenance loop live on.
RegistrationRaises ==
  /\ ipc = "register" /\ ~dbUp
  /\ ipc' = "dead" /\ cur' = NoMessage
  /\ UNCHANGED <<spoolVars, pubVars, brokerVars, seen, stop, dbVars, histVars, faults>>

\* Does store_and_process raise on row r?  Rules run only on a fix not yet stored.
Raises(r) == \/ KindAt(r) = "unstorable"
             \/ KindAt(r) = "poison" /\ KeyAt(r) \notin positions

\* One attempt ends in COMMIT.  When the reply is lost the attempt counts as a
\* transient error and the loop tries again.
Answered(next) == \/ ipc' = "ack" /\ UNCHANGED faults
                  \/ ipc' = next /\ Fault

\* Mutant: live rules run although the position was stored before.
ProcessesDuplicates ==
  /\ ipc = "store" /\ dbUp /\ ~Raises(cur.row)
  /\ positions' = positions \cup {KeyAt(cur.row)}
  /\ processed' = [processed EXCEPT ![KeyAt(cur.row)] = @ + 1]
  /\ Answered("store")
  /\ UNCHANGED <<spoolVars, pubVars, brokerVars, cur, seen, stop, dbUp, histVars>>

\* store_and_process commits: insert ON CONFLICT DO NOTHING, and live rules if
\* the row is new, in one transaction.
StoreAndProcess ==
  /\ ipc = "store" /\ dbUp /\ ~Raises(cur.row)
  /\ LET k == KeyAt(cur.row)
     IN  /\ positions' = positions \cup {k}
         /\ processed' = IF k \in positions THEN processed
                                            ELSE [processed EXCEPT ![k] = @ + 1]
  /\ Answered("store")
  /\ UNCHANGED <<spoolVars, pubVars, brokerVars, cur, seen, stop, dbUp, histVars>>

\* Mutant: a failure of the rules is retried like a transient one.
RetriesPoison ==
  /\ ipc = "store" /\ dbUp /\ Raises(cur.row)
  /\ ipc' = "store"
  /\ UNCHANGED <<spoolVars, pubVars, brokerVars, cur, seen, stop, dbVars, histVars, faults>>

\* A non-transient failure: fall back to _store_raw_with_retry.
ProcessingFails ==
  /\ ipc = "store" /\ dbUp /\ Raises(cur.row)
  /\ ipc' = "raw"
  /\ UNCHANGED <<spoolVars, pubVars, brokerVars, cur, seen, stop, dbVars, histVars, faults>>

StoreRaw ==
  /\ ipc = "raw" /\ dbUp /\ KindAt(cur.row) # "unstorable"
  /\ positions' = positions \cup {KeyAt(cur.row)}
  /\ Answered("raw")
  /\ UNCHANGED <<spoolVars, pubVars, brokerVars, cur, seen, stop, dbUp, processed, histVars>>

\* Even the raw insert fails for good: dropped with an error log.
DropRaw ==
  /\ ipc = "raw" /\ dbUp /\ KindAt(cur.row) = "unstorable"
  /\ rejected' = rejected \cup {cur.row}
  /\ ipc' = "ack"
  /\ UNCHANGED <<spoolVars, pubVars, brokerVars, cur, seen, stop, dbVars, discarded, faults>>

\* Mutant: a stop during an outage acknowledges the fix it was retrying (audit M4).
StoppedIsAcked ==
  /\ ipc \in {"store", "raw"} /\ stop
  /\ ipc' = "ack"
  /\ UNCHANGED <<spoolVars, pubVars, brokerVars, cur, seen, stop, dbVars, histVars, faults>>

\* The retry loop finds _stop set: "stopped", no acknowledgement.
GiveUp ==
  /\ ipc \in {"store", "raw"} /\ stop
  /\ ipc' = "idle" /\ cur' = NoMessage
  /\ UNCHANGED <<spoolVars, pubVars, brokerVars, seen, stop, dbVars, histVars, faults>>

\* _ack: an acknowledgement given on a connection that was replaced since the
\* delivery may not reach the broker.
Ack ==
  /\ ipc = "ack"
  /\ \/ queue' = queue \ {cur}
     \/ cur \notin seen /\ UNCHANGED queue
  /\ ipc' = "idle" /\ cur' = NoMessage
  /\ UNCHANGED <<spoolVars, pubVars, pubacks, session, msgs, seen, stop, dbVars, histVars, faults>>

\* paho reconnects by itself; the broker sends the unacknowledged messages again.
IngestorReconnect ==
  /\ Fault
  /\ ipc \notin {"down", "dead"}
  /\ seen' = {}
  /\ UNCHANGED <<spoolVars, pubVars, brokerVars, ipc, cur, stop, dbVars, histVars>>

\* stop(), or an unrecoverable login: the network thread is joined, then the process ends.
StopRequested ==
  /\ Fault
  /\ ipc # "down" /\ ~stop
  /\ stop' = TRUE
  /\ UNCHANGED <<spoolVars, pubVars, brokerVars, ipc, cur, seen, dbVars, histVars>>

IngestorExit ==
  /\ stop /\ ipc \in {"idle", "dead"}
  /\ ipc' = "down" /\ seen' = {}
  /\ UNCHANGED <<spoolVars, pubVars, brokerVars, cur, stop, dbVars, histVars, faults>>

IngestorCrash ==
  /\ Fault
  /\ ipc # "down"
  /\ ipc' = "down" /\ cur' = NoMessage /\ seen' = {}
  /\ UNCHANGED <<spoolVars, pubVars, brokerVars, stop, dbVars, histVars>>

-----------------------------------------------------------------------------
(* The database server (external).                                         *)

DbOutage ==
  /\ Fault
  /\ dbUp /\ dbUp' = FALSE
  /\ UNCHANGED <<spoolVars, pubVars, brokerVars, ingVars, positions, processed, histVars>>

DbRestore ==
  /\ ~dbUp /\ dbUp' = TRUE
  /\ UNCHANGED <<spoolVars, pubVars, brokerVars, ingVars, positions, processed, histVars, faults>>

-----------------------------------------------------------------------------
Drain == \/ DrainStart \/ Published \/ NotPublished \/ PassDone \/ DrainEnd
         \/ \E r \in Rows : QuarantineCopy(r) \/ QuarantineDelete(r) \/ Publish(r) \/ DeleteOne(r)

Broker == \E m \in out : BrokerAccept(m) \/ PubAck(m)

Ingest == \/ IngestorStart \/ IngestorExit \/ GiveUp
          \/ \E m \in queue : Deliver(m)
          \/ RejectFuture \/ PassChecks \/ CheckRegistered \/ RegistrationRaises
          \/ StoreAndProcess \/ ProcessingFails \/ StoreRaw \/ DropRaw \/ Ack

Failure == \/ PublisherDisconnect \/ PublisherCrash \/ BrokerRestart
           \/ IngestorReconnect \/ StopRequested \/ IngestorCrash \/ DbOutage

Next == \/ \E p \in Payloads : PublishPosition(p)
        \/ PublisherConnect \/ Drain \/ Broker \/ Ingest \/ DbRestore \/ Failure

Spec == Init /\ [][Next]_vars

\* The drain thread and the paho threads keep running, a supervisor restarts the
\* ingestor, connections come back and the database is restored.
Fairness == /\ WF_vars(PublisherConnect) /\ WF_vars(Drain)
            /\ WF_vars(\E m \in out : BrokerAccept(m))
            /\ WF_vars(\E m \in out : PubAck(m))
            /\ WF_vars(Ingest) /\ WF_vars(DbRestore)

FairSpec == Spec /\ Fairness

-----------------------------------------------------------------------------
(* Properties.                                                             *)

\* Acknowledgements in flight are for messages paho still has, and every message and row
\* anywhere on the path stands for a payload that was handed to publish_position.
TypeOK ==
  /\ body \in Seq(Payloads) /\ Len(body) <= MaxRows
  /\ spool \subseteq Rows /\ quarantined \subseteq Rows
  /\ ppc \in {"idle", "pass", "copied", "waiting", "deleting"}
  /\ batch \subseteq Rows /\ done \subseteq Rows
  /\ info \in Message /\ connected \in BOOLEAN
  /\ out \subseteq [id : 1 .. mids, row : Rows] /\ mids \in Nat
  /\ pubacks \subseteq out
  /\ session \in BOOLEAN /\ msgs \in Nat
  /\ queue \subseteq [id : 1 .. msgs, row : Rows]
  /\ ipc \in {"down", "idle", "check", "register", "store", "raw", "ack", "dead"}
  /\ cur \in Message /\ seen \subseteq Message /\ stop \in BOOLEAN
  /\ dbUp \in BOOLEAN /\ positions \subseteq Keys /\ processed \in [Keys -> Nat]
  /\ rejected \subseteq Rows /\ discarded \subseteq Rows
  /\ faults \in 0 .. MaxFaults

InQueue(r) == \E m \in queue : m.row = r

\* No loss (mqtt.py module comment; ARCHITECTURE.md section 7): whatever crashes,
\* disconnects, times out or is restarted, a position handed to publish_position is
\* still in the spool or in the broker's session queue, or has its final outcome.
\* The one leak named is the broker's: a message it acknowledged without keeping.
NoLoss == \A r \in Rows : r \in spool \/ InQueue(r) \/ Settled(r)

\* The broker forgets a message only when the ingestor has stored the fix or refused it
\* for good (_on_message: "Ack once the outcome is final"): never because a stop ended
\* the retry loop.
AckOnlyWhenFinal ==
  [][\A m \in queue \ queue' : KeyAt(m.row) \in positions' \/ m.row \in rejected']_vars

\* Redelivery, republished rows, devices that resend a fix and lost COMMIT replies never
\* run the live rules twice on one (site, asset, ts), so they never raise an alarm twice.
ProcessedOnce == \A k \in Keys : processed[k] <= (IF k \in positions THEN 1 ELSE 0)

\* Once faults are over, every position leaves the spool and the broker's queue, whatever
\* the messages are: an invalid row, which no drain can deliver, does not block the rows
\* behind it, nor does a fix whose rules or whose write fail for good (_store_with_retry)
\* the broker's queue.  Only an outage at the registration lookup, which ends the network
\* thread (DatabaseRestartRecovers), leaves messages at the broker.
Drains == <>[](spool = {} /\ (queue = {} \/ ipc = "dead"))

\* "It retries the write until the database returns" (mqtt.py, module comment): after a
\* database outage the ingestor settles and acknowledges everything the broker holds.
DatabaseRestartRecovers == <>[](queue = {})

(* The inductive invariant behind NoLoss and AckOnlyWhenFinal.             *)

\* The broker side has taken responsibility for row r.
Safe(r) == InQueue(r) \/ Settled(r)

\* The row is stored, or refused by the ingestor.
Outcome(r) == KeyAt(r) \in positions \/ r \in rejected

Handling == {"check", "register", "store", "raw", "ack"}

\* What PUBACKs in flight and the drain's list of confirmed rows stand for.
ConfirmedIsSafe ==
  /\ \A m \in pubacks : Safe(m.row)
  /\ \A r \in done : Safe(r)

\* The message waited for: unless paho still has it, its PUBACK came.
WaitingIsSafe ==
  ppc = "waiting" => /\ info.row \in Rows /\ info.id \in 1 .. mids
                     /\ info \in out \/ Safe(info.row)

\* The rows a pass still has to look at are in the spool.
BatchIsSpooled == batch \subseteq spool /\ (ppc = "deleting" => batch = {})

\* Between the two statements of Spool.quarantine the copy exists.
CopiedIsQuarantined ==
  ppc = "copied" => \A r \in batch : NextRow(r) => r \in quarantined

\* The callback handles a message the broker still holds, and acks an outcome.
HandledIsHeld ==
  /\ ipc \in Handling => cur \in queue
  /\ ipc = "ack" => Outcome(cur.row)

\* Strengthens NoLoss and ProcessedOnce to what every step of the code preserves.
IndInv == /\ TypeOK /\ NoLoss /\ ConfirmedIsSafe /\ WaitingIsSafe
          /\ BatchIsSpooled /\ CopiedIsQuarantined /\ HandledIsHeld /\ ProcessedOnce

\* The path implements TelemetryDelivery: a row is held while the spool, paho's queue
\* or the broker's session has a copy of it.
Held == spool \cup {m.row : m \in out} \cup {m.row : m \in queue}
Delivery == INSTANCE TelemetryDelivery WITH held <- Held, refused <- Refused
DeliverySpec == Delivery!Spec
====
