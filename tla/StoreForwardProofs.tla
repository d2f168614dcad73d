------------------------- MODULE StoreForwardProofs -------------------------
(* Proofs that the store-and-forward path keeps its promises for any set of *)
(* payloads, any batch size, any broker limit and any number of faults.     *)
EXTENDS StoreForward, TLAPS

USE PayloadAssumption, BoundAssumption

\* What every step but Ack does to the facts Safe is made of: they only grow.
Grow ==
  /\ Rows \subseteq Rows' /\ \A r \in Rows : body'[r] = body[r]
  /\ queue \subseteq queue' /\ positions \subseteq positions'
  /\ quarantined \subseteq quarantined'
  /\ rejected \subseteq rejected' /\ discarded \subseteq discarded'

\* The broker's responsibility for a row survives every step that only adds to what is
\* queued, stored and refused.
LEMMA SafeGrows ==
  ASSUME Grow, NEW r \in Rows, Safe(r)
  PROVE  Safe(r)'
  BY DEF Grow, Safe, InQueue, Settled, Refused, KeyAt

\* Nothing is spooled, queued or stored before the first publish_position.
LEMMA InitIndInv == Init => IndInv
  <1> SUFFICES ASSUME Init PROVE IndInv
    OBVIOUS
  <1> USE DEF Init, Rows, NoMessage, NoRow, Message
  <1>1. body \in Seq(Payloads) /\ Len(body) = 0 /\ Rows = {}
    OBVIOUS
  <1>2. TypeOK
    <2>1. info \in Message /\ cur \in Message
      OBVIOUS
    <2>2. processed \in [Keys -> Nat] /\ faults \in 0 .. MaxFaults
      OBVIOUS
    <2>3. Len(body) <= MaxRows
      BY <1>1
    <2>4. /\ ppc \in {"idle", "pass", "copied", "waiting", "deleting"}
          /\ ipc \in {"down", "idle", "check", "register", "store", "raw", "ack", "dead"}
      OBVIOUS
    <2> HIDE DEF Message, NoMessage, Rows
    <2>5. /\ out \subseteq [id : 1 .. mids, row : Rows] /\ mids \in Nat
          /\ queue \subseteq [id : 1 .. msgs, row : Rows] /\ msgs \in Nat
          /\ pubacks \subseteq out
      OBVIOUS
    <2> QED
      BY <1>1, <2>1, <2>2, <2>3, <2>4, <2>5 DEF TypeOK
  <1>3. /\ NoLoss /\ ConfirmedIsSafe /\ WaitingIsSafe
        /\ BatchIsSpooled /\ CopiedIsQuarantined
    BY <1>1 DEF NoLoss, ConfirmedIsSafe, WaitingIsSafe, BatchIsSpooled, CopiedIsQuarantined
  <1>4. HandledIsHeld
    BY DEF HandledIsHeld, Handling
  <1>5. ProcessedOnce
    BY DEF ProcessedOnce
  <1> QED
    BY <1>2, <1>3, <1>4, <1>5 DEF IndInv

\* The messages the model handles are messages.
LEMMA MessageFacts == NoMessage \in Message /\ (TypeOK => queue \subseteq Message)
  BY DEF NoMessage, NoRow, Message, TypeOK, Rows

\* A fault stays within the budget.
LEMMA FaultFacts == TypeOK /\ Fault => faults' \in 0 .. MaxFaults
  BY DEF TypeOK, Fault

\* TypeOK is preserved by every step of the publisher.
LEMMA DrainType == IndInv /\ Drain => TypeOK'
  <1> SUFFICES ASSUME IndInv, Drain PROVE TypeOK'
    OBVIOUS
  <1> USE DEF IndInv, TypeOK, Rows, Message, NoMessage, NoRow, NextRow,
              spoolVars, pubVars, brokerVars, ingVars, dbVars, histVars
  <1>1. CASE DrainStart
    BY <1>1 DEF DrainStart
  <1>2. CASE Published
    BY <1>2 DEF Published, WaitingIsSafe
  <1>3. CASE NotPublished
    <2>1. faults' \in 0 .. MaxFaults
      BY <1>3 DEF NotPublished, Fault
    <2> QED
      BY <1>3, <2>1 DEF NotPublished
  <1>4. CASE PassDone
    BY <1>4 DEF PassDone
  <1>5. CASE DrainEnd
    BY <1>5 DEF DrainEnd
  <1>6. ASSUME NEW r \in Rows, QuarantineCopy(r) PROVE TypeOK'
    BY <1>6 DEF QuarantineCopy
  <1>7. ASSUME NEW r \in Rows, QuarantineDelete(r) PROVE TypeOK'
    BY <1>7 DEF QuarantineDelete
  <1>8. ASSUME NEW r \in Rows, Publish(r) PROVE TypeOK'
    <2>1. info' \in [id : 1 .. mids', row : Rows'] /\ mids' \in Nat /\ mids' = mids + 1
      BY <1>8 DEF Publish
    <2>2. out' \subseteq [id : 1 .. mids', row : Rows']
      BY <1>8, <2>1 DEF Publish
    <2>3. info' \in Message
      BY <1>8 DEF Publish
    <2> HIDE DEF Message
    <2> QED
      BY <1>8, <2>1, <2>2, <2>3 DEF Publish
  <1>9. ASSUME NEW r \in Rows, DeleteOne(r) PROVE TypeOK'
    BY <1>9 DEF DeleteOne
  <1> QED
    BY <1>1, <1>2, <1>3, <1>4, <1>5, <1>6, <1>7, <1>8, <1>9 DEF Drain

\* TypeOK is preserved by the broker and by the ingestor's callback.
LEMMA BrokerType == IndInv /\ Broker => TypeOK'
  <1> SUFFICES ASSUME IndInv, Broker PROVE TypeOK'
    OBVIOUS
  <1> USE DEF IndInv, TypeOK, Rows, spoolVars, pubVars, ingVars, dbVars, histVars
  <1>1. ASSUME NEW m \in out, BrokerAccept(m) PROVE TypeOK'
    <2>1. m.row \in Rows
      OBVIOUS
    <2>2. CASE session /\ Cardinality(queue) < MaxQueued
      <3>1. [id |-> msgs + 1, row |-> m.row] \in [id : 1 .. msgs', row : Rows']
        BY <1>1, <2>1, <2>2 DEF BrokerAccept
      <3>2. queue' \subseteq [id : 1 .. msgs', row : Rows'] /\ msgs' \in Nat
        BY <1>1, <2>2, <3>1 DEF BrokerAccept
      <3> QED
        BY <1>1, <2>2, <3>2 DEF BrokerAccept
    <2>3. CASE ~(session /\ Cardinality(queue) < MaxQueued)
      BY <1>1, <2>1, <2>3 DEF BrokerAccept
    <2> QED
      BY <2>2, <2>3
  <1>2. ASSUME NEW m \in out, PubAck(m) PROVE TypeOK'
    BY <1>2 DEF PubAck
  <1> QED
    BY <1>1, <1>2 DEF Broker

\* TypeOK is preserved by every step of the ingestor's network thread.
LEMMA IngestType == IndInv /\ Ingest => TypeOK'
  <1> SUFFICES ASSUME IndInv, Ingest PROVE TypeOK'
    OBVIOUS
  <1>m. NoMessage \in Message /\ queue \subseteq Message
    BY MessageFacts DEF IndInv
  <1> USE DEF IndInv, TypeOK, Rows, spoolVars, pubVars, brokerVars, dbVars, histVars
  <1>0. ipc \in Handling => cur.row \in Rows /\ KeyAt(cur.row) \in Keys
    BY DEF HandledIsHeld, KeyAt
  <1>1. CASE IngestorStart
    BY <1>1 DEF IngestorStart
  <1>2. CASE IngestorExit
    BY <1>2 DEF IngestorExit
  <1>3. CASE GiveUp
    BY <1>m, <1>3 DEF GiveUp
  <1>4. ASSUME NEW m \in queue, Deliver(m) PROVE TypeOK'
    BY <1>m, <1>4 DEF Deliver
  <1>5. CASE RejectFuture
    BY <1>0, <1>5 DEF RejectFuture, Handling
  <1>6. CASE PassChecks
    BY <1>6 DEF PassChecks
  <1>7. CASE CheckRegistered
    BY <1>0, <1>7 DEF CheckRegistered, Handling
  <1>8. CASE RegistrationRaises
    BY <1>m, <1>8 DEF RegistrationRaises
  <1>9. CASE StoreAndProcess
    <2>1. positions' \subseteq Keys /\ processed' \in [Keys -> Nat]
      BY <1>0, <1>9 DEF StoreAndProcess, Handling
    <2>2. faults' \in 0 .. MaxFaults /\ ipc' \in {"ack", "store"}
      BY <1>9 DEF StoreAndProcess, Answered, Fault
    <2> QED
      BY <1>9, <2>1, <2>2 DEF StoreAndProcess
  <1>10. CASE ProcessingFails
    BY <1>10 DEF ProcessingFails
  <1>11. CASE StoreRaw
    <2>1. positions' \subseteq Keys
      BY <1>0, <1>11 DEF StoreRaw, Handling
    <2>2. faults' \in 0 .. MaxFaults /\ ipc' \in {"ack", "raw"}
      BY <1>11 DEF StoreRaw, Answered, Fault
    <2> QED
      BY <1>11, <2>1, <2>2 DEF StoreRaw
  <1>12. CASE DropRaw
    BY <1>0, <1>12 DEF DropRaw, Handling
  <1>13. CASE Ack
    BY <1>m, <1>13 DEF Ack
  <1> QED
    BY <1>1, <1>2, <1>3, <1>4, <1>5, <1>6, <1>7, <1>8, <1>9, <1>10, <1>11, <1>12, <1>13
       DEF Ingest

\* TypeOK is preserved by every step.
LEMMA TypeStep == IndInv /\ [Next]_vars => TypeOK'
  <1> SUFFICES ASSUME IndInv, [Next]_vars PROVE TypeOK'
    OBVIOUS
  <1> USE DEF IndInv, TypeOK, Rows, spoolVars, pubVars, brokerVars, ingVars, dbVars, histVars
  <1>1. ASSUME NEW p \in Payloads, PublishPosition(p) PROVE TypeOK'
    <2>1. body' \in Seq(Payloads) /\ Len(body') = Len(body) + 1 /\ Len(body) \in Nat
      BY <1>1 DEF PublishPosition
    <2>2. Rows \subseteq Rows' /\ Len(body) + 1 \in Rows'
      BY <2>1
    <2>3. /\ out' \subseteq [id : 1 .. mids', row : Rows']
          /\ queue' \subseteq [id : 1 .. msgs', row : Rows']
      BY <1>1, <2>2 DEF PublishPosition
    <2>4. Len(body') <= MaxRows
      BY <1>1, <2>1 DEF PublishPosition
    <2> HIDE DEF Rows
    <2>5. spool' \subseteq Rows'
      BY <1>1, <2>2 DEF PublishPosition
    <2> QED
      BY <1>1, <2>1, <2>2, <2>3, <2>4, <2>5 DEF PublishPosition
  <1>2. CASE PublisherConnect
    BY <1>2 DEF PublisherConnect
  <1>3. CASE DbRestore
    BY <1>3 DEF DbRestore
  <1>4. CASE Failure
    <2>0. faults' \in 0 .. MaxFaults /\ NoMessage \in Message
      BY <1>4, FaultFacts, MessageFacts DEF Failure, PublisherDisconnect, PublisherCrash,
         BrokerRestart, IngestorReconnect, StopRequested, IngestorCrash, DbOutage
    <2>1. CASE PublisherDisconnect
      BY <2>0, <2>1 DEF PublisherDisconnect
    <2>2. CASE PublisherCrash
      BY <2>0, <2>2 DEF PublisherCrash
    <2>3. CASE BrokerRestart
      BY <2>0, <2>3 DEF BrokerRestart
    <2>4. CASE IngestorReconnect
      BY <2>0, <2>4 DEF IngestorReconnect
    <2>5. CASE StopRequested
      BY <2>0, <2>5 DEF StopRequested
    <2>6. CASE IngestorCrash
      BY <2>0, <2>6 DEF IngestorCrash
    <2>7. CASE DbOutage
      BY <2>0, <2>7 DEF DbOutage
    <2> QED
      BY <1>4, <2>1, <2>2, <2>3, <2>4, <2>5, <2>6, <2>7 DEF Failure
  <1>5. CASE UNCHANGED vars
    BY <1>5 DEF vars
  <1> QED
    BY <1>1, <1>2, <1>3, <1>4, <1>5, DrainType, BrokerType, IngestType DEF Next

\* The ingestor and the database leave the spool and the publisher alone.
LEMMA PublisherFrame ==
  ASSUME \/ Ingest \/ DbRestore \/ IngestorReconnect \/ StopRequested \/ IngestorCrash
         \/ DbOutage \/ UNCHANGED vars
  PROVE  UNCHANGED <<spoolVars, pubVars, pubacks, discarded>>
  <1> USE DEF vars, brokerVars, histVars
  <1>1. CASE Ingest
    BY <1>1 DEF Ingest, IngestorStart, IngestorExit, GiveUp, Deliver, RejectFuture, PassChecks,
       CheckRegistered, RegistrationRaises, StoreAndProcess, ProcessingFails, StoreRaw, DropRaw, Ack
  <1> QED
    BY <1>1 DEF DbRestore, IngestorReconnect, StopRequested, IngestorCrash, DbOutage

\* The publisher and the broker leave the ingestor and the database alone, and only add to
\* the session's queue.
LEMMA IngestorFrame ==
  ASSUME \/ \E p \in Payloads : PublishPosition(p)
         \/ PublisherConnect \/ Drain \/ Broker
         \/ PublisherDisconnect \/ PublisherCrash \/ BrokerRestart
  PROVE  /\ UNCHANGED <<ipc, cur, stop, dbVars, rejected, session>>
         /\ queue \subseteq queue'
  <1> USE DEF brokerVars, ingVars, histVars
  <1>1. CASE Drain
    BY <1>1 DEF Drain, DrainStart, Published, NotPublished, PassDone, DrainEnd, QuarantineCopy,
       QuarantineDelete, Publish, DeleteOne
  <1>2. CASE Broker
    BY <1>2 DEF Broker, BrokerAccept, PubAck
  <1> QED
    BY <1>1, <1>2 DEF PublishPosition, PublisherConnect, PublisherDisconnect, PublisherCrash,
       BrokerRestart

\* Only publish_position adds a row, and no step changes the payload of one.
LEMMA RowsGrow ==
  ASSUME IndInv, [Next]_vars
  PROVE  /\ Rows \subseteq Rows' /\ \A r \in Rows : body'[r] = body[r]
         /\ Rows' \ Rows \subseteq spool'
         /\ quarantined \subseteq quarantined' /\ discarded \subseteq discarded'
  <1>1. ASSUME NEW p \in Payloads, PublishPosition(p)
        PROVE  /\ Rows \subseteq Rows' /\ \A r \in Rows : body'[r] = body[r]
               /\ Rows' \ Rows \subseteq spool'
               /\ quarantined' = quarantined /\ discarded' = discarded
    BY <1>1 DEF PublishPosition, IndInv, TypeOK, Rows, histVars
  <1>2. CASE ~ \E p \in Payloads : PublishPosition(p)
    <2>1. CASE Drain
      BY <2>1 DEF Drain, DrainStart, Published, NotPublished, PassDone, DrainEnd, QuarantineCopy,
         QuarantineDelete, Publish, DeleteOne, Rows, spoolVars, histVars
    <2>2. CASE Broker
      BY <2>2 DEF Broker, BrokerAccept, PubAck, Rows, spoolVars, histVars
    <2>3. CASE PublisherConnect \/ PublisherDisconnect \/ PublisherCrash \/ BrokerRestart
      BY <2>3 DEF PublisherConnect, PublisherDisconnect, PublisherCrash, BrokerRestart, Rows,
         spoolVars, histVars
    <2>4. CASE \/ Ingest \/ DbRestore \/ IngestorReconnect \/ StopRequested \/ IngestorCrash
               \/ DbOutage \/ UNCHANGED vars
      BY <2>4, PublisherFrame DEF Rows, spoolVars
    <2> QED
      BY <1>2, <2>1, <2>2, <2>3, <2>4 DEF Next, Failure
  <1> QED
    BY <1>1, <1>2

\* What the ingestor has stored or refused stays so; a message leaves the queue only in Ack.
LEMMA StoreGrows ==
  ASSUME IndInv, [Next]_vars
  PROVE  /\ positions \subseteq positions' /\ rejected \subseteq rejected'
         /\ Ack \/ queue \subseteq queue'
  <1>1. CASE Ingest
    BY <1>1 DEF Ingest, IngestorStart, IngestorExit, GiveUp, Deliver, RejectFuture, PassChecks,
       CheckRegistered, RegistrationRaises, StoreAndProcess, ProcessingFails, StoreRaw, DropRaw,
       Ack, brokerVars, dbVars, histVars
  <1>2. CASE \/ \E p \in Payloads : PublishPosition(p)
             \/ PublisherConnect \/ Drain \/ Broker
             \/ PublisherDisconnect \/ PublisherCrash \/ BrokerRestart
    BY <1>2, IngestorFrame DEF dbVars
  <1>3. CASE DbRestore \/ IngestorReconnect \/ StopRequested \/ IngestorCrash \/ DbOutage
             \/ UNCHANGED vars
    BY <1>3 DEF DbRestore, IngestorReconnect, StopRequested, IngestorCrash, DbOutage, vars,
       brokerVars, dbVars, histVars
  <1> QED
    BY <1>1, <1>2, <1>3 DEF Next, Failure

\* An outcome is final.
LEMMA OutcomeStable ==
  ASSUME IndInv, [Next]_vars, NEW r \in Rows, Outcome(r)
  PROVE  Outcome(r)'
  BY RowsGrow, StoreGrows DEF Outcome, KeyAt

\* No step drops the broker's responsibility for a row.
LEMMA SafeStable ==
  ASSUME IndInv, [Next]_vars, NEW r \in Rows, Safe(r)
  PROVE  Safe(r)'
  <1>1. CASE ~Ack
    BY <1>1, RowsGrow, StoreGrows, SafeGrows DEF Grow
  <1>2. CASE Ack
    <2>1. Settled(r) => Settled(r)'
      BY RowsGrow, StoreGrows DEF Settled, Refused, KeyAt
    <2>2. ASSUME NEW m \in queue, m.row = r PROVE Safe(r)'
      <3>1. CASE m \in queue'
        BY <2>2, <3>1 DEF Safe, InQueue
      <3>2. CASE m \notin queue'
        <4>1. m = cur /\ Outcome(r)
          BY <1>2, <2>2, <3>2 DEF Ack, IndInv, HandledIsHeld
        <4> QED
          BY <4>1, OutcomeStable DEF Outcome, Safe, Settled, Refused
      <3> QED
        BY <3>1, <3>2
    <2> QED
      BY <2>1, <2>2 DEF Safe, InQueue
  <1> QED
    BY <1>1, <1>2

\* A row leaves the spool only after the broker took it or its quarantine copy exists.
LEMMA SpoolShrinksSafely ==
  ASSUME IndInv, [Next]_vars, NEW r \in spool, r \notin spool'
  PROVE  Safe(r)
  <1>1. ASSUME NEW q \in Rows, DeleteOne(q) PROVE Safe(r)
    BY <1>1 DEF DeleteOne, IndInv, ConfirmedIsSafe
  <1>2. ASSUME NEW q \in Rows, QuarantineDelete(q) PROVE Safe(r)
    BY <1>2 DEF QuarantineDelete, NextRow, IndInv, CopiedIsQuarantined, Safe, Settled, Refused
  <1>3. CASE Drain
    BY <1>1, <1>2, <1>3 DEF Drain, DrainStart, Published, NotPublished, PassDone, DrainEnd,
       QuarantineCopy, Publish, spoolVars
  <1>4. CASE Broker
    BY <1>4 DEF Broker, BrokerAccept, PubAck, spoolVars
  <1>5. CASE PublisherConnect \/ PublisherDisconnect \/ PublisherCrash \/ BrokerRestart
    BY <1>5 DEF PublisherConnect, PublisherDisconnect, PublisherCrash, BrokerRestart, spoolVars
  <1>6. CASE \E p \in Payloads : PublishPosition(p)
    BY <1>6 DEF PublishPosition
  <1>7. CASE \/ Ingest \/ DbRestore \/ IngestorReconnect \/ StopRequested \/ IngestorCrash
             \/ DbOutage \/ UNCHANGED vars
    BY <1>7, PublisherFrame DEF spoolVars
  <1> QED
    BY <1>3, <1>4, <1>5, <1>6, <1>7 DEF Next, Failure

\* NoLoss is preserved: a row that leaves the spool is the broker's, and what the broker
\* holds stays safe.
LEMMA NoLossStep == IndInv /\ [Next]_vars => NoLoss'
  <1> SUFFICES ASSUME IndInv, [Next]_vars, NEW r \in Rows' PROVE (r \in spool \/ Safe(r))'
    BY DEF NoLoss, Safe
  <1>1. CASE r \notin Rows
    BY <1>1, RowsGrow
  <1>2. CASE r \in Rows
    <2>1. r \in spool \/ Safe(r)
      BY <1>2 DEF IndInv, NoLoss, Safe
    <2> QED
      BY <1>2, <2>1, SafeStable, SpoolShrinksSafely
  <1> QED
    BY <1>1, <1>2

\* A PUBACK in flight, and a row the drain counts as done, is the broker's or settled.
LEMMA ConfirmedStep == IndInv /\ [Next]_vars => ConfirmedIsSafe'
  <1> SUFFICES ASSUME IndInv, [Next]_vars PROVE ConfirmedIsSafe'
    OBVIOUS
  <1>0. /\ \A m \in pubacks : Safe(m.row)'
        /\ \A r \in done : Safe(r)'
    BY SafeStable DEF IndInv, TypeOK, ConfirmedIsSafe
  <1>1. CASE Drain
    <2>1. CASE Published
      <3>1. info.row \in Rows /\ Safe(info.row)
        BY <2>1 DEF Published, IndInv, WaitingIsSafe
      <3> QED
        BY <1>0, <2>1, <3>1, SafeStable DEF Published, ConfirmedIsSafe, brokerVars
    <2> QED
      BY <1>0, <1>1, <2>1 DEF Drain, DrainStart, NotPublished, PassDone, DrainEnd, QuarantineCopy,
         QuarantineDelete, Publish, DeleteOne, ConfirmedIsSafe, brokerVars
  <1>2. CASE Broker
    <2>1. ASSUME NEW m \in out, BrokerAccept(m) PROVE ConfirmedIsSafe'
      <3>1. InQueue(m.row)' \/ m.row \in discarded'
        <4>1. CASE session /\ Cardinality(queue) < MaxQueued
          <5>1. [id |-> msgs + 1, row |-> m.row] \in queue'
            BY <2>1, <4>1 DEF BrokerAccept
          <5> QED
            BY <5>1 DEF InQueue
        <4>2. CASE ~(session /\ Cardinality(queue) < MaxQueued)
          BY <2>1, <4>2 DEF BrokerAccept
        <4> QED
          BY <4>1, <4>2
      <3>2. Safe(m.row)'
        BY <3>1 DEF Safe, Settled, Refused
      <3> QED
        BY <1>0, <2>1, <3>2 DEF BrokerAccept, ConfirmedIsSafe, pubVars
    <2>2. ASSUME NEW m \in out, PubAck(m) PROVE ConfirmedIsSafe'
      BY <1>0, <2>2 DEF PubAck, ConfirmedIsSafe
    <2> QED
      BY <1>2, <2>1, <2>2 DEF Broker
  <1>3. CASE \/ PublisherConnect \/ PublisherDisconnect \/ PublisherCrash \/ BrokerRestart
             \/ \E p \in Payloads : PublishPosition(p)
    BY <1>0, <1>3 DEF PublisherConnect, PublisherDisconnect, PublisherCrash, BrokerRestart,
       PublishPosition, ConfirmedIsSafe, pubVars, brokerVars
  <1>4. CASE \/ Ingest \/ DbRestore \/ IngestorReconnect \/ StopRequested \/ IngestorCrash
             \/ DbOutage \/ UNCHANGED vars
    BY <1>0, <1>4, PublisherFrame DEF ConfirmedIsSafe, pubVars
  <1> QED
    BY <1>1, <1>2, <1>3, <1>4 DEF Next, Failure

\* The message the drain waits for is still with paho, or its row is safe (is_published).
LEMMA WaitingStep == IndInv /\ [Next]_vars => WaitingIsSafe'
  <1> SUFFICES ASSUME IndInv, [Next]_vars, ppc' = "waiting"
               PROVE  /\ info'.row \in Rows' /\ info'.id \in 1 .. mids'
                      /\ info' \in out' \/ Safe(info.row)'
    BY DEF WaitingIsSafe
  <1> DEFINE Kept == ppc = "waiting" /\ UNCHANGED <<info, mids>>
  <1>0. ASSUME Kept, out \subseteq out'
        PROVE  /\ info'.row \in Rows' /\ info'.id \in 1 .. mids'
               /\ info' \in out' \/ Safe(info.row)'
    <2>1. info.row \in Rows /\ info.id \in 1 .. mids /\ (info \in out \/ Safe(info.row))
      BY <1>0 DEF IndInv, WaitingIsSafe
    <2>2. Safe(info.row) => Safe(info.row)'
      BY <1>0, <2>1, SafeStable DEF Safe, InQueue, Settled, KeyAt, Refused
    <2> QED
      BY <1>0, <2>1, <2>2, RowsGrow
  <1>1. CASE Drain
    <2>1. ASSUME NEW r \in Rows, Publish(r)
          PROVE  /\ info'.row \in Rows' /\ info'.id \in 1 .. mids' /\ info' \in out'
      BY <2>1, RowsGrow DEF Publish, IndInv, TypeOK
    <2> QED
      BY <1>1, <2>1 DEF Drain, DrainStart, Published, NotPublished, PassDone, DrainEnd,
         QuarantineCopy, QuarantineDelete, DeleteOne
  <1>2. CASE Broker
    <2>1. ASSUME NEW m \in out, BrokerAccept(m) PROVE Kept /\ out' = out
      BY <2>1 DEF BrokerAccept, pubVars
    <2>2. ASSUME NEW m \in out, PubAck(m)
          PROVE  /\ info'.row \in Rows' /\ info'.id \in 1 .. mids'
                 /\ info' \in out' \/ Safe(info.row)'
      <3>1. Kept /\ out' = out \ {m} /\ m \in pubacks
        BY <2>2 DEF PubAck
      <3>2. info.row \in Rows /\ info.id \in 1 .. mids /\ (info \in out \/ Safe(info.row))
        BY <3>1 DEF IndInv, WaitingIsSafe
      <3>3. Safe(m.row)
        BY <3>1 DEF IndInv, ConfirmedIsSafe
      <3>4. info' \in out' \/ Safe(info.row)
        BY <3>1, <3>2, <3>3
      <3>5. Safe(info.row) => (Safe(info.row))'
        BY <3>1, <3>2, SafeStable DEF Safe, InQueue, Settled, KeyAt, Refused
      <3> QED
        BY <3>1, <3>2, <3>4, <3>5, RowsGrow
    <2> QED
      BY <1>0, <1>2, <2>1, <2>2 DEF Broker
  <1>3. CASE \/ PublisherConnect \/ PublisherDisconnect \/ PublisherCrash \/ BrokerRestart
             \/ \E p \in Payloads : PublishPosition(p)
    <2>1. Kept /\ out' = out
      BY <1>3 DEF PublisherConnect, PublisherDisconnect, PublisherCrash, BrokerRestart,
         PublishPosition, pubVars
    <2> QED
      BY <1>0, <2>1
  <1>4. CASE \/ Ingest \/ DbRestore \/ IngestorReconnect \/ StopRequested \/ IngestorCrash
             \/ DbOutage \/ UNCHANGED vars
    BY <1>0, <1>4, PublisherFrame DEF pubVars
  <1> QED
    BY <1>1, <1>2, <1>3, <1>4 DEF Next, Failure

\* The rows a pass has still to look at stay in the spool: only the drain deletes rows.
LEMMA BatchStep == IndInv /\ [Next]_vars => BatchIsSpooled'
  <1> SUFFICES ASSUME IndInv, [Next]_vars PROVE BatchIsSpooled'
    OBVIOUS
  <1> USE DEF BatchIsSpooled
  <1>1. CASE Drain
    BY <1>1 DEF IndInv, Drain, DrainStart, Published, NotPublished, PassDone, DrainEnd,
       QuarantineCopy, QuarantineDelete, Publish, DeleteOne, Peeked, spoolVars
  <1>2. CASE Broker
    BY <1>2 DEF IndInv, Broker, BrokerAccept, PubAck, spoolVars, pubVars
  <1>3. CASE \/ PublisherConnect \/ PublisherDisconnect \/ PublisherCrash \/ BrokerRestart
             \/ \E p \in Payloads : PublishPosition(p)
    BY <1>3 DEF IndInv, PublisherConnect, PublisherDisconnect, PublisherCrash, BrokerRestart,
       PublishPosition, spoolVars, pubVars
  <1>4. CASE \/ Ingest \/ DbRestore \/ IngestorReconnect \/ StopRequested \/ IngestorCrash
             \/ DbOutage \/ UNCHANGED vars
    BY <1>4, PublisherFrame DEF IndInv, spoolVars, pubVars
  <1> QED
    BY <1>1, <1>2, <1>3, <1>4 DEF Next, Failure

\* Between the statements of Spool.quarantine the row's copy exists.
LEMMA CopiedStep == IndInv /\ [Next]_vars => CopiedIsQuarantined'
  <1> SUFFICES ASSUME IndInv, [Next]_vars PROVE CopiedIsQuarantined'
    OBVIOUS
  <1>0. ASSUME UNCHANGED <<ppc, batch>> PROVE CopiedIsQuarantined'
    BY <1>0, RowsGrow DEF IndInv, CopiedIsQuarantined, NextRow
  <1>1. CASE Drain
    <2>1. ASSUME NEW r \in Rows, QuarantineCopy(r) PROVE CopiedIsQuarantined'
      <3>1. ASSUME NEW q \in batch, NextRow(q) PROVE q = r
        BY <2>1, <3>1 DEF QuarantineCopy, NextRow, IndInv, TypeOK, Rows
      <3> QED
        BY <2>1, <3>1 DEF QuarantineCopy, CopiedIsQuarantined, NextRow
    <2>2. ASSUME NEW r \in Rows, DeleteOne(r) PROVE CopiedIsQuarantined'
      BY <1>0, <2>2 DEF DeleteOne
    <2> QED
      BY <1>1, <2>1, <2>2 DEF Drain, DrainStart, Published, NotPublished, PassDone, DrainEnd,
         QuarantineDelete, Publish, CopiedIsQuarantined
  <1>2. CASE Broker
    BY <1>0, <1>2 DEF Broker, BrokerAccept, PubAck, pubVars
  <1>3. CASE PublisherCrash
    BY <1>3 DEF PublisherCrash, CopiedIsQuarantined
  <1>4. CASE \/ PublisherConnect \/ PublisherDisconnect \/ BrokerRestart
             \/ \E p \in Payloads : PublishPosition(p)
    BY <1>0, <1>4 DEF PublisherConnect, PublisherDisconnect, BrokerRestart, PublishPosition, pubVars
  <1>5. CASE \/ Ingest \/ DbRestore \/ IngestorReconnect \/ StopRequested \/ IngestorCrash
             \/ DbOutage \/ UNCHANGED vars
    BY <1>0, <1>5, PublisherFrame DEF pubVars
  <1> QED
    BY <1>1, <1>2, <1>3, <1>4, <1>5 DEF Next, Failure

\* The callback handles a message the broker still holds and acks only an outcome.
LEMMA HandledStep == IndInv /\ [Next]_vars => HandledIsHeld'
  <1> SUFFICES ASSUME IndInv, [Next]_vars PROVE HandledIsHeld'
    OBVIOUS
  <1>0. ASSUME UNCHANGED <<ipc, cur>>, queue \subseteq queue' PROVE HandledIsHeld'
    <2>1. ipc = "ack" => cur.row \in Rows /\ Outcome(cur.row)
      BY DEF IndInv, TypeOK, HandledIsHeld, Handling
    <2>2. ipc = "ack" => (Outcome(cur.row))'
      BY <1>0, <2>1, OutcomeStable DEF Outcome, KeyAt
    <2> QED
      BY <1>0, <2>2 DEF IndInv, HandledIsHeld
  <1>1. CASE Ingest
    <2>0. ipc \in Handling => cur \in queue
      BY DEF IndInv, HandledIsHeld
    <2>1. CASE IngestorStart \/ IngestorExit \/ GiveUp \/ RegistrationRaises \/ Ack
      BY <2>1 DEF IngestorStart, IngestorExit, GiveUp, RegistrationRaises, Ack, HandledIsHeld,
         Handling
    <2>2. ASSUME NEW m \in queue, Deliver(m) PROVE HandledIsHeld'
      BY <2>2 DEF Deliver, HandledIsHeld, brokerVars
    <2>3. CASE RejectFuture \/ CheckRegistered \/ DropRaw
      BY <2>0, <2>3 DEF RejectFuture, CheckRegistered, DropRaw, HandledIsHeld, Handling, Outcome,
         brokerVars
    <2>4. CASE PassChecks \/ ProcessingFails
      BY <2>0, <2>4 DEF PassChecks, ProcessingFails, HandledIsHeld, Handling, brokerVars
    <2>5. CASE StoreAndProcess \/ StoreRaw
      <3>1. KeyAt(cur.row) \in positions' /\ UNCHANGED <<body, cur, queue>>
            /\ ipc \in Handling /\ ipc' \in {"ack", "store", "raw"}
        BY <2>5 DEF StoreAndProcess, StoreRaw, Answered, spoolVars, brokerVars, Handling
      <3>2. (Outcome(cur.row))'
        BY <3>1 DEF Outcome, KeyAt
      <3> QED
        BY <2>0, <3>1, <3>2 DEF HandledIsHeld, Handling
    <2> QED
      BY <1>1, <2>1, <2>2, <2>3, <2>4, <2>5 DEF Ingest
  <1>2. CASE \/ \E p \in Payloads : PublishPosition(p)
             \/ PublisherConnect \/ Drain \/ Broker
             \/ PublisherDisconnect \/ PublisherCrash \/ BrokerRestart
    BY <1>0, <1>2, IngestorFrame
  <1>3. CASE DbRestore \/ IngestorReconnect \/ StopRequested \/ DbOutage \/ UNCHANGED vars
    BY <1>0, <1>3 DEF DbRestore, IngestorReconnect, StopRequested, DbOutage, vars, brokerVars,
       ingVars
  <1>4. CASE IngestorCrash
    BY <1>4 DEF IngestorCrash, HandledIsHeld, Handling
  <1> QED
    BY <1>1, <1>2, <1>3, <1>4 DEF Next, Failure

\* A fix that has been processed has been stored, in the same transaction, and is then a
\* duplicate for good.
LEMMA ProcessedStep == IndInv /\ [Next]_vars => ProcessedOnce'
  <1> SUFFICES ASSUME IndInv, [Next]_vars PROVE ProcessedOnce'
    OBVIOUS
  <1>0. ASSUME UNCHANGED processed, positions \subseteq positions' PROVE ProcessedOnce'
    BY <1>0 DEF IndInv, TypeOK, ProcessedOnce
  <1>1. CASE StoreAndProcess
    <2> DEFINE k == KeyAt(cur.row)
    <2>1. k \in Keys
      BY <1>1 DEF StoreAndProcess, IndInv, TypeOK, HandledIsHeld, Handling, KeyAt, Rows
    <2>2. CASE k \in positions
      BY <1>0, <1>1, <2>2 DEF StoreAndProcess
    <2>3. CASE k \notin positions
      <3>1. processed[k] = 0 /\ processed' = [processed EXCEPT ![k] = processed[k] + 1]
            /\ positions' = positions \cup {k}
        BY <1>1, <2>1, <2>3 DEF StoreAndProcess, IndInv, TypeOK, ProcessedOnce
      <3> HIDE DEF k
      <3> QED
        BY <2>1, <3>1 DEF IndInv, TypeOK, ProcessedOnce
    <2> QED
      BY <2>2, <2>3
  <1>2. CASE ~StoreAndProcess
    <2>1. ASSUME Ingest PROVE UNCHANGED processed
      BY <1>2, <2>1 DEF Ingest, IngestorStart, IngestorExit, GiveUp, Deliver, RejectFuture,
         PassChecks, CheckRegistered, RegistrationRaises, ProcessingFails, StoreRaw, DropRaw, Ack,
         dbVars
    <2>2. ASSUME \/ \E p \in Payloads : PublishPosition(p)
                 \/ PublisherConnect \/ Drain \/ Broker
                 \/ PublisherDisconnect \/ PublisherCrash \/ BrokerRestart
          PROVE  UNCHANGED processed
      BY <2>2, IngestorFrame DEF dbVars
    <2>3. ASSUME \/ DbRestore \/ IngestorReconnect \/ StopRequested \/ IngestorCrash
                 \/ DbOutage \/ UNCHANGED vars
          PROVE  UNCHANGED processed
      BY <2>3 DEF DbRestore, IngestorReconnect, StopRequested, IngestorCrash, DbOutage, vars,
         dbVars
    <2>4. UNCHANGED processed
      BY <2>1, <2>2, <2>3 DEF Next, Failure
    <2> QED
      BY <1>0, <2>4, StoreGrows
  <1> QED
    BY <1>1, <1>2

\* IndInv holds of every reachable state: Init establishes it, every step keeps it.
THEOREM Invariance == Spec => []IndInv
  <1>1. IndInv /\ [Next]_vars => IndInv'
    BY TypeStep, NoLossStep, ConfirmedStep, WaitingStep, BatchStep, CopiedStep, HandledStep, ProcessedStep
       DEF IndInv
  <1> QED
    BY InitIndInv, <1>1, PTL DEF Spec

\* Type correctness.
THEOREM TypeCorrect == Spec => []TypeOK
  <1>1. IndInv => TypeOK
    BY DEF IndInv
  <1> QED
    BY <1>1, Invariance, PTL

\* No position handed to publish_position is lost, for any number of rows and faults.
THEOREM NothingLost == Spec => []NoLoss
  <1>1. IndInv => NoLoss
    BY DEF IndInv
  <1> QED
    BY <1>1, Invariance, PTL

\* Live rules run at most once on a fix, however often it is delivered.
THEOREM RulesRunOnce == Spec => []ProcessedOnce
  <1>1. IndInv => ProcessedOnce
    BY DEF IndInv
  <1> QED
    BY <1>1, Invariance, PTL

\* The ingestor acknowledges a message only once its outcome is final.
THEOREM AcksAreFinal == Spec => AckOnlyWhenFinal
  <1> DEFINE A == \A m \in queue \ queue' : KeyAt(m.row) \in positions' \/ m.row \in rejected'
  <1>1. IndInv /\ [Next]_vars => [A]_vars
    <2> SUFFICES ASSUME IndInv, [Next]_vars, NEW m \in queue \ queue'
                 PROVE  KeyAt(m.row) \in positions' \/ m.row \in rejected'
      OBVIOUS
    <2>1. Ack
      BY StoreGrows
    <2>2. m = cur /\ Outcome(m.row)
      BY <2>1 DEF Ack, IndInv, HandledIsHeld
    <2> QED
      BY <2>2, StoreGrows DEF Outcome
  <1> QED
    BY <1>1, Invariance, PTL DEF Spec, AckOnlyWhenFinal

-----------------------------------------------------------------------------
(* The refinement: every step is a step of TelemetryDelivery or a stutter. *)

\* A step that stores, refuses and accepts nothing may only let go of copies of rows
\* that have their outcome, since NoLoss holds after it.
LEMMA LetGo ==
  ASSUME IndInv, NoLoss', UNCHANGED <<body, Refused, positions>>, Held' \subseteq Held,
         Held \subseteq Rows
  PROVE  [Delivery!Next]_(Delivery!vars)
  <1> DEFINE S == Held \ Held'
  <1>1. ASSUME NEW r \in S PROVE Delivery!Final(r)
    <2>1. r \in Rows' /\ r \notin spool' /\ ~InQueue(r)'
      BY <1>1 DEF Held, InQueue, Rows
    <2>2. Settled(r)'
      BY <2>1 DEF NoLoss
    <2> QED
      BY <2>2 DEF Settled, KeyAt, Delivery!Final
  <1>2. CASE S = {}
    BY <1>2 DEF Delivery!vars
  <1>3. CASE S # {}
    <2>1. Delivery!Release(S)
      BY <1>1, <1>3 DEF Delivery!Release
    <2>2. S \in SUBSET Held
      OBVIOUS
    <2> QED
      BY <2>1, <2>2 DEF Delivery!Next
  <1> QED
    BY <1>2, <1>3

\* Every step maps to a step of the abstract specification.
LEMMA DeliveryStep == IndInv /\ IndInv' /\ [Next]_vars => [Delivery!Next]_(Delivery!vars)
  <1> SUFFICES ASSUME IndInv, IndInv', [Next]_vars PROVE [Delivery!Next]_(Delivery!vars)
    OBVIOUS
  <1>h. Held \subseteq Rows
    BY DEF IndInv, TypeOK, Held
  <1>n. NoLoss'
    BY DEF IndInv
  <1>c. ipc \in Handling => cur.row \in Held
    BY DEF IndInv, HandledIsHeld, Held
  <1> HIDE DEF IndInv
  <1>1. ASSUME NEW p \in Payloads, PublishPosition(p) PROVE [Delivery!Next]_(Delivery!vars)
    <2>1. Held' = Held \cup {Len(body) + 1} /\ Refused' = Refused /\ UNCHANGED positions
      BY <1>1 DEF PublishPosition, Held, Refused, pubVars, brokerVars, histVars, dbVars
    <2>2. Delivery!Accept(p)
      BY <1>1, <2>1 DEF PublishPosition, Delivery!Accept
    <2> QED
      BY <2>2 DEF Delivery!Next
  <1>2. ASSUME NEW r \in Rows, QuarantineCopy(r) PROVE [Delivery!Next]_(Delivery!vars)
    <2>1. Held' = Held /\ Refused' = Refused \cup {r} /\ UNCHANGED <<body, positions>>
      BY <1>2 DEF QuarantineCopy, Held, Refused, brokerVars, histVars, dbVars
    <2>2. r \in Held
      BY <1>2 DEF QuarantineCopy, NextRow, IndInv, BatchIsSpooled, Held
    <2> QED
      BY <2>1, <2>2 DEF Delivery!Refuse, Delivery!Next
  <1>3. ASSUME NEW r \in Rows, QuarantineDelete(r) \/ Publish(r) \/ DeleteOne(r)
        PROVE  [Delivery!Next]_(Delivery!vars)
    <2>1. Held' \subseteq Held
      BY <1>3 DEF QuarantineDelete, Publish, DeleteOne, Held, NextRow, IndInv, BatchIsSpooled,
         spoolVars, brokerVars
    <2>2. UNCHANGED <<body, Refused, positions>>
      BY <1>3 DEF QuarantineDelete, Publish, DeleteOne, Refused, spoolVars, histVars, dbVars
    <2> QED
      BY <1>h, <1>n, <2>1, <2>2, LetGo
  <1>4. ASSUME NEW m \in out, BrokerAccept(m) PROVE [Delivery!Next]_(Delivery!vars)
    <2>0. m.row \in Held
      BY DEF Held
    <2>1. CASE session /\ Cardinality(queue) < MaxQueued
      <3>1. Held' = Held
        BY <1>4, <2>0, <2>1 DEF BrokerAccept, Held, spoolVars, pubVars
      <3> QED
        BY <1>4, <2>1, <3>1 DEF BrokerAccept, Refused, Delivery!vars, spoolVars, dbVars
    <2>2. CASE ~(session /\ Cardinality(queue) < MaxQueued)
      <3>1. Held' = Held
        BY <1>4, <2>2 DEF BrokerAccept, Held, spoolVars, pubVars
      <3>2. Refused' = Refused \cup {m.row} /\ UNCHANGED <<body, positions>>
        BY <1>4, <2>2 DEF BrokerAccept, Refused, spoolVars, dbVars
      <3> QED
        BY <2>0, <3>1, <3>2 DEF Delivery!Refuse, Delivery!Next
    <2> QED
      BY <2>1, <2>2
  <1>5. CASE RejectFuture \/ DropRaw \/ CheckRegistered
    <2>1. ipc \in Handling /\ Held' = Held /\ UNCHANGED <<body, positions>>
      BY <1>5 DEF RejectFuture, DropRaw, CheckRegistered, Held, Handling, spoolVars, pubVars,
         brokerVars, dbVars
    <2>2. Refused' = Refused \/ Refused' = Refused \cup {cur.row}
      BY <1>5 DEF RejectFuture, DropRaw, CheckRegistered, Refused, spoolVars
    <2> QED
      BY <1>c, <2>1, <2>2 DEF Delivery!Refuse, Delivery!Next, Delivery!vars
  <1>6. CASE StoreAndProcess \/ StoreRaw
    <2>1. /\ ipc \in Handling /\ Held' = Held /\ UNCHANGED <<body, Refused>>
          /\ positions' = positions \cup {KeyOf[body[cur.row]]}
      BY <1>6 DEF StoreAndProcess, StoreRaw, Held, Handling, Refused, KeyAt, spoolVars, pubVars,
         brokerVars, histVars
    <2> QED
      BY <1>c, <2>1 DEF Delivery!Store, Delivery!Next
  <1>7. ASSUME \/ \E m \in out : PubAck(m)
               \/ DrainStart \/ Published \/ NotPublished \/ PassDone \/ DrainEnd
               \/ PublisherConnect \/ PublisherDisconnect \/ PublisherCrash \/ BrokerRestart
               \/ IngestorStart \/ IngestorExit \/ GiveUp \/ PassChecks \/ RegistrationRaises
               \/ ProcessingFails \/ Ack \/ \E m \in queue : Deliver(m)
               \/ IngestorReconnect \/ StopRequested \/ IngestorCrash \/ DbOutage
               \/ DbRestore \/ UNCHANGED vars
        PROVE  [Delivery!Next]_(Delivery!vars)
    <2>1. UNCHANGED <<spoolVars, positions, histVars>> /\ out' \subseteq out /\ queue' \subseteq queue
      BY <1>7 DEF PubAck, DrainStart, Published, NotPublished, PassDone, DrainEnd,
         PublisherConnect, PublisherDisconnect, PublisherCrash, BrokerRestart, IngestorStart,
         IngestorExit, GiveUp, PassChecks, RegistrationRaises, ProcessingFails, Ack, Deliver,
         IngestorReconnect, StopRequested, IngestorCrash, DbOutage, DbRestore, vars, pubVars,
         brokerVars, dbVars
    <2>2. UNCHANGED <<body, Refused, positions>> /\ Held' \subseteq Held
      BY <2>1 DEF Refused, Held, spoolVars, histVars
    <2> QED
      BY <1>h, <1>n, <2>2, LetGo
  <1> QED
    BY <1>1, <1>2, <1>3, <1>4, <1>5, <1>6, <1>7 DEF Next, Drain, Broker, Ingest, Failure

\* The publisher, the broker and the ingestor together implement TelemetryDelivery.
THEOREM Refinement == Spec => DeliverySpec
  <1>1. Init => Delivery!Init
    BY DEF Init, Delivery!Init, Held, Refused
  <1> QED
    BY <1>1, DeliveryStep, Invariance, PTL DEF Spec, DeliverySpec, Delivery!Spec
=============================================================================
