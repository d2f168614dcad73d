------------------------------- MODULE Imports -------------------------------
(***************************************************************************)
(* Write-once operational records imported by people: weigh tickets        *)
(* (weighbridge/), material measurements (reconciliation/), assay results  *)
(* (laboratory/, ingest/adapters/spectraa.py) and generator readings       *)
(* (generator/).  A request carries one record or a CSV of them, runs in   *)
(* one transaction, and may race another request for the same key.         *)
(*                                                                         *)
(* The sessions do not flush before queries (storage/db.py): rows added    *)
(* reach the database when an alarm opens a savepoint, or at commit.  A    *)
(* key inserted by a transaction that has not ended makes another insert   *)
(* wait; a key committed makes it fail, and with it the request.           *)
(*                                                                         *)
(* A behaviour is about one register.  An item has a key, and a content    *)
(* that is plain, odd (outside its bounds, a fault) or malformed.          *)
(***************************************************************************)
EXTENDS Naturals, Sequences, SequencesExt, FiniteSets, Functions

CONSTANTS
  Importers,        \* requests in flight
  ImportKeys,       \* ticket numbers, result ids, ...
  ImportContents,   \* contents of a record; "odd" and "malformed" are special
  MaxRows,          \* rows of a CSV
  MaxImports        \* requests in a behaviour

ASSUME ImportAssumption == MaxRows \in Nat

VARIABLES
  impRegister,      \* "ticket", "measurement", "result" or "reading"
  impRows,          \* committed rows: key -> content
  impAlarms,        \* committed events with deterministic ids: [key, about]
  impReq,           \* the requests (gone: keys retention deleted while they ran)
  impLeft,          \* requests still to come
  impAnswered,      \* items of requests answered with success
  impRaised         \* alarms ever committed

impVars == <<impRegister, impRows, impAlarms, impReq, impLeft, impAnswered, impRaised>>

ImportItems == [key : ImportKeys, content : ImportContents]
Csv(register) == register \in {"ticket", "result"}
Batches == UNION {[1 .. n -> ImportItems] : n \in 1 .. (IF Csv(impRegister) THEN MaxRows ELSE 1)}
NoEvent == [key |-> "none", about |-> "none"]
IdleRequest == [busy |-> FALSE, batch |-> <<>>, done |-> 0, adds |-> <<>>, written |-> <<>>,
                event |-> NoEvent, events |-> {}, gone |-> {}]

ImportInit ==
  /\ impRegister \in {"ticket", "measurement", "result", "reading"}
  /\ impRows = <<>> /\ impAlarms = {}
  /\ impReq = [r \in Importers |-> IdleRequest]
  /\ impLeft = MaxImports
  /\ impAnswered = {} /\ impRaised = {}

-----------------------------------------------------------------------------
(* What a request sees and holds. *)

Others(r) == {s \in Importers \ {r} : impReq[s].busy}
KeysOf(rows) == {x.key : x \in ToSet(rows)}
SeenByRequest(r) == DOMAIN impRows \cup KeysOf(impReq[r].written)
ContentSeen(r, k) == IF k \in DOMAIN impRows THEN impRows[k]
                     ELSE (CHOOSE x \in ToSet(impReq[r].written) : x.key = k).content

(* Rows about to be inserted wait for a transaction that inserted their key ... *)
RowsWait(r) == \E s \in Others(r) : KeysOf(impReq[r].adds) \cap KeysOf(impReq[s].written) # {}
(* ... and fail on a key that is there, or is in the request twice. *)
RowsCollide(r) == \/ KeysOf(impReq[r].adds) \cap SeenByRequest(r) # {}
                  \/ Cardinality(KeysOf(impReq[r].adds)) < Len(impReq[r].adds)

EndRequest(r) == impReq' = [impReq EXCEPT ![r] = IdleRequest]

(* The request's transaction rolls back: 400, or 500 on a collision. *)
Abort(r) ==
  /\ EndRequest(r)
  /\ UNCHANGED <<impRegister, impRows, impAlarms, impLeft, impAnswered, impRaised>>

Submit(r, batch) ==
  /\ ~impReq[r].busy /\ impLeft > 0
  /\ impLeft' = impLeft - 1
  /\ impReq' = [impReq EXCEPT ![r] = [IdleRequest EXCEPT !.busy = TRUE, !.batch = batch]]
  /\ UNCHANGED <<impRegister, impRows, impAlarms, impAnswered, impRaised>>

-----------------------------------------------------------------------------
(* Recording. *)

(* record_result: a stored result sent again with another original. *)
Diverges(r, x) == impRegister = "result" /\ ContentSeen(r, x.key) # x.content

(* check_anomaly, and the fault alarm of record_reading. *)
Alarming(x) == impRegister \in {"result", "reading"} /\ x.content = "odd"

(* The row an item adds: none for one that is there already. *)
RowFor(r, x) == IF x.key \in SeenByRequest(r) THEN <<>> ELSE <<x>>

(* The alarm an item asks for, if its event is not there yet. *)
AlarmFor(r, x) ==
  LET e == IF x.key \notin SeenByRequest(r)
           THEN (IF Alarming(x) THEN [key |-> x.key, about |-> "odd"] ELSE NoEvent)
           ELSE (IF Diverges(r, x) THEN [key |-> x.key, about |-> "conflict"] ELSE NoEvent)
  IN  IF e \in impAlarms \cup impReq[r].events THEN NoEvent ELSE e

(* What recording one item does.  A malformed line of a weighbridge file is
   reported with the others (import_csv); elsewhere it refuses the request. *)
RecordTicket(r, x) ==
  [refused |-> FALSE, adds |-> IF x.content = "malformed" THEN <<>> ELSE RowFor(r, x),
   alarm |-> NoEvent]
RecordMeasurement(r, x) ==
  [refused |-> x.content = "malformed", adds |-> RowFor(r, x), alarm |-> NoEvent]
RecordResult(r, x) ==
  [refused |-> x.content = "malformed", adds |-> RowFor(r, x), alarm |-> AlarmFor(r, x)]
RecordReading(r, x) ==
  [refused |-> x.content = "malformed", adds |-> RowFor(r, x), alarm |-> AlarmFor(r, x)]

Record(r, x) == CASE impRegister = "ticket" -> RecordTicket(r, x)
                  [] impRegister = "measurement" -> RecordMeasurement(r, x)
                  [] impRegister = "result" -> RecordResult(r, x)
                  [] impRegister = "reading" -> RecordReading(r, x)

NextItem(r) ==
  /\ impReq[r].busy /\ impReq[r].done < Len(impReq[r].batch) /\ impReq[r].event = NoEvent
  /\ LET what == Record(r, impReq[r].batch[impReq[r].done + 1])
     IN  IF what.refused
         THEN Abort(r)                    \* ValueError: 400
         ELSE /\ impReq' = [impReq EXCEPT ![r].done = @ + 1, ![r].adds = @ \o what.adds,
                                          ![r].event = what.alarm]
              /\ UNCHANGED <<impRegister, impRows, impAlarms, impLeft, impAnswered,
                             impRaised>>

TakenAtOnce(r, e) == e \in impAlarms \cup UNION {impReq[s].events : s \in Others(r)}
(* The event's key was committed meanwhile: the savepoint rolls back, no alarm. *)
EventTaken(r, e) == e \in impAlarms

(* _persist_deduped: the savepoint first flushes the rows added so far. *)
PersistDeduped(r) ==
  /\ impReq[r].event # NoEvent
  /\ ~RowsWait(r)
  /\ LET e == impReq[r].event
     IN  IF RowsCollide(r) THEN Abort(r)
         ELSE /\ \A s \in Others(r) : e \notin impReq[s].events \/ EventTaken(r, e)
              /\ impReq' = [impReq EXCEPT
                   ![r].written = @ \o impReq[r].adds, ![r].adds = <<>>, ![r].event = NoEvent,
                   ![r].events = IF EventTaken(r, e) THEN @ ELSE @ \cup {e}]
              /\ UNCHANGED <<impRegister, impRows, impAlarms, impLeft, impAnswered,
                             impRaised>>

(* The audit entry is added and the transaction commits; the answer goes out. *)
CommitImport(r) ==
  /\ impReq[r].busy /\ impReq[r].done = Len(impReq[r].batch) /\ impReq[r].event = NoEvent
  /\ ~RowsWait(r)
  /\ IF RowsCollide(r) THEN Abort(r)
     ELSE LET new == ToSet(impReq[r].written \o impReq[r].adds)
          IN  /\ impRows' = [k \in DOMAIN impRows \cup {x.key : x \in new} |->
                               IF k \in DOMAIN impRows THEN impRows[k]
                               ELSE (CHOOSE x \in new : x.key = k).content]
              /\ impAlarms' = impAlarms \cup impReq[r].events
              /\ impRaised' = impRaised \cup impReq[r].events
              /\ impAnswered' = impAnswered \cup {x \in ToSet(impReq[r].batch) :
                                   x.content # "malformed" /\ x.key \notin impReq[r].gone}
              /\ EndRequest(r)
              /\ UNCHANGED <<impRegister, impLeft>>

(* The request dies (a lost connection) before its commit. *)
RequestDies(r) == impReq[r].busy /\ Abort(r)

(* run_retention: old records go, and old alarms go; a generator keeps its
   latest reading (the keys of a register of readings are one generator's). *)
Old(k) == impRegister = "reading" => \E later \in DOMAIN impRows : later # k

PurgeRecord(k) ==
  /\ k \in DOMAIN impRows /\ Old(k)
  /\ impRows' = Restrict(impRows, DOMAIN impRows \ {k})
  /\ impAnswered' = {x \in impAnswered : x.key # k}
  /\ impReq' = [r \in Importers |-> IF impReq[r].busy THEN [impReq[r] EXCEPT !.gone = @ \cup {k}]
                                    ELSE impReq[r]]
  /\ UNCHANGED <<impRegister, impAlarms, impLeft, impRaised>>

PurgeAlarm(e) ==
  /\ impAlarms' = impAlarms \ {e}
  /\ UNCHANGED <<impRegister, impRows, impReq, impLeft, impAnswered, impRaised>>

ImportNext ==
  \/ \E r \in Importers :
       \/ \E batch \in Batches : Submit(r, batch)
       \/ NextItem(r) \/ PersistDeduped(r) \/ CommitImport(r) \/ RequestDies(r)
  \/ \E k \in ImportKeys : PurgeRecord(k)
  \/ \E e \in impAlarms : PurgeAlarm(e)

ImportSpec == ImportInit /\ [][ImportNext]_impVars

-----------------------------------------------------------------------------
(* Nothing answered is absorbed in silence: a record of a request answered with
   success is stored as sent, or an earlier one with its key is; a laboratory
   result that differs from the stored one has raised its conflict alarm, and a
   stored result out of bounds or reading with a fault has raised its alarm,
   though requests race, collide, wait for each other and die (record_result,
   check_anomaly, record_reading, _persist_deduped). *)
NothingAbsorbed ==
  \A x \in impAnswered :
    /\ x.key \in DOMAIN impRows
    /\ impRegister = "result" /\ impRows[x.key] # x.content
         => [key |-> x.key, about |-> "conflict"] \in impRaised
    /\ Alarming([key |-> x.key, content |-> impRows[x.key]])
         => [key |-> x.key, about |-> "odd"] \in impRaised
=============================================================================
