----------------------------- MODULE VendorEvents ----------------------------
(***************************************************************************)
(* Smart events of a vendor's recorder (ingest/adapters/nvr.py and the     *)
(* ingest_nvr_events of ingest/adapters/dahua_nvr_sim.py): normalised,     *)
(* stored write-once as vendor records and promoted to alarms under the    *)
(* same deterministic id, a batch in one transaction.  Batches repeat      *)
(* events (replay, backfill) and two may run at once; retention deletes    *)
(* old records, and old alarms no incident points at.                      *)
(***************************************************************************)
EXTENDS Naturals, Sequences, SequencesExt, FiniteSets

CONSTANTS
  NvrRuns,          \* ingest runs in flight
  NvrIds,           \* deterministic ids: site, channel, event
  NvrCodes,         \* event codes: "intrusion" and "loitering" are mapped; not so identities,
                    \* unknown codes, and events with a bad or missing field
  MaxNvrBatch, MaxNvrRuns, MaxNvrPurges   \* bounds: a batch's events, runs, retention passes

ASSUME VendorAssumption == MaxNvrBatch \in Nat

VARIABLES
  nvrRecords,       \* ids in vision_vendor_events
  nvrAlarms,        \* ids in events
  nvrHeld,          \* alarms an incident points at
  nvrRun,           \* the runs
  nvrOwed,          \* vendor events that may be alarmed: not yet, or purged since
  nvrLost,          \* records retention deleted
  nvrRepeated,      \* an alarm was raised twice
  nvrMissed,        \* a well-formed batch that had the tables to itself did not land
  nvrLeft, nvrPurges

nvrVars == <<nvrRecords, nvrAlarms, nvrHeld, nvrRun, nvrOwed, nvrLost, nvrRepeated, nvrMissed,
             nvrLeft, nvrPurges>>

RawEvents == [id : NvrIds, code : NvrCodes]
NvrBatches == UNION {[1 .. n -> RawEvents] : n \in 1 .. MaxNvrBatch}
NoRun == [busy |-> FALSE, batch |-> <<>>, done |-> 0, records |-> {}, alarms |-> <<>>, alone |-> TRUE]

VendorInit ==
  /\ nvrRecords = {} /\ nvrAlarms = {} /\ nvrHeld = {}
  /\ nvrRun = [r \in NvrRuns |-> NoRun]
  /\ nvrOwed = NvrIds /\ nvrLost = {} /\ nvrRepeated = FALSE /\ nvrMissed = FALSE
  /\ nvrLeft = MaxNvrRuns /\ nvrPurges = MaxNvrPurges

-----------------------------------------------------------------------------
(* _TYPE_MAP, _NORMALIZED_TYPE *)
MappedCodes == {"intrusion", "loitering"}
(* The checks of normalise_nvr_event, and those of build_vendor_event. *)
Normalises(raw) == raw.code \in MappedCodes
BuildsRecord(raw) == raw.code \in MappedCodes

NotAlone(runs) == [r \in NvrRuns |-> [runs[r] EXCEPT !.alone = FALSE]]

BeginBatch(r, batch) ==
  /\ ~nvrRun[r].busy /\ nvrLeft > 0
  /\ nvrLeft' = nvrLeft - 1
  /\ LET runs == [nvrRun EXCEPT ![r] = [NoRun EXCEPT !.busy = TRUE, !.batch = batch]]
     IN  nvrRun' = IF \E s \in NvrRuns \ {r} : nvrRun[s].busy THEN NotAlone(runs) ELSE runs
  /\ UNCHANGED <<nvrRecords, nvrAlarms, nvrHeld, nvrOwed, nvrLost, nvrRepeated, nvrMissed, nvrPurges>>

(* A malformed event aborts the batch, or the commit fails. *)
AbortBatch(r) ==
  /\ nvrRun' = [nvrRun EXCEPT ![r] = NoRun]
  /\ nvrMissed' = (nvrMissed \/ (nvrRun[r].alone /\ \A raw \in ToSet(nvrRun[r].batch) : Normalises(raw)))
  /\ UNCHANGED <<nvrRecords, nvrAlarms, nvrHeld, nvrOwed, nvrLost, nvrRepeated, nvrLeft, nvrPurges>>

StoredOnly(r, id) == id \in nvrAlarms
(* In this batch already, or stored. *)
KnownEvent(r, id) == id \in ToSet(nvrRun[r].alarms) \/ id \in nvrAlarms

(* _persist_vendor_event adds the record unless it is there *)
NewRecords(r, id) == nvrRun[r].records \cup ({id} \ nvrRecords)

IngestEvent(r) ==
  LET x == nvrRun[r]
      raw == x.batch[x.done + 1]
  IN
  /\ x.busy /\ x.done < Len(x.batch)
  /\ IF ~Normalises(raw) \/ ~BuildsRecord(raw) THEN AbortBatch(r)
     ELSE /\ nvrRun' = [nvrRun EXCEPT ![r] =
                          IF KnownEvent(r, raw.id) THEN [x EXCEPT !.done = @ + 1]
                          ELSE [x EXCEPT !.done = @ + 1, !.records = NewRecords(r, raw.id),
                                         !.alarms = Append(@, raw.id)]]
          /\ UNCHANGED <<nvrRecords, nvrAlarms, nvrHeld, nvrOwed, nvrLost, nvrRepeated, nvrMissed,
                         nvrLeft, nvrPurges>>

(* The keys of both tables. *)
BatchCollides(x) ==
  \/ ToSet(x.alarms) \cap nvrAlarms # {} \/ x.records \cap nvrRecords # {}
  \/ Cardinality(ToSet(x.alarms)) < Len(x.alarms)

CommitBatch(r) ==
  LET x == nvrRun[r] IN
  /\ x.busy /\ x.done = Len(x.batch)
  /\ IF BatchCollides(x) THEN AbortBatch(r)
     ELSE /\ nvrAlarms' = nvrAlarms \cup ToSet(x.alarms)
          /\ nvrRecords' = nvrRecords \cup x.records
          /\ nvrOwed' = nvrOwed \ ToSet(x.alarms)
          /\ nvrRepeated' = (nvrRepeated \/ ~ToSet(x.alarms) \subseteq nvrOwed)
          /\ nvrMissed' = (nvrMissed \/ (x.alone /\ ~{raw.id : raw \in ToSet(x.batch)} \subseteq nvrAlarms'))
          /\ nvrRun' = [nvrRun EXCEPT ![r] = NoRun]
          /\ nvrLost' = nvrLost \ x.records
          /\ UNCHANGED <<nvrHeld, nvrLeft, nvrPurges>>

-----------------------------------------------------------------------------
(* An incident is opened from an alarm. *)
HoldAlarm(id) ==
  /\ id \in nvrAlarms /\ id \notin nvrHeld
  /\ nvrHeld' = nvrHeld \cup {id}
  /\ UNCHANGED <<nvrRecords, nvrAlarms, nvrRun, nvrOwed, nvrLost, nvrRepeated, nvrMissed, nvrLeft,
                 nvrPurges>>

(* run_retention, when the events of some ids are past the events window. *)
PurgeVendorEvents(old) ==
  LET gone == (old \cap nvrAlarms) \ nvrHeld IN
  /\ nvrPurges > 0 /\ old \cap (nvrAlarms \cup nvrRecords) # {}
  /\ nvrPurges' = nvrPurges - 1
  /\ nvrAlarms' = nvrAlarms \ gone
  /\ nvrOwed' = nvrOwed \cup gone
  /\ nvrRecords' = nvrRecords \ old
  /\ nvrLost' = nvrLost \cup (nvrRecords \cap old)
  /\ nvrRun' = NotAlone(nvrRun)
  /\ UNCHANGED <<nvrHeld, nvrRepeated, nvrMissed, nvrLeft>>

VendorNext ==
  \/ \E r \in NvrRuns : \/ \E batch \in NvrBatches : BeginBatch(r, batch)
                        \/ IngestEvent(r) \/ CommitBatch(r)
  \/ \E id \in NvrIds : HoldAlarm(id)
  \/ \E old \in SUBSET NvrIds : PurgeVendorEvents(old)

VendorSpec == VendorInit /\ [][VendorNext]_nvrVars

-----------------------------------------------------------------------------
(* Replay and backfill are safe: an event is alarmed once as long as its alarm
   is kept, however often and however concurrently it is sent; an alarm has
   its vendor record unless retention deleted the record; and a batch of
   acceptable events that nothing runs against lands whole, whatever it
   repeats of itself, of earlier batches, or of what retention deleted in part
   (ingest_nvr_events: "replays and duplicates are no-ops"). *)
VendorEventsLand ==
  /\ ~nvrRepeated
  /\ nvrAlarms \subseteq nvrRecords \cup nvrLost
  /\ ~nvrMissed
=============================================================================
