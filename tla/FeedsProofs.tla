----------------------------- MODULE FeedsProofs -----------------------------
(***************************************************************************)
(* What reaches the core from outside, for every number of events, gates,  *)
(* guards, connections, runs and retries: the stills, the camera reader    *)
(* and the outbox of an edge node, the searches and the passages at the    *)
(* gates, the trackers' records, the recorders' events, and the alarms on  *)
(* conditions that go on.  The feeds share no state; each has its own part. *)
(***************************************************************************)
EXTENDS Evidence, GateSearch, TrackerLink, VendorEvents, CameraSource, ConditionAlarms,
        GateFeed, VisionEdge, FiniteSetTheorems, SequenceTheorems, WellFoundedInduction, TLAPS

-----------------------------------------------------------------------------
(* Numbers. *)

\* A set of natural numbers has a least one.
LEMMA LeastNat == ASSUME NEW T, T \subseteq Nat, T # {} PROVE \E x \in T : \A y \in T : x <= y
  <1>1. PICK x \in T : \A y \in T : ~ (<<y, x>> \in OpToRel(<, Nat))
    BY NatLessThanWellFounded, WFMin, Zenon
  <1>2. ASSUME NEW y \in T PROVE x <= y
    <2>1. ~ (<<y, x>> \in OpToRel(<, Nat))
      BY <1>1
    <2>2. x \in Nat /\ y \in Nat
      OBVIOUS
    <2>3. ~ (y < x)
      BY <2>1, <2>2 DEF OpToRel
    <2> QED
      BY <2>2, <2>3
  <1> QED
    BY <1>2

\* A set of integers with an upper bound has a greatest one, and Max is it.
LEMMA GreatestInt ==
  ASSUME NEW S, S \subseteq Int, S # {}, NEW N \in Int, \A s \in S : s <= N
  PROVE  Max(S) \in S /\ Max(S) \in Int /\ \A y \in S : y <= Max(S)
  <1> DEFINE T == {N - s : s \in S}
  <1>1. T \subseteq Nat /\ T # {}
    <2>1. \A s \in S : N - s \in Nat
      OBVIOUS
    <2> QED
      BY <2>1
  <1>2. PICK x \in T : \A y \in T : x <= y
    BY <1>1, LeastNat
  <1>3. PICK m \in S : x = N - m
    OBVIOUS
  <1>4. ASSUME NEW y \in S PROVE m >= y
    <2>1. N - y \in T
      OBVIOUS
    <2>2. N - m <= N - y
      BY <1>2, <1>3, <2>1
    <2>3. m \in Int /\ y \in Int
      OBVIOUS
    <2> QED
      BY <2>2, <2>3
  <1>5. \E z \in S : \A y \in S : z >= y
    BY <1>4
  <1>6. Max(S) \in S /\ \A y \in S : Max(S) >= y
    BY <1>5 DEF Max
  <1> QED
    BY <1>6

\* The greatest of a set is its Max.
LEMMA MaxIs == ASSUME NEW S, S \subseteq Int, NEW m \in S, \A y \in S : y <= m PROVE Max(S) = m
  <1>1. m \in Int
    OBVIOUS
  <1>2. Max(S) \in S /\ Max(S) \in Int /\ \A y \in S : y <= Max(S)
    BY <1>1, GreatestInt
  <1>3. Max(S) <= m /\ m <= Max(S)
    BY <1>2
  <1> QED
    BY <1>1, <1>2, <1>3

-----------------------------------------------------------------------------
(* Stills of an edge node (Evidence).                                      *)

EvidenceSteps == [at : {"frames", "saving", "uploading", "put", "pruning"},
                  event : Nat, todo : SUBSET StillEvents]

\* The ring is finite; a still being saved is in it; the marker being unlinked is of an object
\* the store has.
EvidenceInv ==
  /\ evMode \in {"edge", "s3"} /\ evMarked \subseteq StillEvents /\ evStep \in EvidenceSteps
  /\ IsFiniteSet(DOMAIN evKept)
  /\ evStep.at = "saving" => evStep.event \in DOMAIN evKept /\ evStep.event \in StillEvents
  /\ evStep.at = "put" => First(1, evStep.todo) \subseteq evStore
  /\ ReferencesHold

\* The first of a set of events, by their keys, is one.
LEMMA FirstIsOne == ASSUME NEW S, S \subseteq Nat, NEW d \in First(1, S), NEW e \in First(1, S)
                    PROVE  d = e
  <1>1. ASSUME NEW x \in First(1, S) PROVE x \in Nat /\ \A k \in S : ~ (k < x)
    <2> DEFINE below == {k \in S : k < x}
    <2>1. x \in Nat /\ Cardinality(below) < 1
      BY <1>1 DEF First
    <2>2. below \in SUBSET (0 .. x)
      <3>1. \A k \in below : k \in Nat /\ k < x
        OBVIOUS
      <3>2. \A k \in below : k \in 0 .. x
        BY <2>1, <3>1
      <3> QED
        BY <3>2, Zenon
    <2>3. IsFiniteSet(0 .. x)
      BY <2>1, FS_Interval
    <2>4. IsFiniteSet(below)
      BY <2>2, <2>3, FS_Subset
    <2>5. Cardinality(below) \in Nat
      BY <2>4, FS_CardinalityType
    <2>6. Cardinality(below) = 0
      BY <2>1, <2>5
    <2>7. below = {}
      BY <2>4, <2>6, FS_EmptySet
    <2> QED
      BY <2>1, <2>7
  <1>2. d \in S /\ e \in S
    BY DEF First
  <1> QED
    BY <1>1, <1>2

\* Every still a prune deletes is past the ring's age or beyond its number.
LEMMA DoomedAreGivenUp == ASSUME EvidenceInv, NEW gone \in SUBSET Doomed PROVE gone \subseteq GivenUp(gone)
  <1> SUFFICES ASSUME NEW e \in gone PROVE e \in GivenUp(gone)
    OBVIOUS
  <1> DEFINE survivors == DOMAIN evKept \ TooOld
  <1>1. e \in TooOld \/ Cardinality(NewerThan(e) \cap survivors) >= MaxStills
    BY DEF Doomed
  <1>2. CASE e \in TooOld
    BY <1>2 DEF TooOld, GivenUp
  <1>3. CASE Cardinality(NewerThan(e) \cap survivors) >= MaxStills
    <2>1. IsFiniteSet(NewerThan(e))
      <3>1. NewerThan(e) \in SUBSET DOMAIN evKept
        BY DEF NewerThan
      <3> QED
        BY <3>1, FS_Subset DEF EvidenceInv
    <2>2. NewerThan(e) \cap survivors \in SUBSET NewerThan(e)
      OBVIOUS
    <2>3. /\ Cardinality(NewerThan(e) \cap survivors) <= Cardinality(NewerThan(e))
          /\ IsFiniteSet(NewerThan(e) \cap survivors)
      BY <2>1, <2>2, FS_Subset
    <2>4. /\ Cardinality(NewerThan(e)) \in Nat /\ Cardinality(NewerThan(e) \cap survivors) \in Nat
          /\ MaxStills \in Nat
      BY <2>1, <2>3, FS_CardinalityType, EvidenceAssumption DEF EvidenceAssumption
    <2>5. Cardinality(NewerThan(e)) >= MaxStills
      BY <1>3, <2>3, <2>4
    <2> QED
      BY <2>5 DEF GivenUp
  <1> QED
    BY <1>1, <1>2, <1>3

\* Deleting doomed stills breaks no promise.
LEMMA UnlinkKeeps == ASSUME EvidenceInv, NEW gone \in SUBSET Doomed, Unlink(gone),
                            UNCHANGED <<evMode, evMarked, evStore, evRefs>>
                     PROVE  ReferencesHold' /\ IsFiniteSet(DOMAIN evKept')
  <1>1. DOMAIN evKept' = DOMAIN evKept \ gone /\ evExpired' = evExpired \cup GivenUp(gone)
    BY DEF Unlink
  <1>2. gone \subseteq GivenUp(gone)
    BY DoomedAreGivenUp
  <1>3. IsFiniteSet(DOMAIN evKept')
    <2>1. DOMAIN evKept' \in SUBSET DOMAIN evKept
      BY <1>1
    <2> QED
      BY <2>1, FS_Subset DEF EvidenceInv
  <1>4. ReferencesHold'
    BY <1>1, <1>2 DEF EvidenceInv, ReferencesHold
  <1> QED
    BY <1>3, <1>4

\* The steps a pass can be in.
LEMMA StepShapes ==
  /\ Between \in EvidenceSteps /\ Between.at = "frames"
  /\ \A e \in StillEvents : /\ [Between EXCEPT !.at = "saving", !.event = e] \in EvidenceSteps
                            /\ [Between EXCEPT !.at = "saving", !.event = e].at = "saving"
                            /\ [Between EXCEPT !.at = "saving", !.event = e].event = e
  /\ \A S \in SUBSET StillEvents :
       /\ [Between EXCEPT !.at = "uploading", !.todo = S] \in EvidenceSteps
       /\ [Between EXCEPT !.at = "uploading", !.todo = S].at = "uploading"
  /\ [Between EXCEPT !.at = "pruning"] \in EvidenceSteps
  /\ [Between EXCEPT !.at = "pruning"].at = "pruning"
  <1>1. Between \in EvidenceSteps /\ Between.at = "frames"
    BY DEF Between, EvidenceSteps
  <1>2. StillEvents \subseteq Nat
    BY EvidenceAssumption DEF EvidenceAssumption
  <1> QED
    BY <1>1, <1>2 DEF EvidenceSteps

\* Nothing is kept at the start.
LEMMA EvidenceInitInv == EvidenceInit => EvidenceInv
  <1> SUFFICES ASSUME EvidenceInit PROVE EvidenceInv
    OBVIOUS
  <1>1. DOMAIN evKept = {}
    BY DEF EvidenceInit
  <1>2. IsFiniteSet(DOMAIN evKept)
    BY <1>1, FS_EmptySet
  <1> QED
    BY <1>2, StepShapes DEF EvidenceInit, EvidenceInv, ReferencesHold

\* A step of the node, by what it is in the middle of.
LEMMA EvidenceStepInv == EvidenceInv /\ [EvidenceNext]_evVars => EvidenceInv'
  <1> SUFFICES ASSUME EvidenceInv, [EvidenceNext]_evVars PROVE EvidenceInv'
    OBVIOUS
  <1> USE DEF EvidenceInv
  <1>0. StillEvents \subseteq Nat
    BY EvidenceAssumption DEF EvidenceAssumption
  <1>1. CASE UNCHANGED evVars \/ EvidenceTick
    BY <1>1 DEF evVars, EvidenceTick, ReferencesHold, First
  <1>2. ASSUME NEW e \in StillEvents, SaveStill(e) PROVE EvidenceInv'
    <2>1. /\ DOMAIN evKept' = DOMAIN evKept \cup {e}
          /\ evStep' = [Between EXCEPT !.at = "saving", !.event = e]
          /\ UNCHANGED <<evMode, evMarked, evStore, evRefs, evExpired>>
      BY <1>2 DEF SaveStill
    <2>2. IsFiniteSet(DOMAIN evKept')
      BY <2>1, FS_AddElement
    <2>3. ReferencesHold'
      BY <2>1 DEF ReferencesHold
    <2>4. evStep' \in EvidenceSteps /\ evStep'.at = "saving" /\ evStep'.event = e
      BY <2>1, StepShapes
    <2> QED
      BY <2>1, <2>2, <2>3, <2>4
  <1>3. CASE SaveReference
    <2>1. evStep' = Between /\ evStep' \in EvidenceSteps /\ evStep'.at = "frames"
      BY <1>3, StepShapes DEF SaveReference
    <2>2. ReferencesHold' /\ evMarked' \subseteq StillEvents
      BY <1>3 DEF SaveReference, ReferencesHold
    <2> QED
      BY <1>3, <2>1, <2>2 DEF SaveReference
  <1>4. CASE SaveFails \/ Flush \/ UploadEnds \/ \E e \in StillEvents : UploadFails(e)
    <2>1. /\ UNCHANGED <<evMode, evKept, evMarked, evRefs, evExpired>> /\ evStore \subseteq evStore'
      BY <1>4 DEF SaveFails, Flush, UploadEnds, UploadFails
    <2>2. First(UploadLimit, evMarked) \in SUBSET StillEvents
      BY DEF First
    <2>3. evStep' \in EvidenceSteps /\ evStep'.at \in {"frames", "uploading", "pruning"}
      <3>1. \/ evStep' = Between
            \/ evStep' = [Between EXCEPT !.at = "uploading", !.todo = First(UploadLimit, evMarked)]
            \/ evStep' = [Between EXCEPT !.at = "pruning"]
        BY <1>4 DEF SaveFails, Flush, UploadEnds, UploadFails
      <3> DEFINE S == First(UploadLimit, evMarked)
                 u == [Between EXCEPT !.at = "uploading", !.todo = S]
                 v == [Between EXCEPT !.at = "pruning"]
      <3>2. u \in EvidenceSteps /\ u.at = "uploading"
        BY <2>2, StepShapes
      <3>3. v \in EvidenceSteps /\ v.at = "pruning" /\ Between \in EvidenceSteps /\ Between.at = "frames"
        BY StepShapes
      <3>4. evStep' = Between \/ evStep' = u \/ evStep' = v
        BY <3>1
      <3> HIDE DEF u, v
      <3> QED
        BY <3>2, <3>3, <3>4
    <2>4. ReferencesHold'
      BY <2>1 DEF ReferencesHold
    <2> QED
      BY <2>1, <2>3, <2>4
  <1>5. ASSUME NEW e \in StillEvents, UploadExpired(e) PROVE EvidenceInv'
    <2>1. /\ evMarked' = evMarked \ {e} /\ e \notin DOMAIN evKept
          /\ evStep' = [evStep EXCEPT !.at = "uploading", !.todo = @ \ {e}]
          /\ UNCHANGED <<evMode, evKept, evStore, evRefs, evExpired>>
      BY <1>5 DEF UploadExpired, NextUpload
    <2>2. evStep' \in EvidenceSteps /\ evStep'.at = "uploading"
      BY <2>1 DEF EvidenceSteps
    <2>3. ReferencesHold'
      BY <2>1 DEF ReferencesHold
    <2> QED
      BY <2>1, <2>2, <2>3
  <1>6. ASSUME NEW e \in StillEvents, UploadPut(e) PROVE EvidenceInv'
    <2>1. /\ evStore' = evStore \cup {e} /\ evStep' = [evStep EXCEPT !.at = "put"]
          /\ e \in First(1, evStep.todo)
          /\ UNCHANGED <<evMode, evKept, evMarked, evRefs, evExpired>>
      BY <1>6 DEF UploadPut, Upload
    <2>2. evStep' \in EvidenceSteps /\ evStep'.at = "put" /\ evStep'.todo = evStep.todo
      BY <2>1 DEF EvidenceSteps
    <2>3. evStep.todo \subseteq Nat
      BY <1>0 DEF EvidenceSteps
    <2>4. First(1, evStep'.todo) \subseteq evStore'
      BY <2>1, <2>2, <2>3, FirstIsOne
    <2>5. ReferencesHold'
      BY <2>1 DEF ReferencesHold
    <2> QED
      BY <2>1, <2>2, <2>4, <2>5
  <1>7. CASE UnlinkMarker
    <2>1. PICK e \in First(1, evStep.todo) : evMarked' = evMarked \ {e} /\ NextUpload(e)
      BY <1>7 DEF UnlinkMarker
    <2>2. /\ e \in evStore /\ evStep' = [evStep EXCEPT !.at = "uploading", !.todo = @ \ {e}]
          /\ UNCHANGED <<evMode, evKept, evStore, evRefs, evExpired>>
      BY <1>7, <2>1 DEF UnlinkMarker, NextUpload
    <2>3. evStep' \in EvidenceSteps /\ evStep'.at = "uploading"
      BY <2>2 DEF EvidenceSteps
    <2>4. ReferencesHold'
      BY <2>1, <2>2 DEF ReferencesHold
    <2> QED
      BY <2>1, <2>2, <2>3, <2>4
  <1>8. CASE Prune
    <2>1. Unlink(Doomed) /\ evStep' = Between /\ UNCHANGED <<evMode, evMarked, evStore, evRefs>>
      BY <1>8 DEF Prune
    <2>2. ReferencesHold' /\ IsFiniteSet(DOMAIN evKept')
      BY <2>1, UnlinkKeeps
    <2> QED
      BY <2>1, <2>2, StepShapes
  <1>9. CASE EvidencePowerCut
    <2>1. evStep' = Between /\ UNCHANGED <<evMode, evMarked, evStore, evRefs>>
      BY <1>9 DEF EvidencePowerCut
    <2>2. ReferencesHold' /\ IsFiniteSet(DOMAIN evKept')
      <3>1. CASE evStep.at = "pruning"
        <4>1. PICK gone \in SUBSET Doomed : Unlink(gone)
          BY <1>9, <3>1 DEF EvidencePowerCut
        <4> QED
          BY <2>1, <4>1, UnlinkKeeps
      <3>2. CASE evStep.at # "pruning"
        <4>1. UNCHANGED <<evKept, evExpired>>
          BY <1>9, <3>2 DEF EvidencePowerCut
        <4> QED
          BY <2>1, <4>1 DEF ReferencesHold
      <3> QED
        BY <3>1, <3>2
    <2> QED
      BY <2>1, <2>2, StepShapes
  <1> QED
    BY <1>1, <1>2, <1>3, <1>4, <1>5, <1>6, <1>7, <1>8, <1>9 DEF EvidenceNext

\* An edge node's reference to a still (EvidenceStore.save) stays good until the ring's own
\* bounds give the still up, wherever power or the object store failed (upload_pending, prune).
THEOREM EvidenceReferencesHold == EvidenceSpec => []ReferencesHold
  <1>1. EvidenceInv => ReferencesHold
    BY DEF EvidenceInv
  <1> QED
    BY <1>1, EvidenceInitInv, EvidenceStepInv, PTL DEF EvidenceSpec

-----------------------------------------------------------------------------
(* Searches at the gates (GateSearch).                                     *)

LEMMA SearchNumbers == /\ SearchGrace \in Nat /\ SearchRetain \in Nat /\ SearchMaxTime \in Nat
                       /\ Unknown = SearchMaxTime + 1 /\ Unknown \in Nat
  BY SearchAssumption DEF SearchAssumption, Unknown

EntryRows == [decision : {"granted", "denied"}, ts : 0 .. SearchMaxTime, selected : BOOLEAN,
              completedAt : 0 .. Unknown, escalated : BOOLEAN]
AlarmCounts == [denied : Nat, missed : Nat, metal : Nat, missedAt : 0 .. Unknown,
                metalAt : 0 .. Unknown, purges : Nat]
Completions == [entry : Entries, raise : BOOLEAN]

SearchTypes ==
  /\ searchClock \in 0 .. SearchMaxTime
  /\ entry \in [Entries -> EntryRows \cup {NoEntry}]
  /\ entryAlarm \in [Entries -> AlarmCounts]
  /\ completing \in [Guards -> Completions \cup {NoCompletion}]
  /\ searchTick.batch \subseteq Entries

\* The grace of a search has run out, and it was not completed before.
Overdue(p) == /\ entry[p].ts + SearchGrace <= searchClock
              /\ entry[p].ts + SearchGrace <= entry[p].completedAt

\* What is about to be escalated is selected, overdue and was never escalated; what was never
\* escalated has no missed-search alarm; the detector's alarm is raised again only after a purge.
SearchInv ==
  /\ \A g \in Guards : completing[g] # NoCompletion => entry[completing[g].entry] # NoEntry
  /\ \A p \in searchTick.batch : /\ entry[p] # NoEntry /\ entry[p].selected /\ ~entry[p].escalated
                                 /\ Overdue(p)
  /\ \A p \in Entries :
       /\ entry[p] = NoEntry => entryAlarm[p].denied = 0 /\ entryAlarm[p].missed = 0
       /\ entryAlarm[p].denied <= 1 /\ entryAlarm[p].missed <= 1
       /\ entry[p] # NoEntry /\ ~entry[p].escalated => entryAlarm[p].missed = 0
       /\ entryAlarm[p].missed = 1 => entry[p].selected /\ Overdue(p)
       /\ entryAlarm[p].metal <= 1 + entryAlarm[p].purges
       /\ entryAlarm[p].metalAt = Unknown => entryAlarm[p].metal <= entryAlarm[p].purges

\* A stored passage is not an absent one.
LEMMA RowsAreRows == \A x \in EntryRows : x # NoEntry
  BY DEF EntryRows, NoEntry

\* No passage is recorded at the start.
LEMMA SearchInitInv == SearchInit => SearchTypes /\ SearchInv
  <1> SUFFICES ASSUME SearchInit PROVE SearchTypes /\ SearchInv
    OBVIOUS
  <1>1. Alarmed \in AlarmCounts
    BY SearchNumbers DEF Alarmed, AlarmCounts
  <1>2. SearchTypes
    BY <1>1, SearchNumbers DEF SearchInit, SearchTypes, TickIdle
  <1>3. SearchInv
    BY SearchNumbers DEF SearchInit, SearchInv, TickIdle, Alarmed
  <1> QED
    BY <1>2, <1>3

\* A passage is recorded once, and its verdict alarmed then.
LEMMA IngestStep ==
  ASSUME SearchTypes, SearchInv, NEW p \in Entries, NEW d \in {"granted", "denied"},
         NEW s \in BOOLEAN, NEW at \in 0 .. SearchMaxTime, IngestAccessEvent(p, d, s, at)
  PROVE  SearchTypes' /\ SearchInv'
  <1> DEFINE new == [decision |-> d, ts |-> at, selected |-> s, completedAt |-> Unknown,
                     escalated |-> FALSE]
             a == entryAlarm[p]
             n == IF Verdict(at) = "denied" /\ d = "granted" THEN a.denied + 1 ELSE a.denied
  <1>1. /\ entry[p] = NoEntry /\ entry' = [entry EXCEPT ![p] = new]
        /\ entryAlarm' = [entryAlarm EXCEPT ![p].denied = n]
        /\ UNCHANGED <<searchClock, completing, searchTick>>
    BY DEF IngestAccessEvent, Created
  <1>2. new \in EntryRows /\ ~new.escalated
    BY SearchNumbers DEF EntryRows
  <1>3. a \in AlarmCounts /\ a.denied = 0 /\ a.missed = 0
    BY <1>1 DEF SearchTypes, SearchInv
  <1>4. n \in Nat /\ n <= 1
    BY <1>3 DEF AlarmCounts
  <1> HIDE DEF new, n
  <1>5. /\ entryAlarm'[p] \in AlarmCounts /\ entryAlarm'[p].denied <= 1
        /\ entryAlarm'[p].missed = 0 /\ entryAlarm'[p].metal = a.metal
        /\ entryAlarm'[p].purges = a.purges /\ entryAlarm'[p].metalAt = a.metalAt
        /\ \A q \in Entries : q # p => entryAlarm'[q] = entryAlarm[q]
        /\ entryAlarm' \in [Entries -> AlarmCounts]
    BY <1>1, <1>3, <1>4 DEF SearchTypes, AlarmCounts
  <1>6. /\ entry'[p] = new /\ \A q \in Entries : q # p => entry'[q] = entry[q]
        /\ entry' \in [Entries -> EntryRows \cup {NoEntry}]
    BY <1>1, <1>2 DEF SearchTypes
  <1>7. entry'[p] # NoEntry
    BY <1>2, <1>6, RowsAreRows
  <1>8. SearchTypes'
    BY <1>1, <1>5, <1>6 DEF SearchTypes
  <1>9. p \notin searchTick.batch
    BY <1>1 DEF SearchInv
  <1>10. SearchInv'
    <2>1. \A g \in Guards : completing'[g] # NoCompletion => entry'[completing'[g].entry] # NoEntry
      <3> SUFFICES ASSUME NEW g \in Guards, completing[g] # NoCompletion
                   PROVE  entry'[completing[g].entry] # NoEntry
        BY <1>1
      <3>1. completing[g].entry \in Entries /\ entry[completing[g].entry] # NoEntry
        BY DEF SearchTypes, SearchInv, Completions
      <3> QED
        BY <1>6, <1>7, <3>1
    <2>2. \A q \in searchTick'.batch : /\ entry'[q] # NoEntry /\ entry'[q].selected
                                       /\ ~entry'[q].escalated /\ Overdue(q)'
      BY <1>1, <1>6, <1>9 DEF SearchInv, SearchTypes, Overdue
    <2>3. ASSUME NEW q \in Entries, q # p
          PROVE  entryAlarm'[q] = entryAlarm[q] /\ entry'[q] = entry[q] /\ (Overdue(q) => Overdue(q)')
      BY <1>1, <1>5, <1>6, <2>3 DEF Overdue
    <2> QED
      BY <1>3, <1>5, <1>7, <2>1, <2>2, <2>3 DEF SearchInv
  <1> QED
    BY <1>8, <1>10

\* A guard starts to complete the search of a recorded passage.
LEMMA CompleteSearchStep ==
  ASSUME SearchTypes, SearchInv, NEW g \in Guards, NEW p \in Entries, NEW m \in BOOLEAN,
         CompleteSearch(g, p, m)
  PROVE  SearchTypes' /\ SearchInv'
  <1> DEFINE r == m /\ entryAlarm[p].metalAt = Unknown
             c == [entry |-> p, raise |-> r]
  <1>1. /\ entry[p] # NoEntry /\ completing' = [completing EXCEPT ![g] = c]
        /\ UNCHANGED <<searchClock, entry, entryAlarm, searchTick>>
    BY DEF CompleteSearch
  <1>2. r \in BOOLEAN
    OBVIOUS
  <1> HIDE DEF r
  <1>3. c \in Completions /\ c.entry = p
    BY <1>2 DEF Completions
  <1> HIDE DEF c
  <1>4. /\ completing' \in [Guards -> Completions \cup {NoCompletion}] /\ completing'[g] = c
        /\ \A h \in Guards : h # g => completing'[h] = completing[h]
    BY <1>1, <1>3 DEF SearchTypes
  <1>5. SearchTypes'
    BY <1>1, <1>4 DEF SearchTypes
  <1>6. SearchInv'
    BY <1>1, <1>3, <1>4 DEF SearchInv, Overdue
  <1> QED
    BY <1>5, <1>6

\* A completion is dated when it is committed, and an alarm of the detector that another guard
\* has raised meanwhile is not raised again.
LEMMA CompleteCommitStep ==
  ASSUME SearchTypes, SearchInv, NEW g \in Guards, CompleteCommit(g)
  PROVE  SearchTypes' /\ SearchInv'
  <1> DEFINE p == completing[g].entry
             e == entry[p]
             a == entryAlarm[p]
             done == IF e.completedAt = Unknown THEN searchClock ELSE e.completedAt
             raised == completing[g].raise /\ InsertSucceeds(p)
  <1>1. /\ p \in Entries /\ e \in EntryRows /\ a \in AlarmCounts
    BY DEF CompleteCommit, SearchTypes, SearchInv, Completions
  <1>2. /\ entry' = [entry EXCEPT ![p].completedAt = done]
        /\ entryAlarm' = IF raised THEN [entryAlarm EXCEPT ![p].metal = @ + 1, ![p].metalAt = searchClock]
                                   ELSE entryAlarm
        /\ completing' = [completing EXCEPT ![g] = NoCompletion]
        /\ UNCHANGED <<searchClock, searchTick>>
    BY DEF CompleteCommit
  <1>3. /\ searchClock \in Nat /\ searchClock <= SearchMaxTime /\ searchClock # Unknown
        /\ e.completedAt \in 0 .. Unknown /\ done \in 0 .. Unknown /\ e.ts \in Nat
    BY <1>1, SearchNumbers DEF SearchTypes, EntryRows
  <1>4. e.ts + SearchGrace <= searchClock /\ e.ts + SearchGrace <= e.completedAt
          => e.ts + SearchGrace <= done
    OBVIOUS
  <1>5. raised => a.metalAt = Unknown
    BY DEF InsertSucceeds
  <1>6. a.metal <= 1 + a.purges /\ (a.metalAt = Unknown => a.metal <= a.purges)
    BY <1>1 DEF SearchInv
  <1> HIDE DEF done, raised
  <1>7. /\ entry'[p] \in EntryRows /\ entry'[p].completedAt = done /\ entry'[p].ts = e.ts
        /\ entry'[p].selected = e.selected /\ entry'[p].escalated = e.escalated
        /\ \A q \in Entries : q # p => entry'[q] = entry[q]
        /\ entry' \in [Entries -> EntryRows \cup {NoEntry}]
    BY <1>1, <1>2, <1>3 DEF SearchTypes, EntryRows
  <1>8. /\ entryAlarm'[p] \in AlarmCounts /\ entryAlarm'[p].denied = a.denied
        /\ entryAlarm'[p].missed = a.missed /\ entryAlarm'[p].purges = a.purges
        /\ entryAlarm'[p].metal <= 1 + a.purges
        /\ entryAlarm'[p].metalAt = Unknown => entryAlarm'[p].metal <= a.purges
        /\ \A q \in Entries : q # p => entryAlarm'[q] = entryAlarm[q]
        /\ entryAlarm' \in [Entries -> AlarmCounts]
    <2>1. CASE raised
      BY <1>1, <1>2, <1>3, <1>5, <1>6, <2>1, SearchNumbers DEF SearchTypes, AlarmCounts
    <2>2. CASE ~raised
      BY <1>1, <1>2, <1>6, <2>2 DEF SearchTypes, AlarmCounts
    <2> QED
      BY <2>1, <2>2
  <1>9. /\ completing' \in [Guards -> Completions \cup {NoCompletion}]
        /\ \A h \in Guards : completing'[h] # NoCompletion => completing'[h] = completing[h]
    BY <1>2 DEF SearchTypes
  <1>10. SearchTypes'
    BY <1>2, <1>7, <1>8, <1>9 DEF SearchTypes
  <1>11. \A q \in Entries : /\ entry[q] # NoEntry => entry'[q] # NoEntry
                            /\ entry'[q] = NoEntry => entry[q] = NoEntry
                            /\ entry'[q].selected = entry[q].selected
                            /\ entry'[q].escalated = entry[q].escalated
                            /\ Overdue(q) => Overdue(q)'
    BY <1>1, <1>2, <1>4, <1>7, RowsAreRows DEF Overdue
  <1>12. SearchInv'
    <2>1. \A h \in Guards : completing'[h] # NoCompletion => entry'[completing'[h].entry] # NoEntry
      <3> SUFFICES ASSUME NEW h \in Guards, completing'[h] # NoCompletion
                   PROVE  entry'[completing'[h].entry] # NoEntry
        OBVIOUS
      <3>1. completing'[h] = completing[h] /\ completing[h] # NoCompletion
        BY <1>9
      <3>2. completing[h].entry \in Entries /\ entry[completing[h].entry] # NoEntry
        BY <3>1 DEF SearchTypes, SearchInv, Completions
      <3> QED
        BY <1>11, <3>1, <3>2
    <2>2. \A q \in searchTick'.batch : /\ entry'[q] # NoEntry /\ entry'[q].selected
                                       /\ ~entry'[q].escalated /\ Overdue(q)'
      BY <1>2, <1>11 DEF SearchInv, SearchTypes
    <2>3. \A q \in Entries :
            /\ entryAlarm'[q].denied = entryAlarm[q].denied
            /\ entryAlarm'[q].missed = entryAlarm[q].missed
            /\ entryAlarm'[q].metal <= 1 + entryAlarm'[q].purges
            /\ entryAlarm'[q].metalAt = Unknown => entryAlarm'[q].metal <= entryAlarm'[q].purges
      BY <1>8 DEF SearchInv
    <2> QED
      BY <1>11, <2>1, <2>2, <2>3 DEF SearchInv
  <1> QED
    BY <1>10, <1>12

\* The tick reads what is selected, open, overdue and never escalated; or dies.
LEMMA DetectStep == ASSUME SearchTypes, SearchInv, DetectMissedSearches \/ SearchTickDies
                    PROVE  SearchTypes' /\ SearchInv'
  <1>1. UNCHANGED <<searchClock, entry, entryAlarm, completing>>
    BY DEF DetectMissedSearches, SearchTickDies
  <1>2. \/ searchTick' = TickIdle
        \/ searchTick' = [running |-> TRUE,
                          batch |-> {p \in Entries : SearchPending(p)
                                                     /\ entry[p].ts + SearchGrace <= searchClock}]
    BY DEF DetectMissedSearches, SearchTickDies
  <1>3. /\ searchTick'.batch \subseteq Entries
        /\ \A p \in searchTick'.batch : SearchPending(p) /\ entry[p].ts + SearchGrace <= searchClock
    BY <1>2 DEF TickIdle
  <1>4. \A p \in searchTick'.batch : Overdue(p)
    <2> SUFFICES ASSUME NEW p \in searchTick'.batch PROVE Overdue(p)
      OBVIOUS
    <2>1. entry[p] \in EntryRows /\ entry[p].completedAt = Unknown
      BY <1>3 DEF SearchPending, SearchTypes
    <2>2. entry[p].ts \in Nat /\ searchClock \in Nat /\ searchClock <= SearchMaxTime
      BY <2>1, SearchNumbers DEF EntryRows, SearchTypes
    <2> QED
      BY <1>3, <2>1, <2>2, SearchNumbers DEF Overdue
  <1>5. SearchTypes'
    BY <1>1, <1>3 DEF SearchTypes
  <1>6. SearchInv'
    BY <1>1, <1>3, <1>4 DEF SearchInv, Overdue, SearchPending
  <1> QED
    BY <1>5, <1>6

\* A search that is escalated is escalated for good, so its alarm is its only one.
LEMMA TickCommitStep == ASSUME SearchTypes, SearchInv, SearchTickCommit PROVE SearchTypes' /\ SearchInv'
  <1> DEFINE b == searchTick.batch
  <1>1. /\ entry' = [p \in Entries |-> IF p \in b THEN [entry[p] EXCEPT !.escalated = TRUE] ELSE entry[p]]
        /\ entryAlarm' = [p \in Entries |->
             IF p \in b /\ entryAlarm[p].missedAt = Unknown
             THEN [entryAlarm[p] EXCEPT !.missed = @ + 1, !.missedAt = searchClock]
             ELSE entryAlarm[p]]
        /\ searchTick' = TickIdle /\ UNCHANGED <<searchClock, completing>>
    BY DEF SearchTickCommit
  <1>2. searchTick'.batch = {} /\ searchClock \in 0 .. Unknown
    <2>1. searchTick'.batch = {}
      BY <1>1 DEF TickIdle
    <2>2. searchClock \in 0 .. SearchMaxTime
      BY DEF SearchTypes
    <2> QED
      BY <2>1, <2>2, SearchNumbers
  <1>3. ASSUME NEW p \in Entries
        PROVE  /\ entry'[p] \in EntryRows \cup {NoEntry}
               /\ entry'[p] = NoEntry <=> entry[p] = NoEntry
               /\ entry[p] # NoEntry => /\ entry'[p].selected = entry[p].selected
                                        /\ entry'[p].ts = entry[p].ts
                                        /\ entry'[p].completedAt = entry[p].completedAt
               /\ p \notin b => entry'[p] = entry[p]
               /\ p \in b => entry'[p].escalated
    <2>1. CASE p \in b
      <3>1. entry[p] \in EntryRows /\ entry'[p] = [entry[p] EXCEPT !.escalated = TRUE]
        BY <1>1, <2>1 DEF SearchTypes, SearchInv
      <3>2. /\ entry'[p] \in EntryRows /\ entry'[p].selected = entry[p].selected
            /\ entry'[p].ts = entry[p].ts /\ entry'[p].completedAt = entry[p].completedAt
            /\ entry'[p].escalated = TRUE
        BY <3>1 DEF EntryRows
      <3> QED
        BY <2>1, <3>1, <3>2, RowsAreRows
    <2>2. CASE p \notin b
      <3>1. entry'[p] = entry[p]
        BY <1>1, <2>2
      <3> QED
        BY <2>2, <3>1 DEF SearchTypes
    <2> QED
      BY <2>1, <2>2
  <1>4. ASSUME NEW p \in Entries
        PROVE  /\ entryAlarm'[p] \in AlarmCounts /\ entryAlarm'[p].denied = entryAlarm[p].denied
               /\ entryAlarm'[p].metal = entryAlarm[p].metal
               /\ entryAlarm'[p].metalAt = entryAlarm[p].metalAt
               /\ entryAlarm'[p].purges = entryAlarm[p].purges
               /\ p \notin b => entryAlarm'[p].missed = entryAlarm[p].missed
               /\ p \in b => entryAlarm'[p].missed <= 1
    <2>1. entryAlarm[p] \in AlarmCounts
      BY DEF SearchTypes
    <2>2. p \in b => entryAlarm[p].missed = 0
      BY DEF SearchInv
    <2>3. CASE p \in b /\ entryAlarm[p].missedAt = Unknown
      <3>1. entryAlarm'[p] = [entryAlarm[p] EXCEPT !.missed = @ + 1, !.missedAt = searchClock]
        BY <1>1, <2>3
      <3> DEFINE n == entryAlarm[p].missed + 1
      <3>2. entryAlarm'[p] = [entryAlarm[p] EXCEPT !.missed = n, !.missedAt = searchClock]
        BY <3>1
      <3>3. n \in Nat /\ n <= 1
        BY <2>2, <2>3
      <3> HIDE DEF n
      <3> QED
        BY <1>2, <2>1, <2>3, <3>2, <3>3 DEF AlarmCounts
    <2>4. CASE ~ (p \in b /\ entryAlarm[p].missedAt = Unknown)
      <3>1. entryAlarm'[p] = entryAlarm[p]
        BY <1>1, <2>4
      <3> QED
        BY <2>1, <2>2, <3>1
    <2> QED
      BY <2>3, <2>4
  <1>5. SearchTypes'
    <2>1. entry' \in [Entries -> EntryRows \cup {NoEntry}] /\ entryAlarm' \in [Entries -> AlarmCounts]
      BY <1>1, <1>3, <1>4
    <2> QED
      BY <1>1, <1>2, <2>1 DEF SearchTypes
  <1>6. SearchInv'
    <2>1. \A g \in Guards : completing'[g] # NoCompletion => entry'[completing'[g].entry] # NoEntry
      <3> SUFFICES ASSUME NEW g \in Guards, completing[g] # NoCompletion
                   PROVE  entry'[completing[g].entry] # NoEntry
        BY <1>1
      <3>1. completing[g].entry \in Entries /\ entry[completing[g].entry] # NoEntry
        BY DEF SearchTypes, SearchInv, Completions
      <3> QED
        BY <1>3, <3>1
    <2>2. ASSUME NEW p \in Entries
          PROVE  /\ entry'[p] = NoEntry => entryAlarm'[p].denied = 0 /\ entryAlarm'[p].missed = 0
                 /\ entryAlarm'[p].denied <= 1 /\ entryAlarm'[p].missed <= 1
                 /\ entry'[p] # NoEntry /\ ~entry'[p].escalated => entryAlarm'[p].missed = 0
                 /\ entryAlarm'[p].missed = 1 => entry'[p].selected /\ Overdue(p)'
      <3>1. entry[p] # NoEntry => (Overdue(p) => Overdue(p)')
        BY <1>1, <1>3 DEF Overdue
      <3>2. CASE p \in b
        <4>1. entry[p] # NoEntry /\ entry[p].selected /\ Overdue(p)
          BY <3>2 DEF SearchInv
        <4> QED
          BY <1>3, <1>4, <3>1, <3>2, <4>1 DEF SearchInv
      <3>3. CASE p \notin b
        BY <1>3, <1>4, <3>1, <3>3 DEF SearchInv
      <3> QED
        BY <3>2, <3>3
    <2> QED
      BY <1>2, <1>4, <2>1, <2>2 DEF SearchInv
  <1> QED
    BY <1>5, <1>6

\* A purge is remembered for the detector's alarm.
LEMMA PurgeStep == ASSUME SearchTypes, SearchInv, PurgeEntryAlarms PROVE SearchTypes' /\ SearchInv'
  <1>1. /\ entryAlarm' = [p \in Entries |->
             [entryAlarm[p] EXCEPT !.missedAt = IF Old(@) THEN Unknown ELSE @,
                                   !.metalAt = IF Old(@) THEN Unknown ELSE @,
                                   !.purges = IF Old(entryAlarm[p].metalAt) THEN @ + 1 ELSE @]]
        /\ UNCHANGED <<searchClock, entry, completing, searchTick>>
    BY DEF PurgeEntryAlarms
  <1>2. ASSUME NEW p \in Entries
        PROVE  /\ entryAlarm'[p] \in AlarmCounts /\ entryAlarm'[p].denied = entryAlarm[p].denied
               /\ entryAlarm'[p].missed = entryAlarm[p].missed
               /\ entryAlarm'[p].metal <= 1 + entryAlarm'[p].purges
               /\ entryAlarm'[p].metalAt = Unknown => entryAlarm'[p].metal <= entryAlarm'[p].purges
    <2> DEFINE a == entryAlarm[p]
               x == IF Old(a.missedAt) THEN Unknown ELSE a.missedAt
               y == IF Old(a.metalAt) THEN Unknown ELSE a.metalAt
               z == IF Old(a.metalAt) THEN a.purges + 1 ELSE a.purges
    <2>1. a \in AlarmCounts /\ a.metal <= 1 + a.purges /\ (a.metalAt = Unknown => a.metal <= a.purges)
      BY DEF SearchTypes, SearchInv
    <2>2. entryAlarm'[p] = [a EXCEPT !.missedAt = x, !.metalAt = y, !.purges = z]
      BY <1>1
    <2>3. x \in 0 .. Unknown /\ y \in 0 .. Unknown /\ z \in Nat
      BY <2>1, SearchNumbers DEF AlarmCounts
    <2>4. a.metal <= 1 + z /\ (y = Unknown => a.metal <= z)
      BY <2>1, SearchNumbers DEF AlarmCounts, Old
    <2> HIDE DEF x, y, z
    <2> QED
      BY <2>1, <2>2, <2>3, <2>4 DEF AlarmCounts
  <1>3. SearchTypes'
    <2>1. entryAlarm' \in [Entries -> AlarmCounts]
      BY <1>1, <1>2
    <2> QED
      BY <1>1, <2>1 DEF SearchTypes
  <1>4. SearchInv'
    BY <1>1, <1>2 DEF SearchInv, Overdue
  <1> QED
    BY <1>3, <1>4

\* Time passes.
LEMMA ClockStep == ASSUME SearchTypes, SearchInv, SearchClockTick PROVE SearchTypes' /\ SearchInv'
  <1>1. /\ searchClock \in Nat /\ searchClock' = searchClock + 1 /\ searchClock' \in 0 .. SearchMaxTime
        /\ UNCHANGED <<entry, entryAlarm, completing, searchTick>>
    BY SearchNumbers DEF SearchClockTick, SearchTypes
  <1>2. ASSUME NEW p \in Entries, entry[p] # NoEntry, Overdue(p) PROVE Overdue(p)'
    <2>1. entry[p].ts \in Nat
      BY <1>2, SearchNumbers DEF SearchTypes, EntryRows
    <2> QED
      BY <1>1, <1>2, <2>1, SearchNumbers DEF Overdue
  <1>3. SearchTypes'
    BY <1>1 DEF SearchTypes
  <1>4. SearchInv'
    <2>1. \A p \in Entries : entryAlarm[p].missed = 1 => entry[p] # NoEntry
      BY DEF SearchInv
    <2> QED
      BY <1>1, <1>2, <2>1 DEF SearchInv, SearchTypes
  <1> QED
    BY <1>3, <1>4

\* Every step keeps the searches' invariant.
LEMMA SearchStepInv == SearchTypes /\ SearchInv /\ [SearchNext]_searchVars => SearchTypes' /\ SearchInv'
  <1> SUFFICES ASSUME SearchTypes, SearchInv, [SearchNext]_searchVars PROVE SearchTypes' /\ SearchInv'
    OBVIOUS
  <1>1. CASE UNCHANGED <<searchClock, entry, entryAlarm, completing, searchTick>>
    BY <1>1 DEF SearchTypes, SearchInv, Overdue
  <1>2. CASE UNCHANGED searchVars
    BY <1>1, <1>2 DEF searchVars
  <1>3. CASE EraseOperator \/ \E s, i \in BOOLEAN : SetOperatorAccessStatus(s, i)
    BY <1>1, <1>3 DEF EraseOperator, SetOperatorAccessStatus
  <1> QED
    BY <1>2, <1>3, IngestStep, CompleteSearchStep, CompleteCommitStep, DetectStep, TickCommitStep,
       PurgeStep, ClockStep DEF SearchNext

\* A gate passage raises each of its alarms once (ingest_access_event, detect_missed_searches),
\* the detector's once per recorded result (complete_search), and a search completed within the
\* grace is never escalated; for any passages, guards, grace and retention.
THEOREM PassagesAlarmOnce == SearchSpec => []PassageAlarmsOnce
  <1>1. SearchTypes /\ SearchInv => PassageAlarmsOnce
    <2> SUFFICES ASSUME SearchTypes, SearchInv, NEW p \in Entries
                 PROVE  LET a == entryAlarm[p] IN
                          /\ a.denied <= 1 /\ a.missed <= 1 /\ a.metal <= 1 + a.purges
                          /\ a.missed = 1 =>
                               entry[p].selected /\ entry[p].completedAt >= entry[p].ts + SearchGrace
      BY DEF PassageAlarmsOnce
    <2>1. entryAlarm[p].missed = 1 => entry[p] \in EntryRows
      BY DEF SearchTypes, SearchInv
    <2>2. entryAlarm[p].missed = 1 => entry[p].completedAt >= entry[p].ts + SearchGrace
      BY <2>1, SearchNumbers DEF SearchInv, Overdue, EntryRows
    <2> QED
      BY <2>2 DEF SearchInv
  <1> QED
    BY <1>1, SearchInitInv, SearchStepInv, PTL DEF SearchSpec

-----------------------------------------------------------------------------
(* A tracker and the listener (TrackerLink).                               *)

TrackerRecords == [id : Nat, wild : BOOLEAN]
LinkRows == [phase : {"closed", "open"}, asset : TrackerAssets \cup {Unbound, SyntheticAsset},
             packet : Seq(TrackerRecords), damaged : BOOLEAN, done : Nat, ack : Nat]

TrackerTypes ==
  /\ trkStore \in Seq(TrackerRecords) /\ trkOn \in Links \cup {NoLink}
  /\ trkLink \in [Links -> LinkRows] /\ trkMade \in Nat
  /\ trkBinding \in TrackerAssets \cup {Unbound}

Published(x) == \E p \in trkSpool : p.record = x /\ p.asset \in trkBound

\* What has been published of the packet is in the spool for the asset of the handshake; on
\* the connection the tracker uses, the packet and the acknowledgement are of its oldest
\* records.
LinkHolds(l) ==
  LET x == trkLink[l] IN
  /\ x.phase = "open" => x.asset \in trkBound
  /\ x.packet # <<>> => x.phase = "open"
  /\ x.done <= Len(x.packet)
  /\ \A i \in 1 .. x.done : [record |-> x.packet[i], asset |-> x.asset] \in trkSpool
  /\ trkOn = l => /\ Len(x.packet) <= Len(trkStore) /\ x.ack <= Len(trkStore)
                  /\ x.ack # 0 => x.packet = <<>>
                  /\ \A i \in 1 .. Len(x.packet) : x.packet[i] = trkStore[i]
                  /\ \A i \in 1 .. x.ack : Published(trkStore[i])

TrackerInv ==
  /\ trkBinding # Unbound => trkBinding \in trkBound
  /\ ~StrictDevices => SyntheticAsset \in trkBound
  /\ \A l \in Links : LinkHolds(l)
  /\ DeletedIsPublished

\* A sequence that grows by an element.
LEMMA ToSetAppend == ASSUME NEW S, NEW s \in Seq(S), NEW e \in S
                     PROVE  ToSet(Append(s, e)) = ToSet(s) \cup {e}
  <1>1. /\ DOMAIN s = 1 .. Len(s) /\ DOMAIN Append(s, e) = 1 .. Len(s) + 1 /\ Len(s) \in Nat
        /\ \A i \in 1 .. Len(s) : Append(s, e)[i] = s[i]
        /\ Append(s, e)[Len(s) + 1] = e
    OBVIOUS
  <1>2. 1 .. Len(s) + 1 = (1 .. Len(s)) \cup {Len(s) + 1}
    BY <1>1
  <1> QED
    BY <1>1, <1>2 DEF ToSet

\* A packet has a size, and no connection is the absence of one.
LEMMA PacketNumbers == PacketSize \in Nat
  BY TrackerAssumption DEF TrackerAssumption

LEMMA LinksAreNamed == NoLink \notin Links
  BY TrackerAssumption DEF TrackerAssumption

\* A closed connection holds nothing.
LEMMA ClosedHolds == ASSUME NEW l, trkLink'[l] = ClosedLink, trkStore' \in Seq(TrackerRecords)
                     PROVE  LinkHolds(l)' /\ ClosedLink \in LinkRows
  <1>1. LinkHolds(l)'
    BY DEF LinkHolds, ClosedLink
  <1>2. ClosedLink \in LinkRows
    BY DEF LinkRows, ClosedLink
  <1> QED
    BY <1>1, <1>2

\* A connection a step leaves alone keeps its part: the spool and the assets only grow, and
\* the tracker's oldest records stay as they are.
LEMMA LinkKept ==
  ASSUME TrackerTypes, NEW l \in Links, LinkHolds(l), trkLink'[l] = trkLink[l],
         trkSpool \subseteq trkSpool', trkBound \subseteq trkBound',
         trkOn' = l => /\ trkOn = l /\ Len(trkStore) <= Len(trkStore')
                       /\ \A i \in 1 .. Len(trkStore) : trkStore'[i] = trkStore[i],
         Len(trkStore') \in Nat
  PROVE  LinkHolds(l)'
  <1> DEFINE x == trkLink[l]
  <1>1. x.done \in Nat /\ x.ack \in Nat /\ Len(x.packet) \in Nat /\ Len(trkStore) \in Nat
    BY DEF TrackerTypes, LinkRows
  <1>2. trkOn' = l => /\ Len(x.packet) <= Len(trkStore') /\ x.ack <= Len(trkStore')
                      /\ \A i \in 1 .. Len(x.packet) : x.packet[i] = trkStore'[i]
    BY <1>1 DEF LinkHolds
  <1>3. ASSUME trkOn' = l, NEW i \in 1 .. x.ack PROVE Published(trkStore[i])'
    <2>1. i \in 1 .. Len(trkStore) /\ Published(trkStore[i])
      BY <1>1, <1>3 DEF LinkHolds
    <2> QED
      BY <1>3, <2>1 DEF Published
  <1> QED
    BY <1>2, <1>3 DEF LinkHolds

\* What was published stays so.
LEMMA DeletedKept ==
  ASSUME TrackerInv, trkSpool \subseteq trkSpool', trkBound \subseteq trkBound',
         UNCHANGED <<trkStore, trkDeleted, trkMade>>
  PROVE  DeletedIsPublished'
  BY DEF TrackerInv, DeletedIsPublished

\* The steps that leave the records, the spool and the bindings alone and close connections
\* or open them.
LEMMA LinkStep ==
  ASSUME TrackerTypes, TrackerInv,
         UNCHANGED <<trkStore, trkSpool, trkBinding, trkBound, trkDeleted, trkMade>>,
         trkLink' \in [Links -> LinkRows], trkOn' \in Links \cup {NoLink},
         \A l \in Links : LinkHolds(l)'
  PROVE  TrackerTypes' /\ TrackerInv'
  <1>1. DeletedIsPublished'
    BY DeletedKept
  <1> QED
    BY <1>1 DEF TrackerTypes, TrackerInv

\* The tracker makes a record.
LEMMA MakeStep == ASSUME TrackerTypes, TrackerInv, NEW wild \in BOOLEAN, MakeRecord(wild)
                  PROVE  TrackerTypes' /\ TrackerInv'
  <1> DEFINE x == [id |-> trkMade + 1, wild |-> wild]
  <1>1. /\ trkStore' = Append(trkStore, x) /\ trkMade' = trkMade + 1
        /\ UNCHANGED <<trkOn, trkLink, trkBinding, trkBound, trkSpool, trkDeleted>>
    BY DEF MakeRecord
  <1>2. x \in TrackerRecords /\ x.id = trkMade + 1
    BY DEF TrackerTypes, TrackerRecords
  <1> HIDE DEF x
  <1>3. /\ trkStore' \in Seq(TrackerRecords) /\ Len(trkStore') = Len(trkStore) + 1
        /\ Len(trkStore) \in Nat /\ trkStore'[Len(trkStore) + 1] = x
        /\ \A i \in 1 .. Len(trkStore) : trkStore'[i] = trkStore[i]
    BY <1>1, <1>2 DEF TrackerTypes
  <1>4. ASSUME NEW l \in Links PROVE LinkHolds(l)'
    BY <1>1, <1>3, LinkKept DEF TrackerInv
  <1>5. ToSet(trkStore') = ToSet(trkStore) \cup {x}
    BY <1>1, <1>2, ToSetAppend DEF TrackerTypes
  <1>6. DeletedIsPublished'
    <2>1. 1 .. trkMade' = (1 .. trkMade) \cup {trkMade + 1}
      BY <1>1 DEF TrackerTypes
    <2>2. {y.id : y \in trkDeleted' \cup ToSet(trkStore')}
            = {y.id : y \in trkDeleted \cup ToSet(trkStore)} \cup {x.id}
      BY <1>1, <1>5, Zenon
    <2> QED
      BY <1>1, <1>2, <2>1, <2>2 DEF DeletedIsPublished, TrackerInv
  <1>7. TrackerTypes'
    BY <1>1, <1>3 DEF TrackerTypes
  <1> QED
    BY <1>1, <1>4, <1>6, <1>7 DEF TrackerInv

\* The tracker sends its oldest records.
LEMMA SendStep == ASSUME TrackerTypes, TrackerInv, NEW damaged \in BOOLEAN, SendPacket(damaged)
                  PROVE  TrackerTypes' /\ TrackerInv'
  <1>1. PICK n \in 1 .. PacketSize :
          /\ n <= Len(trkStore)
          /\ trkLink' = [trkLink EXCEPT ![trkOn].packet = SubSeq(trkStore, 1, n),
                                        ![trkOn].damaged = damaged, ![trkOn].done = 0]
    BY DEF SendPacket
  <1>2. /\ trkOn \in Links /\ trkLink[trkOn].phase = "open" /\ trkLink[trkOn].ack = 0
        /\ UNCHANGED <<trkStore, trkOn, trkBinding, trkBound, trkSpool, trkDeleted, trkMade>>
    BY DEF SendPacket, TrackerTypes
  <1> DEFINE q == SubSeq(trkStore, 1, n)
             x == trkLink[trkOn]
  <1>3. /\ q \in Seq(TrackerRecords) /\ Len(q) = n /\ n \in Nat /\ Len(q) <= Len(trkStore)
        /\ \A i \in 1 .. Len(q) : q[i] = trkStore[i]
    BY <1>1, PacketNumbers, SubSeqProperties DEF TrackerTypes
  <1>4. trkLink'[trkOn] = [x EXCEPT !.packet = q, !.damaged = damaged, !.done = 0]
    BY <1>1, <1>2 DEF TrackerTypes
  <1> HIDE DEF q
  <1>5. /\ trkLink'[trkOn] \in LinkRows /\ trkLink'[trkOn].packet = q /\ trkLink'[trkOn].done = 0
        /\ trkLink'[trkOn].ack = 0 /\ trkLink'[trkOn].asset = x.asset
        /\ trkLink'[trkOn].phase = "open"
    <2>1. x \in LinkRows
      BY <1>2 DEF TrackerTypes
    <2> QED
      BY <1>2, <1>3, <1>4, <2>1 DEF LinkRows
  <1>6. LinkHolds(trkOn)'
    <2>1. x.asset \in trkBound
      BY <1>2 DEF TrackerInv, LinkHolds
    <2> QED
      BY <1>2, <1>3, <1>5, <2>1 DEF LinkHolds, TrackerTypes
  <1>7. ASSUME NEW l \in Links PROVE LinkHolds(l)'
    <2>1. CASE l = trkOn
      BY <1>2, <1>6, <2>1
    <2>2. CASE l # trkOn
      <3>1. trkLink'[l] = trkLink[l] /\ Len(trkStore') \in Nat
        BY <1>1, <1>2, <2>2 DEF TrackerTypes
      <3> QED
        BY <1>2, <2>2, <3>1, LinkKept DEF TrackerInv
    <2> QED
      BY <2>1, <2>2
  <1>8. trkLink' \in [Links -> LinkRows]
    <2>1. \A l \in Links : l # trkOn => trkLink'[l] = trkLink[l]
      BY <1>1 DEF TrackerTypes
    <2>2. \A l \in Links : trkLink'[l] \in LinkRows
      BY <1>5, <2>1 DEF TrackerTypes
    <2>3. trkLink' = [l \in Links |-> trkLink'[l]]
      BY <1>1 DEF TrackerTypes
    <2> QED
      BY <2>2, <2>3
  <1> QED
    BY <1>2, <1>7, <1>8, LinkStep DEF TrackerTypes

\* The tracker deletes what is acknowledged.
LEMMA ReceiveStep == ASSUME TrackerTypes, TrackerInv, ReceiveAck PROVE TrackerTypes' /\ TrackerInv'
  <1> DEFINE x == trkLink[trkOn]
             n == x.ack
             old == SubSeq(trkStore, 1, n)
             new == SubSeq(trkStore, n + 1, Len(trkStore))
  <1>1. /\ trkDeleted' = trkDeleted \cup ToSet(old) /\ trkStore' = new
        /\ trkLink' = [trkLink EXCEPT ![trkOn].ack = 0] /\ trkOn \in Links /\ n # 0
        /\ UNCHANGED <<trkOn, trkBinding, trkBound, trkSpool, trkMade>>
    BY DEF ReceiveAck, TrackerTypes
  <1>2. x \in LinkRows /\ n \in Nat /\ LinkHolds(trkOn)
    BY <1>1 DEF TrackerTypes, TrackerInv, LinkRows
  <1>3. n <= Len(trkStore) /\ x.packet = <<>> /\ x.done = 0
    BY <1>1, <1>2 DEF LinkHolds, LinkRows
  <1>4. /\ old \in Seq(TrackerRecords) /\ Len(old) = n /\ \A i \in 1 .. n : old[i] = trkStore[i]
        /\ new \in Seq(TrackerRecords) /\ Len(new) = Len(trkStore) - n
        /\ \A i \in 1 .. Len(trkStore) - n : new[i] = trkStore[n + i]
    <2>1. n \in Nat /\ n <= Len(trkStore) /\ trkStore \in Seq(TrackerRecords) /\ Len(trkStore) \in Nat
      BY <1>2, <1>3 DEF TrackerTypes
    <2> HIDE DEF n
    <2>2. /\ old \in Seq(TrackerRecords) /\ Len(old) = n
          /\ \A i \in 1 .. n : old[i] = trkStore[i]
      BY <2>1
    <2>3. /\ new \in Seq(TrackerRecords) /\ Len(new) = Len(trkStore) - n
          /\ \A i \in 1 .. Len(trkStore) - n : new[i] = trkStore[n + i]
      BY <2>1
    <2> QED
      BY <2>2, <2>3
  <1>5. trkLink'[trkOn] = [x EXCEPT !.ack = 0]
    BY <1>1 DEF TrackerTypes
  <1> HIDE DEF old, new
  <1>6. /\ trkLink'[trkOn] \in LinkRows /\ trkLink'[trkOn].packet = <<>> /\ trkLink'[trkOn].done = 0
        /\ trkLink'[trkOn].ack = 0 /\ trkLink'[trkOn].asset = x.asset
        /\ trkLink'[trkOn].phase = x.phase
    BY <1>2, <1>3, <1>5 DEF LinkRows
  <1>7. LinkHolds(trkOn)'
    BY <1>1, <1>2, <1>4, <1>6 DEF LinkHolds
  <1>8. ASSUME NEW l \in Links PROVE LinkHolds(l)'
    <2>1. CASE l = trkOn
      BY <1>1, <1>7, <2>1
    <2>2. CASE l # trkOn
      <3>1. trkLink'[l] = trkLink[l] /\ Len(trkStore') \in Nat
        BY <1>1, <1>4, <2>2 DEF TrackerTypes
      <3> QED
        BY <1>1, <2>2, <3>1, LinkKept DEF TrackerInv
    <2> QED
      BY <2>1, <2>2
  <1>9. TrackerTypes'
    <2>1. \A l \in Links : l # trkOn => trkLink'[l] = trkLink[l]
      BY <1>1 DEF TrackerTypes
    <2>2. \A l \in Links : trkLink'[l] \in LinkRows
      BY <1>6, <2>1 DEF TrackerTypes
    <2>3. trkLink' = [l \in Links |-> trkLink'[l]]
      BY <1>1 DEF TrackerTypes
    <2>4. trkLink' \in [Links -> LinkRows]
      BY <2>2, <2>3
    <2> QED
      BY <1>1, <1>4, <2>4 DEF TrackerTypes
  <1>10. ToSet(trkStore) = ToSet(old) \cup ToSet(new)
    <2>1. /\ DOMAIN trkStore = 1 .. Len(trkStore) /\ Len(trkStore) \in Nat
          /\ DOMAIN old = 1 .. n /\ DOMAIN new = 1 .. Len(trkStore) - n
      BY <1>4 DEF TrackerTypes
    <2>2. ASSUME NEW i \in DOMAIN trkStore PROVE trkStore[i] \in ToSet(old) \cup ToSet(new)
      <3>1. CASE i <= n
        <4>1. i \in DOMAIN old /\ old[i] = trkStore[i]
          BY <1>2, <1>4, <2>1, <2>2, <3>1
        <4> QED
          BY <4>1 DEF ToSet
      <3>2. CASE i > n
        <4>1. i - n \in DOMAIN new /\ new[i - n] = trkStore[i]
          <5>1. i \in Nat /\ i <= Len(trkStore) /\ i > n /\ n \in Nat
            BY <1>2, <2>1, <2>2, <3>2
          <5> HIDE DEF n
          <5>2. i - n \in 1 .. Len(trkStore) - n /\ n + (i - n) = i
            BY <2>1, <5>1
          <5> QED
            BY <1>4, <2>1, <5>2
        <4> QED
          BY <4>1 DEF ToSet
      <3> QED
        BY <1>2, <2>1, <2>2, <3>1, <3>2
    <2>3. ASSUME NEW i \in DOMAIN old PROVE i \in DOMAIN trkStore /\ old[i] = trkStore[i]
      BY <1>2, <1>3, <1>4, <2>1, <2>3
    <2>4. ASSUME NEW i \in DOMAIN new PROVE n + i \in DOMAIN trkStore /\ new[i] = trkStore[n + i]
      BY <1>2, <1>3, <1>4, <2>1, <2>4
    <2> QED
      BY <2>2, <2>3, <2>4 DEF ToSet
  <1>11. ASSUME NEW y \in ToSet(old) PROVE Published(y)
    <2>1. PICK i \in DOMAIN old : y = old[i]
      BY <1>11 DEF ToSet
    <2>2. i \in 1 .. n /\ old[i] = trkStore[i]
      BY <1>4, <2>1
    <2> QED
      BY <1>2, <2>1, <2>2 DEF LinkHolds
  <1>12. DeletedIsPublished'
    <2>1. trkDeleted' \cup ToSet(trkStore') = trkDeleted \cup ToSet(trkStore)
      BY <1>1, <1>10
    <2>2. \A y \in trkDeleted' : \E p \in trkSpool : p.record = y /\ p.asset \in trkBound
      BY <1>1, <1>11 DEF TrackerInv, DeletedIsPublished, Published
    <2> QED
      BY <1>1, <2>1, <2>2 DEF TrackerInv, DeletedIsPublished
  <1> QED
    BY <1>1, <1>8, <1>9, <1>12 DEF TrackerInv

\* The tracker gives its connection up, or the listener loses them all.
LEMMA LoseStep == ASSUME TrackerTypes, TrackerInv, LoseLink \/ CrashListener
                  PROVE  TrackerTypes' /\ TrackerInv'
  <1>1. /\ trkOn' = NoLink /\ Len(trkStore') \in Nat
        /\ UNCHANGED <<trkStore, trkSpool, trkBinding, trkBound, trkDeleted, trkMade>>
    BY DEF LoseLink, CrashListener, TrackerTypes
  <1>2. CASE LoseLink
    <2>1. UNCHANGED trkLink /\ trkOn # NoLink
      BY <1>2 DEF LoseLink
    <2>2. ASSUME NEW l \in Links PROVE LinkHolds(l)'
      <3>1. trkLink'[l] = trkLink[l] /\ LinkHolds(l)
        BY <2>1 DEF TrackerInv
      <3>2. CASE l # NoLink
        BY <1>1, <3>1, <3>2, LinkKept
      <3>3. CASE l = NoLink
        BY <3>3, LinksAreNamed
      <3> QED
        BY <3>2, <3>3
    <2> QED
      BY <1>1, <2>1, <2>2, LinkStep DEF TrackerTypes
  <1>3. CASE CrashListener
    <2>1. trkLink' = [l \in Links |-> ClosedLink]
      BY <1>3 DEF CrashListener
    <2>2. ASSUME NEW l \in Links PROVE LinkHolds(l)' /\ ClosedLink \in LinkRows
      BY <1>1, <2>1, ClosedHolds DEF TrackerTypes
    <2>3. trkLink' \in [Links -> LinkRows]
      BY <2>1, <2>2
    <2> QED
      BY <1>1, <2>2, <2>3, LinkStep
  <1> QED
    BY <1>2, <1>3

\* A connection is closed.
LEMMA CloseStep ==
  ASSUME TrackerTypes, TrackerInv, NEW l \in Links, CloseLink(l),
         UNCHANGED <<trkStore, trkBinding, trkBound, trkSpool, trkDeleted, trkMade>>
  PROVE  TrackerTypes' /\ TrackerInv'
  <1>1. /\ trkLink' = [trkLink EXCEPT ![l] = ClosedLink] /\ trkLink'[l] = ClosedLink
        /\ trkOn' = IF trkOn = l THEN NoLink ELSE trkOn
        /\ trkStore' \in Seq(TrackerRecords) /\ Len(trkStore') \in Nat
    BY DEF CloseLink, TrackerTypes
  <1>2. ClosedLink \in LinkRows /\ LinkHolds(l)'
    BY <1>1, ClosedHolds
  <1>3. ASSUME NEW k \in Links PROVE LinkHolds(k)'
    <2>1. CASE k # l
      <3>1. trkLink'[k] = trkLink[k] /\ LinkHolds(k)
        BY <1>1, <2>1 DEF TrackerTypes, TrackerInv
      <3>2. trkOn' = k => trkOn = k
        BY <1>1, LinksAreNamed
      <3> QED
        BY <1>1, <3>1, <3>2, LinkKept
    <2> QED
      BY <1>2, <2>1
  <1>4. trkLink' \in [Links -> LinkRows] /\ trkOn' \in Links \cup {NoLink}
    BY <1>1, <1>2 DEF TrackerTypes
  <1> QED
    BY <1>3, <1>4, LinkStep

\* The tracker connects.
LEMMA HandshakeStep == ASSUME TrackerTypes, TrackerInv, NEW l \in Links, Handshake(l)
                       PROVE  TrackerTypes' /\ TrackerInv'
  <1> DEFINE x == [ClosedLink EXCEPT !.phase = "open", !.asset = Resolve]
  <1>1. /\ trkOn' = IF Resolve = Unbound THEN NoLink ELSE l
        /\ trkLink' = [trkLink EXCEPT ![l] = IF Resolve = Unbound THEN ClosedLink ELSE x]
        /\ trkOn = NoLink
        /\ UNCHANGED <<trkStore, trkBinding, trkBound, trkSpool, trkDeleted, trkMade>>
        /\ trkStore' \in Seq(TrackerRecords) /\ Len(trkStore') \in Nat
    BY DEF Handshake, TrackerTypes
  <1>2. /\ Resolve \in TrackerAssets \cup {Unbound, SyntheticAsset}
        /\ Resolve # Unbound => Resolve \in trkBound
    BY DEF Resolve, TrackerTypes, TrackerInv
  <1>3. /\ x \in LinkRows /\ x.packet = <<>> /\ x.done = 0 /\ x.ack = 0 /\ x.asset = Resolve
        /\ x.phase = "open"
    <2>1. /\ ClosedLink \in LinkRows /\ ClosedLink.packet = <<>> /\ ClosedLink.done = 0
          /\ ClosedLink.ack = 0
      BY DEF LinkRows, ClosedLink
    <2> QED
      BY <1>2, <2>1 DEF LinkRows
  <1> HIDE DEF x
  <1>4. /\ trkLink'[l] = IF Resolve = Unbound THEN ClosedLink ELSE x
        /\ \A k \in Links : k # l => trkLink'[k] = trkLink[k]
    BY <1>1 DEF TrackerTypes
  <1>5. LinkHolds(l)'
    <2>1. CASE Resolve = Unbound
      BY <1>1, <1>4, <2>1, ClosedHolds
    <2>2. CASE Resolve # Unbound
      BY <1>1, <1>2, <1>3, <1>4, <2>2 DEF LinkHolds
    <2> QED
      BY <2>1, <2>2
  <1>6. ASSUME NEW k \in Links PROVE LinkHolds(k)'
    <2>1. CASE k # l
      <3>1. trkOn' # k /\ LinkHolds(k)
        BY <1>1, <2>1, LinksAreNamed DEF TrackerInv
      <3> QED
        BY <1>1, <1>4, <2>1, <3>1, LinkKept
    <2> QED
      BY <1>5, <2>1
  <1>7. ClosedLink \in LinkRows
    BY DEF LinkRows, ClosedLink
  <1>8. trkLink' \in [Links -> LinkRows] /\ trkOn' \in Links \cup {NoLink}
    BY <1>1, <1>3, <1>7 DEF TrackerTypes
  <1> QED
    BY <1>1, <1>6, <1>8, LinkStep

\* The listener publishes the next record of a packet.
LEMMA PublishStep == ASSUME TrackerTypes, TrackerInv, NEW l \in Links, PublishRecord(l)
                     PROVE  TrackerTypes' /\ TrackerInv'
  <1> DEFINE x == trkLink[l]
             n == x.done + 1
             row == [record |-> x.packet[n], asset |-> x.asset]
  <1>1. /\ trkSpool' = trkSpool \cup {row} /\ trkLink' = [trkLink EXCEPT ![l].done = @ + 1]
        /\ x.packet # <<>> /\ x.done < Len(x.packet)
        /\ UNCHANGED <<trkStore, trkOn, trkBinding, trkBound, trkDeleted, trkMade>>
    BY DEF PublishRecord
  <1>2. x \in LinkRows /\ LinkHolds(l) /\ Len(trkStore') \in Nat /\ trkOn \in Links \cup {NoLink}
    BY <1>1 DEF TrackerTypes, TrackerInv
  <1>3. x.done \in Nat /\ n \in Nat /\ Len(x.packet) \in Nat /\ n <= Len(x.packet)
    BY <1>1, <1>2 DEF LinkRows
  <1>4. trkLink'[l] = [x EXCEPT !.done = n] /\ \A k \in Links : k # l => trkLink'[k] = trkLink[k]
    BY <1>1 DEF TrackerTypes
  <1>5. \A i \in 1 .. n : i \in 1 .. x.done \/ i = n
    BY <1>3
  <1> HIDE DEF n
  <1>6. /\ trkLink'[l] \in LinkRows /\ trkLink'[l].packet = x.packet /\ trkLink'[l].done = n
        /\ trkLink'[l].ack = x.ack /\ trkLink'[l].asset = x.asset /\ trkLink'[l].phase = x.phase
    BY <1>2, <1>3, <1>4 DEF LinkRows
  <1>7. LinkHolds(l)'
    <2>1. \A i \in 1 .. n : [record |-> x.packet[i], asset |-> x.asset] \in trkSpool'
      BY <1>1, <1>2, <1>5 DEF LinkHolds
    <2>2. trkOn = l => \A i \in 1 .. x.ack : Published(trkStore[i])'
      BY <1>1, <1>2 DEF LinkHolds, Published
    <2> QED
      BY <1>1, <1>2, <1>3, <1>6, <2>1, <2>2 DEF LinkHolds
  <1>8. ASSUME NEW k \in Links PROVE LinkHolds(k)'
    <2>1. CASE k # l
      <3>1. trkLink'[k] = trkLink[k] /\ LinkHolds(k)
        BY <1>4, <2>1 DEF TrackerInv
      <3> QED
        BY <1>1, <1>2, <3>1, LinkKept
    <2> QED
      BY <1>7, <2>1
  <1>9. trkLink' \in [Links -> LinkRows]
    <2>1. \A k \in Links : trkLink'[k] \in LinkRows
      BY <1>4, <1>6 DEF TrackerTypes
    <2>2. trkLink' = [k \in Links |-> trkLink'[k]]
      BY <1>1 DEF TrackerTypes
    <2> QED
      BY <2>1, <2>2
  <1>10. DeletedIsPublished'
    BY <1>1, DeletedKept
  <1> QED
    BY <1>1, <1>8, <1>9, <1>10 DEF TrackerTypes, TrackerInv

\* The listener acknowledges a packet: all of it is published, and it is of the tracker's
\* oldest records.
LEMMA AckStep == ASSUME TrackerTypes, TrackerInv, NEW l \in Links, AckPacket(l)
                 PROVE  TrackerTypes' /\ TrackerInv'
  <1> DEFINE x == trkLink[l]
             n == Len(x.packet)
  <1>1. /\ trkLink' = [trkLink EXCEPT ![l].ack = n, ![l].packet = <<>>, ![l].done = 0]
        /\ x.packet # <<>> /\ x.done = n /\ trkOn = l
        /\ UNCHANGED <<trkStore, trkOn, trkBinding, trkBound, trkSpool, trkDeleted, trkMade>>
    BY DEF AckPacket, ReadyToAck
  <1>2. x \in LinkRows /\ LinkHolds(l) /\ Len(trkStore) \in Nat /\ n \in Nat
    BY <1>1 DEF TrackerTypes, TrackerInv, LinkRows
  <1>3. trkLink'[l] = [x EXCEPT !.ack = n, !.packet = <<>>, !.done = 0]
    BY <1>1 DEF TrackerTypes
  <1>4. /\ n <= Len(trkStore) /\ x.asset \in trkBound
        /\ \A i \in 1 .. n : x.packet[i] = trkStore[i]
        /\ \A i \in 1 .. n : [record |-> x.packet[i], asset |-> x.asset] \in trkSpool
    BY <1>1, <1>2 DEF LinkHolds
  <1> HIDE DEF n
  <1>5. /\ trkLink'[l] \in LinkRows /\ trkLink'[l].packet = <<>> /\ trkLink'[l].done = 0
        /\ trkLink'[l].ack = n /\ trkLink'[l].asset = x.asset /\ trkLink'[l].phase = x.phase
    <2> DEFINE e == <<>>
    <2>1. e \in Seq(TrackerRecords) /\ trkLink'[l] = [x EXCEPT !.ack = n, !.packet = e, !.done = 0]
      BY <1>3
    <2> HIDE DEF e
    <2>2. x \in LinkRows /\ n \in Nat
      BY <1>2
    <2> HIDE DEF x
    <2>3. trkLink'[l] \in LinkRows
      <3>1. [x EXCEPT !.ack = n] \in LinkRows
        BY <2>2 DEF LinkRows
      <3>2. [[x EXCEPT !.ack = n] EXCEPT !.packet = e] \in LinkRows
        BY <2>1, <3>1 DEF LinkRows
      <3>3. [[[x EXCEPT !.ack = n] EXCEPT !.packet = e] EXCEPT !.done = 0] \in LinkRows
        BY <3>2 DEF LinkRows
      <3>4. trkLink'[l] = [[[x EXCEPT !.ack = n] EXCEPT !.packet = e] EXCEPT !.done = 0]
        BY <2>1
      <3> QED
        BY <3>3, <3>4
    <2>4. /\ trkLink'[l].packet = e /\ trkLink'[l].done = 0 /\ trkLink'[l].ack = n
          /\ trkLink'[l].asset = x.asset /\ trkLink'[l].phase = x.phase
      BY <2>1, <2>2 DEF LinkRows
    <2> QED
      BY <2>3, <2>4 DEF e
  <1>6. ASSUME NEW i \in 1 .. n PROVE Published(trkStore[i])
    <2> DEFINE p == [record |-> x.packet[i], asset |-> x.asset]
    <2>1. p \in trkSpool /\ p.record = trkStore[i] /\ p.asset \in trkBound
      BY <1>4
    <2> QED
      BY <2>1 DEF Published
  <1>7. LinkHolds(l)'
    <2>1. \A i \in 1 .. n : Published(trkStore[i])'
      BY <1>1, <1>6 DEF Published
    <2> QED
      <3>1. /\ trkLink'[l].ack # 0 => trkLink'[l].packet = <<>>
            /\ Len(trkLink'[l].packet) = 0 /\ 0 <= Len(trkStore)
            /\ trkLink'[l].phase = "open" => trkLink'[l].asset \in trkBound'
        BY <1>1, <1>2, <1>4, <1>5
      <3> QED
        <4>1. trkLink'[l].phase = "open" => trkLink'[l].asset \in trkBound'
          BY <3>1
        <4>2. trkLink'[l].packet # <<>> => trkLink'[l].phase = "open"
          BY <1>5
        <4>3. trkLink'[l].done <= Len(trkLink'[l].packet)
          BY <1>5, <3>1
        <4>4. 1 .. trkLink'[l].done = {}
          BY <1>5
        <4>5. 1 .. Len(trkLink'[l].packet) = {}
          BY <3>1
        <4>6. trkLink'[l].ack <= Len(trkStore)'
          BY <1>1, <1>4, <1>5
        <4>7. \A i \in 1 .. trkLink'[l].ack : Published(trkStore[i])'
          BY <1>5, <2>1
        <4> QED
          BY <1>1, <3>1, <4>1, <4>2, <4>3, <4>4, <4>5, <4>6, <4>7 DEF LinkHolds
  <1>8. ASSUME NEW k \in Links PROVE LinkHolds(k)'
    <2>1. CASE k # l
      <3>1. trkLink'[k] = trkLink[k] /\ LinkHolds(k) /\ trkOn' # k
        BY <1>1, <2>1 DEF TrackerTypes, TrackerInv
      <3> QED
        BY <1>1, <1>2, <3>1, LinkKept
    <2> QED
      BY <1>7, <2>1
  <1>9. trkLink' \in [Links -> LinkRows]
    <2>1. \A k \in Links : k # l => trkLink'[k] = trkLink[k]
      BY <1>1 DEF TrackerTypes
    <2>2. \A k \in Links : trkLink'[k] \in LinkRows
      BY <1>5, <2>1 DEF TrackerTypes
    <2>3. trkLink' = [k \in Links |-> trkLink'[k]]
      BY <1>1 DEF TrackerTypes
    <2> QED
      BY <2>2, <2>3
  <1> QED
    BY <1>1, <1>8, <1>9, LinkStep DEF TrackerTypes

\* The device is bound to another asset, or unbound.
LEMMA RebindStep == ASSUME TrackerTypes, TrackerInv, NEW b \in TrackerAssets \cup {Unbound}, Rebind(b)
                    PROVE  TrackerTypes' /\ TrackerInv'
  <1>1. /\ trkBinding' = b /\ trkBound' = trkBound \cup (TrackerAssets \cap {b})
        /\ UNCHANGED <<trkStore, trkOn, trkLink, trkSpool, trkDeleted, trkMade>>
        /\ Len(trkStore') \in Nat
    BY DEF Rebind, TrackerTypes
  <1>2. ASSUME NEW l \in Links PROVE LinkHolds(l)'
    BY <1>1, LinkKept DEF TrackerInv
  <1>3. DeletedIsPublished'
    BY <1>1, DeletedKept
  <1>4. /\ trkBinding' # Unbound => trkBinding' \in trkBound'
        /\ ~StrictDevices => SyntheticAsset \in trkBound'
    BY <1>1 DEF TrackerInv
  <1> QED
    BY <1>1, <1>2, <1>3, <1>4 DEF TrackerTypes, TrackerInv

\* The tracker and the listener begin with nothing.
LEMMA TrackerInitInv == TrackerInit => TrackerTypes /\ TrackerInv
  <1> SUFFICES ASSUME TrackerInit PROVE TrackerTypes /\ TrackerInv
    OBVIOUS
  <1>1. TrackerTypes
    BY DEF TrackerInit, TrackerTypes, LinkRows, ClosedLink
  <1>2. \A l \in Links : LinkHolds(l)
    BY DEF TrackerInit, LinkHolds, ClosedLink
  <1>3. DeletedIsPublished
    <2>1. trkDeleted \cup ToSet(trkStore) = {} /\ 1 .. trkMade = {}
      BY DEF TrackerInit, ToSet
    <2> QED
      BY <2>1 DEF TrackerInit, DeletedIsPublished
  <1> QED
    BY <1>1, <1>2, <1>3 DEF TrackerInit, TrackerInv

\* Every step keeps the link's invariant.
LEMMA TrackerStepInv == TrackerTypes /\ TrackerInv /\ [TrackerNext]_trkVars => TrackerTypes' /\ TrackerInv'
  <1> SUFFICES ASSUME TrackerTypes, TrackerInv, [TrackerNext]_trkVars PROVE TrackerTypes' /\ TrackerInv'
    OBVIOUS
  <1>1. CASE UNCHANGED trkVars
    <2>1. \A l \in Links : LinkHolds(l)'
      BY <1>1 DEF trkVars, TrackerInv, LinkHolds, Published
    <2> QED
      BY <1>1, <2>1, DeletedKept DEF trkVars, TrackerTypes, TrackerInv
  <1>2. ASSUME NEW l \in Links, RefusePacket(l) \/ EndLink(l) PROVE TrackerTypes' /\ TrackerInv'
    BY <1>2, CloseStep DEF RefusePacket, EndLink
  <1> QED
    BY <1>1, <1>2, MakeStep, SendStep, ReceiveStep, LoseStep, HandshakeStep, PublishStep, AckStep,
       RebindStep DEF TrackerNext

\* What a tracker deletes has been published for an asset it was bound to, and nothing it made
\* is gone otherwise (TeltonikaServer._handle acknowledges after publish_position of the whole
\* packet); for any connections, packets, records and rebindings.
THEOREM TrackerLosesNothing == TrackerSpec => []DeletedIsPublished
  <1>1. TrackerInv => DeletedIsPublished
    BY DEF TrackerInv
  <1> QED
    BY <1>1, TrackerInitInv, TrackerStepInv, PTL DEF TrackerSpec

-----------------------------------------------------------------------------
(* Events of the recorders (VendorEvents).                                 *)

RunRows == [busy : BOOLEAN, batch : Seq(RawEvents), done : Nat, records : SUBSET NvrIds,
            alarms : Seq(NvrIds), alone : BOOLEAN]

VendorTypes ==
  /\ nvrRun \in [NvrRuns -> RunRows] /\ nvrAlarms \subseteq NvrIds
  /\ nvrRepeated \in BOOLEAN /\ nvrMissed \in BOOLEAN

\* What a run would alarm has its record: its own, a stored one, or one retention deleted.
RunSound(r) ==
  LET x == nvrRun[r] IN
  /\ x.done <= Len(x.batch) /\ IsFiniteSet(ToSet(x.alarms))
  /\ ToSet(x.alarms) \subseteq x.records \cup nvrRecords \cup nvrLost

\* A run that has the tables to itself collides neither with them nor with itself, and has
\* alarmed all it has read.
RunAlone(r) ==
  LET x == nvrRun[r] IN
  x.busy /\ x.alone =>
    /\ ~BatchCollides(x)
    /\ {x.batch[i].id : i \in 1 .. x.done} \subseteq nvrAlarms \cup ToSet(x.alarms)
    /\ \A s \in NvrRuns \ {r} : ~nvrRun[s].busy

VendorInv ==
  /\ nvrOwed = NvrIds \ nvrAlarms
  /\ \A r \in NvrRuns : RunSound(r) /\ RunAlone(r)
  /\ VendorEventsLand

\* A batch has a size.
LEMMA BatchNumbers == MaxNvrBatch \in Nat
  BY VendorAssumption DEF VendorAssumption

\* An idle run holds nothing.
LEMMA NoRunIsSound ==
  /\ NoRun \in RunRows /\ ~NoRun.busy /\ NoRun.done = 0 /\ ToSet(NoRun.alarms) = {}
  /\ Len(NoRun.batch) = 0 /\ Len(NoRun.alarms) = 0 /\ NoRun.records = {} /\ NoRun.batch = <<>>
  /\ NoRun.alarms = <<>> /\ IsFiniteSet(ToSet(NoRun.alarms)) /\ Cardinality(ToSet(NoRun.alarms)) = 0
  <1>1. ToSet(NoRun.alarms) = {}
    BY DEF NoRun, ToSet
  <1>2. NoRun \in RunRows
    BY DEF NoRun, RunRows
  <1> QED
    BY <1>1, <1>2, FS_EmptySet DEF NoRun

\* A run that keeps its events and alarms is as sound as before while no record vanishes
\* untraced.
LEMMA SoundKept ==
  ASSUME NEW r, RunSound(r),
         nvrRun'[r].done = nvrRun[r].done, nvrRun'[r].batch = nvrRun[r].batch,
         nvrRun'[r].alarms = nvrRun[r].alarms, nvrRun'[r].records = nvrRun[r].records,
         nvrRecords \cup nvrLost \subseteq nvrRecords' \cup nvrLost'
  PROVE  RunSound(r)'
  BY DEF RunSound

\* A batch begins.
LEMMA VendorBeginStep == ASSUME VendorTypes, VendorInv, NEW r \in NvrRuns, NEW batch \in NvrBatches,
                          BeginBatch(r, batch)
                   PROVE  VendorTypes' /\ VendorInv'
  <1> DEFINE x == [NoRun EXCEPT !.busy = TRUE, !.batch = batch]
             runs == [nvrRun EXCEPT ![r] = x]
             others == \E s \in NvrRuns \ {r} : nvrRun[s].busy
  <1>1. /\ nvrRun' = IF others THEN NotAlone(runs) ELSE runs
        /\ UNCHANGED <<nvrRecords, nvrAlarms, nvrOwed, nvrLost, nvrRepeated, nvrMissed>>
    BY DEF BeginBatch
  <1>2. batch \in Seq(RawEvents)
    BY BatchNumbers DEF NvrBatches
  <1>3. /\ x \in RunRows /\ x.done = 0 /\ x.batch = batch /\ x.records = {}
        /\ Len(x.alarms) = 0 /\ ToSet(x.alarms) = {}
    BY <1>2, NoRunIsSound DEF RunRows
  <1> HIDE DEF x
  <1>4. /\ runs \in [NvrRuns -> RunRows] /\ runs[r] = x
        /\ \A s \in NvrRuns : s # r => runs[s] = nvrRun[s]
    BY <1>3 DEF VendorTypes
  <1> HIDE DEF runs
  <1>5. ASSUME NEW s \in NvrRuns
        PROVE  /\ nvrRun'[s] \in RunRows /\ nvrRun'[s].done = runs[s].done
               /\ nvrRun'[s].batch = runs[s].batch /\ nvrRun'[s].alarms = runs[s].alarms
               /\ nvrRun'[s].records = runs[s].records /\ nvrRun'[s].busy = runs[s].busy
               /\ others => nvrRun'[s].alone = FALSE
               /\ ~others => nvrRun'[s] = runs[s]
    <2>1. runs[s] \in RunRows
      BY <1>4
    <2>2. CASE others
      <3>1. nvrRun'[s] = [runs[s] EXCEPT !.alone = FALSE]
        BY <1>1, <2>2 DEF NotAlone
      <3> QED
        BY <2>1, <2>2, <3>1 DEF RunRows
    <2>3. CASE ~others
      BY <1>1, <2>1, <2>3
    <2> QED
      BY <2>2, <2>3
  <1>6. nvrRun' \in [NvrRuns -> RunRows]
    <2>1. nvrRun' = [s \in NvrRuns |-> nvrRun'[s]]
      BY <1>1, <1>4 DEF NotAlone
    <2> QED
      BY <1>5, <2>1
  <1>7. ASSUME NEW s \in NvrRuns PROVE RunSound(s)'
    <2>1. CASE s = r
      <3>1. ToSet(nvrRun'[r].alarms) = {} /\ nvrRun'[r].done = 0 /\ Len(nvrRun'[r].batch) \in Nat
        <4>1. /\ nvrRun'[r].alarms = x.alarms /\ nvrRun'[r].done = x.done
              /\ nvrRun'[r].batch = x.batch
          BY <1>4, <1>5
        <4>2. Len(x.batch) \in Nat
          BY <1>2, <1>3
        <4> QED
          BY <1>3, <4>1, <4>2
      <3> QED
        BY <2>1, <3>1, FS_EmptySet DEF RunSound
    <2>2. CASE s # r
      <3>1. /\ RunSound(s) /\ nvrRun'[s].done = nvrRun[s].done
            /\ nvrRun'[s].batch = nvrRun[s].batch /\ nvrRun'[s].alarms = nvrRun[s].alarms
            /\ nvrRun'[s].records = nvrRun[s].records
        BY <1>4, <1>5, <2>2 DEF VendorInv
      <3> QED
        BY <1>1, <3>1, SoundKept
    <2> QED
      BY <2>1, <2>2
  <1>8. ASSUME NEW s \in NvrRuns PROVE RunAlone(s)'
    <2>1. CASE others
      BY <1>5, <2>1 DEF RunAlone
    <2>2. CASE ~others
      <3>1. \A q \in NvrRuns \ {r} : ~nvrRun'[q].busy
        BY <1>4, <1>5, <2>2
      <3>2. CASE s # r
        BY <3>1, <3>2 DEF RunAlone
      <3>3. CASE s = r
        <4>1. nvrRun'[r] = x
          BY <1>4, <1>5, <2>2
        <4>2. ~BatchCollides(x)'
          <5>1. Cardinality(ToSet(x.alarms)) = 0 /\ Len(x.alarms) = 0 /\ x.records = {}
            BY <1>3, FS_EmptySet
          <5> QED
            BY <1>3, <5>1 DEF BatchCollides
        <4>3. 1 .. x.done = {}
          BY <1>3
        <4> QED
          BY <3>1, <3>3, <4>1, <4>2, <4>3 DEF RunAlone
      <3> QED
        BY <3>2, <3>3
    <2> QED
      BY <2>1, <2>2
  <1>9. VendorEventsLand'
    BY <1>1 DEF VendorInv, VendorEventsLand
  <1> QED
    BY <1>1, <1>6, <1>7, <1>8, <1>9 DEF VendorTypes, VendorInv

\* A batch is given up: it was malformed, or ran against another.
LEMMA VendorAbortStep ==
  ASSUME VendorTypes, VendorInv, NEW r \in NvrRuns, AbortBatch(r),
         ~(nvrRun[r].alone /\ \A raw \in ToSet(nvrRun[r].batch) : Normalises(raw))
  PROVE  VendorTypes' /\ VendorInv'
  <1>1. /\ nvrRun' = [nvrRun EXCEPT ![r] = NoRun] /\ nvrMissed' = FALSE
        /\ UNCHANGED <<nvrRecords, nvrAlarms, nvrOwed, nvrLost, nvrRepeated>>
    BY DEF AbortBatch, VendorInv, VendorEventsLand
  <1>2. /\ nvrRun'[r] = NoRun /\ \A s \in NvrRuns : s # r => nvrRun'[s] = nvrRun[s]
        /\ nvrRun' \in [NvrRuns -> RunRows]
    BY <1>1, NoRunIsSound DEF VendorTypes
  <1>3. ASSUME NEW s \in NvrRuns PROVE RunSound(s)' /\ RunAlone(s)'
    <2>1. CASE s = r
      <3>1. /\ nvrRun'[s].done <= Len(nvrRun'[s].batch) /\ IsFiniteSet(ToSet(nvrRun'[s].alarms))
            /\ ToSet(nvrRun'[s].alarms) = {} /\ ~nvrRun'[s].busy
        <4>1. nvrRun'[s] = NoRun
          BY <1>2, <2>1
        <4>2. NoRun.done <= Len(NoRun.batch)
          BY NoRunIsSound
        <4> QED
          BY <4>1, <4>2, NoRunIsSound
      <3> QED
        BY <3>1 DEF RunSound, RunAlone
    <2>2. CASE s # r
      <3>1. nvrRun'[s] = nvrRun[s] /\ RunSound(s) /\ RunAlone(s)
        BY <1>2, <2>2 DEF VendorInv
      <3>2. RunSound(s)'
        BY <1>1, <3>1, SoundKept
      <3>3. nvrRun[s].busy /\ nvrRun[s].alone => ~BatchCollides(nvrRun[s])'
        BY <1>1, <1>2, <2>2, <3>1 DEF RunAlone, BatchCollides
      <3>4. \A q \in NvrRuns : ~nvrRun[q].busy => ~nvrRun'[q].busy
        BY <1>2, NoRunIsSound
      <3> QED
        BY <1>1, <3>1, <3>2, <3>3, <3>4 DEF RunAlone
    <2> QED
      BY <2>1, <2>2
  <1> QED
    BY <1>1, <1>2, <1>3 DEF VendorTypes, VendorInv, VendorEventsLand

\* An event is ingested, skipped as known, or aborts its batch.
LEMMA VendorIngestStep == ASSUME VendorTypes, VendorInv, NEW r \in NvrRuns, IngestEvent(r)
                    PROVE  VendorTypes' /\ VendorInv'
  <1> DEFINE x == nvrRun[r]
             n == x.done + 1
             raw == x.batch[n]
             y == nvrRun'[r]
  <1>1. x \in RunRows /\ x.busy /\ x.done < Len(x.batch) /\ RunSound(r) /\ RunAlone(r)
    BY DEF IngestEvent, VendorTypes, VendorInv
  <1>2. /\ x.batch \in Seq(RawEvents) /\ x.done \in Nat /\ x.alarms \in Seq(NvrIds)
        /\ x.records \subseteq NvrIds /\ Len(x.batch) \in Nat /\ Len(x.alarms) \in Nat
    BY <1>1 DEF RunRows
  <1>3. n \in 1 .. Len(x.batch) /\ n \in Nat /\ raw \in ToSet(x.batch) /\ raw \in RawEvents
    <2>1. n \in Nat /\ n \in 1 .. Len(x.batch)
      BY <1>1, <1>2
    <2>2. n \in DOMAIN x.batch /\ raw \in RawEvents
      BY <1>2, <2>1
    <2> QED
      BY <2>1, <2>2 DEF ToSet
  <1>4. CASE ~Normalises(raw) \/ ~BuildsRecord(raw)
    <2>1. AbortBatch(r) /\ ~Normalises(raw)
      BY <1>4 DEF IngestEvent, Normalises, BuildsRecord
    <2> QED
      BY <1>3, <2>1, VendorAbortStep
  <1>5. CASE Normalises(raw) /\ BuildsRecord(raw)
    <2>1. /\ nvrRun' = [nvrRun EXCEPT ![r] =
                          IF KnownEvent(r, raw.id) THEN [x EXCEPT !.done = @ + 1]
                          ELSE [x EXCEPT !.done = @ + 1, !.records = NewRecords(r, raw.id),
                                         !.alarms = Append(@, raw.id)]]
          /\ UNCHANGED <<nvrRecords, nvrAlarms, nvrOwed, nvrLost, nvrRepeated, nvrMissed>>
      BY <1>5 DEF IngestEvent
    <2>2. \A s \in NvrRuns : s # r => nvrRun'[s] = nvrRun[s]
      BY <2>1 DEF VendorTypes
    <2>3. raw.id \in NvrIds
      BY <1>3 DEF RawEvents
    <2>4. /\ y \in RunRows /\ y.done = n /\ y.batch = x.batch /\ y.busy = x.busy /\ y.alone = x.alone
          /\ \/ /\ KnownEvent(r, raw.id) /\ y.records = x.records /\ y.alarms = x.alarms
             \/ /\ ~KnownEvent(r, raw.id) /\ y.records = NewRecords(r, raw.id)
                /\ y.alarms = Append(x.alarms, raw.id)
      <3> DEFINE recs == NewRecords(r, raw.id)
                 alms == Append(x.alarms, raw.id)
      <3>1. y = IF KnownEvent(r, raw.id) THEN [x EXCEPT !.done = n]
                ELSE [x EXCEPT !.done = n, !.records = recs, !.alarms = alms]
        BY <2>1 DEF VendorTypes
      <3>2. recs \in SUBSET NvrIds /\ alms \in Seq(NvrIds)
        BY <1>2, <2>3 DEF NewRecords
      <3>3. x \in RunRows /\ n \in Nat
        BY <1>1, <1>3
      <3> HIDE DEF x, n, y, recs, alms
      <3>4. CASE KnownEvent(r, raw.id)
        <4>1. y = [x EXCEPT !.done = n]
          BY <3>1, <3>4
        <4>2. /\ y \in RunRows /\ y.done = n /\ y.batch = x.batch /\ y.busy = x.busy
              /\ y.alone = x.alone /\ y.records = x.records /\ y.alarms = x.alarms
          BY <3>3, <4>1 DEF RunRows
        <4> QED
          BY <3>4, <4>2
      <3>5. CASE ~KnownEvent(r, raw.id)
        <4>1. y = [x EXCEPT !.done = n, !.records = recs, !.alarms = alms]
          BY <3>1, <3>5
        <4>2. /\ y \in RunRows /\ y.done = n /\ y.batch = x.batch /\ y.busy = x.busy
              /\ y.alone = x.alone /\ y.records = recs /\ y.alarms = alms
          BY <3>2, <3>3, <4>1 DEF RunRows
        <4> QED
          BY <3>5, <4>2 DEF recs, alms
      <3> QED
        BY <3>4, <3>5
    <2>5. nvrRun' \in [NvrRuns -> RunRows]
      <3>1. nvrRun' = [s \in NvrRuns |-> nvrRun'[s]]
        BY <2>1 DEF VendorTypes
      <3> QED
        BY <2>2, <2>4, <3>1 DEF VendorTypes
    <2>6. ToSet(Append(x.alarms, raw.id)) = ToSet(x.alarms) \cup {raw.id}
      BY <1>2, <2>3, ToSetAppend
    <2>7. /\ IsFiniteSet(ToSet(x.alarms) \cup {raw.id})
          /\ raw.id \notin ToSet(x.alarms) =>
               Cardinality(ToSet(x.alarms) \cup {raw.id}) = Cardinality(ToSet(x.alarms)) + 1
          /\ Cardinality(ToSet(x.alarms)) \in Nat
      BY <1>1, FS_AddElement, FS_CardinalityType DEF RunSound
    <2>8. RunSound(r)'
      <3>1. y.done <= Len(y.batch) /\ IsFiniteSet(ToSet(y.alarms))
        <4>1. y.done <= Len(y.batch)
          BY <1>2, <1>3, <2>4
        <4>2. ToSet(y.alarms) = ToSet(x.alarms) \/ ToSet(y.alarms) = ToSet(x.alarms) \cup {raw.id}
          BY <2>4, <2>6
        <4>3. IsFiniteSet(ToSet(x.alarms))
          BY <1>1 DEF RunSound
        <4> QED
          BY <2>7, <4>1, <4>2, <4>3
      <3>2. ToSet(y.alarms) \subseteq y.records \cup nvrRecords \cup nvrLost
        BY <1>1, <2>4, <2>6 DEF RunSound, NewRecords
      <3> QED
        BY <2>1, <3>1, <3>2 DEF RunSound
    <2>9. RunAlone(r)'
      <3> SUFFICES ASSUME y.busy, y.alone
                   PROVE  /\ ~BatchCollides(nvrRun[r])'
                          /\ {y.batch[i].id : i \in 1 .. y.done} \subseteq nvrAlarms' \cup ToSet(y.alarms)
                          /\ \A s \in NvrRuns \ {r} : ~nvrRun'[s].busy
        BY DEF RunAlone
      <3>1. /\ ~BatchCollides(x)
            /\ {x.batch[i].id : i \in 1 .. x.done} \subseteq nvrAlarms \cup ToSet(x.alarms)
            /\ \A s \in NvrRuns \ {r} : ~nvrRun[s].busy
        BY <1>1, <2>4 DEF RunAlone
      <3>2. {x.batch[i].id : i \in 1 .. n} \subseteq {x.batch[i].id : i \in 1 .. x.done} \cup {raw.id}
        <4>1. \A i \in 1 .. n : i \in 1 .. x.done \/ i = n
          BY <1>2
        <4> QED
          BY <4>1
      <3>3. raw.id \in nvrAlarms \cup ToSet(y.alarms) /\ ToSet(x.alarms) \subseteq ToSet(y.alarms)
        BY <2>4, <2>6 DEF KnownEvent
      <3>4. {y.batch[i].id : i \in 1 .. y.done} \subseteq nvrAlarms' \cup ToSet(y.alarms)
        <4>1. {y.batch[i].id : i \in 1 .. y.done} = {x.batch[i].id : i \in 1 .. n}
          BY <2>4, Zenon
        <4> HIDE DEF n, raw
        <4> QED
          BY <2>1, <3>1, <3>2, <3>3, <4>1
      <3>5. ToSet(y.alarms) \cap nvrAlarms = {} /\ y.records \cap nvrRecords = {}
        <4>1. ToSet(x.alarms) \cap nvrAlarms = {} /\ x.records \cap nvrRecords = {}
          BY <3>1 DEF BatchCollides
        <4>2. CASE KnownEvent(r, raw.id)
          BY <2>4, <4>1, <4>2
        <4>3. CASE ~KnownEvent(r, raw.id)
          <5>1. ToSet(y.alarms) = ToSet(x.alarms) \cup {raw.id}
            BY <2>4, <2>6, <4>3
          <5>2. y.records = x.records \cup ({raw.id} \ nvrRecords)
            BY <2>4, <4>3 DEF NewRecords
          <5>3. raw.id \notin nvrAlarms
            BY <4>3 DEF KnownEvent
          <5> HIDE DEF y, x, raw
          <5> QED
            BY <4>1, <5>1, <5>2, <5>3
        <4> QED
          BY <4>2, <4>3
      <3>6. ~ (Cardinality(ToSet(y.alarms)) < Len(y.alarms))
        <4>1. ~ (Cardinality(ToSet(x.alarms)) < Len(x.alarms))
          BY <3>1 DEF BatchCollides
        <4>2. Len(Append(x.alarms, raw.id)) = Len(x.alarms) + 1
          BY <1>2, <2>3
        <4>3. CASE KnownEvent(r, raw.id)
          BY <2>4, <4>1, <4>3
        <4>4. CASE ~KnownEvent(r, raw.id)
          <5>1. Cardinality(ToSet(y.alarms)) = Cardinality(ToSet(x.alarms)) + 1
            BY <2>4, <2>6, <2>7, <4>4 DEF KnownEvent
          <5>2. Len(y.alarms) = Len(x.alarms) + 1
            BY <2>4, <4>2, <4>4
          <5> QED
            BY <1>2, <2>7, <4>1, <5>1, <5>2
        <4> QED
          BY <4>3, <4>4
      <3>7. ~BatchCollides(nvrRun[r])'
        BY <2>1, <3>5, <3>6 DEF BatchCollides
      <3> QED
        BY <2>2, <3>1, <3>4, <3>7
    <2>10. ASSUME NEW s \in NvrRuns, s # r PROVE RunSound(s)' /\ RunAlone(s)'
      <3>1. nvrRun'[s] = nvrRun[s] /\ RunSound(s) /\ RunAlone(s)
        BY <2>2, <2>10 DEF VendorInv
      <3>2. ~ (nvrRun[s].busy /\ nvrRun[s].alone)
        BY <1>1, <2>10, <3>1 DEF RunAlone
      <3>3. RunAlone(s)'
        BY <3>1, <3>2 DEF RunAlone
      <3> QED
        BY <2>1, <3>1, <3>3, SoundKept
    <2> QED
      BY <2>1, <2>5, <2>8, <2>9, <2>10 DEF VendorTypes, VendorInv, VendorEventsLand
  <1> QED
    BY <1>4, <1>5

\* A batch is committed, or collides with another and is given up.
LEMMA VendorCommitStep == ASSUME VendorTypes, VendorInv, NEW r \in NvrRuns, CommitBatch(r)
                    PROVE  VendorTypes' /\ VendorInv'
  <1> DEFINE x == nvrRun[r]
             new == ToSet(x.alarms)
             ids == {raw.id : raw \in ToSet(x.batch)}
  <1>1. x \in RunRows /\ x.busy /\ x.done = Len(x.batch) /\ RunSound(r) /\ RunAlone(r)
    BY DEF CommitBatch, VendorTypes, VendorInv
  <1>2. CASE BatchCollides(x)
    <2>1. AbortBatch(r) /\ ~x.alone
      BY <1>1, <1>2 DEF CommitBatch, RunAlone
    <2> QED
      BY <2>1, VendorAbortStep
  <1>3. CASE ~BatchCollides(x)
    <2>1. /\ nvrAlarms' = nvrAlarms \cup new /\ nvrRecords' = nvrRecords \cup x.records
          /\ nvrOwed' = nvrOwed \ new /\ nvrLost' = nvrLost \ x.records
          /\ nvrRepeated' = (nvrRepeated \/ ~new \subseteq nvrOwed)
          /\ nvrMissed' = (nvrMissed \/ (x.alone /\ ~ids \subseteq nvrAlarms'))
          /\ nvrRun' = [nvrRun EXCEPT ![r] = NoRun]
      BY <1>3 DEF CommitBatch
    <2>2. new \subseteq NvrIds /\ new \cap nvrAlarms = {}
      <3>1. x.alarms \in Seq(NvrIds)
        BY <1>1 DEF RunRows
      <3>2. new \subseteq NvrIds
        BY <3>1 DEF ToSet
      <3> QED
        BY <1>3, <3>2 DEF BatchCollides
    <2>3. x.alone => ids \subseteq nvrAlarms'
      <3> SUFFICES ASSUME x.alone PROVE ids \subseteq nvrAlarms'
        OBVIOUS
      <3>1. DOMAIN x.batch = 1 .. x.done
        BY <1>1 DEF RunRows
      <3>2. ids = {x.batch[i].id : i \in 1 .. x.done}
        BY <3>1 DEF ToSet
      <3> QED
        BY <1>1, <2>1, <3>2 DEF RunAlone
    <2>4. nvrOwed' = NvrIds \ nvrAlarms' /\ nvrRepeated' = FALSE /\ nvrMissed' = FALSE
      <3>1. nvrOwed = NvrIds \ nvrAlarms /\ nvrRepeated = FALSE /\ nvrMissed = FALSE
        BY DEF VendorInv, VendorEventsLand, VendorTypes
      <3>2. new \subseteq nvrOwed
        BY <2>2, <3>1
      <3>3. nvrOwed' = NvrIds \ nvrAlarms'
        BY <2>1, <3>1
      <3> QED
        BY <2>1, <2>3, <3>1, <3>2, <3>3
    <2>5. nvrAlarms' \subseteq nvrRecords' \cup nvrLost'
      <3>1. new \subseteq x.records \cup nvrRecords \cup nvrLost
        BY <1>1 DEF RunSound
      <3>2. nvrAlarms \subseteq nvrRecords \cup nvrLost
        BY DEF VendorInv, VendorEventsLand
      <3> HIDE DEF new
      <3> QED
        BY <2>1, <3>1, <3>2
    <2>6. /\ nvrRun'[r] = NoRun /\ \A s \in NvrRuns : s # r => nvrRun'[s] = nvrRun[s]
          /\ nvrRun' \in [NvrRuns -> RunRows]
      BY <2>1, NoRunIsSound DEF VendorTypes
    <2>7. ASSUME NEW s \in NvrRuns PROVE RunSound(s)' /\ RunAlone(s)'
      <3>1. CASE s = r
        <4>1. /\ nvrRun'[s].done <= Len(nvrRun'[s].batch) /\ IsFiniteSet(ToSet(nvrRun'[s].alarms))
              /\ ToSet(nvrRun'[s].alarms) = {} /\ ~nvrRun'[s].busy
          BY <2>6, <3>1, NoRunIsSound
        <4> QED
          BY <4>1 DEF RunSound, RunAlone
      <3>2. CASE s # r
        <4>1. nvrRun'[s] = nvrRun[s] /\ RunSound(s) /\ RunAlone(s)
          BY <2>6, <3>2 DEF VendorInv
        <4>2. ~ (nvrRun[s].busy /\ nvrRun[s].alone)
          BY <1>1, <3>2, <4>1 DEF RunAlone
        <4>3. RunAlone(s)'
          BY <4>1, <4>2 DEF RunAlone
        <4>4. nvrRecords \cup nvrLost \subseteq nvrRecords' \cup nvrLost'
          BY <2>1
        <4> QED
          BY <4>1, <4>3, <4>4, SoundKept
      <3> QED
        BY <3>1, <3>2
    <2>8. nvrAlarms' \subseteq NvrIds
      BY <2>1, <2>2 DEF VendorTypes
    <2> QED
      BY <2>4, <2>5, <2>6, <2>7, <2>8 DEF VendorTypes, VendorInv, VendorEventsLand
  <1> QED
    BY <1>2, <1>3

\* Retention deletes records, and alarms no incident points at.
LEMMA VendorPurgeStep == ASSUME VendorTypes, VendorInv, NEW old \in SUBSET NvrIds, PurgeVendorEvents(old)
                   PROVE  VendorTypes' /\ VendorInv'
  <1> DEFINE gone == (old \cap nvrAlarms) \ nvrHeld
  <1>1. /\ nvrAlarms' = nvrAlarms \ gone /\ nvrOwed' = nvrOwed \cup gone
        /\ nvrRecords' = nvrRecords \ old /\ nvrLost' = nvrLost \cup (nvrRecords \cap old)
        /\ nvrRun' = NotAlone(nvrRun) /\ UNCHANGED <<nvrRepeated, nvrMissed>>
    BY DEF PurgeVendorEvents
  <1>2. gone \subseteq nvrAlarms /\ nvrAlarms \subseteq NvrIds
    BY DEF VendorTypes
  <1> HIDE DEF gone
  <1>3. nvrOwed' = NvrIds \ nvrAlarms' /\ nvrAlarms' \subseteq NvrIds
    BY <1>1, <1>2 DEF VendorInv
  <1>4. nvrRecords' \cup nvrLost' = nvrRecords \cup nvrLost
    BY <1>1
  <1>5. nvrAlarms' \subseteq nvrRecords' \cup nvrLost'
    <2>1. nvrAlarms \subseteq nvrRecords \cup nvrLost
      BY DEF VendorInv, VendorEventsLand
    <2> QED
      BY <1>1, <1>4, <2>1
  <1>6. ASSUME NEW s \in NvrRuns
        PROVE  nvrRun'[s] \in RunRows /\ RunSound(s)' /\ RunAlone(s)'
    <2>1. nvrRun'[s] = [nvrRun[s] EXCEPT !.alone = FALSE] /\ nvrRun[s] \in RunRows
      BY <1>1 DEF NotAlone, VendorTypes
    <2>2. /\ nvrRun'[s] \in RunRows /\ nvrRun'[s].done = nvrRun[s].done
          /\ nvrRun'[s].batch = nvrRun[s].batch /\ nvrRun'[s].alarms = nvrRun[s].alarms
          /\ nvrRun'[s].records = nvrRun[s].records /\ nvrRun'[s].alone = FALSE
      BY <2>1 DEF RunRows
    <2>3. RunSound(s)
      BY DEF VendorInv
    <2>4. RunAlone(s)'
      BY <2>2 DEF RunAlone
    <2> QED
      BY <1>4, <2>2, <2>3, <2>4, SoundKept
  <1>7. nvrRun' \in [NvrRuns -> RunRows]
    <2>1. nvrRun' = [s \in NvrRuns |-> nvrRun'[s]]
      BY <1>1 DEF NotAlone
    <2> QED
      BY <1>6, <2>1
  <1> QED
    BY <1>1, <1>3, <1>5, <1>6, <1>7 DEF VendorTypes, VendorInv, VendorEventsLand

\* Every step keeps the recorders' invariant.
LEMMA VendorStepInv == VendorTypes /\ VendorInv /\ [VendorNext]_nvrVars => VendorTypes' /\ VendorInv'
  <1> SUFFICES ASSUME VendorTypes, VendorInv, [VendorNext]_nvrVars PROVE VendorTypes' /\ VendorInv'
    OBVIOUS
  <1>1. CASE UNCHANGED <<nvrRecords, nvrAlarms, nvrRun, nvrOwed, nvrLost, nvrRepeated, nvrMissed>>
    <2>1. \A r \in NvrRuns : RunSound(r)' /\ RunAlone(r)'
      BY <1>1 DEF VendorInv, RunSound, RunAlone, BatchCollides
    <2> QED
      BY <1>1, <2>1 DEF VendorTypes, VendorInv, VendorEventsLand
  <1>2. CASE UNCHANGED nvrVars
    BY <1>1, <1>2 DEF nvrVars
  <1>3. CASE \E id \in NvrIds : HoldAlarm(id)
    BY <1>1, <1>3 DEF HoldAlarm
  <1> QED
    BY <1>2, <1>3, VendorBeginStep, VendorIngestStep, VendorCommitStep, VendorPurgeStep DEF VendorNext

\* An event of a recorder is alarmed once while its alarm is kept, with its vendor record, and
\* a batch of acceptable events that runs alone lands whole (ingest_nvr_events); for any events,
\* codes, batches, runs and retention passes.
THEOREM RecorderEventsLand == VendorSpec => []VendorEventsLand
  <1>1. VendorInit => VendorTypes /\ VendorInv
    <2> SUFFICES ASSUME VendorInit PROVE VendorTypes /\ VendorInv
      OBVIOUS
    <2>1. VendorTypes
      BY NoRunIsSound DEF VendorInit, VendorTypes
    <2>2. \A r \in NvrRuns : nvrRun[r] = NoRun
      BY DEF VendorInit
    <2>3. NoRun.done <= Len(NoRun.batch)
      BY NoRunIsSound
    <2>4. \A r \in NvrRuns : RunSound(r) /\ RunAlone(r)
      BY <2>2, <2>3, NoRunIsSound DEF RunSound, RunAlone
    <2> QED
      BY <2>1, <2>4 DEF VendorInit, VendorInv, VendorEventsLand
  <1>2. VendorInv => VendorEventsLand
    BY DEF VendorInv
  <1> QED
    BY <1>1, <1>2, VendorStepInv, PTL DEF VendorSpec

-----------------------------------------------------------------------------
(* The camera of a node (CameraSource).                                    *)

\* While more was offered than time has passed, the next offer is not overdue by more than a
\* step: what was offered beyond the ticks is paid back before the next offer is due.
CadenceInv ==
  /\ srcDue \in Int /\ srcBucket \in Nat
  /\ srcBucket > 0 => srcBucket <= srcDue + SampleStep
  /\ SampleRateKept

\* Frames are offered at sample_fps in the mean (pump, _next_offer): for any cadence, any jitter
\* of the stream, any outages and backoff, at most two frames and a quarter of a step more than
\* the steps of any stretch of time.
THEOREM CadenceIsKept == SourceSpec => []SampleRateKept
  <1>1. SampleStep \in Nat \ {0}
    BY SourceAssumption DEF SourceAssumption
  <1>2. SourceInit => CadenceInv
    BY <1>1 DEF SourceInit, CadenceInv, SampleRateKept, OverdueCap
  <1>3. CadenceInv /\ [SourceNext]_srcVars => CadenceInv'
    <2> SUFFICES ASSUME CadenceInv, [SourceNext]_srcVars PROVE CadenceInv'
      OBVIOUS
    <2>1. CASE UNCHANGED <<srcDue, srcBucket>>
      BY <2>1 DEF CadenceInv, SampleRateKept
    <2>2. ASSUME NEW arrives \in BOOLEAN, CameraTick(arrives) PROVE CadenceInv'
      <3>1. srcDue' = MostOf(srcDue - 1, -OverdueCap) /\ srcBucket' = MostOf(srcBucket - 1, 0)
        BY <2>2 DEF CameraTick
      <3> QED
        BY <1>1, <3>1 DEF CadenceInv, SampleRateKept, MostOf, OverdueCap
    <2>3. CASE PumpReads
      <3>1. CASE SampleDue
        <4>1. srcDue' = NextDue(srcDue) /\ srcBucket' = srcBucket + SampleStep
          BY <2>3, <3>1 DEF PumpReads
        <4>2. srcDue <= SampleStep \div 4
          BY <1>1, <3>1 DEF SampleDue, CadenceInv
        <4> QED
          BY <1>1, <4>1, <4>2 DEF CadenceInv, SampleRateKept, NextDue
      <3>2. CASE ~SampleDue
        BY <2>1, <2>3, <3>2 DEF PumpReads
      <3> QED
        BY <3>1, <3>2
    <2>4. CASE CameraFails \/ CameraReturns \/ TakeFrame \/ PumpWaits \/ PumpOpens \/ PumpBlocks
               \/ PumpFails \/ PumpRaises
      BY <2>1, <2>4 DEF CameraFails, CameraReturns, TakeFrame, PumpWaits, PumpOpens, PumpBlocks,
                        PumpFails, PumpRaises
    <2>5. CASE UNCHANGED srcVars
      BY <2>1, <2>5 DEF srcVars
    <2> QED
      BY <2>2, <2>3, <2>4, <2>5 DEF SourceNext, Grab
  <1>4. CadenceInv => SampleRateKept
    BY DEF CadenceInv
  <1> QED
    BY <1>2, <1>3, <1>4, PTL DEF SourceSpec

-----------------------------------------------------------------------------
(* Conditions that go on (ConditionAlarms).                                *)

ConditionRows == [ts : Nat, state : {"open", "acknowledged"}, cleared : BOOLEAN]
Within(z) == Capped(z) /\ ~Over(z)

\* A detector that runs has read what was stored, and no alarm is newer than its reading.
ConditionTypes ==
  /\ condKind \in {"asset", "camera", "zone"} /\ condNow \in Nat /\ condSpell \in Nat
  /\ condAlarms \subseteq ConditionRows
  /\ \A r \in condReports : r.ts \in Nat /\ r.ts <= condNow
  /\ \A a \in condAlarms : a.ts <= condNow
  /\ condScan # NoScan => /\ condScan.at \in Nat /\ condScan.at <= condNow
                          /\ condScan.reports \subseteq condReports
                          /\ \A a \in condAlarms : a.ts <= condScan.at

\* Since the last alarm the subject was not seen back, or its breach is not cleared.
Covers(a) ==
  /\ \A b \in condAlarms : b.ts <= a.ts
  /\ condKind # "zone" => \A r \in condReports : ShowsBack(r) => r.ts <= a.ts
  /\ condKind = "zone" => ~a.cleared

\* One alarm was raised since the subject was last seen back or, for a camera, in the run of no
\* signal it was raised for, and it covers the episode; a zone that is, or was read, within its
\* cap is in no episode.
EpisodeInv ==
  /\ condSpell <= 1
  /\ condSpell = 1 => \E a \in condAlarms : Covers(a)
  /\ condKind = "zone" => /\ Within(condZone) => condSpell = 0
                          /\ condScan # NoScan /\ Within(condScan.zone) => condSpell = 0

\* A covering alarm is the last one.
LEMMA CoveringIsLast ==
  ASSUME ConditionTypes, NEW a \in condAlarms, Covers(a) PROVE LastAlarm = a.ts /\ a.ts \in Nat
  <1> DEFINE S == {b.ts : b \in condAlarms} \cup {-1}
  <1>1. \A b \in condAlarms : b.ts \in Nat
    BY DEF ConditionTypes, ConditionRows
  <1>2. S \subseteq Int /\ a.ts \in S /\ \A y \in S : y <= a.ts
    BY <1>1 DEF Covers
  <1> HIDE DEF S
  <1>3. Max(S) = a.ts
    BY <1>2, MaxIs
  <1> QED
    BY <1>1, <1>3 DEF LastAlarm, S

\* A detector commits an alarm, when no episode is covered or a camera has a new run of no
\* signal, or none.
LEMMA RaiseStep ==
  ASSUME ConditionTypes, EpisodeInv, NEW due \in BOOLEAN, DetectorEnds, RaiseIf(due),
         due => condSpell = 0 \/ RunIsNew(condScan.reports)
  PROVE  ConditionTypes' /\ EpisodeInv'
  <1>0. PICK new : new = NewAlarm(condScan.at)
    OBVIOUS
  <1>1. /\ condScan # NoScan /\ condScan' = NoScan
        /\ UNCHANGED <<condKind, condNow, condReports, condZone>>
        /\ condAlarms' = IF due THEN condAlarms \cup {new} ELSE condAlarms
        /\ condSpell' = IF ~due THEN condSpell
                        ELSE IF BackSince(condScan.at) THEN 0
                        ELSE IF RunIsNew(condScan.reports) THEN 1 ELSE condSpell + 1
    BY <1>0 DEF DetectorEnds, RaiseIf
  <1>2. /\ condScan.at \in Nat /\ condScan.at <= condNow /\ \A a \in condAlarms : a.ts <= condScan.at
        /\ condNow \in Nat /\ condAlarms \subseteq ConditionRows /\ \A a \in condAlarms : a.ts <= condNow
    BY <1>1 DEF ConditionTypes
  <1>3. new \in ConditionRows /\ new.ts = condScan.at /\ ~new.cleared
    BY <1>0, <1>2 DEF NewAlarm, ConditionRows
  <1>4. ConditionTypes'
    <2>1. condSpell' \in Nat
      BY <1>1 DEF ConditionTypes
    <2>2. condAlarms' \subseteq ConditionRows /\ \A a \in condAlarms' : a.ts <= condNow
      BY <1>1, <1>2, <1>3
    <2> QED
      BY <1>1, <2>1, <2>2 DEF ConditionTypes
  <1>5. EpisodeInv'
    <2>1. CASE ~due
      BY <1>1, <2>1 DEF EpisodeInv, Covers, ShowsBack
    <2>2. CASE due
      <3>1. condAlarms' = condAlarms \cup {new} /\ condSpell' = IF BackSince(condScan.at) THEN 0 ELSE 1
        BY <1>1, <2>2
      <3>2. CASE BackSince(condScan.at)
        BY <1>1, <3>1, <3>2 DEF EpisodeInv
      <3>3. CASE ~BackSince(condScan.at)
        <4>1. condKind # "zone" => \A r \in condReports : ShowsBack(r) => r.ts <= condScan.at
          BY <1>2, <3>3 DEF BackSince, ConditionTypes
        <4>2. \A b \in condAlarms' : b.ts <= new.ts
          BY <1>2, <1>3, <3>1
        <4>3. Covers(new)'
          BY <1>1, <1>3, <4>1, <4>2 DEF Covers, ShowsBack
        <4>4. condKind = "zone" => ~Within(condZone)
          BY <3>3 DEF BackSince, Within
        <4>5. condSpell' = 1 /\ new \in condAlarms'
          BY <3>1, <3>3
        <4> QED
          BY <1>1, <4>3, <4>4, <4>5 DEF EpisodeInv, Within, Over, Capped
      <3> QED
        BY <3>2, <3>3
    <2> QED
      BY <2>1, <2>2
  <1> QED
    BY <1>4, <1>5

\* The newest report is one of them.
LEMMA NewestIsOne ==
  ASSUME ConditionTypes, NEW R \in SUBSET condReports, R # {}
  PROVE  Newest(R) \in R /\ \A q \in R : q.ts <= Newest(R).ts
  <1> DEFINE S == {r.ts : r \in R}
  <1>1. S \subseteq Int /\ S # {} /\ condNow \in Int /\ \A s \in S : s <= condNow
    BY DEF ConditionTypes
  <1>2. Max(S) \in S /\ \A y \in S : y <= Max(S)
    <2> HIDE DEF S
    <2> QED
      BY <1>1, GreatestInt
  <1>3. PICK r \in R : r.ts = Max(S)
    BY <1>2
  <1>4. \A q \in R : q.ts <= r.ts
    BY <1>2, <1>3
  <1>5. \E x \in R : \A q \in R : q.ts <= x.ts
    BY <1>4
  <1> QED
    BY <1>5 DEF Newest

\* The start of a silence or of a blind window is the time of a report that was read.
LEMMA SinceAReport ==
  ASSUME ConditionTypes, condScan # NoScan
  PROVE  /\ \A since \in AssetSilence(condScan) : \E r \in condReports : since = r.ts
         /\ \A since \in CameraBlindness(condScan) : \E r \in condReports : since = r.ts
  <1> DEFINE R == condScan.reports
  <1>1. R \subseteq condReports
    BY DEF ConditionTypes
  <1>2. \A since \in AssetSilence(condScan) : \E r \in condReports : since = r.ts
    BY <1>1 DEF AssetSilence
  <1>3. ASSUME NEW since \in NoSignalSince(R) PROVE \E r \in condReports : since = r.ts
    <2> DEFINE good == {r.ts : r \in {q \in R : q.says = "frames"}}
               run == {r.ts : r \in {q \in R : q.says = "streamless" /\ \A g \in good : q.ts > g}}
    <2>1. run # {} /\ since = Min(run)
      BY <1>3 DEF NoSignalSince
    <2>2. run \subseteq Nat
      BY <1>1 DEF ConditionTypes
    <2> HIDE DEF run
    <2>3. \E x \in run : \A y \in run : x <= y
      BY <2>1, <2>2, LeastNat
    <2>4. Min(run) \in run
      BY <2>3 DEF Min
    <2> QED
      BY <1>1, <2>1, <2>4 DEF run
  <1>4. ASSUME NEW since \in CameraBlindness(condScan) PROVE \E r \in condReports : since = r.ts
    <2>1. R # {} /\ (since = Newest(R).ts \/ since \in NoSignalSince(R))
      BY <1>4 DEF CameraBlindness
    <2>2. Newest(R) \in R
      BY <1>1, <2>1, NewestIsOne
    <2> QED
      BY <1>1, <1>3, <2>1, <2>2
  <1> QED
    BY <1>2, <1>4

\* A camera that was not seen back is blind since a time after the last alarm only in a run of
\* no signal newer than that alarm.
LEMMA UncoveredRunIsNew ==
  ASSUME ConditionTypes, condScan # NoScan, condKind = "camera",
         NEW since \in CameraBlindness(condScan), since \in Nat, LastAlarm \in Nat, LastAlarm < since,
         \A q \in condScan.reports : q.says # "streamless" => q.ts # since
  PROVE  RunIsNew(condScan.reports)
  <1> DEFINE R == condScan.reports
             good == {r.ts : r \in {q \in R : q.says = "frames"}}
             run == {r.ts : r \in {q \in R : q.says = "streamless" /\ \A g \in good : q.ts > g}}
             down == IF Newest(R).says = "streamless" THEN NoSignalSince(R) ELSE {}
  <1>1. R # {} /\ (since \in down \/ (down = {} /\ since = Newest(R).ts))
    BY DEF CameraBlindness
  <1>2. R \subseteq condReports /\ \A q \in R : q.ts \in Nat
    BY DEF ConditionTypes
  <1>3. Newest(R) \in R /\ \A q \in R : q.ts <= Newest(R).ts
    BY <1>1, <1>2, NewestIsOne
  <1>4. NoSignalSince(R) = IF run = {} THEN {} ELSE {Min(run)}
    BY DEF NoSignalSince
  <1>5. ASSUME down = {}, since = Newest(R).ts PROVE FALSE
    <2>1. Newest(R).says = "streamless"
      BY <1>3, <1>5
    <2>2. run = {}
      BY <1>4, <1>5, <2>1
    <2>3. PICK g \in good : ~(Newest(R).ts > g)
      BY <1>3, <2>1, <2>2
    <2>4. PICK q \in R : q.says = "frames" /\ q.ts = g
      BY <2>3
    <2> QED
      BY <1>2, <1>3, <1>5, <2>3, <2>4
  <1>6. Newest(R).says = "streamless" /\ run # {} /\ since = Min(run)
    BY <1>1, <1>4, <1>5
  <1>7. run \subseteq Nat
    BY <1>2
  <1>8. \A y \in run : since <= y
    <2> HIDE DEF run
    <2>1. \E x \in run : \A y \in run : x <= y
      BY <1>6, <1>7, LeastNat
    <2> QED
      BY <1>6, <2>1 DEF Min
  <1>9. ASSUME NEW r \in R, r.says = "streamless", r.ts <= LastAlarm
        PROVE  \E g \in R : g.says = "frames" /\ g.ts >= r.ts
    <2>1. r.ts \notin run
      BY <1>2, <1>8, <1>9
    <2>2. PICK g \in good : ~(r.ts > g)
      BY <1>9, <2>1
    <2>3. PICK q \in R : q.says = "frames" /\ q.ts = g
      BY <2>2
    <2> QED
      BY <1>2, <2>2, <2>3
  <1> QED
    BY <1>6, <1>9 DEF RunIsNew

\* detect_offline and detect_camera_offline: a covered episode raises no alarm, but for a run of
\* no signal newer than it.
LEMMA DetectSilenceStep ==
  ASSUME ConditionTypes, EpisodeInv, DetectOffline \/ DetectCameraOffline
  PROVE  ConditionTypes' /\ EpisodeInv'
  <1>1. PICK S \in {AssetSilence(condScan), CameraBlindness(condScan)} :
          /\ condKind = "asset" \/ (condKind = "camera" /\ S = CameraBlindness(condScan))
          /\ DetectorEnds /\ RaiseIf(\E since \in S : ~AlarmedSince(since))
    BY DEF DetectOffline, DetectCameraOffline
  <1>2. condScan # NoScan
    BY <1>1 DEF DetectorEnds
  <1>3. \A since \in S : \E r \in condReports : since = r.ts
    BY <1>2, SinceAReport
  <1>4. ASSUME NEW since \in S, ~AlarmedSince(since), condSpell = 1
        PROVE  RunIsNew(condScan.reports)
    <2>1. PICK a \in condAlarms : Covers(a)
      BY <1>4 DEF EpisodeInv
    <2>2. PICK r \in condReports : since = r.ts
      BY <1>3
    <2>3. a.ts = LastAlarm /\ a.ts \in Nat /\ since \in Nat /\ LastAlarm < since
      BY <1>4, <2>1, <2>2, CoveringIsLast DEF AlarmedSince, ConditionTypes
    <2>4. \A q \in condReports : ShowsBack(q) => q.ts # since
      BY <1>1, <2>1, <2>3 DEF Covers, ConditionTypes
    <2>5. \A q \in condScan.reports : q \in condReports
      BY <1>2 DEF ConditionTypes
    <2>6. CASE condKind = "camera"
      <3>1. \A q \in condScan.reports : q.says # "streamless" => q.ts # since
        BY <2>4, <2>5 DEF ShowsBack
      <3>2. since \in CameraBlindness(condScan)
        BY <1>1, <1>4, <2>6
      <3> QED
        BY <1>2, <2>3, <2>6, <3>1, <3>2, UncoveredRunIsNew
    <2>7. CASE condKind = "asset"
      BY <2>2, <2>4, <2>7 DEF ShowsBack
    <2> QED
      BY <1>1, <2>6, <2>7
  <1> DEFINE due == \E since \in S : ~AlarmedSince(since)
  <1>5. condSpell \in {0, 1}
    BY DEF ConditionTypes, EpisodeInv
  <1>6. due \in BOOLEAN /\ RaiseIf(due) /\ (due => condSpell = 0 \/ RunIsNew(condScan.reports))
    BY <1>1, <1>4, <1>5
  <1> HIDE DEF due
  <1> QED
    BY <1>1, <1>6, RaiseStep

\* detect_zone_occupancy: within its cap the zone's breach is cleared; over it, one alarm.
LEMMA DetectZoneStep ==
  ASSUME ConditionTypes, EpisodeInv, DetectZoneOccupancy
  PROVE  ConditionTypes' /\ EpisodeInv'
  <1>1. condKind = "zone" /\ DetectorEnds
    BY DEF DetectZoneOccupancy
  <1>2. CASE Within(condScan.zone)
    <2>1. /\ condAlarms' = (condAlarms \ CurrentBreach) \cup {[a EXCEPT !.cleared = TRUE] : a \in CurrentBreach}
          /\ condSpell' = condSpell /\ condScan' = NoScan /\ condScan # NoScan
          /\ UNCHANGED <<condKind, condNow, condReports, condZone>>
      BY <1>1, <1>2 DEF DetectZoneOccupancy, DetectorEnds, Within
    <2>2. condSpell = 0
      BY <1>1, <1>2, <2>1 DEF EpisodeInv
    <2>3. ASSUME NEW a \in ConditionRows
          PROVE  [a EXCEPT !.cleared = TRUE] \in ConditionRows /\ [a EXCEPT !.cleared = TRUE].ts = a.ts
      BY DEF ConditionRows
    <2>4. CurrentBreach \subseteq condAlarms /\ condAlarms \subseteq ConditionRows
      BY DEF CurrentBreach, ConditionTypes
    <2>5. \A b \in condAlarms' : b \in ConditionRows /\ b.ts <= condNow
      BY <2>1, <2>3, <2>4 DEF ConditionTypes
    <2>6. ConditionTypes'
      BY <2>1, <2>5 DEF ConditionTypes
    <2> QED
      BY <2>1, <2>2, <2>6 DEF EpisodeInv
  <1>3. CASE ~Within(condScan.zone)
    <2> DEFINE due == Over(condScan.zone) /\ CurrentBreach = {}
    <2>1. RaiseIf(due) /\ due \in BOOLEAN
      BY <1>3 DEF DetectZoneOccupancy, Within, Over
    <2>2. ASSUME CurrentBreach = {} PROVE condSpell = 0
      <3> SUFFICES ASSUME condSpell = 1 PROVE FALSE
        BY DEF EpisodeInv, ConditionTypes
      <3>1. PICK a \in condAlarms : Covers(a)
        BY DEF EpisodeInv
      <3>2. a.ts = LastAlarm /\ ~a.cleared
        BY <1>1, <3>1, CoveringIsLast DEF Covers
      <3> QED
        BY <2>2, <3>2 DEF CurrentBreach
    <2>3. due => condSpell = 0
      BY <2>2
    <2> HIDE DEF due
    <2> QED
      BY <1>1, <2>1, <2>3, RaiseStep
  <1> QED
    BY <1>2, <1>3

\* Time passes, a detector reads or fails, a camera is switched.
LEMMA QuietConditionStep ==
  ASSUME ConditionTypes, EpisodeInv, TimePasses \/ DetectorReads \/ DetectorFails \/ SetEnabled
  PROVE  ConditionTypes' /\ EpisodeInv'
  <1>1. CASE TimePasses
    <2>1. condNow' = condNow + 1 /\ UNCHANGED <<condKind, condReports, condZone, condAlarms, condScan, condSpell>>
      BY <1>1 DEF TimePasses
    <2>2. /\ \A r \in condReports : r.ts <= condNow + 1
          /\ \A a \in condAlarms : a.ts <= condNow + 1
          /\ condScan # NoScan => condScan.at <= condNow + 1
      <3>1. \A a \in condAlarms : a.ts \in Nat
        BY DEF ConditionTypes, ConditionRows
      <3> QED
        BY <3>1 DEF ConditionTypes
    <2>3. condNow + 1 \in Nat
      BY DEF ConditionTypes
    <2>4. ConditionTypes'
      BY <2>1, <2>2, <2>3 DEF ConditionTypes
    <2>5. EpisodeInv'
      BY <2>1 DEF EpisodeInv, Covers, ShowsBack
    <2> QED
      BY <2>4, <2>5
  <1>2. CASE DetectorReads
    <2>1. /\ condScan' = [at |-> condNow, reports |-> condReports, zone |-> condZone]
          /\ UNCHANGED <<condKind, condNow, condReports, condZone, condAlarms, condSpell>>
      BY <1>2 DEF DetectorReads
    <2>2. condScan'.at = condNow /\ condScan'.reports = condReports /\ condScan'.zone = condZone
      BY <2>1
    <2>3. ConditionTypes'
      BY <2>1, <2>2 DEF ConditionTypes
    <2>4. EpisodeInv'
      BY <2>1, <2>2 DEF EpisodeInv, Covers, ShowsBack
    <2> QED
      BY <2>3, <2>4
  <1>3. CASE DetectorFails \/ SetEnabled
    <2>1. /\ condScan' \in {condScan, NoScan}
          /\ UNCHANGED <<condKind, condNow, condReports, condZone, condAlarms, condSpell>>
      BY <1>3 DEF DetectorFails, SetEnabled
    <2>2. ConditionTypes'
      BY <2>1 DEF ConditionTypes
    <2>3. EpisodeInv'
      BY <2>1 DEF EpisodeInv, Covers, ShowsBack
    <2> QED
      BY <2>2, <2>3
  <1> QED
    BY <1>1, <1>2, <1>3

\* A report is stored: one newer than the last alarm ends the episode.
LEMMA ReportStep ==
  ASSUME ConditionTypes, EpisodeInv, NEW ts \in Nat, NEW says, ReportArrives(ts, says)
  PROVE  ConditionTypes' /\ EpisodeInv'
  <1>1. /\ condKind # "zone" /\ ts <= condNow /\ condReports' = condReports \cup {[ts |-> ts, says |-> says]}
        /\ condSpell' = IF ShowsBack([ts |-> ts, says |-> says]) /\ ts > LastAlarm THEN 0 ELSE condSpell
        /\ UNCHANGED <<condKind, condNow, condZone, condAlarms, condScan>>
    BY DEF ReportArrives
  <1>2. \A r \in condReports' : r \in condReports \/ r = [ts |-> ts, says |-> says]
    BY <1>1
  <1>3. ConditionTypes'
    <2>1. condSpell' \in Nat
      BY <1>1 DEF ConditionTypes
    <2>2. condReports \subseteq condReports'
      BY <1>1
    <2> QED
      BY <1>1, <1>2, <2>1, <2>2 DEF ConditionTypes
  <1>4. EpisodeInv'
    <2>1. CASE condSpell' = 0
      BY <1>1, <2>1 DEF EpisodeInv
    <2>2. CASE condSpell' # 0
      <3>1. condSpell' = condSpell /\ condSpell = 1
            /\ (ShowsBack([ts |-> ts, says |-> says]) => ~(ts > LastAlarm))
        BY <1>1, <2>2 DEF EpisodeInv, ConditionTypes
      <3>2. PICK a \in condAlarms : Covers(a)
        BY <3>1 DEF EpisodeInv
      <3>3. \A r \in condReports' : ShowsBack(r) => r.ts <= a.ts
        BY <1>1, <1>2, <3>1, <3>2, CoveringIsLast DEF Covers
      <3>4. Covers(a)'
        BY <1>1, <3>2, <3>3 DEF Covers, ShowsBack
      <3> QED
        BY <1>1, <3>1, <3>2, <3>4 DEF EpisodeInv
    <2> QED
      BY <2>1, <2>2
  <1> QED
    BY <1>3, <1>4

\* Occupancy or cap changes: back within the cap ends the episode.
LEMMA ZoneChangesStep ==
  ASSUME ConditionTypes, EpisodeInv, NEW z, condKind = "zone", ZoneChanges(z)
  PROVE  ConditionTypes' /\ EpisodeInv'
  <1>1. /\ condZone' = z /\ condSpell' = IF Within(z) THEN 0 ELSE condSpell
        /\ UNCHANGED <<condKind, condNow, condReports, condAlarms, condScan>>
    BY DEF ZoneChanges, Within
  <1>2. condSpell' \in Nat
    BY <1>1 DEF ConditionTypes
  <1>3. ConditionTypes'
    BY <1>1, <1>2 DEF ConditionTypes
  <1>4. EpisodeInv'
    <2>1. Within(condZone)' <=> Within(z)
      BY <1>1 DEF Within, Over, Capped
    <2>2. condScan' = condScan /\ (Within(condScan.zone)' <=> Within(condScan.zone))
      BY <1>1 DEF Within, Over, Capped
    <2>3. CASE condSpell' = 0
      BY <2>3 DEF EpisodeInv
    <2>4. CASE condSpell' # 0
      <3>1. condSpell' = condSpell /\ ~Within(z)
        BY <1>1, <2>4
      <3> QED
        BY <1>1, <2>1, <2>2, <3>1 DEF EpisodeInv, Covers, ShowsBack
    <2> QED
      BY <2>3, <2>4
  <1> QED
    BY <1>3, <1>4

\* An acknowledged alarm covers its episode as before.
LEMMA AckConditionStep ==
  ASSUME ConditionTypes, EpisodeInv, NEW a \in condAlarms, AcknowledgeAlarm(a)
  PROVE  ConditionTypes' /\ EpisodeInv'
  <1> DEFINE acked == [a EXCEPT !.state = "acknowledged"]
  <1>1. /\ condAlarms' = (condAlarms \ {a}) \cup {acked}
        /\ UNCHANGED <<condKind, condNow, condReports, condZone, condScan, condSpell>>
    BY DEF AcknowledgeAlarm
  <1>2. acked \in ConditionRows /\ acked.ts = a.ts /\ acked.cleared = a.cleared
    BY DEF ConditionTypes, ConditionRows
  <1> HIDE DEF acked
  <1>3. ConditionTypes'
    BY <1>1, <1>2 DEF ConditionTypes
  <1>4. ASSUME NEW b \in condAlarms, Covers(b) PROVE \E c \in condAlarms' : Covers(c)'
    <2> DEFINE c == IF b = a THEN acked ELSE b
    <2>1. c \in condAlarms' /\ c.ts = b.ts /\ c.cleared = b.cleared
      BY <1>1, <1>2
    <2> HIDE DEF c
    <2>2. \A d \in condAlarms' : d.ts <= c.ts
      BY <1>1, <1>2, <1>4, <2>1 DEF Covers, ShowsBack
    <2>3. Covers(c)'
      BY <1>1, <1>4, <2>1, <2>2 DEF Covers, ShowsBack
    <2> QED
      BY <2>1, <2>3
  <1>5. EpisodeInv'
    BY <1>1, <1>4 DEF EpisodeInv
  <1> QED
    BY <1>3, <1>5

\* Retention: an episode whose last alarm is deleted is covered no more.
LEMMA ConditionRetentionStep ==
  ASSUME ConditionTypes, EpisodeInv, Retention
  PROVE  ConditionTypes' /\ EpisodeInv'
  <1> DEFINE old == {a \in condAlarms : a.ts < condNow - KeepAlarms}
  <1>1. /\ condScan = NoScan /\ condAlarms' = condAlarms \ old /\ condReports' \subseteq condReports
        /\ condSpell' = IF LastAlarm \in {a.ts : a \in old} THEN 0 ELSE condSpell
        /\ UNCHANGED <<condKind, condNow, condZone, condScan>>
    BY DEF Retention
  <1> HIDE DEF old
  <1>2. condSpell' \in Nat
    BY <1>1 DEF ConditionTypes
  <1>3. ConditionTypes'
    BY <1>1, <1>2 DEF ConditionTypes
  <1>4. EpisodeInv'
    <2>1. CASE condSpell' = 0
      BY <1>1, <2>1 DEF EpisodeInv
    <2>2. CASE condSpell' # 0
      <3>1. condSpell' = condSpell /\ condSpell = 1 /\ LastAlarm \notin {a.ts : a \in old}
        BY <1>1, <2>2 DEF EpisodeInv, ConditionTypes
      <3>2. PICK a \in condAlarms : Covers(a)
        BY <3>1 DEF EpisodeInv
      <3>3. a \in condAlarms'
        BY <1>1, <3>1, <3>2, CoveringIsLast
      <3>4. \A r \in condReports' : r \in condReports /\ (ShowsBack(r)' <=> ShowsBack(r))
        BY <1>1 DEF ShowsBack
      <3>5. Covers(a)'
        BY <1>1, <3>2, <3>4 DEF Covers
      <3> QED
        BY <1>1, <3>1, <3>3, <3>5 DEF EpisodeInv
    <2> QED
      BY <2>1, <2>2
  <1> QED
    BY <1>3, <1>4

\* One alarm per episode (detect_offline, detect_camera_offline, detect_zone_occupancy): for any
\* thresholds, caps and retention, late reports, heartbeats without a signal, acknowledgements and
\* failed steps, a second alarm is raised only after the subject was seen back (a fix, a health
\* row with frames, occupancy within the cap), the first one was deleted or, once per run, a
\* camera's node reports no signal in a run that as stored began after the first.
THEOREM EpisodesAlarmOnce == ConditionSpec => []OneAlarmPerEpisode
  <1> DEFINE Inv == ConditionTypes /\ EpisodeInv
  <1>1. ConditionInit => Inv
    BY DEF ConditionInit, ConditionTypes, EpisodeInv
  <1>2. Inv /\ [ConditionNext]_condVars => Inv'
    <2> SUFFICES ASSUME ConditionTypes, EpisodeInv, [ConditionNext]_condVars
                 PROVE  ConditionTypes' /\ EpisodeInv'
      OBVIOUS
    <2>1. CASE UNCHANGED condVars
      BY <2>1 DEF condVars, ConditionTypes, EpisodeInv, Covers, ShowsBack, Within, Over, Capped
    <2>2. ASSUME NEW ts \in 0 .. ConditionEnd, NEW says \in Says, ReportArrives(ts, says)
          PROVE  ConditionTypes' /\ EpisodeInv'
      <3>1. ts \in Nat
        BY ConditionAssumption DEF ConditionAssumption
      <3> QED
        BY <2>2, <3>1, ReportStep
    <2>3. CASE \E n \in 0 .. MaxInside : OccupancyChanges(n)
      BY <2>3, ZoneChangesStep DEF OccupancyChanges
    <2>4. CASE \E cap \in Caps : SetCap(cap)
      BY <2>4, ZoneChangesStep DEF SetCap
    <2>5. CASE TimePasses \/ DetectorReads \/ DetectorFails \/ SetEnabled
      BY <2>5, QuietConditionStep
    <2>6. CASE \E a \in condAlarms : AcknowledgeAlarm(a)
      BY <2>6, AckConditionStep
    <2>7. CASE Retention
      BY <2>7, ConditionRetentionStep
    <2>8. CASE DetectOffline \/ DetectCameraOffline
      BY <2>8, DetectSilenceStep
    <2>9. CASE DetectZoneOccupancy
      BY <2>9, DetectZoneStep
    <2> QED
      BY <2>1, <2>2, <2>3, <2>4, <2>5, <2>6, <2>7, <2>8, <2>9 DEF ConditionNext, Detector
  <1>3. Inv => OneAlarmPerEpisode
    BY DEF EpisodeInv, OneAlarmPerEpisode
  <1> QED
    BY <1>1, <1>2, <1>3, PTL DEF ConditionSpec

-----------------------------------------------------------------------------
(* The gate feed (GateFeed).                                               *)

PassageRows == [kind : {"ok", "malformed"}, gate : Gates, ts : Nat, seen : Nat]
FeedRows == [lastPoll : Int, failingSince : Int, alarmed : Int, count : Nat]

GateTypes ==
  /\ gateClock \in Nat /\ gateClock <= GateMaxTime
  /\ passage \in [Passages -> PassageRows \cup {NoPassage}]
  /\ accessRow \in [Passages -> Nat]
  /\ \A p \in StoredPassages : /\ passage[p] \in PassageRows /\ accessRow[p] <= gateClock
                               /\ passage[p].ts <= gateClock + GateMaxSkew
  /\ poll \in [now : Int, batch : SUBSET Passages]
  /\ poll # NoPoll => poll.now \in Nat /\ poll.now <= gateClock
  /\ feed \in FeedRows /\ typedIn \in BOOLEAN

\* The appliance listed the passage in time for a poll at n, and it is still kept.
InTime(p, n) ==
  /\ passage[p] \in PassageRows /\ passage[p].kind = "ok" /\ passage[p].seen # NotStored
  /\ passage[p].seen - passage[p].ts < GateOverlap
  /\ passage[p].ts > Floor(gateClock) /\ passage[p].ts + GateOverlap <= n

\* What was listed in time for a poll that stored anything is stored, or was; what was listed in
\* time for the running poll is in its batch besides.
CaughtUp ==
  ~typedIn =>
    /\ \A q \in StoredPassages, p \in Passages :
         InTime(p, accessRow[q]) => p \in StoredPassages \cup purged
    /\ poll # NoPoll => \A p \in Passages :
         InTime(p, poll.now) => p \in poll.batch \cup StoredPassages \cup purged

\* What retention deleted is behind the floor, the running poll's too.
PurgedBehind ==
  /\ \A p \in purged : /\ p \in Passages /\ passage[p] \in PassageRows /\ GateRetain > 0
                       /\ passage[p].ts < gateClock - GateRetain
                       /\ poll # NoPoll => passage[p].ts < poll.now - GateRetain
  /\ PurgedStaysPurged

GateInv == GateTypes /\ CaughtUp /\ PurgedBehind /\ OneAlarmPerOutage

LEMMA GateNumbers == /\ GateOverlap \in Nat /\ GateMaxSkew \in Nat /\ GateRetain \in Nat
                     /\ GateOfflineAfter \in Nat /\ GateMaxTime \in Nat /\ NotStored = GateMaxTime + 1
  BY GateAssumption DEF NotStored

\* A passage that happened is not "none".
LEMMA PassagesHappened == NoPassage \notin PassageRows
  BY DEF NoPassage, PassageRows

\* The two ends of a pair.
LEMMA PairEnds == ASSUME NEW a \in Int, NEW b \in Int
                  PROVE  Max({a, b}) \in {a, b} /\ Min({a, b}) \in {a, b} /\ Min({a, b}) <= b
  <1>1. \E x \in {a, b} : \A y \in {a, b} : x >= y
    BY a >= b \/ b >= a
  <1>2. \E x \in {a, b} : \A y \in {a, b} : x <= y
    BY a >= b \/ b >= a
  <1> QED
    BY <1>1, <1>2 DEF Max, Min

LEMMA FloorIsInt == ASSUME NEW n \in Int PROVE Floor(n) \in Int
  BY GateNumbers DEF Floor

\* What the appliance lists in time is not behind the cursor.
LEMMA CursorBehind == ASSUME GateTypes, CaughtUp PROVE SinceCursor \in Int /\ NothingBehindCursor
  <1>1. CASE StoredPassages = {}
    <2>1. SinceCursor = -1000
      BY <1>1 DEF SinceCursor
    <2>2. ASSUME NEW p \in Passages, passage[p].kind = "ok" PROVE passage[p].ts > SinceCursor
      <3>1. passage[p] \in PassageRows
        BY <2>2 DEF GateTypes, NoPassage
      <3>2. passage[p].ts \in Nat
        BY <3>1 DEF PassageRows
      <3> QED
        BY <2>1, <3>2
    <2> QED
      BY <2>1, <2>2 DEF NothingBehindCursor
  <1>2. CASE StoredPassages # {}
    <2> DEFINE times == {passage[p].ts : p \in StoredPassages}
               rows == {accessRow[p] : p \in StoredPassages}
    <2>1. ASSUME NEW p \in StoredPassages
          PROVE  /\ p \in Passages /\ passage[p].ts \in Nat /\ passage[p].ts <= gateClock + GateMaxSkew
                 /\ accessRow[p] \in Nat /\ accessRow[p] <= gateClock
      BY DEF GateTypes, StoredPassages, PassageRows
    <2>2. gateClock \in Int /\ gateClock + GateMaxSkew \in Int
      BY GateNumbers DEF GateTypes
    <2>3. Max(times) \in Int
      <3>1. times \subseteq Int /\ times # {} /\ \A s \in times : s <= gateClock + GateMaxSkew
        BY <1>2, <2>1
      <3> HIDE DEF times
      <3> QED
        BY <2>2, <3>1, GreatestInt
    <2>4. Max(rows) \in rows /\ Max(rows) \in Int
      <3>1. rows \subseteq Int /\ rows # {} /\ \A s \in rows : s <= gateClock
        BY <1>2, <2>1
      <3> HIDE DEF rows
      <3> QED
        BY <2>2, <3>1, GreatestInt
    <2>5. PICK q \in StoredPassages : Max(rows) = accessRow[q]
      BY <2>4
    <2>6. SinceCursor = Min({Max(times), Max(rows)}) - GateOverlap
      BY <1>2 DEF SinceCursor
    <2> HIDE DEF times, rows
    <2>7. SinceCursor \in Int /\ SinceCursor <= accessRow[q] - GateOverlap
      <3>1. PICK low : low = Min({Max(times), Max(rows)})
        OBVIOUS
      <3>2. low \in {Max(times), Max(rows)} /\ low <= Max(rows)
        BY <2>3, <2>4, <3>1, PairEnds
      <3>3. low \in Int /\ SinceCursor = low - GateOverlap
        BY <2>3, <2>4, <2>6, <3>1, <3>2
      <3> QED
        BY <2>4, <2>5, <3>2, <3>3, GateNumbers
    <2>8. ASSUME ~typedIn, NEW p \in Passages,
                 passage[p].kind = "ok", passage[p].seen # NotStored,
                 passage[p].seen - passage[p].ts < GateOverlap,
                 passage[p].ts > Floor(gateClock), p \notin StoredPassages \cup purged
          PROVE  passage[p].ts > SinceCursor
      <3>1. passage[p] \in PassageRows
        BY <2>8 DEF GateTypes, NoPassage
      <3>2. passage[p].ts \in Nat
        BY <3>1 DEF PassageRows
      <3>3. ~ InTime(p, accessRow[q])
        BY <2>8 DEF CaughtUp
      <3>4. ~ (passage[p].ts + GateOverlap <= accessRow[q])
        BY <2>8, <3>1, <3>3 DEF InTime
      <3>5. accessRow[q] \in Nat
        BY <2>1
      <3> QED
        BY <2>7, <3>2, <3>4, <3>5, GateNumbers
    <2> QED
      BY <2>7, <2>8 DEF NothingBehindCursor
  <1> QED
    BY <1>1, <1>2

\* A step that leaves passages, rows and the clock alone, and drops the running poll or keeps it.
LEMMA QuietGateStep ==
  ASSUME GateTypes, CaughtUp, PurgedBehind, feed' \in FeedRows, OneAlarmPerOutage', poll' \in {poll, NoPoll},
         UNCHANGED <<gateClock, passage, accessRow, typedIn, purged>>
  PROVE  GateInv'
  <1>1. NoPoll \in [now : Int, batch : SUBSET Passages]
    BY DEF NoPoll
  <1>2. StoredPassages' = StoredPassages
    BY DEF StoredPassages
  <1>3. GateTypes'
    BY <1>1, <1>2 DEF GateTypes
  <1>4. CaughtUp'
    BY <1>2 DEF CaughtUp, InTime
  <1>5. PurgedBehind'
    BY <1>2 DEF PurgedBehind, PurgedStaysPurged
  <1> QED
    BY <1>3, <1>4, <1>5 DEF GateInv

LEMMA PassGateStep ==
  ASSUME GateInv, NEW p \in Passages, NEW g \in Gates, NEW s \in GateSkews, NEW k \in PassageKinds,
         PassGate(p, g, s, k)
  PROVE  GateInv'
  <1> USE DEF GateInv
  <1>1. PICK new : new = [kind |-> k, gate |-> g, ts |-> gateClock + s, seen |-> NotStored]
    OBVIOUS
  <1>2. new \in PassageRows /\ new.seen = NotStored
    <2>1. s \in Int /\ k \in {"ok", "malformed"}
      BY GateAssumption
    <2>2. gateClock + s \in Nat /\ NotStored \in Nat
      BY <2>1, GateNumbers DEF PassGate, GateTypes
    <2> QED
      BY <1>1, <2>1, <2>2 DEF PassageRows
  <1>3. passage' = [passage EXCEPT ![p] = new] /\ passage[p] = NoPassage
    BY <1>1 DEF PassGate
  <1>4. UNCHANGED <<gateClock, accessRow, poll, feed, typedIn, purged>> /\ StoredPassages' = StoredPassages
    BY DEF PassGate, StoredPassages
  <1>5. p \notin StoredPassages /\ p \notin purged
    BY <1>3, PassagesHappened DEF GateTypes, PurgedBehind
  <1>6. /\ passage'[p] = new /\ \A q \in Passages : q # p => passage'[q] = passage[q]
        /\ passage' \in [Passages -> PassageRows \cup {NoPassage}]
    BY <1>2, <1>3 DEF GateTypes
  <1>7. \A q \in StoredPassages : q \in Passages /\ passage'[q] = passage[q]
    BY <1>5, <1>6 DEF StoredPassages
  <1>8. GateTypes'
    BY <1>4, <1>6, <1>7 DEF GateTypes
  <1>9. CaughtUp'
    <2>1. ~ new.seen # NotStored
      BY <1>2
    <2>2. \A n : ~ InTime(p, n)'
      BY <1>6, <2>1 DEF InTime, NotStored
    <2>3. \A n : \A q \in Passages : q # p /\ InTime(q, n)' => InTime(q, n)
      BY <1>4, <1>6 DEF InTime, NotStored, Floor
    <2> QED
      BY <1>4, <2>2, <2>3 DEF CaughtUp
  <1>10. PurgedBehind'
    <2>1. \A q \in purged : q \in Passages /\ passage'[q] = passage[q]
      BY <1>5, <1>6 DEF PurgedBehind
    <2> QED
      BY <1>4, <2>1 DEF PurgedBehind, PurgedStaysPurged
  <1> QED
    BY <1>4, <1>8, <1>9, <1>10 DEF OneAlarmPerOutage

LEMMA AppearStep == ASSUME GateInv, NEW p \in Passages, Appear(p) PROVE GateInv'
  <1> USE DEF GateInv
  <1>1. passage[p] \in PassageRows /\ passage' = [passage EXCEPT ![p].seen = gateClock]
    BY DEF Appear, GateTypes
  <1>2. gateClock \in Nat /\ gateClock <= GateMaxTime
    BY DEF GateTypes
  <1>3. PICK new : new = [passage[p] EXCEPT !.seen = gateClock]
    OBVIOUS
  <1>4. /\ new \in PassageRows /\ new.seen = gateClock /\ new.ts = passage[p].ts
    BY <1>1, <1>2, <1>3 DEF PassageRows
  <1>5. passage' = [passage EXCEPT ![p] = new]
    BY <1>1, <1>3
  <1>6. UNCHANGED <<gateClock, accessRow, poll, feed, typedIn, purged>> /\ StoredPassages' = StoredPassages
    BY DEF Appear, StoredPassages
  <1>7. /\ passage'[p] = new /\ \A q \in Passages : q # p => passage'[q] = passage[q]
        /\ passage' \in [Passages -> PassageRows \cup {NoPassage}]
    BY <1>4, <1>5 DEF GateTypes
  <1>8. ASSUME NEW q \in Passages, passage[q] \in PassageRows
        PROVE  passage'[q] \in PassageRows /\ passage'[q].ts = passage[q].ts
    BY <1>4, <1>7, <1>8
  <1>9. GateTypes'
    BY <1>6, <1>7, <1>8 DEF GateTypes, StoredPassages
  <1>10. CaughtUp'
    <2>1. ASSUME NEW n \in Nat, n <= gateClock, InTime(p, n)' PROVE FALSE
      <3>1. gateClock - new.ts < GateOverlap /\ new.ts + GateOverlap <= n
        BY <1>4, <1>7, <2>1 DEF InTime
      <3>2. new.ts \in Nat
        BY <1>4 DEF PassageRows
      <3> QED
        BY <1>2, <2>1, <3>1, <3>2, GateNumbers
    <2>2. \A n : \A q \in Passages : q # p /\ InTime(q, n)' => InTime(q, n)
      BY <1>6, <1>7 DEF InTime, NotStored, Floor
    <2>3. \A q \in StoredPassages : accessRow[q] \in Nat /\ accessRow[q] <= gateClock
      BY DEF GateTypes, StoredPassages
    <2>4. poll # NoPoll => poll.now \in Nat /\ poll.now <= gateClock
      BY DEF GateTypes
    <2> QED
      BY <1>6, <2>1, <2>2, <2>3, <2>4 DEF CaughtUp
  <1>11. PurgedBehind'
    BY <1>6, <1>8 DEF PurgedBehind, PurgedStaysPurged
  <1> QED
    BY <1>6, <1>9, <1>10, <1>11 DEF OneAlarmPerOutage

LEMMA PollFetchStep == ASSUME GateInv, PollFetch PROVE GateInv'
  <1> USE DEF GateInv
  <1>1. SinceCursor \in Int /\ NothingBehindCursor
    BY CursorBehind
  <1>2. gateClock \in Nat /\ Floor(gateClock) \in Int
    BY FloorIsInt DEF GateTypes
  <1>3. PICK since : since = Max({SinceCursor, Floor(gateClock)})
    OBVIOUS
  <1>4. since \in {SinceCursor, Floor(gateClock)}
    BY <1>1, <1>2, <1>3, PairEnds
  <1>5. poll' = [now |-> gateClock, batch |-> Fetch(since)]
    BY <1>3 DEF PollFetch
  <1>6. /\ UNCHANGED <<gateClock, passage, accessRow, typedIn, purged>>
        /\ feed' = [feed EXCEPT !.lastPoll = gateClock] /\ StoredPassages' = StoredPassages
    BY DEF PollFetch, StoredPassages
  <1>7. feed' \in FeedRows /\ OneAlarmPerOutage'
    BY <1>2, <1>6 DEF FeedRows, OneAlarmPerOutage, GateTypes
  <1>8. GateTypes'
    BY <1>2, <1>5, <1>6, <1>7 DEF GateTypes, Fetch
  <1>9. CaughtUp'
    <2>1. ASSUME NEW p \in Passages, ~typedIn, InTime(p, gateClock), p \notin StoredPassages \cup purged
          PROVE  p \in Fetch(since)
      <3>1. passage[p] \in PassageRows /\ passage[p].ts > Floor(gateClock)
        BY <2>1 DEF InTime
      <3>2. passage[p].ts > SinceCursor
        BY <1>1, <2>1 DEF NothingBehindCursor, InTime
      <3>3. passage[p].ts > since
        BY <1>4, <3>1, <3>2
      <3>4. passage[p].seen - passage[p].ts < GateOverlap /\ passage[p].ts + GateOverlap <= gateClock
        BY <2>1 DEF InTime
      <3>5. passage[p].seen \in Nat /\ passage[p].ts \in Nat
        BY <3>1 DEF PassageRows
      <3>6. passage[p].seen <= gateClock
        BY <1>2, <3>4, <3>5, GateNumbers
      <3> QED
        BY <3>1, <3>3, <3>6, PassagesHappened DEF Fetch
    <2>2. poll'.now = gateClock /\ poll'.batch = Fetch(since)
      BY <1>5
    <2>3. \A q, n : InTime(q, n)' <=> InTime(q, n)
      BY <1>6 DEF InTime, NotStored, Floor
    <2> QED
      BY <1>6, <2>1, <2>2, <2>3 DEF CaughtUp
  <1>10. PurgedBehind'
    <2>1. poll'.now = gateClock
      BY <1>5
    <2> QED
      BY <1>6, <2>1 DEF PurgedBehind, PurgedStaysPurged
  <1> QED
    BY <1>7, <1>8, <1>9, <1>10

LEMMA PollFailsStep == ASSUME GateInv, PollFails PROVE GateInv'
  <1> USE DEF GateInv
  <1> DEFINE since == IF feed.failingSince = NotFailing THEN gateClock ELSE feed.failingSince
             raise == gateClock - since >= GateOfflineAfter /\ ~OutageAlarmed(since)
  <1>1. feed' = [lastPoll |-> gateClock, failingSince |-> since,
                 alarmed |-> IF raise THEN gateClock ELSE feed.alarmed,
                 count |-> (IF feed.failingSince = NotFailing THEN 0 ELSE feed.count)
                           + (IF raise THEN 1 ELSE 0)]
    BY DEF PollFails
  <1>2. gateClock \in Nat /\ feed.failingSince \in Int /\ feed.alarmed \in Int /\ feed.count \in Nat
    BY DEF GateTypes, FeedRows
  <1>3. raise \in BOOLEAN /\ since \in Int
    BY <1>2
  <1>4. /\ feed'.failingSince = since /\ (raise => feed'.alarmed = gateClock)
        /\ (~raise => feed'.alarmed = feed.alarmed)
        /\ feed'.count = (IF feed.failingSince = NotFailing THEN 0 ELSE feed.count) + (IF raise THEN 1 ELSE 0)
    BY <1>1
  <1>5. feed' \in FeedRows
    BY <1>1, <1>2, <1>3 DEF FeedRows
  <1>6. OneAlarmPerOutage'
    <2>1. CASE feed.failingSince = NotFailing
      BY <1>2, <1>4, <2>1 DEF OneAlarmPerOutage
    <2>2. CASE feed.failingSince # NotFailing /\ raise
      <3>1. since = feed.failingSince /\ ~ (feed.alarmed >= since)
        BY <2>2 DEF OutageAlarmed
      <3>2. feed.count = 0
        BY <1>2, <2>2, <3>1, GateNumbers DEF OneAlarmPerOutage
      <3>3. feed'.count = 1 /\ feed'.alarmed - feed'.failingSince >= GateOfflineAfter
        BY <1>4, <2>2, <3>2
      <3> QED
        BY <3>3 DEF OneAlarmPerOutage
    <2>3. CASE feed.failingSince # NotFailing /\ ~raise
      <3>1. feed'.count = feed.count /\ feed'.alarmed = feed.alarmed /\ feed'.failingSince = feed.failingSince
        BY <1>2, <1>4, <2>3
      <3> QED
        BY <2>3, <3>1 DEF OneAlarmPerOutage
    <2> QED
      BY <2>1, <2>2, <2>3
  <1> QED
    BY <1>5, <1>6, QuietGateStep DEF PollFails

LEMMA PollCommitStep == ASSUME GateInv, PollCommit PROVE GateInv'
  <1> USE DEF GateInv
  <1>1. PICK new : new = Storable(poll.batch, poll.now)
    OBVIOUS
  <1>2. /\ accessRow' = [p \in Passages |-> IF p \in new THEN poll.now ELSE accessRow[p]]
        /\ poll # NoPoll /\ poll' = NoPoll /\ UNCHANGED <<gateClock, passage, typedIn, purged>>
        /\ feed' = [feed EXCEPT !.failingSince = NotFailing]
    BY <1>1 DEF PollCommit
  <1>3. /\ gateClock \in Nat /\ gateClock <= GateMaxTime /\ poll.now \in Nat /\ poll.now <= gateClock
        /\ poll.batch \subseteq Passages /\ poll.now # NotStored
    <2>1. /\ gateClock \in Nat /\ gateClock <= GateMaxTime /\ poll.now \in Nat /\ poll.now <= gateClock
          /\ poll.batch \subseteq Passages
      BY <1>2 DEF GateTypes
    <2> QED
      BY <2>1, GateNumbers
  <1>4. ASSUME NEW p \in new
        PROVE  /\ p \in Passages /\ passage[p] \in PassageRows /\ passage[p].ts >= Floor(poll.now)
               /\ passage[p].ts <= gateClock + GateMaxSkew
    <2>1. /\ p \in Passages /\ passage[p].kind = "ok" /\ passage[p].ts >= Floor(poll.now)
          /\ ~ (passage[p].ts - poll.now > GateMaxSkew)
      BY <1>1, <1>3, <1>4 DEF Storable, FromFuture
    <2>2. passage[p] \in PassageRows
      BY <2>1 DEF GateTypes, NoPassage
    <2>3. passage[p].ts \in Nat
      BY <2>2 DEF PassageRows
    <2> QED
      BY <1>3, <2>1, <2>2, <2>3, GateNumbers
  <1>5. StoredPassages' = StoredPassages \cup new
    BY <1>2, <1>3, <1>4 DEF StoredPassages, NotStored
  <1>6. \A q \in StoredPassages' : accessRow'[q] = IF q \in new THEN poll.now ELSE accessRow[q]
    BY <1>2 DEF StoredPassages
  <1>7. feed' \in FeedRows /\ OneAlarmPerOutage'
    BY <1>2 DEF FeedRows, OneAlarmPerOutage, GateTypes, NotFailing
  <1>8. GateTypes'
    <2>1. accessRow' \in [Passages -> Nat]
      BY <1>2, <1>3 DEF GateTypes
    <2>2. \A q \in StoredPassages' : accessRow'[q] <= gateClock
      BY <1>3, <1>5, <1>6 DEF GateTypes
    <2>3. NoPoll \in [now : Int, batch : SUBSET Passages]
      BY DEF NoPoll
    <2> QED
      BY <1>2, <1>4, <1>5, <1>7, <2>1, <2>2, <2>3 DEF GateTypes
  <1>9. CaughtUp'
    <2>1. ASSUME ~typedIn, NEW p \in Passages, InTime(p, poll.now) PROVE p \in StoredPassages \cup new \cup purged
      <3>1. p \in poll.batch \cup StoredPassages \cup purged
        BY <1>2, <2>1 DEF CaughtUp
      <3>2. /\ passage[p] \in PassageRows /\ passage[p].kind = "ok" /\ passage[p].ts > Floor(gateClock)
            /\ passage[p].ts + GateOverlap <= poll.now
        BY <2>1 DEF InTime
      <3>3. passage[p].ts \in Nat
        BY <3>2 DEF PassageRows
      <3>4. passage[p].ts >= Floor(poll.now)
        BY <1>3, <3>2, <3>3, GateNumbers DEF Floor
      <3>5. ~ (passage[p].ts - poll.now > GateMaxSkew)
        BY <1>3, <3>2, <3>3, GateNumbers
      <3> QED
        BY <1>1, <3>1, <3>2, <3>4, <3>5 DEF Storable, FromFuture
    <2>2. \A q, n : InTime(q, n)' <=> InTime(q, n)
      BY <1>2 DEF InTime, NotStored, Floor
    <2>3. ASSUME ~typedIn, NEW q \in StoredPassages', NEW p \in Passages, InTime(p, accessRow'[q])
          PROVE  p \in StoredPassages \cup new \cup purged
      <3>1. CASE q \in new
        BY <1>6, <2>1, <2>3, <3>1
      <3>2. CASE q \notin new
        BY <1>5, <1>6, <2>3, <3>2 DEF CaughtUp
      <3> QED
        BY <3>1, <3>2
    <2> QED
      BY <1>2, <1>5, <2>2, <2>3 DEF CaughtUp
  <1>10. PurgedBehind'
    <2>1. ASSUME NEW p \in purged, p \in new PROVE FALSE
      <3>1. passage[p].ts < poll.now - GateRetain /\ GateRetain > 0 /\ passage[p] \in PassageRows
        BY <1>2 DEF PurgedBehind
      <3>2. passage[p].ts >= poll.now - GateRetain
        BY <1>4, <2>1, <3>1 DEF Floor
      <3>3. passage[p].ts \in Nat
        BY <3>1 DEF PassageRows
      <3> QED
        BY <1>3, <3>1, <3>2, <3>3, GateNumbers
    <2> QED
      BY <1>2, <1>5, <2>1 DEF PurgedBehind, PurgedStaysPurged
  <1> QED
    BY <1>7, <1>8, <1>9, <1>10

LEMMA TypeInStep == ASSUME GateInv, NEW p \in Passages, TypeIn(p) PROVE GateInv'
  <1> USE DEF GateInv
  <1>1. /\ accessRow' = [accessRow EXCEPT ![p] = gateClock] /\ typedIn'
        /\ UNCHANGED <<gateClock, passage, poll, feed, purged>>
    BY DEF TypeIn
  <1>2. gateClock \in Nat /\ gateClock <= GateMaxTime /\ passage[p] \in PassageRows
    BY DEF TypeIn, GateTypes
  <1>3. passage[p].ts <= gateClock + GateMaxSkew
    <2>1. passage[p].ts \in Nat
      BY <1>2 DEF PassageRows
    <2> QED
      BY <1>2, <2>1, GateNumbers DEF TypeIn, FromFuture
  <1>4. StoredPassages' \subseteq StoredPassages \cup {p}
    BY <1>1 DEF StoredPassages, NotStored, GateTypes
  <1>5. accessRow' \in [Passages -> Nat] /\ \A q \in StoredPassages' : accessRow'[q] <= gateClock
    BY <1>1, <1>2, <1>4 DEF GateTypes, StoredPassages
  <1>6. typedIn' \in BOOLEAN
    BY DEF TypeIn
  <1>7. GateTypes'
    BY <1>1, <1>2, <1>3, <1>4, <1>5, <1>6 DEF GateTypes
  <1> QED
    BY <1>1, <1>7 DEF CaughtUp, PurgedBehind, PurgedStaysPurged, OneAlarmPerOutage

LEMMA PurgePassagesStep == ASSUME GateInv, PurgePassages PROVE GateInv'
  <1> USE DEF GateInv
  <1>1. PICK old : old = {p \in StoredPassages : passage[p].ts < gateClock - GateRetain}
    OBVIOUS
  <1>2. /\ accessRow' = [p \in Passages |-> IF p \in old THEN NotStored ELSE accessRow[p]]
        /\ purged' = purged \cup old /\ poll = NoPoll /\ GateRetain > 0
        /\ UNCHANGED <<gateClock, passage, poll, feed, typedIn>>
    BY <1>1 DEF PurgePassages
  <1>3. StoredPassages' = StoredPassages \ old
    BY <1>2 DEF StoredPassages, NotStored
  <1>4. \A q \in StoredPassages' : accessRow'[q] = accessRow[q]
    BY <1>2, <1>3 DEF StoredPassages
  <1>5. accessRow' \in [Passages -> Nat]
    BY <1>2, GateNumbers DEF GateTypes
  <1>6. GateTypes'
    BY <1>2, <1>3, <1>4, <1>5 DEF GateTypes
  <1>7. CaughtUp'
    <2>1. \A q, n : InTime(q, n)' <=> InTime(q, n)
      BY <1>2 DEF InTime, NotStored, Floor
    <2> QED
      BY <1>1, <1>2, <1>3, <1>4, <2>1 DEF CaughtUp
  <1>8. PurgedBehind'
    <2>1. \A p \in old : p \in Passages /\ passage[p] \in PassageRows /\ passage[p].ts < gateClock - GateRetain
      BY <1>1 DEF GateTypes, StoredPassages
    <2>2. \A p \in purged' : /\ p \in Passages /\ passage[p] \in PassageRows
                             /\ passage[p].ts < gateClock - GateRetain
      BY <1>2, <2>1 DEF PurgedBehind
    <2>3. PurgedStaysPurged'
      BY <1>2, <1>3 DEF PurgedBehind, PurgedStaysPurged
    <2> QED
      BY <1>2, <2>2, <2>3 DEF PurgedBehind
  <1> QED
    BY <1>2, <1>6, <1>7, <1>8 DEF OneAlarmPerOutage

LEMMA GateClockStep == ASSUME GateInv, GateClockTick PROVE GateInv'
  <1> USE DEF GateInv
  <1>1. /\ gateClock' = gateClock + 1 /\ gateClock' <= GateMaxTime /\ gateClock \in Nat
        /\ UNCHANGED <<passage, accessRow, poll, feed, typedIn, purged>>
    BY GateNumbers DEF GateClockTick, GateTypes
  <1>2. StoredPassages' = StoredPassages
    BY <1>1 DEF StoredPassages, NotStored
  <1>3. \A q \in StoredPassages : accessRow[q] \in Nat /\ passage[q].ts \in Nat
    BY DEF GateTypes, StoredPassages, PassageRows
  <1>4. GateTypes'
    BY <1>1, <1>2, <1>3, GateNumbers DEF GateTypes
  <1>5. CaughtUp'
    <2>1. ASSUME NEW q, NEW n, InTime(q, n)' PROVE InTime(q, n)
      <3>1. passage[q] \in PassageRows /\ passage[q].ts > Floor(gateClock')
        BY <1>1, <2>1 DEF InTime, Floor
      <3>2. passage[q].ts \in Nat
        BY <3>1 DEF PassageRows
      <3>3. passage[q].ts > Floor(gateClock)
        BY <1>1, <3>1, <3>2, GateNumbers DEF Floor
      <3> QED
        BY <1>1, <2>1, <3>1, <3>3 DEF InTime, NotStored
    <2> QED
      BY <1>1, <1>2, <2>1 DEF CaughtUp
  <1>6. PurgedBehind'
    <2>1. ASSUME NEW p \in purged PROVE passage[p].ts < gateClock' - GateRetain
      <3>1. passage[p] \in PassageRows /\ passage[p].ts < gateClock - GateRetain
        BY DEF PurgedBehind
      <3>2. passage[p].ts \in Nat
        BY <3>1 DEF PassageRows
      <3> QED
        BY <1>1, <3>1, <3>2, GateNumbers
    <2> QED
      BY <1>1, <1>2, <2>1 DEF PurgedBehind, PurgedStaysPurged
  <1> QED
    BY <1>1, <1>4, <1>5, <1>6 DEF OneAlarmPerOutage

LEMMA GateInitInv == GateInit => GateInv
  <1> SUFFICES ASSUME GateInit PROVE GateInv
    OBVIOUS
  <1>1. StoredPassages = {}
    BY DEF GateInit, StoredPassages
  <1>2. NotStored \in Nat /\ 0 <= GateMaxTime
    BY GateNumbers
  <1>3. GateTypes
    <2>1. NoPoll \in [now : Int, batch : SUBSET Passages]
      BY DEF NoPoll
    <2>2. feed \in FeedRows
      BY DEF GateInit, FeedRows, NotFailing
    <2>3. accessRow \in [Passages -> Nat]
      BY <1>2 DEF GateInit
    <2> QED
      BY <1>1, <1>2, <2>1, <2>2, <2>3 DEF GateInit, GateTypes
  <1>4. CaughtUp
    BY <1>1 DEF GateInit, CaughtUp
  <1>5. PurgedBehind
    BY DEF GateInit, PurgedBehind, PurgedStaysPurged
  <1> QED
    BY <1>3, <1>4, <1>5 DEF GateInit, GateInv, OneAlarmPerOutage

LEMMA GateStepInv == GateInv /\ [GateNext]_gateVars => GateInv'
  <1> SUFFICES ASSUME GateInv, [GateNext]_gateVars PROVE GateInv'
    OBVIOUS
  <1>1. ASSUME NEW p \in Passages, NEW g \in Gates, NEW s \in GateSkews, NEW k \in PassageKinds,
               PassGate(p, g, s, k)
        PROVE  GateInv'
    BY <1>1, PassGateStep
  <1>2. ASSUME NEW p \in Passages, Appear(p) \/ TypeIn(p) PROVE GateInv'
    BY <1>2, AppearStep, TypeInStep
  <1>3. CASE (\E g \in Gates : AckSkewAlarm(g)) \/ PollDies \/ UNCHANGED gateVars
    <2>1. /\ UNCHANGED <<gateClock, passage, accessRow, typedIn, purged, feed>>
          /\ poll' \in {poll, NoPoll}
      BY <1>3 DEF AckSkewAlarm, PollDies, gateVars
    <2>2. feed' \in FeedRows /\ OneAlarmPerOutage'
      BY <2>1 DEF GateInv, GateTypes, OneAlarmPerOutage
    <2> QED
      BY <2>1, <2>2, QuietGateStep DEF GateInv
  <1>4. CASE PollFetch \/ PollFails \/ PollCommit \/ PurgePassages \/ GateClockTick
    BY <1>4, PollFetchStep, PollFailsStep, PollCommitStep, PurgePassagesStep, GateClockStep
  <1> QED
    BY <1>1, <1>2, <1>3, <1>4 DEF GateNext

\* The gate poller (dahua_gate.py) asks again for every passage listed within the overlap, stores
\* none that retention deleted, and alarms an outage once: FeedIsExact of any gates and passages,
\* for any clocks of theirs, any overlap, retention and offline threshold, whatever polls fail or die.
THEOREM GateFeedIsExact == GateSpec => []FeedIsExact
  <1>1. GateInv => FeedIsExact
    BY CursorBehind DEF GateInv, FeedIsExact, PurgedBehind
  <1> QED
    BY <1>1, GateInitInv, GateStepInv, PTL DEF GateSpec

-----------------------------------------------------------------------------
(* The vision edge node and its core (VisionEdge).                          *)

EdgeIds == ({"event", "observation"} \X Frames) \cup ({"rollup"} \X Nat \X Nat \X Nat)
EdgeRows == [id : EdgeIds, frames : SUBSET Frames, at : Nat, no : Nat, state : {"pending", "sent", "dead"}]
EdgeNodes == [state : {"down", "up", "stopping"}, boot : Nat, config : Configs \cup {NoConfig}, epoch : Nat,
              bucket : [start : Nat, frames : SUBSET Frames]]
Budgets == [transport : {"http", "mqtt"}, configs : Nat, events : Nat, boots : Nat,
            time : 1..EdgeMaxTime, posts : Nat]
CoreRequests == [batch : SUBSET EdgeRows, fresh : SUBSET EdgeRows, read : BOOLEAN]
IsRollup(r) == r.id[1] = "rollup"
Pair(r) == <<r.id, r.frames>>

OutboxRows(rows) ==
  rows \subseteq EdgeRows /\ IsFiniteSet(rows) /\ \E n \in Nat : \A r \in rows : r.no <= n

EdgeTypes ==
  /\ edgeClock \in Nat \ {0} /\ left \in Budgets /\ edgeClock <= left.time
  /\ node \in EdgeNodes /\ coreConfig \in Configs /\ cached \in Configs \cup {NoConfig}
  /\ cameraStopped \in BOOLEAN
  /\ OutboxRows(outbox)
  /\ broker \subseteq EdgeRows /\ serving \subseteq CoreRequests
  /\ post = [batch |-> post.batch, answer |-> post.answer]
  /\ DOMAIN core \subseteq EdgeIds /\ promoted \in [Frames -> {0, 1}]
  /\ processed \subseteq {f \in Frames : f <= edgeClock}

\* An open bucket has frames of its own time only, and is closed soon after it is due.
BucketIsOpen ==
  /\ \A f \in node.bucket.frames : f \in processed /\ BucketStart(f) = node.bucket.start
  /\ node.bucket # NoBucket =>
       /\ node.bucket.frames # {} /\ node.state = "up" /\ node.config.scene # 0
       /\ edgeClock <= node.bucket.start + BucketLength

\* Every analysed frame is in one place, and a rollup has one content wherever it is.
Counted ==
  /\ \A f \in processed : \/ f \in lostFrames \cup dropped \cup node.bucket.frames
                          \/ \E x \in Reported : f \in x[2]
  /\ \A x \in Reported : x[2] \subseteq processed /\ \A f \in node.bucket.frames : f \notin x[2]
  /\ \A x, y \in Reported : (x[1] = y[1] \/ \E f \in x[2] : f \in y[2]) => x = y

\* A row leaves the outbox only when its bucket is long closed.
PrunedIsOld ==
  /\ \A r \in outbox : IsRollup(r) => r.id[2] <= r.at
  /\ \A x \in Reported : x[1] \notin OutboxIds(outbox) => x[1][2] + SentKept < edgeClock

\* The ids filed so far come before the one the open or the next bucket gets.
Past(id) ==
  \/ id[3] < node.boot
  \/ /\ id[3] = node.boot
     /\ \/ node.state # "up"
        \/ /\ node.config.scene # 0
           /\ \/ id[4] < node.epoch
              \/ /\ id[4] = node.epoch
                 /\ IF node.bucket = NoBucket THEN id[2] + BucketLength <= edgeClock
                    ELSE id[2] < node.bucket.start

IdsArePast ==
  /\ ~cameraStopped => \A r \in outbox : IsRollup(r) => Past(r.id)
  /\ dropped # {} => cameraStopped

\* What is on its way is also somewhere it stays; an answer is given for what was stored.
OnItsWay ==
  /\ \A s \in serving : \A r \in s.batch : IsRollup(r) => Pair(r) \in Reported
  /\ \A s \in serving : s.fresh \subseteq s.batch
  /\ \A s \in serving : s.read => \A r \in s.batch : r.id \in DOMAIN core \/ r \in s.fresh
  /\ post.answer = Ok => \A r \in post.batch : r.id \in DOMAIN core

SentIsTaken ==
  \A r \in outbox : r.state = "sent" =>
    \/ r.id \in DOMAIN core
    \/ left.transport = "mqtt" /\ (r.id \in {b.id : b \in broker} \/ Refused(r))

PromotedOnce ==
  \A f \in Frames : /\ promoted[f] = 1 <=> EventId(f) \in DOMAIN core /\ f \notin replayed
                    /\ f \in replayed => EventId(f) \in DOMAIN core

EdgeInv == /\ EdgeTypes /\ BucketIsOpen /\ Counted /\ PrunedIsOld /\ IdsArePast
           /\ OnItsWay /\ SentIsTaken /\ PromotedOnce

LEMMA EdgeLimits ==
  /\ BucketLength \in Nat \ {0} /\ SentKept \in Nat /\ BucketLength <= SentKept /\ EdgeMaxTime \in Nat
  /\ EdgeBudgets \subseteq Budgets
  BY EdgeAssumption DEF Budgets

\* A time lies in its bucket, and buckets follow time.
LEMMA BucketNumbers ==
  ASSUME NEW t \in Nat
  PROVE  BucketStart(t) \in Nat /\ BucketStart(t) <= t /\ t < BucketStart(t) + BucketLength
  <1>1. BucketLength \in Nat /\ BucketLength > 0
    BY EdgeLimits
  <1>2. t % BucketLength \in 0..(BucketLength - 1) /\ t % BucketLength <= t
    <2>1. t = BucketLength * (t \div BucketLength) + (t % BucketLength)
      BY <1>1
    <2>2. t % BucketLength \in 0..(BucketLength - 1) /\ t \div BucketLength \in Nat
      BY <1>1
    <2>3. BucketLength * (t \div BucketLength) \in Nat
      BY <1>1, <2>2
    <2> QED
      BY <2>1, <2>2, <2>3
  <1> QED
    BY <1>1, <1>2 DEF BucketStart

LEMMA BucketsAscend ==
  ASSUME NEW g \in Nat, NEW t \in Nat, g <= t PROVE BucketStart(g) <= BucketStart(t)
  <1>1. BucketLength \in Nat /\ BucketLength > 0
    BY EdgeLimits
  <1> DEFINE k == g \div BucketLength
             q == t \div BucketLength
  <1>2. /\ k \in Nat /\ q \in Nat /\ g % BucketLength \in Nat /\ t % BucketLength \in Nat
        /\ g = BucketLength * k + (g % BucketLength) /\ t = BucketLength * q + (t % BucketLength)
        /\ t % BucketLength < BucketLength
    BY <1>1
  <1> HIDE DEF k, q
  <1>3. BucketStart(g) = BucketLength * k /\ BucketStart(t) = BucketLength * q
    <2>1. BucketLength * k \in Nat /\ BucketLength * q \in Nat
      BY <1>1, <1>2
    <2> QED
      BY <1>2, <2>1 DEF BucketStart
  <1>4. k <= q
    <2> SUFFICES ASSUME k >= q + 1 PROVE FALSE
      BY <1>2
    <2>1. BucketLength * k >= BucketLength * (q + 1)
      BY <1>1, <1>2
    <2>2. BucketLength * (q + 1) = BucketLength * q + BucketLength
      BY <1>1, <1>2
    <2>3. BucketLength * k \in Nat /\ BucketLength * q \in Nat /\ BucketLength * (q + 1) \in Nat
      BY <1>1, <1>2
    <2> QED
      BY <1>1, <1>2, <2>1, <2>2, <2>3
  <1>5. BucketLength * k <= BucketLength * q
    BY <1>1, <1>2, <1>4
  <1> QED
    BY <1>3, <1>5

\* What the ids of records look like.
LEMMA IdShapes ==
  /\ \A f : EventId(f)[1] = "event" /\ EventId(f)[2] = f /\ ObservationId(f)[1] = "observation"
  /\ \A f \in Frames : EventId(f) \in EdgeIds /\ ObservationId(f) \in EdgeIds
  /\ \A a, b, c : RollupId(a, b, c)[1] = "rollup" /\ RollupId(a, b, c)[2] = a
                  /\ RollupId(a, b, c)[3] = b /\ RollupId(a, b, c)[4] = c
  /\ \A a, b, c \in Nat : RollupId(a, b, c) \in EdgeIds
  /\ \A id \in EdgeIds : id[1] = "rollup" => id[2] \in Nat /\ id[3] \in Nat /\ id[4] \in Nat
  <1>1. /\ \A f : EventId(f)[1] = "event" /\ EventId(f)[2] = f /\ ObservationId(f)[1] = "observation"
        /\ \A f \in Frames : EventId(f) \in EdgeIds /\ ObservationId(f) \in EdgeIds
    BY DEF EventId, ObservationId, EdgeIds
  <1>2. \A a, b, c : RollupId(a, b, c)[1] = "rollup" /\ RollupId(a, b, c)[2] = a
                     /\ RollupId(a, b, c)[3] = b /\ RollupId(a, b, c)[4] = c
    BY DEF RollupId
  <1>3. \A a, b, c \in Nat : RollupId(a, b, c) \in EdgeIds
    BY DEF RollupId, EdgeIds
  <1>4. \A id \in EdgeIds : id[1] = "rollup" => id[2] \in Nat /\ id[3] \in Nat /\ id[4] \in Nat
    BY DEF EdgeIds
  <1> QED
    BY <1>1, <1>2, <1>3, <1>4

\* put adds at most one row, and none under an id that is there.
LEMMA PutRows ==
  ASSUME NEW rows, OutboxRows(rows), NEW id \in EdgeIds, NEW frames \in SUBSET Frames, edgeClock \in Nat
  PROVE  /\ OutboxRows(Put(rows, id, frames)) /\ rows \subseteq Put(rows, id, frames)
         /\ \A r \in Put(rows, id, frames) :
              \/ r \in rows
              \/ /\ id \notin OutboxIds(rows) /\ r.id = id /\ r.frames = frames
                 /\ r.at = edgeClock /\ r.state = "pending"
         /\ id \notin OutboxIds(rows) => \E r \in Put(rows, id, frames) : r.id = id /\ r.frames = frames
  <1>1. CASE id \in OutboxIds(rows)
    BY <1>1 DEF Put
  <1>2. CASE id \notin OutboxIds(rows)
    <2> DEFINE nos == {r.no : r \in rows} \cup {0}
               row == [id |-> id, frames |-> frames, at |-> edgeClock, no |-> NextNo(rows), state |-> "pending"]
    <2>1. PICK n \in Nat : \A r \in rows : r.no <= n
      BY DEF OutboxRows
    <2>2. \A r \in rows : r.no \in Nat
      BY DEF OutboxRows, EdgeRows
    <2>3. nos \subseteq Int /\ nos # {} /\ \A s \in nos : s <= n /\ s \in Nat
      BY <2>1, <2>2
    <2>4. Max(nos) \in nos /\ \A y \in nos : y <= Max(nos)
      <3> HIDE DEF nos
      <3>1. n \in Int /\ \A s \in nos : s <= n
        BY <2>1, <2>3
      <3> QED
        BY <2>3, <3>1, GreatestInt
    <2>5. PICK k \in Nat : k = NextNo(rows) /\ \A r \in rows : r.no <= k
      <3>1. Max(nos) \in Nat /\ \A r \in rows : r.no <= Max(nos)
        BY <2>3, <2>4
      <3>2. NextNo(rows) = 1 + Max(nos)
        BY DEF NextNo
      <3> HIDE DEF nos
      <3>3. NextNo(rows) \in Nat /\ \A r \in rows : r.no <= NextNo(rows)
        BY <2>2, <3>1, <3>2
      <3> QED
        BY <3>3
    <2>6. row \in EdgeRows /\ row.no = k /\ row.id = id /\ row.frames = frames /\ row.at = edgeClock
          /\ row.state = "pending"
      BY <2>5 DEF EdgeRows
    <2>7. Put(rows, id, frames) = rows \cup {row}
      BY <1>2 DEF Put
    <2> HIDE DEF row
    <2>8. IsFiniteSet(rows \cup {row})
      BY FS_AddElement DEF OutboxRows
    <2>9. OutboxRows(rows \cup {row})
      BY <2>5, <2>6, <2>8 DEF OutboxRows
    <2> QED
      BY <1>2, <2>6, <2>7, <2>9
  <1> QED
    BY <1>1, <1>2

\* Marking changes the state of rows and nothing else of them.
LEMMA MarkedRows ==
  ASSUME NEW rows, OutboxRows(rows), NEW ids, NEW st \in {"sent", "dead"}
  PROVE  /\ OutboxRows(Mark(rows, ids, st))
         /\ \A r \in rows : \E q \in Mark(rows, ids, st) : q.id = r.id /\ q.frames = r.frames /\ q.at = r.at
         /\ \A q \in Mark(rows, ids, st) :
              \E r \in rows : /\ q.id = r.id /\ q.frames = r.frames /\ q.at = r.at
                              /\ q.state = (IF r.id \in ids THEN st ELSE r.state)
  <1> DEFINE M(r) == IF r.id \in ids THEN [r EXCEPT !.state = st] ELSE r
  <1>1. ASSUME NEW r \in rows
        PROVE  /\ M(r) \in EdgeRows /\ M(r).id = r.id /\ M(r).frames = r.frames /\ M(r).at = r.at /\ M(r).no = r.no
               /\ M(r).state = (IF r.id \in ids THEN st ELSE r.state)
    <2>1. r \in EdgeRows
      BY DEF OutboxRows
    <2> QED
      BY <2>1 DEF EdgeRows
  <1>2. Mark(rows, ids, st) = {M(r) : r \in rows}
    BY DEF Mark
  <1> HIDE DEF M
  <1>3. IsFiniteSet({M(r) : r \in rows})
    <2> DEFINE mark == [r \in rows |-> M(r)]
    <2>1. IsFiniteSet(rows)
      BY DEF OutboxRows
    <2>2. mark \in Surjection(rows, {M(r) : r \in rows})
      BY DEF Surjection
    <2> HIDE DEF mark
    <2> QED
      BY <2>1, <2>2, FS_Surjection
  <1>4. PICK n \in Nat : \A r \in rows : r.no <= n
    BY DEF OutboxRows
  <1>5. OutboxRows({M(r) : r \in rows})
    BY <1>1, <1>3, <1>4 DEF OutboxRows
  <1> QED
    BY <1>1, <1>2, <1>5

\* What closing a bucket, or not closing one, may do to the outbox: rows are added as pending, and the
\* rollup among them is the open bucket, under an id the outbox does not have.
Files(new) ==
  /\ OutboxRows(new) /\ outbox \subseteq new
  /\ \A r \in new : \/ r \in outbox
                    \/ /\ r.state = "pending"
                       /\ IsRollup(r) => /\ node.bucket.frames # {} /\ r.at = edgeClock
                                         /\ r.id = BucketId(node) /\ r.frames = node.bucket.frames
                                         /\ r.id \notin OutboxIds(outbox)

\* The same without a rollup.
Notes(new) ==
  /\ OutboxRows(new) /\ outbox \subseteq new
  /\ \A r \in new : r \in outbox \/ (r.state = "pending" /\ ~IsRollup(r))

LEMMA NothingNoted == ASSUME EdgeInv PROVE Notes(outbox)
  BY DEF EdgeInv, EdgeTypes, Notes

LEMMA NotesFile == ASSUME NEW new, Notes(new) PROVE Files(new)
  BY DEF Notes, Files

LEMMA RecordsAreNoted ==
  ASSUME EdgeInv, NEW rows, Notes(rows), NEW f \in Frames
  PROVE  Notes(Put(rows, EventId(f), {f})) /\ Notes(Put(rows, ObservationId(f), {f}))
  <1>1. OutboxRows(rows) /\ edgeClock \in Nat /\ {f} \in SUBSET Frames
    BY DEF EdgeInv, EdgeTypes, Notes
  <1>2. ASSUME NEW id \in EdgeIds, id[1] # "rollup" PROVE Notes(Put(rows, id, {f}))
    BY <1>1, <1>2, PutRows DEF Notes, IsRollup
  <1>3. EventId(f) \in EdgeIds /\ EventId(f)[1] # "rollup" /\ ObservationId(f) \in EdgeIds
        /\ ObservationId(f)[1] # "rollup"
    BY IdShapes
  <1> QED
    BY <1>2, <1>3

\* The id of the bucket, and that the bucket is one.
LEMMA BucketOfNode ==
  ASSUME EdgeInv
  PROVE  /\ BucketId(node) \in EdgeIds /\ BucketId(node)[1] = "rollup" /\ BucketId(node)[2] = node.bucket.start
         /\ BucketId(node)[3] = node.boot /\ BucketId(node)[4] = node.epoch
         /\ node.bucket.start \in Nat /\ node.boot \in Nat /\ node.epoch \in Nat
         /\ node.bucket.frames \in SUBSET Frames
         /\ node.bucket.frames # {} => node.bucket # NoBucket
         /\ node.bucket # NoBucket => /\ node.bucket.frames # {} /\ node.state = "up"
                                      /\ node.config.scene # 0 /\ node.bucket.start <= edgeClock
                                      /\ edgeClock <= node.bucket.start + BucketLength
  <1>1. node.bucket.start \in Nat /\ node.boot \in Nat /\ node.epoch \in Nat /\ node.bucket.frames \in SUBSET Frames
    BY DEF EdgeInv, EdgeTypes, EdgeNodes
  <1>2. /\ BucketId(node) \in EdgeIds /\ BucketId(node)[1] = "rollup" /\ BucketId(node)[2] = node.bucket.start
        /\ BucketId(node)[3] = node.boot /\ BucketId(node)[4] = node.epoch
    <2>1. BucketId(node) = RollupId(node.bucket.start, node.boot, node.epoch)
      BY DEF BucketId
    <2>2. RollupId(node.bucket.start, node.boot, node.epoch) \in EdgeIds
      BY <1>1, IdShapes
    <2>3. BucketId(node)[1] = "rollup" /\ BucketId(node)[2] = node.bucket.start
      BY <2>1 DEF RollupId
    <2>4. BucketId(node)[3] = node.boot /\ BucketId(node)[4] = node.epoch
      BY <2>1 DEF RollupId
    <2> QED
      BY <2>1, <2>2, <2>3, <2>4
  <1>3. node.bucket.frames # {} => node.bucket # NoBucket
    BY DEF NoBucket
  <1>4. ASSUME node.bucket # NoBucket PROVE node.bucket.start <= edgeClock
    <2>1. PICK f \in node.bucket.frames : TRUE
      BY <1>4 DEF EdgeInv, BucketIsOpen
    <2>2. f \in processed /\ BucketStart(f) = node.bucket.start
      BY <2>1 DEF EdgeInv, BucketIsOpen
    <2>3. f \in Nat /\ f <= edgeClock /\ edgeClock \in Nat
      BY <2>2, EdgeLimits DEF EdgeInv, EdgeTypes, Frames
    <2>4. BucketStart(f) <= f /\ BucketStart(f) \in Nat
      BY <2>3, BucketNumbers
    <2> QED
      BY <2>2, <2>3, <2>4
  <1> QED
    BY <1>1, <1>2, <1>3, <1>4 DEF EdgeInv, BucketIsOpen

\* Closing files the bucket, unless it is empty or its id is taken.
LEMMA ClosingFiles ==
  ASSUME EdgeInv, NEW rows, Notes(rows)
  PROVE  /\ Files(Closed(rows, node))
         /\ node.bucket.frames # {} /\ BucketId(node) \notin OutboxIds(outbox) =>
              \E r \in Closed(rows, node) : r.id = BucketId(node) /\ r.frames = node.bucket.frames
  <1>1. CASE node.bucket.frames = {}
    BY <1>1, NotesFile DEF Closed
  <1>2. CASE node.bucket.frames # {}
    <2>1. Closed(rows, node) = Put(rows, BucketId(node), node.bucket.frames)
      BY <1>2 DEF Closed
    <2>2. BucketId(node) \in EdgeIds /\ BucketId(node)[1] = "rollup" /\ node.bucket.frames \in SUBSET Frames
      BY BucketOfNode
    <2>3. OutboxRows(rows) /\ edgeClock \in Nat /\ outbox \subseteq rows
      BY DEF EdgeInv, EdgeTypes, Notes
    <2> DEFINE new == Put(rows, BucketId(node), node.bucket.frames)
    <2>4. /\ OutboxRows(new) /\ rows \subseteq new
          /\ \A r \in new :
               \/ r \in rows
               \/ /\ BucketId(node) \notin OutboxIds(rows) /\ r.id = BucketId(node) /\ r.frames = node.bucket.frames
                  /\ r.at = edgeClock /\ r.state = "pending"
          /\ BucketId(node) \notin OutboxIds(rows) =>
               \E r \in new : r.id = BucketId(node) /\ r.frames = node.bucket.frames
      BY <2>2, <2>3, PutRows
    <2> HIDE DEF new
    <2>5. BucketId(node) \in OutboxIds(rows) <=> BucketId(node) \in OutboxIds(outbox)
      BY <2>2, <2>3 DEF OutboxIds, Notes, IsRollup
    <2>6. Files(new)
      BY <1>2, <2>3, <2>4, <2>5 DEF Files, Notes
    <2> QED
      BY <2>1, <2>4, <2>5, <2>6 DEF new
  <1> QED
    BY <1>1, <1>2

\* What is reported, by where it is.
LEMMA ReportedIs ==
  \A x : x \in Reported <=>
           \/ \E r \in outbox \cup broker : IsRollup(r) /\ x = Pair(r)
           \/ \E id \in DOMAIN core : id[1] = "rollup" /\ x = <<id, core[id]>>
  BY DEF Reported, IsRollup, Pair

LEMMA FilingReports ==
  ASSUME EdgeInv, Files(outbox'), broker' = broker, core' = core
  PROVE  /\ Reported \subseteq Reported'
         /\ \A x \in Reported' :
              \/ x \in Reported
              \/ /\ x = <<BucketId(node), node.bucket.frames>> /\ node.bucket.frames # {}
                 /\ BucketId(node) \notin OutboxIds(outbox) /\ x[1] \in OutboxIds(outbox')
  <1>1. \A x : x \in Reported' <=>
           \/ \E r \in outbox' \cup broker : IsRollup(r) /\ x = Pair(r)
           \/ \E id \in DOMAIN core : id[1] = "rollup" /\ x = <<id, core[id]>>
    BY DEF Reported, IsRollup, Pair
  <1>2. Reported \subseteq Reported'
    BY <1>1, ReportedIs DEF Files
  <1>3. ASSUME NEW x \in Reported', x \notin Reported
        PROVE  /\ x = <<BucketId(node), node.bucket.frames>> /\ node.bucket.frames # {}
               /\ BucketId(node) \notin OutboxIds(outbox) /\ x[1] \in OutboxIds(outbox')
    <2>1. PICK r \in outbox' : IsRollup(r) /\ x = Pair(r) /\ r \notin outbox
      BY <1>1, <1>3, ReportedIs
    <2>2. /\ node.bucket.frames # {} /\ r.id = BucketId(node) /\ r.frames = node.bucket.frames
          /\ r.id \notin OutboxIds(outbox)
      BY <2>1 DEF Files
    <2> QED
      BY <2>1, <2>2 DEF Pair, OutboxIds
  <1> QED
    BY <1>2, <1>3

LEMMA NotingReports ==
  ASSUME EdgeInv, Notes(outbox'), broker' = broker, core' = core PROVE Reported' = Reported
  <1>1. \A x : x \in Reported' <=>
           \/ \E r \in outbox' \cup broker : IsRollup(r) /\ x = Pair(r)
           \/ \E id \in DOMAIN core : id[1] = "rollup" /\ x = <<id, core[id]>>
    BY DEF Reported, IsRollup, Pair
  <1> QED
    BY <1>1, ReportedIs DEF Notes

\* The id of the bucket that is filed now is nowhere yet: what retention of sent rows removed is older.
LEMMA FiledIdIsNew ==
  ASSUME EdgeInv, node.bucket.frames # {}, BucketId(node) \notin OutboxIds(outbox), NEW x \in Reported
  PROVE  x[1] # BucketId(node)
  <1> SUFFICES ASSUME x[1] = BucketId(node) PROVE FALSE
    OBVIOUS
  <1>1. node.bucket.start + SentKept < edgeClock
    BY BucketOfNode DEF EdgeInv, PrunedIsOld
  <1>2. edgeClock <= node.bucket.start + BucketLength /\ node.bucket.start \in Nat /\ edgeClock \in Nat
    BY BucketOfNode DEF EdgeInv, EdgeTypes
  <1> QED
    BY <1>1, <1>2, EdgeLimits

LEMMA FilingPrunes ==
  ASSUME EdgeInv, Files(outbox'), broker' = broker, core' = core, edgeClock' = edgeClock PROVE PrunedIsOld'
  <1>1. ASSUME NEW r \in outbox', IsRollup(r) PROVE r.id[2] <= r.at
    <2>1. CASE r \in outbox
      BY <1>1, <2>1 DEF EdgeInv, PrunedIsOld
    <2>2. CASE r \notin outbox
      <3>1. node.bucket.frames # {} /\ r.at = edgeClock /\ r.id = BucketId(node)
        BY <1>1, <2>2 DEF Files
      <3> QED
        BY <3>1, BucketOfNode
    <2> QED
      BY <2>1, <2>2
  <1>2. ASSUME NEW x \in Reported', x[1] \notin OutboxIds(outbox') PROVE x[1][2] + SentKept < edgeClock
    <2>1. x \in Reported
      BY <1>2, FilingReports
    <2>2. x[1] \notin OutboxIds(outbox)
      BY <1>2 DEF Files, OutboxIds
    <2> QED
      BY <2>1, <2>2 DEF EdgeInv, PrunedIsOld
  <1> QED
    BY <1>1, <1>2 DEF PrunedIsOld, IsRollup

LEMMA FilingDelivers ==
  ASSUME EdgeInv, Files(outbox'), left'.transport = left.transport,
         serving' = serving, broker' = broker, core' = core, promoted' = promoted, replayed' = replayed, post' = post
  PROVE  OnItsWay' /\ SentIsTaken' /\ PromotedOnce'
  <1>1. OnItsWay'
    BY FilingReports DEF EdgeInv, OnItsWay, IsRollup, Pair
  <1>2. SentIsTaken'
    BY DEF EdgeInv, SentIsTaken, Files, Refused
  <1>3. PromotedOnce'
    BY DEF EdgeInv, PromotedOnce
  <1> QED
    BY <1>1, <1>2, <1>3

\* Frames move from the open bucket to a rollup, or to those that are dropped, and new ones come in.
LEMMA FilingCounts ==
  ASSUME EdgeInv, Files(outbox'), broker' = broker, core' = core, lostFrames' = lostFrames,
         dropped \subseteq dropped', processed \subseteq processed',
         \A f \in processed' \ processed : f \in node'.bucket.frames,
         \A f \in node'.bucket.frames :
            f \in processed' \ processed \/ (f \in node.bucket.frames /\ Reported' = Reported),
         \A f \in node.bucket.frames :
            f \in dropped' \/ f \in node'.bucket.frames \/ \E x \in Reported' : f \in x[2]
  PROVE  Counted'
  <1> DEFINE Filed(x) == /\ x = <<BucketId(node), node.bucket.frames>> /\ node.bucket.frames # {}
                         /\ BucketId(node) \notin OutboxIds(outbox)
  <1>1. Reported \subseteq Reported' /\ \A x \in Reported' : x \in Reported \/ Filed(x)
    BY FilingReports
  <1>2. \A x : Filed(x) => x[1] = BucketId(node) /\ x[2] = node.bucket.frames /\ \A y \in Reported : y[1] # x[1]
    BY FiledIdIsNew
  <1> HIDE DEF Filed
  <1>3. node.bucket.frames \subseteq processed
    BY DEF EdgeInv, BucketIsOpen
  <1>4. ASSUME NEW f \in processed'
        PROVE  f \in lostFrames' \cup dropped' \cup node'.bucket.frames \/ \E x \in Reported' : f \in x[2]
    <2>1. CASE f \notin processed
      BY <2>1
    <2>2. CASE f \in processed
      BY <1>1, <2>2 DEF EdgeInv, Counted
    <2> QED
      BY <2>1, <2>2
  <1>5. ASSUME NEW x \in Reported' PROVE x[2] \subseteq processed' /\ \A f \in node'.bucket.frames : f \notin x[2]
    <2>1. CASE x \in Reported
      BY <2>1 DEF EdgeInv, Counted
    <2>2. CASE x \notin Reported
      BY <1>1, <1>2, <1>3, <2>2
    <2> QED
      BY <2>1, <2>2
  <1>6. ASSUME NEW x \in Reported', NEW y \in Reported', x[1] = y[1] \/ \E f \in x[2] : f \in y[2] PROVE x = y
    <2>1. CASE x \in Reported /\ y \in Reported
      BY <1>6, <2>1 DEF EdgeInv, Counted
    <2>2. CASE Filed(x) /\ Filed(y)
      BY <2>2 DEF Filed
    <2>3. CASE x \in Reported /\ Filed(y)
      BY <1>2, <1>6, <2>3 DEF EdgeInv, Counted
    <2>4. CASE Filed(x) /\ y \in Reported
      BY <1>2, <1>6, <2>4 DEF EdgeInv, Counted
    <2> QED
      BY <1>1, <2>1, <2>2, <2>3, <2>4
  <1> QED
    BY <1>4, <1>5, <1>6 DEF Counted

\* A filed rollup is an old one or the open bucket.
LEMMA FiledIds ==
  ASSUME EdgeInv, Files(outbox'), NEW r \in outbox', IsRollup(r)
  PROVE  /\ r.id[2] \in Nat /\ r.id[3] \in Nat /\ r.id[4] \in Nat
         /\ \/ r \in outbox
            \/ node.bucket.frames # {} /\ r.id = BucketId(node)
  <1>1. r.id \in EdgeIds
    BY DEF Files, OutboxRows, EdgeRows
  <1> QED
    BY <1>1, IdShapes DEF Files, IsRollup

\* As long as no camera was stopped, no bucket meets its id in the outbox.
LEMMA NothingDropped == ASSUME EdgeInv, ~cameraStopped PROVE Dropped(outbox, node) = {}
  <1> SUFFICES ASSUME node.bucket.frames # {}, BucketId(node) \in OutboxIds(outbox) PROVE FALSE
    BY DEF Dropped
  <1>1. PICK r \in outbox : r.id = BucketId(node)
    BY DEF OutboxIds
  <1>2. /\ r.id[1] = "rollup" /\ r.id[2] = node.bucket.start /\ r.id[3] = node.boot /\ r.id[4] = node.epoch
        /\ node.bucket.start \in Nat /\ node.boot \in Nat /\ node.epoch \in Nat
        /\ node.bucket # NoBucket /\ node.state = "up"
    BY <1>1, BucketOfNode
  <1>3. Past(r.id)
    BY <1>1, <1>2 DEF EdgeInv, IdsArePast, IsRollup
  <1> QED
    BY <1>2, <1>3 DEF Past

\* Frames whose bucket is closed are in a rollup or dropped.
LEMMA ClosedIsReported ==
  ASSUME EdgeInv, NEW rows, Notes(rows), outbox' = Closed(rows, node),
         dropped' = dropped \cup Dropped(outbox, node), broker' = broker, core' = core
  PROVE  /\ Files(outbox') /\ dropped \subseteq dropped'
         /\ \A f \in node.bucket.frames : f \in dropped' \/ \E x \in Reported' : f \in x[2]
         /\ dropped' # {} => cameraStopped
  <1>1. Files(outbox')
    BY ClosingFiles
  <1>2. ASSUME NEW f \in node.bucket.frames PROVE f \in dropped' \/ \E x \in Reported' : f \in x[2]
    <2>1. CASE BucketId(node) \in OutboxIds(outbox)
      BY <2>1 DEF Dropped
    <2>2. CASE BucketId(node) \notin OutboxIds(outbox)
      <3>1. PICK r \in outbox' : r.id = BucketId(node) /\ r.frames = node.bucket.frames
        BY <2>2, ClosingFiles
      <3>2. BucketId(node)[1] = "rollup"
        BY BucketOfNode
      <3>3. Pair(r) \in Reported'
        BY <3>1, <3>2 DEF Reported, Pair
      <3>4. f \in Pair(r)[2]
        BY <3>1 DEF Pair
      <3> QED
        BY <3>3, <3>4
    <2> QED
      BY <2>1, <2>2
  <1>3. dropped' # {} => cameraStopped
    BY NothingDropped DEF EdgeInv, IdsArePast, EdgeTypes
  <1> QED
    BY <1>1, <1>2, <1>3

\* The parts of EdgeInv a closing step shares.
LEMMA ClosingKeeps ==
  ASSUME EdgeInv, NEW rows, Notes(rows), outbox' = Closed(rows, node),
         dropped' = dropped \cup Dropped(outbox, node), edgeClock' = edgeClock, left'.transport = left.transport,
         serving' = serving, broker' = broker, core' = core, promoted' = promoted, replayed' = replayed,
         post' = post, lostFrames' = lostFrames, processed \subseteq processed',
         node'.bucket.frames = processed' \ processed
  PROVE  Files(outbox') /\ Counted' /\ PrunedIsOld' /\ OnItsWay' /\ SentIsTaken' /\ PromotedOnce'
         /\ (dropped' # {} => cameraStopped)
  <1>1. /\ Files(outbox') /\ dropped \subseteq dropped'
        /\ \A f \in node.bucket.frames : f \in dropped' \/ \E x \in Reported' : f \in x[2]
        /\ dropped' # {} => cameraStopped
    BY ClosedIsReported
  <1>2. Counted'
    BY <1>1, FilingCounts
  <1>3. PrunedIsOld'
    BY <1>1, FilingPrunes
  <1>4. OnItsWay' /\ SentIsTaken' /\ PromotedOnce'
    BY <1>1, FilingDelivers
  <1> QED
    BY <1>1, <1>2, <1>3, <1>4

LEMMA NotingKeeps ==
  ASSUME EdgeInv, Notes(outbox'), dropped' = dropped, edgeClock' = edgeClock, left'.transport = left.transport,
         serving' = serving, broker' = broker, core' = core, promoted' = promoted, replayed' = replayed,
         post' = post, lostFrames' = lostFrames, processed \subseteq processed',
         node'.bucket.frames = node.bucket.frames \cup (processed' \ processed)
  PROVE  Files(outbox') /\ Counted' /\ PrunedIsOld' /\ OnItsWay' /\ SentIsTaken' /\ PromotedOnce'
  <1>1. Files(outbox')
    BY NotesFile
  <1>2. Reported' = Reported
    BY NotingReports
  <1>3. Counted'
    BY <1>1, <1>2, FilingCounts
  <1>4. PrunedIsOld'
    BY <1>1, FilingPrunes
  <1>5. OnItsWay' /\ SentIsTaken' /\ PromotedOnce'
    BY <1>1, FilingDelivers
  <1> QED
    BY <1>1, <1>3, <1>4, <1>5

\* A node with another bucket.
LEMMA BucketChanged ==
  ASSUME NEW n \in EdgeNodes, NEW b \in [start : Nat, frames : SUBSET Frames]
  PROVE  /\ [n EXCEPT !.bucket = b] \in EdgeNodes
         /\ [n EXCEPT !.bucket = b].bucket = b /\ [n EXCEPT !.bucket = b].state = n.state
         /\ [n EXCEPT !.bucket = b].boot = n.boot /\ [n EXCEPT !.bucket = b].epoch = n.epoch
         /\ [n EXCEPT !.bucket = b].config = n.config
  BY DEF EdgeNodes

LEMMA NoBucketIs == NoBucket \in [start : Nat, frames : SUBSET Frames] /\ NoBucket.frames = {} /\ NoBucket.start = 0
  BY DEF NoBucket

LEMMA FrameProcessed ==
  ASSUME EdgeInv, NEW concludes \in BOOLEAN, NEW lab \in BOOLEAN, ProcessFrame(concludes, lab) PROVE EdgeInv'
  <1> DEFINE f == edgeClock
             seen == IF concludes
                     THEN Put(IF lab THEN Put(outbox, ObservationId(f), {f}) ELSE outbox, EventId(f), {f})
                     ELSE outbox
             same == node.bucket.start = BucketStart(f) /\ node.bucket # NoBucket
  <1>1. /\ node.state = "up" /\ node.config.scene # 0 /\ f \notin processed /\ processed' = processed \cup {f}
        /\ edgeClock' = edgeClock /\ cached' = cached /\ coreConfig' = coreConfig /\ post' = post
        /\ lostFrames' = lostFrames /\ cameraStopped' = cameraStopped /\ serving' = serving
        /\ broker' = broker /\ core' = core /\ promoted' = promoted /\ replayed' = replayed
    BY DEF ProcessFrame, coreVars
  <1>2. f \in Nat /\ f \in Frames /\ node \in EdgeNodes
    BY EdgeLimits DEF EdgeInv, EdgeTypes, Frames, Budgets
  <1>3. Notes(seen)
    <2>1. Notes(outbox)
      BY NothingNoted
    <2>2. Notes(IF lab THEN Put(outbox, ObservationId(f), {f}) ELSE outbox)
      BY <1>2, <2>1, RecordsAreNoted
    <2> QED
      BY <1>2, <2>1, <2>2, RecordsAreNoted
  <1>4. left' \in Budgets /\ left'.transport = left.transport /\ left'.time = left.time
    <2>1. left \in Budgets
      BY DEF EdgeInv, EdgeTypes
    <2>2. left' = left \/ (left.events > 0 /\ left' = [left EXCEPT !.events = @ - 1])
      BY DEF ProcessFrame
    <2> QED
      BY <2>1, <2>2 DEF Budgets
  <1>5. BucketStart(f) \in Nat /\ BucketStart(f) <= f /\ f < BucketStart(f) + BucketLength
    BY <1>2, BucketNumbers
  <1>6. /\ same => /\ node' = [node EXCEPT !.bucket.frames = @ \cup {f}]
                   /\ outbox' = seen /\ dropped' = dropped
        /\ ~same => /\ node' = [node EXCEPT !.bucket = [start |-> BucketStart(f), frames |-> {f}]]
                    /\ outbox' = Closed(seen, node) /\ dropped' = dropped \cup Dropped(outbox, node)
    BY DEF ProcessFrame
  <1> HIDE DEF seen
  <1>7. processed' \subseteq {g \in Frames : g <= edgeClock'}
    BY <1>1, <1>2 DEF EdgeInv, EdgeTypes
  <1>8. CASE same
    <2>1. PICK b : b = [start |-> node.bucket.start, frames |-> node.bucket.frames \cup {f}]
      OBVIOUS
    <2>2. b \in [start : Nat, frames : SUBSET Frames] /\ b.start = node.bucket.start
          /\ b.frames = node.bucket.frames \cup {f}
      BY <1>2, <2>1 DEF EdgeNodes
    <2>3. node' = [node EXCEPT !.bucket = b]
      <3>1. [node.bucket EXCEPT !.frames = @ \cup {f}] = b
        BY <1>2, <2>1 DEF EdgeNodes
      <3> QED
        BY <1>6, <1>8, <3>1
    <2>4. /\ node' \in EdgeNodes /\ node'.bucket = b /\ node'.state = node.state /\ node'.boot = node.boot
          /\ node'.epoch = node.epoch /\ node'.config = node.config
      BY <1>2, <2>2, <2>3, BucketChanged
    <2>5. Notes(outbox') /\ dropped' = dropped
      BY <1>3, <1>6, <1>8
    <2>6. Files(outbox') /\ Counted' /\ PrunedIsOld' /\ OnItsWay' /\ SentIsTaken' /\ PromotedOnce'
      <3>1. node'.bucket.frames = node.bucket.frames \cup (processed' \ processed)
        BY <1>1, <2>2, <2>4
      <3> QED
        BY <1>1, <1>4, <2>5, <3>1, NotingKeeps
    <2>7. EdgeTypes'
      BY <1>1, <1>4, <1>7, <2>4, <2>6 DEF EdgeInv, EdgeTypes, Files
    <2>8. BucketIsOpen'
      <3>1. \A g \in node'.bucket.frames : g \in processed' /\ BucketStart(g) = node'.bucket.start
        BY <1>1, <1>8, <2>2, <2>4 DEF EdgeInv, BucketIsOpen
      <3>2. edgeClock <= node'.bucket.start + BucketLength
        BY <1>2, <1>5, <1>8, <2>2, <2>4, EdgeLimits
      <3> QED
        BY <1>1, <2>2, <2>4, <3>1, <3>2 DEF BucketIsOpen, BucketStart
    <2>9. IdsArePast'
      <3>1. node'.bucket # NoBucket /\ node'.bucket.start = node.bucket.start
        BY <2>2, <2>4, NoBucketIs
      <3>2. \A id : Past(id) => Past(id)'
        BY <1>1, <1>8, <2>4, <3>1 DEF Past
      <3> QED
        BY <1>1, <2>5, <3>2 DEF EdgeInv, IdsArePast, Notes, IsRollup
    <2> QED
      BY <2>6, <2>7, <2>8, <2>9 DEF EdgeInv
  <1>9. CASE ~same
    <2>1. PICK b : b = [start |-> BucketStart(f), frames |-> {f}]
      OBVIOUS
    <2>2. b \in [start : Nat, frames : SUBSET Frames] /\ b.start = BucketStart(f) /\ b.frames = {f}
      BY <1>2, <1>5, <2>1
    <2>3. node' = [node EXCEPT !.bucket = b]
      BY <1>6, <1>9, <2>1
    <2>4. /\ node' \in EdgeNodes /\ node'.bucket = b /\ node'.state = node.state /\ node'.boot = node.boot
          /\ node'.epoch = node.epoch /\ node'.config = node.config
      BY <1>2, <2>2, <2>3, BucketChanged
    <2>5. outbox' = Closed(seen, node) /\ dropped' = dropped \cup Dropped(outbox, node)
      BY <1>6, <1>9
    <2>6. Files(outbox') /\ Counted' /\ PrunedIsOld' /\ OnItsWay' /\ SentIsTaken' /\ PromotedOnce'
          /\ (dropped' # {} => cameraStopped)
      <3>1. node'.bucket.frames = processed' \ processed
        BY <1>1, <2>2, <2>4
      <3> QED
        BY <1>1, <1>3, <1>4, <2>5, <3>1, ClosingKeeps
    <2>7. EdgeTypes'
      BY <1>1, <1>4, <1>7, <2>4, <2>6 DEF EdgeInv, EdgeTypes, Files
    <2>8. BucketIsOpen'
      <3>1. \A g \in node'.bucket.frames : g \in processed' /\ BucketStart(g) = node'.bucket.start
        BY <1>1, <2>2, <2>4
      <3>2. edgeClock <= node'.bucket.start + BucketLength
        BY <1>2, <1>5, <2>2, <2>4, EdgeLimits
      <3> QED
        BY <1>1, <2>2, <2>4, <3>1, <3>2 DEF BucketIsOpen, BucketStart
    <2>9. ASSUME ~cameraStopped, NEW r \in outbox', IsRollup(r) PROVE Past(r.id)'
      <3>1. node'.bucket # NoBucket /\ node'.bucket.start = BucketStart(f)
        BY <2>2, <2>4, NoBucketIs
      <3>2. /\ r.id[2] \in Nat /\ r.id[3] \in Nat /\ r.id[4] \in Nat
            /\ r \in outbox \/ (node.bucket.frames # {} /\ r.id = BucketId(node))
        BY <2>6, <2>9, FiledIds
      <3>3. node.bucket # NoBucket => node.bucket.start < BucketStart(f) /\ node.bucket.start \in Nat
        <4> SUFFICES ASSUME node.bucket # NoBucket PROVE node.bucket.start < BucketStart(f) /\ node.bucket.start \in Nat
          OBVIOUS
        <4>1. PICK g \in node.bucket.frames : g \in processed /\ BucketStart(g) = node.bucket.start
          BY DEF EdgeInv, BucketIsOpen
        <4>2. g \in Nat /\ g <= f
          BY <4>1, EdgeLimits DEF EdgeInv, EdgeTypes, Frames
        <4>3. BucketStart(g) <= BucketStart(f) /\ BucketStart(g) \in Nat
          BY <1>2, <4>2, BucketsAscend, BucketNumbers
        <4> QED
          BY <1>5, <1>9, <4>1, <4>3
      <3>4. CASE r \in outbox
        <4>1. Past(r.id)
          BY <2>9, <3>4 DEF EdgeInv, IdsArePast
        <4>2. BucketLength \in Nat
          BY EdgeLimits
        <4> QED
          BY <1>1, <1>2, <1>5, <2>4, <3>1, <3>2, <3>3, <4>1, <4>2 DEF Past
      <3>5. CASE node.bucket.frames # {} /\ r.id = BucketId(node)
        <4>1. /\ r.id[2] = node.bucket.start /\ r.id[3] = node.boot /\ r.id[4] = node.epoch
              /\ node.bucket # NoBucket
          BY <3>5, BucketOfNode
        <4> QED
          BY <1>1, <2>4, <3>1, <3>3, <4>1 DEF Past
      <3> QED
        BY <3>2, <3>4, <3>5
    <2>10. IdsArePast'
      BY <1>1, <2>6, <2>9 DEF IdsArePast, IsRollup
    <2> QED
      BY <2>6, <2>7, <2>8, <2>10 DEF EdgeInv
  <1> QED
    BY <1>8, <1>9

LEMMA NodeIdles == ASSUME EdgeInv, Idle PROVE EdgeInv'
  <1>1. /\ node.state = "up" /\ node.config.scene # 0 /\ node.bucket # NoBucket
        /\ edgeClock >= node.bucket.start + BucketLength
        /\ node' = [node EXCEPT !.bucket = NoBucket]
        /\ outbox' = Closed(outbox, node) /\ dropped' = dropped \cup Dropped(outbox, node)
        /\ edgeClock' = edgeClock /\ cached' = cached /\ coreConfig' = coreConfig /\ left' = left /\ post' = post
        /\ processed' = processed /\ lostFrames' = lostFrames /\ cameraStopped' = cameraStopped
        /\ serving' = serving /\ broker' = broker /\ core' = core /\ promoted' = promoted /\ replayed' = replayed
    BY DEF Idle, Ended, CloseBucket, coreVars
  <1>2. /\ node' \in EdgeNodes /\ node'.bucket = NoBucket /\ node'.state = node.state /\ node'.boot = node.boot
        /\ node'.epoch = node.epoch /\ node'.config = node.config
    BY <1>1, BucketChanged, NoBucketIs DEF EdgeInv, EdgeTypes
  <1>3. Files(outbox') /\ Counted' /\ PrunedIsOld' /\ OnItsWay' /\ SentIsTaken' /\ PromotedOnce'
        /\ (dropped' # {} => cameraStopped)
    <2>1. node'.bucket.frames = processed' \ processed
      BY <1>1, <1>2, NoBucketIs
    <2> QED
      BY <1>1, <2>1, NothingNoted, ClosingKeeps
  <1>4. EdgeTypes'
    BY <1>1, <1>2, <1>3 DEF EdgeInv, EdgeTypes, Files
  <1>5. BucketIsOpen'
    BY <1>2, NoBucketIs DEF BucketIsOpen
  <1>6. ASSUME ~cameraStopped, NEW r \in outbox', IsRollup(r) PROVE Past(r.id)'
    <2>1. /\ r.id[2] \in Nat /\ r.id[3] \in Nat /\ r.id[4] \in Nat
          /\ r \in outbox \/ (node.bucket.frames # {} /\ r.id = BucketId(node))
      BY <1>3, <1>6, FiledIds
    <2>2. node.bucket.start \in Nat /\ edgeClock \in Nat /\ BucketLength \in Nat
      BY BucketOfNode, EdgeLimits DEF EdgeInv, EdgeTypes
    <2>3. CASE r \in outbox
      <3>1. Past(r.id)
        BY <1>6, <2>3 DEF EdgeInv, IdsArePast
      <3> QED
        BY <1>1, <1>2, <2>1, <2>2, <3>1 DEF Past
    <2>4. CASE r.id = BucketId(node)
      <3>1. r.id[2] = node.bucket.start /\ r.id[3] = node.boot /\ r.id[4] = node.epoch
        BY <2>4, BucketOfNode
      <3> QED
        BY <1>1, <1>2, <2>2, <3>1 DEF Past
    <2> QED
      BY <2>1, <2>3, <2>4
  <1>7. IdsArePast'
    BY <1>1, <1>3, <1>6 DEF IdsArePast, IsRollup
  <1> QED
    BY <1>3, <1>4, <1>5, <1>7 DEF EdgeInv

LEMMA NodeShutsDown == ASSUME EdgeInv, Shutdown PROVE EdgeInv'
  <1>1. /\ node.state = "up" /\ node' = [node EXCEPT !.state = "stopping", !.bucket = NoBucket]
        /\ outbox' = Closed(outbox, node) /\ dropped' = dropped \cup Dropped(outbox, node)
        /\ edgeClock' = edgeClock /\ cached' = cached /\ coreConfig' = coreConfig /\ left' = left /\ post' = post
        /\ processed' = processed /\ lostFrames' = lostFrames /\ cameraStopped' = cameraStopped
        /\ serving' = serving /\ broker' = broker /\ core' = core /\ promoted' = promoted /\ replayed' = replayed
    BY DEF Shutdown, CloseBucket, coreVars
  <1>2. /\ node' \in EdgeNodes /\ node'.bucket = NoBucket /\ node'.state = "stopping" /\ node'.boot = node.boot
    <2>1. node \in EdgeNodes
      BY DEF EdgeInv, EdgeTypes
    <2>2. PICK n : n = [node EXCEPT !.state = "stopping"]
      OBVIOUS
    <2>3. n \in EdgeNodes /\ n.state = "stopping" /\ n.boot = node.boot
      BY <2>1, <2>2 DEF EdgeNodes
    <2>4. node' = [n EXCEPT !.bucket = NoBucket]
      BY <1>1, <2>2
    <2> QED
      BY <2>3, <2>4, BucketChanged, NoBucketIs
  <1>3. Files(outbox') /\ Counted' /\ PrunedIsOld' /\ OnItsWay' /\ SentIsTaken' /\ PromotedOnce'
        /\ (dropped' # {} => cameraStopped)
    <2>1. node'.bucket.frames = processed' \ processed
      BY <1>1, <1>2, NoBucketIs
    <2> QED
      BY <1>1, <2>1, NothingNoted, ClosingKeeps
  <1>4. EdgeTypes'
    BY <1>1, <1>2, <1>3 DEF EdgeInv, EdgeTypes, Files
  <1>5. BucketIsOpen'
    BY <1>2, NoBucketIs DEF BucketIsOpen
  <1>6. ASSUME ~cameraStopped, NEW r \in outbox', IsRollup(r) PROVE Past(r.id)'
    <2>1. r \in outbox \/ (node.bucket.frames # {} /\ r.id = BucketId(node))
      BY <1>3, <1>6, FiledIds
    <2>2. CASE r \in outbox
      <3>1. Past(r.id)
        BY <1>6, <2>2 DEF EdgeInv, IdsArePast
      <3> QED
        BY <1>2, <3>1 DEF Past
    <2>3. CASE r.id = BucketId(node)
      <3>1. r.id[3] = node.boot
        BY <2>3, BucketOfNode
      <3> QED
        BY <1>2, <3>1 DEF Past
    <2> QED
      BY <2>1, <2>2, <2>3
  <1>7. IdsArePast'
    BY <1>1, <1>3, <1>6 DEF IdsArePast, IsRollup
  <1> QED
    BY <1>3, <1>4, <1>5, <1>7 DEF EdgeInv

\* What a configuration makes of the node.
LEMMA AppliedNode ==
  ASSUME EdgeInv, NEW c \in Configs \cup {NoConfig}
  PROVE  /\ Applied(c) \in EdgeNodes /\ Applied(c).state = node.state /\ Applied(c).boot = node.boot
         /\ Applied(c).config = c
         /\ c.scene = node.config.scene => Applied(c).bucket = node.bucket /\ Applied(c).epoch = node.epoch
         /\ c.scene # node.config.scene => Applied(c).bucket = NoBucket
         /\ c.scene # node.config.scene /\ c.scene # 0 /\ node.config.scene # 0 => Applied(c).epoch = node.epoch + 1
  <1>1. node \in EdgeNodes /\ node.epoch \in Nat
    BY DEF EdgeInv, EdgeTypes, EdgeNodes
  <1>2. PICK n : n = [node EXCEPT !.config = c]
    OBVIOUS
  <1>3. n \in EdgeNodes /\ n.state = node.state /\ n.boot = node.boot /\ n.epoch = node.epoch /\ n.config = c
        /\ n.bucket = node.bucket
    BY <1>1, <1>2 DEF EdgeNodes
  <1>4. PICK m : m = [n EXCEPT !.bucket = NoBucket]
    OBVIOUS
  <1>5. m \in EdgeNodes /\ m.state = node.state /\ m.boot = node.boot /\ m.epoch = node.epoch /\ m.config = c
        /\ m.bucket = NoBucket
    BY <1>3, <1>4, BucketChanged, NoBucketIs
  <1>6. ASSUME NEW e \in Nat
        PROVE  LET k == [m EXCEPT !.epoch = e]
               IN  k \in EdgeNodes /\ k.state = node.state /\ k.boot = node.boot /\ k.epoch = e /\ k.config = c
                   /\ k.bucket = NoBucket
    BY <1>5 DEF EdgeNodes
  <1>7. CASE c.scene = 0
    <2>1. Applied(c) = m
      BY <1>2, <1>4, <1>7 DEF Applied, Stopped
    <2>2. node.config.scene = 0 => node.bucket = NoBucket
      BY DEF EdgeInv, BucketIsOpen
    <2> QED
      BY <1>5, <1>7, <2>1, <2>2
  <1>8. CASE c.scene # 0 /\ node.config.scene = 0
    <2>1. Applied(c) = [m EXCEPT !.epoch = 0]
      BY <1>2, <1>4, <1>8 DEF Applied, Started
    <2> QED
      BY <1>6, <1>8, <2>1
  <1>9. CASE c.scene # 0 /\ node.config.scene # 0 /\ c.scene = node.config.scene
    <2>1. Applied(c) = n
      BY <1>2, <1>9 DEF Applied, Rebuilt
    <2> QED
      BY <1>3, <1>9, <2>1
  <1>10. CASE c.scene # 0 /\ node.config.scene # 0 /\ c.scene # node.config.scene
    <2>1. Applied(c) = [m EXCEPT !.epoch = node.epoch + 1]
      BY <1>1, <1>2, <1>4, <1>5, <1>10 DEF Applied, Rebuilt
    <2>2. node.epoch + 1 \in Nat
      BY <1>1
    <2> QED
      BY <1>6, <1>10, <2>1, <2>2
  <1> QED
    BY <1>7, <1>8, <1>9, <1>10

LEMMA NodeRefreshes == ASSUME EdgeInv, Refresh PROVE EdgeInv'
  <1>1. PICK c \in Loaded :
          /\ Cache(c) /\ node' = Applied(c)
          /\ cameraStopped' = (cameraStopped \/ (c.scene = 0 /\ node.config.scene # 0))
          /\ IF c.scene = node.config.scene THEN UNCHANGED <<outbox, dropped>> ELSE CloseBucket
    BY DEF Refresh
  <1>2. /\ node.state = "up"
        /\ edgeClock' = edgeClock /\ coreConfig' = coreConfig /\ left' = left /\ post' = post
        /\ processed' = processed /\ lostFrames' = lostFrames
        /\ serving' = serving /\ broker' = broker /\ core' = core /\ promoted' = promoted /\ replayed' = replayed
    BY DEF Refresh, coreVars
  <1>3. c \in Configs \cup {NoConfig} /\ cached' \in Configs \cup {NoConfig}
    BY <1>1 DEF Loaded, Cache, EdgeInv, EdgeTypes
  <1>4. cameraStopped' \in BOOLEAN /\ (cameraStopped => cameraStopped')
    BY <1>1
  <1>5. /\ node' \in EdgeNodes /\ node'.state = node.state /\ node'.boot = node.boot /\ node'.config = c
        /\ c.scene = node.config.scene => node'.bucket = node.bucket /\ node'.epoch = node.epoch
        /\ c.scene # node.config.scene => node'.bucket = NoBucket
        /\ c.scene # node.config.scene /\ c.scene # 0 /\ node.config.scene # 0 => node'.epoch = node.epoch + 1
    BY <1>1, <1>3, AppliedNode
  <1>6. CASE c.scene = node.config.scene
    <2>1. outbox' = outbox /\ dropped' = dropped /\ cameraStopped' = cameraStopped
      <3>1. cameraStopped \in BOOLEAN
        BY DEF EdgeInv, EdgeTypes
      <3> QED
        BY <1>1, <1>6, <3>1
    <2>2. Files(outbox') /\ Counted' /\ PrunedIsOld' /\ OnItsWay' /\ SentIsTaken' /\ PromotedOnce'
      <3>1. node'.bucket.frames = node.bucket.frames \cup (processed' \ processed)
        BY <1>2, <1>5, <1>6
      <3>2. Notes(outbox')
        BY <2>1, NothingNoted
      <3> QED
        BY <1>2, <2>1, <3>1, <3>2, NotingKeeps
    <2>3. EdgeTypes'
      BY <1>2, <1>3, <1>4, <1>5, <2>2 DEF EdgeInv, EdgeTypes, Files
    <2>4. BucketIsOpen'
      BY <1>2, <1>5, <1>6 DEF EdgeInv, BucketIsOpen, BucketStart
    <2>5. \A id : Past(id) => Past(id)'
      BY <1>2, <1>5, <1>6 DEF Past
    <2>6. IdsArePast'
      BY <2>1, <2>5 DEF EdgeInv, IdsArePast, IsRollup
    <2> QED
      BY <2>2, <2>3, <2>4, <2>6 DEF EdgeInv
  <1>7. CASE c.scene # node.config.scene
    <2>1. outbox' = Closed(outbox, node) /\ dropped' = dropped \cup Dropped(outbox, node)
      BY <1>1, <1>7 DEF CloseBucket
    <2>2. Files(outbox') /\ Counted' /\ PrunedIsOld' /\ OnItsWay' /\ SentIsTaken' /\ PromotedOnce'
          /\ (dropped' # {} => cameraStopped)
      <3>1. node'.bucket.frames = processed' \ processed
        BY <1>2, <1>5, <1>7, NoBucketIs
      <3> QED
        BY <1>2, <2>1, <3>1, NothingNoted, ClosingKeeps
    <2>3. EdgeTypes'
      BY <1>2, <1>3, <1>4, <1>5, <2>2 DEF EdgeInv, EdgeTypes, Files
    <2>4. BucketIsOpen'
      BY <1>5, <1>7, NoBucketIs DEF BucketIsOpen
    <2>5. ASSUME ~cameraStopped', NEW r \in outbox', IsRollup(r) PROVE Past(r.id)'
      <3>1. /\ r.id[2] \in Nat /\ r.id[3] \in Nat /\ r.id[4] \in Nat
            /\ r \in outbox \/ (node.bucket.frames # {} /\ r.id = BucketId(node))
        BY <2>2, <2>5, FiledIds
      <3>2. ~cameraStopped /\ c.scene # 0
        BY <1>1, <1>4, <1>7, <2>5
      <3>3. node.epoch \in Nat
        BY BucketOfNode
      <3>4. CASE r \in outbox
        <4>1. Past(r.id)
          BY <2>5, <3>2, <3>4 DEF EdgeInv, IdsArePast
        <4> QED
          BY <1>2, <1>5, <1>7, <3>1, <3>2, <3>3, <4>1 DEF Past
      <3>5. CASE node.bucket.frames # {} /\ r.id = BucketId(node)
        <4>1. r.id[3] = node.boot /\ r.id[4] = node.epoch /\ node.config.scene # 0
          BY <3>5, BucketOfNode
        <4> QED
          BY <1>2, <1>5, <1>7, <3>2, <3>3, <4>1 DEF Past
      <3> QED
        BY <3>1, <3>4, <3>5
    <2>6. IdsArePast'
      BY <1>4, <2>2, <2>5 DEF IdsArePast, IsRollup
    <2> QED
      BY <2>2, <2>3, <2>4, <2>6 DEF EdgeInv
  <1> QED
    BY <1>6, <1>7

LEMMA NodeStarts == ASSUME EdgeInv, NodeStart PROVE EdgeInv'
  <1>1. PICK c \in Loaded : Cache(c) /\ node' = [Down EXCEPT !.state = "up", !.boot = node.boot + 1, !.config = c]
    BY DEF NodeStart
  <1>2. /\ node.state = "down" /\ left.boots > 0 /\ left' = [left EXCEPT !.boots = @ - 1]
        /\ edgeClock' = edgeClock /\ coreConfig' = coreConfig /\ outbox' = outbox /\ post' = post
        /\ processed' = processed /\ lostFrames' = lostFrames /\ dropped' = dropped /\ cameraStopped' = cameraStopped
        /\ serving' = serving /\ broker' = broker /\ core' = core /\ promoted' = promoted /\ replayed' = replayed
    BY DEF NodeStart, coreVars
  <1>3. c \in Configs \cup {NoConfig} /\ cached' \in Configs \cup {NoConfig}
    BY <1>1 DEF Loaded, Cache, EdgeInv, EdgeTypes
  <1>4. left' \in Budgets /\ left'.transport = left.transport /\ left'.time = left.time
    BY <1>2 DEF EdgeInv, EdgeTypes, Budgets
  <1>5. node.bucket = NoBucket /\ node.boot \in Nat
    <2>1. node.bucket = NoBucket
      BY <1>2 DEF EdgeInv, BucketIsOpen
    <2> QED
      BY <2>1, BucketOfNode
  <1>6. /\ node' \in EdgeNodes /\ node'.bucket = NoBucket /\ node'.state = "up" /\ node'.boot = node.boot + 1
    <2>1. PICK n : n = [Down EXCEPT !.state = "up"]
      OBVIOUS
    <2>2. n = [state |-> "up", boot |-> 0, config |-> NoConfig, epoch |-> 0, bucket |-> NoBucket]
      BY <2>1 DEF Down
    <2>3. PICK m : m = [n EXCEPT !.boot = node.boot + 1]
      OBVIOUS
    <2>4. m = [state |-> "up", boot |-> node.boot + 1, config |-> NoConfig, epoch |-> 0, bucket |-> NoBucket]
      BY <2>2, <2>3
    <2>5. node' = [m EXCEPT !.config = c]
      BY <1>1, <2>1, <2>3
    <2>6. node' = [state |-> "up", boot |-> node.boot + 1, config |-> c, epoch |-> 0, bucket |-> NoBucket]
      BY <2>4, <2>5
    <2>7. node.boot + 1 \in Nat
      BY <1>5
    <2> QED
      BY <1>3, <2>6, <2>7, NoBucketIs DEF EdgeNodes
  <1>7. Files(outbox') /\ Counted' /\ PrunedIsOld' /\ OnItsWay' /\ SentIsTaken' /\ PromotedOnce'
    <2>1. node'.bucket.frames = node.bucket.frames \cup (processed' \ processed)
      BY <1>2, <1>5, <1>6, NoBucketIs
    <2>2. Notes(outbox')
      BY <1>2, NothingNoted
    <2> QED
      BY <1>2, <1>4, <2>1, <2>2, NotingKeeps
  <1>8. EdgeTypes'
    BY <1>2, <1>3, <1>4, <1>6, <1>7 DEF EdgeInv, EdgeTypes, Files
  <1>9. BucketIsOpen'
    BY <1>6, NoBucketIs DEF BucketIsOpen
  <1>10. ASSUME ~cameraStopped, NEW r \in outbox', IsRollup(r) PROVE Past(r.id)'
    <2>1. r.id[3] \in Nat /\ r \in outbox
      BY <1>2, <1>7, <1>10, FiledIds
    <2>2. Past(r.id)
      BY <1>10, <2>1 DEF EdgeInv, IdsArePast
    <2> QED
      BY <1>5, <1>6, <2>1, <2>2 DEF Past
  <1>11. IdsArePast'
    BY <1>2, <1>10 DEF EdgeInv, IdsArePast, IsRollup
  <1> QED
    BY <1>7, <1>8, <1>9, <1>11 DEF EdgeInv

LEMMA NodeDiesSafely == ASSUME EdgeInv, NodeDies PROVE EdgeInv'
  <1>1. /\ node' = [Down EXCEPT !.boot = node.boot] /\ lostFrames' = lostFrames \cup node.bucket.frames
        /\ post' = NoPost
        /\ edgeClock' = edgeClock /\ cached' = cached /\ coreConfig' = coreConfig /\ left' = left /\ outbox' = outbox
        /\ processed' = processed /\ dropped' = dropped /\ cameraStopped' = cameraStopped
        /\ serving' = serving /\ broker' = broker /\ core' = core /\ promoted' = promoted /\ replayed' = replayed
    BY DEF NodeDies, coreVars
  <1>2. node.boot \in Nat
    BY BucketOfNode
  <1>3. node' = [state |-> "down", boot |-> node.boot, config |-> NoConfig, epoch |-> 0, bucket |-> NoBucket]
    BY <1>1 DEF Down
  <1>4. node' \in EdgeNodes /\ node'.state = "down" /\ node'.boot = node.boot /\ node'.bucket = NoBucket
    BY <1>2, <1>3, NoBucketIs DEF EdgeNodes
  <1>5. Reported' = Reported
    BY <1>1 DEF Reported
  <1>6. EdgeTypes'
    BY <1>1, <1>4 DEF EdgeInv, EdgeTypes, NoPost
  <1>7. BucketIsOpen'
    BY <1>4, NoBucketIs DEF BucketIsOpen
  <1>8. Counted'
    BY <1>1, <1>4, <1>5, NoBucketIs DEF EdgeInv, Counted
  <1>9. PrunedIsOld'
    BY <1>1, <1>5 DEF EdgeInv, PrunedIsOld, IsRollup
  <1>10. \A id : Past(id) => Past(id)'
    BY <1>4 DEF Past
  <1>11. IdsArePast'
    BY <1>1, <1>10 DEF EdgeInv, IdsArePast, IsRollup
  <1>12. OnItsWay'
    BY <1>1, <1>5 DEF EdgeInv, OnItsWay, IsRollup, Pair, NoPost, Ok, Waiting
  <1>13. SentIsTaken' /\ PromotedOnce'
    BY <1>1 DEF EdgeInv, SentIsTaken, PromotedOnce, Refused
  <1> QED
    BY <1>6, <1>7, <1>8, <1>9, <1>11, <1>12, <1>13 DEF EdgeInv

\* A step that leaves the node and what is reported alone keeps the counting.
LEMMA NodeKept ==
  ASSUME EdgeInv, Reported' = Reported, edgeClock' = edgeClock, node' = node, processed' = processed,
         lostFrames' = lostFrames, dropped' = dropped, cameraStopped' = cameraStopped,
         \A q \in outbox' : \E r \in outbox : q.id = r.id /\ q.frames = r.frames /\ q.at = r.at,
         \A r \in outbox : IsRollup(r) /\ r.id \notin OutboxIds(outbox') => r.id[2] + SentKept < edgeClock
  PROVE  BucketIsOpen' /\ Counted' /\ PrunedIsOld' /\ IdsArePast'
  <1>1. BucketIsOpen'
    BY DEF EdgeInv, BucketIsOpen, BucketStart
  <1>2. Counted'
    BY DEF EdgeInv, Counted
  <1>3. \A r \in outbox' : IsRollup(r) => r.id[2] <= r.at
    BY DEF EdgeInv, PrunedIsOld, IsRollup
  <1>4. ASSUME NEW x \in Reported, x[1] \notin OutboxIds(outbox') PROVE x[1][2] + SentKept < edgeClock
    <2>1. CASE x[1] \notin OutboxIds(outbox)
      BY <2>1 DEF EdgeInv, PrunedIsOld
    <2>2. CASE x[1] \in OutboxIds(outbox)
      <3>1. PICK r \in outbox : r.id = x[1]
        BY <2>2 DEF OutboxIds
      <3>2. x[1][1] = "rollup"
        BY ReportedIs DEF IsRollup, Pair
      <3> QED
        BY <1>4, <3>1, <3>2 DEF IsRollup
    <2> QED
      BY <2>1, <2>2
  <1>5. PrunedIsOld'
    BY <1>3, <1>4 DEF PrunedIsOld, IsRollup
  <1>6. \A id : Past(id) => Past(id)'
    BY DEF Past
  <1>7. IdsArePast'
    BY <1>6 DEF EdgeInv, IdsArePast, IsRollup
  <1> QED
    BY <1>1, <1>2, <1>5, <1>7

\* Marks and copies of rows report nothing new.
LEMMA MarkingReports ==
  ASSUME EdgeInv, core' = core, broker \subseteq broker', \A b \in broker' : b \in broker \/ b \in outbox,
         \A q \in outbox' : \E r \in outbox : q.id = r.id /\ q.frames = r.frames,
         \A r \in outbox : \E q \in outbox' : q.id = r.id /\ q.frames = r.frames
  PROVE  Reported' = Reported /\ OutboxIds(outbox') = OutboxIds(outbox)
  <1>1. \A x : x \in Reported' <=>
           \/ \E r \in outbox' \cup broker' : IsRollup(r) /\ x = Pair(r)
           \/ \E id \in DOMAIN core : id[1] = "rollup" /\ x = <<id, core[id]>>
    BY DEF Reported, IsRollup, Pair
  <1>2. \A r \in outbox : \E q \in outbox' : Pair(q) = Pair(r) /\ (IsRollup(r) => IsRollup(q))
    BY DEF Pair, IsRollup
  <1>3. \A q \in outbox' : \E r \in outbox : Pair(q) = Pair(r) /\ (IsRollup(q) => IsRollup(r))
    BY DEF Pair, IsRollup
  <1>4. Reported' = Reported
    BY <1>1, <1>2, <1>3, ReportedIs
  <1> QED
    BY <1>4 DEF OutboxIds

LEMMA DrainsOverHttp == ASSUME EdgeInv, DrainHttp PROVE EdgeInv'
  <1>1. PICK b : b = Batch(outbox)
    OBVIOUS
  <1>2. PICK q : q = [batch |-> b, fresh |-> {}, read |-> FALSE]
    OBVIOUS
  <1>3. /\ post' = [batch |-> b, answer |-> Waiting] /\ serving' = serving \cup {q}
        /\ edgeClock' = edgeClock /\ cached' = cached /\ coreConfig' = coreConfig /\ left' = left /\ outbox' = outbox
        /\ node' = node /\ processed' = processed /\ lostFrames' = lostFrames /\ dropped' = dropped
        /\ cameraStopped' = cameraStopped
        /\ broker' = broker /\ core' = core /\ promoted' = promoted /\ replayed' = replayed
    BY <1>1, <1>2 DEF DrainHttp
  <1>4. b \subseteq outbox /\ b \subseteq EdgeRows
    BY <1>1 DEF Batch, Oldest, EdgeInv, EdgeTypes, OutboxRows
  <1>5. q \in CoreRequests /\ q.batch = b /\ q.fresh = {} /\ q.read = FALSE
    BY <1>2, <1>4 DEF CoreRequests
  <1>6. Reported' = Reported
    BY <1>3 DEF Reported
  <1>7. EdgeTypes'
    BY <1>3, <1>5 DEF EdgeInv, EdgeTypes
  <1>8. BucketIsOpen' /\ Counted' /\ PrunedIsOld' /\ IdsArePast'
    <2>1. \A r \in outbox : r.id \in OutboxIds(outbox')
      BY <1>3 DEF OutboxIds
    <2> QED
      BY <1>3, <1>6, <2>1, NodeKept
  <1>9. \A r \in b : IsRollup(r) => Pair(r) \in Reported
    BY <1>4, ReportedIs
  <1>10. OnItsWay'
    <2>1. \A s \in serving' : s \in serving \/ (s.batch = b /\ s.fresh = {} /\ s.read = FALSE)
      BY <1>3, <1>5
    <2>2. post'.answer # Ok
      BY <1>3 DEF Ok, Waiting
    <2>3. \A s \in serving' : \A r \in s.batch : IsRollup(r) => Pair(r) \in Reported
      BY <1>9, <2>1 DEF EdgeInv, OnItsWay
    <2>4. \A s \in serving' : s.fresh \subseteq s.batch
      BY <2>1 DEF EdgeInv, OnItsWay
    <2>5. \A s \in serving' : s.read => \A r \in s.batch : r.id \in DOMAIN core \/ r \in s.fresh
      BY <2>1 DEF EdgeInv, OnItsWay
    <2> QED
      BY <1>3, <1>6, <2>2, <2>3, <2>4, <2>5 DEF OnItsWay, IsRollup, Pair
  <1>11. SentIsTaken' /\ PromotedOnce'
    BY <1>3 DEF EdgeInv, SentIsTaken, PromotedOnce, Refused
  <1> QED
    BY <1>7, <1>8, <1>10, <1>11 DEF EdgeInv

\* The oldest of a finite set, as many as there are, are all of it.
LEMMA AllAreOldest ==
  ASSUME NEW rows, OutboxRows(rows), NEW b \in SUBSET rows PROVE Oldest(b, Cardinality(b)) = b
  <1>1. IsFiniteSet(b)
    BY FS_Subset DEF OutboxRows
  <1>2. ASSUME NEW r \in b PROVE Cardinality({q \in b : q.no < r.no}) < Cardinality(b)
    <2> DEFINE low == {q \in b : q.no < r.no}
    <2>1. r.no \in Nat
      BY DEF OutboxRows, EdgeRows
    <2>2. low \subseteq b /\ r \notin low
      BY <2>1
    <2>3. low # b
      BY <2>2
    <2> HIDE DEF low
    <2>4. IsFiniteSet(low) /\ Cardinality(low) <= Cardinality(b) /\ (Cardinality(low) = Cardinality(b) => low = b)
      BY <1>1, <2>2, FS_Subset
    <2>5. Cardinality(low) \in Nat /\ Cardinality(b) \in Nat
      BY <1>1, <2>4, FS_CardinalityType
    <2>6. Cardinality(low) < Cardinality(b)
      BY <2>3, <2>4, <2>5
    <2> QED
      BY <2>6 DEF low
  <1> QED
    BY <1>2 DEF Oldest

LEMMA DrainsOverMqtt == ASSUME EdgeInv, DrainMqtt PROVE EdgeInv'
  <1>1. PICK b : b = Batch(outbox)
    OBVIOUS
  <1>2. PICK n \in 0..Cardinality(b) :
          /\ broker' = broker \cup Oldest(b, n)
          /\ outbox' = IF n = Cardinality(b) THEN Mark(outbox, OutboxIds(b), "sent") ELSE outbox
    BY <1>1 DEF DrainMqtt
  <1>3. /\ left.transport = "mqtt" /\ post' = post /\ serving' = serving
        /\ edgeClock' = edgeClock /\ cached' = cached /\ coreConfig' = coreConfig /\ left' = left
        /\ node' = node /\ processed' = processed /\ lostFrames' = lostFrames /\ dropped' = dropped
        /\ cameraStopped' = cameraStopped /\ core' = core /\ promoted' = promoted /\ replayed' = replayed
    BY DEF DrainMqtt
  <1>4. OutboxRows(outbox) /\ b \subseteq outbox /\ Oldest(b, n) \subseteq b /\ broker \subseteq EdgeRows
    BY <1>1 DEF Batch, Oldest, EdgeInv, EdgeTypes
  <1>5. /\ OutboxRows(outbox')
        /\ \A r \in outbox : \E q \in outbox' : q.id = r.id /\ q.frames = r.frames
        /\ \A q \in outbox' : \E r \in outbox :
             /\ q.id = r.id /\ q.frames = r.frames /\ q.at = r.at
             /\ \/ q.state = r.state
                \/ q.state = "sent" /\ n = Cardinality(b) /\ r.id \in OutboxIds(b)
    <2>1. CASE n = Cardinality(b)
      <3>1. outbox' = Mark(outbox, OutboxIds(b), "sent")
        BY <1>2, <2>1
      <3> QED
        BY <1>4, <2>1, <3>1, MarkedRows
    <2>2. CASE n # Cardinality(b)
      BY <1>2, <1>4, <2>2
    <2> QED
      BY <2>1, <2>2
  <1>6. broker \subseteq broker' /\ \A x \in broker' : x \in broker \/ x \in outbox
    BY <1>2, <1>4
  <1>7. Reported' = Reported /\ OutboxIds(outbox') = OutboxIds(outbox)
    BY <1>3, <1>5, <1>6, MarkingReports
  <1>8. EdgeTypes'
    <2>1. broker' \subseteq EdgeRows
      BY <1>4, <1>6 DEF OutboxRows
    <2> QED
      BY <1>3, <1>5, <2>1 DEF EdgeInv, EdgeTypes
  <1>9. BucketIsOpen' /\ Counted' /\ PrunedIsOld' /\ IdsArePast'
    <2>1. \A r \in outbox : r.id \in OutboxIds(outbox')
      BY <1>7 DEF OutboxIds
    <2> QED
      BY <1>3, <1>5, <1>7, <2>1, NodeKept
  <1>10. OnItsWay'
    BY <1>3, <1>7 DEF EdgeInv, OnItsWay, IsRollup, Pair
  <1>11. PromotedOnce'
    BY <1>3 DEF EdgeInv, PromotedOnce
  <1>12. ASSUME NEW q \in outbox', q.state = "sent"
         PROVE  q.id \in DOMAIN core \/ q.id \in {x.id : x \in broker'} \/ Refused(q)
    <2>1. PICK r \in outbox : /\ q.id = r.id
                              /\ \/ q.state = r.state
                                 \/ n = Cardinality(b) /\ r.id \in OutboxIds(b)
      BY <1>5
    <2>2. CASE q.state = r.state
      BY <1>6, <1>12, <2>1, <2>2 DEF EdgeInv, SentIsTaken, Refused
    <2>3. CASE n = Cardinality(b) /\ r.id \in OutboxIds(b)
      <3>1. Oldest(b, n) = b
        BY <1>4, <2>3, AllAreOldest
      <3> QED
        BY <1>2, <2>1, <2>3, <3>1 DEF OutboxIds
    <2> QED
      BY <2>1, <2>2, <2>3
  <1>13. SentIsTaken'
    BY <1>3, <1>12 DEF SentIsTaken, Refused
  <1> QED
    BY <1>8, <1>9, <1>10, <1>11, <1>13 DEF EdgeInv

\* The node takes an answer, or none: a row is marked sent only for what the core stored.
LEMMA AnswerTaken ==
  ASSUME EdgeInv, NEW answer, answer = post.answer \/ answer = TransientError,
         outbox' = AfterAnswer(answer, post.batch), post' = NoPost,
         edgeClock' = edgeClock, node' = node, cached' = cached, coreConfig' = coreConfig, left' = left,
         processed' = processed, lostFrames' = lostFrames, dropped' = dropped, cameraStopped' = cameraStopped,
         serving' = serving, broker' = broker, core' = core, promoted' = promoted, replayed' = replayed
  PROVE  EdgeInv'
  <1>1. OutboxRows(outbox)
    BY DEF EdgeInv, EdgeTypes
  <1>2. /\ OutboxRows(outbox')
        /\ \A r \in outbox : \E q \in outbox' : q.id = r.id /\ q.frames = r.frames
        /\ \A q \in outbox' : \E r \in outbox :
             /\ q.id = r.id /\ q.frames = r.frames /\ q.at = r.at
             /\ q.state = r.state \/ q.state = "dead" \/ (answer = Ok /\ r.id \in OutboxIds(post.batch))
    <2>1. CASE answer = Ok
      <3>1. outbox' = Mark(outbox, OutboxIds(post.batch), "sent")
        BY <2>1 DEF AfterAnswer, Ok, TransientError
      <3> QED
        BY <1>1, <2>1, <3>1, MarkedRows
    <2>2. CASE answer = TransientError
      <3>1. outbox' = outbox
        BY <2>2 DEF AfterAnswer, Ok, TransientError
      <3> QED
        BY <1>1, <3>1
    <2>3. CASE answer # Ok /\ answer # TransientError
      <3>1. PICK ids : ids = {answer.id}
        OBVIOUS
      <3>2. outbox' = Mark(outbox, ids, "dead")
        BY <2>3, <3>1 DEF AfterAnswer
      <3>3. /\ OutboxRows(Mark(outbox, ids, "dead"))
            /\ \A r \in outbox : \E q \in Mark(outbox, ids, "dead") : q.id = r.id /\ q.frames = r.frames
            /\ \A q \in Mark(outbox, ids, "dead") :
                 \E r \in outbox : /\ q.id = r.id /\ q.frames = r.frames /\ q.at = r.at
                                  /\ q.state = (IF r.id \in ids THEN "dead" ELSE r.state)
        BY <1>1, MarkedRows
      <3> QED
        BY <3>2, <3>3
    <2> QED
      BY <2>1, <2>2, <2>3
  <1>3. Reported' = Reported /\ OutboxIds(outbox') = OutboxIds(outbox)
    BY <1>2, MarkingReports
  <1>4. EdgeTypes'
    BY <1>2 DEF EdgeInv, EdgeTypes, NoPost
  <1>5. BucketIsOpen' /\ Counted' /\ PrunedIsOld' /\ IdsArePast'
    <2>1. \A r \in outbox : r.id \in OutboxIds(outbox')
      BY <1>3 DEF OutboxIds
    <2> QED
      BY <1>2, <1>3, <2>1, NodeKept
  <1>6. OnItsWay'
    BY <1>3 DEF EdgeInv, OnItsWay, IsRollup, Pair, NoPost, Ok, Waiting
  <1>7. PromotedOnce'
    BY DEF EdgeInv, PromotedOnce
  <1>8. answer = Ok => \A r \in post.batch : r.id \in DOMAIN core
    BY DEF EdgeInv, OnItsWay, Ok, TransientError
  <1>9. SentIsTaken'
    <2>1. ASSUME NEW q \in outbox', q.state = "sent"
          PROVE  q.id \in DOMAIN core
                 \/ (left.transport = "mqtt" /\ (q.id \in {x.id : x \in broker} \/ Refused(q)))
      <3>1. PICK r \in outbox : q.id = r.id /\ (q.state = r.state \/ (answer = Ok /\ r.id \in OutboxIds(post.batch)))
        BY <1>2, <2>1
      <3>2. CASE q.state = r.state
        BY <2>1, <3>1, <3>2 DEF EdgeInv, SentIsTaken, Refused
      <3>3. CASE answer = Ok /\ r.id \in OutboxIds(post.batch)
        BY <1>8, <3>1, <3>3 DEF OutboxIds
      <3> QED
        BY <3>1, <3>2, <3>3
    <2> QED
      BY <2>1 DEF SentIsTaken, Refused
  <1> QED
    BY <1>4, <1>5, <1>6, <1>7, <1>9 DEF EdgeInv

\* What is pruned was sent, so it is with the core or the broker.
LEMMA SentPruned == ASSUME EdgeInv, PruneSent PROVE EdgeInv'
  <1>1. /\ outbox' = {r \in outbox : r.state # "sent" \/ r.at + SentKept >= edgeClock} /\ post' = post
        /\ edgeClock' = edgeClock /\ cached' = cached /\ coreConfig' = coreConfig /\ left' = left
        /\ node' = node /\ processed' = processed /\ lostFrames' = lostFrames /\ dropped' = dropped
        /\ cameraStopped' = cameraStopped
        /\ serving' = serving /\ broker' = broker /\ core' = core /\ promoted' = promoted /\ replayed' = replayed
    BY DEF PruneSent, coreVars
  <1>2. outbox' \subseteq outbox /\ OutboxRows(outbox')
    <2>1. outbox' \subseteq outbox
      BY <1>1
    <2>2. OutboxRows(outbox)
      BY DEF EdgeInv, EdgeTypes
    <2>3. IsFiniteSet(outbox')
      BY <2>1, <2>2, FS_Subset DEF OutboxRows
    <2> QED
      BY <2>1, <2>2, <2>3 DEF OutboxRows
  <1>3. ASSUME NEW r \in outbox, IsRollup(r), r \notin outbox'
        PROVE  Pair(r) \in Reported' /\ r.id[2] + SentKept < edgeClock
    <2>1. r.state = "sent" /\ ~ (r.at + SentKept >= edgeClock)
      BY <1>1, <1>3
    <2>2. r.at \in Nat /\ r.id \in EdgeIds
      BY DEF EdgeInv, EdgeTypes, OutboxRows, EdgeRows
    <2>3. r.id[2] \in Nat /\ r.id[2] <= r.at
      BY <1>3, <2>2, IdShapes DEF EdgeInv, PrunedIsOld, IsRollup
    <2>4. r.id[2] + SentKept < edgeClock
      BY <2>1, <2>2, <2>3, EdgeLimits DEF EdgeInv, EdgeTypes
    <2>5. ~Refused(r)
      BY <1>3 DEF Refused, IsRollup
    <2>6. Pair(r) \in Reported /\ Pair(r)[1] = r.id
      BY <1>3, ReportedIs DEF Pair
    <2>7. CASE r.id \in DOMAIN core
      <3>1. <<r.id, core[r.id]>> \in Reported /\ <<r.id, core[r.id]>> \in Reported'
        BY <1>1, <1>3, <2>7 DEF Reported, IsRollup
      <3>2. <<r.id, core[r.id]>>[1] = r.id
        OBVIOUS
      <3>3. Pair(r) = <<r.id, core[r.id]>>
        BY <2>6, <3>1, <3>2 DEF EdgeInv, Counted
      <3> QED
        BY <2>4, <3>1, <3>3
    <2>8. CASE r.id \in {x.id : x \in broker}
      <3>1. PICK x \in broker : x.id = r.id
        BY <2>8
      <3>2. Pair(x) \in Reported /\ Pair(x) \in Reported' /\ Pair(x)[1] = r.id
        BY <1>1, <1>3, <3>1 DEF Reported, IsRollup, Pair
      <3>3. Pair(r) = Pair(x)
        BY <2>6, <3>2 DEF EdgeInv, Counted
      <3> QED
        BY <2>4, <3>2, <3>3
    <2> QED
      BY <2>1, <2>5, <2>7, <2>8 DEF EdgeInv, SentIsTaken
  <1>4. Reported' = Reported
    <2>1. \A x : x \in Reported' <=>
             \/ \E r \in outbox' \cup broker : IsRollup(r) /\ x = Pair(r)
             \/ \E id \in DOMAIN core : id[1] = "rollup" /\ x = <<id, core[id]>>
      BY <1>1 DEF Reported, IsRollup, Pair
    <2>2. Reported' \subseteq Reported
      BY <1>2, <2>1, ReportedIs
    <2>3. ASSUME NEW x \in Reported PROVE x \in Reported'
      <3>1. CASE \E r \in outbox : IsRollup(r) /\ x = Pair(r)
        BY <1>3, <2>1, <3>1
      <3>2. CASE ~ \E r \in outbox : IsRollup(r) /\ x = Pair(r)
        BY <2>1, <3>2, ReportedIs
      <3> QED
        BY <3>1, <3>2
    <2> QED
      BY <2>2, <2>3
  <1>5. EdgeTypes'
    BY <1>1, <1>2 DEF EdgeInv, EdgeTypes
  <1>6. BucketIsOpen' /\ Counted' /\ PrunedIsOld' /\ IdsArePast'
    <2>1. \A r \in outbox : IsRollup(r) /\ r.id \notin OutboxIds(outbox') => r.id[2] + SentKept < edgeClock
      BY <1>3 DEF OutboxIds
    <2>2. \A q \in outbox' : \E r \in outbox : q.id = r.id /\ q.frames = r.frames /\ q.at = r.at
      BY <1>2
    <2> QED
      BY <1>1, <1>4, <2>1, <2>2, NodeKept
  <1>7. OnItsWay'
    BY <1>1, <1>4 DEF EdgeInv, OnItsWay, IsRollup, Pair
  <1>8. SentIsTaken' /\ PromotedOnce'
    BY <1>1, <1>2 DEF EdgeInv, SentIsTaken, PromotedOnce, Refused
  <1> QED
    BY <1>5, <1>6, <1>7, <1>8 DEF EdgeInv

\* c is what the core holds once it has stored the rows.
HoldsRows(c, rows) ==
  /\ DOMAIN c = DOMAIN core \cup {r.id : r \in rows}
  /\ \A id \in DOMAIN core : c[id] = core[id]
  /\ \A id \in DOMAIN c : id \notin DOMAIN core => \E r \in rows : r.id = id /\ c[id] = r.frames

LEMMA StoredRows == ASSUME NEW rows PROVE HoldsRows(Stored(rows), rows)
  <1>1. PICK c : c = Stored(rows)
    OBVIOUS
  <1>2. DOMAIN c = DOMAIN core \cup {r.id : r \in rows}
    BY <1>1 DEF Stored
  <1>3. \A id \in DOMAIN core : c[id] = core[id]
    BY <1>1 DEF Stored
  <1>4. ASSUME NEW id \in DOMAIN c, id \notin DOMAIN core
        PROVE  \E r \in rows : r.id = id /\ c[id] = r.frames
    <2>1. c[id] = (CHOOSE r \in rows : r.id = id).frames
      BY <1>1, <1>2, <1>4 DEF Stored
    <2>2. \E r \in rows : r.id = id
      BY <1>2, <1>4
    <2> QED
      BY <2>1, <2>2
  <1>5. HoldsRows(c, rows)
    BY <1>2, <1>3, <1>4 DEF HoldsRows
  <1> QED
    BY <1>1, <1>5

\* The core stores rows of what is reported already: nothing is reported twice, nothing is lost.
LEMMA CoreGrows ==
  ASSUME EdgeInv, NEW rows, core' = Stored(rows), outbox' = outbox, broker' \subseteq broker,
         \A r \in rows : r.id \in EdgeIds /\ (IsRollup(r) => Pair(r) \in Reported),
         \A b \in broker : b \in broker' \/ b.id \in DOMAIN core' \/ ~IsRollup(b)
  PROVE  /\ Reported' = Reported /\ DOMAIN core' \subseteq EdgeIds
         /\ DOMAIN core' = DOMAIN core \cup {r.id : r \in rows}
  <1>1. /\ DOMAIN core' = DOMAIN core \cup {r.id : r \in rows}
        /\ \A id \in DOMAIN core : core'[id] = core[id]
        /\ \A id \in DOMAIN core' :
             id \notin DOMAIN core => \E r \in rows : r.id = id /\ core'[id] = r.frames
    <2>1. HoldsRows(core', rows)
      BY StoredRows
    <2> QED
      BY <2>1 DEF HoldsRows
  <1>2. \A x : x \in Reported' <=>
           \/ \E r \in outbox \cup broker' : IsRollup(r) /\ x = Pair(r)
           \/ \E id \in DOMAIN core' : id[1] = "rollup" /\ x = <<id, core'[id]>>
    BY DEF Reported, IsRollup, Pair
  <1>3. ASSUME NEW x \in Reported' PROVE x \in Reported
    <2>1. CASE \E r \in outbox \cup broker' : IsRollup(r) /\ x = Pair(r)
      BY <2>1, ReportedIs
    <2>2. ASSUME NEW id \in DOMAIN core', id[1] = "rollup", x = <<id, core'[id]>> PROVE x \in Reported
      <3>1. CASE id \in DOMAIN core
        BY <1>1, <2>2, <3>1, ReportedIs
      <3>2. CASE id \notin DOMAIN core
        <4>1. PICK r \in rows : r.id = id /\ core'[id] = r.frames
          BY <1>1, <3>2
        <4>2. IsRollup(r) /\ x = Pair(r)
          BY <2>2, <4>1 DEF IsRollup, Pair
        <4> QED
          BY <4>2
      <3> QED
        BY <3>1, <3>2
    <2> QED
      BY <1>2, <2>1, <2>2
  <1>4. ASSUME NEW x \in Reported PROVE x \in Reported'
    <2>1. ASSUME NEW b \in broker, IsRollup(b), x = Pair(b), b \notin broker' PROVE x \in Reported'
      <3>1. b.id \in DOMAIN core' /\ b.id[1] = "rollup"
        BY <2>1 DEF IsRollup
      <3>2. PICK y : y = <<b.id, core'[b.id]>>
        OBVIOUS
      <3>3. y \in Reported' /\ y[1] = x[1]
        BY <1>2, <2>1, <3>1, <3>2 DEF Pair
      <3>4. y = x
        BY <1>3, <3>3 DEF EdgeInv, Counted
      <3> QED
        BY <3>3, <3>4
    <2>2. CASE \E r \in outbox \cup broker' : IsRollup(r) /\ x = Pair(r)
      BY <1>2, <2>2
    <2>3. CASE \E id \in DOMAIN core : id[1] = "rollup" /\ x = <<id, core[id]>>
      BY <1>1, <1>2, <2>3
    <2> QED
      BY <2>1, <2>2, <2>3, ReportedIs
  <1>5. DOMAIN core' \subseteq EdgeIds
    BY <1>1 DEF EdgeInv, EdgeTypes
  <1> QED
    BY <1>1, <1>3, <1>4, <1>5

\* Events stored for the first time are promoted for the first time.
LEMMA PromotedGrows ==
  ASSUME EdgeInv, NEW rows, NEW evs, DOMAIN core' = DOMAIN core \cup {r.id : r \in rows},
         promoted' = Promote(evs), replayed' = replayed,
         \A f \in Frames : (\E r \in evs : r.id = EventId(f)) <=> (\E r \in rows : r.id = EventId(f)),
         \A r \in rows : r.id \notin DOMAIN core
  PROVE  PromotedOnce' /\ promoted' \in [Frames -> {0, 1}]
  <1>1. \A f \in Frames : promoted'[f] = IF \E r \in evs : r.id = EventId(f) THEN promoted[f] + 1 ELSE promoted[f]
    BY DEF Promote
  <1>2. ASSUME NEW f \in Frames
        PROVE  /\ promoted'[f] \in {0, 1}
               /\ promoted'[f] = 1 <=> EventId(f) \in DOMAIN core' /\ f \notin replayed
               /\ f \in replayed => EventId(f) \in DOMAIN core'
    <2>1. /\ promoted[f] \in {0, 1} /\ (promoted[f] = 1 <=> EventId(f) \in DOMAIN core /\ f \notin replayed)
          /\ f \in replayed => EventId(f) \in DOMAIN core
      BY DEF EdgeInv, EdgeTypes, PromotedOnce
    <2>2. CASE \E r \in evs : r.id = EventId(f)
      <3>1. EventId(f) \in DOMAIN core' /\ EventId(f) \notin DOMAIN core
        BY <2>2
      <3>2. promoted'[f] = promoted[f] + 1
        BY <1>1, <2>2
      <3> QED
        BY <2>1, <3>1, <3>2
    <2>3. CASE ~ \E r \in evs : r.id = EventId(f)
      <3>1. EventId(f) \in DOMAIN core' <=> EventId(f) \in DOMAIN core
        BY <2>3
      <3>2. promoted'[f] = promoted[f]
        BY <1>1, <2>3
      <3> QED
        BY <2>1, <3>1, <3>2
    <2> QED
      BY <2>2, <2>3
  <1>3. promoted' \in [Frames -> {0, 1}]
    <2>1. promoted' = [f \in Frames |-> promoted'[f]]
      BY DEF Promote
    <2> QED
      BY <1>2, <2>1
  <1> QED
    BY <1>2, <1>3 DEF PromotedOnce

LEMMA CoreReadsBatch == ASSUME EdgeInv, NEW s \in serving, CoreReads(s) PROVE EdgeInv'
  <1>1. PICK t : t = [s EXCEPT !.fresh = Fresh(s.batch), !.read = TRUE]
    OBVIOUS
  <1>2. /\ serving' = (serving \ {s}) \cup {t}
        /\ outbox' = outbox /\ post' = post
        /\ edgeClock' = edgeClock /\ cached' = cached /\ coreConfig' = coreConfig /\ left' = left
        /\ node' = node /\ processed' = processed /\ lostFrames' = lostFrames /\ dropped' = dropped
        /\ cameraStopped' = cameraStopped
        /\ broker' = broker /\ core' = core /\ promoted' = promoted /\ replayed' = replayed
    BY <1>1 DEF CoreReads, nodeVars
  <1>3. t \in CoreRequests /\ t.batch = s.batch /\ t.fresh = Fresh(s.batch)
    <2>1. s \in CoreRequests
      BY DEF EdgeInv, EdgeTypes
    <2>2. PICK u : u = [s EXCEPT !.fresh = Fresh(s.batch)]
      OBVIOUS
    <2>3. u = [batch |-> s.batch, fresh |-> Fresh(s.batch), read |-> s.read]
      BY <2>1, <2>2 DEF CoreRequests
    <2>4. t = [u EXCEPT !.read = TRUE]
      BY <1>1, <2>2
    <2>5. t = [batch |-> s.batch, fresh |-> Fresh(s.batch), read |-> TRUE]
      BY <2>3, <2>4
    <2>6. s.batch \subseteq EdgeRows
      BY <2>1 DEF CoreRequests
    <2>7. Fresh(s.batch) \subseteq EdgeRows
      BY <2>6 DEF Fresh
    <2> QED
      BY <2>5, <2>6, <2>7 DEF CoreRequests
  <1>4. Reported' = Reported
    BY <1>2 DEF Reported
  <1>5. EdgeTypes'
    BY <1>2, <1>3 DEF EdgeInv, EdgeTypes
  <1>6. BucketIsOpen' /\ Counted' /\ PrunedIsOld' /\ IdsArePast'
    <2>1. \A r \in outbox : r.id \in OutboxIds(outbox')
      BY <1>2 DEF OutboxIds
    <2> QED
      BY <1>2, <1>4, <2>1, NodeKept
  <1>7. OnItsWay'
    <2>1. \A r \in s.batch : r.id \in DOMAIN core \/ r \in Fresh(s.batch)
      BY DEF Fresh
    <2>2. Fresh(s.batch) \subseteq s.batch
      BY DEF Fresh
    <2>3. \A q \in serving' : q \in serving \/ (q.batch = s.batch /\ q.fresh = Fresh(s.batch))
      BY <1>2, <1>3
    <2>4. \A q \in serving' : \A r \in q.batch : IsRollup(r) => Pair(r) \in Reported
      BY <2>3 DEF EdgeInv, OnItsWay
    <2>5. \A q \in serving' : q.fresh \subseteq q.batch
      BY <2>2, <2>3 DEF EdgeInv, OnItsWay
    <2>6. \A q \in serving' : q.read => \A r \in q.batch : r.id \in DOMAIN core \/ r \in q.fresh
      BY <2>1, <2>3 DEF EdgeInv, OnItsWay
    <2> QED
      BY <1>2, <1>4, <2>4, <2>5, <2>6 DEF EdgeInv, OnItsWay, IsRollup, Pair
  <1>8. SentIsTaken' /\ PromotedOnce'
    BY <1>2 DEF EdgeInv, SentIsTaken, PromotedOnce, Refused
  <1> QED
    BY <1>5, <1>6, <1>7, <1>8 DEF EdgeInv

LEMMA CoreEndsRequest ==
  ASSUME EdgeInv, NEW s \in serving, CoreFails(s) \/ (CoreCommits(s) /\ Answer(s) # Ok) PROVE EdgeInv'
  <1>1. /\ serving' = serving \ {s} /\ outbox' = outbox
        /\ edgeClock' = edgeClock /\ cached' = cached /\ coreConfig' = coreConfig /\ left' = left
        /\ node' = node /\ processed' = processed /\ lostFrames' = lostFrames /\ dropped' = dropped
        /\ cameraStopped' = cameraStopped
        /\ broker' = broker /\ core' = core /\ promoted' = promoted /\ replayed' = replayed
    BY DEF CoreFails, CoreCommits, nodeVars
  <1>2. post' = [batch |-> post'.batch, answer |-> post'.answer] /\ (post'.answer = Ok => post' = post)
    <2>1. post = [batch |-> post.batch, answer |-> post.answer]
      BY DEF EdgeInv, EdgeTypes
    <2>2. post' = post \/ (Answer(s) # Ok /\ post' = [post EXCEPT !.answer = Answer(s)])
      BY DEF CoreFails, CoreCommits, nodeVars
    <2> QED
      BY <2>1, <2>2
  <1>3. Reported' = Reported
    BY <1>1 DEF Reported
  <1>4. EdgeTypes'
    BY <1>1, <1>2 DEF EdgeInv, EdgeTypes
  <1>5. BucketIsOpen' /\ Counted' /\ PrunedIsOld' /\ IdsArePast'
    <2>1. \A r \in outbox : r.id \in OutboxIds(outbox')
      BY <1>1 DEF OutboxIds
    <2> QED
      BY <1>1, <1>3, <2>1, NodeKept
  <1>6. OnItsWay'
    BY <1>1, <1>2, <1>3 DEF EdgeInv, OnItsWay, IsRollup, Pair
  <1>7. SentIsTaken' /\ PromotedOnce'
    BY <1>1 DEF EdgeInv, SentIsTaken, PromotedOnce, Refused
  <1> QED
    BY <1>4, <1>5, <1>6, <1>7 DEF EdgeInv

\* A batch that is stored: the rows the core did not have, and an alarm for each event among them.
LEMMA CoreStoresBatch == ASSUME EdgeInv, NEW s \in serving, CoreCommits(s), Answer(s) = Ok PROVE EdgeInv'
  <1> DEFINE rows == {r \in s.fresh : r.id \notin DOMAIN core}
             evs == {r \in s.fresh : IsEvent(r)}
  <1>1. /\ serving' = serving \ {s} /\ outbox' = outbox /\ core' = Stored(rows) /\ promoted' = Promote(evs)
        /\ edgeClock' = edgeClock /\ cached' = cached /\ coreConfig' = coreConfig /\ left' = left
        /\ node' = node /\ processed' = processed /\ lostFrames' = lostFrames /\ dropped' = dropped
        /\ cameraStopped' = cameraStopped /\ broker' = broker /\ replayed' = replayed
        /\ s.read
    BY DEF CoreCommits
  <1>2. ~Collides(s)
    BY DEF Answer, Ok, TransientError
  <1>3. s \in CoreRequests /\ s.fresh \subseteq s.batch
    BY DEF EdgeInv, EdgeTypes, OnItsWay
  <1>4. \A r \in rows : r.id \in EdgeIds /\ (IsRollup(r) => Pair(r) \in Reported)
    BY <1>3 DEF EdgeInv, OnItsWay, CoreRequests, EdgeRows
  <1>5. \A r \in s.batch : r.id \in DOMAIN core \/ r \in rows
    BY <1>1 DEF EdgeInv, OnItsWay
  <1>6. \A f \in Frames : (\E r \in evs : r.id = EventId(f)) <=> (\E r \in rows : r.id = EventId(f))
    BY <1>2, IdShapes DEF Collides, IsEvent
  <1>7. \A r \in rows : r.id \notin DOMAIN core
    OBVIOUS
  <1> HIDE DEF rows, evs
  <1>8. /\ Reported' = Reported /\ DOMAIN core' \subseteq EdgeIds
        /\ DOMAIN core' = DOMAIN core \cup {r.id : r \in rows}
    BY <1>1, <1>4, CoreGrows
  <1>9. PromotedOnce' /\ promoted' \in [Frames -> {0, 1}]
    BY <1>1, <1>6, <1>7, <1>8, PromotedGrows
  <1>10. post' = [batch |-> post'.batch, answer |-> post'.answer] /\ (post' = post \/ post'.batch = s.batch)
    <2>1. post = [batch |-> post.batch, answer |-> post.answer]
      BY DEF EdgeInv, EdgeTypes
    <2>2. post' = post \/ (post.batch = s.batch /\ post' = [post EXCEPT !.answer = Answer(s)])
      BY DEF CoreCommits
    <2> QED
      BY <2>1, <2>2
  <1>11. EdgeTypes'
    BY <1>1, <1>8, <1>9, <1>10 DEF EdgeInv, EdgeTypes
  <1>12. BucketIsOpen' /\ Counted' /\ PrunedIsOld' /\ IdsArePast'
    <2>1. \A r \in outbox : r.id \in OutboxIds(outbox')
      BY <1>1 DEF OutboxIds
    <2> QED
      BY <1>1, <1>8, <2>1, NodeKept
  <1>13. OnItsWay'
    <2>1. \A r \in s.batch : r.id \in DOMAIN core'
      BY <1>5, <1>8
    <2>2. post'.answer = Ok => \A r \in post'.batch : r.id \in DOMAIN core'
      BY <1>8, <1>10, <2>1 DEF EdgeInv, OnItsWay
    <2>3. \A q \in serving' : \A r \in q.batch : IsRollup(r) => Pair(r) \in Reported
      BY <1>1 DEF EdgeInv, OnItsWay
    <2>4. \A q \in serving' : q.fresh \subseteq q.batch
      BY <1>1 DEF EdgeInv, OnItsWay
    <2>5. \A q \in serving' : q.read => \A r \in q.batch : r.id \in DOMAIN core' \/ r \in q.fresh
      BY <1>1, <1>8 DEF EdgeInv, OnItsWay
    <2> QED
      BY <1>8, <2>2, <2>3, <2>4, <2>5 DEF OnItsWay, IsRollup, Pair
  <1>14. SentIsTaken'
    BY <1>1, <1>8 DEF EdgeInv, SentIsTaken, Refused
  <1> QED
    BY <1>9, <1>11, <1>12, <1>13, <1>14 DEF EdgeInv

\* What the core takes in without a request: rows added to what it holds.
LEMMA CoreTakesIn ==
  ASSUME EdgeInv, NEW rows, core' = Stored(rows), outbox' = outbox, broker' \subseteq broker,
         \A r \in rows : r.id \in EdgeIds /\ (IsRollup(r) => Pair(r) \in Reported),
         \A b \in broker : b \in broker' \/ b.id \in DOMAIN core' \/ Refused(b),
         PromotedOnce', promoted' \in [Frames -> {0, 1}],
         edgeClock' = edgeClock, coreConfig' = coreConfig, left' = left, serving' = serving,
         node' = node, cached' = cached, post' = post, processed' = processed, lostFrames' = lostFrames,
         dropped' = dropped, cameraStopped' = cameraStopped
  PROVE  EdgeInv'
  <1>1. \A b \in broker : b \in broker' \/ b.id \in DOMAIN core' \/ ~IsRollup(b)
    BY DEF Refused, IsRollup
  <1>2. /\ Reported' = Reported /\ DOMAIN core' \subseteq EdgeIds /\ DOMAIN core \subseteq DOMAIN core'
    BY <1>1, CoreGrows
  <1>3. EdgeTypes'
    BY <1>2 DEF EdgeInv, EdgeTypes
  <1>4. BucketIsOpen' /\ Counted' /\ PrunedIsOld' /\ IdsArePast'
    <2>1. \A r \in outbox : r.id \in OutboxIds(outbox')
      BY DEF OutboxIds
    <2> QED
      BY <1>2, <2>1, NodeKept
  <1>5. OnItsWay'
    BY <1>2 DEF EdgeInv, OnItsWay, IsRollup, Pair
  <1>6. SentIsTaken'
    <2>1. ASSUME NEW r \in outbox, r.state = "sent"
          PROVE  r.id \in DOMAIN core'
                 \/ (left.transport = "mqtt" /\ (r.id \in {b.id : b \in broker'} \/ Refused(r)))
      <3>1. CASE r.id \in DOMAIN core
        BY <1>2, <3>1
      <3>2. CASE left.transport = "mqtt" /\ Refused(r)
        BY <3>2
      <3>3. CASE left.transport = "mqtt" /\ r.id \in {b.id : b \in broker}
        BY <3>3 DEF Refused
      <3> QED
        BY <2>1, <3>1, <3>2, <3>3 DEF EdgeInv, SentIsTaken
    <2> QED
      BY <2>1 DEF SentIsTaken, Refused
  <1> QED
    BY <1>3, <1>4, <1>5, <1>6 DEF EdgeInv

LEMMA MessageConsumed ==
  ASSUME EdgeInv, NEW r \in broker, NEW acked \in BOOLEAN, Consume(r, acked) PROVE EdgeInv'
  <1>1. /\ broker' \subseteq broker /\ \A b \in broker : b \in broker' \/ b = r
        /\ outbox' = outbox /\ edgeClock' = edgeClock /\ coreConfig' = coreConfig /\ left' = left
        /\ serving' = serving /\ node' = node /\ cached' = cached /\ post' = post /\ processed' = processed
        /\ lostFrames' = lostFrames /\ dropped' = dropped /\ cameraStopped' = cameraStopped /\ replayed' = replayed
    BY DEF Consume, nodeVars
  <1>2. r \in EdgeRows /\ r.id \in EdgeIds /\ (IsRollup(r) => Pair(r) \in Reported)
    BY ReportedIs DEF EdgeInv, EdgeTypes, EdgeRows
  <1>3. CASE Refused(r) \/ r.id \in DOMAIN core
    <2>1. core' = core /\ promoted' = promoted
      BY <1>3 DEF Consume
    <2>2. \A b \in broker : b \in broker' \/ b.id \in DOMAIN core \/ Refused(b)
      BY <1>1, <1>3
    <2>3. Reported' = Reported
      <3>1. \A x : x \in Reported' <=>
               \/ \E q \in outbox \cup broker' : IsRollup(q) /\ x = Pair(q)
               \/ \E id \in DOMAIN core : id[1] = "rollup" /\ x = <<id, core[id]>>
        BY <1>1, <2>1 DEF Reported, IsRollup, Pair
      <3>2. ASSUME NEW b \in broker, IsRollup(b), b \notin broker' PROVE Pair(b) \in Reported'
        <4>1. b.id \in DOMAIN core /\ b.id[1] = "rollup"
          BY <2>2, <3>2 DEF Refused, IsRollup
        <4>2. PICK y : y = <<b.id, core[b.id]>>
          OBVIOUS
        <4>3. y \in Reported' /\ y \in Reported /\ y[1] = b.id
          BY <3>1, <4>1, <4>2, ReportedIs
        <4>4. Pair(b) \in Reported /\ Pair(b)[1] = b.id
          BY <3>2, ReportedIs DEF Pair
        <4>5. Pair(b) = y
          BY <4>3, <4>4 DEF EdgeInv, Counted
        <4> QED
          BY <4>3, <4>5
      <3>3. Reported' \subseteq Reported
        BY <1>1, <3>1, ReportedIs
      <3>4. Reported \subseteq Reported'
        BY <3>1, <3>2, ReportedIs
      <3> QED
        BY <3>3, <3>4
    <2>4. EdgeTypes'
      BY <1>1, <2>1 DEF EdgeInv, EdgeTypes
    <2>5. BucketIsOpen' /\ Counted' /\ PrunedIsOld' /\ IdsArePast'
      <3>1. \A q \in outbox : q.id \in OutboxIds(outbox')
        BY <1>1 DEF OutboxIds
      <3> QED
        BY <1>1, <2>3, <3>1, NodeKept
    <2>6. OnItsWay'
      BY <1>1, <2>1, <2>3 DEF EdgeInv, OnItsWay, IsRollup, Pair
    <2>7. SentIsTaken'
      <3>1. \A q \in outbox : q.state = "sent" =>
              \/ q.id \in DOMAIN core
              \/ left.transport = "mqtt" /\ (q.id \in {b.id : b \in broker'} \/ Refused(q))
        BY <2>2 DEF EdgeInv, SentIsTaken, Refused
      <3> QED
        BY <1>1, <2>1, <3>1 DEF SentIsTaken, Refused
    <2>8. PromotedOnce'
      BY <1>1, <2>1 DEF EdgeInv, PromotedOnce
    <2> QED
      BY <2>4, <2>5, <2>6, <2>7, <2>8 DEF EdgeInv
  <1>4. CASE ~ (Refused(r) \/ r.id \in DOMAIN core)
    <2>1. PICK rows : rows = {r}
      OBVIOUS
    <2>2. core' = Stored(rows) /\ promoted' = Promote(rows)
      BY <1>4, <2>1 DEF Consume
    <2>3. \A q \in rows : q.id \in EdgeIds /\ (IsRollup(q) => Pair(q) \in Reported) /\ q.id \notin DOMAIN core
      BY <1>2, <1>4, <2>1
    <2>4. DOMAIN core' = DOMAIN core \cup {q.id : q \in rows}
      BY <2>2, StoredRows DEF HoldsRows
    <2>5. PromotedOnce' /\ promoted' \in [Frames -> {0, 1}]
      BY <1>1, <2>2, <2>3, <2>4, PromotedGrows
    <2>6. \A b \in broker : b \in broker' \/ b.id \in DOMAIN core' \/ Refused(b)
      BY <1>1, <2>1, <2>4
    <2> QED
      BY <1>1, <2>2, <2>3, <2>5, <2>6, CoreTakesIn
  <1> QED
    BY <1>3, <1>4

LEMMA EventRecomputed == ASSUME EdgeInv, NEW f \in Frames, RecomputeEvent(f) PROVE EdgeInv'
  <1>1. PICK rows : rows = Recomputed(f)
    OBVIOUS
  <1>2. /\ core' = Stored(rows) /\ EventId(f) \notin DOMAIN core /\ replayed' = replayed \cup {f}
        /\ broker' = broker /\ promoted' = promoted
        /\ outbox' = outbox /\ edgeClock' = edgeClock /\ coreConfig' = coreConfig /\ left' = left
        /\ serving' = serving /\ node' = node /\ cached' = cached /\ post' = post /\ processed' = processed
        /\ lostFrames' = lostFrames /\ dropped' = dropped /\ cameraStopped' = cameraStopped
    BY <1>1 DEF RecomputeEvent, nodeVars
  <1>3. \A r \in rows : r.id = EventId(f)
    BY <1>1 DEF Recomputed
  <1>4. {r.id : r \in rows} = {EventId(f)}
    BY <1>1 DEF Recomputed
  <1>5. \A r \in rows : r.id \in EdgeIds /\ (IsRollup(r) => Pair(r) \in Reported)
    BY <1>3, IdShapes DEF IsRollup
  <1>6. DOMAIN core' = DOMAIN core \cup {EventId(f)}
    BY <1>2, <1>4, StoredRows DEF HoldsRows
  <1>7. PromotedOnce'
    <2>1. \A g \in Frames : g # f => EventId(g) # EventId(f)
      BY IdShapes
    <2>2. promoted[f] \in {0, 1} /\ promoted[f] # 1
      BY <1>2 DEF EdgeInv, EdgeTypes, PromotedOnce
    <2> QED
      BY <1>2, <1>6, <2>1, <2>2 DEF EdgeInv, PromotedOnce
  <1>8. promoted' \in [Frames -> {0, 1}]
    BY <1>2 DEF EdgeInv, EdgeTypes
  <1> QED
    BY <1>2, <1>5, <1>7, <1>8, CoreTakesIn

LEMMA ConfigChanged == ASSUME EdgeInv, NEW c \in Configs, ChangeConfig(c) PROVE EdgeInv'
  <1>1. /\ left.configs > 0 /\ left' = [left EXCEPT !.configs = @ - 1] /\ coreConfig' = c
        /\ outbox' = outbox /\ edgeClock' = edgeClock
        /\ serving' = serving /\ node' = node /\ cached' = cached /\ post' = post /\ processed' = processed
        /\ lostFrames' = lostFrames /\ dropped' = dropped /\ cameraStopped' = cameraStopped
        /\ broker' = broker /\ core' = core /\ promoted' = promoted /\ replayed' = replayed
    BY DEF ChangeConfig, nodeVars
  <1>2. left' \in Budgets /\ left'.transport = left.transport /\ left'.time = left.time
    BY <1>1 DEF EdgeInv, EdgeTypes, Budgets
  <1>3. Counted' /\ PrunedIsOld' /\ OnItsWay' /\ SentIsTaken' /\ PromotedOnce'
    <2>1. Notes(outbox')
      BY <1>1, NothingNoted
    <2>2. node'.bucket.frames = node.bucket.frames \cup (processed' \ processed)
      BY <1>1
    <2> QED
      BY <1>1, <1>2, <2>1, <2>2, NotingKeeps
  <1>4. EdgeTypes'
    BY <1>1, <1>2 DEF EdgeInv, EdgeTypes
  <1>5. BucketIsOpen' /\ IdsArePast'
    BY <1>1 DEF EdgeInv, BucketIsOpen, BucketStart, IdsArePast, Past, IsRollup
  <1> QED
    BY <1>3, <1>4, <1>5 DEF EdgeInv

LEMMA EdgeTimePasses == ASSUME EdgeInv, EdgeClockTick PROVE EdgeInv'
  <1>1. /\ edgeClock < left.time /\ edgeClock' = edgeClock + 1
        /\ node.bucket # NoBucket => edgeClock < node.bucket.start + BucketLength
        /\ left' = left /\ coreConfig' = coreConfig /\ outbox' = outbox
        /\ serving' = serving /\ node' = node /\ cached' = cached /\ post' = post /\ processed' = processed
        /\ lostFrames' = lostFrames /\ dropped' = dropped /\ cameraStopped' = cameraStopped
        /\ broker' = broker /\ core' = core /\ promoted' = promoted /\ replayed' = replayed
    <2>1. edgeClock \in Nat /\ node.bucket.start + BucketLength \in Nat
      BY BucketOfNode, EdgeLimits DEF EdgeInv, EdgeTypes
    <2> QED
      BY <2>1 DEF EdgeClockTick, coreVars, nodeVars, Ended
  <1>2. edgeClock \in Nat /\ BucketLength \in Nat /\ SentKept \in Nat /\ left.time \in Nat
    BY EdgeLimits DEF EdgeInv, EdgeTypes, Budgets
  <1>3. Reported' = Reported
    BY <1>1 DEF Reported
  <1>4. EdgeTypes'
    <2>1. \A f \in processed : f \in Frames /\ f <= edgeClock + 1
      BY <1>2, EdgeLimits DEF EdgeInv, EdgeTypes, Frames
    <2> QED
      BY <1>1, <1>2, <2>1 DEF EdgeInv, EdgeTypes
  <1>5. BucketIsOpen'
    <2>1. node.bucket # NoBucket => edgeClock + 1 <= node.bucket.start + BucketLength
      BY <1>1, <1>2, BucketOfNode
    <2> QED
      BY <1>1, <2>1 DEF EdgeInv, BucketIsOpen, BucketStart
  <1>6. Counted'
    BY <1>1, <1>3 DEF EdgeInv, Counted
  <1>7. PrunedIsOld'
    <2>1. ASSUME NEW x \in Reported, x[1] \notin OutboxIds(outbox) PROVE x[1][2] + SentKept < edgeClock + 1
      <3>1. x[1][2] + SentKept < edgeClock
        BY <2>1 DEF EdgeInv, PrunedIsOld
      <3>2. x[1] \in EdgeIds /\ x[1][1] = "rollup"
        BY ReportedIs DEF EdgeInv, EdgeTypes, OutboxRows, EdgeRows, IsRollup, Pair
      <3>3. x[1][2] \in Nat
        BY <3>2, IdShapes
      <3> QED
        BY <1>2, <3>1, <3>3
    <2> QED
      BY <1>1, <1>3, <2>1 DEF EdgeInv, PrunedIsOld, IsRollup
  <1>8. IdsArePast'
    <2>1. ASSUME NEW r \in outbox, IsRollup(r), Past(r.id) PROVE Past(r.id)'
      <3>1. r.id[2] \in Nat
        BY <2>1, IdShapes DEF EdgeInv, EdgeTypes, OutboxRows, EdgeRows, IsRollup
      <3> QED
        BY <1>1, <1>2, <2>1, <3>1 DEF Past
    <2> QED
      BY <1>1, <2>1 DEF EdgeInv, IdsArePast, IsRollup
  <1>9. OnItsWay'
    BY <1>1, <1>3 DEF EdgeInv, OnItsWay, IsRollup, Pair
  <1>10. SentIsTaken' /\ PromotedOnce'
    BY <1>1 DEF EdgeInv, SentIsTaken, PromotedOnce, Refused
  <1> QED
    BY <1>4, <1>5, <1>6, <1>7, <1>8, <1>9, <1>10 DEF EdgeInv

LEMMA EdgeStarts == ASSUME EdgeInit PROVE EdgeInv
  <1>1. /\ edgeClock = 1 /\ node = Down /\ outbox = {} /\ broker = {} /\ serving = {} /\ post = NoPost
        /\ processed = {} /\ dropped = {} /\ replayed = {} /\ DOMAIN core = {}
        /\ coreConfig \in Configs /\ left \in Budgets /\ cached = NoConfig /\ cameraStopped = FALSE
        /\ promoted = [f \in Frames |-> 0]
    BY EdgeLimits DEF EdgeInit
  <1>2. node \in EdgeNodes /\ node.bucket = NoBucket
    BY <1>1, NoBucketIs DEF Down, EdgeNodes
  <1>3. OutboxRows(outbox)
    BY <1>1, FS_EmptySet DEF OutboxRows
  <1>4. EdgeTypes
    <2>1. edgeClock \in Nat \ {0} /\ left \in Budgets /\ edgeClock <= left.time
      BY <1>1 DEF Budgets
    <2>2. post = [batch |-> post.batch, answer |-> post.answer]
      BY <1>1 DEF NoPost
    <2>3. promoted \in [Frames -> {0, 1}]
      BY <1>1
    <2>4. DOMAIN core \subseteq EdgeIds /\ broker \subseteq EdgeRows /\ serving \subseteq CoreRequests
      BY <1>1
    <2>5. processed \subseteq {f \in Frames : f <= edgeClock}
      BY <1>1
    <2> QED
      BY <1>1, <1>2, <1>3, <2>1, <2>2, <2>3, <2>4, <2>5 DEF EdgeTypes
  <1>5. Reported = {}
    BY <1>1 DEF Reported
  <1>6. BucketIsOpen /\ Counted /\ PrunedIsOld /\ IdsArePast
    BY <1>1, <1>2, <1>5, NoBucketIs DEF BucketIsOpen, Counted, PrunedIsOld, IdsArePast
  <1>7. OnItsWay /\ SentIsTaken
    BY <1>1 DEF OnItsWay, SentIsTaken, NoPost, Ok, Waiting
  <1>8. PromotedOnce
    BY <1>1 DEF PromotedOnce
  <1> QED
    BY <1>4, <1>6, <1>7, <1>8 DEF EdgeInv

LEMMA EdgeStep == EdgeInv /\ [EdgeNext]_edgeVars => EdgeInv'
  <1> SUFFICES ASSUME EdgeInv, [EdgeNext]_edgeVars PROVE EdgeInv'
    OBVIOUS
  <1>1. CASE UNCHANGED edgeVars
    <2>1. Reported' = Reported
      BY <1>1 DEF edgeVars, Reported
    <2>2. EdgeTypes' /\ BucketIsOpen' /\ IdsArePast'
      BY <1>1 DEF edgeVars, EdgeInv, EdgeTypes, BucketIsOpen, BucketStart, IdsArePast, Past, IsRollup
    <2>3. Counted' /\ PrunedIsOld' /\ OnItsWay'
      BY <1>1, <2>1 DEF edgeVars, EdgeInv, Counted, PrunedIsOld, OnItsWay, IsRollup, Pair
    <2>4. SentIsTaken' /\ PromotedOnce'
      BY <1>1 DEF edgeVars, EdgeInv, SentIsTaken, PromotedOnce, Refused
    <2> QED
      BY <2>2, <2>3, <2>4 DEF EdgeInv
  <1>2. ASSUME GetAnswer \/ PostFails PROVE EdgeInv'
    <2>1. /\ post' = NoPost /\ edgeClock' = edgeClock /\ node' = node /\ cached' = cached
          /\ coreConfig' = coreConfig /\ left' = left /\ processed' = processed /\ lostFrames' = lostFrames
          /\ dropped' = dropped /\ cameraStopped' = cameraStopped
          /\ serving' = serving /\ broker' = broker /\ core' = core /\ promoted' = promoted /\ replayed' = replayed
      BY <1>2 DEF GetAnswer, PostFails, coreVars
    <2>2. PICK a : (a = post.answer \/ a = TransientError) /\ outbox' = AfterAnswer(a, post.batch)
      BY <1>2 DEF GetAnswer, PostFails
    <2> QED
      BY <2>1, <2>2, AnswerTaken
  <1>3. ASSUME NEW s \in serving, CoreReads(s) \/ CoreCommits(s) \/ CoreFails(s) PROVE EdgeInv'
    BY <1>3, CoreReadsBatch, CoreEndsRequest, CoreStoresBatch
  <1>4. ASSUME NEW c \in BOOLEAN, NEW l \in BOOLEAN, ProcessFrame(c, l) PROVE EdgeInv'
    BY <1>4, FrameProcessed
  <1>5. ASSUME NEW r \in broker, NEW a \in BOOLEAN, Consume(r, a) PROVE EdgeInv'
    BY <1>5, MessageConsumed
  <1>6. ASSUME \/ NodeStart \/ Idle \/ Refresh \/ Shutdown \/ NodeDies \/ DrainHttp \/ DrainMqtt \/ PruneSent
               \/ EdgeClockTick
        PROVE  EdgeInv'
    BY <1>6, NodeStarts, NodeIdles, NodeRefreshes, NodeShutsDown, NodeDiesSafely, DrainsOverHttp, DrainsOverMqtt,
       SentPruned, EdgeTimePasses
  <1>7. ASSUME (\E f \in Frames : RecomputeEvent(f)) \/ (\E c \in Configs : ChangeConfig(c)) PROVE EdgeInv'
    BY <1>7, EventRecomputed, ConfigChanged
  <1> QED
    BY <1>1, <1>2, <1>3, <1>4, <1>5, <1>6, <1>7 DEF EdgeNext

LEMMA EdgeInvCounts == ASSUME EdgeInv PROVE RecordedOnce
  <1>1. ASSUME NEW f \in processed \ (lostFrames \cup dropped)
        PROVE  IF f \in node.bucket.frames THEN \A x \in Reported : f \notin x[2]
               ELSE Cardinality({x \in Reported : f \in x[2]}) = 1
    <2>1. CASE f \in node.bucket.frames
      BY <2>1 DEF EdgeInv, Counted
    <2>2. CASE f \notin node.bucket.frames
      <3>1. PICK y \in Reported : f \in y[2]
        BY <2>2 DEF EdgeInv, Counted
      <3>2. {x \in Reported : f \in x[2]} = {y}
        BY <3>1 DEF EdgeInv, Counted
      <3>3. Cardinality({y}) = 1
        BY FS_Singleton
      <3> QED
        BY <2>2, <3>2, <3>3
    <2> QED
      BY <2>1, <2>2
  <1>2. FramesCountedOnce
    BY <1>1 DEF FramesCountedOnce, EdgeInv, Counted, IdsArePast
  <1>3. \A f \in Frames : promoted[f] <= 1
    BY DEF EdgeInv, EdgeTypes
  <1>4. DeliveredOnce
    BY <1>3 DEF DeliveredOnce, EdgeInv, PromotedOnce, SentIsTaken
  <1> QED
    BY <1>2, <1>4 DEF RecordedOnce

(* Every analysed frame is counted by one rollup and every event is promoted once,
   for any number of restarts, reconfigurations, faults and records, as long as
   sent rows stay no shorter than a bucket is open (vision/rollup.py, vision/edge/
   outbox.py, vision/service.py). *)
THEOREM VisionRecordsOnce == EdgeSpec => []RecordedOnce
  <1>1. EdgeInit => EdgeInv
    BY EdgeStarts
  <1>2. EdgeInv /\ [EdgeNext]_edgeVars => EdgeInv'
    BY EdgeStep
  <1>3. EdgeInv => RecordedOnce
    BY EdgeInvCounts
  <1> QED
    BY <1>1, <1>2, <1>3, PTL DEF EdgeSpec
==============================================================================
