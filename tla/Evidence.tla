------------------------------- MODULE Evidence -------------------------------
(***************************************************************************)
(* The stills an edge node keeps as evidence of its events                 *)
(* (vision/edge/evidence.py, s3.py): a ring on disk, bounded by age and by *)
(* number, and in s3 mode a queue of marker files for the site's object    *)
(* store.  The frame loop saves, the same thread uploads and prunes        *)
(* between frames (EdgeNode.flush); the disk, the link and the power fail  *)
(* between any two file operations.  After a restart the rules may         *)
(* conclude an event again, under the same id.                             *)
(***************************************************************************)
EXTENDS Naturals, FiniteSets

CONSTANTS
  StillEvents,     \* ids of the events that get a still, in the order of their keys
  MaxStills,       \* max_items
  StillAge,        \* max_age
  UploadLimit,     \* upload_pending's limit
  MaxSaves,        \* bound: stills saved in a behaviour
  EvidenceEnd      \* bound: the last clock value

ASSUME EvidenceAssumption == StillEvents \subseteq Nat /\ MaxStills \in Nat \ {0}

VARIABLES
  evMode,          \* "edge" or "s3"
  evNow,
  evKept,          \* the ring: event -> mtime of its still
  evMarked,        \* events with a .pending marker
  evStore,         \* events whose object the store has (external)
  evStep,          \* what the node's thread is in the middle of
  evSaves,         \* saves left
  evRefs,          \* history: references handed out
  evExpired        \* history: stills the ring's bounds gave up

evVars == <<evMode, evNow, evKept, evMarked, evStore, evStep, evSaves, evRefs, evExpired>>

Between == [at |-> "frames", event |-> 0, todo |-> {}]

EvidenceInit ==
  /\ evMode \in {"edge", "s3"}
  /\ evNow = 0 /\ evKept = <<>> /\ evMarked = {} /\ evStore = {}
  /\ evStep = Between /\ evSaves = MaxSaves
  /\ evRefs = {} /\ evExpired = {}

-----------------------------------------------------------------------------
(* save: the still, then in s3 mode its marker, then the reference.  Each write
   is atomic (write_atomic). *)

SaveStill(e) ==
  /\ evStep = Between /\ evSaves > 0
  /\ \A k \in DOMAIN evKept : evKept[k] # evNow
  /\ evSaves' = evSaves - 1
  /\ evKept' = [k \in DOMAIN evKept \cup {e} |-> IF k = e THEN evNow ELSE evKept[k]]
  /\ evStep' = [Between EXCEPT !.at = "saving", !.event = e]
  /\ UNCHANGED <<evMode, evNow, evMarked, evStore, evRefs, evExpired>>

(* A saved still and its reference: what the event carries from now on. *)
SaveReference ==
  /\ evStep.at = "saving"
  /\ evMarked' = IF evMode = "s3" THEN evMarked \cup {evStep.event} ELSE evMarked
  /\ evRefs' = evRefs \cup {evStep.event}
  /\ evExpired' = evExpired \ {evStep.event}
  /\ evStep' = Between
  /\ UNCHANGED <<evMode, evNow, evKept, evStore, evSaves>>

(* OSError on the marker: the event goes without a reference, its still stays. *)
SaveFails ==
  /\ evStep.at = "saving" /\ evMode = "s3"
  /\ evStep' = Between
  /\ UNCHANGED <<evMode, evNow, evKept, evMarked, evStore, evSaves, evRefs, evExpired>>

-----------------------------------------------------------------------------
(* EdgeNode.flush: upload_pending over the first markers by key, then prune. *)

First(n, S) == {e \in S : Cardinality({k \in S : k < e}) < n}

Flush ==
  /\ evStep = Between /\ (DOMAIN evKept # {} \/ evMarked # {})
  /\ evStep' = [Between EXCEPT !.at = "uploading", !.todo = First(UploadLimit, evMarked)]
  /\ UNCHANGED <<evMode, evNow, evKept, evMarked, evStore, evSaves, evRefs, evExpired>>

Upload(e) == evStep.at = "uploading" /\ evStep.todo # {} /\ e \in First(1, evStep.todo)
NextUpload(e) == evStep' = [evStep EXCEPT !.at = "uploading", !.todo = @ \ {e}]

(* The still was pruned before it could be sent: its marker goes. *)
UploadExpired(e) ==
  /\ Upload(e) /\ e \notin DOMAIN evKept
  /\ evMarked' = evMarked \ {e} /\ NextUpload(e)
  /\ UNCHANGED <<evMode, evNow, evKept, evStore, evSaves, evRefs, evExpired>>

\* Mutant: the marker is taken before the object is sent.
UnlinkFirst(e) ==
  /\ Upload(e) /\ e \in DOMAIN evKept
  /\ evMarked' = evMarked \ {e}
  /\ \/ evStore' = evStore \cup {e} /\ evStep' = [evStep EXCEPT !.at = "put"]
     \/ UNCHANGED evStore /\ evStep' = [Between EXCEPT !.at = "pruning"]
  /\ UNCHANGED <<evMode, evNow, evKept, evSaves, evRefs, evExpired>>

(* S3Uploader.put; only then is the marker unlinked. *)
UploadPut(e) ==
  /\ Upload(e) /\ e \in DOMAIN evKept
  /\ evStore' = evStore \cup {e}
  /\ evStep' = [evStep EXCEPT !.at = "put"]
  /\ UNCHANGED <<evMode, evNow, evKept, evMarked, evSaves, evRefs, evExpired>>

UnlinkMarker ==
  /\ evStep.at = "put"
  /\ \E e \in First(1, evStep.todo) : evMarked' = evMarked \ {e} /\ NextUpload(e)
  /\ UNCHANGED <<evMode, evNow, evKept, evStore, evSaves, evRefs, evExpired>>

(* S3Error ends the pass, also when the store has the object and its answer is
   lost; the rest waits for the next. *)
UploadFails(e) ==
  /\ Upload(e) /\ e \in DOMAIN evKept
  /\ \/ UNCHANGED evStore
     \/ evStore' = evStore \cup {e}
  /\ evStep' = [Between EXCEPT !.at = "pruning"]
  /\ UNCHANGED <<evMode, evNow, evKept, evMarked, evSaves, evRefs, evExpired>>

UploadEnds ==
  /\ evStep.at = "uploading" /\ evStep.todo = {}
  /\ evStep' = [Between EXCEPT !.at = "pruning"]
  /\ UNCHANGED <<evMode, evNow, evKept, evMarked, evStore, evSaves, evRefs, evExpired>>

(* prune: the stills past max_age, then the oldest of the others beyond max_items. *)
TooOld == {e \in DOMAIN evKept : evKept[e] + StillAge < evNow}
NewerThan(e) == {k \in DOMAIN evKept : evKept[k] > evKept[e]}
Doomed == LET survivors == DOMAIN evKept \ TooOld
          IN  TooOld \cup {e \in survivors : Cardinality(NewerThan(e) \cap survivors) >= MaxStills}

(* The stills the bounds give up, told from the ring alone. *)
GivenUp(gone) == {e \in gone : evKept[e] + StillAge < evNow \/ Cardinality(NewerThan(e)) >= MaxStills}

Unlink(gone) ==
  /\ evKept' = [k \in DOMAIN evKept \ gone |-> evKept[k]]
  /\ evExpired' = evExpired \cup GivenUp(gone)

Prune ==
  /\ evStep.at = "pruning" /\ Unlink(Doomed)
  /\ evStep' = Between
  /\ UNCHANGED <<evMode, evNow, evMarked, evStore, evSaves, evRefs>>

-----------------------------------------------------------------------------
(* The node loses power in the middle of a step; half of a prune is done. *)
EvidencePowerCut ==
  /\ evStep # Between /\ evStep' = Between
  /\ IF evStep.at = "pruning" THEN \E gone \in SUBSET Doomed : Unlink(gone)
     ELSE UNCHANGED <<evKept, evExpired>>
  /\ UNCHANGED <<evMode, evNow, evMarked, evStore, evSaves, evRefs>>

EvidenceTick ==
  /\ evNow < EvidenceEnd /\ evNow' = evNow + 1
  /\ UNCHANGED <<evMode, evKept, evMarked, evStore, evStep, evSaves, evRefs, evExpired>>

EvidenceNext ==
  \/ \E e \in StillEvents : SaveStill(e) \/ UploadExpired(e) \/ UploadPut(e) \/ UploadFails(e)
  \/ SaveReference \/ SaveFails \/ Flush \/ UnlinkMarker \/ UploadEnds \/ Prune
  \/ EvidencePowerCut \/ EvidenceTick

EvidenceSpec == EvidenceInit /\ [][EvidenceNext]_evVars

-----------------------------------------------------------------------------
(* A reference keeps its promise until the ring's bounds give its still up: the
   still of a referenced event is on disk, and in s3 mode it is in the object
   store or queued for it, wherever the power was cut, whichever upload failed or
   lost its answer and whatever was pruned in between (save, upload_pending,
   prune). *)
ReferencesHold ==
  \A e \in evRefs \ evExpired :
    /\ e \in DOMAIN evKept
    /\ evMode = "s3" => e \in evStore \cup evMarked
=============================================================================
