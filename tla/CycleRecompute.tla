---------------------------- MODULE CycleRecompute ----------------------------
(***************************************************************************)
(* The incremental rebuild of one asset's haul cycles and metric buckets   *)
(* (cycles/recompute.py) against ingest of its fixes (repositories.py,     *)
(* insert_position).  Ingest marks a late fix in the asset's cursor row,   *)
(* the maintenance tick rebuilds from the cursor or the mark, and an       *)
(* on-demand rebuild works through the history in slices.                  *)
(*                                                                         *)
(* What the rows say is abstracted away; stale is the set of times whose   *)
(* rows do not yet account for a stored fix or for a loader's late fix.    *)
(***************************************************************************)
EXTENDS Integers, FiniteSets, FiniteSetsExt

CONSTANTS MaxTs,        \* bound: device times are 1 .. MaxTs
          Lookback,     \* _lookback: how far before a late fix a rebuild starts
          MinVisit, MinExit,  \* MIN_VISIT_S, MIN_EXIT_S
          Chunk, ChunkMin,  \* _CHUNK, _CHUNK_MIN: the slices of an on-demand rebuild
          Ingesters,    \* transports storing fixes of the asset
          Since,        \* starts of on-demand rebuilds; None is the whole history
          Budgets       \* bounds of a behaviour: the last time a fix has, how far
                        \* ingest runs ahead of the cursor, how many on-demand
                        \* rebuilds, loader's marks and failures there are

Times == 1 .. MaxTs

ASSUME RecomputeAssumption ==
  /\ MaxTs \in Nat \ {0} /\ Lookback \in Nat /\ MinVisit \in Nat /\ MinExit \in Nat
  /\ Since \subseteq 0 .. MaxTs
  /\ Chunk \in Nat \ {0} /\ ChunkMin \in Nat \ {0} /\ ChunkMin <= Chunk
  /\ Budgets \subseteq [until : Times, ahead : Nat, demands : Nat, marks : Nat, faults : Nat]
  \* Where rebuilds are asked for, the tick does not fall behind by more than the lookback.
  /\ \A b \in Budgets : b.demands > 0 => b.ahead <= Lookback
  /\ Ingesters \cap {"tick", "demand", "free"} = {}

None == 0
Open == MaxTs + 1       \* a rebuild that runs to the newest fix
Rebuilders == {"tick", "demand"}

VARIABLES fixes,        \* device times stored
          stale,        \* times whose derived rows are out of date
          through, dirty, start,  \* the cursor: through_ts, dirty_from, cycles_from
          rowLock,      \* holder of the cursor row's lock
          rebuildLock,  \* holder of the rebuilders' advisory lock
          inflight,     \* the fix of each ingester's open transaction
          job,          \* each rebuilder: its step, its window and what it read
          left          \* what is left of the behaviour's bounds

vars == <<fixes, stale, through, dirty, start, rowLock, rebuildLock, inflight, job,
          left>>
cursor == <<through, dirty, start>>

Idle == [pc |-> "idle", from |-> 0, to |-> 0, seen |-> {}, last |-> 0]

Init ==
  /\ fixes = {} /\ stale = {}
  /\ through = None /\ dirty = None /\ start = None
  /\ rowLock = "free" /\ rebuildLock = "free"
  /\ inflight = [w \in Ingesters |-> None]
  /\ job = [r \in Rebuilders |-> Idle]
  /\ left \in Budgets

Changed(t) == /\ stale' = stale \cup {t}
              /\ job' = [r \in Rebuilders |-> [job[r] EXCEPT !.seen = @ \ {t}]]

-----------------------------------------------------------------------------
(* Ingest: insert_position and _mark_recompute_dirty in one transaction.   *)

\* Mutant: the upsert that changes nothing does not lock the cursor row.
InsertUnlocked(w, t) ==
  /\ inflight[w] = None /\ t \notin fixes
  /\ \A v \in Ingesters : inflight[v] # t
  /\ t <= left.until /\ (through # None => t <= through + left.ahead)
  /\ inflight' = [inflight EXCEPT ![w] = t]
  /\ UNCHANGED <<fixes, stale, cursor, rowLock, rebuildLock, job, left>>

\* The insert, and the upsert of the cursor row, which waits for the row's lock.
Insert(w, t) ==
  /\ inflight[w] = None /\ t \notin fixes
  /\ t <= left.until /\ (through # None => t <= through + left.ahead)
  /\ rowLock = "free" /\ rowLock' = w
  /\ inflight' = [inflight EXCEPT ![w] = t]
  /\ UNCHANGED <<fixes, stale, cursor, rebuildLock, job, left>>

\* Mutant: a late fix does not lower dirty_from once a mark exists.
MarkKept(t) == IF (through = None \/ t < through) /\ dirty = None THEN t ELSE dirty

\* The mark: a fix behind the cursor lowers dirty_from; one ahead of it needs no mark.
Marked(t) ==
  IF (through = None \/ t < through) /\ (dirty = None \/ t < dirty) THEN t ELSE dirty

CommitFix(w) ==
  /\ inflight[w] # None
  /\ fixes' = fixes \cup {inflight[w]}
  /\ Changed(inflight[w])
  /\ dirty' = Marked(inflight[w])
  /\ rowLock' = IF rowLock = w THEN "free" ELSE rowLock
  /\ inflight' = [inflight EXCEPT ![w] = None]
  /\ UNCHANGED <<through, start, rebuildLock, left>>

RollbackFix(w) ==
  /\ inflight[w] # None /\ left.faults > 0 /\ left' = [left EXCEPT !.faults = @ - 1]
  /\ rowLock' = IF rowLock = w THEN "free" ELSE rowLock
  /\ inflight' = [inflight EXCEPT ![w] = None]
  /\ UNCHANGED <<fixes, stale, cursor, rebuildLock, job>>

\* _mark_paired, in the transaction that rebuilds a loader: a stored cycle of this asset that
\* starts at t has to be paired again.
MarkPaired(t) ==
  /\ t \in fixes /\ t <= through /\ rowLock = "free"
  /\ left.marks > 0 /\ left' = [left EXCEPT !.marks = @ - 1]
  /\ dirty' = IF dirty = None \/ dirty > t THEN t ELSE dirty
  /\ Changed(t)
  /\ UNCHANGED <<fixes, through, start, rowLock, rebuildLock, inflight>>

-----------------------------------------------------------------------------
(* Rebuilding.                                                             *)

Newest == Max(fixes)
\* _start_at: at ts, or at the first fix when nothing precedes it.
StartAt(ts) == IF Min(fixes) >= ts THEN Min(fixes) ELSE ts

\* The newest of the fixes a rebuild from ts reads, its lead-in included; None if there is none.
LastRead(ts) == IF Newest >= ts - MinExit THEN Newest ELSE None

\* _window_incremental: where the tick's rebuild starts.
WindowIncremental ==
  CASE start = None -> StartAt((IF dirty # None THEN dirty ELSE Newest) - Lookback)
    [] start # None /\ dirty # None /\ dirty < start + MinVisit -> StartAt(dirty - Lookback)
    [] OTHER -> start

NothingNew == \/ fixes = {}
              \/ start # None /\ dirty = None /\ ~ \E t \in fixes : t > through

\* _lock_rebuild, before the window is computed and again before each further slice.
LockRebuild(r, pc, from) ==
  /\ rebuildLock = "free" /\ rebuildLock' = r
  /\ job' = [job EXCEPT ![r] = [Idle EXCEPT !.pc = pc, !.from = from]]

TickStart ==
  /\ job["tick"].pc = "idle" /\ LockRebuild("tick", "locked", 0)
  /\ UNCHANGED <<fixes, stale, cursor, rowLock, inflight, left>>

\* _lock_cursor, the window and the read of the fixes.
TickRead ==
  /\ job["tick"].pc = "locked" /\ rowLock = "free"
  /\ IF NothingNew
       THEN /\ job' = [job EXCEPT !["tick"] = Idle] /\ rebuildLock' = "free"
            /\ UNCHANGED rowLock
       ELSE /\ job' = [job EXCEPT !["tick"] = [pc |-> "read", from |-> WindowIncremental, to |-> Open,
                                               seen |-> stale, last |-> LastRead(WindowIncremental)]]
            /\ rowLock' = "tick" /\ UNCHANGED rebuildLock
  /\ UNCHANGED <<fixes, stale, cursor, inflight, left>>

\* The derived rows are rewritten from the window's start to its end.
Rewritten(r) == {t \in job[r].seen : job[r].from <= t /\ t < job[r].to}

\* _advance: past the newest fix read; the next window starts at the cycle in progress.
Advance(r) ==
  IF job[r].last = None
    THEN UNCHANGED <<through, start>>
    ELSE /\ through' = job[r].last
         /\ start' \in Min({job[r].from, job[r].last}) .. job[r].last

TickCommit ==
  /\ job["tick"].pc = "read"
  /\ stale' = stale \ Rewritten("tick")
  /\ Advance("tick") /\ dirty' = None
  /\ job' = [job EXCEPT !["tick"] = Idle]
  /\ rowLock' = "free" /\ rebuildLock' = "free"
  /\ UNCHANGED <<fixes, inflight, left>>

\* recompute: on demand, from s or over the whole history (_window_on_demand).
DemandStart(s) ==
  /\ job["demand"].pc = "idle" /\ fixes # {}
  /\ left.demands > 0 /\ left' = [left EXCEPT !.demands = @ - 1]
  /\ LockRebuild("demand", "locked", IF s = None THEN Min(fixes) ELSE StartAt(s - Lookback))
  /\ UNCHANGED <<fixes, stale, cursor, rowLock, inflight>>

\* The end of the slice that starts at from: the newest slice spans at least the lookback.
SliceEnd(from) ==
  LET limit == Newest - Lookback
  IN  IF limit - from >= ChunkMin
        THEN IF from + Chunk <= limit THEN from + Chunk ELSE limit
        ELSE Open

\* One slice: only the newest locks the cursor row.
DemandRead ==
  /\ job["demand"].pc = "locked"
  /\ LET to == SliceEnd(job["demand"].from)
     IN  /\ job' = [job EXCEPT !["demand"] = [pc |-> "read", from |-> job["demand"].from, to |-> to,
                                              seen |-> stale, last |-> LastRead(job["demand"].from)]]
         /\ IF to = Open THEN rowLock = "free" /\ rowLock' = "demand" ELSE UNCHANGED rowLock
  /\ UNCHANGED <<fixes, stale, cursor, rebuildLock, inflight, left>>

\* An older slice moves on to the next; the newest moves the cursor and leaves the mark.
DemandCommit ==
  /\ job["demand"].pc = "read"
  /\ stale' = stale \ Rewritten("demand")
  /\ rebuildLock' = "free"
  /\ IF job["demand"].to = Open
       THEN /\ Advance("demand")
            /\ rowLock' = IF rowLock = "demand" THEN "free" ELSE rowLock
            /\ job' = [job EXCEPT !["demand"] = Idle]
       ELSE /\ job' = [job EXCEPT !["demand"] = [Idle EXCEPT !.pc = "between",
                                                             !.from = job["demand"].to]]
            /\ UNCHANGED <<through, start, rowLock>>
  /\ UNCHANGED <<fixes, dirty, inflight, left>>

DemandNext ==
  /\ job["demand"].pc = "between"
  /\ LockRebuild("demand", "locked", job["demand"].from)
  /\ UNCHANGED <<fixes, stale, cursor, rowLock, inflight, left>>

\* One asset's failure, or a crash: rolled back, both locks released.
RebuildFails(r) ==
  /\ job[r].pc \in {"locked", "read"} /\ left.faults > 0 /\ left' = [left EXCEPT !.faults = @ - 1]
  /\ job' = [job EXCEPT ![r] = Idle]
  /\ rebuildLock' = "free"
  /\ rowLock' = IF rowLock = r THEN "free" ELSE rowLock
  /\ UNCHANGED <<fixes, stale, cursor, inflight>>

Tick == TickStart \/ TickRead \/ TickCommit
\* A rebuild is asked for from a moment of the recorded history on.
Requests == {s \in Since : fixes # {} => s <= Newest}

Demand == (\E s \in Requests : DemandStart(s)) \/ DemandRead \/ DemandCommit \/ DemandNext
Next == \/ \E w \in Ingesters : \/ \E t \in Times : Insert(w, t)
                                \/ CommitFix(w) \/ RollbackFix(w)
        \/ \E t \in Times : MarkPaired(t)
        \/ Tick \/ Demand
        \/ \E r \in Rebuilders : RebuildFails(r)

\* Transactions end, the maintenance tick keeps coming, a rebuild under way goes on; a lock
\* that is free again and again is granted (PostgreSQL queues its waiters).
Fairness ==
  /\ \A w \in Ingesters : WF_vars(CommitFix(w))
  /\ SF_vars(TickStart) /\ SF_vars(TickRead) /\ WF_vars(TickCommit)
  /\ SF_vars(DemandRead) /\ WF_vars(DemandCommit) /\ SF_vars(DemandNext)

Spec == Init /\ [][Next]_vars
FairSpec == Spec /\ Fairness

-----------------------------------------------------------------------------
(* Properties.                                                             *)

\* "a fix can never slip in between a run's read of positions and its cursor update"
\* (_mark_recompute_dirty): whatever is out of date is ahead of the cursor or marked, so the
\* next tick rebuilds it.
NothingSlips ==
  \A t \in stale : t > through \/ (dirty # None /\ dirty <= t)

\* Every change reaches the cycles and buckets: whatever made a time's rows out of date, a
\* late fix or a loader's rebuild, some later tick or demand rebuilds them (refresh), and once
\* no more fixes come nothing is out of date.
EventuallyRebuilt == <>[](stale = {})
===============================================================================
