------------------------------ MODULE HaulCycles ------------------------------
(***************************************************************************)
(* Haul cycles and metric buckets of one truck: the analysis of a position *)
(* track into load visits, dump visits and cycles (cycles/statemachine.py),*)
(* the buckets (cycles/metrics.py), and the rebuilds that keep the stored  *)
(* rows up to date from a cursor instead of from the whole history         *)
(* (cycles/recompute.py).                                                  *)
(*                                                                         *)
(* A fix says in which kind of zone the truck was, whether it moved and    *)
(* where along the line at the loader it stood, in metres.  Times are      *)
(* whole; a time without a fix is a gap in the reports.                    *)
(***************************************************************************)
EXTENDS Integers, Sequences, FiniteSets, FiniteSetsExt, SequencesExt

CONSTANTS
  MinLoad, MinStep,                               \* statemachine.py
  BucketS,                                        \* metrics.BUCKET_S
  ChunkMax, ChunkMin,                             \* recompute._CHUNK, _CHUNK_MIN
  HaulWorlds,     \* [fixes, until, gaps, ahead, apart, visit, exit, cap, late, demands]: a
                  \* behaviour's fixes, times and events, how many times are skipped, how far
                  \* fixes are ahead of the cursor, the travel time between zones, MIN_VISIT_S,
                  \* MIN_EXIT_S and MM_CYCLE_MAX_S
  DemandFrom      \* start times of an on-demand rebuild; 0: all history

VARIABLES
  haulWorld,      \* the world of this behaviour
  haulTrack,      \* stored positions: time -> fix
  haulCycles,     \* stored haul_cycles rows
  haulBuckets,    \* stored asset_metrics rows: bucket start -> [loads, timed]
  haulCursor,     \* the recompute_cursors row
  haulDemand,     \* the window of the on-demand rebuild's next slice and whether it holds the
                  \* rebuild lock, or NoWindow
  haulBudget      \* times skipped, late fixes and on-demand rebuilds still to come

haulVars == <<haulWorld, haulTrack, haulCycles, haulBuckets, haulCursor, haulDemand, haulBudget>>

NoTime == 0
NoWindow == [from |-> NoTime, known |-> FALSE, metrics |-> NoTime, open |-> NoTime,
             held |-> FALSE]
MaxCycle == haulWorld.cap
MinVisit == haulWorld.visit
MinExit == haulWorld.exit

\* Mutant: the visit that opens a cycle and the exit that ends it are forgotten.
CycleLookback == MaxCycle

Lookback == MaxCycle + MinVisit + MinExit    \* without the margin its argument does not need

FloorBucket(t) == t - (t % BucketS)
Earliest(S) == IF S = {} THEN {} ELSE {Min(S)}
Latest(S) == IF S = {} THEN {} ELSE {Max(S)}

-----------------------------------------------------------------------------
(* cycles/statemachine.py *)

InLoad(x) == x.zone = "load"

(* Whether a visit to a zone of this kind begins at s: outside just before, and for
   at least MinExit. *)
BeginsAt(f, kind, s) ==
  LET before == {t \in DOMAIN f : t < s}
      inside == {t \in before : f[t].zone = kind}
      outside == {t \in before : \A u \in inside : u < t}
  IN  f[s].zone = kind /\ (inside = {} \/ (outside # {} /\ s - Min(outside) >= MinExit))

(* The visit that begins at s: it ends at the first fix outside after its last
   run, or at the last fix. *)
VisitFrom(f, kind, s, begins) ==
  LET Until(last) ==
        [enter |-> s, last |-> last,
         exit |-> Max(Earliest({t \in DOMAIN f : t > last}) \cup {last})]
  IN  Until(Max({t \in DOMAIN f : /\ s <= t /\ f[t].zone = kind
                                  /\ \A u \in begins : u <= s \/ t < u}))

Visits(f, kind) ==
  LET From(begins) == {VisitFrom(f, kind, s, begins) : s \in begins}
  IN  From({t \in DOMAIN f : BeginsAt(f, kind, t)})

LongEnough(v) == v.exit - v.enter >= MinVisit
FirstVisit(S) == CHOOSE v \in S : \A w \in S : v.enter <= w.enter
LastVisit(S) == CHOOSE v \in S : \A w \in S : v.enter >= w.enter

(* The stops of a visit: runs of stationary fixes, merged while their centroids
   are closer than MinStep.  A stop keeps its n and sum of places, its start and
   the fix after it. *)
Stops(f, v) ==
  LET T == {t \in DOMAIN f : v.enter <= t /\ t <= v.last}
      Still(t) == t \in T /\ ~f[t].moving
      Begin == {t \in T : Still(t) /\ \A u \in Latest({w \in T : w < t}) : ~Still(u)}
      Run(t) == {u \in T : t <= u /\ \A w \in T : t <= w /\ w <= u => Still(w)}
      After(t) == Max(Earliest({u \in DOMAIN f : u > Max(Run(t))}) \cup {Max(Run(t))})
      Spell(t) == [start |-> t, end |-> After(t), n |-> Cardinality(Run(t)),
                   sum |-> MapThenSumSet(LAMBDA u : f[u].spot, Run(t))]
      Near(p, q) == LET d == p.sum * q.n - q.sum * p.n
                    IN  -MinStep * p.n * q.n < d /\ d < MinStep * p.n * q.n
      Join(out, q) ==
        IF out # <<>> /\ Near(Last(out), q)
        THEN LET p == Last(out)
             IN  Front(out) \o <<[start |-> p.start, end |-> q.end,
                                  n |-> p.n + q.n, sum |-> p.sum + q.sum]>>
        ELSE Append(out, q)
  IN  FoldLeft(Join, <<>>, [i \in 1 .. Cardinality(Begin) |->
                              Spell(SetToSortSeq(Begin, <)[i])])

(* _queue_seconds with no loader tracked: loading is the last stop of at least
   MinLoad, or the last stop. *)
LoadingStop(stops) ==
  LET Long(k) == stops[k].end - stops[k].start >= MinLoad
  IN  Max(Latest({k \in DOMAIN stops : Long(k)}) \cup
          {IF \E k \in DOMAIN stops : Long(k) THEN 0 ELSE Len(stops)})

QueueSeconds(stops) ==
  LET WaitBefore(k) == IF k <= 1 THEN 0 ELSE stops[k - 1].end - stops[1].start
  IN  WaitBefore(LoadingStop(stops))

CanOpen(f, v, known, opensFrom) ==
  /\ v.enter >= opensFrom
  /\ v.enter > Min(DOMAIN f) \/ known

(* The cycle from load visit v to the next one, w, with dump visit d between. *)
CycleOf(v, w, d, queue) ==
  [start |-> v.enter, end |-> w.enter, queue |-> queue,
   load |-> Max({0, v.exit - v.enter - queue}), haul |-> d.enter - v.exit,
   dump |-> d.exit - d.enter, return |-> w.enter - d.exit]

CyclesAmong(f, loads, dumps, known, opensFrom) ==
  LET After(v) == {w \in loads : w.enter > v.enter}
      Next(v) == FirstVisit(After(v))
      Between(v) == {d \in dumps : v.exit <= d.enter /\ d.enter < Next(v).enter}
      closed == {v \in loads : /\ After(v) # {}
                               /\ CanOpen(f, v, known, opensFrom)
                               /\ Next(v).enter - v.enter <= MaxCycle
                               /\ Between(v) # {}}
  IN  {CycleOf(v, Next(v), FirstVisit(Between(v)), QueueSeconds(Stops(f, v))) : v \in closed}

CyclesIn(f, known, opensFrom) ==
  CyclesAmong(f, {v \in Visits(f, "load") : LongEnough(v)},
              {d \in Visits(f, "dump") : LongEnough(d)}, known, opensFrom)

(* Where the next rebuild must restart so that every cycle not final is rebuilt;
   runs are the load visits. *)
ResumeFrom(f, runs, known, opensFrom) ==
  LET last == Max(DOMAIN f)
      inside == InLoad(f[last])
      openers == {v \in runs : LongEnough(v) /\ CanOpen(f, v, known, opensFrom)}
      tail == {v \in runs : /\ \A w \in runs : w.enter <= v.enter
                            /\ inside \/ last - v.exit < MinExit}
      pending == {v \in tail : ~LongEnough(v)}
      MayStillClose(v) == \/ last - v.enter < MaxCycle
                          \/ \E p \in pending : p.enter - v.enter <= MaxCycle
      Entry(v) == [ts |-> v.enter, known |-> TRUE,
                   inside |-> inside /\ LastVisit(runs).enter = v.enter]
      opening == {p \in pending : CanOpen(f, p, known, opensFrom)}
  IN  IF openers # {} /\ MayStillClose(LastVisit(openers)) THEN Entry(LastVisit(openers))
      ELSE IF opening # {} THEN Entry(LastVisit(opening))
      ELSE [ts |-> last, known |-> FALSE, inside |-> FALSE]

-----------------------------------------------------------------------------
(* cycles/metrics.py: per bucket of the fixes, the time from each fix to the
   next one (a longer gap than a bucket is an offline stretch) and the cycles
   that end in it. *)
Metrics(f, ends) ==
  LET Gap(t) == {u - t : u \in Earliest({w \in DOMAIN f : w > t})}
      Timed(b) == {t \in DOMAIN f : FloorBucket(t) = b /\ \A d \in Gap(t) : d <= BucketS}
  IN  [b \in {FloorBucket(t) : t \in DOMAIN f} |->
         [loads |-> Cardinality({e \in ends : FloorBucket(e) = b}),
          timed |-> MapThenSumSet(LAMBDA t : Max(Gap(t) \cup {0}), Timed(b))]]

-----------------------------------------------------------------------------
(* cycles/recompute.py *)

Stored(S) == [t \in S |-> haulTrack[t]]
FixTimes == DOMAIN haulTrack

(* The fixes from since to until, and the one that ends the runs there. *)
ReadFixes(since, until) ==
  {t \in FixTimes : t >= since /\ (until = NoTime \/ t < until)}
    \cup (IF until = NoTime THEN {} ELSE Earliest({t \in FixTimes : t >= until}))

EntryKnownAt(ts) == \A t \in Latest({u \in FixTimes : u < ts}) : ~InLoad(haulTrack[t])

StartAt(ts) == IF Min(FixTimes) >= ts THEN [from |-> Min(FixTimes), known |-> TRUE]
                                      ELSE [from |-> ts, known |-> FALSE]

MetricsStart(s) ==
  LET m == FloorBucket(s.from)
  IN  IF s.known /\ m < s.from /\ m \in DOMAIN haulBuckets THEN m + BucketS ELSE m

WindowAt(ts) == LET s == StartAt(ts)
                IN  [from |-> s.from, known |-> s.known,
                     metrics |-> MetricsStart(s), open |-> NoTime, held |-> FALSE]

WindowIncremental ==
  LET c == haulCursor
      behind == c.dirty # NoTime /\ c.dirty < c.from + MinVisit
      s == IF behind THEN StartAt(c.dirty - Lookback) ELSE [from |-> c.from, known |-> c.known]
      m == IF c.dirty = NoTime THEN c.metrics
           ELSE Min({c.metrics, FloorBucket(c.dirty) - BucketS})
  IN  IF c.from = NoTime
      THEN WindowAt((IF c.dirty = NoTime THEN Max(FixTimes) ELSE c.dirty) - Lookback)
      ELSE [from |-> s.from, known |-> s.known, metrics |-> m,
            open |-> IF c.dirty = NoTime /\ c.known /\ c.inside THEN c.through ELSE NoTime,
            held |-> FALSE]

NothingNewToRebuild ==
  IF haulCursor.from = NoTime THEN FixTimes = {}
  ELSE haulCursor.dirty = NoTime /\ \A t \in FixTimes : t <= haulCursor.through

StillInOpenVisit(rows, win) ==
  /\ win.open # NoTime /\ rows # {}
  /\ Max(rows) - win.from < MaxCycle
  /\ \A t \in rows : t > win.open => InLoad(haulTrack[t])

(* What is stored once the window is rebuilt from these rows: cycles found in it (none
   where the truck is still in its open visit and nothing is rebuilt), and buckets. *)
Stores(win, end, rows, rebuild, found, resume) ==
  LET readFrom == IF rebuild THEN Min({win.from, win.metrics}) ELSE win.metrics
      kept == {c.end : c \in {d \in haulCycles : /\ d.start < win.from
                                                 /\ d.start >= readFrom - MaxCycle
                                                 /\ d.end >= readFrom}}
      cycles == {c \in found : \A e \in kept : c.start >= e}
      Inside(b, from) == b >= from /\ (end = NoTime \/ b < end)
      old == {b \in DOMAIN haulBuckets : ~Inside(b, win.metrics)}
      Beside(fresh) == [b \in old \cup {n \in DOMAIN fresh : end = NoTime \/ n < end} |->
                          IF b \in old THEN haulBuckets[b] ELSE fresh[b]]
  IN  [cycles |-> IF rebuild THEN {c \in haulCycles : ~Inside(c.start, win.from)} \cup cycles
                             ELSE haulCycles,
       buckets |-> Beside(Metrics(Stored({t \in rows : t >= win.metrics}),
                                  {c.end : c \in cycles} \cup {e \in kept : e >= win.metrics})),
       last |-> IF rows = {} THEN NoTime ELSE Max(rows),
       resume |-> resume]

(* Rebuild cycles and buckets from a window, to the newest fix or to end. *)
Apply(win, end) ==
  LET until == IF end = NoTime THEN NoTime ELSE end + Lookback
      lead == win.from - MinExit
      Analysed(f, rows) ==
        Stores(win, end, rows, TRUE,
               {c \in CyclesIn(f, win.known, win.from) : end = NoTime \/ c.start < end},
               ResumeFrom(f, Visits(f, "load"), win.known, win.from))
      Rebuilt(rows) ==
        Analysed(Stored(Latest({t \in FixTimes : t < lead}) \cup {t \in rows : t >= lead}), rows)
      Read(first) ==
        IF StillInOpenVisit(first, win)
        THEN Stores(win, end, first, FALSE, {}, [ts |-> win.from, known |-> TRUE, inside |-> TRUE])
        ELSE Rebuilt(IF lead < win.metrics THEN ReadFixes(lead, until) ELSE first)
  IN  Read(ReadFixes(win.metrics, until))

Advance(done, clearDirty) ==
  haulCursor' =
    LET c == IF clearDirty THEN [haulCursor EXCEPT !.dirty = NoTime] ELSE haulCursor
    IN  IF done.last = NoTime THEN c
        ELSE [c EXCEPT !.from = done.resume.ts, !.known = done.resume.known,
                       !.inside = done.resume.inside,
                       !.metrics = FloorBucket(done.last - MinVisit - MinExit),
                       !.through = done.last]

Rewrite(done) == haulCycles' = done.cycles /\ haulBuckets' = done.buckets

-----------------------------------------------------------------------------
HaulInit ==
  /\ haulWorld \in HaulWorlds
  /\ haulTrack = <<>> /\ haulCycles = {} /\ haulBuckets = <<>>
  /\ haulCursor = [from |-> NoTime, known |-> FALSE, inside |-> FALSE, metrics |-> NoTime,
                   through |-> NoTime, dirty |-> NoTime]
  /\ haulDemand = NoWindow
  /\ haulBudget = [gaps |-> haulWorld.gaps, late |-> haulWorld.late, demands |-> haulWorld.demands]

(* The truck is not in both kinds of zone within the travel time between them. *)
Feasible(t, x) ==
  ~ \E u \in FixTimes : /\ x.zone # "road" /\ haulTrack[u].zone \notin {x.zone, "road"}
                        /\ u - t < haulWorld.apart /\ t - u < haulWorld.apart

(* A fix is stored and, behind what was computed, lowers the cursor's mark. *)
StoreFix(t, x) ==
  /\ Feasible(t, x)
  /\ haulTrack' = [u \in FixTimes \cup {t} |-> IF u = t THEN x ELSE haulTrack[u]]
  /\ LET c == haulCursor
         late == /\ c.through = NoTime \/ t < c.through
                 /\ c.dirty = NoTime \/ t < c.dirty
     IN  haulCursor' = IF late THEN [c EXCEPT !.dirty = t] ELSE c
  /\ UNCHANGED <<haulWorld, haulCycles, haulBuckets, haulDemand>>

NewFix(t, x) ==
  /\ t \in 1 .. haulWorld.until /\ \A u \in FixTimes : u < t
  /\ haulCursor.through # NoTime => t - haulCursor.through <= haulWorld.ahead
  /\ LET missed == t - 1 - Max(FixTimes \cup {0})
     IN  missed <= haulBudget.gaps /\ haulBudget' = [haulBudget EXCEPT !.gaps = @ - missed]
  /\ StoreFix(t, x)

LateFix(t, x) ==
  /\ haulBudget.late > 0
  /\ t \notin FixTimes /\ \E u \in FixTimes : t < u
  /\ haulBudget' = [haulBudget EXCEPT !.late = @ - 1]
  /\ StoreFix(t, x)

(* refresh: the tick's rebuild; it waits for the lock of an on-demand one (_lock_rebuild). *)
Refresh ==
  /\ ~NothingNewToRebuild /\ ~haulDemand.held
  /\ \E done \in {Apply(WindowIncremental, NoTime)} : Rewrite(done) /\ Advance(done, TRUE)
  /\ UNCHANGED <<haulWorld, haulTrack, haulDemand, haulBudget>>

(* recompute: an on-demand rebuild locks out the tick and takes its window (that of
   "since", or all), ... *)
DemandWindow(start) == WindowAt(IF start = NoTime THEN Min(FixTimes) ELSE start - Lookback)

(* What is asked of the caller: a start within the recorded history that reaches back
   to what the tick has left to rebuild. *)
Requests(start) ==
  start # NoTime => /\ start <= Max(FixTimes)
                    /\ haulCursor.from # NoTime /\ start - Lookback <= haulCursor.from

DemandBegins(start) ==
  /\ haulDemand = NoWindow /\ FixTimes # {} /\ Requests(start)
  /\ haulBudget.demands > 0
  /\ haulBudget' = [haulBudget EXCEPT !.demands = @ - 1]
  /\ haulDemand' = [DemandWindow(start) EXCEPT !.held = TRUE]
  /\ UNCHANGED <<haulWorld, haulTrack, haulCycles, haulBuckets, haulCursor>>

(* The end of the next slice: a whole number of buckets, and none where what is left
   is no longer than one. *)
SliceEnd ==
  LET readFrom == Min({haulDemand.from, haulDemand.metrics})
      limit == Max(FixTimes) - Lookback
  IN  IF limit - readFrom >= ChunkMin THEN FloorBucket(Min({readFrom + ChunkMax, limit}))
      ELSE NoTime

(* ... and rebuilds a slice per transaction, the first in the one that took the window;
   fixes may come before each, ticks between two of them. *)
DemandSlice ==
  /\ haulDemand # NoWindow
  /\ \E end \in {SliceEnd} : \E done \in {Apply(haulDemand, end)} :
       /\ Rewrite(done)
       /\ IF end = NoTime
          THEN Advance(done, FALSE) /\ haulDemand' = NoWindow
          ELSE /\ haulDemand' = [from |-> end, known |-> EntryKnownAt(end),
                                 metrics |-> end, open |-> NoTime, held |-> FALSE]
               /\ UNCHANGED haulCursor
  /\ UNCHANGED <<haulWorld, haulTrack, haulBudget>>

HaulNext ==
  \/ \E t \in 1 .. haulWorld.until, x \in haulWorld.fixes : NewFix(t, x) \/ LateFix(t, x)
  \/ Refresh
  \/ \E s \in DemandFrom : DemandBegins(s)
  \/ DemandSlice

HaulSpec == HaulInit /\ [][HaulNext]_haulVars

-----------------------------------------------------------------------------
UpToDate == FixTimes # {} /\ NothingNewToRebuild /\ haulDemand = NoWindow
Spans(cycles) == {<<c.start, c.end>> : c \in cycles}

(* The stored rows are those a rebuild of the whole history computes: its cycles
   are all, and its buckets. *)
AsRebuilt(all, buckets) ==
  /\ Spans(haulCycles) = Spans(all)
  /\ DOMAIN haulBuckets = DOMAIN buckets
  /\ \A b \in DOMAIN haulBuckets :
       \/ haulBuckets[b] = buckets[b]
       \/ b = Min(DOMAIN haulBuckets) /\ haulBudget.demands < haulWorld.demands
  /\ haulWorld.apart >= MinExit => haulCycles = all

(* Rebuilding a window gives the rows of a whole-history rebuild: whenever the
   cursor is past every fix and nothing is marked, the stored cycles and buckets
   are those of the whole track, however fixes, late fixes, ticks and on-demand
   rebuilds interleaved (analyse_cycles, _window_incremental, _apply).  Two
   exceptions: the segments of a cycle are included where no truck gets from a
   dump zone to a load zone and back within MinExit, and the asset's first bucket
   where no on-demand rebuild has kept it as computed (_metrics_start). *)
RebuildMatchesHistory ==
  UpToDate => \E all \in {CyclesIn(haulTrack, TRUE, NoTime)} :
                AsRebuilt(all, Metrics(haulTrack, {c.end : c \in all}))
=============================================================================
