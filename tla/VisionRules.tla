------------------------------- MODULE VisionRules ------------------------------
(***************************************************************************)
(* What an edge node makes of the frames of one camera: the tracker gives  *)
(* detections a persistent identity (vision/tracker.py), the temporal      *)
(* engine turns tracked presence in an image zone into operational events  *)
(* (vision/temporal.py), and a change of rules rebuilds the engine and     *)
(* keeps the tracks (EdgeRuntime, EdgeNode._rebuild_camera).  Which box    *)
(* overlaps which is geometry: a detection is matched to its own subject's *)
(* track.                                                                  *)
(***************************************************************************)
EXTENDS Naturals, Sequences, FiniteSets

CONSTANTS Subjects,        \* people and machines in view
          ImageZones,      \* the camera's image zones of a kind the rules watch
          Places,          \* sets of image zones a subject can stand in at once
          RuleVersions,    \* active rule versions: [rule, version]
          MinObservations, MinDwell, Hysteresis, Cooldown, Window,   \* their parameters
          MinHits, MaxMissed,    \* the tracker's
          Gaps,            \* time from one frame to the next
          MaxFrames,       \* bound: frames
          MaxRebuilds      \* bound: rebuilds of the engine

ASSUME VisionRulesAssumption ==
  /\ IsFiniteSet(RuleVersions)
  /\ MinObservations \in Nat \ {0}
  /\ MinDwell \in Nat /\ Hysteresis \in Nat /\ Cooldown \in Nat /\ Window \in Nat
  /\ Gaps \subseteq Nat \ {0}

VARIABLES tracks,     \* Tracker._tracks by subject; num 0 for none
          nextNum,    \* Tracker._next
          streak,     \* TemporalEngine._state
          lastFired,  \* TemporalEngine._last_fired
          seen,       \* history: the observations
          events,     \* history: the events fired
          rebuilds    \* history: how many observations each rebuild came after

rulesVars == <<tracks, nextNum, streak, lastFired, seen, events, rebuilds>>

NoTrack == [num |-> 0, hits |-> 0, missed |-> 0, confirmed |-> FALSE]
NewStreak == [streakIn |-> 0, start |-> 0, confirmed |-> FALSE, since |-> 0, streakOut |-> 0,
              fired |-> FALSE, lastSeen |-> 0]

RulesInit ==
  /\ tracks = [s \in Subjects |-> NoTrack] /\ nextNum = 1
  /\ streak = <<>> /\ lastFired = <<>> /\ seen = <<>> /\ events = {} /\ rebuilds = {}

Now == IF seen = <<>> THEN 0 ELSE seen[Len(seen)].ts

--------------------------------------------------------------------------------
\* Tracker.update, for a frame with the given detections: "high", "low" or "none" by subject.

Matched(s, det) == /\ tracks[s].num # 0
                   /\ det[s] = "high" \/ (det[s] = "low" /\ tracks[s].confirmed)

Corrected(t) == [t EXCEPT !.hits = @ + 1, !.missed = 0, !.confirmed = @ \/ t.hits + 1 >= MinHits]

\* A tentative track that misses a frame goes, a confirmed one coasts.
Coasted(t) == IF t.confirmed /\ t.missed + 1 <= MaxMissed
              THEN [t EXCEPT !.missed = @ + 1] ELSE NoTrack

\* The elements of a set in some order.
Ordered(S) == CHOOSE q \in [1..Cardinality(S) -> S] : \A i, j \in DOMAIN q : i # j => q[i] # q[j]

\* Subjects that start a track, and the number each gets.
Newcomers(det) == {s \in Subjects : tracks[s].num = 0 /\ det[s] = "high"}
Number(s, order) == nextNum - 1 + CHOOSE i \in DOMAIN order : order[i] = s

Updated(det, order) ==
  [s \in Subjects |->
     IF Matched(s, det) THEN Corrected(tracks[s])
     ELSE IF s \in Newcomers(det)
          THEN [NoTrack EXCEPT !.num = Number(s, order), !.hits = 1, !.confirmed = MinHits <= 1]
          ELSE IF tracks[s].num # 0 THEN Coasted(tracks[s]) ELSE NoTrack]

\* The confirmed tracks of a frame with confidence above the rules' threshold, by zones.
InFrame(det, place) ==
  LET new(s) == IF Matched(s, det) THEN Corrected(tracks[s]) ELSE NoTrack
      shown == {s \in Subjects : det[s] = "high" /\ new(s).confirmed}
  IN  [n \in {tracks[s].num : s \in shown} |-> place[CHOOSE s \in shown : tracks[s].num = n]]

--------------------------------------------------------------------------------
\* TemporalEngine, presence rules.  A key is <<rule, track, zone>>.

Key(v, n, z) == <<v.rule, n, z>>

\* _advance by a hit.
Hit(st, ts) ==
  LET start == IF st.confirmed \/ st.streakIn > 0 THEN st.start ELSE ts
      count == IF st.confirmed THEN st.streakIn ELSE st.streakIn + 1
      conf  == st.confirmed \/ count >= MinObservations
  IN  [st EXCEPT !.lastSeen = ts, !.streakOut = 0, !.streakIn = count, !.start = start,
                 !.confirmed = conf, !.since = IF st.confirmed THEN st.since ELSE start]

\* How many misses in a row release a confirmed presence, and how long one unseen is kept.
Release == IF Hysteresis > 1 THEN Hysteresis ELSE 1
Kept == IF Window > 1 THEN Window ELSE 1

\* _advance by a miss: an unconfirmed presence is over, a confirmed one after Release misses.
Miss(st, ts) ==
  IF ~st.confirmed \/ st.streakOut + 1 >= Release
  THEN [NewStreak EXCEPT !.lastSeen = ts]
  ELSE [st EXCEPT !.streakOut = @ + 1, !.lastSeen = ts]

\* Whether the advanced streak concludes; a presence is concluded once.
Due(st, ts) == st.confirmed /\ ~st.fired /\ ts - st.since >= MinDwell
Concluded(st, ts) == IF Due(st, ts) THEN [st EXCEPT !.fired = TRUE] ELSE st

\* Mutant: the cooldown never ends.
EverFired(last, k, ts) == k \in DOMAIN last

\* _fire: within the cooldown the presence is concluded without an event.
Suppressed(last, k, ts) == k \in DOMAIN last /\ ts - last[k] < Cooldown

\* The keys of a version an observation hits; and whether it misses a key: the track was seen,
\* but not in the zone.
HitsOf(v, objs) == {k \in {v.rule} \X (DOMAIN objs) \X ImageZones : k[3] \in objs[k[2]]}
MissedBy(k, v, objs) == k[1] = v.rule /\ k[2] \in DOMAIN objs /\ k[3] \notin objs[k[2]]

\* The streak of a key after a hit, started where there is none (setdefault).
HitStreak(state, k, ts) == Hit(IF k \in DOMAIN state THEN state[k] ELSE NewStreak, ts)

\* One rule version over an observation (_presence): its hits, then its misses.  eng is the
\* engine's state and the events of this frame.
Presence(eng, v, objs, ts) ==
  LET hits == HitsOf(v, objs)
      fires == {k \in hits : /\ Due(HitStreak(eng.streak, k, ts), ts)
                            /\ ~Suppressed(eng.last, k, ts)}
  IN  [streak |-> [k \in DOMAIN eng.streak \cup hits |->
                     IF k \in hits THEN Concluded(HitStreak(eng.streak, k, ts), ts)
                     ELSE IF MissedBy(k, v, objs) THEN Miss(eng.streak[k], ts) ELSE eng.streak[k]],
       last |-> [k \in DOMAIN eng.last \cup fires |-> IF k \in fires THEN ts ELSE eng.last[k]],
       fired |-> eng.fired \cup
                   {[version |-> v, track |-> k[2], zone |-> k[3],
                     since |-> HitStreak(eng.streak, k, ts).since, ts |-> ts] : k \in fires}]

\* Every active version in turn (TemporalEngine.step).
Stepped(objs, ts) ==
  LET rules == Ordered(RuleVersions)
      eng[i \in 0..Len(rules)] ==
        IF i = 0 THEN [streak |-> streak, last |-> lastFired, fired |-> {}]
        ELSE Presence(eng[i - 1], rules[i], objs, ts)
  IN  eng[Len(rules)]

\* _expire: a track unseen for longer than the window is forgotten.
Expired(st, ts) == [k \in {x \in DOMAIN st : ts - st[x].lastSeen <= Kept} |-> st[k]]

\* EdgeRuntime.process for a frame: tracker, observation, rules, _expire.
Frame(det, place, gap) ==
  LET ts    == Now + gap
      objs  == InFrame(det, place)
      order == Ordered(Newcomers(det))
      done  == Stepped(objs, ts)
  IN /\ Len(seen) < MaxFrames
     /\ tracks' = Updated(det, order) /\ nextNum' = nextNum + Len(order)
     /\ streak' = Expired(done.streak, ts) /\ lastFired' = done.last
     /\ events' = events \cup done.fired
     /\ seen' = Append(seen, [ts |-> ts, objs |-> objs])
     /\ UNCHANGED rebuilds

\* _rebuild_camera after a change of rules or zone policy: tracks are kept, the engine is new.
RebuildEngine ==
  /\ Cardinality(rebuilds) < MaxRebuilds /\ seen # <<>> /\ Len(seen) \notin rebuilds
  /\ streak' = <<>> /\ lastFired' = <<>> /\ rebuilds' = rebuilds \cup {Len(seen)}
  /\ UNCHANGED <<tracks, nextNum, seen, events>>

RulesNext ==
  \/ \E det \in [Subjects -> {"none", "low", "high"}], gap \in Gaps :
       \E place \in [Subjects -> Places] :
         /\ \A s \in Subjects : det[s] # "high" => place[s] = {}
         /\ Frame(det, place, gap)
  \/ RebuildEngine

RulesSpec == RulesInit /\ [][RulesNext]_rulesVars

--------------------------------------------------------------------------------
\* What the rules promise, told from the observations alone.

IsHit(i, n, z) == n \in DOMAIN seen[i].objs /\ z \in seen[i].objs[n]
IsMiss(i, n, z) == n \in DOMAIN seen[i].objs /\ z \notin seen[i].objs[n]
HitsIn(i, j, n, z) == {m \in i..j : IsHit(m, n, z)}
MissesIn(i, j, n, z) == {m \in i..j : IsMiss(m, n, z)}

\* The observations of i..j that the engine took for the track, hits and misses.
Touched(i, j, n) == {m \in i..j : n \in DOMAIN seen[m].objs}

\* A presence that has gone on since i is still held at m: its track was seen within the window,
\* and too few misses follow its last hit to release it.
Held(i, m, n, z) ==
  /\ \E a \in Touched(i, m, n) : seen[m].ts - seen[a].ts <= Kept
  /\ \E a \in HitsIn(i, m, n, z) : Cardinality(MissesIn(a, m, n, z)) < Release

\* From i to j the presence is never interrupted, nor the engine rebuilt.
Unbroken(i, j, n, z) ==
  rebuilds \cap (i..(j - 1)) = {} /\ \A m \in i..j : Held(i, m, n, z)

\* Of that presence, the first MinObservations hits follow each other without a miss.
Established(i, j, n, z) ==
  \E m \in i..j : /\ Cardinality(HitsIn(i, m, n, z)) = MinObservations
                  /\ MissesIn(i, m, n, z) = {}

Concludes(i, j, n, z) ==
  /\ IsHit(i, n, z) /\ IsHit(j, n, z) /\ Unbroken(i, j, n, z) /\ Established(i, j, n, z)
  /\ seen[j].ts - seen[i].ts >= MinDwell

IndexOf(ts) == CHOOSE i \in DOMAIN seen : seen[i].ts = ts

\* An event is earned: behind it stands one unbroken presence of its track in its zone, of
\* MinObservations hits and the dwell, and no other event of that presence or of the cooldown
\* before, unless a change of rules has restarted the engine in between.
EventsEarned ==
  \A e \in events :
    /\ Concludes(IndexOf(e.since), IndexOf(e.ts), e.track, e.zone)
    /\ \A d \in events :
         (d # e /\ d.version = e.version /\ d.track = e.track /\ d.zone = e.zone /\ d.ts <= e.ts) =>
            \/ e.ts - d.ts >= Cooldown /\ ~Unbroken(IndexOf(d.ts), IndexOf(e.since), e.track, e.zone)
            \/ rebuilds \cap (IndexOf(d.ts)..(IndexOf(e.ts) - 1)) # {}

\* No presence goes unreported: where one has lasted long enough, an event of the track and
\* zone was fired in it, since it began at h, or less than a cooldown before it was due, by
\* the same engine.
PresenceReported ==
  \A n \in 1..(nextNum - 1), z \in ImageZones, v \in RuleVersions : \A i, j \in DOMAIN seen :
    (i <= j /\ Concludes(i, j, n, z)) =>
      \E e \in events, h \in 1..i :
        /\ e.version = v /\ e.track = n /\ e.zone = z /\ e.ts <= seen[j].ts
        /\ Unbroken(h, j, n, z)
        /\ \/ e.ts >= seen[h].ts
           \/ \E m \in h..j : /\ Concludes(h, m, n, z) /\ seen[m].ts - e.ts < Cooldown
                             /\ rebuilds \cap (IndexOf(e.ts)..(m - 1)) = {}

\* At most one version of a rule is active.  Nothing refuses a second one, and versions of a
\* rule share their streaks: see EventsFromEnoughFrames.
OneVersionPerRule == \A v, w \in RuleVersions : v.rule = w.rule => v = w

\* The rules report every presence that lasts, and nothing else (TemporalEngine.step), where
\* one version of each is active.
EventsExact == OneVersionPerRule => EventsEarned /\ PresenceReported

\* What vision/temporal.py says of any rules: a condition is confirmed only after
\* min_observations consecutive observations, never from one frame.
EventsFromEnoughFrames ==
  \A e \in events :
    Cardinality({i \in DOMAIN seen : /\ e.since <= seen[i].ts /\ seen[i].ts <= e.ts
                                     /\ IsHit(i, e.track, e.zone)}) >= MinObservations
================================================================================
