------------------------------ MODULE ZoneTracks ------------------------------
(***************************************************************************)
(* What zone and rule processing makes of a whole track: the fixes of one  *)
(* asset, one transaction after the other, with gaps, late and duplicate   *)
(* fixes, and rows an older release left.  ZonePipeline shows that         *)
(* concurrent transports take turns like this.                             *)
(***************************************************************************)
EXTENDS ZoneEngine, FiniteSets

CONSTANT Sightings      \* the [loc, speed] pairs the fixes of this instance carry

\* A row written before ingest rejected fixes from the future: its watermark is one, and a
\* dwell episode was opened by the same clock.  No spell over the limit is open, which
\* processing would go on counting.
LegacyRow(st) ==
  /\ st.last_ts > MaxNow + MaxSkew
  /\ st.overspeed_consec = 0 /\ ~st.overspeed_fired
  /\ IF st.inside /\ st.stationary_since # None
       THEN st.stationary_since > MaxNow + MaxSkew
       ELSE st.stationary_since = None /\ ~st.dwell_fired

ASSUME TrackAssumption ==
  /\ Sightings \subseteq [loc : Locations, speed : Speeds]
  /\ MaxNow \in Nat \ {0}
  /\ LegacyStates \subseteq ZoneState /\ \A st \in LegacyStates : LegacyRow(st)

VARIABLES trackNow,     \* the server's clock
          trackTimes,   \* timestamps stored for the asset
          trackState,   \* the asset's row in asset_zone_state
          trackRaised,  \* alarms raised: type and timestamp
          track         \* history: the fixes live rules evaluated, in order

trackVars == <<trackNow, trackTimes, trackState, trackRaised, track>>

TrackInit ==
  /\ trackNow = 1 /\ trackTimes = {} /\ trackRaised = {} /\ track = <<>>
  /\ trackState \in {FreshState} \cup LegacyStates

TrackTick == /\ trackNow < MaxNow /\ trackNow' = trackNow + 1
             /\ UNCHANGED <<trackTimes, trackState, trackRaised, track>>

\* store_and_process of a fix that reject_if_future lets through: a duplicate and a fix
\* behind the watermark leave the zone state alone.
StoreAndProcess(f) ==
  /\ f.ts <= trackNow + MaxSkew /\ f.ts \notin trackTimes
  /\ trackTimes' = trackTimes \cup {f.ts}
  /\ IF Skipped(trackState, f, trackNow)
       THEN UNCHANGED <<trackState, trackRaised, track>>
       ELSE LET e == Evaluate(trackState, f, trackNow)
            IN  /\ trackState' = e.st
                /\ trackRaised' = trackRaised \cup {[type |-> t, ts |-> f.ts] : t \in e.events}
                /\ track' = Append(track, [ts |-> f.ts, loc |-> f.loc, speed |-> f.speed,
                                           inside |-> e.st.inside])
  /\ UNCHANGED trackNow

TrackNext == \/ TrackTick
             \/ \E t \in 1 .. MaxNow + MaxSkew, s \in Sightings :
                  StoreAndProcess([ts |-> t, loc |-> s.loc, speed |-> s.speed])

TrackSpec == TrackInit /\ [][TrackNext]_trackVars

-----------------------------------------------------------------------------
(* Reference definitions over the evaluated fixes, from the module comments of *)
(* zones/engine.py and rules/evaluate.py.                                      *)

\* Fixes i .. j follow each other without a silence longer than MaxGap or a step back.
Consecutive(i, j) ==
  \A k \in i + 1 .. j : track[k].ts >= track[k - 1].ts /\ track[k].ts - track[k - 1].ts <= MaxGap

\* A run of consecutive fixes truly inside ends at j, long enough to confirm an entry.
EntryDue(j) ==
  LET Run == {i \in 1 .. j : Consecutive(i, j) /\ \A k \in i .. j : track[k].loc = "in"}
  IN  \E i \in Run : /\ \A h \in Run : i <= h
                     /\ j - i + 1 >= DebounceIn
                     /\ track[j].ts - track[i].ts >= MinEntryDwell

\* Enough consecutive fixes beyond the band, none inside among them.
ExitDue(j) ==
  \E i \in 1 .. j : /\ Consecutive(i, j) /\ \A k \in i .. j : track[k].loc # "in"
                   /\ Cardinality({k \in i .. j : track[k].loc = "out"}) >= ExitDebounce

\* The debounce machine confirms an entry or an exit exactly when its documentation says:
\* never for jitter, never across a silence, never late.
TransitionsExact ==
  \A j \in 2 .. Len(track) :
    track[j].inside = IF track[j - 1].inside THEN ~ExitDue(j) ELSE EntryDue(j)

Raised(type, j) == [type |-> type, ts |-> track[j].ts] \in trackRaised

\* i .. j lies within one visit and one spell of speeds in S.
Spell(S, i, j) == \A k \in i .. j : track[k].inside /\ track[k].speed \in S

\* Overspeed: the N-th consecutive fix over the limit, once per spell over the limit.
OverspeedDue(j) ==
  /\ j >= OverspeedConsecutive
  /\ Spell({"over"}, j - OverspeedConsecutive + 1, j)
  /\ ~ \E i \in 1 .. j - 1 : Spell({"over", "none"}, i, j) /\ Raised("overspeed", i)

\* Dwell: standing still in the zone for DwellS, once per spell.
DwellDue(j) ==
  /\ \E i \in 1 .. j - 1 : /\ Spell({"slow", "none"}, i, j)
                          /\ track[i].speed = "slow" /\ track[j].speed = "slow"
                          /\ track[j].ts - track[i].ts >= DwellS
  /\ ~ \E i \in 1 .. j - 1 : Spell({"slow", "none"}, i, j) /\ Raised("zone_dwell", i)

\* An alarm is raised exactly when its rule is due: a spell raises one alarm and no more,
\* and a new visit or a new spell raises its own.
AlarmsExact ==
  \A j \in DOMAIN track :
    /\ Raised("overspeed", j) <=> OverspeedDue(j)
    /\ Raised("zone_dwell", j) <=> DwellDue(j)
    /\ j > 1 => (Raised("zone_breach", j) <=> track[j].inside /\ ~track[j - 1].inside)

\* The visits and the alarms of a track are exactly those its evaluated fixes earn: no
\* jitter, silence, missing speed or late fix makes, hides or repeats one (zones/engine.py,
\* rules/evaluate.py).
TrackTold == TransitionsExact /\ AlarmsExact
===============================================================================
