------------------------------- MODULE MCTracks -------------------------------
(***************************************************************************)
(* The algorithms that turn a history into transitions, events and cycles, *)
(* each against a reference definition over every short history.  They     *)
(* share no state, so a behaviour moves only the one chosen when it        *)
(* starts.                                                                 *)
(***************************************************************************)
EXTENDS ZoneTracks, VisionRules, HaulCycles

VARIABLE moving         \* the algorithm that runs in this behaviour

Algorithms == {"zones", "rules", "cycles"}

\* Inside the zone a speed the overspeed rule counts, one the dwell rule counts (each breaks
\* the other's spell, as a normal speed breaks both) and none at all; in the band and beyond
\* it a speed that keeps a spell going or breaks one.
MCSightings ==
  [loc : {"in"}, speed : Speeds \ {"normal"}] \cup
  {[loc |-> "band", speed |-> "slow"], [loc |-> "out", speed |-> "over"]}

\* Rows a release without reject_if_future left behind: a watermark in the future, halfway
\* through an entry or inside with a dwell episode opened by the same clock.
Future == MaxNow + MaxSkew + 2
LegacyRows ==
  {[FreshState EXCEPT !.last_ts = Future, !.consec_in = 1, !.entered_at = Future],
   [FreshState EXCEPT !.last_ts = Future, !.inside = TRUE, !.consec_in = 2,
                      !.entered_at = Future, !.stationary_since = Future]}

MCPlaces == {{}, {"z1"}}
MCRules == {[rule |-> "r", version |-> 1], [rule |-> "q", version |-> 1]}

\* Standing at the loader or the dump, on the road, and two spots of the loading zone far
\* enough apart to be a step with one between them.
AtLoad == [zone |-> "load", moving |-> FALSE, spot |-> 0]
AtDump == [zone |-> "dump", moving |-> FALSE, spot |-> 0]
OnRoad == [zone |-> "road", moving |-> TRUE, spot |-> 0]
WithinLoad == {[zone |-> "load", moving |-> FALSE, spot |-> 10],
               [zone |-> "load", moving |-> TRUE, spot |-> 5]}

\* Ticks and a late fix over every pattern of gaps.
GapTrack == [fixes |-> {AtLoad, AtDump}, until |-> 6, gaps |-> 6, ahead |-> 6, apart |-> 0,
             visit |-> 1, exit |-> 1, cap |-> 2, late |-> 1, demands |-> 0]
\* A late fix that restarts the rebuild inside a track longer than the lookback.
RestartTrack == [GapTrack EXCEPT !.until = 9, !.gaps = 1, !.ahead = 9, !.visit = 2, !.cap = 4]
\* An on-demand rebuild of up to three slices, from the first fix or a later time, with
\* fixes and ticks between its slices; ...
SlicedTrack == [GapTrack EXCEPT !.until = 8, !.gaps = 0, !.ahead = 8, !.late = 0, !.demands = 1]
\* ... with visits that end only at the second fix outside; ...
SlicedLongTrack == [SlicedTrack EXCEPT !.until = 9, !.ahead = 9, !.exit = 2, !.cap = 3]
\* ... and with a late fix before, between and after the slices, where ingest is ahead of
\* the cursor by no more than a visit and an exit.
SlicedLateTrack == [SlicedTrack EXCEPT !.until = 7, !.gaps = 1, !.ahead = 2, !.late = 1]
\* Time on the road, and moves inside the loading zone.
RoadTrack == [GapTrack EXCEPT !.fixes = {AtLoad, AtDump, OnRoad}, !.apart = 2, !.exit = 2,
                              !.cap = 4, !.late = 0]
MovesTrack == [GapTrack EXCEPT !.fixes = {AtLoad, AtDump} \cup WithinLoad, !.until = 5,
                               !.exit = 2, !.cap = 5, !.late = 0]

MCWorlds == {GapTrack, RestartTrack, SlicedTrack, SlicedLongTrack, SlicedLateTrack, RoadTrack,
             MovesTrack}

MCInit ==
  /\ moving \in Algorithms
  /\ TrackInit /\ RulesInit /\ HaulInit
  /\ moving # "zones" => trackState = FreshState
  /\ moving # "cycles" => haulWorld = GapTrack

Still(algorithm, state) == moving = algorithm \/ UNCHANGED state

MCNext ==
  /\ UNCHANGED moving
  /\ Still("zones", trackVars) /\ Still("rules", rulesVars) /\ Still("cycles", haulVars)
  /\ \/ moving = "zones" /\ TrackNext
     \/ moving = "rules" /\ RulesNext
     \/ moving = "cycles" /\ HaulNext

MCSpec == MCInit /\ [][MCNext]_<<moving, trackVars, rulesVars, haulVars>>
===============================================================================
