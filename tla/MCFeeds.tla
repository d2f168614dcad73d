-------------------------------- MODULE MCFeeds --------------------------------
(***************************************************************************)
(* What reaches the core from outside: gate terminals, the guards' search  *)
(* desk, trackers, edge nodes, their evidence and video recorders.  The    *)
(* feeds share no state, so a behaviour moves only the one chosen when it  *)
(* starts.                                                                 *)
(***************************************************************************)
EXTENDS GateFeed, GateSearch, TrackerLink, VisionEdge, Evidence, VendorEvents

VARIABLE moving         \* the feed that moves in this behaviour

Feeds == {"gate", "search", "tracker", "edge", "evidence", "vendor"}

\* Terminals that run behind, with the server, ahead, and further ahead than is accepted.
MCSkews == {-1, 0, 1, 3}

\* Scene and rules as first published, another scene, other rules, and no scene.
MCConfigs == {[scene |-> 1, rules |-> 1], [scene |-> 2, rules |-> 1],
              [scene |-> 1, rules |-> 2], [scene |-> 0, rules |-> 1]}
\* Buckets while the configuration changes and the node restarts, also until sent rows are
\* pruned; events over either transport.
MCBudgets ==
  {[transport |-> "http", configs |-> 1, events |-> 0, boots |-> 2, time |-> 4, posts |-> 1],
   [transport |-> "mqtt", configs |-> 2, events |-> 0, boots |-> 1, time |-> 4, posts |-> 0],
   [transport |-> "http", configs |-> 0, events |-> 1, boots |-> 2, time |-> 2, posts |-> 2],
   [transport |-> "mqtt", configs |-> 0, events |-> 2, boots |-> 1, time |-> 2, posts |-> 2]}

MCInit ==
  /\ moving \in Feeds
  /\ GateInit /\ SearchInit /\ TrackerInit /\ EdgeInit /\ EvidenceInit /\ VendorInit
  /\ coreConfig = [scene |-> 1, rules |-> 1]
  /\ moving # "tracker" => trkBinding = Unbound
  /\ moving # "edge" => left.configs = 1
  /\ moving # "evidence" => evMode = "s3"

Still(feedName, state) == moving = feedName \/ UNCHANGED state

MCNext ==
  /\ UNCHANGED moving
  /\ Still("gate", gateVars) /\ Still("search", searchVars) /\ Still("tracker", trkVars)
  /\ Still("edge", edgeVars) /\ Still("evidence", evVars) /\ Still("vendor", nvrVars)
  /\ \/ moving = "gate" /\ GateNext
     \/ moving = "search" /\ SearchNext
     \/ moving = "tracker" /\ TrackerNext
     \/ moving = "edge" /\ EdgeNext
     \/ moving = "evidence" /\ EvidenceNext
     \/ moving = "vendor" /\ VendorNext

MCSpec == MCInit /\ [][MCNext]_<<moving, gateVars, searchVars, trkVars, edgeVars, evVars, nvrVars>>
================================================================================
