------------------------------ MODULE MCEdgeNode ------------------------------
(***************************************************************************)
(* The edge node: the camera's frames and the outbox.  The two share no    *)
(* state, so a behaviour moves only the one chosen when it starts, under   *)
(* the fairness its own loop gives.                                        *)
(***************************************************************************)
EXTENDS CameraSource, VisionEdge

VARIABLE moving         \* the part that moves in this behaviour

MCConfigs == {[scene |-> 1, rules |-> 1]}
\* Events over either transport, with lost answers and a restart of the node.
MCBudgets ==
  {[transport |-> "http", configs |-> 0, events |-> 1, boots |-> 2, time |-> 2, posts |-> 2],
   [transport |-> "mqtt", configs |-> 0, events |-> 2, boots |-> 1, time |-> 2, posts |-> 2]}

MCInit ==
  /\ moving \in {"camera", "edge"}
  /\ SourceInit /\ EdgeInit
  /\ moving = "edge" => ~camUp
  /\ moving = "camera" => left.transport = "http"

MCNext ==
  /\ UNCHANGED moving
  /\ \/ moving = "camera" /\ SourceNext /\ UNCHANGED edgeVars
     \/ moving = "edge" /\ EdgeNext /\ UNCHANGED srcVars

MCFairness ==
  \/ moving = "camera" /\ SourceFairness
  \/ moving = "edge" /\ EdgeFairness

MCSpec == MCInit /\ [][MCNext]_<<moving, srcVars, edgeVars>> /\ MCFairness
===============================================================================
