------------------------------- MODULE MCAlarms -------------------------------
(***************************************************************************)
(* The alarms the core raises by itself: zone rules evaluated on fixes     *)
(* that arrive over racing transports, breach deadlines, and conditions    *)
(* that go on.  The parts share no state, so a behaviour moves only the    *)
(* one chosen when it starts; the maintenance tick is fair.                *)
(***************************************************************************)
EXTENDS ZonePipeline, Breaches, ConditionAlarms

VARIABLE moving         \* the part that moves in this behaviour

\* Rows a release without reject_if_future left behind: a watermark in the future, outside,
\* halfway through an entry, or inside with a dwell episode opened by the same clock.
Future == MaxNow + MaxSkew + 2
LegacyRows ==
  {[FreshState EXCEPT !.last_ts = Future],
   [FreshState EXCEPT !.last_ts = Future, !.consec_in = 1, !.entered_at = Future],
   [FreshState EXCEPT !.last_ts = Future, !.inside = TRUE, !.consec_in = 2,
                      !.entered_at = Future, !.stationary_since = Future]}

MCNoticeAfter == [regulator |-> 1, individuals |-> 2]
MCCaps == {NoCap, 1}

\* The parts that do not move start in one state.
MCInit ==
  /\ moving \in {"zones", "breaches", "conditions"}
  /\ Init /\ BreachInit /\ ConditionInit
  /\ moving # "zones" => zs = FreshState
  /\ moving # "conditions" => condKind = "asset" /\ condZone.cap = NoCap

MCNext ==
  /\ UNCHANGED moving
  /\ \/ moving = "zones" /\ Next /\ UNCHANGED <<breachVars, condVars>>
     \/ moving = "breaches" /\ BreachNext /\ UNCHANGED <<vars, condVars>>
     \/ moving = "conditions" /\ ConditionNext /\ UNCHANGED <<vars, breachVars>>

MCFairness ==
  \/ moving = "zones"
  \/ moving = "breaches" /\ BreachFairness
  \/ moving = "conditions" /\ WF_condVars(Detector)

MCSpec == MCInit /\ [][MCNext]_<<moving, vars, breachVars, condVars>> /\ MCFairness
===============================================================================
