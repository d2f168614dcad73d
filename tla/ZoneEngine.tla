------------------------------ MODULE ZoneEngine ------------------------------
(***************************************************************************)
(* The pure part of zone and rule processing for one asset in one zone:    *)
(* the debounce and hysteresis machine (zones/engine.py), the rules on a   *)
(* confirmed entry and on a fix inside (rules/evaluate.py) and the         *)
(* watermark around them (pipeline.py).  A location is "in" the polygon,   *)
(* in the hysteresis "band" around it, or "out" beyond the band; a speed   *)
(* is unknown ("none"), "slow" (below STATIONARY_KPH), "normal", or "over" *)
(* the zone's limit.                                                       *)
(***************************************************************************)
EXTENDS Integers, Sequences

CONSTANTS DebounceIn, ExitDebounce, MinEntryDwell,  \* RuleConfig
          OverspeedConsecutive, DwellS,
          MaxGap,       \* offline_threshold_s: fixes further apart are not consecutive
          MaxSkew,      \* max_future_skew_s
          MaxNow,       \* bound: server time
          LegacyStates  \* rows an older release may have left in asset_zone_state

ASSUME RuleAssumption ==
  /\ DebounceIn \in Nat \ {0} /\ ExitDebounce \in Nat \ {0} /\ MinEntryDwell \in Nat
  /\ OverspeedConsecutive \in Nat \ {0} /\ DwellS \in Nat
  /\ MaxGap \in Nat /\ MaxSkew \in Nat

None == 0                               \* SQL NULL in a timestamp column
Locations == {"in", "band", "out"}
Speeds == {"none", "slow", "normal", "over"}

AlarmTypes == {"zone_breach", "overspeed", "zone_dwell"}

\* AssetZoneState: the columns of a row of asset_zone_state.
ZoneState ==
  [inside : BOOLEAN, consec_in : Nat, consec_out : Nat, entered_at : Int, last_ts : Int,
   overspeed_consec : Nat, overspeed_fired : BOOLEAN,
   stationary_since : Int, dwell_fired : BOOLEAN]

\* get_or_create_state: a row of asset_zone_state as it is created.
FreshState ==
  [inside |-> FALSE, consec_in |-> 0, consec_out |-> 0, entered_at |-> None, last_ts |-> None,
   overspeed_consec |-> 0, overspeed_fired |-> FALSE,
   stationary_since |-> None, dwell_fired |-> FALSE]

\* Mutant: fixes either side of a long silence still count as consecutive.
IgnoreGap(st, ts) == [st EXCEPT !.consec_in = @]

\* engine.step, first part: a fix behind the last one or after a long silence is
\* not consecutive with it.
BreakRun(st, ts) ==
  IF st.last_ts # None /\ (ts < st.last_ts \/ ts - st.last_ts > MaxGap)
    THEN [st EXCEPT !.consec_in = 0, !.consec_out = 0]
    ELSE st

\* Second part: count the fix.
CountFix(st, fix) ==
  IF fix.loc = "in"
    THEN [st EXCEPT
            !.entered_at = IF ~st.inside /\ (st.consec_in = 0 \/ @ = None) THEN fix.ts ELSE @,
            !.consec_in = @ + 1, !.consec_out = 0]
    ELSE [st EXCEPT
            !.consec_in = 0,
            !.consec_out = IF fix.loc = "out" THEN @ + 1 ELSE @]

Confirmed(st, ts) == /\ st.consec_in >= DebounceIn
                     /\ st.entered_at # None
                     /\ ts - st.entered_at >= MinEntryDwell

\* A confirmed exit: the next visit starts with fresh per-episode rule state.
Exited(st) == [FreshState EXCEPT !.consec_out = st.consec_out, !.last_ts = st.last_ts]

\* engine.step: the new state, and the confirmed transition.
Step(st, fix) ==
  LET c == CountFix(BreakRun(st, fix.ts), fix)
  IN  IF ~c.inside
        THEN IF Confirmed(c, fix.ts)
               THEN [st |-> [c EXCEPT !.inside = TRUE, !.consec_out = 0], transition |-> "entry"]
               ELSE [st |-> c, transition |-> "none"]
        ELSE IF c.consec_out >= ExitDebounce
               THEN [st |-> Exited(c), transition |-> "exit"]
               ELSE [st |-> c, transition |-> "none"]

\* on_inzone_fix, the overspeed rule: one alarm per spell over the limit.
Overspeed(st, fix) ==
  LET n == st.overspeed_consec + 1
      fires == n >= OverspeedConsecutive /\ ~st.overspeed_fired
  IN  CASE fix.speed = "none" -> [st |-> [st EXCEPT !.overspeed_consec = 0], events |-> {}]
        [] fix.speed = "over" ->
             [st |-> [st EXCEPT !.overspeed_consec = n, !.overspeed_fired = @ \/ fires],
              events |-> IF fires THEN {"overspeed"} ELSE {}]
        [] OTHER ->
             [st |-> [st EXCEPT !.overspeed_consec = 0, !.overspeed_fired = FALSE], events |-> {}]

\* on_inzone_fix, the dwell rule: one alarm per spell of standing still.  A fix of
\* unknown speed changes nothing.
Dwell(st, fix) ==
  LET fires == /\ st.stationary_since # None /\ ~st.dwell_fired
               /\ fix.ts - st.stationary_since >= DwellS
  IN  CASE fix.speed = "slow" /\ st.stationary_since = None ->
             [st |-> [st EXCEPT !.stationary_since = fix.ts], events |-> {}]
        [] fix.speed = "slow" /\ fires ->
             [st |-> [st EXCEPT !.dwell_fired = TRUE], events |-> {"zone_dwell"}]
        [] fix.speed \in {"normal", "over"} ->
             [st |-> [st EXCEPT !.stationary_since = None, !.dwell_fired = FALSE], events |-> {}]
        [] OTHER -> [st |-> st, events |-> {}]

\* Mutant: a watermark in the future is trusted like any other.
FutureWatermarkTrusted(st, fix, recv) == st.last_ts # None /\ fix.ts <= st.last_ts

\* process_position, the watermark: what it does with a fix received at recv.
FutureWatermark(st, recv) == st.last_ts # None /\ st.last_ts > recv + MaxSkew
Skipped(st, fix, recv) ==
  IF FutureWatermark(st, recv) THEN fix.ts < recv - MaxSkew
                               ELSE st.last_ts # None /\ fix.ts <= st.last_ts

\* Healing: a dwell episode opened by the same bad clock starts afresh.
Heal(st, fix, recv) ==
  IF FutureWatermark(st, recv) /\ st.stationary_since > fix.ts
    THEN [st EXCEPT !.stationary_since = None, !.dwell_fired = FALSE]
    ELSE st

\* process_position for one zone: the state it leaves and the alarms it raises.  The
\* zone is restricted and the asset's class is not authorised.
Evaluate(st, fix, recv) ==
  LET s == Step(Heal(st, fix, recv), fix)
      o == IF s.st.inside THEN Overspeed(s.st, fix) ELSE [st |-> s.st, events |-> {}]
      d == IF s.st.inside THEN Dwell(o.st, fix) ELSE [st |-> o.st, events |-> {}]
  IN  [st |-> [d.st EXCEPT !.last_ts = fix.ts],
       events |-> o.events \cup d.events
                  \cup (IF s.transition = "entry" THEN {"zone_breach"} ELSE {})]
===============================================================================
