-------------------------------- MODULE Fuel ---------------------------------
(***************************************************************************)
(* Fuel stock (fuel/service.py, api/routers/fuel.py): people record what a *)
(* meter or a dipstick showed, in any order and after the fact, retention  *)
(* deletes old records, and a tank is reconciled over a window of time.    *)
(*                                                                         *)
(* The tank itself is part of the model: what enters and leaves it, what   *)
(* leaks, and the slips on which the metered part is written down.  Every  *)
(* movement is of FuelLitres, and a dip may show up to DipError too much.  *)
(* No two things happen at one time.                                       *)
(***************************************************************************)
EXTENDS Integers, FiniteSets

CONSTANTS
  FuelLitres,     \* litres of a movement, more than the tolerance and the errors
  FuelTolerance,  \* tolerance_l
  DipError,       \* how much too high a dip can read
  KeepFuel,       \* records_days
  FuelEnd,        \* last time of a behaviour
  FuelReports     \* reconciliations in a behaviour

\* A dip error stays within the tolerance, and a leak shows in spite of both.
ASSUME FuelAssumption ==
  /\ FuelLitres \in Nat /\ FuelTolerance \in Nat /\ DipError \in Nat
  /\ DipError <= FuelTolerance /\ FuelTolerance + DipError < FuelLitres
  /\ KeepFuel \in Nat /\ FuelEnd \in Nat /\ FuelReports \in Nat

VARIABLES
  fuelNow, fuelLevel,
  fuelLeaks,      \* times at which fuel left the tank unmetered
  fuelSlips,      \* measured and not recorded yet
  fuelTxns,       \* rows of fuel_transactions
  fuelReadings,   \* rows of fuel_tank_readings
  fuelLate,       \* history: readings recorded when they were past retention already
  fuelReport,     \* the reconciliation under way, or the last one
  fuelLeft        \* reconciliations still to come

fuelVars == <<fuelNow, fuelLevel, fuelLeaks, fuelSlips, fuelTxns, fuelReadings, fuelLate,
              fuelReport, fuelLeft>>

NoFuelReport == [phase |-> "none", rows |-> {}, complete |-> TRUE, status |-> "none"]

FuelInit ==
  /\ fuelNow = 0 /\ fuelLevel = 2 * FuelLitres /\ fuelLeaks = {}
  /\ fuelSlips = {} /\ fuelTxns = {} /\ fuelReadings = {} /\ fuelLate = {}
  /\ fuelReport = NoFuelReport /\ fuelLeft = FuelReports

-----------------------------------------------------------------------------
(* The tank. *)

Pour(change, slips) ==
  /\ fuelNow < FuelEnd
  /\ fuelNow' = fuelNow + 1
  /\ fuelLevel + change >= 0
  /\ fuelLevel' = fuelLevel + change
  /\ fuelSlips' = fuelSlips \cup slips
  /\ UNCHANGED <<fuelTxns, fuelReadings, fuelLate, fuelReport, fuelLeft>>

Txn(direction, tank) == [ts |-> fuelNow + 1, what |-> direction, tank |-> tank, litres |-> FuelLitres]

Deliver == Pour(FuelLitres, {Txn("delivery", "tank")}) /\ UNCHANGED fuelLeaks
Dispense == Pour(-FuelLitres, {Txn("dispense", "tank")}) /\ UNCHANGED fuelLeaks
(* A vehicle is fuelled at an outside station. *)
FuelOutside == Pour(0, {Txn("dispense", "none")}) /\ UNCHANGED fuelLeaks
Leak == Pour(-FuelLitres, {}) /\ fuelLeaks' = fuelLeaks \cup {fuelNow + 1}
Dip(error) ==
  /\ Pour(0, {[ts |-> fuelNow + 1, what |-> "reading", tank |-> "tank", litres |-> fuelLevel + error]})
  /\ UNCHANGED fuelLeaks

-----------------------------------------------------------------------------
(* The records. *)

(* record_transaction: litres and direction are checked, then the row is added. *)
TransactionValid(slip) == slip.litres > 0 /\ slip.what \in {"delivery", "dispense"}

RecordTransaction(slip) ==
  /\ TransactionValid(slip)
  /\ fuelTxns' = fuelTxns \cup {slip}
  /\ fuelSlips' = fuelSlips \ {slip}
  /\ UNCHANGED <<fuelNow, fuelLevel, fuelLeaks, fuelReadings, fuelLate, fuelReport, fuelLeft>>

(* record_tank_reading: a dip of any time is taken, one retention would delete too. *)
RecordTankReading(slip) ==
  /\ slip.what = "reading"
  /\ fuelReadings' = fuelReadings \cup {slip}
  /\ fuelLate' = fuelLate \cup {x \in {slip} : x.ts < fuelNow - KeepFuel}
  /\ fuelSlips' = fuelSlips \ {slip}
  /\ UNCHANGED <<fuelNow, fuelLevel, fuelLeaks, fuelTxns, fuelReport, fuelLeft>>

(* run_retention: both tables, in one transaction. *)
PurgeFuel ==
  LET Kept(rows) == {x \in rows : x.ts >= fuelNow - KeepFuel} IN
  /\ Kept(fuelTxns \cup fuelReadings) # fuelTxns \cup fuelReadings
  /\ fuelTxns' = Kept(fuelTxns) /\ fuelReadings' = Kept(fuelReadings)
  /\ fuelReport' = [fuelReport EXCEPT !.complete = FALSE]
  /\ UNCHANGED <<fuelNow, fuelLevel, fuelLeaks, fuelSlips, fuelLate, fuelLeft>>

-----------------------------------------------------------------------------
(* reconcile_tank: two queries, between which records come and go. *)

Opening(rows) == CHOOSE x \in rows : \A y \in rows : x.ts <= y.ts
Closing(rows) == CHOOSE x \in rows : \A y \in rows : x.ts >= y.ts

(* complete: whatever was measured up to now is recorded, the opening reading
   before retention could have deleted what came after it, and no retention
   pass falls between the two queries. *)
ReadLevels(since, until) ==
  LET rows == {x \in fuelReadings : x.ts >= since /\ x.ts < until} IN
  /\ fuelReport.phase # "levels" /\ fuelLeft > 0
  /\ fuelLeft' = fuelLeft - 1
  /\ fuelReport' = IF Cardinality(rows) < 2
                   THEN [NoFuelReport EXCEPT !.phase = "done", !.status = "insufficient_data"]
                   ELSE [phase |-> "levels", rows |-> {Opening(rows), Closing(rows)},
                         complete |-> fuelSlips = {} /\ Opening(rows) \notin fuelLate,
                         status |-> "none"]
  /\ UNCHANGED <<fuelNow, fuelLevel, fuelLeaks, fuelSlips, fuelTxns, fuelReadings, fuelLate>>

AnyTank(rows) == {t \in fuelTxns : t.ts >= Opening(rows).ts /\ t.ts <= Closing(rows).ts}
(* The transactions of the tank from the first reading to the last. *)
Throughput(rows) == {t \in fuelTxns : t.tank = "tank" /\ t.ts >= Opening(rows).ts
                                                      /\ t.ts <= Closing(rows).ts}

(* The sum of their litres. *)
Litres(rows) == FuelLitres * Cardinality(rows)

Variance(rows) ==
  LET txns == Throughput(rows)
      deliveries == {t \in txns : t.what = "delivery"}
  IN  Closing(rows).litres - (Opening(rows).litres + Litres(deliveries) - Litres(txns \ deliveries))

SumThroughput ==
  /\ fuelReport.phase = "levels"
  /\ LET v == Variance(fuelReport.rows)
     IN  fuelReport' = [fuelReport EXCEPT !.phase = "done",
                          !.status = IF v > FuelTolerance \/ -v > FuelTolerance THEN "flagged" ELSE "ok"]
  /\ UNCHANGED <<fuelNow, fuelLevel, fuelLeaks, fuelSlips, fuelTxns, fuelReadings, fuelLate, fuelLeft>>

FuelNext ==
  \/ Deliver \/ Dispense \/ FuelOutside \/ Leak
  \/ \E error \in 0 .. DipError : Dip(error)
  \/ \E slip \in fuelSlips : RecordTransaction(slip) \/ RecordTankReading(slip)
  \/ PurgeFuel
  \/ \E since, until \in 1 .. FuelEnd + 1 : ReadLevels(since, until)
  \/ SumThroughput

FuelSpec == FuelInit /\ [][FuelNext]_fuelVars

-----------------------------------------------------------------------------
(* A reconciliation made from complete records flags a tank exactly when fuel
   left it unmetered between the readings it compares: late and out of order
   records, fuel taken elsewhere, dip errors within the tolerance and records
   retention deleted before it began never raise or hide a flag
   (reconcile_tank), unless the opening dip was written down only after its
   retention window, when what was metered after it may be deleted already. *)
FlaggedIffLeaked ==
  (fuelReport.complete /\ fuelReport.status \in {"ok", "flagged"}) =>
    (fuelReport.status = "flagged" <=>
       \E t \in fuelLeaks : t > Opening(fuelReport.rows).ts /\ t < Closing(fuelReport.rows).ts)
=============================================================================
