------------------------------- MODULE MCRecords -------------------------------
(***************************************************************************)
(* The registers people edit: incidents, dispatch jobs, imported registers,*)
(* work orders, fuel, accounts, devices, vision models and rules.  They    *)
(* share no state, so a behaviour moves only the one part chosen when it   *)
(* starts, and the states of the parts add up instead of multiplying.      *)
(***************************************************************************)
EXTENDS Incidents, Dispatch, Imports, Upkeep, Fuel, Accounts, Devices, VisionRegistry, TLC

VARIABLE moving         \* the part that moves in this behaviour

Parts == {"incidents", "dispatch", "imports", "upkeep", "fuel", "accounts", "devices",
          "registry"}

\* A job that asks for one truck.
MCJobKinds == {[target |-> 1, priority |-> 1]}

\* One device is registered or not, whatever its row says; the other has a tracker's row.
MCTables ==
  {t \in [DeviceIds -> DeviceRows \cup {NoDevice}] :
     t["d2"] = [asset |-> "a2", source |-> "tracker", enabled |-> TRUE, secret |-> 1]}

\* The people of every register are interchangeable.
MCSymmetry == Permutations(Supervisors)

MCInit ==
  /\ moving \in Parts
  /\ IncidentInit /\ DispatchInit /\ ImportInit /\ UpkeepInit /\ FuelInit /\ AccountInit
  /\ DeviceInit /\ RegistryInit
  /\ devTable \in MCTables
  /\ moving # "imports" => impRegister = "ticket"
  /\ moving # "devices" => devTable["d1"] = NoDevice

Still(part, state) == moving = part \/ UNCHANGED state

MCNext ==
  /\ UNCHANGED moving
  /\ Still("incidents", incidentVars) /\ Still("dispatch", dispatchVars)
  /\ Still("imports", impVars) /\ Still("upkeep", upVars) /\ Still("fuel", fuelVars)
  /\ Still("accounts", accVars) /\ Still("devices", devVars) /\ Still("registry", regVars)
  /\ \/ moving = "incidents" /\ IncidentNext
     \/ moving = "dispatch" /\ DispatchNext
     \/ moving = "imports" /\ ImportNext
     \/ moving = "upkeep" /\ UpkeepNext
     \/ moving = "fuel" /\ FuelNext
     \/ moving = "accounts" /\ AccountNext
     \/ moving = "devices" /\ DeviceNext
     \/ moving = "registry" /\ RegistryNext

MCSpec == MCInit /\ [][MCNext]_<<moving, incidentVars, dispatchVars, impVars, upVars, fuelVars,
                                accVars, devVars, regVars>>
================================================================================
