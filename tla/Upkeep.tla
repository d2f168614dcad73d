-------------------------------- MODULE Upkeep --------------------------------
(***************************************************************************)
(* Service plans, work orders and the maintenance health indicator         *)
(* (maintenance/service.py, api/routers/maintenance.py) of one component,  *)
(* and the retention of its work orders (retention.py).                    *)
(* Supervisors complete work orders in requests that read the row and      *)
(* commit later; a client may send the same completion again.              *)
(***************************************************************************)
EXTENDS Integers, FiniteSets, FiniteSetsExt

CONSTANTS
  Mechanics,        \* supervisors with a request in flight
  WorkOrders,       \* work order ids
  ServiceDays,      \* intervals a plan may have
  KeepOrders,       \* retain_records_days
  UpkeepEnd         \* the last clock value

ASSUME UpkeepAssumption == KeepOrders \in Nat /\ ServiceDays \subseteq Nat \ {0}

VARIABLES
  upClock,
  upPlan,           \* the plan's interval_days, or 0: no plan
  upPlanned,        \* its created_at
  upOrder,          \* work order id -> [type, status, closed]
  upRequest,        \* mechanic -> the completion in flight, or NoUpkeepRequest
  upDone            \* history: each order's type, when it was really completed and asked to be

upVars == <<upClock, upPlan, upPlanned, upOrder, upRequest, upDone>>

NeverServiced == -1
NoOrder == [type |-> "none", status |-> "none", closed |-> NeverServiced]
NoUpkeepRequest == [order |-> "none", at |-> NeverServiced]

UpkeepInit ==
  /\ upClock = 0 /\ upPlan = 0 /\ upPlanned = NeverServiced
  /\ upOrder = [o \in WorkOrders |-> NoOrder]
  /\ upRequest = [m \in Mechanics |-> NoUpkeepRequest]
  /\ upDone = [o \in WorkOrders |-> [type |-> "none", asked |-> NeverServiced, done |-> NeverServiced]]

(* A request in flight sees the clock move once at most: requests last seconds,
   retention days. *)
ClockTicks ==
  /\ upClock < UpkeepEnd /\ upClock' = upClock + 1
  /\ \A m \in Mechanics : upRequest[m] # NoUpkeepRequest => upRequest[m].at = upClock
  /\ UNCHANGED <<upPlan, upPlanned, upOrder, upRequest, upDone>>

(* upsert_plan: the interval changes, created_at stays. *)
PlannedAt == IF upPlan = 0 THEN upClock ELSE upPlanned

UpsertPlan(days) ==
  /\ upPlan' = days /\ upPlanned' = PlannedAt
  /\ UNCHANGED <<upClock, upOrder, upRequest, upDone>>

NewOrder(type) == [NoOrder EXCEPT !.type = type, !.status = "open"]

OpenWorkOrder(o, type) ==
  /\ upOrder[o] = NoOrder /\ upDone[o].done = NeverServiced      \* ids are never used again
  /\ upOrder' = [upOrder EXCEPT ![o] = NewOrder(type)]
  /\ UNCHANGED <<upClock, upPlan, upPlanned, upRequest, upDone>>

(* One already done is answered unchanged; none is ever cancelled. *)
Completable(o) == upOrder[o].status = "open"

(* complete_work_order reads the row (its at_engine_hours is left out: health is
   modelled in a plan that counts days) ... *)
ReadForCompletion(m, o) ==
  /\ upRequest[m] = NoUpkeepRequest /\ Completable(o)
  /\ upRequest' = [upRequest EXCEPT ![m] = [order |-> o, at |-> upClock]]
  /\ UNCHANGED <<upClock, upPlan, upPlanned, upOrder, upDone>>

(* ... and commits its change, whatever another request committed meanwhile; when
   retention deleted the row, the UPDATE finds none and the request fails. *)
Closed(order, at) == [order EXCEPT !.status = "done", !.closed = at]
Finished(o, at) ==
  IF upDone[o].done # NeverServiced THEN [upDone[o] EXCEPT !.asked = Min({@, at})]
  ELSE [type |-> upOrder[o].type, asked |-> at, done |-> upClock]

CommitCompletion(m) ==
  LET q == upRequest[m]
  IN  /\ q # NoUpkeepRequest
      /\ upRequest' = [upRequest EXCEPT ![m] = NoUpkeepRequest]
      /\ IF upOrder[q.order] = NoOrder THEN UNCHANGED <<upOrder, upDone>>
         ELSE /\ upOrder' = [upOrder EXCEPT ![q.order] = Closed(@, q.at)]
              /\ upDone' = [upDone EXCEPT ![q.order] = Finished(q.order, q.at)]
      /\ UNCHANGED <<upClock, upPlan, upPlanned>>

-----------------------------------------------------------------------------
(* _latest_completed_service: the baseline health is measured from. *)
Services == {o \in WorkOrders : upOrder[o].type = "service" /\ upOrder[o].status = "done"}
LatestClosed == Max({upOrder[o].closed : o \in Services} \cup {NeverServiced})
Baseline == IF Services = {} THEN upPlanned ELSE LatestClosed

(* assess_health's bands of the used part of the interval, by days; in a plan
   that counts days only. *)
RiskBand(used, interval) == IF 100 * used < 75 * interval THEN "Normal"
                            ELSE IF 100 * used < 90 * interval THEN "Watch"
                            ELSE IF used < interval THEN "Elevated"
                            ELSE IF 100 * used < 115 * interval THEN "High" ELSE "Critical"
Health == IF upPlan = 0 THEN "Unknown" ELSE RiskBand(upClock - Baseline, upPlan)

(* _purge_work_orders: closed before the cutoff, but the latest service stays. *)
AnyExpendable(o) == TRUE
Expendable(o) == o \notin {p \in Services : upOrder[p].closed = LatestClosed}

PurgeOrders ==
  /\ KeepOrders > 0
  /\ upOrder' = [o \in WorkOrders |->
                   IF /\ upOrder[o].closed # NeverServiced
                      /\ upOrder[o].closed < upClock - KeepOrders
                      /\ Expendable(o)
                   THEN NoOrder ELSE upOrder[o]]
  /\ UNCHANGED <<upClock, upPlan, upPlanned, upRequest, upDone>>

UpkeepNext ==
  \/ ClockTicks
  \/ \E days \in ServiceDays : UpsertPlan(days)
  \/ \E o \in WorkOrders, type \in {"service", "repair"} : OpenWorkOrder(o, type)
  \/ \E m \in Mechanics, o \in WorkOrders : ReadForCompletion(m, o)
  \/ \E m \in Mechanics : CommitCompletion(m)
  \/ PurgeOrders

UpkeepSpec == UpkeepInit /\ [][UpkeepNext]_upVars

-----------------------------------------------------------------------------
(* The indicator measures from the last service that happened: the band it shows is
   that of a service completed between the time the component's latest one was asked
   to be completed and the time it was (or of the plan's start, when there was none),
   however completions are repeated or overlap and whatever retention deletes; so no
   retry resets an overdue component to Normal, and no purge makes a serviced one
   overdue (complete_work_order, _purge_work_orders, assess_health). *)
HealthTellsService ==
  LET served == {o \in WorkOrders : upDone[o].type = "service"}
      asked == Max({upDone[o].asked : o \in served})
      done == Max({upDone[o].done : o \in served})
      from == IF served = {} THEN {upPlanned} ELSE asked .. done
  IN  upPlan # 0 => Health \in {RiskBand(upClock - b, upPlan) : b \in from}
=============================================================================
