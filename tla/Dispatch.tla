-------------------------------- MODULE Dispatch --------------------------------
(***************************************************************************)
(* Dispatch: haulage jobs, advisory truck-to-job recommendations and the   *)
(* supervisor's decision on them (dispatch/service.py,                     *)
(* api/routers/dispatch.py).  Transactions run at READ COMMITTED; a        *)
(* decision reads the recommendation in one step and writes it in another, *)
(* recommend deletes, reads and inserts in three.                          *)
(***************************************************************************)
EXTENDS Integers, FiniteSets, Sequences

CONSTANTS Dispatchers,     \* each has at most one request under way
          NumTrucks,       \* haul trucks 1..NumTrucks, in asset_id order
          JobKinds,        \* target_trucks (0 for no target) and priority of the jobs created
          MaxJobs,         \* bound: jobs created
          MaxAssignments   \* bound: assignment rows ever inserted

\* The priority is a 32-bit column.
TopPriority == 2147483647

ASSUME DispatchAssumption ==
  /\ NumTrucks \in Nat
  /\ JobKinds \subseteq [target : Nat, priority : 1 .. TopPriority]

VARIABLES job,          \* dispatch_jobs, in created_at order
          assignment,   \* dispatch_assignments; a deleted row keeps its place
          request,      \* what each dispatcher's open transaction has done so far
          raced         \* history: two recommends overlapped, or a decision was overwritten

dispatchVars == <<job, assignment, request, raced>>

JobStatuses == {"open", "active", "complete", "cancelled"}
TerminalJobStatuses == {"complete", "cancelled"}
Committed == {"approved", "active"}
Trucks == 1..NumTrucks
NoRequest == [kind |-> "none"]
DeletedJob == [status |-> "deleted", target |-> 0, priority |-> 0]
DeletedRow == [job |-> 0, truck |-> 0, state |-> "deleted"]

DispatchInit ==
  /\ job = <<>> /\ assignment = <<>>
  /\ request = [d \in Dispatchers |-> NoRequest]
  /\ raced = FALSE

NewJob(k) == [status |-> "open", target |-> k.target, priority |-> k.priority]

CreateJob(k) ==
  /\ Len(job) < MaxJobs
  /\ job' = Append(job, NewJob(k))
  /\ UNCHANGED <<assignment, request, raced>>

Rows(states) == {a \in DOMAIN assignment : assignment[a].state \in states}

\* The trucks committed to a job that ends are released.
Released(j, status) ==
  IF status \in TerminalJobStatuses
  THEN {a \in Rows(Committed) : assignment[a].job = j} ELSE {}

SetJobStatus(j, status) ==
  /\ job[j].status # "deleted"
  /\ job' = [job EXCEPT ![j].status = status]
  /\ assignment' = [a \in DOMAIN assignment |->
                      IF a \in Released(j, status)
                      THEN [assignment[a] EXCEPT !.state = "released"] ELSE assignment[a]]
  /\ UNCHANGED <<request, raced>>

\* _next_job: the first job in list_jobs order (priority, then creation) under its target;
\* recs are the recommendations made so far, committed the rows counted per job.
Before(j, k) ==
  \/ job[j].priority > job[k].priority
  \/ job[j].priority = job[k].priority /\ j <= k

UnderTarget(j, committed, recs) ==
  \/ job[j].target = 0
  \/ Cardinality({a \in committed : assignment[a].job = j})
     + Cardinality({n \in DOMAIN recs : recs[n].job = j}) < job[j].target

NextJob(committed, recs) ==
  LET eligible == {j \in DOMAIN job : job[j].status = "open" /\ UnderTarget(j, committed, recs)}
  IN  IF eligible = {} THEN 0 ELSE CHOOSE j \in eligible : \A k \in eligible : Before(j, k)

\* Mutant: trucks already committed are offered again.
EveryTruck(committed) == Trucks

Available(committed) == {t \in Trucks : \A a \in committed : assignment[a].truck # t}

\* One round of recommend's loop: an available truck goes to the next job, if there is one.
Assigned(recs, t) ==
  LET committed == Rows(Committed)
      j == NextJob(committed, recs)
  IN  IF t \in Available(committed) /\ j # 0
      THEN Append(recs, [job |-> j, truck |-> t, state |-> "recommended"]) ELSE recs

\* The loop, over the trucks in asset_id order.
Recommendations ==
  LET upTo[t \in 0 .. NumTrucks] == IF t = 0 THEN <<>> ELSE Assigned(upTo[t - 1], t)
  IN  upTo[NumTrucks]

Recommending(d) == request[d].kind = "recommend"

\* Rows that an uncommitted recommend has deleted: other writers wait for it.
Locked == UNION {request[d].deleted : d \in {e \in Dispatchers : Recommending(e)}}

\* recommend deletes the recommendations nobody acted on.
RecommendDelete(d) ==
  LET open == Rows({"recommended"}) IN
  /\ request[d] = NoRequest /\ open \cap Locked = {}
  /\ request' = [request EXCEPT ![d] =
                   [kind |-> "recommend", deleted |-> open, planned |-> FALSE, recs |-> <<>>]]
  /\ raced' = (raced \/ \E e \in Dispatchers : Recommending(e))
  /\ UNCHANGED <<job, assignment>>

\* It then reads the committed assignments, the trucks and the open jobs.
RecommendPlan(d) ==
  /\ Recommending(d) /\ ~request[d].planned
  /\ Len(assignment) + Len(Recommendations) <= MaxAssignments
  /\ request' = [request EXCEPT ![d].planned = TRUE, ![d].recs = Recommendations]
  /\ UNCHANGED <<job, assignment, raced>>

\* The commit; a recommendation for a job deleted meanwhile breaks its foreign key and
\* rolls everything back.
RecommendCommit(d) ==
  /\ Recommending(d) /\ request[d].planned
  /\ Len(assignment) + Len(request[d].recs) <= MaxAssignments
  /\ LET req == request[d]
         valid == \A n \in DOMAIN req.recs : job[req.recs[n].job].status # "deleted"
         kept == [a \in DOMAIN assignment |->
                    IF a \in req.deleted THEN DeletedRow ELSE assignment[a]]
     IN  assignment' = IF valid THEN kept \o req.recs ELSE assignment
  /\ request' = [request EXCEPT ![d] = NoRequest]
  /\ UNCHANGED <<job, raced>>

\* Only a recommended assignment can be approved or rejected (409 otherwise).
Decidable(a) == assignment[a].state = "recommended"

\* approve_assignment and reject_assignment up to the commit.
ApproveAssignment(d, a) ==
  /\ request[d] = NoRequest /\ Decidable(a)
  /\ request' = [request EXCEPT ![d] = [kind |-> "decide", row |-> a, state |-> "approved"]]
  /\ UNCHANGED <<job, assignment, raced>>

RejectAssignment(d, a) ==
  /\ request[d] = NoRequest /\ Decidable(a)
  /\ request' = [request EXCEPT ![d] = [kind |-> "decide", row |-> a, state |-> "rejected"]]
  /\ UNCHANGED <<job, assignment, raced>>

\* The UPDATE by primary key: it waits for a recommend that deleted the row, fails if the row
\* is gone, and otherwise writes over whatever state the row has by now.
DecideCommit(d) ==
  /\ request[d].kind = "decide" /\ request[d].row \notin Locked
  /\ LET a == request[d].row IN
       IF assignment[a].state = "deleted" THEN UNCHANGED <<assignment, raced>>
       ELSE /\ assignment' = [assignment EXCEPT ![a].state = request[d].state]
            /\ raced' = (raced \/ assignment[a].state # "recommended")
  /\ request' = [request EXCEPT ![d] = NoRequest]
  /\ UNCHANGED job

\* Retention deletes ended jobs with their assignments (_purge_dispatch).
PurgeJob(j) ==
  /\ job[j].status \in TerminalJobStatuses
  /\ \A a \in Locked : assignment[a].job # j
  /\ job' = [job EXCEPT ![j] = DeletedJob]
  /\ assignment' = [a \in DOMAIN assignment |->
                      IF assignment[a].job = j THEN DeletedRow ELSE assignment[a]]
  /\ UNCHANGED <<request, raced>>

DispatchNext ==
  \/ \E k \in JobKinds : CreateJob(k)
  \/ \E j \in DOMAIN job, s \in JobStatuses : SetJobStatus(j, s)
  \/ \E j \in DOMAIN job : PurgeJob(j)
  \/ \E d \in Dispatchers : \/ RecommendDelete(d) \/ RecommendPlan(d) \/ RecommendCommit(d)
                            \/ DecideCommit(d)
  \/ \E d \in Dispatchers, a \in DOMAIN assignment :
       ApproveAssignment(d, a) \/ RejectAssignment(d, a)

DispatchSpec == DispatchInit /\ [][DispatchNext]_dispatchVars

--------------------------------------------------------------------------------

\* Unless two recommends overlapped or one decision overwrote another, no truck is committed
\* to two jobs and no job gets more trucks than it asked for, although approving checks
\* neither and recommendations are replaced while they are being decided.
FleetNotOvercommitted ==
  ~raced =>
    /\ \A t \in Trucks : Cardinality({a \in Rows(Committed) : assignment[a].truck = t}) <= 1
    /\ \A j \in DOMAIN job :
         \/ job[j].target = 0
         \/ Cardinality({a \in Rows(Committed) : assignment[a].job = j}) <= job[j].target
================================================================================
