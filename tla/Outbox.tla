-------------------------------- MODULE Outbox --------------------------------
(***************************************************************************)
(* The store-and-forward outbox of outgoing messages and the maintenance   *)
(* step that drains it, shared by alarm notifications                      *)
(* (notifications/dispatch.py) and shift reports                           *)
(* (operations/shift_reports.py).  The two differ in when they commit:     *)
(* after the whole batch, or after each row.  AlarmOutbox and ReportOutbox *)
(* add who fills the outbox and what deletes from it.                      *)
(*                                                                         *)
(* Time is relative: a pending row holds the time until its next attempt,  *)
(* which goes on falling once the row is due.                              *)
(***************************************************************************)
EXTENDS Integers, FiniteSets, FiniteSetsExt

CONSTANTS Sources, Targets,   \* events or shifts, and the (channel, target) pairs
          MaxAttempts, Base,  \* notify_max_attempts, notify_retry_base_s
          Batch,              \* rows read by one pass
          CommitEach,         \* TRUE: commit row by row; FALSE: once, after the batch
          MaxOverdue,         \* bound: how long a row is overdue is told apart up to here
          MaxPass,            \* bound: how long one pass takes
          MaxOutages,         \* bound: outages of a channel
          MaxFaults           \* bound: crashes, failed commits, answers lost on the way

ASSUME OutboxAssumption ==
  /\ MaxAttempts \in Nat \ {0} /\ Base \in Nat /\ Batch \in Nat \ {0}
  /\ CommitEach \in BOOLEAN /\ MaxOverdue \in Nat
  /\ MaxPass \in Nat /\ MaxOutages \in Nat /\ MaxFaults \in Nat

Items == Sources \X Targets

VARIABLES row,        \* the table, committed
          mem,        \* rows the open transaction changed
          pass,       \* rows the running pass has still to send
          step,       \* where the maintenance tick is
          elapsed,    \* time since the pass read the clock
          up,         \* channels that answer
          outage,     \* how long each channel's outages lasted, up to Patience
          outages, faults,
          delivered   \* history: messages that reached the recipient

outboxVars == <<row, mem, pass, step, elapsed, up, outage, outages, faults, delivered>>

NoRow == [state |-> "none", attempts |-> 0, wait |-> 0]
Queued == [state |-> "pending", attempts |-> 0, wait |-> 0]

\* Mutant: the backoff does not grow.
BackoffConstant(n) == Base

\* Exponential backoff after the n-th failed attempt.
Backoff(n) == Base * 2 ^ (n - 1)

\* The shortest outage that uses up every attempt: the backoffs between the first attempt
\* and the last, less what the first pass may have taken before it got to the row.
Patience == Base * (2 ^ (MaxAttempts - 1) - 1) - MaxPass

OutboxInit ==
  /\ row = [i \in Items |-> NoRow] /\ mem = [i \in Items |-> NoRow]
  /\ pass = {} /\ step = "idle" /\ elapsed = 0
  /\ up = [t \in Targets |-> TRUE]
  /\ outage = [t \in Targets |-> 0] /\ outages = [t \in Targets |-> 0] /\ faults = 0
  /\ delivered = [i \in Items |-> 0]

Clean == \A i \in Items : mem[i] = NoRow
Due == {i \in Items : row[i].state = "pending" /\ row[i].wait <= 0}

\* The rows a pass reads: pending and due, longest due first, at most Batch of them.
Selection(S) ==
  /\ S \subseteq Due
  /\ Cardinality(S) = Min({Batch, Cardinality(Due)})
  /\ \A i \in S, j \in Due \ S : row[i].wait <= row[j].wait

PassStart(S) ==
  /\ step = "idle" /\ Selection(S)
  /\ pass' = S /\ elapsed' = 0 /\ step' = "sending"
  /\ UNCHANGED <<row, mem, up, outage, outages, faults, delivered>>

\* Mutant: the next row is sent before the last one is committed.
CurrentUncommitted(i) == /\ step = "sending" /\ i \in pass
                         /\ \A j \in pass : row[i].wait <= row[j].wait

\* The row the loop is at.
Current(i) == /\ step = "sending" /\ i \in pass
              /\ CommitEach => Clean
              /\ \A j \in pass : row[i].wait <= row[j].wait

\* What the loop writes to row i after an attempt.
Sent(i) == [state |-> "sent", attempts |-> row[i].attempts + 1, wait |-> 0]

Failed(i) ==
  LET n == row[i].attempts + 1
  IN  IF n >= MaxAttempts
        THEN [state |-> "failed", attempts |-> n, wait |-> 0]
        ELSE [state |-> "pending", attempts |-> n, wait |-> Backoff(n) - elapsed]

Attempt(i, result) ==
  /\ mem' = [mem EXCEPT ![i] = result]
  /\ pass' = pass \ {i}
  /\ UNCHANGED <<row, step, elapsed, up, outage, outages>>

SendOk(i) ==
  /\ Current(i) /\ up[i[2]]
  /\ delivered' = [delivered EXCEPT ![i] = @ + 1]
  /\ Attempt(i, Sent(i))
  /\ UNCHANGED faults

SendFails(i) ==
  /\ Current(i) /\ ~up[i[2]]
  /\ Attempt(i, Failed(i))
  /\ UNCHANGED <<delivered, faults>>

\* The message arrived and the answer did not: the sender raises all the same.
AnswerLost(i) ==
  /\ Current(i) /\ up[i[2]] /\ faults < MaxFaults
  /\ faults' = faults + 1
  /\ delivered' = [delivered EXCEPT ![i] = @ + 1]
  /\ Attempt(i, Failed(i))

\* Mutant: the session is never flushed (commit dropped after a send).
CommitForgets ==
  /\ step = "sending" /\ (IF CommitEach THEN ~Clean \/ pass = {} ELSE pass = {})
  /\ mem' = [i \in Items |-> NoRow]
  /\ step' = IF pass = {} THEN "after" ELSE "sending"
  /\ UNCHANGED <<row, pass, elapsed, up, outage, outages, faults, delivered>>

\* session.commit(): after the batch, or after the row.
Commit ==
  /\ step = "sending" /\ (IF CommitEach THEN ~Clean \/ pass = {} ELSE pass = {})
  /\ row' = [i \in Items |-> IF mem[i] = NoRow THEN row[i] ELSE mem[i]]
  /\ mem' = [i \in Items |-> NoRow]
  /\ step' = IF pass = {} THEN "after" ELSE "sending"
  /\ UNCHANGED <<pass, elapsed, up, outage, outages, faults, delivered>>

\* Mutant: a step that raises ends the maintenance thread.
StepFailureEndsTick ==
  /\ step = "sending" /\ faults < MaxFaults
  /\ faults' = faults + 1
  /\ mem' = [i \in Items |-> NoRow] /\ pass' = {} /\ step' = "ended"
  /\ UNCHANGED <<row, elapsed, up, outage, outages, delivered>>

\* tick.run: the step raises (the commit fails), is rolled back and the next one runs.
StepFails ==
  /\ step = "sending" /\ faults < MaxFaults
  /\ faults' = faults + 1
  /\ mem' = [i \in Items |-> NoRow] /\ pass' = {} /\ step' = "after"
  /\ UNCHANGED <<row, elapsed, up, outage, outages, delivered>>

\* A power cut: the open transaction is gone; the restarted ingestor starts a new tick.
PowerCut ==
  /\ step \in {"sending", "after"} /\ faults < MaxFaults
  /\ faults' = faults + 1
  /\ mem' = [i \in Items |-> NoRow] /\ pass' = {} /\ step' = "idle"
  /\ UNCHANGED <<row, elapsed, up, outage, outages, delivered>>

TickEnd ==
  /\ step = "after" /\ step' = "idle"
  /\ UNCHANGED <<row, mem, pass, elapsed, up, outage, outages, faults, delivered>>

\* Time passes for every pending row and every channel that is down.
Sooner(r) ==
  IF r.state = "pending" THEN [r EXCEPT !.wait = IF @ > -MaxOverdue THEN @ - 1 ELSE @] ELSE r
ElapseOutbox ==
  /\ step = "sending" => elapsed < MaxPass
  /\ elapsed' = IF step = "sending" THEN elapsed + 1 ELSE elapsed
  /\ row' = [i \in Items |-> Sooner(row[i])]
  /\ mem' = [i \in Items |-> Sooner(mem[i])]
  /\ outage' = [t \in Targets |->
                  IF ~up[t] /\ outage[t] < Patience THEN outage[t] + 1 ELSE outage[t]]
  /\ UNCHANGED <<pass, step, up, outages, faults, delivered>>

ChannelDown(t) ==
  /\ up[t] /\ outages[t] < MaxOutages
  /\ up' = [up EXCEPT ![t] = FALSE]
  /\ outages' = [outages EXCEPT ![t] = @ + 1]
  /\ UNCHANGED <<row, mem, pass, step, elapsed, outage, faults, delivered>>

ChannelUp(t) ==
  /\ ~up[t]
  /\ up' = [up EXCEPT ![t] = TRUE]
  /\ UNCHANGED <<row, mem, pass, step, elapsed, outage, outages, faults, delivered>>

\* The steps of the dispatcher, and everything the outbox undergoes but for time.
Dispatch == \/ \E S \in SUBSET Due : PassStart(S)
            \/ \E i \in Items : SendOk(i) \/ SendFails(i)
            \/ Commit
Environment == \/ \E i \in Items : AnswerLost(i)
               \/ StepFails \/ PowerCut
               \/ \E t \in Targets : ChannelDown(t) \/ ChannelUp(t)

-----------------------------------------------------------------------------
(* Properties of either outbox.                                            *)

\* A recipient gets a message twice only if something was lost between the send and the
\* commit, and once more per such fault at most.
RepeatsNeedFaults == \A i \in Items : delivered[i] <= 1 + faults

\* "an outage delays but never loses an alert" (docs/OPERATIONS.md) for one outage that ends
\* before the attempts run out: a message nobody received is given up only after its channel
\* was down for the sum of the backoffs, whatever else was going on.
OutageOnlyDelays ==
  \A i \in Items :
    row[i].state = "failed" /\ delivered[i] = 0 /\ outages[i[2]] <= 1 => outage[i[2]] >= Patience
===============================================================================
