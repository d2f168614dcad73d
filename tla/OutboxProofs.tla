----------------------------- MODULE OutboxProofs -----------------------------
(***************************************************************************)
(* What the dispatcher of an outbox keeps, whoever fills the outbox and    *)
(* deletes from it: for any set of messages, any batch, either way of      *)
(* committing and any number of faults and outages.                        *)
(***************************************************************************)
EXTENDS Outbox, FiniteSetTheorems, TLAPS

RowStates == {"none", "pending", "sent", "failed"}
IsRow(r) == /\ r = [state |-> r.state, attempts |-> r.attempts, wait |-> r.wait]
            /\ r.state \in RowStates

Shape ==
  /\ row = [i \in Items |-> row[i]] /\ mem = [i \in Items |-> mem[i]]
  /\ \A i \in Items : IsRow(row[i]) /\ IsRow(mem[i])
  /\ delivered \in [Items -> Nat] /\ faults \in Nat /\ pass \subseteq Items

\* A pass is over pending rows it has not touched, and only a running pass has changed rows
\* that are not committed: pending ones, which it neither deletes nor makes up.
PassInv ==
  /\ step # "sending" => pass = {} /\ Clean
  /\ \A i \in pass : row[i].state = "pending" /\ mem[i] = NoRow
  /\ \A i \in Items : mem[i] = NoRow \/ (row[i].state = "pending" /\ mem[i].state # "none")

\* A message that is still to be sent has arrived at most once per fault.
RepeatInv ==
  \A i \in Items :
    /\ delivered[i] <= 1 + faults
    /\ row[i].state = "pending" /\ mem[i].state # "sent" => delivered[i] <= faults

OutboxInv == Shape /\ PassInv /\ RepeatInv

\* What every step of the dispatcher and its surroundings leaves alone: which rows exist, and
\* the messages that are not pending.
Frame ==
  /\ \A i \in Items : row'[i].state = "none" <=> row[i].state = "none"
  /\ \A i \in Items : row[i].state # "pending" => delivered'[i] = delivered[i]
  /\ faults' \in Nat /\ faults <= faults'

\* An empty outbox.
LEMMA OutboxInitInv == OutboxInit => OutboxInv
  <1> SUFFICES ASSUME OutboxInit PROVE OutboxInv
    OBVIOUS
  <1>1. Shape
    BY DEF OutboxInit, Shape, IsRow, RowStates, NoRow
  <1>2. PassInv
    BY DEF OutboxInit, PassInv, Clean
  <1>3. RepeatInv
    BY DEF OutboxInit, RepeatInv
  <1> QED
    BY <1>1, <1>2, <1>3 DEF OutboxInv

\* A pass starts with a clean transaction, over due rows.
LEMMA PassStartKeeps == ASSUME OutboxInv, NEW S \in SUBSET Due, PassStart(S)
                        PROVE  OutboxInv' /\ Frame
  <1> USE DEF OutboxInv
  <1>1. S \subseteq Items /\ \A i \in S : row[i].state = "pending"
    BY DEF Due
  <1>2. Clean
    BY DEF PassStart, PassInv
  <1>3. Shape' /\ Frame
    BY <1>1 DEF PassStart, Shape, Frame
  <1>4. PassInv'
    BY <1>1, <1>2 DEF PassStart, PassInv, Clean
  <1>5. RepeatInv'
    BY DEF PassStart, RepeatInv
  <1> QED
    BY <1>3, <1>4, <1>5

\* An attempt writes to the transaction alone.
LEMMA AttemptShape ==
  ASSUME OutboxInv, NEW i \in Items, i \in pass, step = "sending", NEW r, IsRow(r),
         r.state # "none", Attempt(i, r)
  PROVE  /\ mem' = [j \in Items |-> mem'[j]] /\ \A j \in Items : IsRow(mem'[j])
         /\ mem'[i] = r /\ \A j \in Items : j # i => mem'[j] = mem[j]
         /\ row' = row /\ PassInv'
  <1> USE DEF OutboxInv
  <1>1. mem' = [mem EXCEPT ![i] = r] /\ mem = [j \in Items |-> mem[j]] /\ row' = row
        /\ pass' = pass \ {i} /\ step' = step
    BY DEF Attempt, Shape
  <1>2. mem' = [j \in Items |-> IF j = i THEN r ELSE mem[j]]
    BY <1>1
  <1>3. /\ mem' = [j \in Items |-> mem'[j]] /\ mem'[i] = r
        /\ \A j \in Items : j # i => mem'[j] = mem[j]
    BY <1>2
  <1>4. \A j \in Items : IsRow(mem'[j])
    BY <1>3 DEF Shape
  <1>5. PassInv'
    BY <1>1, <1>3 DEF PassInv, Shape, Clean
  <1> QED
    BY <1>1, <1>3, <1>4, <1>5

\* What an attempt writes is a row, and a sent one only after a success.
LEMMA AttemptRows == ASSUME NEW i \in Items
                     PROVE  /\ IsRow(Sent(i)) /\ Sent(i).state = "sent"
                            /\ IsRow(Failed(i)) /\ Failed(i).state \in {"pending", "failed"}
  BY DEF Sent, Failed, IsRow, RowStates

\* A message sent was pending, and is marked so in the transaction.
LEMMA SendOkKeeps == ASSUME OutboxInv, NEW i \in Items, SendOk(i) PROVE OutboxInv' /\ Frame
  <1> USE DEF OutboxInv
  <1>1. /\ i \in pass /\ step = "sending" /\ Attempt(i, Sent(i)) /\ UNCHANGED faults
        /\ delivered' = [delivered EXCEPT ![i] = @ + 1]
    BY DEF SendOk, Current
  <1>2. IsRow(Sent(i)) /\ Sent(i).state = "sent"
    BY AttemptRows
  <1>3. /\ mem' = [j \in Items |-> mem'[j]] /\ \A j \in Items : IsRow(mem'[j])
        /\ mem'[i] = Sent(i) /\ \A j \in Items : j # i => mem'[j] = mem[j]
        /\ row' = row /\ PassInv'
    BY <1>1, <1>2, AttemptShape
  <1>4. row[i].state = "pending" /\ mem[i].state # "sent"
    BY <1>1 DEF PassInv, NoRow
  <1>5. Shape'
    BY <1>1, <1>3 DEF Shape, Attempt
  <1>6. RepeatInv'
    BY <1>1, <1>2, <1>3, <1>4 DEF RepeatInv, Shape
  <1>7. Frame
    BY <1>1, <1>3, <1>4 DEF Frame, Shape
  <1> QED
    BY <1>3, <1>5, <1>6, <1>7

\* A failed attempt leaves the message to be sent, or gives it up.
LEMMA SendFailsKeeps == ASSUME OutboxInv, NEW i \in Items, SendFails(i) PROVE OutboxInv' /\ Frame
  <1> USE DEF OutboxInv
  <1>1. /\ i \in pass /\ step = "sending" /\ Attempt(i, Failed(i)) /\ UNCHANGED <<faults, delivered>>
    BY DEF SendFails, Current
  <1>2. IsRow(Failed(i)) /\ Failed(i).state \in {"pending", "failed"}
    BY AttemptRows
  <1>3. /\ mem' = [j \in Items |-> mem'[j]] /\ \A j \in Items : IsRow(mem'[j])
        /\ mem'[i] = Failed(i) /\ \A j \in Items : j # i => mem'[j] = mem[j]
        /\ row' = row /\ PassInv'
    BY <1>1, <1>2, AttemptShape
  <1>4. row[i].state = "pending" /\ mem[i].state # "sent"
    BY <1>1 DEF PassInv, NoRow
  <1>5. Shape'
    BY <1>1, <1>3 DEF Shape, Attempt
  <1>6. RepeatInv'
    BY <1>1, <1>2, <1>3, <1>4 DEF RepeatInv
  <1>7. Frame
    BY <1>1, <1>3 DEF Frame, Shape
  <1> QED
    BY <1>3, <1>5, <1>6, <1>7

\* A lost answer is a fault: the message arrived once more and is still to be sent.
LEMMA AnswerLostKeeps == ASSUME OutboxInv, NEW i \in Items, AnswerLost(i) PROVE OutboxInv' /\ Frame
  <1> USE DEF OutboxInv
  <1>1. /\ i \in pass /\ step = "sending" /\ Attempt(i, Failed(i)) /\ faults' = faults + 1
        /\ delivered' = [delivered EXCEPT ![i] = @ + 1]
    BY DEF AnswerLost, Current
  <1>2. IsRow(Failed(i)) /\ Failed(i).state \in {"pending", "failed"}
    BY AttemptRows
  <1>3. /\ mem' = [j \in Items |-> mem'[j]] /\ \A j \in Items : IsRow(mem'[j])
        /\ mem'[i] = Failed(i) /\ \A j \in Items : j # i => mem'[j] = mem[j]
        /\ row' = row /\ PassInv'
    BY <1>1, <1>2, AttemptShape
  <1>4. row[i].state = "pending" /\ mem[i].state # "sent"
    BY <1>1 DEF PassInv, NoRow
  <1>5. Shape'
    BY <1>1, <1>3 DEF Shape, Attempt
  <1>6. RepeatInv'
    BY <1>1, <1>2, <1>3, <1>4 DEF RepeatInv, Shape
  <1>7. Frame
    BY <1>1, <1>3, <1>4 DEF Frame, Shape
  <1> QED
    BY <1>3, <1>5, <1>6, <1>7

\* A commit moves the transaction's rows into the table.
LEMMA CommitKeeps == ASSUME OutboxInv, Commit PROVE OutboxInv' /\ Frame
  <1> USE DEF OutboxInv
  <1>1. /\ step = "sending" /\ row' = [i \in Items |-> IF mem[i] = NoRow THEN row[i] ELSE mem[i]]
        /\ mem' = [i \in Items |-> NoRow] /\ UNCHANGED <<pass, faults, delivered>>
        /\ step' = IF pass = {} THEN "after" ELSE "sending"
    BY DEF Commit
  <1>2. \A i \in Items : /\ mem'[i] = NoRow
                         /\ row'[i] = IF mem[i] = NoRow THEN row[i] ELSE mem[i]
    BY <1>1
  <1>3. IsRow(NoRow)
    BY DEF IsRow, RowStates, NoRow
  <1>4. Shape'
    BY <1>1, <1>2, <1>3 DEF Shape
  <1>5. PassInv'
    BY <1>1, <1>2 DEF PassInv, Clean, Shape
  <1>6. RepeatInv'
    BY <1>1, <1>2 DEF RepeatInv, PassInv, NoRow
  <1>7. Frame
    BY <1>1, <1>2 DEF Frame, PassInv, Shape
  <1> QED
    BY <1>4, <1>5, <1>6, <1>7

\* A fault rolls the transaction back: what was sent and not committed will be sent again.
LEMMA RollbackKeeps == ASSUME OutboxInv, StepFails \/ PowerCut PROVE OutboxInv' /\ Frame
  <1> USE DEF OutboxInv
  <1>1. /\ faults' = faults + 1 /\ mem' = [i \in Items |-> NoRow] /\ pass' = {} /\ row' = row
        /\ delivered' = delivered
    BY DEF StepFails, PowerCut
  <1>2. \A i \in Items : mem'[i] = NoRow
    BY <1>1
  <1>3. IsRow(NoRow)
    BY DEF IsRow, RowStates, NoRow
  <1>4. Shape'
    BY <1>1, <1>2, <1>3 DEF Shape
  <1>5. PassInv'
    BY <1>1, <1>2 DEF PassInv, Clean
  <1>6. RepeatInv'
    BY <1>1 DEF RepeatInv, Shape
  <1>7. Frame
    BY <1>1 DEF Frame, Shape
  <1> QED
    BY <1>4, <1>5, <1>6, <1>7

\* Time changes no row's state.
LEMMA SoonerKeeps == ASSUME NEW r, IsRow(r)
                     PROVE  /\ IsRow(Sooner(r)) /\ Sooner(r).state = r.state
                            /\ Sooner(r) = NoRow => r.state = "none"
                            /\ r = NoRow => Sooner(r) = NoRow
  <1>1. CASE r.state = "pending"
    <2> DEFINE s == r.state
               a == r.attempts
               w == IF r.wait > -MaxOverdue THEN r.wait - 1 ELSE r.wait
    <2>1. r = [state |-> s, attempts |-> a, wait |-> r.wait]
      BY DEF IsRow
    <2>2. Sooner(r) = [r EXCEPT !.wait = w]
      BY <1>1 DEF Sooner
    <2> HIDE DEF w
    <2>3. Sooner(r) = [state |-> s, attempts |-> a, wait |-> w]
      BY <2>1, <2>2
    <2> QED
      BY <1>1, <2>3 DEF IsRow, RowStates, NoRow
  <1>2. CASE r.state # "pending"
    BY <1>2 DEF Sooner, NoRow
  <1> QED
    BY <1>1, <1>2

\* Time passes.
LEMMA ElapseKeeps == ASSUME OutboxInv, ElapseOutbox PROVE OutboxInv' /\ Frame
  <1> USE DEF OutboxInv
  <1>1. /\ row' = [i \in Items |-> Sooner(row[i])] /\ mem' = [i \in Items |-> Sooner(mem[i])]
        /\ UNCHANGED <<pass, step, faults, delivered>>
    BY DEF ElapseOutbox
  <1>2. \A i \in Items : row'[i] = Sooner(row[i]) /\ mem'[i] = Sooner(mem[i])
    BY <1>1
  <1>3. \A i \in Items : /\ IsRow(row'[i]) /\ row'[i].state = row[i].state
                         /\ IsRow(mem'[i]) /\ mem'[i].state = mem[i].state
                         /\ mem[i] = NoRow => mem'[i] = NoRow
                         /\ mem'[i] = NoRow => mem[i].state = "none"
    BY <1>2, SoonerKeeps DEF Shape
  <1>4. Shape'
    BY <1>1, <1>2, <1>3 DEF Shape
  <1>5. PassInv'
    BY <1>1, <1>3 DEF PassInv, Clean, Shape
  <1>6. RepeatInv'
    BY <1>1, <1>3 DEF RepeatInv
  <1>7. Frame
    BY <1>1, <1>3 DEF Frame, Shape
  <1> QED
    BY <1>4, <1>5, <1>6, <1>7

\* The tick ends; a channel goes down or comes back.
LEMMA QuietKeeps == ASSUME OutboxInv, TickEnd \/ \E t \in Targets : ChannelDown(t) \/ ChannelUp(t)
                    PROVE  OutboxInv' /\ Frame
  <1> USE DEF OutboxInv
  <1>1. /\ UNCHANGED <<row, mem, pass, faults, delivered>>
        /\ step' = step \/ (step = "after" /\ step' = "idle")
    BY DEF TickEnd, ChannelDown, ChannelUp
  <1>2. Shape' /\ RepeatInv' /\ Frame
    BY <1>1 DEF Shape, RepeatInv, Frame
  <1>3. PassInv'
    BY <1>1 DEF PassInv, Clean
  <1> QED
    BY <1>2, <1>3

\* Every step of the dispatcher and of what the outbox undergoes.
LEMMA OutboxStep == ASSUME OutboxInv, Dispatch \/ TickEnd \/ Environment \/ ElapseOutbox
                    PROVE  OutboxInv' /\ Frame
  <1>1. CASE Dispatch
    BY <1>1, PassStartKeeps, SendOkKeeps, SendFailsKeeps, CommitKeeps DEF Dispatch
  <1>2. CASE Environment
    BY <1>2, AnswerLostKeeps, RollbackKeeps, QuietKeeps DEF Environment
  <1>3. CASE TickEnd
    BY <1>3, QuietKeeps
  <1>4. CASE ElapseOutbox
    BY <1>4, ElapseKeeps
  <1> QED
    BY <1>1, <1>2, <1>3, <1>4

\* Steps that do not touch the outbox.
LEMMA OutboxRests == ASSUME OutboxInv, UNCHANGED <<row, mem, pass, faults, delivered>>,
                            step' = step \/ (step # "sending" /\ step' # "sending")
                     PROVE  OutboxInv'
  <1> USE DEF OutboxInv
  <1>1. Shape' /\ RepeatInv'
    BY DEF Shape, RepeatInv
  <1>2. PassInv'
    BY DEF PassInv, Clean
  <1> QED
    BY <1>1, <1>2
-----------------------------------------------------------------------------
(* How long a channel was down before a message is given up.               *)

\* The backoffs after the first n failed attempts, one after another.
Ramp(n) == Base * (2 ^ n - 1)

\* A channel was down for a time at least, as far as outage tells times apart.
Lasted(t, x) == outage[t] >= Patience \/ outage[t] >= x

\* Nobody received the message, and its channel had one outage at most.
Unheard(i) == delivered[i] = 0 /\ outages[i[2]] <= 1

Countdown(r) == /\ r.attempts \in Nat /\ r.wait \in Int
                /\ r.state = "pending" => r.attempts < MaxAttempts

\* A row of a message nobody received: it failed only in the outage, is given up only after
\* all of its backoffs, and while the outage lasts it has been down for the backoffs so far,
\* less what is left to wait and what the pass of the first attempt took.
Waited(i, r) ==
  /\ Countdown(r)
  /\ Unheard(i) /\ r.attempts > 0 => outages[i[2]] > 0 \/ r.state = "sent"
  /\ Unheard(i) /\ r.state = "failed" => outage[i[2]] >= Patience
  /\ Unheard(i) /\ ~up[i[2]] /\ r.state = "pending" /\ r.attempts > 0 =>
       Lasted(i[2], Ramp(r.attempts) - MaxPass - r.wait)

ChannelTypes ==
  /\ elapsed \in 0 .. MaxPass
  /\ up \in [Targets -> BOOLEAN] /\ outage \in [Targets -> Nat] /\ outages \in [Targets -> Nat]
  /\ \A t \in Targets : outages[t] = 0 => up[t]

\* The rows of a running pass were due when it started.
OutageInv ==
  /\ ChannelTypes
  /\ \A i \in Items : Waited(i, row[i]) /\ Waited(i, mem[i])
  /\ \A i \in pass : Unheard(i) /\ ~up[i[2]] /\ row[i].attempts > 0 =>
                       Lasted(i[2], Ramp(row[i].attempts) - MaxPass + elapsed)

LEMMA Channel == \A i \in Items : i[2] \in Targets
  BY DEF Items

LEMMA Numbers == /\ MaxAttempts \in Nat /\ MaxAttempts > 0 /\ Base \in Nat
                 /\ MaxOverdue \in Nat /\ MaxPass \in Nat
  BY OutboxAssumption DEF OutboxAssumption

\* Powers of two count subsets: each of 1..n gives two of 1..n+1.
LEMMA Doubling ==
  /\ 2 ^ 0 = 1
  /\ \A n \in Nat : 2 ^ n \in Nat /\ 2 ^ (n + 1) = 2 * 2 ^ n
  <1>1. \A n \in Nat : IsFiniteSet(1 .. n) /\ Cardinality(1 .. n) = n
    BY FS_Interval
  <1>2. ASSUME NEW n \in Nat
        PROVE  IsFiniteSet(SUBSET (1 .. n)) /\ Cardinality(SUBSET (1 .. n)) = 2 ^ n /\ 2 ^ n \in Nat
    BY <1>1, FS_SUBSET, FS_CardinalityType
  <1>3. 2 ^ 0 = 1
    <2>1. SUBSET (1 .. 0) = {{}}
      OBVIOUS
    <2> QED
      BY <1>2, <2>1, FS_Singleton
  <1>4. ASSUME NEW n \in Nat PROVE 2 ^ (n + 1) = 2 * 2 ^ n
    <2> DEFINE A == SUBSET (1 .. n)
               B == {X \cup {n + 1} : X \in A}
               f == [X \in A |-> X \cup {n + 1}]
    <2>1. SUBSET (1 .. n + 1) = A \cup B
      <3>1. ASSUME NEW Y \in SUBSET (1 .. n + 1) PROVE Y \in A \cup B
        <4>1. CASE n + 1 \in Y
          <5>1. Y \ {n + 1} \in A
            OBVIOUS
          <5>2. Y = (Y \ {n + 1}) \cup {n + 1}
            BY <4>1
          <5> QED
            BY <5>1, <5>2
        <4>2. CASE n + 1 \notin Y
          <5>1. Y \in A
            BY <4>2
          <5> QED
            BY <5>1
        <4> QED
          BY <4>1, <4>2
      <3>2. 1 .. n \subseteq 1 .. n + 1 /\ n + 1 \in 1 .. n + 1
        OBVIOUS
      <3>3. A \cup B \subseteq SUBSET (1 .. n + 1)
        BY <3>2
      <3> QED
        BY <3>1, <3>3
    <2>2. A \cap B = {}
      OBVIOUS
    <2>3. f \in Bijection(A, B)
      <3>1. f \in [A -> B] /\ \A y \in B : \E X \in A : f[X] = y
        OBVIOUS
      <3>2. ASSUME NEW X \in A, NEW Y \in A, f[X] = f[Y] PROVE X = Y
        <4>1. X \cup {n + 1} = Y \cup {n + 1} /\ n + 1 \notin X /\ n + 1 \notin Y
          BY <3>2
        <4> QED
          BY <4>1
      <3> QED
        BY <3>1, <3>2 DEF Bijection, Injection, Surjection, IsInjective
    <2>4. IsFiniteSet(A) /\ Cardinality(A) = 2 ^ n /\ 2 ^ n \in Nat
      BY <1>2
    <2>5. IsFiniteSet(B) /\ Cardinality(B) = Cardinality(A)
      BY <2>3, <2>4, FS_Bijection DEF ExistsBijection
    <2>6. Cardinality(SUBSET (1 .. n + 1)) = 2 ^ (n + 1)
      BY <1>2
    <2> HIDE DEF A, B, f
    <2>7. Cardinality(A \cup B) = Cardinality(A) + Cardinality(B) - Cardinality(A \cap B)
      BY <2>4, <2>5, FS_Union
    <2>8. Cardinality(A \cap B) = 0
      BY <2>2, FS_EmptySet
    <2>9. PICK p : p = 2 ^ n
      OBVIOUS
    <2>10. PICK q : q = 2 ^ (n + 1)
      OBVIOUS
    <2>11. p \in Nat /\ Cardinality(A) = p /\ Cardinality(B) = p
      BY <2>4, <2>5, <2>9
    <2>12. q = Cardinality(A \cup B)
      BY <2>1, <2>6, <2>10
    <2>13. q = p + p - 0
      BY <2>7, <2>8, <2>11, <2>12
    <2> QED
      BY <2>9, <2>10, <2>11, <2>13
  <1> QED
    BY <1>2, <1>3, <1>4

\* The backoffs add up, and Patience is what all but the last add up to.
LEMMA RampAdds ==
  /\ Ramp(0) = 0 /\ Patience \in Int /\ Patience = Ramp(MaxAttempts - 1) - MaxPass
  /\ \A n \in Nat : /\ Ramp(n) \in Int /\ Backoff(n + 1) \in Int
                    /\ Ramp(n + 1) = Ramp(n) + Backoff(n + 1)
  <1>1. ASSUME NEW n \in Nat
        PROVE  /\ Ramp(n) \in Int /\ Backoff(n + 1) \in Int
               /\ Ramp(n + 1) = Ramp(n) + Backoff(n + 1)
    <2>1. PICK p \in Nat : p = 2 ^ n
      BY Doubling
    <2>2. 2 ^ (n + 1) = 2 * p /\ (n + 1) - 1 = n
      BY <2>1, Doubling
    <2>3. Backoff(n + 1) = Base * p
      BY <2>1, <2>2 DEF Backoff
    <2>4. Ramp(n) = Base * (p - 1) /\ Ramp(n + 1) = Base * (2 * p - 1)
      BY <2>1, <2>2 DEF Ramp
    <2>5. Base * (2 * p - 1) = Base * (p - 1) + Base * p /\ Base * (p - 1) \in Int /\ Base * p \in Int
      BY Numbers
    <2> QED
      BY <2>3, <2>4, <2>5
  <1>2. Ramp(0) = 0
    BY Doubling, Numbers DEF Ramp
  <1>3. MaxAttempts - 1 \in Nat
    BY Numbers
  <1>4. Patience = Ramp(MaxAttempts - 1) - MaxPass /\ Patience \in Int
    BY <1>1, <1>3, Numbers DEF Patience, Ramp
  <1> QED
    BY <1>1, <1>2, <1>4

\* No channel has been down at the start.
LEMMA OutageInit == OutboxInit => OutageInv
  <1> SUFFICES ASSUME OutboxInit PROVE OutageInv
    OBVIOUS
  <1>1. ChannelTypes
    BY Numbers DEF OutboxInit, ChannelTypes
  <1>2. \A i \in Items : Waited(i, row[i]) /\ Waited(i, mem[i])
    BY DEF OutboxInit, Waited, Countdown, NoRow
  <1>3. pass = {}
    BY DEF OutboxInit
  <1> QED
    BY <1>1, <1>2, <1>3 DEF OutageInv

\* A row that was not attempted asks nothing of its channel.
LEMMA FreshWaits == ASSUME NEW i \in Items PROVE Waited(i, NoRow) /\ Waited(i, Queued)
  BY Numbers DEF Waited, Countdown, NoRow, Queued

\* While no channel changes, a row is as good as it was.
LEMMA OutageKept ==
  ASSUME OutageInv, UNCHANGED <<up, outage, outages>>, elapsed' \in 0 .. MaxPass,
         \A i \in Items : /\ delivered'[i] = 0 => delivered[i] = 0
                          /\ Waited(i, row'[i])
                          /\ Waited(i, mem'[i]) \/ (delivered'[i] # 0 /\ Countdown(mem'[i])),
         \A i \in pass' : /\ i \in Items
                          /\ Unheard(i) /\ ~up[i[2]] /\ row'[i].attempts > 0 =>
                               Lasted(i[2], Ramp(row'[i].attempts) - MaxPass + elapsed')
  PROVE  OutageInv'
  <1>1. ChannelTypes'
    BY DEF OutageInv, ChannelTypes
  <1>2. ASSUME NEW i \in Items PROVE Waited(i, row[i])' /\ Waited(i, mem[i])'
    <2>1. Unheard(i)' => Unheard(i) /\ delivered'[i] = 0
      BY DEF Unheard
    <2>2. Waited(i, row[i])'
      BY <2>1 DEF Waited, Lasted, Countdown
    <2>3. Waited(i, mem[i])'
      BY <2>1 DEF Waited, Lasted, Countdown
    <2> QED
      BY <2>2, <2>3
  <1>3. ASSUME NEW i \in pass'
        PROVE  (Unheard(i) /\ ~up[i[2]] /\ row[i].attempts > 0)' =>
                 Lasted(i[2], Ramp(row[i].attempts) - MaxPass + elapsed)'
    BY DEF Unheard, Lasted
  <1> QED
    BY <1>1, <1>2, <1>3 DEF OutageInv

\* A row read by a pass is due: its backoffs are behind it.
LEMMA PassStartOutage == ASSUME OutboxInv, OutageInv, NEW S \in SUBSET Due, PassStart(S)
                         PROVE  OutageInv'
  <1>1. /\ UNCHANGED <<row, mem, up, outage, outages, delivered>> /\ elapsed' = 0 /\ pass' = S
    BY DEF PassStart
  <1>2. ASSUME NEW i \in S, Unheard(i), ~up[i[2]], row[i].attempts > 0
        PROVE  Lasted(i[2], Ramp(row[i].attempts) - MaxPass + 0)
    <2>1. i \in Items /\ row[i].state = "pending" /\ row[i].wait <= 0
      BY DEF Due
    <2>2. Waited(i, row[i]) /\ outage[i[2]] \in Nat
      BY <2>1, Channel DEF OutageInv, ChannelTypes
    <2>3. PICK n \in Nat : n = row[i].attempts
      BY <2>2 DEF Waited, Countdown
    <2>4. PICK w \in Int : w = row[i].wait
      BY <2>2 DEF Waited, Countdown
    <2>5. PICK x \in Int : x = Ramp(n)
      BY RampAdds
    <2>6. Lasted(i[2], x - MaxPass - w)
      BY <1>2, <2>1, <2>2, <2>3, <2>4, <2>5 DEF Waited
    <2>7. w <= 0
      BY <2>1, <2>4
    <2>8. Lasted(i[2], x - MaxPass + 0)
      BY <2>2, <2>6, <2>7, Numbers DEF Lasted
    <2> QED
      BY <2>3, <2>5, <2>8
  <1>3. S \subseteq Items
    BY DEF Due
  <1>4. elapsed' \in 0 .. MaxPass
    BY <1>1, Numbers
  <1> QED
    BY <1>1, <1>2, <1>3, <1>4, OutageKept DEF OutageInv

\* A row that has come through is no longer unheard of, whatever the pass writes to it.
LEMMA ArrivedOutage ==
  ASSUME OutboxInv, OutageInv, NEW i \in Items, i \in pass, NEW r, Countdown(r),
         delivered' = [delivered EXCEPT ![i] = @ + 1], Attempt(i, r)
  PROVE  OutageInv'
  <1>1. /\ UNCHANGED <<row, elapsed, up, outage, outages>> /\ pass' = pass \ {i}
        /\ mem' = [mem EXCEPT ![i] = r] /\ mem = [j \in Items |-> mem[j]]
    BY DEF Attempt, OutboxInv, Shape
  <1>2. mem'[i] = r /\ \A j \in Items : j # i => mem'[j] = mem[j]
    BY <1>1
  <1>3. /\ delivered[i] \in Nat /\ delivered'[i] = delivered[i] + 1
        /\ \A j \in Items : j # i => delivered'[j] = delivered[j]
    BY DEF OutboxInv, Shape
  <1>4. delivered'[i] # 0
    BY <1>3
  <1>5. ASSUME NEW j \in Items
        PROVE  /\ delivered'[j] = 0 => delivered[j] = 0
               /\ Waited(j, row'[j])
               /\ Waited(j, mem'[j]) \/ (delivered'[j] # 0 /\ Countdown(mem'[j]))
    BY <1>1, <1>2, <1>3, <1>4 DEF OutageInv
  <1>6. elapsed' \in 0 .. MaxPass /\ pass' \subseteq Items
    BY <1>1 DEF OutageInv, ChannelTypes, OutboxInv, Shape
  <1> QED
    BY <1>1, <1>5, <1>6, OutageKept DEF OutageInv

\* What an attempt writes counts attempts below the limit while it leaves the row pending.
LEMMA AttemptCounts ==
  ASSUME OutageInv, NEW i \in Items
  PROVE  Countdown(Sent(i)) /\ Countdown(Failed(i))
  <1>1. PICK a \in Nat : a = row[i].attempts
    BY DEF OutageInv, Waited, Countdown
  <1>2. PICK b \in Int : b = Backoff(a + 1)
    BY RampAdds
  <1>3. elapsed \in Int
    BY Numbers DEF OutageInv, ChannelTypes
  <1>4. Countdown(Sent(i))
    BY <1>1 DEF Sent, Countdown
  <1>5. CASE a + 1 >= MaxAttempts
    <2>1. Failed(i) = [state |-> "failed", attempts |-> a + 1, wait |-> 0]
      BY <1>1, <1>5 DEF Failed
    <2> QED
      BY <1>1, <1>4, <2>1 DEF Countdown
  <1>6. CASE ~ (a + 1 >= MaxAttempts)
    <2>1. Failed(i) = [state |-> "pending", attempts |-> a + 1, wait |-> b - elapsed]
      BY <1>1, <1>2, <1>6 DEF Failed
    <2> QED
      BY <1>1, <1>2, <1>3, <1>4, <1>6, <2>1, Numbers DEF Countdown
  <1> QED
    BY <1>5, <1>6

\* A failed attempt adds its backoff to what its channel has been down for, and the last one
\* finds that it was down for all of them.
LEMMA SendFailsOutage == ASSUME OutboxInv, OutageInv, NEW i \in Items, SendFails(i)
                         PROVE  OutageInv'
  <1>1. /\ i \in pass /\ ~up[i[2]] /\ Attempt(i, Failed(i)) /\ delivered' = delivered
    BY DEF SendFails, Current
  <1>2. /\ UNCHANGED <<row, elapsed, up, outage, outages>> /\ pass' = pass \ {i}
        /\ mem' = [mem EXCEPT ![i] = Failed(i)] /\ mem = [j \in Items |-> mem[j]]
    BY <1>1 DEF Attempt, OutboxInv, Shape
  <1>3. mem'[i] = Failed(i) /\ \A j \in Items : j # i => mem'[j] = mem[j]
    BY <1>2
  <1>4. Waited(i, Failed(i))
    <2>1. Waited(i, row[i]) /\ row[i].state = "pending" /\ Countdown(Failed(i))
      BY <1>1, AttemptCounts DEF OutageInv, OutboxInv, PassInv
    <2>2. PICK a \in Nat : a = row[i].attempts
      BY <2>1 DEF Waited, Countdown
    <2>3. a < MaxAttempts
      BY <2>1, <2>2 DEF Waited, Countdown
    <2>4. PICK t \in Targets : t = i[2]
      BY Channel
    <2>5. outage[t] \in Nat /\ outages[t] \in Nat /\ (outages[t] = 0 => up[t]) /\ elapsed \in 0 .. MaxPass
      BY DEF OutageInv, ChannelTypes
    <2>6. outages[t] > 0
      BY <1>1, <2>4, <2>5
    <2>7. PICK x \in Int : x = Ramp(a)
      BY RampAdds
    <2>8. PICK b \in Int : b = Backoff(a + 1)
      BY RampAdds
    <2>9. Ramp(a + 1) = x + b
      BY <2>7, <2>8, RampAdds
    <2>10. Unheard(i) => Lasted(t, x - MaxPass + elapsed)
      <3>1. CASE a = 0
        <4>1. x = 0
          BY <2>7, <3>1, RampAdds
        <4> QED
          BY <2>5, <4>1, Numbers DEF Lasted
      <3>2. CASE a > 0
        BY <1>1, <2>2, <2>4, <2>7, <3>2 DEF OutageInv
      <3> QED
        BY <3>1, <3>2
    <2>11. CASE a + 1 >= MaxAttempts
      <3>1. Failed(i) = [state |-> "failed", attempts |-> a + 1, wait |-> 0]
        BY <2>2, <2>11 DEF Failed
      <3>2. a = MaxAttempts - 1
        BY <2>3, <2>11, Numbers
      <3>3. Patience = x - MaxPass
        BY <2>7, <3>2, RampAdds
      <3>4. Unheard(i) => outage[t] >= Patience
        BY <2>5, <2>10, <3>3, Numbers DEF Lasted
      <3> QED
        BY <2>1, <2>4, <2>6, <3>1, <3>4 DEF Waited
    <2>12. CASE ~ (a + 1 >= MaxAttempts)
      <3>1. Failed(i) = [state |-> "pending", attempts |-> a + 1, wait |-> b - elapsed]
        BY <2>2, <2>8, <2>12 DEF Failed
      <3>2. (x + b) - MaxPass - (b - elapsed) = x - MaxPass + elapsed
        BY <2>5, Numbers
      <3>3. Unheard(i) => Lasted(t, Ramp(a + 1) - MaxPass - (b - elapsed))
        BY <2>9, <2>10, <3>2
      <3> QED
        BY <2>1, <2>4, <2>6, <3>1, <3>3 DEF Waited
    <2> QED
      BY <2>11, <2>12
  <1>5. elapsed' \in 0 .. MaxPass /\ pass' \subseteq Items
    BY <1>2 DEF OutageInv, ChannelTypes, OutboxInv, Shape
  <1>6. ASSUME NEW j \in Items PROVE Waited(j, row'[j]) /\ Waited(j, mem'[j])
    BY <1>2, <1>3, <1>4 DEF OutageInv
  <1> QED
    BY <1>1, <1>2, <1>5, <1>6, OutageKept DEF OutageInv

\* The transaction's rows become the table's, or are given up; what is queued is new, what is
\* deleted is gone.
LEMMA MovedOutage ==
  ASSUME OutageInv, UNCHANGED <<up, outage, outages, delivered, elapsed>>,
         \A i \in Items : /\ row'[i] \in {row[i], mem[i], NoRow, Queued}
                          /\ mem'[i] \in {mem[i], NoRow},
         pass' \subseteq pass, pass \subseteq Items, \A i \in pass' : row'[i] = row[i]
  PROVE  OutageInv'
  <1>1. ASSUME NEW i \in Items PROVE Waited(i, row'[i]) /\ Waited(i, mem'[i])
    BY FreshWaits DEF OutageInv
  <1>2. elapsed' \in 0 .. MaxPass
    BY DEF OutageInv, ChannelTypes
  <1> QED
    BY <1>1, <1>2, OutageKept DEF OutageInv

LEMMA CommitOutage == ASSUME OutboxInv, OutageInv, Commit PROVE OutageInv'
  <1>1. /\ row' = [i \in Items |-> IF mem[i] = NoRow THEN row[i] ELSE mem[i]]
        /\ mem' = [i \in Items |-> NoRow] /\ UNCHANGED <<pass, elapsed, up, outage, outages, delivered>>
    BY DEF Commit
  <1>2. \A i \in Items : /\ mem'[i] = NoRow
                         /\ row'[i] = IF mem[i] = NoRow THEN row[i] ELSE mem[i]
    BY <1>1
  <1>3. \A i \in pass : mem[i] = NoRow /\ i \in Items
    BY DEF OutboxInv, PassInv, Shape
  <1> QED
    BY <1>1, <1>2, <1>3, MovedOutage

LEMMA RollbackOutage == ASSUME OutboxInv, OutageInv, StepFails \/ PowerCut PROVE OutageInv'
  <1>1. /\ mem' = [i \in Items |-> NoRow] /\ pass' = {}
        /\ UNCHANGED <<row, elapsed, up, outage, outages, delivered>>
    BY DEF StepFails, PowerCut
  <1>2. \A i \in Items : mem'[i] = NoRow
    BY <1>1
  <1> QED
    BY <1>1, <1>2, MovedOutage DEF OutboxInv, Shape

\* Time passes alike for a row that waits and for a channel that is down.
LEMMA SoonerWaits ==
  ASSUME OutageInv, ElapseOutbox, NEW i \in Items, NEW r, IsRow(r), Waited(i, r)
  PROVE  /\ Countdown(Sooner(r)) /\ Sooner(r).state = r.state /\ Sooner(r).attempts = r.attempts
         /\ Unheard(i) /\ ~up[i[2]] /\ r.state = "pending" /\ r.attempts > 0 =>
              outage'[i[2]] >= Patience
              \/ outage'[i[2]] >= Ramp(r.attempts) - MaxPass - Sooner(r).wait
  <1>1. PICK n \in Nat : n = r.attempts
    BY DEF Waited, Countdown
  <1>2. PICK w \in Int : w = r.wait
    BY DEF Waited, Countdown
  <1>3. PICK s : s = r.state
    OBVIOUS
  <1>4. r = [state |-> s, attempts |-> n, wait |-> w]
    BY <1>1, <1>2, <1>3 DEF IsRow
  <1>5. CASE s # "pending"
    BY <1>3, <1>5 DEF Sooner, Waited
  <1>6. CASE s = "pending"
    <2>1. PICK v \in Int : v = (IF w > -MaxOverdue THEN w - 1 ELSE w) /\ v >= w - 1
      BY Numbers
    <2>2. Sooner(r) = [r EXCEPT !.wait = v]
      BY <1>2, <1>3, <1>6, <2>1 DEF Sooner
    <2>3. Sooner(r) = [state |-> s, attempts |-> n, wait |-> v]
      BY <1>4, <2>2
    <2>4. Countdown(Sooner(r))
      BY <1>1, <1>3, <1>6, <2>1, <2>3 DEF Waited, Countdown
    <2>5. ASSUME Unheard(i), ~up[i[2]], n > 0
          PROVE  outage'[i[2]] >= Patience \/ outage'[i[2]] >= Ramp(n) - MaxPass - v
      <3>1. PICK t \in Targets : t = i[2]
        BY Channel
      <3>2. outage[t] \in Nat
        BY DEF OutageInv, ChannelTypes
      <3>3. outage'[t] = IF outage[t] < Patience THEN outage[t] + 1 ELSE outage[t]
        BY <2>5, <3>1 DEF ElapseOutbox
      <3>4. PICK x \in Int : x = Ramp(n)
        BY RampAdds
      <3>5. PICK p \in Int : p = Patience
        BY RampAdds
      <3>6. outage[t] >= p \/ outage[t] >= x - MaxPass - w
        BY <1>1, <1>2, <1>3, <1>6, <2>5, <3>1, <3>4, <3>5 DEF Waited, Lasted
      <3>7. outage'[t] >= p \/ outage'[t] >= x - MaxPass - v
        BY <2>1, <3>2, <3>3, <3>5, <3>6, Numbers
      <3> QED
        BY <3>1, <3>4, <3>5, <3>7
    <2> QED
      BY <1>1, <1>3, <2>3, <2>4, <2>5
  <1> QED
    BY <1>5, <1>6

LEMMA ElapseOutage == ASSUME OutboxInv, OutageInv, ElapseOutbox PROVE OutageInv'
  <1>1. /\ step = "sending" => elapsed < MaxPass
        /\ elapsed' = IF step = "sending" THEN elapsed + 1 ELSE elapsed
        /\ row' = [i \in Items |-> Sooner(row[i])] /\ mem' = [i \in Items |-> Sooner(mem[i])]
        /\ outage' = [t \in Targets |->
                        IF ~up[t] /\ outage[t] < Patience THEN outage[t] + 1 ELSE outage[t]]
        /\ UNCHANGED <<pass, step, up, outages, delivered>>
    BY DEF ElapseOutbox
  <1>2. \A t \in Targets : /\ outage[t] \in Nat
                           /\ outage'[t] = IF ~up[t] /\ outage[t] < Patience THEN outage[t] + 1
                                                                             ELSE outage[t]
    BY <1>1 DEF OutageInv, ChannelTypes
  <1>3. \A t \in Targets : outage'[t] \in Nat /\ outage'[t] >= outage[t]
    BY <1>2
  <1>4. ChannelTypes'
    <2>1. elapsed' \in 0 .. MaxPass
      BY <1>1, Numbers DEF OutageInv, ChannelTypes
    <2>2. outage' \in [Targets -> Nat]
      BY <1>1, <1>3
    <2> QED
      BY <1>1, <2>1, <2>2 DEF OutageInv, ChannelTypes
  <1>5. ASSUME NEW i \in Items, NEW r, IsRow(r), Waited(i, r), NEW q, q = Sooner(r)
        PROVE  /\ Countdown(q)
               /\ Unheard(i) /\ q.attempts > 0 => outages[i[2]] > 0 \/ q.state = "sent"
               /\ Unheard(i) /\ q.state = "failed" => outage'[i[2]] >= Patience
               /\ Unheard(i) /\ ~up[i[2]] /\ q.state = "pending" /\ q.attempts > 0 =>
                    outage'[i[2]] >= Patience
                    \/ outage'[i[2]] >= Ramp(q.attempts) - MaxPass - q.wait
    <2>1. /\ Countdown(q) /\ q.state = r.state /\ q.attempts = r.attempts
          /\ Unheard(i) /\ ~up[i[2]] /\ r.state = "pending" /\ r.attempts > 0 =>
               outage'[i[2]] >= Patience
               \/ outage'[i[2]] >= Ramp(r.attempts) - MaxPass - q.wait
      BY <1>5, SoonerWaits
    <2>2. Unheard(i) /\ r.state = "failed" => outage'[i[2]] >= Patience
      BY <1>3, <1>5, Channel, RampAdds, <1>2 DEF Waited
    <2> QED
      BY <1>5, <2>1, <2>2 DEF Waited
  <1>6. ASSUME NEW i \in Items PROVE Waited(i, row[i])' /\ Waited(i, mem[i])'
    <2>1. row'[i] = Sooner(row[i]) /\ mem'[i] = Sooner(mem[i])
      BY <1>1
    <2>2. Waited(i, row[i]) /\ Waited(i, mem[i]) /\ IsRow(row[i]) /\ IsRow(mem[i])
      BY DEF OutageInv, OutboxInv, Shape
    <2>3. UNCHANGED <<up, outages, delivered>>
      BY <1>1
    <2>4. Waited(i, row[i])'
      BY <1>5, <2>1, <2>2, <2>3 DEF Waited, Unheard, Lasted, Countdown
    <2>5. Waited(i, mem[i])'
      BY <1>5, <2>1, <2>2, <2>3 DEF Waited, Unheard, Lasted, Countdown
    <2> QED
      BY <2>4, <2>5
  <1>7. ASSUME NEW i \in pass', Unheard(i)', ~up'[i[2]], row'[i].attempts > 0
        PROVE  Lasted(i[2], Ramp(row[i].attempts) - MaxPass + elapsed)'
    <2>1. i \in pass /\ i \in Items /\ Unheard(i) /\ ~up[i[2]]
      BY <1>1, <1>7 DEF OutboxInv, Shape, Unheard
    <2>2. row'[i].attempts = row[i].attempts
      <3>1. row'[i] = Sooner(row[i])
        BY <1>1, <2>1
      <3> QED
        BY <2>1, <3>1, SoonerWaits DEF OutageInv, OutboxInv, Shape
    <2>3. PICK n \in Nat : n = row[i].attempts
      BY <2>1 DEF OutageInv, Waited, Countdown
    <2>4. PICK x \in Int : x = Ramp(n)
      BY RampAdds
    <2>5. PICK p \in Int : p = Patience
      BY RampAdds
    <2>6. PICK t \in Targets : t = i[2]
      BY <2>1, Channel
    <2>7. outage[t] >= p \/ outage[t] >= x - MaxPass + elapsed
      BY <1>7, <2>1, <2>2, <2>3, <2>4, <2>5, <2>6 DEF OutageInv, Lasted
    <2>8. step = "sending" /\ elapsed' = elapsed + 1 /\ elapsed \in Int
      BY <1>1, <2>1, Numbers DEF OutboxInv, PassInv, OutageInv, ChannelTypes
    <2>9. outage[t] \in Nat /\ outage'[t] = IF outage[t] < p THEN outage[t] + 1 ELSE outage[t]
      BY <1>2, <2>1, <2>5, <2>6
    <2>10. outage'[t] >= p \/ outage'[t] >= x - MaxPass + elapsed'
      BY <2>7, <2>8, <2>9, Numbers
    <2> QED
      BY <2>2, <2>3, <2>4, <2>5, <2>6, <2>10 DEF Lasted
  <1> QED
    BY <1>4, <1>6, <1>7 DEF OutageInv

\* A channel that goes down for the first time has failed nothing before.
LEMMA ChannelDownOutage == ASSUME OutboxInv, OutageInv, NEW t \in Targets, ChannelDown(t)
                           PROVE  OutageInv'
  <1>1. /\ up[t] /\ up' = [up EXCEPT ![t] = FALSE] /\ outages' = [outages EXCEPT ![t] = @ + 1]
        /\ UNCHANGED <<row, mem, pass, elapsed, outage, delivered>>
    BY DEF ChannelDown
  <1>2. outages \in [Targets -> Nat] /\ up \in [Targets -> BOOLEAN]
    BY DEF OutageInv, ChannelTypes
  <1>3. /\ outages'[t] = outages[t] + 1 /\ ~up'[t] /\ outages[t] \in Nat
        /\ \A c \in Targets : c # t => outages'[c] = outages[c] /\ up'[c] = up[c]
    BY <1>1, <1>2
  <1>4. ChannelTypes'
    BY <1>1, <1>3 DEF OutageInv, ChannelTypes
  <1>5. ASSUME NEW i \in Items, NEW r, Waited(i, r)
        PROVE  /\ Countdown(r)
               /\ Unheard(i)' /\ r.attempts > 0 => outages'[i[2]] > 0 \/ r.state = "sent"
               /\ Unheard(i)' /\ r.state = "failed" => outage[i[2]] >= Patience
               /\ Unheard(i)' /\ ~up'[i[2]] /\ r.state = "pending" /\ r.attempts > 0 =>
                    Lasted(i[2], Ramp(r.attempts) - MaxPass - r.wait)
    <2>1. CASE i[2] = t
      <3>1. Unheard(i)' => Unheard(i) /\ outages[t] = 0
        BY <1>1, <1>3, <2>1 DEF Unheard
      <3>2. Unheard(i)' => ~ (r.attempts > 0) \/ r.state = "sent"
        BY <1>5, <2>1, <3>1 DEF Waited
      <3>3. outages'[i[2]] > 0
        BY <1>3, <2>1
      <3> QED
        BY <1>5, <3>1, <3>2, <3>3 DEF Waited
    <2>2. CASE i[2] # t
      <3>1. Unheard(i)' => Unheard(i)
        BY <1>1, <1>3, <2>2, Channel DEF Unheard
      <3> QED
        BY <1>3, <1>5, <2>2, <3>1, Channel DEF Waited
    <2> QED
      BY <2>1, <2>2
  <1>6. ASSUME NEW i \in Items PROVE Waited(i, row[i])' /\ Waited(i, mem[i])'
    <2>1. Waited(i, row[i]) /\ Waited(i, mem[i])
      BY DEF OutageInv
    <2> QED
      BY <1>1, <1>5, <2>1 DEF Waited, Lasted, Countdown
  <1>7. ASSUME NEW i \in pass', Unheard(i)', ~up'[i[2]], row'[i].attempts > 0
        PROVE  Lasted(i[2], Ramp(row[i].attempts) - MaxPass + elapsed)'
    <2>1. i \in pass /\ i \in Items /\ Waited(i, row[i]) /\ row[i].state = "pending"
      BY <1>1, <1>7 DEF OutboxInv, Shape, PassInv, OutageInv
    <2>2. i[2] # t
      BY <1>1, <1>3, <1>7, <2>1 DEF Unheard, Waited
    <2>3. Unheard(i) /\ ~up[i[2]]
      BY <1>1, <1>3, <1>7, <2>1, <2>2, Channel DEF Unheard
    <2> QED
      BY <1>1, <1>7, <2>1, <2>3 DEF OutageInv, Lasted
  <1> QED
    BY <1>4, <1>6, <1>7 DEF OutageInv

\* A channel that comes back asks nothing more of its rows.
LEMMA ChannelUpOutage == ASSUME OutboxInv, OutageInv, NEW t \in Targets, ChannelUp(t)
                         PROVE  OutageInv'
  <1>1. /\ up' = [up EXCEPT ![t] = TRUE]
        /\ UNCHANGED <<row, mem, pass, elapsed, outage, outages, delivered>>
    BY DEF ChannelUp
  <1>2. \A c \in Targets : up[c] => up'[c]
    BY <1>1 DEF OutageInv, ChannelTypes
  <1>3. ChannelTypes'
    BY <1>1, <1>2 DEF OutageInv, ChannelTypes
  <1>4. \A i \in Items : Waited(i, row[i])' /\ Waited(i, mem[i])'
    BY <1>1, <1>2, Channel DEF OutageInv, Waited, Unheard, Lasted, Countdown
  <1>5. ASSUME NEW i \in pass', Unheard(i)', ~up'[i[2]], row'[i].attempts > 0
        PROVE  Lasted(i[2], Ramp(row[i].attempts) - MaxPass + elapsed)'
    BY <1>1, <1>2, <1>5, Channel DEF OutageInv, Unheard, Lasted, OutboxInv, Shape
  <1> QED
    BY <1>3, <1>4, <1>5 DEF OutageInv

\* Every step of the dispatcher and of what the outbox undergoes.
LEMMA OutageStep ==
  ASSUME OutboxInv, OutageInv, Dispatch \/ TickEnd \/ Environment \/ ElapseOutbox
  PROVE  OutageInv'
  <1>1. ASSUME NEW i \in Items, SendOk(i) \/ AnswerLost(i) PROVE OutageInv'
    <2>1. /\ i \in pass /\ delivered' = [delivered EXCEPT ![i] = @ + 1]
          /\ Attempt(i, Sent(i)) \/ Attempt(i, Failed(i))
      BY <1>1 DEF SendOk, AnswerLost, Current
    <2> QED
      BY <2>1, ArrivedOutage, AttemptCounts
  <1>2. CASE TickEnd
    BY <1>2, MovedOutage DEF TickEnd, OutboxInv, Shape
  <1>3. CASE Dispatch
    BY <1>1, <1>3, PassStartOutage, SendFailsOutage, CommitOutage DEF Dispatch
  <1>4. CASE Environment
    BY <1>1, <1>4, RollbackOutage, ChannelDownOutage, ChannelUpOutage DEF Environment
  <1> QED
    BY <1>2, <1>3, <1>4, ElapseOutage

\* What is given up unheard of was worth the whole patience.
LEMMA OutageGivesUp == OutageInv => OutageOnlyDelays
  BY DEF OutageInv, OutageOnlyDelays, Waited, Unheard
===============================================================================
