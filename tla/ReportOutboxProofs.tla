-------------------------- MODULE ReportOutboxProofs --------------------------
(***************************************************************************)
(* A shift report is queued once for each recipient, and a fault repeats   *)
(* at most one message over all recipients; for any shifts, recipients,    *)
(* delays, batches and numbers of faults.  The calendar of shifts the      *)
(* reports follow is exact, for any definitions.                           *)
(***************************************************************************)
EXTENDS ReportOutbox, OutboxProofs, Shifts, FiniteSetTheorems, WellFoundedInduction

\* Deliveries outlive the time in which a shift is caught up; rows are committed one by one.
LEMMA Settings ==
  /\ Delay \in Nat /\ CatchUp \in Nat /\ Retain \in Nat /\ Delay + CatchUp <= Retain + 1
  /\ CommitEach /\ IsFiniteSet(Items)
  <1>1. IsFiniteSet(Sources \X Targets)
    BY ReportAssumption, FS_Product DEF ReportAssumption
  <1> QED
    BY <1>1, ReportAssumption DEF ReportAssumption, Items

ReportTypes ==
  /\ age \in [Sources -> Int] /\ queuedTimes \in [Items -> Nat] /\ resent \in Nat

\* A recipient is queued once: a row that is gone again is of a shift past its catching up.
QueueInv ==
  \A i \in Items :
    /\ queuedTimes[i] <= 1
    /\ queuedTimes[i] = 0 => row[i].state = "none" /\ delivered[i] = 0
    /\ queuedTimes[i] = 1 /\ row[i].state = "none" => age[i[1]] > Retain

\* The transaction holds one row at most.
OneAtATime == \A i, j \in Items : mem[i] # NoRow /\ mem[j] # NoRow => i = j

\* Messages that have arrived and will be sent again all the same.
Owed == {i \in Items : /\ row[i].state = "pending" /\ mem[i].state # "sent"
                       /\ queuedTimes[i] <= delivered[i]}

\* Each message sent again, or still to be sent again, has its own fault.
OwedInv == resent + Cardinality(Owed) <= faults

IndInv == OutboxInv /\ ReportTypes /\ QueueInv /\ OneAtATime /\ OwedInv

\* A message is of a shift.
LEMMA ItemShift == \A i \in Items : i[1] \in Sources
  BY DEF Items

\* Horizon bounds ages for the model checker; past it no rule tells ages apart.
LEMMA HorizonBound == Horizon \in Nat /\ Horizon > Retain
  <1> DEFINE a == Delay + CatchUp
             b == Retain + 1
  <1>1. a \in Nat /\ b \in Nat
    BY Settings
  <1>2. \E x \in {a, b} : \A y \in {a, b} : x >= y
    BY <1>1
  <1>3. Horizon \in {a, b} /\ \A y \in {a, b} : Horizon >= y
    BY <1>2 DEF Horizon, Max
  <1> QED
    BY <1>1, <1>3, Settings

\* The owed messages are finitely many, now and after any step.
LEMMA OwedFinite ==
  /\ IsFiniteSet(Owed) /\ Cardinality(Owed) \in Nat
  /\ IsFiniteSet(Owed') /\ Cardinality(Owed') \in Nat
  <1>1. Owed \in SUBSET Items /\ Owed' \in SUBSET Items
    BY DEF Owed
  <1>2. IsFiniteSet(Owed) /\ IsFiniteSet(Owed')
    BY <1>1, Settings, FS_Subset
  <1> QED
    BY <1>2, FS_CardinalityType

\* Fewer messages owed.
LEMMA OwedShrinks == ASSUME Owed' \subseteq Owed
                     PROVE  Cardinality(Owed') <= Cardinality(Owed)
  BY OwedFinite, FS_Subset

\* At most one more message owed.
LEMMA OwedGrows == ASSUME NEW i, Owed' \subseteq Owed \cup {i}
                   PROVE  Cardinality(Owed') <= Cardinality(Owed) + 1
  <1>1. /\ IsFiniteSet(Owed \cup {i})
        /\ Cardinality(Owed \cup {i}) = IF i \in Owed THEN Cardinality(Owed)
                                                      ELSE Cardinality(Owed) + 1
    BY OwedFinite, FS_AddElement
  <1>2. Owed' \in SUBSET (Owed \cup {i})
    OBVIOUS
  <1>3. Cardinality(Owed') <= Cardinality(Owed \cup {i})
    BY <1>1, <1>2, FS_Subset
  <1> QED
    BY <1>1, <1>3, OwedFinite

\* One message owed less.
LEMMA OwedPaid == ASSUME NEW i, i \in Owed, Owed' \subseteq Owed \ {i}
                  PROVE  Cardinality(Owed') + 1 <= Cardinality(Owed)
  <1>1. IsFiniteSet(Owed \ {i}) /\ Cardinality(Owed \ {i}) = Cardinality(Owed) - 1
    BY OwedFinite, FS_RemoveElement
  <1>2. Owed' \in SUBSET (Owed \ {i})
    OBVIOUS
  <1>3. Cardinality(Owed') <= Cardinality(Owed \ {i})
    BY <1>1, <1>2, FS_Subset
  <1> QED
    BY <1>1, <1>3, OwedFinite

\* No shift has ended at the start.
LEMMA InitInv == Init => IndInv
  <1> SUFFICES ASSUME Init PROVE IndInv
    OBVIOUS
  <1>1. OutboxInv
    BY OutboxInitInv DEF Init
  <1>2. ReportTypes
    BY DEF Init, ReportTypes
  <1>3. QueueInv /\ OneAtATime
    BY DEF Init, OutboxInit, QueueInv, OneAtATime, NoRow
  <1>4. Owed = {}
    BY DEF Init, OutboxInit, Owed, NoRow
  <1>5. OwedInv
    BY <1>4, FS_EmptySet DEF OwedInv, Init, OutboxInit
  <1> QED
    BY <1>1, <1>2, <1>3, <1>5 DEF IndInv

\* Rows that exist keep to the queueing of their recipient.
LEMMA QueueKept == ASSUME IndInv, Frame, UNCHANGED queuedTimes,
                          \A s \in Sources : age'[s] \in Int /\ (age[s] > Retain => age'[s] > Retain)
                   PROVE  QueueInv'
  BY ItemShift DEF IndInv, QueueInv, Frame, OutboxInv, Shape

\* A message that arrives: resent counts it if its recipient has had it.
LEMMA ResentBy ==
  ASSUME IndInv, NEW i \in Items, delivered' = [delivered EXCEPT ![i] = @ + 1], CountResent
  PROVE  /\ resent' \in Nat
         /\ queuedTimes[i] <= delivered[i] => resent' = resent + 1
         /\ ~ (queuedTimes[i] <= delivered[i]) => resent' = resent
  <1>1. /\ delivered[i] \in Nat /\ delivered'[i] = delivered[i] + 1
        /\ \A j \in Items : j # i => delivered'[j] = delivered[j]
    BY DEF IndInv, OutboxInv, Shape
  <1>2. delivered'[i] # delivered[i]
    BY <1>1
  <1>3. (\E j \in Items : delivered'[j] # delivered[j] /\ queuedTimes[j] <= delivered[j])
          <=> queuedTimes[i] <= delivered[i]
    BY <1>1, <1>2
  <1> QED
    BY <1>3 DEF CountResent, IndInv, ReportTypes

\* Nothing arrives.
LEMMA NothingResent == ASSUME IndInv, UNCHANGED delivered, CountResent
                       PROVE  resent' = resent /\ resent' \in Nat
  BY DEF CountResent, IndInv, ReportTypes

\* An attempt is made with a clean transaction.
LEMMA AttemptAlone ==
  ASSUME IndInv, NEW i \in Items, Current(i), NEW r, IsRow(r), r.state # "none", Attempt(i, r)
  PROVE  /\ mem'[i] = r /\ (\A j \in Items : j # i => mem'[j] = mem[j]) /\ row' = row
         /\ row[i].state = "pending" /\ mem[i].state = "none" /\ OneAtATime'
  <1>1. Clean /\ i \in pass /\ step = "sending"
    BY Settings DEF Current
  <1>2. mem'[i] = r /\ (\A j \in Items : j # i => mem'[j] = mem[j]) /\ row' = row
    BY <1>1, AttemptShape DEF IndInv
  <1>3. row[i].state = "pending" /\ mem[i].state = "none"
    BY <1>1 DEF IndInv, OutboxInv, PassInv, NoRow
  <1>4. OneAtATime'
    BY <1>1, <1>2 DEF Clean, OneAtATime
  <1> QED
    BY <1>2, <1>3, <1>4

\* A success settles what is owed to the recipient.
LEMMA SendOkOwed == ASSUME IndInv, NEW i \in Items, SendOk(i), CountResent, UNCHANGED queuedTimes
                    PROVE  OwedInv' /\ OneAtATime' /\ resent' \in Nat
  <1> USE DEF IndInv
  <1>1. /\ Current(i) /\ Attempt(i, Sent(i)) /\ faults' = faults
        /\ delivered' = [delivered EXCEPT ![i] = @ + 1]
    BY DEF SendOk
  <1>2. IsRow(Sent(i)) /\ Sent(i).state = "sent"
    BY AttemptRows
  <1>3. /\ mem'[i] = Sent(i) /\ (\A j \in Items : j # i => mem'[j] = mem[j]) /\ row' = row
        /\ row[i].state = "pending" /\ mem[i].state = "none" /\ OneAtATime'
    BY <1>1, <1>2, AttemptAlone
  <1>4. \A j \in Items : j # i => delivered'[j] = delivered[j]
    BY <1>1 DEF OutboxInv, Shape
  <1>5. Owed' \subseteq Owed \ {i}
    BY <1>2, <1>3, <1>4 DEF Owed
  <1>6. CASE queuedTimes[i] <= delivered[i]
    <2>1. i \in Owed
      BY <1>3, <1>6 DEF Owed
    <2>2. Cardinality(Owed') + 1 <= Cardinality(Owed)
      BY <1>5, <2>1, OwedPaid
    <2>3. resent' = resent + 1 /\ resent' \in Nat
      BY <1>1, <1>6, ResentBy
    <2> QED
      BY <1>1, <1>3, <2>2, <2>3, OwedFinite DEF OwedInv, ReportTypes, OutboxInv, Shape
  <1>7. CASE ~ (queuedTimes[i] <= delivered[i])
    <2>1. Cardinality(Owed') <= Cardinality(Owed)
      BY <1>5, OwedShrinks
    <2>2. resent' = resent /\ resent' \in Nat
      BY <1>1, <1>7, ResentBy
    <2> QED
      BY <1>1, <1>3, <2>1, <2>2, OwedFinite DEF OwedInv, ReportTypes, OutboxInv, Shape
  <1> QED
    BY <1>6, <1>7

\* A lost answer: the message is owed from now on, or sent again and still owed.
LEMMA AnswerLostOwed ==
  ASSUME IndInv, NEW i \in Items, AnswerLost(i), CountResent, UNCHANGED queuedTimes
  PROVE  OwedInv' /\ OneAtATime' /\ resent' \in Nat
  <1> USE DEF IndInv
  <1>1. /\ Current(i) /\ Attempt(i, Failed(i)) /\ faults' = faults + 1
        /\ delivered' = [delivered EXCEPT ![i] = @ + 1]
    BY DEF AnswerLost
  <1>2. IsRow(Failed(i)) /\ Failed(i).state \in {"pending", "failed"}
    BY AttemptRows
  <1>3. /\ mem'[i] = Failed(i) /\ (\A j \in Items : j # i => mem'[j] = mem[j]) /\ row' = row
        /\ row[i].state = "pending" /\ mem[i].state = "none" /\ OneAtATime'
    BY <1>1, <1>2, AttemptAlone
  <1>4. \A j \in Items : j # i => delivered'[j] = delivered[j]
    BY <1>1 DEF OutboxInv, Shape
  <1>5. Owed' \subseteq Owed \cup {i}
    BY <1>3, <1>4 DEF Owed
  <1>6. CASE queuedTimes[i] <= delivered[i]
    <2>1. i \in Owed
      BY <1>3, <1>6 DEF Owed
    <2>2. Cardinality(Owed') <= Cardinality(Owed)
      BY <1>5, <2>1, OwedShrinks
    <2>3. resent' = resent + 1 /\ resent' \in Nat
      BY <1>1, <1>6, ResentBy
    <2> QED
      BY <1>1, <1>3, <2>2, <2>3, OwedFinite DEF OwedInv, ReportTypes, OutboxInv, Shape
  <1>7. CASE ~ (queuedTimes[i] <= delivered[i])
    <2>1. Cardinality(Owed') <= Cardinality(Owed) + 1
      BY <1>5, OwedGrows
    <2>2. resent' = resent /\ resent' \in Nat
      BY <1>1, <1>7, ResentBy
    <2> QED
      BY <1>1, <1>3, <2>1, <2>2, OwedFinite DEF OwedInv, ReportTypes, OutboxInv, Shape
  <1> QED
    BY <1>6, <1>7

\* A fault rolls back one row at most, so it makes one message at most owed.
LEMMA RollbackOwed ==
  ASSUME IndInv, StepFails \/ PowerCut, CountResent, UNCHANGED queuedTimes
  PROVE  OwedInv' /\ OneAtATime' /\ resent' \in Nat
  <1> USE DEF IndInv
  <1>1. /\ faults' = faults + 1 /\ mem' = [i \in Items |-> NoRow] /\ row' = row
        /\ delivered' = delivered
    BY DEF StepFails, PowerCut
  <1>2. resent' = resent /\ resent' \in Nat
    BY <1>1, NothingResent
  <1>3. OneAtATime'
    BY <1>1 DEF OneAtATime
  <1>4. \E i : Owed' \subseteq Owed \cup {i}
    <2>1. CASE \E i \in Items : mem[i].state = "sent"
      <3>1. PICK i \in Items : mem[i].state = "sent"
        BY <2>1
      <3>2. \A j \in Items : j # i => mem[j].state # "sent"
        BY <3>1 DEF OneAtATime, NoRow
      <3>3. Owed' \subseteq Owed \cup {i}
        BY <1>1, <3>2 DEF Owed
      <3> QED
        BY <3>3
    <2>2. CASE ~ \E i \in Items : mem[i].state = "sent"
      BY <1>1, <2>2 DEF Owed
    <2> QED
      BY <2>1, <2>2
  <1>5. PICK i : Owed' \subseteq Owed \cup {i}
    BY <1>4
  <1>6. Cardinality(Owed') <= Cardinality(Owed) + 1
    BY <1>5, OwedGrows
  <1> QED
    BY <1>1, <1>2, <1>3, <1>6, OwedFinite DEF OwedInv, ReportTypes, OutboxInv, Shape

\* The other steps of the dispatcher and its surroundings make nothing owed.
LEMMA QuietOwed ==
  ASSUME IndInv, UNCHANGED <<delivered, faults, queuedTimes>>, CountResent,
         Owed' \subseteq Owed
  PROVE  OwedInv' /\ resent' \in Nat
  <1>1. resent' = resent /\ resent' \in Nat
    BY NothingResent
  <1>2. Cardinality(Owed') <= Cardinality(Owed)
    BY OwedShrinks
  <1> QED
    BY <1>1, <1>2, OwedFinite DEF IndInv, OwedInv, ReportTypes, OutboxInv, Shape

\* A failed attempt, a commit, the start and the end of a pass, a channel.
LEMMA OtherOwed ==
  ASSUME IndInv, CountResent, UNCHANGED queuedTimes,
         \/ \E S \in SUBSET Due : PassStart(S)
         \/ \E i \in Items : SendFails(i)
         \/ Commit \/ TickEnd
         \/ \E t \in Targets : ChannelDown(t) \/ ChannelUp(t)
  PROVE  OwedInv' /\ OneAtATime' /\ resent' \in Nat
  <1> USE DEF IndInv
  <1>1. CASE Commit
    <2>1. /\ row' = [i \in Items |-> IF mem[i] = NoRow THEN row[i] ELSE mem[i]]
          /\ mem' = [i \in Items |-> NoRow] /\ UNCHANGED <<faults, delivered>>
      BY <1>1 DEF Commit
    <2>2. \A i \in Items : /\ row'[i] = IF mem[i] = NoRow THEN row[i] ELSE mem[i]
                           /\ mem'[i] = NoRow
      BY <2>1
    <2>3. Owed' \subseteq Owed
      BY <2>1, <2>2 DEF Owed, OutboxInv, PassInv, NoRow
    <2>4. OneAtATime'
      BY <2>2 DEF OneAtATime
    <2> QED
      BY <2>1, <2>3, <2>4, QuietOwed
  <1>2. ASSUME NEW i \in Items, SendFails(i) PROVE OwedInv' /\ OneAtATime' /\ resent' \in Nat
    <2>1. Current(i) /\ Attempt(i, Failed(i)) /\ UNCHANGED <<delivered, faults>>
      BY <1>2 DEF SendFails
    <2>2. IsRow(Failed(i)) /\ Failed(i).state \in {"pending", "failed"}
      BY AttemptRows
    <2>3. /\ mem'[i] = Failed(i) /\ (\A j \in Items : j # i => mem'[j] = mem[j]) /\ row' = row
          /\ mem[i].state = "none" /\ OneAtATime'
      BY <2>1, <2>2, AttemptAlone
    <2>4. Owed' \subseteq Owed
      BY <2>1, <2>3 DEF Owed
    <2> QED
      BY <2>1, <2>3, <2>4, QuietOwed
  <1>3. CASE UNCHANGED <<row, mem, delivered, faults>>
    <2>1. Owed' \subseteq Owed /\ OneAtATime'
      BY <1>3 DEF Owed, OneAtATime
    <2> QED
      BY <1>3, <2>1, QuietOwed
  <1> QED
    BY <1>1, <1>2, <1>3 DEF PassStart, TickEnd, ChannelDown, ChannelUp

\* The dispatcher and what the outbox undergoes.
LEMMA OutboxActions ==
  ASSUME IndInv, Steps \/ Environment, CountResent, UNCHANGED <<age, queuedTimes>>
  PROVE  IndInv'
  <1>1. OutboxInv' /\ Frame
    BY OutboxStep DEF Steps, IndInv
  <1>2. QueueInv'
    BY <1>1, QueueKept DEF IndInv, ReportTypes
  <1>3. OwedInv' /\ OneAtATime' /\ resent' \in Nat
    BY SendOkOwed, AnswerLostOwed, RollbackOwed, OtherOwed DEF Steps, Dispatch, Environment
  <1>4. ReportTypes'
    BY <1>3 DEF IndInv, ReportTypes
  <1> QED
    BY <1>1, <1>2, <1>3, <1>4 DEF IndInv

\* Time passes.
LEMMA ElapseStep == ASSUME IndInv, Elapse PROVE IndInv'
  <1> USE DEF IndInv
  <1>1. OutboxInv' /\ Frame
    BY OutboxStep DEF Elapse
  <1>2. /\ age' \in [Sources -> Int] /\ UNCHANGED <<queuedTimes, resent, faults, delivered>>
        /\ \A s \in Sources : age'[s] \in Int /\ (age[s] > Retain => age'[s] > Retain)
    BY Settings, HorizonBound DEF Elapse, ElapseOutbox, ReportTypes
  <1>3. QueueInv'
    BY <1>1, <1>2, QueueKept
  <1>4. \A i \in Items : /\ row'[i].state = row[i].state /\ mem'[i].state = mem[i].state
                         /\ mem'[i] # NoRow => mem[i] # NoRow
    <2>1. \A i \in Items : row'[i] = Sooner(row[i]) /\ mem'[i] = Sooner(mem[i])
      BY DEF Elapse, ElapseOutbox
    <2> QED
      BY <2>1, SoonerKeeps DEF OutboxInv, Shape
  <1>5. OneAtATime'
    BY <1>4 DEF OneAtATime
  <1>6. Owed' = Owed
    BY <1>2, <1>4 DEF Owed
  <1>7. OwedInv'
    BY <1>2, <1>6 DEF OwedInv
  <1>8. ReportTypes'
    BY <1>2 DEF ReportTypes
  <1> QED
    BY <1>1, <1>3, <1>5, <1>7, <1>8

\* A shift ends.
LEMMA ShiftEndsStep == ASSUME IndInv, NEW s \in Sources, ShiftEnds(s) PROVE IndInv'
  <1> USE DEF IndInv
  <1>1. /\ age[s] = -1 /\ age' = [age EXCEPT ![s] = 0]
        /\ UNCHANGED <<outboxVars, queuedTimes, resent>>
    BY DEF ShiftEnds
  <1>2. OutboxInv'
    BY <1>1, OutboxRests DEF outboxVars
  <1>3. /\ age' \in [Sources -> Int]
        /\ \A x \in Sources : age'[x] \in Int /\ (age[x] > Retain => age'[x] > Retain)
    BY <1>1, Settings DEF ReportTypes
  <1>4. Frame
    BY <1>1 DEF Frame, outboxVars, OutboxInv, Shape
  <1>5. QueueInv'
    BY <1>1, <1>3, <1>4, QueueKept
  <1>6. Owed' = Owed /\ OneAtATime'
    BY <1>1 DEF Owed, OneAtATime, outboxVars
  <1>7. OwedInv' /\ ReportTypes'
    BY <1>1, <1>3, <1>6 DEF OwedInv, ReportTypes, outboxVars
  <1> QED
    BY <1>2, <1>5, <1>6, <1>7

\* A recipient that has no row although its shift is caught up has never been queued.
LEMMA QueueStep == ASSUME IndInv, QueueDueReports PROVE IndInv'
  <1> USE DEF IndInv
  <1>1. /\ step = "idle"
        /\ row' = [i \in Items |-> IF i \in Missing THEN Queued ELSE row[i]]
        /\ queuedTimes' = [i \in Items |-> queuedTimes[i] + IF i \in Missing THEN 1 ELSE 0]
        /\ UNCHANGED <<mem, pass, step, faults, delivered, age, resent>>
    BY DEF QueueDueReports
  <1>2. \A i \in Items : /\ row'[i] = IF i \in Missing THEN Queued ELSE row[i]
                         /\ queuedTimes'[i] = queuedTimes[i] + IF i \in Missing THEN 1 ELSE 0
    BY <1>1
  <1>3. \A i \in Missing : queuedTimes[i] = 0 /\ delivered[i] = 0
    <2> SUFFICES ASSUME NEW i \in Missing PROVE queuedTimes[i] = 0 /\ delivered[i] = 0
      OBVIOUS
    <2>1. i \in Items /\ row[i].state = "none" /\ age[i[1]] < Delay + CatchUp /\ i[1] \in Sources
      BY DEF Missing, Window
    <2>2. age[i[1]] \in Int /\ ~ (age[i[1]] > Retain)
      BY <2>1, Settings DEF ReportTypes
    <2>3. queuedTimes[i] \in Nat /\ queuedTimes[i] # 1 /\ queuedTimes[i] <= 1
      BY <2>1, <2>2 DEF QueueInv, ReportTypes
    <2> QED
      BY <2>1, <2>3 DEF QueueInv
  <1>4. pass = {} /\ \A i \in Items : mem[i] = NoRow
    BY <1>1 DEF OutboxInv, PassInv, Clean
  <1>5. IsRow(Queued) /\ Queued.state = "pending"
    BY DEF Queued, IsRow, RowStates
  <1>6. Shape' /\ PassInv'
    BY <1>1, <1>2, <1>4, <1>5 DEF OutboxInv, Shape, PassInv, Clean
  <1>7. RepeatInv'
    BY <1>1, <1>2, <1>3, <1>5 DEF OutboxInv, RepeatInv, Shape
  <1>8. ReportTypes'
    BY <1>1, <1>2 DEF ReportTypes
  <1>9. QueueInv'
    BY <1>1, <1>2, <1>3, <1>5 DEF QueueInv, ReportTypes
  <1>10. Owed' \subseteq Owed
    BY <1>1, <1>2, <1>3 DEF Owed, ReportTypes
  <1>11. OwedInv' /\ OneAtATime'
    <2>1. Cardinality(Owed') <= Cardinality(Owed)
      BY <1>10, OwedShrinks
    <2> QED
      BY <1>1, <2>1, OwedFinite DEF OwedInv, OneAtATime, ReportTypes, OutboxInv, Shape
  <1> QED
    BY <1>6, <1>7, <1>8, <1>9, <1>11 DEF OutboxInv

\* Retention deletes the rows of shifts that will not be caught up again.
LEMMA RetentionStep == ASSUME IndInv, Retention PROVE IndInv'
  <1> USE DEF IndInv
  <1>1. /\ step = "after" /\ step' = "idle"
        /\ row' = [i \in Items |-> IF age[i[1]] > Retain THEN NoRow ELSE row[i]]
        /\ UNCHANGED <<mem, pass, faults, delivered, age, queuedTimes, resent>>
    BY DEF Retention
  <1>2. \A i \in Items : row'[i] = IF age[i[1]] > Retain THEN NoRow ELSE row[i]
    BY <1>1
  <1>3. pass = {} /\ \A i \in Items : mem[i] = NoRow
    BY <1>1 DEF OutboxInv, PassInv, Clean
  <1>4. IsRow(NoRow) /\ NoRow.state = "none"
    BY DEF NoRow, IsRow, RowStates
  <1>5. Shape' /\ PassInv'
    BY <1>1, <1>2, <1>3, <1>4 DEF OutboxInv, Shape, PassInv, Clean
  <1>6. RepeatInv'
    BY <1>1, <1>2, <1>4 DEF OutboxInv, RepeatInv
  <1>7. ReportTypes' /\ QueueInv'
    BY <1>1, <1>2, <1>4 DEF ReportTypes, QueueInv
  <1>8. Owed' \subseteq Owed
    BY <1>1, <1>2, <1>4 DEF Owed
  <1>9. OwedInv' /\ OneAtATime'
    <2>1. Cardinality(Owed') <= Cardinality(Owed)
      BY <1>8, OwedShrinks
    <2> QED
      BY <1>1, <2>1, OwedFinite DEF OwedInv, OneAtATime, ReportTypes, OutboxInv, Shape
  <1> QED
    BY <1>5, <1>6, <1>7, <1>9 DEF OutboxInv

\* Every step keeps the invariant.
LEMMA Invariance == IndInv /\ [Next]_vars => IndInv'
  <1> SUFFICES ASSUME IndInv, [Next]_vars PROVE IndInv'
    OBVIOUS
  <1>1. CASE UNCHANGED vars
    <2>1. OutboxInv'
      BY <1>1, OutboxRests DEF vars, outboxVars, IndInv
    <2>2. Owed' = Owed
      BY <1>1 DEF vars, outboxVars, Owed
    <2>3. ReportTypes' /\ QueueInv' /\ OneAtATime' /\ OwedInv'
      BY <1>1, <2>2 DEF vars, outboxVars, IndInv, ReportTypes, QueueInv, OneAtATime, OwedInv
    <2> QED
      BY <2>1, <2>3 DEF IndInv
  <1>2. CASE \E s \in Sources : ShiftEnds(s)
    BY <1>2, ShiftEndsStep
  <1>3. CASE (Steps \/ Environment) /\ CountResent /\ UNCHANGED <<age, queuedTimes>>
    BY <1>3, OutboxActions
  <1>4. CASE QueueDueReports \/ Elapse \/ Retention
    BY <1>4, QueueStep, ElapseStep, RetentionStep
  <1> QED
    BY <1>1, <1>2, <1>3, <1>4 DEF Next

-----------------------------------------------------------------------------
\* A recipient is queued once for a shift (queue_due_reports), whatever retention deletes, and
\* over all recipients a power cut, a failed commit or a lost answer repeats one message at
\* most (send_due_reports commits row by row).
THEOREM ReportsAreSentOnce == Spec => []ReportsSentOnce
  <1>1. IndInv => ReportsSentOnce
    BY OwedFinite DEF IndInv, QueueInv, OwedInv, ReportsSentOnce, NeverQueuedAgain, OneResendPerCut,
                      ReportTypes, OutboxInv, Shape
  <1> QED
    BY <1>1, InitInv, Invariance, PTL DEF Spec

\* Queueing and retention leave every message that has been tried as it was, or gone.
LEMMA ReportOutage == ASSUME IndInv, OutageInv, [Next]_vars PROVE OutageInv'
  <1> USE DEF IndInv
  <1>1. pass \subseteq Items /\ \A i \in pass : row[i].state = "pending"
    BY DEF OutboxInv, Shape, PassInv
  <1>2. CASE UNCHANGED outboxVars
    BY <1>1, <1>2, MovedOutage DEF outboxVars
  <1>3. CASE QueueDueReports
    <2>1. /\ row' = [i \in Items |-> IF i \in Missing THEN Queued ELSE row[i]]
          /\ UNCHANGED <<mem, pass, elapsed, up, outage, outages, delivered>>
          /\ \A i \in Missing : row[i].state = "none"
      BY <1>3 DEF QueueDueReports, Missing
    <2>2. \A i \in Items : row'[i] = IF i \in Missing THEN Queued ELSE row[i]
      BY <2>1
    <2>3. \A i \in pass : row'[i] = row[i]
      BY <1>1, <2>1, <2>2
    <2> QED
      BY <1>1, <2>1, <2>2, <2>3, MovedOutage
  <1>4. CASE Retention
    <2>1. /\ row' = [i \in Items |-> IF age[i[1]] > Retain THEN NoRow ELSE row[i]]
          /\ UNCHANGED <<mem, pass, elapsed, up, outage, outages, delivered>> /\ step = "after"
      BY <1>4 DEF Retention
    <2>2. \A i \in Items : row'[i] = IF age[i[1]] > Retain THEN NoRow ELSE row[i]
      BY <2>1
    <2>3. pass = {}
      BY <2>1 DEF OutboxInv, PassInv
    <2> QED
      BY <2>1, <2>2, <2>3, MovedOutage
  <1>5. CASE Steps \/ Environment
    BY <1>5, OutageStep DEF Steps
  <1>6. CASE Elapse
    BY <1>6, OutageStep DEF Elapse
  <1> QED
    BY <1>2, <1>3, <1>4, <1>5, <1>6 DEF Next, ShiftEnds, vars

\* A report nobody received is given up only after its channel was down for every backoff
\* (send_due_reports), however often the dispatcher crashed or failed meanwhile.
THEOREM ReportsOutlastOutages == Spec => []OutageOnlyDelays
  <1>1. Init => OutageInv
    BY OutageInit DEF Init
  <1> QED
    BY <1>1, InitInv, Invariance, ReportOutage, OutageGivesUp, PTL DEF Spec

-----------------------------------------------------------------------------
(* The shift calendar the reports follow (Shifts).                         *)

\* A set of natural numbers has a least one.
LEMMA LeastNat == ASSUME NEW T, T \subseteq Nat, T # {} PROVE \E x \in T : \A y \in T : x <= y
  <1>1. PICK x \in T : \A y \in T : ~ (<<y, x>> \in OpToRel(<, Nat))
    BY NatLessThanWellFounded, WFMin, Zenon
  <1>2. ASSUME NEW y \in T PROVE x <= y
    <2>1. ~ (<<y, x>> \in OpToRel(<, Nat))
      BY <1>1
    <2>2. x \in Nat /\ y \in Nat
      OBVIOUS
    <2>3. ~ (y < x)
      BY <2>1, <2>2 DEF OpToRel
    <2> QED
      BY <2>2, <2>3
  <1> QED
    BY <1>2

\* A set of integers with an upper bound has a greatest one, and Max is it.
LEMMA GreatestInt ==
  ASSUME NEW S, S \subseteq Int, S # {}, NEW N \in Int, \A s \in S : s <= N
  PROVE  Max(S) \in S /\ Max(S) \in Int /\ \A y \in S : y <= Max(S)
  <1> DEFINE T == {N - s : s \in S}
  <1>1. T \subseteq Nat /\ T # {}
    <2>1. \A s \in S : N - s \in Nat
      OBVIOUS
    <2> QED
      BY <2>1
  <1>2. PICK x \in T : \A y \in T : x <= y
    BY <1>1, LeastNat
  <1>3. PICK m \in S : x = N - m
    OBVIOUS
  <1>4. ASSUME NEW y \in S PROVE m >= y
    <2>1. N - y \in T
      OBVIOUS
    <2>2. N - m <= N - y
      BY <1>2, <1>3, <2>1
    <2>3. m \in Int /\ y \in Int
      OBVIOUS
    <2> QED
      BY <2>2, <2>3
  <1>5. \E z \in S : \A y \in S : z >= y
    BY <1>4
  <1>6. Max(S) \in S /\ \A y \in S : Max(S) >= y
    BY <1>5 DEF Max
  <1> QED
    BY <1>6

ShiftTypes == shDefs \in [ShiftNames -> Definitions \cup {Undefined}] /\ shNow \in Int

LEMMA ShiftNumbers ==
  /\ StartHours \subseteq 0 .. 23 /\ Durations \subseteq 1 .. 24 /\ ZoneOffset \in Int
  /\ ShiftsBegin \in Int /\ SpanLengths \subseteq 0 .. 72
  BY ShiftAssumption DEF ShiftAssumption

\* The day of an hour.
LEMMA DayOf == ASSUME NEW at \in Int
               PROVE  /\ LocalDay(at) \in Int
                      /\ 24 * LocalDay(at) <= at + ZoneOffset
                      /\ at + ZoneOffset < 24 * LocalDay(at) + 24
  <1>1. PICK x \in Int : x = at + ZoneOffset
    BY ShiftNumbers
  <1>2. x \div 24 \in Int /\ 24 * (x \div 24) <= x /\ x < 24 * (x \div 24) + 24
    OBVIOUS
  <1> QED
    BY <1>1, <1>2 DEF LocalDay

\* Every definition in force is within the bounds of the API, and has a name of its own.
LEMMA DefinitionsInForce ==
  ASSUME ShiftTypes
  PROVE  /\ \A d \in InForce : d.start \in 0 .. 23 /\ d.duration \in 1 .. 24
         /\ \A d, e \in InForce : d.name = e.name => d = e
         /\ InForce # {}
  <1> DEFINE enabled == {n \in ShiftNames : shDefs[n].enabled}
             Of(n) == [name |-> n, start |-> shDefs[n].start, duration |-> shDefs[n].duration]
  <1>1. CASE enabled = {}
    <2>1. InForce = {[name |-> "day", start |-> 6, duration |-> 12],
                     [name |-> "night", start |-> 18, duration |-> 12]}
      BY <1>1 DEF InForce
    <2> QED
      BY <2>1
  <1>2. CASE enabled # {}
    <2>1. InForce = {Of(n) : n \in enabled}
      BY <1>2 DEF InForce
    <2>2. ASSUME NEW n \in enabled
          PROVE  Of(n).start \in 0 .. 23 /\ Of(n).duration \in 1 .. 24 /\ Of(n).name = n
      <3>1. shDefs[n] \in Definitions
        BY DEF ShiftTypes, Undefined
      <3>2. shDefs[n].start \in StartHours /\ shDefs[n].duration \in Durations
        BY <3>1 DEF Definitions
      <3> QED
        BY <3>2, ShiftNumbers
    <2>3. \A d \in InForce : d.start \in 0 .. 23 /\ d.duration \in 1 .. 24 /\ d = Of(d.name)
      BY <2>1, <2>2
    <2>4. \A d, e \in InForce : d.name = e.name => d = e
      BY <2>3, Zenon
    <2>5. InForce # {}
      BY <1>2, <2>1
    <2>6. \A d \in InForce : d.start \in 0 .. 23 /\ d.duration \in 1 .. 24
      BY <2>3, Zenon
    <2> QED
      BY <2>4, <2>5, <2>6
  <1> QED
    BY <1>1, <1>2

\* An instance that starts by an hour is of no later day, and one that ends after it is of the
\* day before at the earliest, since none is longer than a day.
LEMMA DaysApart ==
  ASSUME NEW at \in Int, NEW day \in Int, NEW s \in 0 .. 23, NEW n \in 1 .. 24
  PROVE  /\ LocalDay(at) \in Int
         /\ 24 * day + s - ZoneOffset <= at => day <= LocalDay(at)
         /\ at < 24 * day + s - ZoneOffset + n => LocalDay(at) - 1 <= day
         /\ 24 * day + s - ZoneOffset + n <= at => day <= LocalDay(at)
  <1>1. PICK z \in Int : z = ZoneOffset
    BY ShiftNumbers
  <1>2. PICK l \in Int : l = LocalDay(at) /\ 24 * l <= at + z /\ at + z < 24 * l + 24
    BY <1>1, DayOf
  <1>3. /\ 24 * day + s - z <= at => day <= l
        /\ at < 24 * day + s - z + n => l - 1 <= day
        /\ 24 * day + s - z + n <= at => day <= l
    BY <1>2
  <1> QED
    BY <1>1, <1>2, <1>3

\* Of all days, only the day of an hour and the day before it have instances that contain it.
LEMMA CoveredBy ==
  ASSUME ShiftTypes, NEW at \in Int, NEW d \in InForce, NEW day \in Int, Covers(ShiftWindow(d, day), at)
  PROVE  day \in {LocalDay(at), LocalDay(at) - 1}
  <1>1. d.start \in 0 .. 23 /\ d.duration \in 1 .. 24
    BY DefinitionsInForce
  <1>2. 24 * day + d.start - ZoneOffset <= at /\ at < 24 * day + d.start - ZoneOffset + d.duration
    BY DEF Covers, ShiftWindow
  <1>3. LocalDay(at) \in Int /\ day <= LocalDay(at) /\ LocalDay(at) - 1 <= day
    BY <1>1, <1>2, DaysApart
  <1>4. \A l \in Int : day <= l /\ l - 1 <= day => day \in {l, l - 1}
    OBVIOUS
  <1> QED
    BY <1>3, <1>4

\* The longest shift in force.
LEMMA LongestShift == ASSUME ShiftTypes PROVE Max({e.duration : e \in InForce}) \in 1 .. 24
  <1> DEFINE S == {e.duration : e \in InForce}
  <1>1. S \subseteq 1 .. 24 /\ S # {}
    BY DefinitionsInForce
  <1> HIDE DEF S
  <1>2. S \subseteq Int /\ \E N \in Int : \A s \in S : s <= N
    <2>1. 24 \in Int /\ \A s \in S : s <= 24
      BY <1>1
    <2> QED
      BY <1>1, <2>1
  <1>3. PICK N \in Int : \A s \in S : s <= N
    BY <1>2
  <1>4. Max(S) \in S
    BY <1>1, <1>2, <1>3, GreatestInt
  <1> QED
    BY <1>1, <1>4 DEF S

\* An instance that ends in a span is of a day the search looks at, and of one AllWindows has.
LEMMA EndsWithin ==
  ASSUME ShiftTypes, NEW at \in Int, NEW span \in SpanLengths, NEW d \in InForce, NEW day \in Int,
         at - span < ShiftWindow(d, day).end, ShiftWindow(d, day).end <= at
  PROVE  day \in FirstDay(at - span) .. LocalDay(at)
  <1>1. d.start \in 0 .. 23 /\ d.duration \in 1 .. 24
    BY DefinitionsInForce
  <1>2. span \in 0 .. 72 /\ ZoneOffset \in Int
    BY ShiftNumbers
  <1>3. at - span < 24 * day + d.start - ZoneOffset + d.duration /\ 24 * day + d.start - ZoneOffset + d.duration <= at
    BY DEF ShiftWindow
  <1>4. PICK after \in Int : after = at - span
    BY <1>2
  <1>5. PICK m : m = Max({e.duration : e \in InForce})
    OBVIOUS
  <1>6. m \in 1 .. 24
    BY <1>5, LongestShift
  <1>7. PICK last \in Int : last = m \div 24 /\ 0 <= last /\ last <= 1
    BY <1>6
  <1>8. FirstDay(after) = LocalDay(after) - (last + 1)
    BY <1>5, <1>7 DEF FirstDay
  <1>9. LocalDay(after) - 1 <= day /\ LocalDay(after) \in Int
    BY <1>1, <1>3, <1>4, DaysApart
  <1>10. day <= LocalDay(at) /\ LocalDay(at) \in Int
    BY <1>1, <1>3, DaysApart
  <1>11. FirstDay(after) \in Int /\ FirstDay(after) <= day
    BY <1>7, <1>8, <1>9
  <1> QED
    BY <1>4, <1>10, <1>11

\* What resolve_shift finds, day by day.
LEMMA Resolved ==
  ASSUME ShiftTypes, NEW at \in Int
  PROVE  /\ \A w \in ResolveShift(at) : /\ Covers(w, at)
                                        /\ \E d \in InForce : \E day \in {LocalDay(at), LocalDay(at) - 1} : w = ShiftWindow(d, day)
         /\ ResolveShift(at) = {} =>
              \A d \in InForce, day \in {LocalDay(at), LocalDay(at) - 1} : ~Covers(ShiftWindow(d, day), at)
  <1> DEFINE Found(i) == {w \in {ShiftWindow(d, DaysTried(at)[i]) : d \in InForce} : Covers(w, at)}
             days == {i \in DOMAIN DaysTried(at) : Found(i) # {}}
  <1>1. DOMAIN DaysTried(at) = {1, 2} /\ DaysTried(at)[1] = LocalDay(at) /\ DaysTried(at)[2] = LocalDay(at) - 1
    BY DEF DaysTried
  <1>2. ResolveShift(at) = IF days = {} THEN {} ELSE Found(Min(days))
    BY DEF ResolveShift
  <1>3. ASSUME days # {} PROVE Min(days) \in days
    <2>1. days \subseteq {1, 2}
      BY <1>1
    <2>2. \E x \in days : \A y \in days : x <= y
      BY <1>3, <2>1
    <2> QED
      BY <2>2 DEF Min
  <1>4. ASSUME NEW i \in {1, 2}, NEW w \in Found(i)
        PROVE  Covers(w, at) /\ \E d \in InForce : \E day \in {LocalDay(at), LocalDay(at) - 1} : w = ShiftWindow(d, day)
    BY <1>1
  <1>5. ASSUME NEW w \in ResolveShift(at) PROVE \E i \in {1, 2} : w \in Found(i)
    BY <1>1, <1>2, <1>3
  <1>6. ASSUME ResolveShift(at) = {}, NEW d \in InForce, NEW i \in {1, 2}
        PROVE  ~Covers(ShiftWindow(d, DaysTried(at)[i]), at)
    <2>1. days = {}
      BY <1>2, <1>3, <1>6
    <2>2. Found(i) = {}
      BY <1>1, <2>1
    <2> QED
      BY <2>2
  <1> HIDE DEF Found, days
  <1>7. \A w \in ResolveShift(at) : /\ Covers(w, at)
                                    /\ \E d \in InForce : \E day \in {LocalDay(at), LocalDay(at) - 1} : w = ShiftWindow(d, day)
    BY <1>4, <1>5, Zenon
  <1>8. ResolveShift(at) = {} =>
          \A d \in InForce, day \in {LocalDay(at), LocalDay(at) - 1} : ~Covers(ShiftWindow(d, day), at)
    BY <1>1, <1>6
  <1> QED
    BY <1>7, <1>8

\* Whatever the definitions and the hour, of the instances of all days there are: an hour that any
\* of them contains has a current shift (resolve_shift), and one that ended in a span is among
\* those reported for it (windows_ending_between).
EveryInstanceCounts ==
  \A d \in InForce, day \in Int :
    /\ Covers(ShiftWindow(d, day), shNow) => ResolveShift(shNow) # {}
    /\ \A span \in SpanLengths :
         shNow - span < ShiftWindow(d, day).end /\ ShiftWindow(d, day).end <= shNow
         => ShiftWindow(d, day) \in WindowsEndingBetween(shNow - span, shNow)

LEMMA EveryInstance == ShiftTypes => EveryInstanceCounts
  <1> SUFFICES ASSUME ShiftTypes, NEW d \in InForce, NEW day \in Int
               PROVE  /\ Covers(ShiftWindow(d, day), shNow) => ResolveShift(shNow) # {}
                      /\ \A span \in SpanLengths :
                           shNow - span < ShiftWindow(d, day).end /\ ShiftWindow(d, day).end <= shNow
                           => ShiftWindow(d, day) \in WindowsEndingBetween(shNow - span, shNow)
    BY DEF EveryInstanceCounts
  <1>1. shNow \in Int
    BY DEF ShiftTypes
  <1>2. Covers(ShiftWindow(d, day), shNow) => ResolveShift(shNow) # {}
    <2> HAVE Covers(ShiftWindow(d, day), shNow)
    <2>1. day \in {LocalDay(shNow), LocalDay(shNow) - 1}
      BY <1>1, CoveredBy
    <2> QED
      BY <1>1, <2>1, Resolved
  <1>3. ASSUME NEW span \in SpanLengths,
               shNow - span < ShiftWindow(d, day).end, ShiftWindow(d, day).end <= shNow
        PROVE  ShiftWindow(d, day) \in WindowsEndingBetween(shNow - span, shNow)
    <2>1. day \in FirstDay(shNow - span) .. LocalDay(shNow)
      BY <1>1, <1>3, EndsWithin
    <2> QED
      BY <1>3, <2>1 DEF WindowsEndingBetween
  <1> QED
    BY <1>2, <1>3

LEMMA CalendarIsExact == ShiftTypes => ShiftsExact
  <1> SUFFICES ASSUME ShiftTypes PROVE ShiftsExact
    OBVIOUS
  <1>1. shNow \in Int /\ LocalDay(shNow) \in Int
    BY DayOf DEF ShiftTypes
  <1>2. \A w : w \in AllWindows(shNow) <=>
          \E d \in InForce : \E day \in LocalDay(shNow) - 5 .. LocalDay(shNow) + 3 : w = ShiftWindow(d, day)
    BY DEF AllWindows
  <1>3. ResolveShift(shNow) \subseteq {w \in AllWindows(shNow) : Covers(w, shNow)}
    <2> SUFFICES ASSUME NEW w \in ResolveShift(shNow) PROVE w \in AllWindows(shNow) /\ Covers(w, shNow)
      OBVIOUS
    <2>1. Covers(w, shNow)
      BY <1>1, Resolved
    <2>2. PICK d \in InForce, day \in {LocalDay(shNow), LocalDay(shNow) - 1} : w = ShiftWindow(d, day)
      BY <1>1, Resolved
    <2>3. day \in LocalDay(shNow) - 5 .. LocalDay(shNow) + 3
      BY <1>1, <2>2
    <2> QED
      BY <1>2, <2>1, <2>2, <2>3
  <1>4. ResolveShift(shNow) = {} => \A w \in AllWindows(shNow) : ~Covers(w, shNow)
    <2>1. \A d \in InForce, day \in Int : Covers(ShiftWindow(d, day), shNow) => ResolveShift(shNow) # {}
      BY EveryInstance DEF EveryInstanceCounts
    <2>2. ASSUME NEW w \in AllWindows(shNow), Covers(w, shNow) PROVE ResolveShift(shNow) # {}
      <3>1. PICK d \in InForce, day \in LocalDay(shNow) - 5 .. LocalDay(shNow) + 3 : w = ShiftWindow(d, day)
        BY <1>2
      <3>2. day \in Int
        BY <1>1
      <3> QED
        BY <2>1, <2>2, <3>1, <3>2
    <2> QED
      BY <2>2
  <1>5. ASSUME NEW w \in ResolveShift(shNow) PROVE ResolveById(w.day, w.name) = {w}
    <2>1. PICK d \in InForce, day \in {LocalDay(shNow), LocalDay(shNow) - 1} : w = ShiftWindow(d, day)
      BY <1>1, Resolved
    <2>2. w.day = day /\ w.name = d.name
      BY <2>1 DEF ShiftWindow
    <2>3. {e \in InForce : e.name = d.name} = {d}
      BY DefinitionsInForce
    <2>4. ResolveById(w.day, w.name) = {ShiftWindow(e, day) : e \in {d}}
      BY <2>2, <2>3 DEF ResolveById
    <2> QED
      BY <2>1, <2>4
  <1>6. ASSUME NEW span \in SpanLengths
        PROVE  WindowsEndingBetween(shNow - span, shNow) =
                 {w \in AllWindows(shNow) : shNow - span < w.end /\ w.end <= shNow}
    <2>1. span \in 0 .. 72
      BY ShiftNumbers
    <2>2. PICK after \in Int : after = shNow - span
      BY <1>1, <2>1
    <2>3. PICK m : m = Max({e.duration : e \in InForce})
      OBVIOUS
    <2>4. m \in 1 .. 24
      BY <2>3, LongestShift
    <2>5. PICK last \in Int : last = m \div 24 /\ 0 <= last /\ last <= 1
      BY <2>4
    <2>6. FirstDay(after) = LocalDay(after) - (last + 1)
      BY <2>3, <2>5 DEF FirstDay
    <2>7. LocalDay(after) \in Int /\ LocalDay(shNow) - 3 <= LocalDay(after)
      BY <1>1, <2>1, <2>2, DayOf, ShiftNumbers
    <2>8. FirstDay(after) .. LocalDay(shNow) \subseteq LocalDay(shNow) - 5 .. LocalDay(shNow) + 3
      BY <1>1, <2>5, <2>6, <2>7
    <2>9. \A w : w \in WindowsEndingBetween(after, shNow) <=>
             /\ \E d \in InForce : \E day \in FirstDay(after) .. LocalDay(shNow) : w = ShiftWindow(d, day)
             /\ after < w.end /\ w.end <= shNow
      BY DEF WindowsEndingBetween
    <2>10. ASSUME NEW w \in AllWindows(shNow), after < w.end, w.end <= shNow
           PROVE  w \in WindowsEndingBetween(after, shNow)
      <3>1. PICK d \in InForce, day \in LocalDay(shNow) - 5 .. LocalDay(shNow) + 3 : w = ShiftWindow(d, day)
        BY <1>2
      <3>2. day \in Int
        BY <1>1
      <3>3. day \in FirstDay(after) .. LocalDay(shNow)
        BY <1>1, <2>2, <2>10, <3>1, <3>2, EndsWithin
      <3> QED
        BY <2>9, <2>10, <3>1, <3>3
    <2>11. ASSUME NEW w \in WindowsEndingBetween(after, shNow)
           PROVE  w \in AllWindows(shNow) /\ after < w.end /\ w.end <= shNow
      BY <1>2, <2>8, <2>9
    <2>12. WindowsEndingBetween(after, shNow) = {w \in AllWindows(shNow) : after < w.end /\ w.end <= shNow}
      BY <2>10, <2>11
    <2> QED
      BY <2>2, <2>12
  <1> QED
    BY <1>3, <1>4, <1>5, <1>6 DEF ShiftsExact

LEMMA ShiftTypesHold == ShiftSpec => []ShiftTypes
  <1>1. ShiftInit => ShiftTypes
    BY ShiftNumbers DEF ShiftInit, ShiftTypes
  <1>2. ShiftTypes /\ [ShiftNext]_shVars => ShiftTypes'
    <2> SUFFICES ASSUME ShiftTypes, [ShiftNext]_shVars PROVE ShiftTypes'
      OBVIOUS
    <2>1. CASE UNCHANGED shVars
      BY <2>1 DEF ShiftTypes, shVars
    <2>2. ASSUME NEW n \in ShiftNames, NEW d \in Definitions \cup {Undefined},
                 shDefs' = [shDefs EXCEPT ![n] = d], shNow' = shNow
          PROVE  ShiftTypes'
      BY <2>2 DEF ShiftTypes
    <2>3. ASSUME HourPasses PROVE ShiftTypes'
      BY <2>3 DEF HourPasses, ShiftTypes
    <2> QED
      BY <2>1, <2>2, <2>3 DEF ShiftNext, UpsertShift, DeleteShift
  <1> QED
    BY <1>1, <1>2, PTL DEF ShiftSpec

\* The current shift, the shift of an id and the shifts ended in a span are those of the calendar
\* (resolve_shift, resolve_shift_by_id, windows_ending_between); for any definitions the API
\* accepts, any offset of the site's zone and any hour.
THEOREM CalendarHolds == ShiftSpec => []ShiftsExact
  BY ShiftTypesHold, CalendarIsExact, PTL

\* The same against the instances of every day there is, of which the model checker can only look
\* at some: the days the code tries are enough (resolve_shift, windows_ending_between).
THEOREM NoInstanceMissed == ShiftSpec => []EveryInstanceCounts
  BY ShiftTypesHold, EveryInstance, PTL
===============================================================================
