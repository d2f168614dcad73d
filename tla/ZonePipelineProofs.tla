------------------------- MODULE ZonePipelineProofs -------------------------
(***************************************************************************)
(* The per-asset lock makes concurrent transports take turns, for any set  *)
(* of transports, any zone rules and any clock; of Evaluate, the argument  *)
(* uses only that it leaves a row whose watermark is the fix.  And what    *)
(* Evaluate makes of a whole track is what its rules promise: the row is a *)
(* summary of the fixes evaluated so far.                                  *)
(***************************************************************************)
EXTENDS ZonePipeline, ZoneTracks, FiniteSetTheorems, TLAPS

USE RuleAssumption, PipelineAssumption

Entry == [ts : Int, loc : Locations, speed : Speeds, inside : BOOLEAN]
PCs == {"idle", "stamped", "locked", "processed", "raw"}

\* The shape of the variables the argument needs; live is told apart from them because
\* only a commit changes it.
Shape ==
  /\ pc \in [Workers -> PCs]
  /\ fix \in [Workers -> Fix \cup {NoFix}]
  /\ DOMAIN recv = Workers
  /\ DOMAIN tx = Workers
History ==
  /\ live \in Seq(Entry)
  /\ \A i \in DOMAIN live : live[i].ts \in positions

Inv == Shape /\ History /\ LockInv

\* A fix of any transport has a timestamp, a location and a speed.
LEMMA FixType == ASSUME NEW f \in Fix \cup {NoFix}
                 PROVE  f.ts \in Int /\ f.loc \in Locations /\ f.speed \in Speeds
  <1>1. CASE f \in Fix
    BY <1>1 DEF Fix
  <1>2. CASE f = NoFix
    BY <1>2 DEF NoFix, Locations, Speeds
  <1> QED
    BY <1>1, <1>2

\* An entry of the history, built from its fields.
LEMMA EntryType == ASSUME NEW t \in Int, NEW l \in Locations, NEW s \in Speeds, NEW b \in BOOLEAN
                   PROVE  [ts |-> t, loc |-> l, speed |-> s, inside |-> b] \in Entry
  BY DEF Entry

\* No transport is busy at the start and nothing has been evaluated.
LEMMA InitInv == Init => Inv
  <1> SUFFICES ASSUME Init PROVE Inv
    OBVIOUS
  <1>1. Shape
    BY DEF Init, Shape, PCs
  <1>2. History
    BY DEF Init, History
  <1>3. LockInv
    BY DEF Init, LockInv, HolderOnly, ComputedFromCurrent, EvaluatedOnce
  <1> QED
    BY <1>1, <1>2, <1>3 DEF Inv

\* Giving a transport back to idle keeps the shape.
LEMMA ResetShape == ASSUME Shape, NEW w \in Workers, Reset(w) PROVE Shape'
  BY DEF Shape, Reset, PCs

\* Every step keeps the shape.
LEMMA ShapeStep == Inv /\ [Next]_vars => Shape'
  <1> SUFFICES ASSUME Inv, [Next]_vars PROVE Shape'
    OBVIOUS
  <1>0. Shape
    BY DEF Inv
  <1>1. CASE Tick \/ UNCHANGED vars
    BY <1>0, <1>1 DEF Tick, vars, Shape
  <1>2. ASSUME NEW w \in Workers, NEW f \in Fix, Receive(w, f) PROVE Shape'
    BY <1>0, <1>2 DEF Receive, Shape, PCs
  <1>3. ASSUME NEW w \in Workers, LockAsset(w) \/ Process(w) \/ ProcessingFails(w) PROVE Shape'
    BY <1>0, <1>3 DEF LockAsset, Process, ProcessingFails, Shape, PCs
  <1>4. ASSUME NEW w \in Workers, Rollback(w) \/ StoreRaw(w) \/ Commit(w) PROVE Shape'
    <2>1. Reset(w)
      BY <1>4 DEF Rollback, StoreRaw, Commit
    <2> QED
      BY <1>0, <2>1, ResetShape
  <1> QED
    BY <1>1, <1>2, <1>3, <1>4 DEF Next

\* What a commit appends to the history, if it appends anything.
NewEntry(w) == [ts |-> fix[w].ts, loc |-> fix[w].loc, speed |-> fix[w].speed,
                inside |-> tx[w].st.inside = TRUE]

\* A commit appends at most one entry, and stores its position with it.
LEMMA CommitAppends ==
  ASSUME Inv, NEW w \in Workers, Commit(w)
  PROVE  /\ NewEntry(w) \in Entry /\ NewEntry(w).ts = fix[w].ts
         /\ positions' = positions \cup {fix[w].ts}
         /\ \/ live' = live
            \/ /\ tx[w].evaluated
               /\ live' = Append(live, NewEntry(w))
  <1>1. fix[w] \in Fix \cup {NoFix}
    BY DEF Inv, Shape
  <1>2. fix[w].ts \in Int /\ fix[w].loc \in Locations /\ fix[w].speed \in Speeds
    BY <1>1, FixType
  <1>3. (tx[w].st.inside = TRUE) \in BOOLEAN
    OBVIOUS
  <1>4. NewEntry(w) \in Entry
    <2> DEFINE b == tx[w].st.inside = TRUE
    <2>1. b \in BOOLEAN
      BY <1>3
    <2>2. NewEntry(w) = [ts |-> fix[w].ts, loc |-> fix[w].loc, speed |-> fix[w].speed, inside |-> b]
      BY DEF NewEntry
    <2> HIDE DEF b
    <2> QED
      BY <1>2, <2>1, <2>2, EntryType
  <1>5. NewEntry(w).ts = fix[w].ts
    BY DEF NewEntry
  <1>6. positions' = positions \cup {fix[w].ts}
    BY DEF Commit
  <1>7. live' = live \/ (tx[w].evaluated /\ live' = Append(live, NewEntry(w)))
    BY DEF Commit, NewEntry
  <1> QED
    BY <1>4, <1>5, <1>6, <1>7

\* Every evaluated fix is a stored position.
LEMMA HistoryStep == Inv /\ [Next]_vars => History'
  <1> SUFFICES ASSUME Inv, [Next]_vars PROVE History'
    OBVIOUS
  <1>0. History
    BY DEF Inv
  <1>1. CASE live' = live /\ positions \subseteq positions'
    BY <1>0, <1>1 DEF History
  <1>2. ASSUME NEW w \in Workers, Commit(w) PROVE History'
    <2> DEFINE e == NewEntry(w)
    <2>1. /\ e \in Entry /\ e.ts = fix[w].ts /\ positions' = positions \cup {fix[w].ts}
          /\ live' = live \/ live' = Append(live, e)
      BY <1>2, CommitAppends
    <2> HIDE DEF e
    <2>2. CASE live' = live
      BY <1>1, <2>1, <2>2
    <2>3. CASE live' = Append(live, e)
      <3> HIDE DEF Entry
      <3>1. live \in Seq(Entry)
        BY <1>0 DEF History
      <3>2. live' \in Seq(Entry)
        BY <2>1, <2>3, <3>1
      <3>3. ASSUME NEW i \in DOMAIN live' PROVE live'[i].ts \in positions'
        <4>1. CASE i \in DOMAIN live
          <5>1. live'[i] = live[i]
            BY <2>1, <2>3, <3>1, <4>1
          <5> QED
            BY <1>0, <2>1, <4>1, <5>1 DEF History
        <4>2. CASE i \notin DOMAIN live
          <5>1. live'[i] = e
            BY <2>1, <2>3, <3>1, <3>3, <4>2
          <5> QED
            BY <2>1, <5>1
        <4> QED
          BY <4>1, <4>2
      <3> QED
        BY <3>2, <3>3 DEF History
    <2> QED
      BY <2>1, <2>2, <2>3
  <1>3. ASSUME NEW w \in Workers,
               \/ \E f \in Fix : Receive(w, f)
               \/ LockAsset(w) \/ Process(w) \/ Rollback(w) \/ ProcessingFails(w) \/ StoreRaw(w)
        PROVE live' = live /\ positions \subseteq positions'
    BY <1>3 DEF Receive, LockAsset, Process, Rollback, ProcessingFails, StoreRaw
  <1>4. CASE Tick \/ UNCHANGED vars
    BY <1>1, <1>4 DEF Tick, vars
  <1> QED
    BY <1>1, <1>2, <1>3, <1>4 DEF Next

\* Only the holder of the lock is past lock_asset, whoever steps.
LEMMA HolderStep == Inv /\ [Next]_vars => HolderOnly'
  <1> SUFFICES ASSUME Inv, [Next]_vars PROVE HolderOnly'
    OBVIOUS
  <1>0. Shape /\ HolderOnly
    BY DEF Inv, LockInv
  <1>1. CASE Tick \/ UNCHANGED vars
    BY <1>0, <1>1 DEF Tick, vars, HolderOnly
  <1>2. ASSUME NEW w \in Workers, NEW f \in Fix, Receive(w, f) PROVE HolderOnly'
    BY <1>0, <1>2 DEF Receive, HolderOnly, Shape
  <1>3. ASSUME NEW w \in Workers, LockAsset(w) PROVE HolderOnly'
    BY <1>0, <1>3 DEF LockAsset, HolderOnly, Shape
  <1>4. ASSUME NEW w \in Workers, Process(w) PROVE HolderOnly'
    BY <1>0, <1>4 DEF Process, HolderOnly, Shape
  <1>5. ASSUME NEW w \in Workers, Commit(w) \/ Rollback(w) PROVE HolderOnly'
    BY <1>0, <1>5 DEF Commit, Rollback, Reset, Release, HolderOnly, Shape
  <1>6. ASSUME NEW w \in Workers, ProcessingFails(w) PROVE HolderOnly'
    BY <1>0, <1>6 DEF ProcessingFails, Release, HolderOnly, Shape
  <1>7. ASSUME NEW w \in Workers, StoreRaw(w) PROVE HolderOnly'
    BY <1>0, <1>7 DEF StoreRaw, Reset, HolderOnly, Shape
  <1> QED
    BY <1>1, <1>2, <1>3, <1>4, <1>5, <1>6, <1>7 DEF Next

\* A transaction that stays open keeps its inputs and its results.
LEMMA ComputedFrame ==
  ASSUME ComputedFromCurrent, UNCHANGED <<zs, live>>,
         \A v \in Workers : pc'[v] = "processed" =>
            /\ pc[v] = "processed"
            /\ tx'[v] = tx[v] /\ fix'[v] = fix[v] /\ recv'[v] = recv[v]
  PROVE  ComputedFromCurrent'
  BY DEF ComputedFromCurrent

\* No step pulls the zone state from under an open transaction.
LEMMA ComputedStep == Inv /\ [Next]_vars => ComputedFromCurrent'
  <1> SUFFICES ASSUME Inv, [Next]_vars PROVE ComputedFromCurrent'
    OBVIOUS
  <1>0. Shape /\ History /\ HolderOnly /\ ComputedFromCurrent
    BY DEF Inv, LockInv
  <1>1. CASE Tick \/ UNCHANGED vars
    BY <1>0, <1>1, ComputedFrame DEF Tick, vars
  <1>2. ASSUME NEW w \in Workers, NEW f \in Fix, Receive(w, f) PROVE ComputedFromCurrent'
    BY <1>0, <1>2, ComputedFrame DEF Receive, Shape
  <1>3. ASSUME NEW w \in Workers, LockAsset(w) PROVE ComputedFromCurrent'
    BY <1>0, <1>3, ComputedFrame DEF LockAsset, Shape
  <1>4. ASSUME NEW w \in Workers, Process(w) PROVE ComputedFromCurrent'
    <2> SUFFICES ASSUME NEW v \in Workers, pc'[v] = "processed", tx'[v].evaluated
                 PROVE  /\ tx'[v].st = Evaluate(zs, fix[v], recv[v]).st
                        /\ tx'[v].events = Evaluate(zs, fix[v], recv[v]).events
                        /\ \A i \in DOMAIN live : live[i].ts # fix[v].ts
      BY <1>4 DEF Process, ComputedFromCurrent
    <2>1. CASE v = w
      <3>1. tx'[w] = Processing(w)
        BY <1>0, <1>4 DEF Process, Shape
      <3>3. Live(w)
        BY <2>1, <3>1 DEF Processing
      <3>2. /\ fix[w].ts \notin positions
            /\ tx'[w].st = Evaluate(zs, fix[w], recv[w]).st
            /\ tx'[w].events = Evaluate(zs, fix[w], recv[w]).events
        BY <3>1, <3>3 DEF Processing, Live
      <3> QED
        BY <1>0, <2>1, <3>2 DEF History
    <2>2. CASE v # w
      <3>1. pc[v] = "processed" /\ tx'[v] = tx[v]
        BY <1>0, <1>4, <2>2 DEF Process, Shape
      <3> QED
        BY <1>0, <3>1 DEF ComputedFromCurrent
    <2> QED
      BY <2>1, <2>2
  <1>5. ASSUME NEW w \in Workers, Commit(w) PROVE ComputedFromCurrent'
    <2>1. \A v \in Workers : pc'[v] # "processed"
      BY <1>0, <1>5 DEF Commit, Reset, HolderOnly, Shape
    <2> QED
      BY <2>1 DEF ComputedFromCurrent
  <1>6. ASSUME NEW w \in Workers, Rollback(w) PROVE ComputedFromCurrent'
    BY <1>0, <1>6, ComputedFrame DEF Rollback, Reset, Shape
  <1>7. ASSUME NEW w \in Workers, ProcessingFails(w) PROVE ComputedFromCurrent'
    BY <1>0, <1>7, ComputedFrame DEF ProcessingFails, Shape
  <1>8. ASSUME NEW w \in Workers, StoreRaw(w) PROVE ComputedFromCurrent'
    BY <1>0, <1>8, ComputedFrame DEF StoreRaw, Reset, Shape
  <1> QED
    BY <1>1, <1>2, <1>3, <1>4, <1>5, <1>6, <1>7, <1>8 DEF Next

\* Only a commit changes the history, and what it appends was not in it.
LEMMA OnceStep == Inv /\ [Next]_vars => EvaluatedOnce'
  <1> SUFFICES ASSUME Inv, [Next]_vars PROVE EvaluatedOnce'
    OBVIOUS
  <1>0. History /\ ComputedFromCurrent /\ EvaluatedOnce
    BY DEF Inv, LockInv
  <1>1. CASE live' = live
    BY <1>0, <1>1 DEF EvaluatedOnce
  <1>2. ASSUME NEW w \in Workers, Commit(w) PROVE EvaluatedOnce'
    <2> DEFINE e == NewEntry(w)
    <2>1. /\ e \in Entry /\ e.ts = fix[w].ts
          /\ live' = live \/ (tx[w].evaluated /\ live' = Append(live, e))
      BY <1>2, CommitAppends
    <2> HIDE DEF e
    <2>2. CASE tx[w].evaluated /\ live' = Append(live, e)
      <3> HIDE DEF Entry
      <3>1. live \in Seq(Entry)
        BY <1>0 DEF History
      <3>2. \A i \in DOMAIN live : live[i].ts # e.ts
        BY <1>0, <1>2, <2>1, <2>2 DEF ComputedFromCurrent, Commit
      <3>3. ASSUME NEW i \in DOMAIN live'
            PROVE  \/ (i \in DOMAIN live /\ live'[i] = live[i])
                   \/ (i = Len(live) + 1 /\ live'[i] = e)
        BY <2>1, <2>2, <3>1, <3>3
      <3> QED
        BY <1>0, <3>2, <3>3 DEF EvaluatedOnce
    <2> QED
      BY <1>1, <2>1, <2>2
  <1>3. ASSUME NEW w \in Workers,
               \/ \E f \in Fix : Receive(w, f)
               \/ LockAsset(w) \/ Process(w) \/ Rollback(w) \/ ProcessingFails(w) \/ StoreRaw(w)
        PROVE live' = live
    BY <1>3 DEF Receive, LockAsset, Process, Rollback, ProcessingFails, StoreRaw
  <1>4. CASE Tick \/ UNCHANGED vars
    BY <1>1, <1>4 DEF Tick, vars
  <1> QED
    BY <1>1, <1>2, <1>3, <1>4 DEF Next

\* The invariant is inductive.
LEMMA Invariance == Spec => []Inv
  <1>1. Inv /\ [Next]_vars => Inv'
    BY ShapeStep, HistoryStep, HolderStep, ComputedStep, OnceStep DEF Inv, LockInv
  <1> QED
    BY <1>1, InitInv, PTL DEF Spec

\* store_and_process: with the advisory lock, concurrent transports take turns on the
\* asset's zone state.
THEOREM LockSerialises == Spec => []LockInv
  <1>1. Inv => LockInv
    BY DEF Inv
  <1> QED
    BY <1>1, Invariance, PTL

\* process_position: a fix is evaluated at most once, however often it is delivered and
\* by whichever transport, late and failing deliveries included.
THEOREM EachFixOnce == Spec => []EvaluatedOnce
  <1>1. Inv => EvaluatedOnce
    BY DEF Inv, LockInv
  <1> QED
    BY <1>1, Invariance, PTL

\* store_and_process: what a commit writes is what its fix makes of the state in force
\* at the commit; no transport overwrites another's step of the zone state.
THEOREM NoUpdateLost == Spec => NoLostUpdate
  <1> DEFINE Exact(w) == /\ pc[w] = "processed" /\ pc'[w] = "idle"
                         /\ zs' = Evaluate(zs, fix[w], recv[w]).st
                         /\ raised' = raised \cup {[type |-> t, ts |-> fix[w].ts] :
                                        t \in Evaluate(zs, fix[w], recv[w]).events}
  <1>1. ASSUME Inv, [Next]_vars, live' # live PROVE \E w \in Workers : Exact(w)
    <2>1. PICK w \in Workers : Commit(w)
      BY <1>1 DEF Next, Tick, Receive, LockAsset, Process, Rollback, ProcessingFails,
                  StoreRaw, vars
    <2>2. tx[w].evaluated /\ pc[w] = "processed"
      BY <1>1, <2>1 DEF Commit
    <2>3. /\ tx[w].st = Evaluate(zs, fix[w], recv[w]).st
          /\ tx[w].events = Evaluate(zs, fix[w], recv[w]).events
      BY <1>1, <2>2 DEF Inv, LockInv, ComputedFromCurrent
    <2>4. pc'[w] = "idle"
      BY <1>1, <2>1 DEF Commit, Reset, Inv, Shape
    <2> QED
      BY <2>1, <2>2, <2>3, <2>4 DEF Commit
  <1>2. Inv /\ [Next]_vars => [live' # live => \E w \in Workers : Exact(w)]_vars
    BY <1>1
  <1> QED
    BY <1>2, Invariance, PTL DEF Spec, NoLostUpdate

-----------------------------------------------------------------------------
(* The watermark.                                                          *)

\* A fix was not ahead of the clock when it was stamped; what a transaction will commit puts the
\* watermark at its fix, or it found it where a live fix could not be skipped otherwise.
Healing ==
  /\ now \in Nat /\ zs \in ZoneState /\ recv \in [Workers -> Nat]
  /\ \A w \in Workers : pc[w] # "idle" =>
       fix[w] \in Fix /\ recv[w] <= now /\ fix[w].ts <= recv[w] + MaxSkew
  /\ \A w \in Workers : pc[w] = "processed" =>
       /\ tx[w].evaluated => tx[w].st \in ZoneState /\ tx[w].st.last_ts = fix[w].ts
       /\ tx[w].created /\ ~tx[w].evaluated /\ fix[w].ts >= recv[w] - MaxSkew
          => zs.last_ts <= recv[w] + MaxSkew

\* Fixes are what the operators of ZoneEngine are given.
GivenFix == [ts : Int, loc : Locations, speed : Speeds]

LEMMA FixIsGiven == Fix \subseteq GivenFix
  <1>1. 1 .. MaxNow + MaxSkew \subseteq Int
    OBVIOUS
  <1> QED
    BY <1>1 DEF Fix, GivenFix

\* A row stays one when one of its columns is written: a flag, a count or a time.
LEMMA FlagWritten ==
  ASSUME NEW st \in ZoneState, NEW b \in BOOLEAN
  PROVE  /\ [st EXCEPT !.inside = b] \in ZoneState /\ [st EXCEPT !.overspeed_fired = b] \in ZoneState
         /\ [st EXCEPT !.dwell_fired = b] \in ZoneState
  BY DEF ZoneState

LEMMA CountWritten ==
  ASSUME NEW st \in ZoneState, NEW n \in Nat
  PROVE  /\ [st EXCEPT !.consec_in = n] \in ZoneState /\ [st EXCEPT !.consec_out = n] \in ZoneState
         /\ [st EXCEPT !.overspeed_consec = n] \in ZoneState
  BY DEF ZoneState

LEMMA TimeWritten ==
  ASSUME NEW st \in ZoneState, NEW t \in Int
  PROVE  /\ [st EXCEPT !.entered_at = t] \in ZoneState /\ [st EXCEPT !.last_ts = t] \in ZoneState
         /\ [st EXCEPT !.stationary_since = t] \in ZoneState
  BY DEF ZoneState

\* The columns of a row.
LEMMA Columns == ASSUME NEW st \in ZoneState
                 PROVE  /\ st.inside \in BOOLEAN /\ st.consec_in \in Nat /\ st.consec_out \in Nat
                        /\ st.entered_at \in Int /\ st.last_ts \in Int /\ st.overspeed_consec \in Nat
                        /\ st.overspeed_fired \in BOOLEAN
  BY DEF ZoneState

\* engine.step keeps the row a row.
LEMMA StepType == ASSUME NEW st \in ZoneState, NEW f \in GivenFix PROVE Step(st, f).st \in ZoneState
  <1>1. PICK b : b = BreakRun(st, f.ts)
    OBVIOUS
  <1>2. b \in ZoneState
    BY <1>1 DEF BreakRun, ZoneState
  <1>3. PICK c : c = CountFix(b, f)
    OBVIOUS
  <1>4. c \in ZoneState
    <2>1. f.ts \in Int
      BY DEF GivenFix
    <2>2. CASE f.loc = "in"
      <3>1. PICK t \in Int : t = IF ~b.inside /\ (b.consec_in = 0 \/ b.entered_at = None) THEN f.ts ELSE b.entered_at
        BY <1>2, <2>1, Columns
      <3>2. PICK x \in ZoneState : x = [b EXCEPT !.entered_at = t]
        BY <1>2, TimeWritten
      <3>3. x.consec_in = b.consec_in /\ b.consec_in + 1 \in Nat
        BY <1>2, <3>2, Columns DEF ZoneState
      <3>4. PICK y \in ZoneState : y = [x EXCEPT !.consec_in = b.consec_in + 1]
        BY <3>3, CountWritten
      <3>5. c = [y EXCEPT !.consec_out = 0]
        BY <1>3, <2>2, <3>1, <3>2, <3>3, <3>4 DEF CountFix
      <3> QED
        BY <3>5, CountWritten
    <2>3. CASE f.loc # "in"
      <3>1. PICK n \in Nat : n = IF f.loc = "out" THEN b.consec_out + 1 ELSE b.consec_out
        BY <1>2, Columns
      <3>2. PICK x \in ZoneState : x = [b EXCEPT !.consec_in = 0]
        BY <1>2, CountWritten
      <3>3. x.consec_out = b.consec_out
        BY <1>2, <3>2 DEF ZoneState
      <3>4. c = [x EXCEPT !.consec_out = n]
        BY <1>3, <2>3, <3>1, <3>2, <3>3 DEF CountFix
      <3> QED
        BY <3>1, <3>4, CountWritten
    <2> QED
      BY <2>2, <2>3
  <1>5. [c EXCEPT !.inside = TRUE, !.consec_out = 0] \in ZoneState
    BY <1>4 DEF ZoneState
  <1>6. Exited(c) \in ZoneState
    <2>1. FreshState \in ZoneState
      BY DEF FreshState, ZoneState, None
    <2>2. c.consec_out \in Nat /\ c.last_ts \in Int
      BY <1>4, Columns
    <2>3. PICK x \in ZoneState : x = [FreshState EXCEPT !.consec_out = c.consec_out]
      BY <2>1, <2>2, CountWritten
    <2>4. Exited(c) = [x EXCEPT !.last_ts = c.last_ts]
      BY <2>3 DEF Exited
    <2> QED
      BY <2>2, <2>4, TimeWritten
  <1> QED
    BY <1>1, <1>3, <1>4, <1>5, <1>6 DEF Step

\* A dwell episode that starts afresh.
LEMMA StandsAfresh == ASSUME NEW st \in ZoneState
                      PROVE  [st EXCEPT !.stationary_since = None, !.dwell_fired = FALSE] \in ZoneState
  <1>1. None \in Int
    BY DEF None
  <1>2. PICK x \in ZoneState : x = [st EXCEPT !.stationary_since = None]
    BY <1>1, TimeWritten
  <1> QED
    BY <1>2, FlagWritten

\* The rules on a fix inside keep the row a row.
LEMMA RulesType ==
  ASSUME NEW st \in ZoneState, NEW f \in GivenFix
  PROVE  Overspeed(st, f).st \in ZoneState /\ Dwell(st, f).st \in ZoneState
  <1>1. f.ts \in Int
    BY DEF GivenFix
  <1>2. Overspeed(st, f).st \in ZoneState
    <2>1. CASE f.speed = "none"
      BY <2>1 DEF Overspeed, ZoneState
    <2>2. CASE f.speed = "over"
      <3>1. PICK n : n = st.overspeed_consec + 1
        OBVIOUS
      <3>2. PICK fired \in BOOLEAN :
              fired = (st.overspeed_fired \/ (n >= OverspeedConsecutive /\ ~st.overspeed_fired))
        BY DEF ZoneState
      <3>3. n \in Nat
        BY <3>1, Columns
      <3>4. PICK x \in ZoneState : x = [st EXCEPT !.overspeed_consec = n]
        BY <3>3, CountWritten
      <3>5. x.overspeed_fired = st.overspeed_fired
        BY <3>4 DEF ZoneState
      <3>6. Overspeed(st, f).st = [x EXCEPT !.overspeed_fired = fired]
        BY <2>2, <3>1, <3>2, <3>4, <3>5 DEF Overspeed
      <3> QED
        BY <3>6, FlagWritten
    <2>3. CASE f.speed # "none" /\ f.speed # "over"
      BY <2>3 DEF Overspeed, ZoneState
    <2> QED
      BY <2>1, <2>2, <2>3
  <1>3. Dwell(st, f).st \in ZoneState
    <2>1. [st EXCEPT !.stationary_since = f.ts] \in ZoneState
      BY <1>1 DEF ZoneState
    <2>2. [st EXCEPT !.dwell_fired = TRUE] \in ZoneState
      BY DEF ZoneState
    <2>3. [st EXCEPT !.stationary_since = None, !.dwell_fired = FALSE] \in ZoneState
      BY StandsAfresh
    <2>4. CASE f.speed = "slow" /\ st.stationary_since = None
      BY <2>1, <2>4 DEF Dwell
    <2>5. CASE f.speed = "slow" /\ st.stationary_since # None
      BY <2>2, <2>5 DEF Dwell
    <2>6. CASE f.speed \in {"normal", "over"}
      BY <2>3, <2>6 DEF Dwell
    <2>7. CASE f.speed \notin {"slow", "normal", "over"}
      BY <2>7 DEF Dwell
    <2> QED
      BY <2>4, <2>5, <2>6, <2>7
  <1> QED
    BY <1>2, <1>3

\* process_position leaves a row whose watermark is the fix.
LEMMA EvaluateType ==
  ASSUME NEW st \in ZoneState, NEW f \in GivenFix, NEW r \in Int
  PROVE  Evaluate(st, f, r).st \in ZoneState /\ Evaluate(st, f, r).st.last_ts = f.ts
  <1>1. PICK h : h = Heal(st, f, r)
    OBVIOUS
  <1>2. h \in ZoneState
    BY <1>1, StandsAfresh DEF Heal
  <1>3. PICK s : s = Step(h, f)
    OBVIOUS
  <1>4. s.st \in ZoneState
    BY <1>2, <1>3, StepType
  <1>5. PICK o : o = IF s.st.inside THEN Overspeed(s.st, f) ELSE [st |-> s.st, events |-> {}]
    OBVIOUS
  <1>6. o.st \in ZoneState
    BY <1>4, <1>5, RulesType
  <1>7. PICK d : d = IF s.st.inside THEN Dwell(o.st, f) ELSE [st |-> o.st, events |-> {}]
    OBVIOUS
  <1>8. d.st \in ZoneState
    BY <1>6, <1>7, RulesType
  <1>9. Evaluate(st, f, r).st = [d.st EXCEPT !.last_ts = f.ts]
    BY <1>1, <1>3, <1>5, <1>7 DEF Evaluate
  <1>10. f.ts \in Int
    BY DEF GivenFix
  <1> QED
    BY <1>8, <1>9, <1>10 DEF ZoneState

\* A transaction that stays open keeps what it stands on.
LEMMA HealingFrame ==
  ASSUME Healing, zs' = zs, now' \in Nat, now' >= now, recv' \in [Workers -> Nat],
         \A v \in Workers : pc'[v] # "idle" =>
            /\ pc[v] # "idle" /\ fix'[v] = fix[v] /\ recv'[v] = recv[v]
            /\ pc'[v] = "processed" => pc[v] = "processed" /\ tx'[v] = tx[v]
  PROVE  Healing'
  <1>1. \A v \in Workers : recv[v] \in Nat
    BY DEF Healing
  <1> QED
    BY <1>1 DEF Healing, Fix

LEMMA HealingInit == Init => Healing
  <1> SUFFICES ASSUME Init PROVE Healing
    OBVIOUS
  <1>1. FreshState \in ZoneState
    BY DEF FreshState, ZoneState, None
  <1> QED
    BY <1>1 DEF Init, Healing

\* Where a live fix is stored without being evaluated, the watermark is no further ahead than
\* the skew allows; nobody moves it before the commit.
LEMMA HealingStep == Inv /\ Healing /\ [Next]_vars => Healing'
  <1> SUFFICES ASSUME Inv, Healing, [Next]_vars PROVE Healing'
    OBVIOUS
  <1>0. Shape /\ HolderOnly
    BY DEF Inv, LockInv
  <1>1. now \in Nat /\ recv \in [Workers -> Nat] /\ zs \in ZoneState
    BY DEF Healing
  <1>2. CASE Tick \/ UNCHANGED vars
    <2>1. now' \in Nat /\ now' >= now
      BY <1>1, <1>2 DEF Tick, vars
    <2> QED
      BY <1>1, <1>2, <2>1, HealingFrame DEF Tick, vars
  <1>3. ASSUME NEW w \in Workers, NEW f \in Fix, Receive(w, f) PROVE Healing'
    <2>1. /\ UNCHANGED <<now, zs, tx>> /\ pc' = [pc EXCEPT ![w] = "stamped"]
          /\ fix' = [fix EXCEPT ![w] = f] /\ recv' = [recv EXCEPT ![w] = now] /\ f.ts <= now + MaxSkew
      BY <1>3 DEF Receive, NotFuture
    <2>2. recv' \in [Workers -> Nat]
      BY <1>1, <2>1
    <2>3. ASSUME NEW v \in Workers, pc'[v] # "idle"
          PROVE  fix'[v] \in Fix /\ recv'[v] <= now /\ fix'[v].ts <= recv'[v] + MaxSkew
      <3>1. CASE v = w
        BY <1>0, <1>1, <2>1, <3>1 DEF Shape
      <3>2. CASE v # w
        BY <1>0, <1>1, <2>1, <2>3, <3>2 DEF Shape, Healing
      <3> QED
        BY <3>1, <3>2
    <2>4. ASSUME NEW v \in Workers, pc'[v] = "processed"
          PROVE  v # w /\ pc[v] = "processed" /\ fix'[v] = fix[v] /\ recv'[v] = recv[v]
      BY <1>0, <1>1, <2>1, <2>4 DEF Shape
    <2> HIDE DEF Fix
    <2> QED
      BY <1>1, <2>1, <2>2, <2>3, <2>4 DEF Healing, Fix
  <1>4. ASSUME NEW w \in Workers, LockAsset(w) \/ ProcessingFails(w) PROVE Healing'
    <2>1. UNCHANGED <<now, zs, fix, recv, tx>>
      BY <1>4 DEF LockAsset, ProcessingFails
    <2>2. \A v \in Workers : /\ pc'[v] # "idle" => pc[v] # "idle"
                             /\ pc'[v] = "processed" => pc[v] = "processed"
      BY <1>0, <1>4 DEF LockAsset, ProcessingFails, Shape
    <2> QED
      BY <1>1, <2>1, <2>2, HealingFrame
  <1>5. ASSUME NEW w \in Workers, Process(w) PROVE Healing'
    <2>1. /\ UNCHANGED <<now, zs, fix, recv>> /\ pc[w] = "locked"
          /\ \A v \in Workers : v # w => pc'[v] = pc[v] /\ tx'[v] = tx[v]
          /\ tx'[w] = Processing(w)
      BY <1>0, <1>5 DEF Process, Shape
    <2>2. fix[w] \in Fix /\ recv[w] \in Nat
      BY <1>1, <2>1 DEF Healing
    <2>3. fix[w] \in GivenFix
      BY <2>2, FixIsGiven
    <2>4. tx'[w].evaluated => tx'[w].st \in ZoneState /\ tx'[w].st.last_ts = fix[w].ts
      <3>1. PICK e : e = Evaluate(zs, fix[w], recv[w])
        OBVIOUS
      <3>2. e.st \in ZoneState /\ e.st.last_ts = fix[w].ts
        BY <1>1, <2>2, <2>3, <3>1, EvaluateType
      <3>3. CASE Live(w)
        BY <2>1, <3>1, <3>2, <3>3 DEF Processing
      <3>4. CASE ~Live(w)
        BY <2>1, <3>4 DEF Processing
      <3> QED
        BY <3>3, <3>4
    <2>5. tx'[w].created /\ ~tx'[w].evaluated /\ fix[w].ts >= recv[w] - MaxSkew
          => zs.last_ts <= recv[w] + MaxSkew
      <3> SUFFICES ASSUME tx'[w].created, ~tx'[w].evaluated, fix[w].ts >= recv[w] - MaxSkew
                   PROVE  zs.last_ts <= recv[w] + MaxSkew
        OBVIOUS
      <3>1. ~Live(w)
        BY <2>1 DEF Processing
      <3>2. fix[w].ts \notin positions
        <4>1. PICK new : new = (fix[w].ts \notin positions)
          OBVIOUS
        <4>2. tx'[w] = [created |-> new, evaluated |-> FALSE, st |-> zs, events |-> {}]
          BY <2>1, <3>1, <4>1 DEF Processing
        <4>3. tx'[w].created = new
          BY <4>2
        <4> QED
          BY <4>1, <4>3, Zenon
      <3>3. Skipped(zs, fix[w], recv[w])
        BY <3>1, <3>2 DEF Live
      <3>4. zs.last_ts \in Int /\ fix[w].ts \in Int
        BY <1>1, <2>3 DEF ZoneState, GivenFix
      <3> QED
        BY <2>2, <3>3, <3>4 DEF Skipped, FutureWatermark, None
    <2>6. ASSUME NEW v \in Workers, pc'[v] # "idle"
          PROVE  fix[v] \in Fix /\ recv[v] <= now /\ fix[v].ts <= recv[v] + MaxSkew
      <3>1. pc[v] # "idle"
        BY <2>1, <2>6
      <3> QED
        BY <3>1 DEF Healing
    <2>7. ASSUME NEW v \in Workers, pc'[v] = "processed"
          PROVE  /\ tx'[v].evaluated => tx'[v].st \in ZoneState /\ tx'[v].st.last_ts = fix[v].ts
                 /\ tx'[v].created /\ ~tx'[v].evaluated /\ fix[v].ts >= recv[v] - MaxSkew
                    => zs.last_ts <= recv[v] + MaxSkew
      <3>1. CASE v = w
        BY <2>4, <2>5, <3>1
      <3>2. CASE v # w
        BY <2>1, <2>7, <3>2 DEF Healing
      <3> QED
        BY <3>1, <3>2
    <2> QED
      BY <1>1, <2>1, <2>6, <2>7 DEF Healing, Fix
  <1>6. ASSUME NEW w \in Workers, Rollback(w) \/ StoreRaw(w) PROVE Healing'
    <2>1. UNCHANGED <<now, zs>> /\ Reset(w)
      BY <1>6 DEF Rollback, StoreRaw
    <2>2. recv' \in [Workers -> Nat] /\ pc'[w] = "idle"
      BY <1>0, <1>1, <2>1 DEF Reset, Shape
    <2>3. \A v \in Workers : v # w => pc'[v] = pc[v] /\ fix'[v] = fix[v] /\ recv'[v] = recv[v] /\ tx'[v] = tx[v]
      BY <1>0, <1>1, <2>1 DEF Reset, Shape
    <2> QED
      BY <1>1, <2>1, <2>2, <2>3, HealingFrame
  <1>7. ASSUME NEW w \in Workers, Commit(w) PROVE Healing'
    <2>1. now' = now /\ Reset(w) /\ pc[w] = "processed"
      BY <1>7 DEF Commit
    <2>2. recv' \in [Workers -> Nat] /\ pc'[w] = "idle"
      BY <1>0, <1>1, <2>1 DEF Reset, Shape
    <2>3. \A v \in Workers : v # w => pc'[v] = pc[v] /\ fix'[v] = fix[v] /\ recv'[v] = recv[v] /\ tx'[v] = tx[v]
      BY <1>0, <1>1, <2>1 DEF Reset, Shape
    <2>4. \A v \in Workers : pc'[v] # "processed"
      BY <1>0, <2>1, <2>2, <2>3 DEF HolderOnly
    <2>5. zs' \in ZoneState
      BY <1>1, <1>7, <2>1 DEF Commit, Healing
    <2>6. \A v \in Workers : pc'[v] # "idle" =>
            fix'[v] \in Fix /\ recv'[v] <= now /\ fix'[v].ts <= recv'[v] + MaxSkew
      BY <2>2, <2>3 DEF Healing
    <2> QED
      BY <1>1, <2>1, <2>2, <2>4, <2>5, <2>6 DEF Healing, Fix
  <1> QED
    BY <1>2, <1>3, <1>4, <1>5, <1>6, <1>7 DEF Next

\* process_position: a watermark an old release left in the future never mutes the asset; after
\* the commit of any live fix it is at most the allowed skew ahead of the server's clock,
\* whatever other transports do and however long the fix waited for the lock.
THEOREM WatermarkHeals == Spec => LiveFixHeals
  <1> DEFINE Heals(w) == (pc[w] = "processed" /\ tx[w].created /\ pc'[w] = "idle" /\ positions' # positions
                            /\ fix[w].ts >= recv[w] - MaxSkew)
                         => zs'.last_ts <= now + MaxSkew
  <1>1. ASSUME Inv, Healing, [Next]_vars, NEW w \in Workers PROVE Heals(w)
    <2> SUFFICES ASSUME pc[w] = "processed", tx[w].created, pc'[w] = "idle", positions' # positions,
                        fix[w].ts >= recv[w] - MaxSkew
                 PROVE  zs'.last_ts <= now + MaxSkew
      OBVIOUS
    <2>1. PICK v \in Workers : Commit(v) \/ StoreRaw(v)
      BY <1>1 DEF Next, Tick, Receive, LockAsset, Process, Rollback, ProcessingFails, vars
    <2>2. v = w
      BY <1>1, <2>1 DEF Commit, StoreRaw, Reset, Inv, Shape
    <2>3. Commit(w)
      BY <2>1, <2>2 DEF StoreRaw
    <2>4. /\ recv[w] \in Nat /\ now \in Nat /\ recv[w] <= now /\ fix[w] \in Fix
          /\ fix[w].ts <= recv[w] + MaxSkew /\ zs \in ZoneState
      BY <1>1 DEF Healing
    <2>5. fix[w].ts \in Int /\ zs.last_ts \in Int
      BY <2>4, FixIsGiven DEF GivenFix, ZoneState
    <2>6. CASE tx[w].evaluated
      <3>1. zs'.last_ts = fix[w].ts
        BY <1>1, <2>3, <2>6 DEF Commit, Healing
      <3> QED
        BY <2>4, <2>5, <3>1
    <2>7. CASE ~tx[w].evaluated
      <3>1. zs' = zs /\ zs.last_ts <= recv[w] + MaxSkew
        BY <1>1, <2>3, <2>7 DEF Commit, Healing
      <3> QED
        BY <2>4, <2>5, <3>1
    <2> QED
      BY <2>6, <2>7
  <1>2. Inv /\ Healing /\ [Next]_vars => [\A w \in Workers : Heals(w)]_vars
    BY <1>1
  <1>3. Spec => []Healing
    BY HealingInit, HealingStep, Invariance, PTL DEF Spec
  <1> QED
    BY <1>2, <1>3, Invariance, PTL DEF Spec, LiveFixHeals

-----------------------------------------------------------------------------
(* Whole tracks: what the row keeps of the fixes evaluated so far, and why     *)
(* that is enough to tell which transitions and alarms are due.                *)

HIDE PipelineAssumption

TrackFix == [ts : 1 .. MaxNow + MaxSkew, loc : Locations, speed : Speeds]
TrackEntry == [ts : Nat \ {0}, loc : Locations, speed : Speeds, inside : BOOLEAN]

\* What one call of Evaluate works out, in terms of the row it finds.
Broken(st, f) == st.last_ts # None /\ (f.ts < st.last_ts \/ f.ts - st.last_ts > MaxGap)
Kept(st, f, count) == IF Broken(st, f) THEN 0 ELSE count
InCount(st, f) == IF f.loc = "in" THEN Kept(st, f, st.consec_in) + 1 ELSE 0
OutCount(st, f) == IF f.loc = "in" THEN 0
                   ELSE Kept(st, f, st.consec_out) + (IF f.loc = "out" THEN 1 ELSE 0)
EntryStart(st, f) ==
  IF f.loc = "in" /\ ~st.inside /\ (Kept(st, f, st.consec_in) = 0 \/ st.entered_at = None)
    THEN f.ts ELSE st.entered_at
Enters(st, f) == /\ ~st.inside /\ InCount(st, f) >= DebounceIn
                 /\ EntryStart(st, f) # None /\ f.ts - EntryStart(st, f) >= MinEntryDwell
Exits(st, f) == st.inside /\ OutCount(st, f) >= ExitDebounce
StaysIn(st, f) == IF st.inside THEN ~Exits(st, f) ELSE Enters(st, f)

\* The row a fix meets has no future watermark any more.
Sober(st, f, at) == Heal(st, f, at) = st

\* The debounce part of Evaluate, field by field.
DebounceSays(st, f, e) ==
  /\ e.st.inside = StaysIn(st, f)
  /\ e.st.consec_in = IF Exits(st, f) THEN 0 ELSE InCount(st, f)
  /\ e.st.consec_out = IF Enters(st, f) THEN 0 ELSE OutCount(st, f)
  /\ ~Exits(st, f) => e.st.entered_at = EntryStart(st, f)
  /\ e.st.last_ts = f.ts
  /\ "zone_breach" \in e.events <=> Enters(st, f)

\* The overspeed and the dwell part.
OverspeedFires(st, f) == /\ StaysIn(st, f) /\ f.speed = "over" /\ ~st.overspeed_fired
                         /\ st.overspeed_consec + 1 >= OverspeedConsecutive
DwellFires(st, f) == /\ StaysIn(st, f) /\ f.speed = "slow" /\ ~st.dwell_fired
                     /\ st.stationary_since # None /\ f.ts - st.stationary_since >= DwellS

OverspeedSays(st, f, e) ==
  /\ "overspeed" \in e.events <=> OverspeedFires(st, f)
  /\ StaysIn(st, f) =>
       /\ e.st.overspeed_consec = IF f.speed = "over" THEN st.overspeed_consec + 1 ELSE 0
       /\ e.st.overspeed_fired <=> \/ OverspeedFires(st, f)
                                   \/ st.overspeed_fired /\ f.speed \in {"over", "none"}
  /\ Exits(st, f) => e.st.overspeed_consec = 0 /\ ~e.st.overspeed_fired
  /\ ~StaysIn(st, f) /\ ~Exits(st, f) => /\ e.st.overspeed_consec = st.overspeed_consec
                                         /\ e.st.overspeed_fired = st.overspeed_fired

DwellSays(st, f, e) ==
  /\ "zone_dwell" \in e.events <=> DwellFires(st, f)
  /\ StaysIn(st, f) =>
       /\ e.st.stationary_since = IF f.speed = "slow" /\ st.stationary_since = None THEN f.ts
                                  ELSE IF f.speed \in {"normal", "over"} THEN None
                                  ELSE st.stationary_since
       /\ e.st.dwell_fired <=> \/ DwellFires(st, f)
                               \/ st.dwell_fired /\ f.speed \in {"slow", "none"}
  /\ Exits(st, f) => e.st.stationary_since = None /\ ~e.st.dwell_fired
  /\ ~StaysIn(st, f) /\ ~Exits(st, f) => /\ e.st.stationary_since = st.stationary_since
                                         /\ e.st.dwell_fired = st.dwell_fired

LEMMA FreshIsRow == FreshState \in ZoneState
  BY DEF FreshState, ZoneState, None

\* CountFix after BreakRun.
CountSays(st, f, c) ==
  /\ c \in ZoneState
  /\ c.inside = st.inside /\ c.consec_in = InCount(st, f)
  /\ c.consec_out = OutCount(st, f) /\ c.entered_at = EntryStart(st, f)
  /\ c.overspeed_consec = st.overspeed_consec /\ c.overspeed_fired = st.overspeed_fired
  /\ c.stationary_since = st.stationary_since /\ c.dwell_fired = st.dwell_fired

LEMMA Counted == ASSUME NEW st \in ZoneState, NEW f \in TrackFix
                 PROVE  CountSays(st, f, CountFix(BreakRun(st, f.ts), f))
  <1> DEFINE b == BreakRun(st, f.ts)
             c == CountFix(b, f)
  <1>1. f.ts \in Int /\ f.loc \in Locations
    BY TrackAssumption DEF TrackFix
  <1>2. PICK p \in Nat : p = Kept(st, f, st.consec_in)
    BY DEF Kept, ZoneState
  <1>3. PICK q \in Nat : q = Kept(st, f, st.consec_out)
    BY DEF Kept, ZoneState
  <1>4. /\ b \in ZoneState
        /\ b.inside = st.inside /\ b.consec_in = p /\ b.consec_out = q
        /\ b.entered_at = st.entered_at /\ b.last_ts = st.last_ts
        /\ b.overspeed_consec = st.overspeed_consec /\ b.overspeed_fired = st.overspeed_fired
        /\ b.stationary_since = st.stationary_since /\ b.dwell_fired = st.dwell_fired
    <2>1. CASE Broken(st, f)
      <3>1. b = [st EXCEPT !.consec_in = 0, !.consec_out = 0] /\ p = 0 /\ q = 0
        BY <1>2, <1>3, <2>1 DEF BreakRun, Broken, Kept
      <3> HIDE DEF b
      <3> QED
        BY <3>1 DEF ZoneState
    <2>2. CASE ~Broken(st, f)
      BY <1>2, <1>3, <2>2 DEF BreakRun, Broken, Kept, ZoneState
    <2> QED
      BY <2>1, <2>2
  <1> HIDE DEF b
  <1>5. CASE f.loc = "in"
    <2>1. PICK a \in Int : a = EntryStart(st, f)
      BY <1>1 DEF EntryStart, ZoneState
    <2>2. InCount(st, f) = p + 1 /\ OutCount(st, f) = 0
      BY <1>2, <1>5 DEF InCount, OutCount
    <2>3. a = IF ~b.inside /\ (b.consec_in = 0 \/ b.entered_at = None) THEN f.ts ELSE b.entered_at
      BY <1>2, <1>4, <1>5, <2>1 DEF EntryStart
    <2>10. PICK p1 \in Nat : p1 = p + 1
      OBVIOUS
    <2>4. c = [b EXCEPT !.entered_at = a, !.consec_in = p1, !.consec_out = 0]
      BY <1>4, <1>5, <2>3, <2>10 DEF CountFix
    <2> HIDE DEF c
    <2>11. b \in ZoneState
      BY <1>4
    <2>5. /\ c \in ZoneState /\ c.inside = b.inside /\ c.consec_in = p1 /\ c.consec_out = 0
          /\ c.entered_at = a
          /\ c.overspeed_consec = b.overspeed_consec /\ c.overspeed_fired = b.overspeed_fired
          /\ c.stationary_since = b.stationary_since /\ c.dwell_fired = b.dwell_fired
      BY <2>4, <2>11 DEF ZoneState
    <2>6. CountSays(st, f, c)
      BY <1>4, <2>1, <2>2, <2>5, <2>10 DEF CountSays
    <2> QED
      BY <2>6 DEF c, b
  <1>6. CASE f.loc # "in"
    <2>1. PICK o \in Nat : o = q + (IF f.loc = "out" THEN 1 ELSE 0)
      OBVIOUS
    <2>2. InCount(st, f) = 0 /\ OutCount(st, f) = o /\ EntryStart(st, f) = st.entered_at
      BY <1>3, <1>6, <2>1 DEF InCount, OutCount, EntryStart
    <2>3. c = [b EXCEPT !.consec_in = 0,
                        !.consec_out = IF f.loc = "out" THEN b.consec_out + 1 ELSE b.consec_out]
      BY <1>4, <1>6 DEF CountFix, ZoneState
    <2>4. o = IF f.loc = "out" THEN b.consec_out + 1 ELSE b.consec_out
      BY <1>4, <2>1
    <2> HIDE DEF c
    <2>5. c = [b EXCEPT !.consec_in = 0, !.consec_out = o]
      BY <2>3, <2>4
    <2>6. /\ c \in ZoneState /\ c.inside = b.inside /\ c.consec_in = 0 /\ c.consec_out = o
          /\ c.entered_at = b.entered_at
          /\ c.overspeed_consec = b.overspeed_consec /\ c.overspeed_fired = b.overspeed_fired
          /\ c.stationary_since = b.stationary_since /\ c.dwell_fired = b.dwell_fired
      BY <1>4, <2>5 DEF ZoneState
    <2>7. CountSays(st, f, c)
      BY <1>4, <2>2, <2>6 DEF CountSays
    <2> QED
      BY <2>7 DEF c, b
  <1> QED
    BY <1>5, <1>6

\* Step, field by field.
StepSays(st, f, s) ==
  /\ s.st \in ZoneState
  /\ s.st.inside = StaysIn(st, f)
  /\ s.st.consec_in = IF Exits(st, f) THEN 0 ELSE InCount(st, f)
  /\ s.st.consec_out = IF Enters(st, f) THEN 0 ELSE OutCount(st, f)
  /\ ~Exits(st, f) => s.st.entered_at = EntryStart(st, f)
  /\ s.transition = "entry" <=> Enters(st, f)
  /\ IF Exits(st, f)
       THEN /\ s.st.overspeed_consec = 0 /\ ~s.st.overspeed_fired
            /\ s.st.stationary_since = None /\ ~s.st.dwell_fired
       ELSE /\ s.st.overspeed_consec = st.overspeed_consec
            /\ s.st.overspeed_fired = st.overspeed_fired
            /\ s.st.stationary_since = st.stationary_since
            /\ s.st.dwell_fired = st.dwell_fired

LEMMA Stepped == ASSUME NEW st \in ZoneState, NEW f \in TrackFix
                 PROVE  StepSays(st, f, Step(st, f))
  <1> DEFINE c == CountFix(BreakRun(st, f.ts), f)
             s == Step(st, f)
  <1>1. /\ c \in ZoneState
        /\ c.inside = st.inside /\ c.consec_in = InCount(st, f)
        /\ c.consec_out = OutCount(st, f) /\ c.entered_at = EntryStart(st, f)
        /\ c.overspeed_consec = st.overspeed_consec /\ c.overspeed_fired = st.overspeed_fired
        /\ c.stationary_since = st.stationary_since /\ c.dwell_fired = st.dwell_fired
    BY Counted DEF CountSays
  <1>2. s = IF ~c.inside
            THEN IF Confirmed(c, f.ts)
                   THEN [st |-> [c EXCEPT !.inside = TRUE, !.consec_out = 0], transition |-> "entry"]
                   ELSE [st |-> c, transition |-> "none"]
            ELSE IF c.consec_out >= ExitDebounce
                   THEN [st |-> Exited(c), transition |-> "exit"]
                   ELSE [st |-> c, transition |-> "none"]
    BY DEF Step
  <1>3. Confirmed(c, f.ts) <=> /\ InCount(st, f) >= DebounceIn /\ EntryStart(st, f) # None
                               /\ f.ts - EntryStart(st, f) >= MinEntryDwell
    BY <1>1 DEF Confirmed
  <1> HIDE DEF c, s
  <1>4. CASE Enters(st, f)
    <2>1. s = [st |-> [c EXCEPT !.inside = TRUE, !.consec_out = 0], transition |-> "entry"]
      BY <1>1, <1>2, <1>3, <1>4 DEF Enters
    <2>2. PICK yes \in BOOLEAN : yes = TRUE
      OBVIOUS
    <2>3. s.st = [c EXCEPT !.inside = yes, !.consec_out = 0] /\ s.transition = "entry"
      BY <2>1, <2>2
    <2>4. ~Exits(st, f) /\ StaysIn(st, f) = yes
      BY <1>4, <2>2 DEF Exits, Enters, StaysIn
    <2>50. PICK r \in ZoneState : r = c
      BY <1>1
    <2>51. PICK o \in Nat : o = 0
      OBVIOUS
    <2>52. s.st = [r EXCEPT !.inside = yes, !.consec_out = o]
      BY <2>3, <2>50, <2>51
    <2>53. s.st \in ZoneState
      BY <2>52 DEF ZoneState
    <2>5. /\ s.st \in ZoneState /\ s.st.inside = yes /\ s.st.consec_out = 0
          /\ s.st.consec_in = r.consec_in /\ s.st.entered_at = r.entered_at
          /\ s.st.overspeed_consec = r.overspeed_consec /\ s.st.overspeed_fired = r.overspeed_fired
          /\ s.st.stationary_since = r.stationary_since /\ s.st.dwell_fired = r.dwell_fired
      BY <2>51, <2>52, <2>53 DEF ZoneState
    <2>6. StepSays(st, f, s)
      BY <1>1, <1>4, <2>3, <2>4, <2>5, <2>50 DEF StepSays
    <2> QED
      BY <2>6 DEF s
  <1>5. CASE Exits(st, f)
    <2>1. s = [st |-> Exited(c), transition |-> "exit"]
      BY <1>1, <1>2, <1>5 DEF Exits
    <2>2. s.st = Exited(c) /\ s.transition = "exit"
      BY <2>1
    <2>3. ~Enters(st, f) /\ StaysIn(st, f) = FALSE /\ OutCount(st, f) >= ExitDebounce
      BY <1>5 DEF Exits, Enters, StaysIn
    <2>4. f.loc # "in"
      BY <2>3, RuleAssumption DEF OutCount
    <2>5. PICK r \in ZoneState : r = FreshState
      BY FreshIsRow
    <2>6. s.st = [r EXCEPT !.consec_out = c.consec_out, !.last_ts = c.last_ts]
      BY <2>2, <2>5 DEF Exited
    <2>7. /\ s.st \in ZoneState /\ s.st.inside = r.inside /\ s.st.consec_in = r.consec_in
          /\ s.st.consec_out = c.consec_out
          /\ s.st.overspeed_consec = r.overspeed_consec /\ s.st.overspeed_fired = r.overspeed_fired
          /\ s.st.stationary_since = r.stationary_since /\ s.st.dwell_fired = r.dwell_fired
      BY <1>1, <2>6 DEF ZoneState
    <2>8. /\ r.inside = FALSE /\ r.consec_in = 0 /\ r.overspeed_consec = 0 /\ ~r.overspeed_fired
          /\ r.stationary_since = None /\ ~r.dwell_fired
      BY <2>5 DEF FreshState
    <2>9. StepSays(st, f, s)
      BY <1>1, <1>5, <2>2, <2>3, <2>7, <2>8 DEF StepSays
    <2> QED
      BY <2>9 DEF s
  <1>6. CASE ~Enters(st, f) /\ ~Exits(st, f)
    <2>1. s = [st |-> c, transition |-> "none"]
      BY <1>1, <1>2, <1>3, <1>6 DEF Exits, Enters
    <2>2. s.st = c /\ s.transition = "none"
      BY <2>1
    <2>3. PICK in \in BOOLEAN : in = st.inside
      BY DEF ZoneState
    <2>4. StaysIn(st, f) = st.inside
      <3>1. CASE in
        BY <1>6, <2>3, <3>1 DEF StaysIn
      <3>2. CASE ~in
        BY <1>6, <2>3, <3>2 DEF StaysIn, Enters
      <3> QED
        BY <3>1, <3>2
    <2>5. StepSays(st, f, s)
      BY <1>1, <1>6, <2>2, <2>4 DEF StepSays
    <2> QED
      BY <2>5 DEF s
  <1> QED
    BY <1>4, <1>5, <1>6

\* Overspeed and Dwell touch their own fields only.
OverspeedOf(st, f, o) ==
  LET fires == f.speed = "over" /\ st.overspeed_consec + 1 >= OverspeedConsecutive
               /\ ~st.overspeed_fired
  IN  /\ o.st \in ZoneState
      /\ o.st = [st EXCEPT !.overspeed_consec = o.st.overspeed_consec,
                           !.overspeed_fired = o.st.overspeed_fired]
      /\ o.st.overspeed_consec = IF f.speed = "over" THEN st.overspeed_consec + 1 ELSE 0
      /\ o.st.overspeed_fired <=> fires \/ (st.overspeed_fired /\ f.speed \in {"over", "none"})
      /\ o.events = IF fires THEN {"overspeed"} ELSE {}

DwellOf(st, f, d) ==
  LET fires == /\ f.speed = "slow" /\ st.stationary_since # None /\ ~st.dwell_fired
               /\ f.ts - st.stationary_since >= DwellS
  IN  /\ d.st \in ZoneState
      /\ d.st = [st EXCEPT !.stationary_since = d.st.stationary_since,
                           !.dwell_fired = d.st.dwell_fired]
      /\ d.st.stationary_since = IF f.speed = "slow" /\ st.stationary_since = None THEN f.ts
                                 ELSE IF f.speed \in {"normal", "over"} THEN None
                                 ELSE st.stationary_since
      /\ d.st.dwell_fired <=> fires \/ (st.dwell_fired /\ f.speed \in {"slow", "none"})
      /\ d.events = IF fires THEN {"zone_dwell"} ELSE {}

LEMMA OverspeedRule == ASSUME NEW st \in ZoneState, NEW f \in TrackFix
                       PROVE  OverspeedOf(st, f, Overspeed(st, f))
  <1> DEFINE fires == f.speed = "over" /\ st.overspeed_consec + 1 >= OverspeedConsecutive
                      /\ ~st.overspeed_fired
             o == Overspeed(st, f)
  <1>1. f.speed \in {"none", "slow", "normal", "over"}
    BY DEF TrackFix, Speeds
  <1>2. PICK m \in Nat : m = IF f.speed = "over" THEN st.overspeed_consec + 1 ELSE 0
    BY DEF ZoneState
  <1>3. PICK b \in BOOLEAN : b = (fires \/ (st.overspeed_fired /\ f.speed \in {"over", "none"}))
    OBVIOUS
  <1>4. o.st = [st EXCEPT !.overspeed_consec = m, !.overspeed_fired = b]
        /\ o.events = IF fires THEN {"overspeed"} ELSE {}
    <2>1. CASE f.speed = "none"
      <3>1. o.st = [st EXCEPT !.overspeed_consec = 0] /\ o.events = {}
        BY <2>1 DEF Overspeed
      <3>2. m = 0 /\ b = st.overspeed_fired /\ ~fires
        BY <1>2, <1>3, <2>1 DEF ZoneState
      <3> QED
        BY <3>1, <3>2 DEF ZoneState
    <2>2. CASE f.speed = "over"
      <3>1. o.st = [st EXCEPT !.overspeed_consec = st.overspeed_consec + 1,
                              !.overspeed_fired = st.overspeed_fired \/ fires]
            /\ o.events = IF fires THEN {"overspeed"} ELSE {}
        BY <2>2 DEF Overspeed, ZoneState
      <3>2. m = st.overspeed_consec + 1 /\ b = (st.overspeed_fired \/ fires)
        BY <1>2, <1>3, <2>2
      <3> QED
        BY <3>1, <3>2
    <2>3. CASE f.speed \in {"slow", "normal"}
      <3>1. o.st = [st EXCEPT !.overspeed_consec = 0, !.overspeed_fired = FALSE] /\ o.events = {}
        BY <2>3 DEF Overspeed
      <3>2. m = 0 /\ b = FALSE /\ ~fires
        BY <1>2, <1>3, <2>3
      <3> QED
        BY <3>1, <3>2
    <2> QED
      BY <1>1, <2>1, <2>2, <2>3
  <1> HIDE DEF o
  <1>5. o.st \in ZoneState /\ o.st.overspeed_consec = m /\ o.st.overspeed_fired = b
    BY <1>4 DEF ZoneState
  <1>6. OverspeedOf(st, f, o)
    BY <1>2, <1>3, <1>4, <1>5 DEF OverspeedOf
  <1> QED
    BY <1>6 DEF o

LEMMA DwellRule == ASSUME NEW st \in ZoneState, NEW f \in TrackFix
                   PROVE  DwellOf(st, f, Dwell(st, f))
  <1> DEFINE fires == /\ f.speed = "slow" /\ st.stationary_since # None /\ ~st.dwell_fired
                      /\ f.ts - st.stationary_since >= DwellS
             d == Dwell(st, f)
  <1>1. f.speed \in {"none", "slow", "normal", "over"} /\ f.ts \in Int
    BY RuleAssumption, TrackAssumption DEF TrackFix, Speeds
  <1>2. CASE f.speed = "slow" /\ st.stationary_since = None
    <2>1. d.st = [st EXCEPT !.stationary_since = f.ts] /\ d.events = {}
      BY <1>2 DEF Dwell
    <2> HIDE DEF d
    <2> QED
      BY <1>1, <1>2, <2>1 DEF ZoneState, DwellOf, d
  <1>3. CASE fires
    <2>1. PICK yes \in BOOLEAN : yes = TRUE
      OBVIOUS
    <2>2. d.st = [st EXCEPT !.dwell_fired = yes] /\ d.events = {"zone_dwell"}
      BY <1>3, <2>1 DEF Dwell
    <2> HIDE DEF d
    <2>3. /\ d.st \in ZoneState /\ d.st.dwell_fired = yes
          /\ d.st.stationary_since = st.stationary_since
      BY <2>2 DEF ZoneState
    <2>4. d.st = [st EXCEPT !.stationary_since = d.st.stationary_since,
                            !.dwell_fired = d.st.dwell_fired]
      BY <2>2, <2>3 DEF ZoneState
    <2>5. DwellOf(st, f, d)
      BY <1>3, <2>1, <2>2, <2>3, <2>4 DEF DwellOf
    <2> QED
      BY <2>5 DEF d
  <1>4. CASE f.speed \in {"normal", "over"}
    <2>1. PICK no \in BOOLEAN : no = FALSE
      OBVIOUS
    <2>2. PICK none \in Int : none = None
      BY DEF None
    <2>3. d.st = [st EXCEPT !.stationary_since = none, !.dwell_fired = no] /\ d.events = {}
      BY <1>4, <2>1, <2>2 DEF Dwell
    <2> HIDE DEF d
    <2>4. d.st \in ZoneState /\ d.st.stationary_since = none /\ d.st.dwell_fired = no
      BY <2>3 DEF ZoneState
    <2>5. DwellOf(st, f, d)
      BY <1>4, <2>1, <2>2, <2>3, <2>4 DEF DwellOf
    <2> QED
      BY <2>5 DEF d
  <1>5. CASE f.speed \notin {"normal", "over"} /\ ~fires
             /\ ~(f.speed = "slow" /\ st.stationary_since = None)
    <2>1. d.st = st /\ d.events = {}
      BY <1>5 DEF Dwell
    <2>2. st = [st EXCEPT !.stationary_since = st.stationary_since, !.dwell_fired = st.dwell_fired]
      BY DEF ZoneState
    <2> HIDE DEF d
    <2>3. DwellOf(st, f, d)
      BY <1>1, <1>5, <2>1, <2>2 DEF ZoneState, DwellOf
    <2> QED
      BY <2>3 DEF d
  <1> QED
    BY <1>1, <1>2, <1>3, <1>4, <1>5

\* Evaluate of a row without a future watermark, field by field.
LEMMA EvaluateSays ==
  ASSUME NEW st \in ZoneState, NEW f \in TrackFix, NEW at, Sober(st, f, at)
  PROVE  LET e == Evaluate(st, f, at)
         IN  /\ e.st \in ZoneState
             /\ DebounceSays(st, f, e) /\ OverspeedSays(st, f, e) /\ DwellSays(st, f, e)
  <1> DEFINE s == Step(st, f)
             o == IF s.st.inside THEN Overspeed(s.st, f) ELSE [st |-> s.st, events |-> {}]
             d == IF s.st.inside THEN Dwell(o.st, f) ELSE [st |-> o.st, events |-> {}]
             e == Evaluate(st, f, at)
  <1>1. e = [st |-> [d.st EXCEPT !.last_ts = f.ts],
             events |-> o.events \cup d.events
                        \cup (IF s.transition = "entry" THEN {"zone_breach"} ELSE {})]
    BY DEF Evaluate, Sober
  <1>2. f.ts \in Int
    BY RuleAssumption, TrackAssumption DEF TrackFix
  <1>3. /\ s.st \in ZoneState /\ s.st.inside = StaysIn(st, f)
        /\ s.st.consec_in = IF Exits(st, f) THEN 0 ELSE InCount(st, f)
        /\ s.st.consec_out = IF Enters(st, f) THEN 0 ELSE OutCount(st, f)
        /\ ~Exits(st, f) => s.st.entered_at = EntryStart(st, f)
        /\ s.transition = "entry" <=> Enters(st, f)
    BY Stepped DEF StepSays
  <1>4. IF Exits(st, f)
          THEN /\ s.st.overspeed_consec = 0 /\ ~s.st.overspeed_fired
               /\ s.st.stationary_since = None /\ ~s.st.dwell_fired
          ELSE /\ s.st.overspeed_consec = st.overspeed_consec
               /\ s.st.overspeed_fired = st.overspeed_fired
               /\ s.st.stationary_since = st.stationary_since
               /\ s.st.dwell_fired = st.dwell_fired
    BY Stepped DEF StepSays
  <1>5. StaysIn(st, f) \in BOOLEAN /\ (StaysIn(st, f) => ~Exits(st, f))
    BY DEF StaysIn, Exits, Enters
  <1> HIDE DEF s
  <1>6. CASE ~StaysIn(st, f)
    <2>1. o = [st |-> s.st, events |-> {}] /\ d = [st |-> s.st, events |-> {}]
      BY <1>3, <1>6
    <2>2. /\ e.st = [s.st EXCEPT !.last_ts = f.ts]
          /\ e.events = IF Enters(st, f) THEN {"zone_breach"} ELSE {}
      BY <1>1, <1>3, <2>1
    <2>3. e.st \in ZoneState
      BY <1>2, <1>3, <2>2 DEF ZoneState
    <2>4. DebounceSays(st, f, e)
      BY <1>3, <2>2 DEF DebounceSays, ZoneState
    <2>5. OverspeedSays(st, f, e)
      BY <1>3, <1>4, <1>6, <2>2 DEF OverspeedSays, OverspeedFires, ZoneState
    <2>6. DwellSays(st, f, e)
      BY <1>3, <1>4, <1>6, <2>2 DEF DwellSays, DwellFires, ZoneState
    <2> QED
      BY <2>3, <2>4, <2>5, <2>6 DEF e
  <1>7. CASE StaysIn(st, f)
    <2>1. o = Overspeed(s.st, f) /\ d = Dwell(o.st, f)
      BY <1>3, <1>7
    <2> DEFINE ofires == f.speed = "over" /\ s.st.overspeed_consec + 1 >= OverspeedConsecutive
                         /\ ~s.st.overspeed_fired
               dfires == /\ f.speed = "slow" /\ s.st.stationary_since # None /\ ~s.st.dwell_fired
                         /\ f.ts - s.st.stationary_since >= DwellS
    <2>20. OverspeedOf(s.st, f, o)
      BY <1>3, <2>1, OverspeedRule
    <2>2. /\ o.st \in ZoneState
          /\ o.st = [s.st EXCEPT !.overspeed_consec = o.st.overspeed_consec,
                                 !.overspeed_fired = o.st.overspeed_fired]
          /\ o.st.overspeed_consec = IF f.speed = "over" THEN s.st.overspeed_consec + 1 ELSE 0
          /\ o.st.overspeed_fired <=> ofires \/ (s.st.overspeed_fired /\ f.speed \in {"over", "none"})
          /\ o.events = IF ofires THEN {"overspeed"} ELSE {}
      BY <2>20 DEF OverspeedOf
    <2> HIDE DEF o
    <2>3. /\ o.st.stationary_since = s.st.stationary_since /\ o.st.dwell_fired = s.st.dwell_fired
          /\ o.st.inside = s.st.inside /\ o.st.consec_in = s.st.consec_in
          /\ o.st.consec_out = s.st.consec_out /\ o.st.entered_at = s.st.entered_at
      BY <1>3, <2>2 DEF ZoneState
    <2>40. DwellOf(o.st, f, d)
      BY <2>1, <2>2, DwellRule
    <2>4. /\ d.st \in ZoneState
          /\ d.st = [o.st EXCEPT !.stationary_since = d.st.stationary_since,
                                 !.dwell_fired = d.st.dwell_fired]
          /\ d.st.stationary_since = IF f.speed = "slow" /\ s.st.stationary_since = None THEN f.ts
                                     ELSE IF f.speed \in {"normal", "over"} THEN None
                                     ELSE s.st.stationary_since
          /\ d.st.dwell_fired <=> dfires \/ (s.st.dwell_fired /\ f.speed \in {"slow", "none"})
          /\ d.events = IF dfires THEN {"zone_dwell"} ELSE {}
      BY <2>3, <2>40 DEF DwellOf
    <2> HIDE DEF d
    <2>5. /\ d.st.overspeed_consec = o.st.overspeed_consec
          /\ d.st.overspeed_fired = o.st.overspeed_fired
          /\ d.st.inside = s.st.inside /\ d.st.consec_in = s.st.consec_in
          /\ d.st.consec_out = s.st.consec_out /\ d.st.entered_at = s.st.entered_at
      BY <2>2, <2>3, <2>4 DEF ZoneState
    <2>6. ofires = OverspeedFires(st, f) /\ dfires = DwellFires(st, f)
      BY <1>4, <1>5, <1>7 DEF OverspeedFires, DwellFires
    <2> HIDE DEF ofires, dfires
    <2>7. /\ e.st = [d.st EXCEPT !.last_ts = f.ts]
          /\ e.events = o.events \cup d.events
                        \cup (IF Enters(st, f) THEN {"zone_breach"} ELSE {})
      BY <1>1, <1>3
    <2> HIDE DEF e
    <2>8. /\ e.st \in ZoneState /\ e.st.last_ts = f.ts
          /\ e.st.inside = s.st.inside /\ e.st.consec_in = s.st.consec_in
          /\ e.st.consec_out = s.st.consec_out /\ e.st.entered_at = s.st.entered_at
          /\ e.st.overspeed_consec = o.st.overspeed_consec
          /\ e.st.overspeed_fired = o.st.overspeed_fired
          /\ e.st.stationary_since = d.st.stationary_since /\ e.st.dwell_fired = d.st.dwell_fired
      BY <1>2, <2>4, <2>5, <2>7 DEF ZoneState
    <2>9. /\ "overspeed" \in e.events <=> ofires
          /\ "zone_dwell" \in e.events <=> dfires
          /\ "zone_breach" \in e.events <=> Enters(st, f)
      BY <2>2, <2>4, <2>7
    <2>10. DebounceSays(st, f, e)
      BY <1>3, <2>8, <2>9 DEF DebounceSays
    <2>11. OverspeedSays(st, f, e)
      BY <1>4, <1>5, <1>7, <2>2, <2>6, <2>8, <2>9 DEF OverspeedSays
    <2>12. DwellSays(st, f, e)
      BY <1>4, <1>5, <1>7, <2>4, <2>6, <2>8, <2>9 DEF DwellSays
    <2> QED
      BY <2>8, <2>10, <2>11, <2>12 DEF e
  <1> QED
    BY <1>6, <1>7

-----------------------------------------------------------------------------
\* n fixes have been evaluated.
Evaluated(n) == n = Len(track)

\* Runs that end at a fix: of fixes inside, and of fixes not inside.
InRun(i, j) == Consecutive(i, j) /\ \A k \in i .. j : track[k].loc = "in"
OutRun(i, j) == Consecutive(i, j) /\ \A k \in i .. j : track[k].loc # "in"
Outs(i, j) == {k \in i .. j : track[k].loc = "out"}

\* The next fix is evaluated.
Takes(f) ==
  /\ track' = Append(track, [ts |-> f.ts, loc |-> f.loc, speed |-> f.speed,
                             inside |-> trackState'.inside])
  /\ trackState'.inside \in BOOLEAN

\* The next fix follows the last one.
Joined(f, n) == n > 0 /\ f.ts >= track[n].ts /\ f.ts - track[n].ts <= MaxGap

LEMMA Appended ==
  ASSUME track \in Seq(TrackEntry), NEW f \in TrackFix, Takes(f)
  PROVE  /\ track' \in Seq(TrackEntry) /\ Len(track) \in Nat /\ Len(track') = Len(track) + 1
         /\ \A k \in 1 .. Len(track) : track[k] \in TrackEntry /\ track'[k] = track[k]
         /\ track'[Len(track) + 1].ts = f.ts /\ track'[Len(track) + 1].loc = f.loc
         /\ track'[Len(track) + 1].speed = f.speed
         /\ track'[Len(track) + 1].inside = trackState'.inside
  <1> DEFINE x == [ts |-> f.ts, loc |-> f.loc, speed |-> f.speed, inside |-> trackState'.inside]
  <1>1. x \in TrackEntry
    BY TrackAssumption DEF TrackFix, TrackEntry, Takes
  <1>2. track' = Append(track, x)
    BY DEF Takes
  <1>3. x.ts = f.ts /\ x.loc = f.loc /\ x.speed = f.speed /\ x.inside = trackState'.inside
    OBVIOUS
  <1> HIDE DEF x
  <1> QED
    BY <1>1, <1>2, <1>3

\* What was told of the earlier fixes stands.
LEMMA PastStands ==
  ASSUME track \in Seq(TrackEntry), NEW f \in TrackFix, Takes(f),
         NEW j \in 1 .. Len(track), NEW i \in 1 .. j
  PROVE  /\ Consecutive(i, j)' <=> Consecutive(i, j)
         /\ InRun(i, j)' <=> InRun(i, j)
         /\ OutRun(i, j)' <=> OutRun(i, j)
         /\ Outs(i, j)' = Outs(i, j)
         /\ \A S : Spell(S, i, j)' <=> Spell(S, i, j)
  <1>1. \A k \in i .. j : track'[k] = track[k]
    BY Appended
  <1>2. \A k \in i + 1 .. j : k \in i .. j /\ k - 1 \in i .. j
    BY Appended
  <1>3. Consecutive(i, j)' <=> Consecutive(i, j)
    BY <1>1, <1>2 DEF Consecutive
  <1>4. \A S : Spell(S, i, j)' <=> Spell(S, i, j)
    BY <1>1 DEF Spell
  <1> QED
    BY <1>1, <1>3, <1>4 DEF InRun, OutRun, Outs

\* Runs and spells that end at the new fix.
LEMMA RunsExtend ==
  ASSUME track \in Seq(TrackEntry), NEW f \in TrackFix, Takes(f),
         NEW n \in Nat, Evaluated(n), NEW i \in 1 .. n
  PROVE  /\ InRun(i, n + 1)' <=> InRun(i, n) /\ Joined(f, n) /\ f.loc = "in"
         /\ OutRun(i, n + 1)' <=> OutRun(i, n) /\ Joined(f, n) /\ f.loc # "in"
         /\ Outs(i, n + 1)' = Outs(i, n) \cup (IF f.loc = "out" THEN {n + 1} ELSE {})
         /\ \A S : Spell(S, i, n + 1)' <=> Spell(S, i, n) /\ trackState'.inside /\ f.speed \in S
  <1>1. n > 0 /\ i \in Nat
    OBVIOUS
  <1>2. \A k \in 1 .. n : track'[k] = track[k]
    BY Appended DEF Evaluated
  <1>3. /\ track'[n + 1].ts = f.ts /\ track'[n + 1].loc = f.loc
        /\ track'[n + 1].speed = f.speed /\ track'[n + 1].inside = trackState'.inside
    BY Appended DEF Evaluated
  <1>4. i .. n + 1 = (i .. n) \cup {n + 1} /\ i + 1 .. n + 1 = (i + 1 .. n) \cup {n + 1}
    BY <1>1
  <1>5. \A k \in i .. n : k \in 1 .. n /\ k # n + 1
    BY <1>1
  <1>6. \A k \in i + 1 .. n : k \in 1 .. n /\ k - 1 \in 1 .. n
    BY <1>1
  <1>7. track'[n + 1 - 1] = track[n]
    BY <1>1, <1>2
  <1>8. Consecutive(i, n + 1)' <=> Consecutive(i, n) /\ Joined(f, n)
    <2>1. Consecutive(i, n + 1)' <=>
            /\ \A k \in i + 1 .. n : track'[k].ts >= track'[k - 1].ts
                                     /\ track'[k].ts - track'[k - 1].ts <= MaxGap
            /\ f.ts >= track[n].ts /\ f.ts - track[n].ts <= MaxGap
      <3>1. Consecutive(i, n + 1)' <=>
              \A k \in (i + 1 .. n) \cup {n + 1} : track'[k].ts >= track'[k - 1].ts
                                                  /\ track'[k].ts - track'[k - 1].ts <= MaxGap
        BY <1>4 DEF Consecutive
      <3>2. track'[n + 1].ts = f.ts /\ track'[n + 1 - 1] = track[n]
        BY <1>3, <1>7
      <3> DEFINE Close(k) == /\ track'[k].ts >= track'[k - 1].ts
                             /\ track'[k].ts - track'[k - 1].ts <= MaxGap
      <3>3. Close(n + 1) <=> f.ts >= track[n].ts /\ f.ts - track[n].ts <= MaxGap
        BY <3>2
      <3>4. Consecutive(i, n + 1)' <=> \A k \in (i + 1 .. n) \cup {n + 1} : Close(k)
        BY <3>1
      <3> HIDE DEF Close
      <3>5. Consecutive(i, n + 1)' <=> (\A k \in i + 1 .. n : Close(k)) /\ Close(n + 1)
        BY <3>4
      <3> QED
        BY <3>3, <3>5 DEF Close
    <2> QED
      BY <2>1, <1>1, <1>2, <1>6 DEF Consecutive, Joined
  <1>9. \A S : Spell(S, i, n + 1)' <=> Spell(S, i, n) /\ trackState'.inside /\ f.speed \in S
    BY <1>2, <1>3, <1>4, <1>5 DEF Spell
  <1>10. InRun(i, n + 1)' <=> InRun(i, n) /\ Joined(f, n) /\ f.loc = "in"
    BY <1>2, <1>3, <1>4, <1>5, <1>8 DEF InRun
  <1>11. OutRun(i, n + 1)' <=> OutRun(i, n) /\ Joined(f, n) /\ f.loc # "in"
    BY <1>2, <1>3, <1>4, <1>5, <1>8 DEF OutRun
  <1>12. Outs(i, n + 1)' = Outs(i, n) \cup (IF f.loc = "out" THEN {n + 1} ELSE {})
    <2>1. ASSUME NEW k PROVE k \in Outs(i, n + 1)' <=> k \in Outs(i, n) \/ (f.loc = "out" /\ k = n + 1)
      BY <1>2, <1>3, <1>4, <1>5 DEF Outs
    <2> QED
      BY <2>1
  <1> QED
    BY <1>9, <1>10, <1>11, <1>12

LEMMA RunsStart ==
  ASSUME track \in Seq(TrackEntry), NEW f \in TrackFix, Takes(f),
         NEW n \in Nat, Evaluated(n)
  PROVE  /\ InRun(n + 1, n + 1)' <=> f.loc = "in"
         /\ OutRun(n + 1, n + 1)' <=> f.loc # "in"
         /\ Outs(n + 1, n + 1)' = IF f.loc = "out" THEN {n + 1} ELSE {}
         /\ \A S : Spell(S, n + 1, n + 1)' <=> trackState'.inside /\ f.speed \in S
  <1>2. /\ track'[n + 1].ts = f.ts /\ track'[n + 1].loc = f.loc
        /\ track'[n + 1].speed = f.speed /\ track'[n + 1].inside = trackState'.inside
    BY Appended DEF Evaluated
  <1>3. n + 1 .. n + 1 = {n + 1} /\ (n + 1) + 1 .. n + 1 = {}
    OBVIOUS
  <1>4. Outs(n + 1, n + 1)' = IF f.loc = "out" THEN {n + 1} ELSE {}
    BY <1>2, <1>3 DEF Outs
  <1> QED
    BY <1>2, <1>3, <1>4 DEF InRun, OutRun, Consecutive, Spell

-----------------------------------------------------------------------------
\* A row as a summary of the fixes evaluated so far: the runs and spells that end at the last.
OutStart(st, s, n) == /\ \A i \in 1 .. n : OutRun(i, n) <=> i >= s
                      /\ st.consec_out = Cardinality(Outs(s, n))
CountsRuns(st, n) ==
  /\ st.consec_in <= n
  /\ \A i \in 1 .. n : InRun(i, n) <=> i > n - st.consec_in
  /\ \E from \in 1 .. n + 1 : OutStart(st, from, n)
  /\ ~st.inside /\ st.consec_in > 0 => st.entered_at = track[n - st.consec_in + 1].ts

CountsOver(st, n) ==
  /\ st.overspeed_consec <= n
  /\ \A i \in 1 .. n : Spell({"over"}, i, n) <=> i > n - st.overspeed_consec
  /\ st.overspeed_fired <=>
       \E i \in 1 .. n : Spell({"over", "none"}, i, n) /\ Raised("overspeed", i)

Slow(i, n) == Spell({"slow", "none"}, i, n) /\ track[i].speed = "slow"
CountsStill(st, n) ==
  /\ IF st.stationary_since = None
       THEN \A i \in 1 .. n : ~Slow(i, n)
       ELSE \E s \in 1 .. n : /\ Slow(s, n) /\ \A i \in 1 .. n : Slow(i, n) => s <= i
                             /\ st.stationary_since = track[s].ts
  /\ st.dwell_fired <=>
       \E i \in 1 .. n : Spell({"slow", "none"}, i, n) /\ Raised("zone_dwell", i)

\* The fixes evaluated lie in the past, in order, and every alarm is of one of them.
InOrder ==
  /\ \A i, j \in 1 .. Len(track) : i < j => track[i].ts < track[j].ts
  /\ \A i \in 1 .. Len(track) : track[i].ts <= trackNow + MaxSkew
  /\ \A i \in 1 .. Len(track) : track[i].ts \in trackTimes
  /\ \A a \in trackRaised : a.ts \in trackTimes

Summary ==
  IF track = <<>> THEN trackState = FreshState \/ LegacyRow(trackState)
  ELSE \E n \in Nat \ {0} :
         /\ Evaluated(n)
         /\ trackState.inside = track[n].inside /\ trackState.last_ts = track[n].ts
         /\ CountsRuns(trackState, n) /\ CountsOver(trackState, n) /\ CountsStill(trackState, n)

TrackInv == /\ track \in Seq(TrackEntry) /\ trackState \in ZoneState
            /\ trackNow \in 1 .. MaxNow
            /\ InOrder /\ Summary /\ TrackTold

\* The row st a new fix meets, as a summary of what that fix continues.
MeetsRuns(st, f, n) ==
  /\ Kept(st, f, st.consec_in) \in 0 .. n
  /\ \A i \in 1 .. n : InRun(i, n) /\ Joined(f, n) <=> i > n - Kept(st, f, st.consec_in)
  /\ \E s \in 1 .. n + 1 : /\ \A i \in 1 .. n : OutRun(i, n) /\ Joined(f, n) <=> i >= s
                           /\ Kept(st, f, st.consec_out) = Cardinality(Outs(s, n))
  /\ ~st.inside /\ Kept(st, f, st.consec_in) > 0 =>
       st.entered_at = track[n - Kept(st, f, st.consec_in) + 1].ts
Meets(st, f, n) == /\ st \in ZoneState
                   /\ n > 0 => st.inside = track[n].inside
                   /\ MeetsRuns(st, f, n) /\ CountsOver(st, n) /\ CountsStill(st, n)
LEMMA NoOuts == ASSUME NEW n \in Nat PROVE Outs(n + 1, n) = {} /\ Cardinality({}) = 0
  <1>1. n + 1 .. n = {}
    OBVIOUS
  <1> QED
    BY <1>1, FS_EmptySet DEF Outs

LEMMA OutsFinite == ASSUME NEW i \in Int, NEW j \in Int
                    PROVE  IsFiniteSet(Outs(i, j)) /\ Cardinality(Outs(i, j)) \in Nat
  <1>1. IsFiniteSet(i .. j)
    BY FS_Interval
  <1>2. Outs(i, j) \subseteq i .. j
    BY DEF Outs
  <1> QED
    BY <1>1, <1>2, FS_Subset, FS_CardinalityType

\* Once healed, the row is a summary of what the fix continues: of nothing, if it is the first.
LEMMA FixMeets ==
  ASSUME TrackInv, NEW f \in TrackFix, f.ts <= trackNow + MaxSkew,
         ~Skipped(trackState, f, trackNow), NEW n \in Nat, Evaluated(n)
  PROVE  LET h == Heal(trackState, f, trackNow)
         IN  /\ Meets(h, f, n) /\ Sober(h, f, trackNow)
             /\ Evaluate(trackState, f, trackNow) = Evaluate(h, f, trackNow)
             /\ \A i \in 1 .. n : track[i].ts < f.ts
  <1> DEFINE st == trackState
             h == Heal(st, f, trackNow)
  <1>1. /\ st \in ZoneState /\ trackNow \in 1 .. MaxNow /\ MaxNow \in Nat /\ MaxSkew \in Nat
        /\ f.ts \in 1 .. MaxNow + MaxSkew /\ f.ts \in Nat
        /\ \A i \in 1 .. n : track[i] \in TrackEntry
    BY TrackAssumption DEF TrackInv, TrackFix, Evaluated
  <1>2. h \in ZoneState /\ Sober(h, f, trackNow)
    <2>1. CASE FutureWatermark(st, trackNow) /\ st.stationary_since > f.ts
      <3>1. PICK none \in Int : none = None
        BY DEF None
      <3>2. PICK no \in BOOLEAN : no = FALSE
        OBVIOUS
      <3>3. PICK r \in ZoneState : r = st
        BY <1>1
      <3>4. h = [r EXCEPT !.stationary_since = none, !.dwell_fired = no]
        BY <2>1, <3>1, <3>2, <3>3 DEF Heal
      <3>5. h \in ZoneState /\ h.stationary_since = none
        BY <3>4 DEF ZoneState
      <3>6. ~(h.stationary_since > f.ts)
        BY <1>1, <3>1, <3>5 DEF None
      <3> QED
        BY <3>5, <3>6 DEF Sober, Heal
    <2>2. CASE ~(FutureWatermark(st, trackNow) /\ st.stationary_since > f.ts)
      BY <1>1, <2>2 DEF Sober, Heal
    <2> QED
      BY <2>1, <2>2
  <1>3. Evaluate(st, f, trackNow) = Evaluate(h, f, trackNow)
    BY <1>2 DEF Evaluate, Sober
  <1>4. CASE track = <<>>
    <2>1. n = 0 /\ ~Joined(f, n) /\ 1 .. n = {}
      BY <1>4 DEF Joined, Evaluated
    <2>2. /\ Kept(h, f, h.consec_in) = 0 /\ Kept(h, f, h.consec_out) = 0
          /\ h.overspeed_consec = 0 /\ ~h.overspeed_fired
          /\ h.stationary_since = None /\ ~h.dwell_fired
      <3>1. CASE st = FreshState
        <4>1. h = FreshState
          BY <3>1 DEF Heal, FutureWatermark, FreshState, None
        <4> QED
          BY <4>1 DEF FreshState, Kept, None
      <3>2. CASE LegacyRow(st)
        <4>1. FutureWatermark(st, trackNow)
          BY <1>1, <3>2 DEF LegacyRow, FutureWatermark, None, ZoneState
        <4>2. h.last_ts = st.last_ts /\ h.overspeed_consec = 0 /\ ~h.overspeed_fired
              /\ h.stationary_since = None /\ ~h.dwell_fired
          <5>1. CASE st.stationary_since > f.ts
            <6>1. h = [st EXCEPT !.stationary_since = None, !.dwell_fired = FALSE]
              BY <4>1, <5>1 DEF Heal
            <6>2. PICK none \in Int : none = None
              BY DEF None
            <6>3. PICK no \in BOOLEAN : no = FALSE
              OBVIOUS
            <6>4. PICK r \in ZoneState : r = st
              BY <1>1
            <6>5. h = [r EXCEPT !.stationary_since = none, !.dwell_fired = no]
              BY <6>1, <6>2, <6>3, <6>4
            <6>6. /\ h.last_ts = r.last_ts /\ h.overspeed_consec = r.overspeed_consec
                  /\ h.overspeed_fired = r.overspeed_fired
                  /\ h.stationary_since = none /\ h.dwell_fired = no
              BY <6>5 DEF ZoneState
            <6> QED
              BY <3>2, <6>2, <6>3, <6>4, <6>6 DEF LegacyRow
          <5>2. CASE ~(st.stationary_since > f.ts)
            <6>1. h = st
              BY <5>2 DEF Heal
            <6>2. PICK a \in Int : a = st.stationary_since
              BY <1>1 DEF ZoneState
            <6>3. ~(a > MaxNow + MaxSkew)
              BY <1>1, <5>2, <6>2
            <6> HIDE DEF h
            <6> QED
              BY <3>2, <6>1, <6>2, <6>3 DEF LegacyRow
          <5> QED
            BY <5>1, <5>2
        <4>3. Broken(h, f)
          BY <1>1, <3>2, <4>2 DEF Broken, LegacyRow, None, ZoneState
        <4> QED
          BY <4>2, <4>3 DEF Kept
      <3> QED
        BY <1>4, <3>1, <3>2 DEF TrackInv, Summary
    <2> HIDE DEF h
    <2>3. Outs(1, 0) = {} /\ Cardinality(Outs(1, 0)) = 0
      BY NoOuts
    <2>4. MeetsRuns(h, f, n)
      BY <2>1, <2>2, <2>3 DEF MeetsRuns
    <2>5. CountsOver(h, n)
      BY <2>1, <2>2 DEF CountsOver
    <2>6. CountsStill(h, n)
      BY <2>1, <2>2 DEF CountsStill
    <2> QED
      BY <1>2, <1>3, <2>1, <2>4, <2>5, <2>6 DEF Meets, h
  <1>5. CASE track # <<>>
    <2>1. /\ n > 0 /\ st.inside = track[n].inside /\ st.last_ts = track[n].ts
          /\ CountsRuns(st, n) /\ CountsOver(st, n) /\ CountsStill(st, n)
      BY <1>1, <1>5 DEF TrackInv, Summary, Evaluated
    <2>20. \A i \in 1 .. n : track[i].ts \in Nat /\ track[i].ts # 0
      BY <1>1 DEF TrackEntry
    <2>21. n \in 1 .. n /\ track[n].ts <= trackNow + MaxSkew
      BY <1>1, <2>1 DEF TrackInv, InOrder, Evaluated
    <2>22. \A i \in 1 .. n : i = n \/ track[i].ts < track[n].ts
      BY <1>1, <2>1 DEF TrackInv, InOrder, Evaluated
    <2>2. /\ track[n].ts \in Nat /\ track[n].ts # 0 /\ track[n].ts <= trackNow + MaxSkew
          /\ \A i \in 1 .. n : track[i].ts \in Nat /\ track[i].ts <= track[n].ts
      BY <1>1, <2>20, <2>21, <2>22
    <2>3. ~FutureWatermark(st, trackNow)
      BY <1>1, <2>1, <2>2 DEF FutureWatermark
    <2>4. h = st
      BY <2>3 DEF Heal
    <2>5. track[n].ts < f.ts
      BY <1>1, <2>1, <2>2, <2>3 DEF Skipped, None
    <2>6. Joined(f, n) <=> ~Broken(st, f)
      BY <1>1, <2>1, <2>2, <2>5, RuleAssumption DEF Joined, Broken, None
    <2>7. MeetsRuns(st, f, n)
      <3>1. CASE Broken(st, f)
        <4>1. Kept(st, f, st.consec_in) = 0 /\ Kept(st, f, st.consec_out) = 0 /\ ~Joined(f, n)
          BY <2>6, <3>1 DEF Kept
        <4>2. Outs(n + 1, n) = {} /\ Cardinality(Outs(n + 1, n)) = 0
          BY <1>1, NoOuts
        <4>3. n + 1 \in 1 .. n + 1 /\ \A i \in 1 .. n : ~(i >= n + 1) /\ ~(i > n - 0)
          BY <1>1
        <4> QED
          BY <1>1, <4>1, <4>2, <4>3 DEF MeetsRuns
      <3>2. CASE ~Broken(st, f)
        <4>1. /\ Kept(st, f, st.consec_in) = st.consec_in
              /\ Kept(st, f, st.consec_out) = st.consec_out /\ Joined(f, n)
          BY <2>6, <3>2 DEF Kept
        <4>2. st.consec_in \in 0 .. n
          BY <1>1, <2>1 DEF CountsRuns, ZoneState
        <4> QED
          BY <2>1, <4>1, <4>2 DEF MeetsRuns, CountsRuns, OutStart
      <3> QED
        BY <3>1, <3>2
    <2> QED
      BY <1>1, <1>2, <1>3, <2>1, <2>2, <2>4, <2>5, <2>7 DEF Meets
  <1> QED
    BY <1>4, <1>5

\* Entry and exit: the counters stay counts of runs, and reach their thresholds when the
\* transition is due.
LEMMA RunsStep ==
  ASSUME track \in Seq(TrackEntry), NEW f \in TrackFix, Takes(f), NEW st,
         NEW e, e.st = trackState', e.st \in ZoneState, DebounceSays(st, f, e),
         NEW n \in Nat, Evaluated(n), Meets(st, f, n)
  PROVE  /\ CountsRuns(trackState, n + 1)'
         /\ st.inside => (Exits(st, f) <=> ExitDue(n + 1)')
         /\ ~st.inside => (Enters(st, f) <=> EntryDue(n + 1)')
  <1> DEFINE K == Kept(st, f, st.consec_in)
             c == InCount(st, f)
  <1>1. /\ Len(track') = n + 1 /\ st \in ZoneState /\ K \in 0 .. n
        /\ f.ts \in Nat \ {0} /\ f.ts # None
    BY Appended, TrackAssumption DEF Meets, MeetsRuns, TrackFix, None, Evaluated
  <1>2. /\ \A k \in 1 .. n : track[k] \in TrackEntry /\ track'[k] = track[k]
        /\ track'[n + 1].ts = f.ts /\ track'[n + 1].loc = f.loc
    BY Appended DEF Evaluated
  <1>3. c = (IF f.loc = "in" THEN K + 1 ELSE 0) /\ c \in 0 .. n + 1
    BY <1>1 DEF InCount
  <1>4. ASSUME NEW i \in 1 .. n + 1 PROVE InRun(i, n + 1)' <=> i > n + 1 - c
    <2>1. CASE i = n + 1
      <3>1. InRun(n + 1, n + 1)' <=> f.loc = "in"
        BY RunsStart
      <3>2. InRun(i, n + 1)' <=> InRun(n + 1, n + 1)'
        BY <2>1 DEF InRun, Consecutive
      <3> QED
        BY <1>1, <1>3, <2>1, <3>1, <3>2
    <2>2. CASE i \in 1 .. n
      <3>1. InRun(i, n + 1)' <=> InRun(i, n) /\ Joined(f, n) /\ f.loc = "in"
        BY <2>2, RunsExtend
      <3>2. InRun(i, n) /\ Joined(f, n) <=> i > n - K
        BY <2>2 DEF Meets, MeetsRuns
      <3>3. CASE f.loc = "in"
        <4>1. c = K + 1
          BY <1>3, <3>3
        <4> HIDE DEF c, K
        <4> QED
          BY <1>1, <2>2, <3>1, <3>2, <3>3, <4>1
      <3>4. CASE f.loc # "in"
        <4>1. c = 0
          BY <1>3, <3>4
        <4> HIDE DEF c, K
        <4> QED
          BY <1>1, <2>2, <3>1, <3>4, <4>1
      <3> QED
        BY <3>3, <3>4
    <2> QED
      BY <1>1, <2>1, <2>2
  <1>5. ~st.inside /\ f.loc = "in" =>
          /\ n + 1 - c + 1 \in 1 .. n + 1
          /\ EntryStart(st, f) = track'[n + 1 - c + 1].ts /\ EntryStart(st, f) # None
    <2> SUFFICES ASSUME ~st.inside, f.loc = "in"
                 PROVE  /\ n + 1 - c + 1 \in 1 .. n + 1
                        /\ EntryStart(st, f) = track'[n + 1 - c + 1].ts
                        /\ EntryStart(st, f) # None
      OBVIOUS
    <2>1. c = K + 1 /\ n + 1 - c + 1 = n - K + 1 /\ n - K + 1 \in 1 .. n + 1
      BY <1>1, <1>3
    <2>2. CASE K = 0
      <3>1. EntryStart(st, f) = f.ts
        BY <2>2 DEF EntryStart
      <3> QED
        BY <1>1, <1>2, <2>1, <2>2, <3>1
    <2>3. CASE K > 0
      <3>1. n - K + 1 \in 1 .. n /\ st.entered_at = track[n - K + 1].ts
        BY <1>1, <2>3 DEF Meets, MeetsRuns
      <3>2. st.entered_at # None
        BY <1>2, <3>1 DEF TrackEntry, None
      <3>3. EntryStart(st, f) = st.entered_at
        BY <1>1, <2>3, <3>2 DEF EntryStart
      <3> QED
        BY <1>2, <2>1, <3>1, <3>2, <3>3
    <2> QED
      BY <1>1, <2>2, <2>3
  <1>6. /\ st.inside => ~Enters(st, f)
        /\ Exits(st, f) => f.loc # "in" /\ st.inside
        /\ Enters(st, f) => f.loc = "in"
    BY <1>3, RuleAssumption DEF Enters, Exits, OutCount
  <1>7. PICK s \in 1 .. n + 1 : /\ \A i \in 1 .. n : OutRun(i, n) /\ Joined(f, n) <=> i >= s
                                /\ Kept(st, f, st.consec_out) = Cardinality(Outs(s, n))
    BY DEF Meets, MeetsRuns
  <1> DEFINE z == IF f.loc = "in" THEN n + 2 ELSE s
  <1>8. z \in 1 .. n + 2 /\ \A i \in 1 .. n + 1 : OutRun(i, n + 1)' <=> i >= z
    <2>1. ASSUME NEW i \in 1 .. n + 1 PROVE OutRun(i, n + 1)' <=> i >= z
      <3>1. CASE i = n + 1
        <4>1. OutRun(n + 1, n + 1)' <=> f.loc # "in"
          BY RunsStart
        <4>2. OutRun(i, n + 1)' <=> OutRun(n + 1, n + 1)'
          BY <3>1 DEF OutRun, Consecutive
        <4> QED
          BY <1>7, <3>1, <4>1, <4>2
      <3>2. CASE i \in 1 .. n
        <4>1. OutRun(i, n + 1)' <=> OutRun(i, n) /\ Joined(f, n) /\ f.loc # "in"
          BY <3>2, RunsExtend
        <4>2. OutRun(i, n) /\ Joined(f, n) <=> i >= s
          BY <1>7, <3>2
        <4>3. CASE f.loc = "in"
          BY <3>2, <4>1, <4>3
        <4>4. CASE f.loc # "in"
          BY <4>1, <4>2, <4>4
        <4> QED
          BY <4>3, <4>4
      <3> QED
        BY <1>1, <3>1, <3>2
    <2> QED
      BY <1>1, <1>7, <2>1
  <1>9. OutCount(st, f) = Cardinality(Outs(z, n + 1)')
    <2>1. CASE f.loc = "in"
      <3>1. Outs(n + 2, n + 1)' = {}
        BY <1>1 DEF Outs
      <3> QED
        BY <2>1, <3>1, FS_EmptySet DEF OutCount
    <2>2. CASE f.loc # "in"
      <3>1. Outs(s, n + 1)' = Outs(s, n) \cup (IF f.loc = "out" THEN {n + 1} ELSE {})
        <4>1. CASE s = n + 1
          BY <1>1, <4>1, NoOuts, RunsStart
        <4>2. CASE s \in 1 .. n
          BY <4>2, RunsExtend
        <4> QED
          BY <1>1, <1>7, <4>1, <4>2
      <3>2. n + 1 \notin Outs(s, n) /\ IsFiniteSet(Outs(s, n)) /\ Cardinality(Outs(s, n)) \in Nat
        <4>1. s \in Int /\ n \in Int /\ n + 1 \notin s .. n
          OBVIOUS
        <4> QED
          BY <4>1, OutsFinite DEF Outs
      <3>3. f.loc = "out" => Cardinality(Outs(s, n) \cup {n + 1}) = Cardinality(Outs(s, n)) + 1
        BY <3>2, FS_AddElement
      <3>4. f.loc # "out" => Outs(s, n) \cup {} = Outs(s, n)
        OBVIOUS
      <3>5. CASE f.loc = "out"
        BY <1>7, <2>2, <3>1, <3>3, <3>5 DEF OutCount
      <3>6. CASE f.loc # "out"
        <4>1. OutCount(st, f) = Kept(st, f, st.consec_out) + 0
          BY <2>2, <3>6 DEF OutCount
        <4>2. Kept(st, f, st.consec_out) \in Nat
          BY <1>7, <3>2
        <4>3. OutCount(st, f) = Cardinality(Outs(s, n))
          BY <1>7, <4>1, <4>2
        <4>4. Outs(z, n + 1)' = Outs(s, n)
          BY <2>2, <3>1, <3>6
        <4> QED
          BY <4>3, <4>4
      <3> QED
        BY <3>5, <3>6
    <2> QED
      BY <2>1, <2>2
  <1>10. ExitDue(n + 1)' <=> OutCount(st, f) >= ExitDebounce
    <2>1. ExitDue(n + 1)' <=>
            \E i \in 1 .. n + 1 : OutRun(i, n + 1)' /\ Cardinality(Outs(i, n + 1)') >= ExitDebounce
      BY DEF ExitDue, OutRun, Outs
    <2>2. ASSUME NEW i \in 1 .. n + 1, i >= z
          PROVE  /\ Cardinality(Outs(i, n + 1)') <= Cardinality(Outs(z, n + 1)')
                 /\ Cardinality(Outs(i, n + 1)') \in Nat
      <3>1. Outs(i, n + 1)' \subseteq Outs(z, n + 1)'
        BY <1>1, <1>8, <2>2 DEF Outs
      <3>2. IsFiniteSet(z .. n + 1) /\ Outs(z, n + 1)' \subseteq z .. n + 1
        <4>1. z \in Int /\ n + 1 \in Int
          BY <1>1, <1>8
        <4> HIDE DEF z
        <4> QED
          BY <4>1, FS_Interval DEF Outs
      <3>3. IsFiniteSet(Outs(z, n + 1)')
        BY <3>2, FS_Subset
      <3> QED
        BY <3>1, <3>3, FS_Subset, FS_CardinalityType
    <2>3. OutCount(st, f) \in Nat
      <3>1. st.consec_out \in Nat
        BY <1>1 DEF ZoneState
      <3>2. Kept(st, f, st.consec_out) \in Nat
        BY <3>1 DEF Kept
      <3> QED
        BY <3>2 DEF OutCount
    <2>4. z = n + 2 => OutCount(st, f) = 0
      BY <1>1, <1>7 DEF OutCount
    <2>5. z \in 1 .. n + 1 => z >= z
      BY <1>1
    <2> QED
      BY <1>1, <1>8, <1>9, <2>1, <2>2, <2>3, <2>4, <2>5, RuleAssumption
  <1>11. ~st.inside => (Enters(st, f) <=> EntryDue(n + 1)')
    <2> SUFFICES ASSUME ~st.inside PROVE Enters(st, f) <=> EntryDue(n + 1)'
      OBVIOUS
    <2>1. EntryDue(n + 1)' <=>
            \E i \in 1 .. n + 1 :
              /\ InRun(i, n + 1)' /\ \A h \in 1 .. n + 1 : InRun(h, n + 1)' => i <= h
              /\ (n + 1) - i + 1 >= DebounceIn /\ f.ts - track'[i].ts >= MinEntryDwell
      <3> DEFINE Run == {i \in 1 .. n + 1 : InRun(i, n + 1)'}
      <3>1. EntryDue(n + 1)' <=>
              \E i \in Run : /\ \A h \in Run : i <= h
                           /\ (n + 1) - i + 1 >= DebounceIn
                           /\ track'[n + 1].ts - track'[i].ts >= MinEntryDwell
        BY DEF EntryDue, InRun
      <3>2. track'[n + 1].ts = f.ts
        BY <1>2
      <3> QED
        BY <3>1, <3>2
    <2>2. CASE f.loc # "in"
      BY <1>1, <1>3, <1>4, <1>6, <2>1, <2>2
    <2>3. CASE f.loc = "in"
      <3>0. PICK m \in 1 .. n + 1 : m = n + 1 - c + 1
        BY <1>5, <2>3
      <3>1. m \in 1 .. n + 1 /\ EntryStart(st, f) = track'[m].ts /\ EntryStart(st, f) # None
        BY <1>5, <2>3, <3>0
      <3>2. c = n + 1 - m + 1 /\ \A i \in 1 .. n + 1 : InRun(i, n + 1)' <=> i >= m
        BY <1>1, <1>3, <1>4, <3>0
      <3>3. Enters(st, f) <=> c >= DebounceIn /\ f.ts - track'[m].ts >= MinEntryDwell
        BY <3>1 DEF Enters
      <3>4. EntryDue(n + 1)' <=> n + 1 - m + 1 >= DebounceIn /\ f.ts - track'[m].ts >= MinEntryDwell
        <4>1. InRun(m, n + 1)' /\ \A h \in 1 .. n + 1 : InRun(h, n + 1)' => m <= h
          BY <1>1, <3>1, <3>2
        <4>2. ASSUME NEW i \in 1 .. n + 1, InRun(i, n + 1)',
                     \A h \in 1 .. n + 1 : InRun(h, n + 1)' => i <= h
              PROVE  i = m
          <5>1. i <= m /\ m <= i
            BY <3>1, <4>1, <4>2
          <5> QED
            BY <1>1, <3>1, <5>1
        <4> QED
          BY <2>1, <3>1, <4>1, <4>2
      <3> QED
        BY <3>2, <3>3, <3>4
    <2> QED
      BY <2>2, <2>3
  <1>12. CountsRuns(trackState, n + 1)'
    <2>1. e.st.consec_in = c
      BY <1>3, <1>6 DEF DebounceSays
    <2>2. e.st.consec_out = OutCount(st, f)
      BY <1>6 DEF DebounceSays, OutCount
    <2>3. ~e.st.inside /\ c > 0 => e.st.entered_at = track'[n + 1 - c + 1].ts
      <3> SUFFICES ASSUME ~e.st.inside, c > 0 PROVE e.st.entered_at = track'[n + 1 - c + 1].ts
        OBVIOUS
      <3>1. f.loc = "in" /\ ~Exits(st, f)
        BY <1>3, <1>6
      <3>2. ~st.inside
        BY <3>1 DEF DebounceSays, StaysIn
      <3> QED
        BY <1>5, <3>1, <3>2 DEF DebounceSays
    <2>4. PICK w \in 1 .. n + 1 + 1 : w = z
      BY <1>1, <1>8
    <2>5. e.st.consec_in <= n + 1
      BY <1>1, <1>3, <2>1
    <2> HIDE DEF c
    <2>6. \A i \in 1 .. n + 1 : InRun(i, n + 1)' <=> i > n + 1 - e.st.consec_in
      BY <1>4, <2>1
    <2>7. \A i \in 1 .. n + 1 : OutRun(i, n + 1)' <=> i >= w
      BY <1>8, <2>4
    <2>8. e.st.consec_out = Cardinality(Outs(w, n + 1)')
      BY <1>9, <2>2, <2>4
    <2> HIDE DEF z
    <2>9. PICK r \in ZoneState : r = trackState'
      OBVIOUS
    <2>10. r.consec_in \in Nat /\ r = trackState'
      BY <2>9 DEF ZoneState
    <2>11. ~r.inside /\ r.consec_in > 0 => r.entered_at = track'[(n + 1) - r.consec_in + 1].ts
      BY <2>1, <2>3, <2>10
    <2>12. /\ r.consec_in <= n + 1
           /\ \A i \in 1 .. n + 1 : InRun(i, n + 1)' <=> i > (n + 1) - r.consec_in
      BY <2>5, <2>6, <2>10
    <2>13. \E from \in 1 .. n + 1 + 1 : /\ \A i \in 1 .. n + 1 : OutRun(i, n + 1)' <=> i >= from
                                      /\ r.consec_out = Cardinality(Outs(from, n + 1)')
      BY <2>4, <2>7, <2>8, <2>10
    <2> QED
      BY <2>10, <2>11, <2>12, <2>13 DEF CountsRuns, OutStart
  <1> QED
    BY <1>10, <1>11, <1>12 DEF Exits


-----------------------------------------------------------------------------
\* Alarms: what was raised for the earlier fixes stands, the new fix raises those of e.
Raises(e, n) == \A type \in AlarmTypes : /\ \A i \in 1 .. n : Raised(type, i)' <=> Raised(type, i)
                                         /\ Raised(type, n + 1)' <=> type \in e.events

LEMMA AlarmsRaised ==
  ASSUME track \in Seq(TrackEntry), InOrder, NEW f \in TrackFix, Takes(f), f.ts \notin trackTimes,
         NEW e, trackRaised' = trackRaised \cup {[type |-> t, ts |-> f.ts] : t \in e.events},
         NEW n \in Nat, Evaluated(n)
  PROVE  Raises(e, n)
  <1>1. /\ \A k \in 1 .. n : track'[k] = track[k] /\ track[k].ts \in trackTimes
        /\ track'[n + 1].ts = f.ts /\ \A a \in trackRaised : a.ts \in trackTimes
    BY Appended DEF Evaluated, InOrder
  <1>2. ASSUME NEW type \in AlarmTypes, NEW i \in 1 .. n PROVE Raised(type, i)' <=> Raised(type, i)
    <2>1. track[i].ts # f.ts
      BY <1>1
    <2>2. [type |-> type, ts |-> track[i].ts] \notin {[type |-> t, ts |-> f.ts] : t \in e.events}
      BY <2>1
    <2> QED
      BY <1>1, <2>2 DEF Raised
  <1>3. ASSUME NEW type \in AlarmTypes PROVE Raised(type, n + 1)' <=> type \in e.events
    <2>1. [type |-> type, ts |-> f.ts] \notin trackRaised
      BY <1>1
    <2>2. [type |-> type, ts |-> f.ts] \in {[type |-> t, ts |-> f.ts] : t \in e.events}
            <=> type \in e.events
      OBVIOUS
    <2>3. Raised(type, n + 1)' <=> [type |-> type, ts |-> f.ts] \in trackRaised'
      BY <1>1 DEF Raised
    <2> QED
      BY <2>1, <2>2, <2>3
  <1> QED
    BY <1>2, <1>3 DEF Raises

\* No spell ends at a fix outside.
LEMMA NoSpell ==
  ASSUME NEW n \in Nat, n > 0 => ~track[n].inside, NEW i \in 1 .. n, NEW S
  PROVE  ~Spell(S, i, n)
  BY DEF Spell

\* Whether a spell of S has raised its alarm, with the new fix and without it.
LEMMA SpellRaised ==
  ASSUME track \in Seq(TrackEntry), NEW f \in TrackFix, Takes(f), NEW e,
         NEW n \in Nat, Evaluated(n), Raises(e, n), NEW S, NEW type \in AlarmTypes
  PROVE  LET goesOn == trackState'.inside /\ f.speed \in S
             told == \E i \in 1 .. n : Spell(S, i, n) /\ Raised(type, i)
         IN  /\ (\E i \in 1 .. n : Spell(S, i, n + 1)' /\ Raised(type, i)') <=> goesOn /\ told
             /\ (\E i \in 1 .. n + 1 : Spell(S, i, n + 1)' /\ Raised(type, i)')
                  <=> goesOn /\ (told \/ type \in e.events)
  <1> DEFINE goesOn == trackState'.inside /\ f.speed \in S
  <1>1. \A i \in 1 .. n : Spell(S, i, n + 1)' <=> Spell(S, i, n) /\ goesOn
    BY RunsExtend
  <1>2. Spell(S, n + 1, n + 1)' <=> goesOn
    BY RunsStart
  <1>3. /\ \A i \in 1 .. n : Raised(type, i)' <=> Raised(type, i)
        /\ Raised(type, n + 1)' <=> type \in e.events
    BY DEF Raises
  <1>4. 1 .. n + 1 = (1 .. n) \cup {n + 1}
    OBVIOUS
  <1> HIDE DEF goesOn
  <1>5. (\E i \in 1 .. n : Spell(S, i, n + 1)' /\ Raised(type, i)')
          <=> goesOn /\ \E i \in 1 .. n : Spell(S, i, n) /\ Raised(type, i)
    BY <1>1, <1>3
  <1>6. (\E i \in 1 .. n + 1 : Spell(S, i, n + 1)' /\ Raised(type, i)')
          <=> \/ \E i \in 1 .. n : Spell(S, i, n + 1)' /\ Raised(type, i)'
              \/ Spell(S, n + 1, n + 1)' /\ Raised(type, n + 1)'
    BY <1>4
  <1> QED
    BY <1>2, <1>3, <1>5, <1>6 DEF goesOn

\* The overspeed rule: the counter stays the length of the spell, and the alarm is due when
\* it is raised.
LEMMA OverspeedStep ==
  ASSUME track \in Seq(TrackEntry), NEW f \in TrackFix, Takes(f), NEW st,
         NEW e, e.st = trackState', e.st \in ZoneState, DebounceSays(st, f, e),
         OverspeedSays(st, f, e), NEW n \in Nat, Evaluated(n), Meets(st, f, n), Raises(e, n)
  PROVE  CountsOver(trackState, n + 1)' /\ (Raised("overspeed", n + 1)' <=> OverspeedDue(n + 1)')
  <1> DEFINE stays == StaysIn(st, f)
  <1>1. /\ st \in ZoneState /\ trackState'.inside = stays
        /\ CountsOver(st, n) /\ (n > 0 => st.inside = track[n].inside)
    BY DEF Meets, DebounceSays
  <1>2. PICK k \in 0 .. n : k = st.overspeed_consec
    BY <1>1 DEF CountsOver, ZoneState
  <1>3. /\ \A i \in 1 .. n : Spell({"over"}, i, n) <=> i > n - k
        /\ st.overspeed_fired <=>
             \E i \in 1 .. n : Spell({"over", "none"}, i, n) /\ Raised("overspeed", i)
    BY <1>1, <1>2 DEF CountsOver
  <1>4. ~stays /\ ~Exits(st, f) => k = 0 /\ ~st.overspeed_fired
    <2> SUFFICES ASSUME ~stays, ~Exits(st, f) PROVE k = 0 /\ ~st.overspeed_fired
      OBVIOUS
    <2>1. n > 0 => ~track[n].inside
      BY <1>1 DEF StaysIn
    <2>2. \A i \in 1 .. n : ~Spell({"over"}, i, n) /\ ~Spell({"over", "none"}, i, n)
      BY <2>1, NoSpell
    <2>3. k > 0 => n \in 1 .. n /\ n > n - k
      OBVIOUS
    <2>4. k = 0
      BY <1>3, <2>2, <2>3
    <2> QED
      BY <1>3, <2>2, <2>4
  <1>5. PICK c \in 0 .. n + 1 : c = IF stays /\ f.speed = "over" THEN k + 1 ELSE 0
    OBVIOUS
  <1>6. PICK fires \in BOOLEAN : fires = OverspeedFires(st, f)
    BY DEF OverspeedFires
  <1>7. fires <=> c >= OverspeedConsecutive /\ ~st.overspeed_fired
    BY <1>2, <1>5, <1>6 DEF OverspeedFires
  <1>8. /\ trackState'.overspeed_consec = c
        /\ trackState'.overspeed_fired <=>
             fires \/ (stays /\ st.overspeed_fired /\ f.speed \in {"over", "none"})
    <2>1. fires => stays
      BY <1>6 DEF OverspeedFires
    <2>2. CASE stays
      BY <1>2, <1>5, <1>6, <2>2 DEF OverspeedSays
    <2>3. CASE ~stays /\ Exits(st, f)
      BY <1>5, <2>1, <2>3 DEF OverspeedSays
    <2>4. CASE ~stays /\ ~Exits(st, f)
      BY <1>2, <1>4, <1>5, <2>1, <2>4 DEF OverspeedSays
    <2> QED
      BY <2>2, <2>3, <2>4
  <1> HIDE DEF stays
  <1>9. ASSUME NEW i \in 1 .. n + 1 PROVE Spell({"over"}, i, n + 1)' <=> i > n + 1 - c
    <2>1. CASE i = n + 1
      <3>1. Spell({"over"}, n + 1, n + 1)' <=> stays /\ f.speed = "over"
        <4>1. \A S : Spell(S, n + 1, n + 1)' <=> trackState'.inside /\ f.speed \in S
          BY RunsStart
        <4> QED
          BY <1>1, <4>1
      <3>2. Spell({"over"}, i, n + 1)' <=> Spell({"over"}, n + 1, n + 1)'
        BY <2>1 DEF Spell
      <3> QED
        BY <1>5, <2>1, <3>1, <3>2
    <2>2. CASE i \in 1 .. n
      <3>1. Spell({"over"}, i, n + 1)' <=> Spell({"over"}, i, n) /\ stays /\ f.speed = "over"
        <4>1. \A S : Spell(S, i, n + 1)' <=> Spell(S, i, n) /\ trackState'.inside /\ f.speed \in S
          BY <2>2, RunsExtend
        <4> QED
          BY <1>1, <4>1
      <3> QED
        BY <1>3, <1>5, <2>2, <3>1
    <2> QED
      BY <2>1, <2>2
  <1>10. "overspeed" \in AlarmTypes /\ ("overspeed" \in e.events <=> fires)
    BY <1>6 DEF AlarmTypes, OverspeedSays
  <1>11. fires => stays /\ f.speed \in {"over", "none"}
    BY <1>6 DEF OverspeedFires, stays
  <1>12. /\ (\E i \in 1 .. n : Spell({"over", "none"}, i, n + 1)' /\ Raised("overspeed", i)')
              <=> stays /\ f.speed \in {"over", "none"} /\ st.overspeed_fired
         /\ (\E i \in 1 .. n + 1 : Spell({"over", "none"}, i, n + 1)' /\ Raised("overspeed", i)')
              <=> trackState'.overspeed_fired
    <2> DEFINE S == {"over", "none"}
               told == \E i \in 1 .. n : Spell(S, i, n) /\ Raised("overspeed", i)
    <2>1. /\ (\E i \in 1 .. n : Spell(S, i, n + 1)' /\ Raised("overspeed", i)')
               <=> trackState'.inside /\ f.speed \in S /\ told
          /\ (\E i \in 1 .. n + 1 : Spell(S, i, n + 1)' /\ Raised("overspeed", i)')
               <=> trackState'.inside /\ f.speed \in S /\ (told \/ "overspeed" \in e.events)
      BY <1>10, SpellRaised
    <2>2. told <=> st.overspeed_fired
      BY <1>3
    <2> QED
      BY <1>1, <1>8, <1>10, <1>11, <2>1, <2>2
  <1>13. CountsOver(trackState, n + 1)'
    <2>1. /\ trackState'.overspeed_consec <= n + 1 /\ trackState'.overspeed_consec \in Nat
          /\ \A i \in 1 .. n + 1 :
               Spell({"over"}, i, n + 1)' <=> i > n + 1 - trackState'.overspeed_consec
      BY <1>5, <1>8, <1>9
    <2> QED
      BY <1>12, <2>1 DEF CountsOver
  <1>14. OverspeedDue(n + 1)' <=> fires
    <2>1. OverspeedDue(n + 1)' <=>
            /\ n + 1 >= OverspeedConsecutive
            /\ Spell({"over"}, (n + 1) - OverspeedConsecutive + 1, n + 1)'
            /\ ~ \E i \in 1 .. n : Spell({"over", "none"}, i, n + 1)' /\ Raised("overspeed", i)'
      <3>1. 1 .. (n + 1) - 1 = 1 .. n
        OBVIOUS
      <3> QED
        BY <3>1 DEF OverspeedDue
    <2>2. CASE n + 1 >= OverspeedConsecutive
      <3>1. PICK i \in 1 .. n + 1 : i = (n + 1) - OverspeedConsecutive + 1
        BY <2>2, RuleAssumption
      <3>2. Spell({"over"}, (n + 1) - OverspeedConsecutive + 1, n + 1)' <=> Spell({"over"}, i, n + 1)'
        BY <3>1 DEF Spell
      <3>3. Spell({"over"}, i, n + 1)' <=> c >= OverspeedConsecutive
        BY <1>9, <3>1, RuleAssumption
      <3>4. c >= OverspeedConsecutive => stays /\ f.speed \in {"over", "none"}
        BY <1>5, RuleAssumption
      <3> QED
        BY <1>7, <1>12, <2>1, <2>2, <3>2, <3>3, <3>4
    <2>3. CASE ~(n + 1 >= OverspeedConsecutive)
      BY <1>7, <2>1, <2>3, RuleAssumption
    <2> QED
      BY <2>2, <2>3
  <1> QED
    BY <1>10, <1>13, <1>14 DEF Raises

\* The dwell rule: the row keeps the first fix of the spell standing still, and the alarm is
\* due when it is raised.
LEMMA DwellStep ==
  ASSUME track \in Seq(TrackEntry), NEW f \in TrackFix, Takes(f), NEW st,
         NEW e, e.st = trackState', e.st \in ZoneState, DebounceSays(st, f, e),
         DwellSays(st, f, e), NEW n \in Nat, Evaluated(n), Meets(st, f, n), Raises(e, n),
         \A i, j \in 1 .. n : i <= j => track[i].ts <= track[j].ts
  PROVE  CountsStill(trackState, n + 1)' /\ (Raised("zone_dwell", n + 1)' <=> DwellDue(n + 1)')
  <1> DEFINE stays == StaysIn(st, f)
             S == {"slow", "none"}
  <1>1. /\ st \in ZoneState /\ trackState'.inside = stays /\ stays \in BOOLEAN
        /\ CountsStill(st, n) /\ (n > 0 => st.inside = track[n].inside)
        /\ f.ts \in Nat /\ f.ts # None /\ f.speed \in Speeds
    <2>1. trackState'.inside = stays /\ stays \in BOOLEAN
      BY DEF DebounceSays, ZoneState
    <2>2. st \in ZoneState /\ CountsStill(st, n) /\ (n > 0 => st.inside = track[n].inside)
      BY DEF Meets
    <2>3. f.ts \in Nat /\ f.ts # None /\ f.speed \in Speeds
      BY TrackAssumption DEF TrackFix, None
    <2> QED
      BY <2>1, <2>2, <2>3
  <1>2. /\ \A i \in 1 .. n : track[i].ts \in Nat /\ track[i].ts # None /\ track'[i] = track[i]
        /\ track'[n + 1].ts = f.ts /\ track'[n + 1].speed = f.speed
    BY Appended DEF Evaluated, TrackEntry, None
  <1>3. PICK since \in Int : since = st.stationary_since
    BY <1>1 DEF ZoneState
  <1>4. /\ IF since = None
             THEN \A i \in 1 .. n : ~Slow(i, n)
             ELSE \E s \in 1 .. n : /\ Slow(s, n) /\ \A i \in 1 .. n : Slow(i, n) => s <= i
                                   /\ since = track[s].ts
        /\ st.dwell_fired <=> \E i \in 1 .. n : Spell(S, i, n) /\ Raised("zone_dwell", i)
    BY <1>1, <1>3 DEF CountsStill
  <1>5. ~stays /\ ~Exits(st, f) => since = None /\ ~st.dwell_fired
    <2> SUFFICES ASSUME ~stays, ~Exits(st, f) PROVE since = None /\ ~st.dwell_fired
      OBVIOUS
    <2>1. n > 0 => ~track[n].inside
      BY <1>1 DEF StaysIn
    <2>2. \A i \in 1 .. n : ~Spell(S, i, n)
      BY <2>1, NoSpell
    <2> QED
      BY <1>4, <2>2 DEF Slow
  <1>6. PICK fires \in BOOLEAN : fires = DwellFires(st, f)
    BY DEF DwellFires
  <1>7. /\ fires <=> /\ stays /\ f.speed = "slow" /\ ~st.dwell_fired
                     /\ since # None /\ f.ts - since >= DwellS
        /\ "zone_dwell" \in e.events <=> fires
    BY <1>3, <1>6 DEF DwellFires, DwellSays
  <1>8. /\ trackState'.stationary_since =
             IF ~stays THEN None
             ELSE IF f.speed = "slow" /\ since = None THEN f.ts
             ELSE IF f.speed \in {"normal", "over"} THEN None ELSE since
        /\ trackState'.dwell_fired <=> fires \/ (stays /\ st.dwell_fired /\ f.speed \in S)
    <2>1. CASE stays
      BY <1>3, <1>6, <2>1 DEF DwellSays
    <2>2. CASE ~stays /\ Exits(st, f)
      BY <1>7, <2>2 DEF DwellSays
    <2>3. CASE ~stays /\ ~Exits(st, f)
      BY <1>3, <1>5, <1>7, <2>3 DEF DwellSays
    <2> QED
      BY <2>1, <2>2, <2>3
  <1> HIDE DEF stays
  <1>9. /\ \A i \in 1 .. n : Slow(i, n + 1)' <=> Slow(i, n) /\ stays /\ f.speed \in S
        /\ Slow(n + 1, n + 1)' <=> stays /\ f.speed = "slow"
    <2>1. \A i \in 1 .. n : Spell(S, i, n + 1)' <=> Spell(S, i, n) /\ trackState'.inside /\ f.speed \in S
      BY RunsExtend
    <2>2. Spell(S, n + 1, n + 1)' <=> trackState'.inside /\ f.speed \in S
      <3>1. \A T : Spell(T, n + 1, n + 1)' <=> trackState'.inside /\ f.speed \in T
        BY RunsStart
      <3> QED
        BY <3>1
    <2> QED
      BY <1>1, <1>2, <2>1, <2>2 DEF Slow
  <1>10. "zone_dwell" \in AlarmTypes /\ (fires => stays /\ f.speed \in S)
    BY <1>7 DEF AlarmTypes
  <1>11. /\ (\E i \in 1 .. n : Spell(S, i, n + 1)' /\ Raised("zone_dwell", i)')
              <=> stays /\ f.speed \in S /\ st.dwell_fired
         /\ (\E i \in 1 .. n + 1 : Spell(S, i, n + 1)' /\ Raised("zone_dwell", i)')
              <=> trackState'.dwell_fired
    <2> DEFINE told == \E i \in 1 .. n : Spell(S, i, n) /\ Raised("zone_dwell", i)
    <2>1. /\ (\E i \in 1 .. n : Spell(S, i, n + 1)' /\ Raised("zone_dwell", i)')
               <=> trackState'.inside /\ f.speed \in S /\ told
          /\ (\E i \in 1 .. n + 1 : Spell(S, i, n + 1)' /\ Raised("zone_dwell", i)')
               <=> trackState'.inside /\ f.speed \in S /\ (told \/ "zone_dwell" \in e.events)
      BY <1>10, SpellRaised
    <2>2. told <=> st.dwell_fired
      BY <1>4
    <2> QED
      BY <1>1, <1>7, <1>8, <1>10, <2>1, <2>2
  <1>12. IF trackState'.stationary_since = None
           THEN \A i \in 1 .. n + 1 : ~Slow(i, n + 1)'
           ELSE \E s \in 1 .. n + 1 :
                  /\ Slow(s, n + 1)' /\ \A i \in 1 .. n + 1 : Slow(i, n + 1)' => s <= i
                  /\ trackState'.stationary_since = track'[s].ts
    <2>0. 1 .. n + 1 = (1 .. n) \cup {n + 1}
      OBVIOUS
    <2>1. CASE ~stays \/ f.speed \in {"normal", "over"}
      BY <1>8, <1>9, <2>0, <2>1
    <2>2. CASE stays /\ f.speed = "none"
      <3>1. trackState'.stationary_since = since /\ ~Slow(n + 1, n + 1)'
        BY <1>8, <1>9, <2>2
      <3>2. \A i \in 1 .. n : Slow(i, n + 1)' <=> Slow(i, n)
        BY <1>9, <2>2
      <3>3. CASE since = None
        BY <1>4, <2>0, <3>1, <3>2, <3>3
      <3>4. CASE since # None
        <4>1. PICK s \in 1 .. n : /\ Slow(s, n) /\ \A i \in 1 .. n : Slow(i, n) => s <= i
                                  /\ since = track[s].ts
          BY <1>4, <3>4
        <4>2. s \in 1 .. n + 1 /\ since = track'[s].ts /\ Slow(s, n + 1)'
          BY <1>2, <3>2, <4>1
        <4>3. \A i \in 1 .. n + 1 : Slow(i, n + 1)' => s <= i
          BY <2>0, <3>1, <3>2, <4>1
        <4> QED
          BY <3>1, <3>4, <4>2, <4>3
      <3> QED
        BY <3>3, <3>4
    <2>3. CASE stays /\ f.speed = "slow"
      <3>1. Slow(n + 1, n + 1)'
        BY <1>9, <2>3
      <3>2. \A i \in 1 .. n : Slow(i, n + 1)' <=> Slow(i, n)
        BY <1>9, <2>3
      <3>3. CASE since = None
        <4>1. trackState'.stationary_since = f.ts
          BY <1>8, <2>3, <3>3
        <4>2. \A i \in 1 .. n + 1 : Slow(i, n + 1)' => n + 1 <= i
          BY <1>4, <2>0, <3>2, <3>3
        <4>3. n + 1 \in 1 .. n + 1
          OBVIOUS
        <4> QED
          BY <1>1, <1>2, <3>1, <4>1, <4>2, <4>3
      <3>4. CASE since # None
        <4>1. PICK s \in 1 .. n : /\ Slow(s, n) /\ \A i \in 1 .. n : Slow(i, n) => s <= i
                                  /\ since = track[s].ts
          BY <1>4, <3>4
        <4>2. s \in 1 .. n + 1 /\ since = track'[s].ts /\ Slow(s, n + 1)'
          BY <1>2, <3>2, <4>1
        <4>3. \A i \in 1 .. n + 1 : Slow(i, n + 1)' => s <= i
          BY <2>0, <3>2, <4>1
        <4>4. trackState'.stationary_since = since
          BY <1>8, <2>3, <3>4
        <4> QED
          BY <3>4, <4>2, <4>3, <4>4
      <3> QED
        BY <3>3, <3>4
    <2> QED
      BY <1>1, <2>1, <2>2, <2>3 DEF Speeds
  <1>13. CountsStill(trackState, n + 1)'
    BY <1>11, <1>12 DEF CountsStill
  <1>14. DwellDue(n + 1)' <=> fires
    <2> DEFINE long == \E i \in 1 .. n : Slow(i, n) /\ f.ts - track[i].ts >= DwellS
    <2>1. DwellDue(n + 1)' <=>
            /\ \E i \in 1 .. n : /\ Spell(S, i, n + 1)'
                                /\ track'[i].speed = "slow" /\ f.speed = "slow"
                                /\ f.ts - track'[i].ts >= DwellS
            /\ ~ \E i \in 1 .. n : Spell(S, i, n + 1)' /\ Raised("zone_dwell", i)'
      <3>1. 1 .. (n + 1) - 1 = 1 .. n
        OBVIOUS
      <3> QED
        BY <1>2, <3>1 DEF DwellDue
    <2>2. DwellDue(n + 1)' <=> /\ stays /\ f.speed = "slow" /\ long /\ ~st.dwell_fired
      <3>1. \A i \in 1 .. n : Spell(S, i, n + 1)' /\ track'[i].speed = "slow" <=> Slow(i, n + 1)'
        BY DEF Slow
      <3>2. (\E i \in 1 .. n : /\ Spell(S, i, n + 1)'
                               /\ track'[i].speed = "slow" /\ f.speed = "slow"
                               /\ f.ts - track'[i].ts >= DwellS)
              <=> stays /\ f.speed = "slow" /\ long
        BY <1>2, <1>9, <3>1
      <3> QED
        BY <1>11, <2>1, <3>2
    <2>3. long <=> since # None /\ f.ts - since >= DwellS
      <3>1. CASE since = None
        BY <1>4, <3>1
      <3>2. CASE since # None
        <4>1. PICK s \in 1 .. n : /\ Slow(s, n) /\ \A i \in 1 .. n : Slow(i, n) => s <= i
                                  /\ since = track[s].ts
          BY <1>4, <3>2
        <4>2. \A i \in 1 .. n : Slow(i, n) => since <= track[i].ts
          BY <4>1
        <4>3. ASSUME NEW i \in 1 .. n, Slow(i, n), f.ts - track[i].ts >= DwellS
              PROVE  f.ts - since >= DwellS
          <5>1. PICK ti \in Nat : ti = track[i].ts
            BY <1>2
          <5>2. since <= ti /\ f.ts - ti >= DwellS
            BY <4>2, <4>3, <5>1
          <5> QED
            BY <1>1, <5>2, RuleAssumption
        <4> QED
          BY <3>2, <4>1, <4>3
      <3> QED
        BY <3>1, <3>2
    <2> QED
      BY <1>7, <2>2, <2>3
  <1> QED
    BY <1>7, <1>10, <1>13, <1>14 DEF Raises

\* What was due and what was raised for the earlier fixes stands.
LEMMA PastTold ==
  ASSUME track \in Seq(TrackEntry), NEW f \in TrackFix, Takes(f), NEW e,
         NEW n \in Nat, Evaluated(n), Raises(e, n), NEW j \in 1 .. n
  PROVE  /\ track'[j].inside = track[j].inside
         /\ EntryDue(j)' <=> EntryDue(j)
         /\ ExitDue(j)' <=> ExitDue(j)
         /\ OverspeedDue(j)' <=> OverspeedDue(j)
         /\ DwellDue(j)' <=> DwellDue(j)
         /\ \A type \in AlarmTypes : Raised(type, j)' <=> Raised(type, j)
  <1>1. \A k \in 1 .. j : track'[k] = track[k] /\ k \in 1 .. n
    BY Appended DEF Evaluated
  <1>2. j \in 1 .. Len(track) /\ j \in 1 .. j
    BY DEF Evaluated
  <1>3. ASSUME NEW i \in 1 .. j
        PROVE  /\ InRun(i, j)' <=> InRun(i, j)
               /\ OutRun(i, j)' <=> OutRun(i, j)
               /\ Outs(i, j)' = Outs(i, j)
               /\ \A S : Spell(S, i, j)' <=> Spell(S, i, j)
    BY <1>2, PastStands
  <1>4. \A type \in AlarmTypes : \A i \in 1 .. j : Raised(type, i)' <=> Raised(type, i)
    BY <1>1 DEF Raises
  <1>5. EntryDue(j)' <=> EntryDue(j)
    <2> DEFINE Run == {i \in 1 .. j : InRun(i, j)}
               After == {i \in 1 .. j : InRun(i, j)'}
    <2>1. Run = After
      BY <1>3
    <2>2. EntryDue(j) <=> \E i \in Run : /\ \A h \in Run : i <= h
                                         /\ j - i + 1 >= DebounceIn
                                         /\ track[j].ts - track[i].ts >= MinEntryDwell
      BY DEF EntryDue, InRun
    <2>3. EntryDue(j)' <=> \E i \in After : /\ \A h \in After : i <= h
                                           /\ j - i + 1 >= DebounceIn
                                           /\ track'[j].ts - track'[i].ts >= MinEntryDwell
      BY DEF EntryDue, InRun
    <2>4. \A i \in Run : track'[i] = track[i]
      BY <1>1
    <2> HIDE DEF Run, After
    <2> QED
      BY <1>1, <1>2, <2>1, <2>2, <2>3, <2>4
  <1>6. ExitDue(j)' <=> ExitDue(j)
    <2>1. ExitDue(j) <=> \E i \in 1 .. j : OutRun(i, j) /\ Cardinality(Outs(i, j)) >= ExitDebounce
      BY DEF ExitDue, OutRun, Outs
    <2>2. ExitDue(j)' <=> \E i \in 1 .. j : OutRun(i, j)' /\ Cardinality(Outs(i, j)') >= ExitDebounce
      BY DEF ExitDue, OutRun, Outs
    <2> QED
      BY <1>3, <2>1, <2>2
  <1>7. {"overspeed", "zone_dwell"} \subseteq AlarmTypes /\ 1 .. j - 1 \subseteq 1 .. j
    BY DEF AlarmTypes
  <1>8. OverspeedDue(j)' <=> OverspeedDue(j)
    <2>1. j >= OverspeedConsecutive => j - OverspeedConsecutive + 1 \in 1 .. j
      BY RuleAssumption
    <2>2. j >= OverspeedConsecutive =>
            (Spell({"over"}, j - OverspeedConsecutive + 1, j)'
               <=> Spell({"over"}, j - OverspeedConsecutive + 1, j))
      <3> SUFFICES ASSUME j >= OverspeedConsecutive
                   PROVE  Spell({"over"}, j - OverspeedConsecutive + 1, j)'
                            <=> Spell({"over"}, j - OverspeedConsecutive + 1, j)
        OBVIOUS
      <3>1. \A k \in j - OverspeedConsecutive + 1 .. j : track'[k] = track[k]
        BY <1>1, <2>1
      <3> QED
        BY <3>1 DEF Spell
    <2>3. \A i \in 1 .. j - 1 :
            /\ Spell({"over", "none"}, i, j)' <=> Spell({"over", "none"}, i, j)
            /\ Raised("overspeed", i)' <=> Raised("overspeed", i)
      BY <1>3, <1>4, <1>7
    <2> QED
      BY <2>2, <2>3 DEF OverspeedDue
  <1>9. DwellDue(j)' <=> DwellDue(j)
    <2>1. \A i \in 1 .. j - 1 :
            /\ Spell({"slow", "none"}, i, j)' <=> Spell({"slow", "none"}, i, j)
            /\ Raised("zone_dwell", i)' <=> Raised("zone_dwell", i)
            /\ track'[i] = track[i]
      BY <1>1, <1>3, <1>4, <1>7
    <2> QED
      BY <1>1, <1>2, <2>1 DEF DwellDue
  <1> QED
    BY <1>1, <1>2, <1>4, <1>5, <1>6, <1>8, <1>9

LEMMA FixTold ==
  ASSUME TrackInv, NEW f \in TrackFix, f.ts <= trackNow + MaxSkew, f.ts \notin trackTimes,
         ~Skipped(trackState, f, trackNow),
         trackTimes' = trackTimes \cup {f.ts}, UNCHANGED trackNow,
         LET e == Evaluate(trackState, f, trackNow)
         IN  /\ trackState' = e.st
             /\ trackRaised' = trackRaised \cup {[type |-> t, ts |-> f.ts] : t \in e.events}
             /\ track' = Append(track, [ts |-> f.ts, loc |-> f.loc, speed |-> f.speed,
                                        inside |-> e.st.inside])
  PROVE  TrackInv'
  <1>1. PICK n \in Nat : Evaluated(n)
    BY DEF TrackInv, Evaluated
  <1>2. PICK e : e = Evaluate(trackState, f, trackNow)
    OBVIOUS
  <1>3. PICK st : st = Heal(trackState, f, trackNow)
    OBVIOUS
  <1>4. /\ Meets(st, f, n) /\ Sober(st, f, trackNow) /\ e = Evaluate(st, f, trackNow)
        /\ \A i \in 1 .. n : track[i].ts < f.ts
    BY <1>1, <1>2, <1>3, FixMeets
  <1>5. /\ e.st \in ZoneState
        /\ DebounceSays(st, f, e) /\ OverspeedSays(st, f, e) /\ DwellSays(st, f, e)
    BY <1>4, EvaluateSays DEF Meets
  <1>6. e.st = trackState' /\ Takes(f) /\ track \in Seq(TrackEntry) /\ InOrder
    BY <1>2, <1>5 DEF Takes, TrackInv, ZoneState
  <1>7. Raises(e, n)
    BY <1>1, <1>2, <1>6, AlarmsRaised
  <1>8. /\ track' \in Seq(TrackEntry) /\ Len(track') = n + 1
        /\ \A k \in 1 .. n : track[k] \in TrackEntry /\ track'[k] = track[k]
        /\ track'[n + 1].ts = f.ts /\ track'[n + 1].inside = trackState'.inside
    BY <1>1, <1>6, Appended DEF Evaluated
  <1>9. f.ts \in Nat /\ \A k \in 1 .. n : track[k].ts \in Nat
    <2>1. \A k \in 1 .. n : track[k].ts \in Nat
      BY <1>8 DEF TrackEntry
    <2>2. f.ts \in 1 .. MaxNow + MaxSkew
      BY DEF TrackFix
    <2> QED
      BY <2>1, <2>2
  <1>10. \A i, j \in 1 .. n : i < j => track[i].ts < track[j].ts
    BY <1>1, <1>6 DEF InOrder, Evaluated
  <1>11. \A i, j \in 1 .. n : i <= j => track[i].ts <= track[j].ts
    BY <1>9, <1>10
  <1>12. /\ CountsRuns(trackState, n + 1)'
         /\ st.inside => (Exits(st, f) <=> ExitDue(n + 1)')
         /\ ~st.inside => (Enters(st, f) <=> EntryDue(n + 1)')
    BY <1>1, <1>4, <1>5, <1>6, RunsStep
  <1>13. CountsOver(trackState, n + 1)' /\ (Raised("overspeed", n + 1)' <=> OverspeedDue(n + 1)')
    BY <1>1, <1>4, <1>5, <1>6, <1>7, OverspeedStep
  <1>14. CountsStill(trackState, n + 1)' /\ (Raised("zone_dwell", n + 1)' <=> DwellDue(n + 1)')
    BY <1>1, <1>4, <1>5, <1>6, <1>7, <1>11, DwellStep
  <1>15. 1 .. n + 1 = (1 .. n) \cup {n + 1}
    OBVIOUS
  <1>16. Summary'
    <2>1. PICK m \in Nat \ {0} : m = n + 1
      OBVIOUS
    <2>2. Evaluated(m)' /\ track' # <<>>
      BY <1>8, <2>1 DEF Evaluated
    <2>3. trackState'.last_ts = track'[n + 1].ts
      BY <1>5, <1>6, <1>8 DEF DebounceSays
    <2>4. /\ n + 1 \in Nat \ {0} /\ Evaluated(n + 1)'
          /\ trackState'.inside = track'[n + 1].inside
      BY <1>8, <2>1, <2>2 DEF Evaluated
    <2> QED
      BY <1>12, <1>13, <1>14, <2>2, <2>3, <2>4 DEF Summary
  <1>17. InOrder'
    <2>1. ASSUME NEW i \in 1 .. n + 1, NEW j \in 1 .. n + 1, i < j
          PROVE  track'[i].ts < track'[j].ts
      <3>1. i \in 1 .. n
        BY <2>1
      <3>2. CASE j = n + 1
        BY <1>4, <1>8, <3>1, <3>2
      <3>3. CASE j \in 1 .. n
        <4>1. track[i].ts < track[j].ts
          BY <1>10, <2>1, <3>1, <3>3
        <4> QED
          BY <1>8, <3>1, <3>3, <4>1
      <3>4. j \in 1 .. n \/ j = n + 1
        OBVIOUS
      <3> QED
        BY <3>2, <3>3, <3>4
    <2>2. \A i \in 1 .. n : track[i].ts \in trackTimes /\ track[i].ts <= trackNow + MaxSkew
      BY <1>1, <1>6 DEF InOrder, Evaluated
    <2>3. \A i \in 1 .. n + 1 : track'[i].ts \in trackTimes' /\ track'[i].ts <= trackNow' + MaxSkew
      BY <1>8, <1>15, <2>2
    <2>4. \A a \in trackRaised' : a.ts \in trackTimes'
      BY <1>6 DEF InOrder
    <2> QED
      BY <1>8, <2>1, <2>3, <2>4 DEF InOrder
  <1>18. ASSUME NEW j \in 1 .. n
         PROVE  /\ track'[j].inside = track[j].inside
                /\ EntryDue(j)' <=> EntryDue(j)
                /\ ExitDue(j)' <=> ExitDue(j)
                /\ OverspeedDue(j)' <=> OverspeedDue(j)
                /\ DwellDue(j)' <=> DwellDue(j)
                /\ \A type \in AlarmTypes : Raised(type, j)' <=> Raised(type, j)
    BY <1>1, <1>6, <1>7, PastTold
  <1>19. /\ n > 0 => st.inside = track[n].inside
         /\ trackState'.inside = StaysIn(st, f)
         /\ "zone_breach" \in e.events <=> Enters(st, f)
    BY <1>4, <1>5, <1>6 DEF Meets, DebounceSays
  <1>20. TransitionsExact'
    <2>1. ASSUME NEW j \in 2 .. n + 1
          PROVE  track'[j].inside = IF track'[j - 1].inside THEN ~ExitDue(j)' ELSE EntryDue(j)'
      <3>1. CASE j = n + 1
        <4>1. n \in 1 .. n /\ j - 1 = n /\ track'[j - 1].inside = st.inside
          BY <1>8, <1>19, <3>1
        <4>2. track'[n + 1].inside =
                IF track'[n].inside THEN ~ExitDue(n + 1)' ELSE EntryDue(n + 1)'
          <5>1. /\ ExitDue(n + 1)' \in BOOLEAN /\ EntryDue(n + 1)' \in BOOLEAN
                /\ Exits(st, f) \in BOOLEAN /\ Enters(st, f) \in BOOLEAN
            BY DEF ExitDue, EntryDue, Exits, Enters
          <5>2. /\ track'[n + 1].inside = IF st.inside THEN ~Exits(st, f) ELSE Enters(st, f)
                /\ track'[n].inside = st.inside
            BY <1>8, <1>19, <4>1 DEF StaysIn
          <5>3. CASE st.inside
            BY <1>12, <5>1, <5>2, <5>3
          <5>4. CASE ~st.inside
            BY <1>12, <5>1, <5>2, <5>4
          <5> QED
            BY <5>3, <5>4
        <4>3. ExitDue(j)' = ExitDue(n + 1)' /\ EntryDue(j)' = EntryDue(n + 1)'
          BY <3>1 DEF ExitDue, EntryDue, Consecutive
        <4> QED
          BY <3>1, <4>1, <4>2, <4>3
      <3>2. CASE j \in 1 .. n
        <4>1. j \in 2 .. n /\ j - 1 \in 1 .. n
          BY <3>2
        <4>2. track[j].inside = IF track[j - 1].inside THEN ~ExitDue(j) ELSE EntryDue(j)
          BY <1>1, <4>1 DEF TrackInv, TrackTold, TransitionsExact, Evaluated
        <4>3. /\ ExitDue(j)' \in BOOLEAN /\ EntryDue(j)' \in BOOLEAN
              /\ ExitDue(j) \in BOOLEAN /\ EntryDue(j) \in BOOLEAN
          BY DEF ExitDue, EntryDue
        <4>4. /\ track'[j].inside = track[j].inside /\ track'[j - 1].inside = track[j - 1].inside
              /\ EntryDue(j)' <=> EntryDue(j)
              /\ ExitDue(j)' <=> ExitDue(j)
          BY <1>18, <3>2, <4>1
        <4>5. CASE track[j - 1].inside
          BY <4>2, <4>3, <4>4, <4>5
        <4>6. CASE ~track[j - 1].inside
          BY <4>2, <4>3, <4>4, <4>6
        <4> QED
          BY <4>5, <4>6
      <3>3. j \in 1 .. n \/ j = n + 1
        OBVIOUS
      <3> QED
        BY <3>1, <3>2, <3>3
    <2> QED
      BY <1>8, <2>1 DEF TransitionsExact
  <1> DEFINE Told(j) == /\ Raised("overspeed", j) <=> OverspeedDue(j)
                        /\ Raised("zone_dwell", j) <=> DwellDue(j)
                        /\ j > 1 => (Raised("zone_breach", j) <=>
                                        track[j].inside /\ ~track[j - 1].inside)
  <1>21. ASSUME NEW j \in 1 .. n PROVE Told(j)'
    <2>0. j \in DOMAIN track
      BY <1>1, <1>6 DEF Evaluated
    <2>1. Told(j)
      BY <2>0 DEF TrackInv, TrackTold, AlarmsExact
    <2>2. j > 1 => j - 1 \in 1 .. n
      OBVIOUS
    <2>3. j > 1 => track'[j - 1].inside = track[j - 1].inside
      BY <1>18, <2>2
    <2> QED
      BY <1>18, <2>1, <2>3 DEF AlarmTypes
  <1>22. Told(n + 1)'
    <2>1. Raised("zone_breach", n + 1)' <=> Enters(st, f)
      BY <1>7, <1>19 DEF Raises, AlarmTypes
    <2>2. n + 1 > 1 => track'[n + 1 - 1].inside = st.inside
      BY <1>8, <1>19
    <2>3. trackState'.inside /\ ~st.inside <=> Enters(st, f)
      BY <1>19 DEF StaysIn, Enters
    <2> QED
      BY <1>8, <1>13, <1>14, <2>1, <2>2, <2>3
  <1>23. AlarmsExact'
    BY <1>8, <1>15, <1>21, <1>22 DEF AlarmsExact
  <1>24. trackState' \in ZoneState /\ trackNow' \in 1 .. MaxNow
    BY <1>5, <1>6 DEF TrackInv
  <1> QED
    BY <1>8, <1>16, <1>17, <1>20, <1>23, <1>24 DEF TrackInv, TrackTold

LEMMA TrackInvStart == TrackInit => TrackInv
  <1> SUFFICES ASSUME TrackInit PROVE TrackInv
    OBVIOUS
  <1>1. track \in Seq(TrackEntry) /\ Len(track) = 0 /\ track = <<>>
    BY DEF TrackInit
  <1>2. trackState \in ZoneState /\ trackNow \in 1 .. MaxNow
    BY FreshIsRow, TrackAssumption DEF TrackInit
  <1>3. InOrder
    BY <1>1 DEF TrackInit, InOrder
  <1>4. Summary
    BY <1>1, TrackAssumption DEF TrackInit, Summary
  <1>5. TrackTold
    BY <1>1 DEF TrackTold, TransitionsExact, AlarmsExact
  <1> QED
    BY <1>1, <1>2, <1>3, <1>4, <1>5 DEF TrackInv

LEMMA LaterBound ==
  ASSUME NEW soon \in Int, NEW later \in Int, NEW skew \in Int, later >= soon
  PROVE  soon + skew <= later + skew /\ soon + skew \in Int /\ later + skew \in Int
  OBVIOUS

LEMMA TrackInvStep == TrackInv /\ [TrackNext]_trackVars => TrackInv'
  <1> SUFFICES ASSUME TrackInv, [TrackNext]_trackVars PROVE TrackInv'
    OBVIOUS
  <1>1. \A i \in 1 .. Len(track) : track[i].ts \in Nat
    <2>1. \A i \in 1 .. Len(track) : track[i] \in TrackEntry
      BY DEF TrackInv
    <2> QED
      BY <2>1 DEF TrackEntry
  <1>2. ASSUME UNCHANGED <<trackState, trackRaised, track>>, trackNow' \in 1 .. MaxNow,
               trackNow' >= trackNow, trackTimes \subseteq trackTimes'
        PROVE  TrackInv'
    <2>1. InOrder'
      <3>1. /\ \A i \in 1 .. Len(track) : track[i].ts <= trackNow + MaxSkew /\ track[i].ts \in trackTimes
            /\ \A a \in trackRaised : a.ts \in trackTimes
            /\ \A i, j \in 1 .. Len(track) : i < j => track[i].ts < track[j].ts
            /\ trackNow \in 1 .. MaxNow
        BY DEF TrackInv, InOrder
      <3>2. \A i \in 1 .. Len(track) : track[i].ts <= trackNow' + MaxSkew
        <4>1. trackNow + MaxSkew <= trackNow' + MaxSkew /\ trackNow + MaxSkew \in Int
              /\ trackNow' + MaxSkew \in Int
          <5>1. trackNow \in Int /\ trackNow' \in Int /\ MaxSkew \in Int
            BY <1>2, <3>1, TrackAssumption, RuleAssumption
          <5> QED
            BY <1>2, <5>1, LaterBound
        <4> QED
          BY <1>1, <3>1, <4>1
      <3>3. /\ \A i \in 1 .. Len(track) : track[i].ts \in trackTimes'
            /\ \A a \in trackRaised : a.ts \in trackTimes'
        BY <1>2, <3>1
      <3> QED
        BY <1>2, <3>1, <3>2, <3>3 DEF InOrder
    <2>4. ASSUME NEW type, NEW j PROVE Raised(type, j)' = Raised(type, j)
      BY <1>2 DEF Raised
    <2>5. ASSUME NEW j
           PROVE  /\ EntryDue(j)' = EntryDue(j) /\ ExitDue(j)' = ExitDue(j)
                  /\ OverspeedDue(j)' = OverspeedDue(j) /\ DwellDue(j)' = DwellDue(j)
      <3>1. EntryDue(j)' = EntryDue(j)
        BY <1>2 DEF EntryDue, Consecutive
      <3>2. ExitDue(j)' = ExitDue(j)
        BY <1>2 DEF ExitDue, Consecutive
      <3>3. OverspeedDue(j)' = OverspeedDue(j)
        BY <1>2 DEF OverspeedDue, Spell, Raised
      <3>4. DwellDue(j)' = DwellDue(j)
        BY <1>2 DEF DwellDue, Spell, Raised
      <3> QED
        BY <3>1, <3>2, <3>3, <3>4
    <2>2. Summary'
      <3>1. ASSUME NEW n
            PROVE  /\ Evaluated(n)' = Evaluated(n)
                   /\ CountsRuns(trackState, n)' = CountsRuns(trackState, n)
                   /\ CountsOver(trackState, n)' = CountsOver(trackState, n)
                   /\ CountsStill(trackState, n)' = CountsStill(trackState, n)
        <4>1. Evaluated(n)' = Evaluated(n)
          BY <1>2 DEF Evaluated
        <4>2. CountsRuns(trackState, n)' = CountsRuns(trackState, n)
          BY <1>2 DEF CountsRuns, OutStart, InRun, OutRun, Outs, Consecutive
        <4>3. CountsOver(trackState, n)' = CountsOver(trackState, n)
          BY <1>2 DEF CountsOver, Spell, Raised
        <4>4. CountsStill(trackState, n)' = CountsStill(trackState, n)
          BY <1>2 DEF CountsStill, Slow, Spell, Raised
        <4> QED
          BY <4>1, <4>2, <4>3, <4>4
      <3> QED
        BY <1>2, <3>1 DEF TrackInv, Summary
    <2>3. TrackTold'
      <3>1. TransitionsExact'
        BY <1>2, <2>5 DEF TrackInv, TrackTold, TransitionsExact
      <3>2. AlarmsExact'
        BY <1>2, <2>4, <2>5 DEF TrackInv, TrackTold, AlarmsExact
      <3> QED
        BY <3>1, <3>2 DEF TrackTold
    <2> QED
      BY <1>2, <2>1, <2>2, <2>3 DEF TrackInv
  <1>3. CASE UNCHANGED trackVars
    <2>1. trackNow \in 1 .. MaxNow
      BY DEF TrackInv
    <2> QED
      BY <1>2, <1>3, <2>1 DEF trackVars
  <1>4. CASE TrackTick
    <2>1. trackNow \in 1 .. MaxNow /\ MaxNow \in Nat
      BY TrackAssumption DEF TrackInv
    <2>2. trackNow' \in 1 .. MaxNow /\ trackNow' >= trackNow
      BY <1>4, <2>1 DEF TrackTick
    <2> QED
      BY <1>2, <1>4, <2>2 DEF TrackTick
  <1>5. ASSUME NEW t \in 1 .. MaxNow + MaxSkew, NEW s \in Sightings,
               StoreAndProcess([ts |-> t, loc |-> s.loc, speed |-> s.speed])
        PROVE  TrackInv'
    <2>1. PICK f \in TrackFix : f = [ts |-> t, loc |-> s.loc, speed |-> s.speed]
      BY TrackAssumption DEF TrackFix
    <2>2. StoreAndProcess(f)
      BY <1>5, <2>1
    <2>3. CASE Skipped(trackState, f, trackNow)
      <3>1. trackNow \in 1 .. MaxNow
        BY DEF TrackInv
      <3> QED
        BY <1>2, <2>2, <2>3, <3>1 DEF StoreAndProcess
    <2>4. CASE ~Skipped(trackState, f, trackNow)
      BY <2>2, <2>4, FixTold DEF StoreAndProcess
    <2> QED
      BY <2>3, <2>4
  <1> QED
    BY <1>3, <1>4, <1>5 DEF TrackNext

\* A row is a summary of the fixes evaluated so far at every step.
THEOREM RowSummarises == TrackSpec => []TrackInv
  BY TrackInvStart, TrackInvStep, PTL DEF TrackSpec

\* The visits and the alarms of a track are exactly those its evaluated fixes earn, however
\* long the track and whatever the thresholds.
THEOREM TracksAreTold == TrackSpec => []TrackTold
  <1>1. TrackInv => TrackTold
    BY DEF TrackInv
  <1> QED
    BY <1>1, RowSummarises, PTL
=============================================================================
