----------------------------- MODULE ZonePipeline -----------------------------
(***************************************************************************)
(* store_and_process (ingest/service.py) run by several transports at once *)
(* on fixes of one asset: stamp received_at, take the asset's advisory     *)
(* lock, insert the position, step the zone state, commit.  Fixes arrive   *)
(* late, out of order and more than once; a transaction may fail at any    *)
(* point; processing that fails for good falls back to the bare insert of  *)
(* _store_raw_with_retry, which takes no lock.                             *)
(***************************************************************************)
EXTENDS ZoneEngine, FiniteSets

CONSTANTS Workers,        \* transports: the MQTT callback, HTTP request threads
          Locs, SpeedsSeen, \* locations and speeds of the fixes of this instance
          RawWorkers      \* transports with the raw-insert fallback: MQTT

Nobody == "nobody"

ASSUME PipelineAssumption ==
  /\ Locs \subseteq Locations /\ SpeedsSeen \subseteq Speeds /\ MaxNow \in Nat \ {0}
  /\ Nobody \notin Workers /\ RawWorkers \subseteq Workers
  /\ LegacyStates \subseteq ZoneState

VARIABLES now,        \* the server's clock
          pc, fix, recv,  \* each worker's step, its fix and its received_at
          lock,       \* the worker holding the asset's advisory lock
          tx,         \* what each open transaction will write
          positions,  \* timestamps stored for the asset
          zs,         \* the asset's row in asset_zone_state
          raised,     \* alarms raised: type and timestamp
          live        \* history: the fixes live rules evaluated, in commit order

vars == <<now, pc, fix, recv, lock, tx, positions, zs, raised, live>>

Fix == [ts : 1 .. MaxNow + MaxSkew, loc : Locs, speed : SpeedsSeen]
NoFix == [ts |-> 0, loc |-> "out", speed |-> "none"]
NoTx == [created |-> FALSE, evaluated |-> FALSE, st |-> FreshState, events |-> {}]

Init ==
  /\ now = 1
  /\ pc = [w \in Workers |-> "idle"]
  /\ fix = [w \in Workers |-> NoFix]
  /\ recv = [w \in Workers |-> 0]
  /\ lock = Nobody
  /\ tx = [w \in Workers |-> NoTx]
  /\ positions = {} /\ raised = {} /\ live = <<>>
  /\ zs \in {FreshState} \cup LegacyStates

Tick == now < MaxNow /\ now' = now + 1
        /\ UNCHANGED <<pc, fix, recv, lock, tx, positions, zs, raised, live>>

\* reject_if_future
NotFuture(f) == f.ts <= now + MaxSkew

\* A fix arrives at a transport (who may send it is the Devices module's business);
\* to_canonical stamps received_at.
Receive(w, f) ==
  /\ pc[w] = "idle" /\ NotFuture(f)
  /\ pc' = [pc EXCEPT ![w] = "stamped"]
  /\ fix' = [fix EXCEPT ![w] = f]
  /\ recv' = [recv EXCEPT ![w] = now]
  /\ UNCHANGED <<now, lock, tx, positions, zs, raised, live>>

\* Mutant: the lock is not taken (SELECT pg_advisory_xact_lock dropped).
NoLock(w) ==
  /\ pc[w] = "stamped"
  /\ pc' = [pc EXCEPT ![w] = "locked"]
  /\ UNCHANGED <<now, fix, recv, lock, tx, positions, zs, raised, live>>

\* lock_asset waits for the transaction that holds the lock.
LockAsset(w) ==
  /\ pc[w] = "stamped" /\ lock = Nobody
  /\ lock' = w
  /\ pc' = [pc EXCEPT ![w] = "locked"]
  /\ UNCHANGED <<now, fix, recv, tx, positions, zs, raised, live>>

\* What insert_position and process_position make of worker w's fix now: a duplicate and
\* a fix behind the watermark leave the zone state alone.
Live(w) == fix[w].ts \notin positions /\ ~Skipped(zs, fix[w], recv[w])
Processing(w) ==
  IF Live(w)
    THEN [created |-> TRUE, evaluated |-> TRUE,
          st |-> Evaluate(zs, fix[w], recv[w]).st,
          events |-> Evaluate(zs, fix[w], recv[w]).events]
    ELSE [created |-> fix[w].ts \notin positions, evaluated |-> FALSE,
          st |-> zs, events |-> {}]

Process(w) ==
  /\ pc[w] = "locked"
  /\ tx' = [tx EXCEPT ![w] = Processing(w)]
  /\ pc' = [pc EXCEPT ![w] = "processed"]
  /\ UNCHANGED <<now, fix, recv, lock, positions, zs, raised, live>>

Release(w) == IF lock = w THEN Nobody ELSE lock
Reset(w) == /\ pc' = [pc EXCEPT ![w] = "idle"]
            /\ fix' = [fix EXCEPT ![w] = NoFix]
            /\ recv' = [recv EXCEPT ![w] = 0]
            /\ tx' = [tx EXCEPT ![w] = NoTx]

\* COMMIT: position, zone state and alarms together; the lock goes with it.
Commit(w) ==
  /\ pc[w] = "processed"
  /\ positions' = positions \cup {fix[w].ts}
  /\ IF tx[w].evaluated
       THEN /\ zs' = tx[w].st
            /\ raised' = raised \cup {[type |-> t, ts |-> fix[w].ts] : t \in tx[w].events}
            /\ live' = Append(live, [ts |-> fix[w].ts, loc |-> fix[w].loc,
                                     speed |-> fix[w].speed,
                                     inside |-> tx[w].st.inside = TRUE])
       ELSE UNCHANGED <<zs, raised, live>>
  /\ lock' = Release(w)
  /\ Reset(w)
  /\ UNCHANGED now

\* The transaction is rolled back: the transport's client sends the fix again or not.
Rollback(w) ==
  /\ pc[w] \in {"locked", "processed"}
  /\ lock' = Release(w)
  /\ Reset(w)
  /\ UNCHANGED <<now, positions, zs, raised, live>>

\* _store_with_retry: processing failed for good, the lock went with the rollback.
ProcessingFails(w) ==
  /\ pc[w] = "locked" /\ w \in RawWorkers
  /\ lock' = Release(w)
  /\ pc' = [pc EXCEPT ![w] = "raw"]
  /\ UNCHANGED <<now, fix, recv, tx, positions, zs, raised, live>>

\* _store_raw_with_retry: the bare insert, without the lock and without rules.
StoreRaw(w) ==
  /\ pc[w] = "raw"
  /\ positions' = positions \cup {fix[w].ts}
  /\ Reset(w)
  /\ UNCHANGED <<now, lock, zs, raised, live>>

Next == \/ Tick
        \/ \E w \in Workers : \/ \E f \in Fix : Receive(w, f)
                              \/ LockAsset(w) \/ Process(w) \/ Commit(w)
                              \/ Rollback(w) \/ ProcessingFails(w) \/ StoreRaw(w)

Spec == Init /\ [][Next]_vars

-----------------------------------------------------------------------------
(* Properties.                                                             *)

\* Every alarm and every evaluated fix has its position: nothing store_and_process commits
\* refers to a fix that is not stored.
TypeOK ==
  /\ now \in 1 .. MaxNow
  /\ pc \in [Workers -> {"idle", "stamped", "locked", "processed", "raw"}]
  /\ fix \in [Workers -> Fix \cup {NoFix}] /\ recv \in [Workers -> 0 .. MaxNow]
  /\ \A w \in Workers : pc[w] # "idle" => fix[w] \in Fix
  /\ lock \in Workers \cup {Nobody}
  /\ tx \in [Workers -> [created : BOOLEAN, evaluated : BOOLEAN, st : ZoneState,
                         events : SUBSET AlarmTypes]]
  /\ positions \subseteq 1 .. MaxNow + MaxSkew
  /\ zs \in ZoneState
  /\ raised \subseteq [type : AlarmTypes, ts : positions]
  /\ live \in Seq([ts : positions, loc : Locs, speed : SpeedsSeen, inside : BOOLEAN])

\* Two transports never step the same stale zone state (lock_asset, audit M9): what a
\* commit writes, and the alarms it raises, is what processing its fix on the state
\* in force at the commit gives.  Otherwise one entry raises two alarms, or none.
NoLostUpdate ==
  [][live' # live =>
       \E w \in Workers :
         LET e == Evaluate(zs, fix[w], recv[w])
         IN  /\ pc[w] = "processed" /\ pc'[w] = "idle"
             /\ zs' = e.st
             /\ raised' = raised \cup {[type |-> t, ts |-> fix[w].ts] : t \in e.events}]_vars

\* A fix is evaluated at most once, however often and by whichever transport it is sent.
EvaluatedOnce == \A i, j \in DOMAIN live : live[i].ts = live[j].ts => i = j

\* A watermark dated in the future by an old release never mutes the asset: once a fix
\* that is not buffered history commits, the watermark is back at most the allowed skew
\* ahead of the server's clock (pipeline.py, "Heal it on the next live fix").
LiveFixHeals ==
  [][\A w \in Workers :
       (pc[w] = "processed" /\ tx[w].created /\ pc'[w] = "idle" /\ positions' # positions
          /\ fix[w].ts >= recv[w] - MaxSkew)
       => zs'.last_ts <= now + MaxSkew]_vars

\* The inductive strengthening.  Only the transaction that holds the lock is open.
HolderOnly == \A w \in Workers : pc[w] \in {"locked", "processed"} => lock = w

\* What an open transaction will write is computed from the state in force, and from a
\* fix that was never evaluated.
ComputedFromCurrent ==
  \A w \in Workers : pc[w] = "processed" /\ tx[w].evaluated =>
    /\ tx[w].st = Evaluate(zs, fix[w], recv[w]).st
    /\ tx[w].events = Evaluate(zs, fix[w], recv[w]).events
    /\ \A i \in DOMAIN live : live[i].ts # fix[w].ts

\* Open transactions take turns on the state in force: with the per-asset lock no two of
\* them overlap, so no evaluated fix can be evaluated again.
LockInv == HolderOnly /\ ComputedFromCurrent /\ EvaluatedOnce
===============================================================================
