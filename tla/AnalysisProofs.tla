--------------------------- MODULE AnalysisProofs ---------------------------
(***************************************************************************)
(* What is derived from a history.  An edge node's rules report every      *)
(* presence that lasts and nothing else, for any subjects, zones, rules,   *)
(* parameters, frames and changes of rules.  No change of the stored fixes *)
(* slips past the rebuild of the derived rows, for any set of transports,  *)
(* any lookback and slice length and any number of late fixes, marks,      *)
(* on-demand rebuilds and failures.                                        *)
(***************************************************************************)
EXTENDS VisionRules, CycleRecompute, FiniteSetTheorems, SequenceTheorems, WellFoundedInduction,
        TLAPS

(* The vision rules.  First the turns of the versions over an observation.     *)

\* An order of a finite set has every element once.
LEMMA OrderedTakesAll ==
  ASSUME NEW S, IsFiniteSet(S)
  PROVE  /\ Cardinality(S) \in Nat /\ Ordered(S) \in [1..Cardinality(S) -> S]
         /\ Len(Ordered(S)) = Cardinality(S)
         /\ \A i, j \in 1..Cardinality(S) : i # j => Ordered(S)[i] # Ordered(S)[j]
         /\ \A x \in S : \E i \in 1..Cardinality(S) : Ordered(S)[i] = x
  <1> DEFINE n == Cardinality(S)
             good(q) == q \in [1..n -> S] /\ \A i, j \in DOMAIN q : i # j => q[i] # q[j]
  <1>1. n \in Nat /\ ExistsBijection(1..n, S)
    BY FS_CardinalityType
  <1>2. PICK f \in Bijection(1..n, S) : TRUE
    BY <1>1 DEF ExistsBijection
  <1>3. good(f)
    BY <1>2 DEF Bijection, Injection, IsInjective
  <1>4. good(Ordered(S))
    BY <1>3 DEF Ordered
  <1>5. Ordered(S) \in Injection(1..n, S)
    BY <1>4 DEF Injection, IsInjective
  <1>6. Cardinality(1..n) = n
    BY <1>1, FS_Interval
  <1>7. Ordered(S) \in Surjection(1..n, S)
    BY <1>5, <1>6, FS_Injection
  <1>8. Ordered(S) \in Seq(S) /\ Len(Ordered(S)) = n
    <2> HIDE DEF n
    <2>1. Ordered(S) \in [1..n -> S]
      BY <1>4 DEF n
    <2> QED
      BY <2>1, <1>1
  <1> QED
    BY <1>1, <1>4, <1>7, <1>8 DEF Surjection

\* A set of naturals that is not empty has a least member.
LEMMA LeastNat == ASSUME NEW T, T \subseteq Nat, T # {} PROVE \E x \in T : \A y \in T : x <= y
  <1>1. PICK x \in T : \A y \in T : ~ (<<y, x>> \in OpToRel(<, Nat))
    BY NatLessThanWellFounded, WFMin, Zenon
  <1>2. ASSUME NEW y \in T PROVE x <= y
    <2>1. ~ (<<y, x>> \in OpToRel(<, Nat))
      BY <1>1
    <2>2. x \in Nat /\ y \in Nat
      OBVIOUS
    <2>3. ~ (y < x)
      BY <2>1, <2>2 DEF OpToRel
    <2> QED
      BY <2>2, <2>3
  <1> QED
    BY <1>2

--------------------------------------------------------------------------------
\* The engine before the frame, and the order in which the versions take their turns.
EngineNow == [streak |-> streak, last |-> lastFired, fired |-> {}]
Turns == Ordered(RuleVersions)

\* The states of the engine as the versions take their turns.
LEMMA EngineTurns ==
  ASSUME NEW objs, NEW ts
  PROVE  \E eng : /\ Stepped(objs, ts) = eng[Len(Turns)] /\ eng[0] = EngineNow
                  /\ \A i \in 1..Len(Turns) : eng[i] = Presence(eng[i - 1], Turns[i], objs, ts)
  <1> DEFINE n == Len(Turns)
             next(e, i) == Presence(e, Turns[i], objs, ts)
             chain(g, k) == g = [i \in 0..k |-> IF i = 0 THEN EngineNow ELSE next(g[i - 1], i)]
  <1>1. n \in Nat
    BY OrderedTakesAll, VisionRulesAssumption DEF Turns
  <1>2. \E g : chain(g, n)
    <2> HIDE DEF n, next
    <2> DEFINE T == {k \in 0..n : ~\E g : chain(g, k)}
    <2>1. SUFFICES ASSUME T # {} PROVE FALSE
      <3>1. n \in 0..n
        BY <1>1
      <3> QED
        BY <3>1
    <2>3. PICK k \in T : \A y \in T : k <= y
      <3> T \subseteq Nat
        BY <1>1
      <3> QED
        BY <2>1, LeastNat
    <2>4. k \in Nat /\ k <= n
      BY <1>1
    <2>5. k # 0
      <3> DEFINE g == [i \in 0..0 |-> EngineNow]
      <3>1. g = [i \in 0..0 |-> IF i = 0 THEN EngineNow ELSE next(g[i - 1], i)]
        OBVIOUS
      <3> QED
        BY <3>1
    <2>6. k - 1 \in 0..n /\ k - 1 \notin T
      <3>1. k - 1 \in 0..n /\ ~(k <= k - 1)
        BY <2>4, <2>5, <1>1
      <3> HIDE DEF T
      <3> QED
        BY <3>1, <2>3
    <2>7. PICK g : chain(g, k - 1)
      BY <2>6
    <2> DEFINE h == [i \in 0..k |-> IF i < k THEN g[i] ELSE next(g[k - 1], k)]
    <2>8. \A i \in 0..k : h[i] = IF i = 0 THEN EngineNow ELSE next(h[i - 1], i)
      <3> SUFFICES ASSUME NEW i \in 0..k
                   PROVE  h[i] = IF i = 0 THEN EngineNow ELSE next(h[i - 1], i)
        OBVIOUS
      <3>1. CASE i = k
        <4>1. h[i] = next(g[k - 1], k)
          BY <3>1, <2>4
        <4>2. h[k - 1] = g[k - 1]
          BY <2>4, <2>5
        <4> QED
          BY <3>1, <4>1, <4>2, <2>5
      <3>2. CASE i # k
        <4>1. i \in 0..(k - 1) /\ h[i] = g[i]
          BY <3>2, <2>4
        <4>2. i # 0 => h[i - 1] = g[i - 1]
          BY <3>2, <2>4
        <4>3. g[i] = IF i = 0 THEN EngineNow ELSE next(g[i - 1], i)
          BY <4>1, <2>7
        <4> QED
          BY <4>1, <4>2, <4>3
      <3> QED
        BY <3>1, <3>2
    <2>9. chain(h, k)
      <3> HIDE DEF h
      <3>1. h = [i \in 0..k |-> h[i]]
        BY DEF h
      <3> QED
        BY <3>1, <2>8
    <2>10. ~\E x : chain(x, k)
      BY <2>3
    <2> QED
      BY <2>9, <2>10
  <1> DEFINE eng == CHOOSE g : chain(g, n)
  <1>3. chain(eng, n)
    BY <1>2
  <1>4. Stepped(objs, ts) = eng[n]
    BY DEF Stepped, EngineNow, Turns
  <1> HIDE DEF eng, n, next
  <1>5. eng[0] = EngineNow /\ \A i \in 1..n : eng[i] = next(eng[i - 1], i)
    <2>1. \A i \in 0..n : eng[i] = IF i = 0 THEN EngineNow ELSE next(eng[i - 1], i)
      BY <1>3
    <2> QED
      BY <2>1, <1>1
  <1> QED
    BY <1>4, <1>5 DEF n, next

\* Two states of the engine agree on the keys of a rule.
AgreeAt(a, b, k) ==
  /\ k \in DOMAIN a.streak <=> k \in DOMAIN b.streak
  /\ k \in DOMAIN a.streak => a.streak[k] = b.streak[k]
  /\ k \in DOMAIN a.last <=> k \in DOMAIN b.last
  /\ k \in DOMAIN a.last => a.last[k] = b.last[k]
\* ... on every key of a rule, and the events a version fired.
Agree(a, b, r) == \A k : k[1] = r => AgreeAt(a, b, k)
FiredBy(eng, v) == {e \in eng.fired : e.version = v}

\* What one version fires over an observation.
FiresOf(eng, v, objs, ts) ==
  {k \in HitsOf(v, objs) : Due(HitStreak(eng.streak, k, ts), ts) /\ ~Suppressed(eng.last, k, ts)}
EventOf(eng, v, k, ts) == [version |-> v, track |-> k[2], zone |-> k[3],
                           since |-> HitStreak(eng.streak, k, ts).since, ts |-> ts]

\* The events of one version's turn.
LEMMA PresenceFires ==
  ASSUME NEW eng, NEW v, NEW objs, NEW ts
  PROVE  Presence(eng, v, objs, ts).fired =
           eng.fired \cup {EventOf(eng, v, k, ts) : k \in FiresOf(eng, v, objs, ts)}
  BY DEF Presence, FiresOf, EventOf

\* What one version's turn makes of one key.
LEMMA PresenceAt ==
  ASSUME NEW eng, NEW v, NEW objs, NEW ts, NEW k
  PROVE  /\ k \in DOMAIN Presence(eng, v, objs, ts).streak <=>
              (k \in DOMAIN eng.streak \/ k \in HitsOf(v, objs))
         /\ k \in DOMAIN Presence(eng, v, objs, ts).streak =>
              Presence(eng, v, objs, ts).streak[k] =
                IF k \in HitsOf(v, objs) THEN Concluded(HitStreak(eng.streak, k, ts), ts)
                ELSE IF MissedBy(k, v, objs) THEN Miss(eng.streak[k], ts)
                ELSE eng.streak[k]
         /\ k \in DOMAIN Presence(eng, v, objs, ts).last <=>
              (k \in DOMAIN eng.last \/ k \in FiresOf(eng, v, objs, ts))
         /\ k \in DOMAIN Presence(eng, v, objs, ts).last =>
              Presence(eng, v, objs, ts).last[k] =
                IF k \in FiresOf(eng, v, objs, ts) THEN ts ELSE eng.last[k]
  <1> DEFINE st == [x \in DOMAIN eng.streak \cup HitsOf(v, objs) |->
                      IF x \in HitsOf(v, objs) THEN Concluded(HitStreak(eng.streak, x, ts), ts)
                      ELSE IF MissedBy(x, v, objs) THEN Miss(eng.streak[x], ts)
                      ELSE eng.streak[x]]
             la == [x \in DOMAIN eng.last \cup FiresOf(eng, v, objs, ts) |->
                      IF x \in FiresOf(eng, v, objs, ts) THEN ts ELSE eng.last[x]]
  <1>1. Presence(eng, v, objs, ts).streak = st
    BY DEF Presence
  <1>2. Presence(eng, v, objs, ts).last = la
    BY DEF Presence, FiresOf
  <1>3. (k \in DOMAIN st <=> (k \in DOMAIN eng.streak \/ k \in HitsOf(v, objs)))
        /\ (k \in DOMAIN st => st[k] =
                IF k \in HitsOf(v, objs) THEN Concluded(HitStreak(eng.streak, k, ts), ts)
                ELSE IF MissedBy(k, v, objs) THEN Miss(eng.streak[k], ts)
                ELSE eng.streak[k])
    OBVIOUS
  <1>4. (k \in DOMAIN la <=> (k \in DOMAIN eng.last \/ k \in FiresOf(eng, v, objs, ts)))
        /\ (k \in DOMAIN la => la[k] =
                IF k \in FiresOf(eng, v, objs, ts) THEN ts ELSE eng.last[k])
    OBVIOUS
  <1> HIDE DEF st, la
  <1> QED
    BY <1>1, <1>2, <1>3, <1>4

\* A version leaves the keys of other rules alone.
LEMMA PresenceElsewhere ==
  ASSUME NEW eng, NEW v, NEW objs, NEW ts, NEW r, r # v.rule
  PROVE  Agree(Presence(eng, v, objs, ts), eng, r)
  <1> SUFFICES ASSUME NEW k, k[1] = r PROVE AgreeAt(Presence(eng, v, objs, ts), eng, k)
    BY DEF Agree
  <1>1. k \notin HitsOf(v, objs) /\ ~MissedBy(k, v, objs)
    BY DEF HitsOf, MissedBy
  <1>2. k \notin FiresOf(eng, v, objs, ts)
    BY <1>1 DEF FiresOf
  <1> QED
    BY <1>1, <1>2, PresenceAt DEF AgreeAt

\* What a version makes of its keys depends on these keys alone.
LEMMA PresenceLocal ==
  ASSUME NEW a, NEW b, NEW v, NEW objs, NEW ts, Agree(a, b, v.rule)
  PROVE  /\ Agree(Presence(a, v, objs, ts), Presence(b, v, objs, ts), v.rule)
         /\ FiresOf(a, v, objs, ts) = FiresOf(b, v, objs, ts)
         /\ \A k \in HitsOf(v, objs) : EventOf(a, v, k, ts) = EventOf(b, v, k, ts)
  <1>1. ASSUME NEW k, k[1] = v.rule PROVE AgreeAt(a, b, k)
    BY <1>1 DEF Agree
  <1>2. ASSUME NEW k, k[1] = v.rule
        PROVE  /\ HitStreak(a.streak, k, ts) = HitStreak(b.streak, k, ts)
               /\ Suppressed(a.last, k, ts) <=> Suppressed(b.last, k, ts)
    <2>1. AgreeAt(a, b, k)
      BY <1>1, <1>2
    <2> QED
      BY <2>1 DEF AgreeAt, HitStreak, Suppressed
  <1>3. \A k \in HitsOf(v, objs) : k[1] = v.rule
    BY DEF HitsOf
  <1>4. FiresOf(a, v, objs, ts) = FiresOf(b, v, objs, ts)
    BY <1>2, <1>3 DEF FiresOf
  <1>5. \A k \in HitsOf(v, objs) : EventOf(a, v, k, ts) = EventOf(b, v, k, ts)
    BY <1>2, <1>3 DEF EventOf
  <1>6. ASSUME NEW k, k[1] = v.rule
        PROVE  AgreeAt(Presence(a, v, objs, ts), Presence(b, v, objs, ts), k)
    <2>1. AgreeAt(a, b, k)
      BY <1>1, <1>6
    <2>2. HitStreak(a.streak, k, ts) = HitStreak(b.streak, k, ts)
      BY <1>2, <1>6
    <2> QED
      BY <2>1, <2>2, <1>4, PresenceAt DEF AgreeAt
  <1> QED
    BY <1>4, <1>5, <1>6 DEF Agree

\* What a frame makes of the keys of a rule is what its one version makes of them.
LEMMA SteppedByOne ==
  ASSUME OneVersionPerRule, NEW v \in RuleVersions, NEW objs, NEW ts
  PROVE  /\ Agree(Stepped(objs, ts), Presence(EngineNow, v, objs, ts), v.rule)
         /\ FiredBy(Stepped(objs, ts), v) = Presence(EngineNow, v, objs, ts).fired
         /\ \A e \in Stepped(objs, ts).fired : e.version \in RuleVersions
  <1> DEFINE n == Len(Turns)
             p == Presence(EngineNow, v, objs, ts)
  <1>1. /\ n \in Nat /\ Turns \in [1..n -> RuleVersions]
        /\ \A i, j \in 1..n : i # j => Turns[i] # Turns[j]
    BY OrderedTakesAll, VisionRulesAssumption DEF Turns
  <1>2. PICK t \in 1..n : Turns[t] = v
    BY OrderedTakesAll, VisionRulesAssumption DEF Turns
  <1>3. PICK eng : /\ Stepped(objs, ts) = eng[n] /\ eng[0] = EngineNow
                   /\ \A i \in 1..n : eng[i] = Presence(eng[i - 1], Turns[i], objs, ts)
    BY EngineTurns
  <1> DEFINE claim(i) ==
        /\ \A e \in eng[i].fired : e.version \in RuleVersions
        /\ i < t => Agree(eng[i], EngineNow, v.rule) /\ FiredBy(eng[i], v) = {}
        /\ i >= t => Agree(eng[i], p, v.rule) /\ FiredBy(eng[i], v) = p.fired
  <1>4. claim(0)
    <2>1. eng[0] = EngineNow /\ EngineNow.fired = {} /\ 0 < t
      BY <1>3 DEF EngineNow
    <2>2. Agree(EngineNow, EngineNow, v.rule)
      BY DEF Agree, AgreeAt
    <2> QED
      BY <2>1, <2>2 DEF FiredBy
  <1>5. ASSUME NEW i \in 1..n, claim(i - 1) PROVE claim(i)
    <2> DEFINE w == Turns[i]
               old == eng[i - 1]
    <2>1. w \in RuleVersions /\ eng[i] = Presence(old, w, objs, ts)
      BY <1>1, <1>3
    <2>2. eng[i].fired = old.fired \cup {EventOf(old, w, k, ts) : k \in FiresOf(old, w, objs, ts)}
      BY <2>1, PresenceFires
    <2>3. \A e \in eng[i].fired : e.version \in RuleVersions
      <3>1. \A e \in old.fired : e.version \in RuleVersions
        BY <1>5
      <3>2. \A k : EventOf(old, w, k, ts).version = w
        BY DEF EventOf
      <3> HIDE DEF w, old
      <3> QED
        BY <3>1, <3>2, <2>1, <2>2
    <2>4. CASE i = t
      <3>1. w = v /\ Agree(old, EngineNow, v.rule) /\ FiredBy(old, v) = {}
        BY <1>2, <1>5, <2>4
      <3>2. /\ Agree(eng[i], p, v.rule)
            /\ FiresOf(old, v, objs, ts) = FiresOf(EngineNow, v, objs, ts)
            /\ \A k \in HitsOf(v, objs) : EventOf(old, v, k, ts) = EventOf(EngineNow, v, k, ts)
        BY <2>1, <3>1, PresenceLocal
      <3>3. p.fired = {EventOf(EngineNow, v, k, ts) : k \in FiresOf(EngineNow, v, objs, ts)}
        <4>1. p.fired = EngineNow.fired \cup
                          {EventOf(EngineNow, v, k, ts) : k \in FiresOf(EngineNow, v, objs, ts)}
          BY PresenceFires
        <4>2. EngineNow.fired = {}
          BY DEF EngineNow
        <4> QED
          BY <4>1, <4>2
      <3>4. FiresOf(EngineNow, v, objs, ts) \subseteq HitsOf(v, objs)
        BY DEF FiresOf
      <3>5. \A k : EventOf(EngineNow, v, k, ts).version = v
        BY DEF EventOf
      <3>6. eng[i].fired = old.fired \cup p.fired
        BY <2>2, <3>1, <3>2, <3>3, <3>4
      <3>7. \A e \in p.fired : e.version = v
        BY <3>3, <3>5
      <3>8. FiredBy(eng[i], v) = p.fired
        BY <3>1, <3>6, <3>7 DEF FiredBy
      <3> HIDE DEF p
      <3> QED
        BY <2>3, <3>2, <3>8, <2>4
    <2>5. CASE i # t
      <3>1. w # v
        BY <1>1, <1>2, <2>5
      <3>2. w.rule # v.rule
        BY <2>1, <3>1 DEF OneVersionPerRule
      <3>3. Agree(eng[i], old, v.rule)
        BY <2>1, <3>2, PresenceElsewhere
      <3>4. FiredBy(eng[i], v) = FiredBy(old, v)
        <4>1. \A k : EventOf(old, w, k, ts).version # v
          BY <3>1 DEF EventOf
        <4> HIDE DEF w, old
        <4> QED
          BY <2>2, <4>1 DEF FiredBy
      <3>5. \A c : Agree(old, c, v.rule) => Agree(eng[i], c, v.rule)
        BY <3>3 DEF Agree, AgreeAt
      <3>6. (i < t <=> i - 1 < t) /\ (i >= t <=> i - 1 >= t)
        BY <1>1, <2>5
      <3> HIDE DEF p
      <3> QED
        BY <1>5, <2>3, <3>4, <3>5, <3>6
    <2> QED
      BY <2>4, <2>5
  <1>6. claim(n)
    <2> HIDE DEF claim, n
    <2> DEFINE T == {i \in 0..n : ~claim(i)}
    <2>1. ASSUME T # {} PROVE FALSE
      <3>1. PICK i \in T : \A y \in T : i <= y
        <4> T \subseteq Nat
          BY <1>1
        <4> QED
          BY <2>1, LeastNat
      <3>2. i # 0
        BY <1>4
      <3>3. i \in 1..n /\ i - 1 \in 0..n /\ ~(i <= i - 1)
        BY <3>2, <1>1
      <3>4. i - 1 \notin T
        BY <3>1, <3>3
      <3>5. claim(i - 1)
        BY <3>3, <3>4
      <3> QED
        BY <3>1, <3>3, <3>5, <1>5
    <2>2. n \in 0..n
      BY <1>1
    <2> QED
      BY <2>1, <2>2
  <1>7. n >= t
    BY <1>1
  <1> QED
    BY <1>3, <1>6, <1>7

--------------------------------------------------------------------------------
(* The history. *)

\* Observations come at growing times; a rebuild comes after an observation.
SeenInOrder ==
  /\ \E S : seen \in Seq(S)
  /\ \A i \in 1..Len(seen) : seen[i].ts \in Nat
  /\ \A i, j \in 1..Len(seen) : i < j => seen[i].ts < seen[j].ts
  /\ rebuilds \subseteq 1..Len(seen)

\* The parameters are naturals, and a streak takes at least one hit, one miss and one tick.
LEMMA VisionNumbers ==
  /\ MinObservations \in Nat /\ MinObservations >= 1 /\ MinDwell \in Nat /\ Cooldown \in Nat
  /\ Release \in Nat /\ Release >= 1 /\ Kept \in Nat /\ Kept >= 1
  /\ Gaps \subseteq Nat /\ \A g \in Gaps : g > 0
  BY VisionRulesAssumption DEF Release, Kept

\* Observations are numbered from one.
LEMMA SeenLen == ASSUME SeenInOrder PROVE Len(seen) \in Nat /\ DOMAIN seen = 1..Len(seen)
  BY DEF SeenInOrder

\* In a sequence in order a time is at one index.
LEMMA IndexIn ==
  ASSUME NEW q, NEW len \in Nat, DOMAIN q = 1..len,
         \A i \in 1..len : q[i].ts \in Nat,
         \A i, j \in 1..len : i < j => q[i].ts < q[j].ts,
         NEW i \in 1..len
  PROVE  (CHOOSE j \in DOMAIN q : q[j].ts = q[i].ts) = i
  <1>2. \A j \in 1..len : q[j].ts = q[i].ts => j = i
    <2> SUFFICES ASSUME NEW j \in 1..len, j # i PROVE q[j].ts # q[i].ts
      OBVIOUS
    <2>1. j < i \/ i < j
      OBVIOUS
    <2>2. q[i].ts \in Nat /\ q[j].ts \in Nat
      OBVIOUS
    <2>3. (j < i => q[j].ts < q[i].ts) /\ (i < j => q[i].ts < q[j].ts)
      OBVIOUS
    <2> QED
      BY <2>1, <2>2, <2>3
  <1> DEFINE x == CHOOSE j \in DOMAIN q : q[j].ts = q[i].ts
  <1>4. x \in DOMAIN q /\ q[x].ts = q[i].ts
    OBVIOUS
  <1>5. x = i
    <2> HIDE DEF x
    <2> QED
      BY <1>2, <1>4
  <1> QED
    BY <1>5

\* The observation of a time, now and after a step.
LEMMA IndexIs ==
  ASSUME SeenInOrder, NEW i \in 1..Len(seen)
  PROVE  IndexOf(seen[i].ts) = i
  <1>1. Len(seen) \in Nat /\ DOMAIN seen = 1..Len(seen)
    BY SeenLen
  <1>2. /\ \A j \in 1..Len(seen) : seen[j].ts \in Nat
        /\ \A j, m \in 1..Len(seen) : j < m => seen[j].ts < seen[m].ts
    BY DEF SeenInOrder
  <1>3. (CHOOSE j \in DOMAIN seen : seen[j].ts = seen[i].ts) = i
    BY <1>1, <1>2, IndexIn
  <1> QED
    BY <1>3 DEF IndexOf

LEMMA IndexIsNext ==
  ASSUME SeenInOrder', NEW i \in 1..Len(seen)', NEW ts, ts = seen'[i].ts
  PROVE  IndexOf(ts)' = i
  <1>1. Len(seen)' \in Nat /\ DOMAIN seen' = 1..Len(seen)'
    BY DEF SeenInOrder
  <1>2. /\ \A j \in 1..Len(seen)' : seen'[j].ts \in Nat
        /\ \A j, m \in 1..Len(seen)' : j < m => seen'[j].ts < seen'[m].ts
    BY DEF SeenInOrder
  <1>3. (CHOOSE j \in DOMAIN seen' : seen'[j].ts = seen'[i].ts) = i
    BY <1>1, <1>2, IndexIn
  <1> QED
    BY <1>3 DEF IndexOf

\* Times grow with the index.
LEMMA TimesGrow ==
  ASSUME SeenInOrder, NEW i \in 1..Len(seen), NEW j \in 1..Len(seen)
  PROVE  /\ seen[i].ts \in Nat
         /\ i <= j <=> seen[i].ts <= seen[j].ts
         /\ i < j <=> seen[i].ts < seen[j].ts
  <1>1. Len(seen) \in Nat
    BY SeenLen
  <1>2. seen[i].ts \in Nat /\ seen[j].ts \in Nat
    BY DEF SeenInOrder
  <1>3. i < j => seen[i].ts < seen[j].ts
    BY DEF SeenInOrder
  <1>4. j < i => seen[j].ts < seen[i].ts
    BY DEF SeenInOrder
  <1>5. i = j => seen[i].ts = seen[j].ts
    OBVIOUS
  <1>6. i \in Int /\ j \in Int
    BY <1>1
  <1> QED
    BY <1>2, <1>3, <1>4, <1>5, <1>6

\* A step adds to the history and leaves what it says of the past.
HistoryGoesOn ==
  /\ SeenInOrder /\ SeenInOrder'
  /\ Len(seen) <= Len(seen)' /\ \A i \in 1..Len(seen) : seen'[i] = seen[i]
  /\ \A r \in 1..(Len(seen) - 1) : r \in rebuilds' <=> r \in rebuilds

\* What is told of past observations alone stands after a step.
LEMMA PastStands ==
  ASSUME HistoryGoesOn, NEW n, NEW z, NEW i \in 1..Len(seen), NEW j \in 1..Len(seen)
  PROVE  /\ IsHit(i, n, z)' <=> IsHit(i, n, z)
         /\ HitsIn(i, j, n, z)' = HitsIn(i, j, n, z)
         /\ MissesIn(i, j, n, z)' = MissesIn(i, j, n, z)
         /\ Touched(i, j, n)' = Touched(i, j, n)
         /\ Held(i, j, n, z)' <=> Held(i, j, n, z)
         /\ Unbroken(i, j, n, z)' <=> Unbroken(i, j, n, z)
         /\ Established(i, j, n, z)' <=> Established(i, j, n, z)
         /\ Concludes(i, j, n, z)' <=> Concludes(i, j, n, z)
  <1>1. Len(seen) \in Nat
    BY SeenLen DEF HistoryGoesOn
  <1>2. \A m \in 1..Len(seen) : seen'[m] = seen[m]
    BY DEF HistoryGoesOn
  <1>3. \A m \in 1..Len(seen) : (IsHit(m, n, z)' <=> IsHit(m, n, z)) /\ (IsMiss(m, n, z)' <=> IsMiss(m, n, z))
    BY <1>2 DEF IsHit, IsMiss
  <1>4. \A a, m \in 1..Len(seen) : /\ HitsIn(a, m, n, z)' = HitsIn(a, m, n, z)
                                  /\ MissesIn(a, m, n, z)' = MissesIn(a, m, n, z)
                                  /\ Touched(a, m, n)' = Touched(a, m, n)
    <2> SUFFICES ASSUME NEW a \in 1..Len(seen), NEW m \in 1..Len(seen)
                 PROVE  /\ HitsIn(a, m, n, z)' = HitsIn(a, m, n, z)
                        /\ MissesIn(a, m, n, z)' = MissesIn(a, m, n, z)
                        /\ Touched(a, m, n)' = Touched(a, m, n)
      OBVIOUS
    <2>1. a..m \subseteq 1..Len(seen)
      BY <1>1
    <2> QED
      BY <2>1, <1>2, <1>3 DEF HitsIn, MissesIn, Touched
  <1>5. \A a, m \in 1..Len(seen) : Held(a, m, n, z)' <=> Held(a, m, n, z)
    <2> SUFFICES ASSUME NEW a \in 1..Len(seen), NEW m \in 1..Len(seen)
                 PROVE  Held(a, m, n, z)' <=> Held(a, m, n, z)
      OBVIOUS
    <2>1. HitsIn(a, m, n, z) \subseteq 1..Len(seen) /\ Touched(a, m, n) \subseteq 1..Len(seen)
      BY <1>1 DEF HitsIn, Touched
    <2>2. \A b \in HitsIn(a, m, n, z) : MissesIn(b, m, n, z)' = MissesIn(b, m, n, z)
      BY <1>4, <2>1
    <2>3. \A b \in Touched(a, m, n) : seen'[m].ts - seen'[b].ts = seen[m].ts - seen[b].ts
      BY <1>2, <2>1
    <2>4. Kept' = Kept /\ Release' = Release
      BY DEF Kept, Release
    <2>5. HitsIn(a, m, n, z)' = HitsIn(a, m, n, z) /\ Touched(a, m, n)' = Touched(a, m, n)
      BY <1>4
    <2> QED
      BY <2>2, <2>3, <2>5 DEF Held
  <1>6. Unbroken(i, j, n, z)' <=> Unbroken(i, j, n, z)
    <2>1. i..j \subseteq 1..Len(seen) /\ i..(j - 1) \subseteq 1..(Len(seen) - 1)
      BY <1>1
    <2>2. rebuilds' \cap (i..(j - 1)) = {} <=> rebuilds \cap (i..(j - 1)) = {}
      BY <2>1 DEF HistoryGoesOn
    <2>3. \A m \in i..j : Held(i, m, n, z)' <=> Held(i, m, n, z)
      BY <2>1, <1>5
    <2> QED
      BY <2>2, <2>3 DEF Unbroken
  <1>7. Established(i, j, n, z)' <=> Established(i, j, n, z)
    <2>1. i..j \subseteq 1..Len(seen)
      BY <1>1
    <2> QED
      BY <2>1, <1>4 DEF Established
  <1>8. Concludes(i, j, n, z)' <=> Concludes(i, j, n, z)
    BY <1>2, <1>3, <1>6, <1>7 DEF Concludes
  <1> QED
    BY <1>3, <1>4, <1>5, <1>6, <1>7, <1>8

\* Hits and misses can be counted.
LEMMA Counts ==
  ASSUME NEW i \in Int, NEW j \in Int, NEW n, NEW z
  PROVE  /\ IsFiniteSet(HitsIn(i, j, n, z)) /\ Cardinality(HitsIn(i, j, n, z)) \in Nat
         /\ IsFiniteSet(MissesIn(i, j, n, z)) /\ Cardinality(MissesIn(i, j, n, z)) \in Nat
  <1>1. IsFiniteSet(i..j)
    BY FS_Interval
  <1>2. HitsIn(i, j, n, z) \in SUBSET (i..j) /\ MissesIn(i, j, n, z) \in SUBSET (i..j)
    BY DEF HitsIn, MissesIn
  <1>3. IsFiniteSet(HitsIn(i, j, n, z)) /\ IsFiniteSet(MissesIn(i, j, n, z))
    BY <1>1, <1>2, FS_Subset
  <1> QED
    BY <1>3, FS_CardinalityType

\* A longer stretch has no fewer hits and misses.
LEMMA CountsGrow ==
  ASSUME NEW a \in Int, NEW i \in Int, NEW j \in Int, NEW b \in Int, NEW n, NEW z, a <= i, j <= b
  PROVE  /\ HitsIn(i, j, n, z) \subseteq HitsIn(a, b, n, z)
         /\ MissesIn(i, j, n, z) \subseteq MissesIn(a, b, n, z)
         /\ Cardinality(HitsIn(i, j, n, z)) <= Cardinality(HitsIn(a, b, n, z))
         /\ Cardinality(MissesIn(i, j, n, z)) <= Cardinality(MissesIn(a, b, n, z))
  <1>1. i..j \subseteq a..b
    OBVIOUS
  <1>2. /\ HitsIn(i, j, n, z) \in SUBSET HitsIn(a, b, n, z)
        /\ MissesIn(i, j, n, z) \in SUBSET MissesIn(a, b, n, z)
    BY <1>1 DEF HitsIn, MissesIn
  <1>3. IsFiniteSet(HitsIn(a, b, n, z)) /\ IsFiniteSet(MissesIn(a, b, n, z))
    BY Counts
  <1> QED
    BY <1>2, <1>3, FS_Subset

\* Whether an observation hits or misses a zone of a track.
HitBy(objs, n, z) == n \in DOMAIN objs /\ z \in objs[n]
MissBy(objs, n, z) == n \in DOMAIN objs /\ z \notin objs[n]

\* The observation a frame adds.
Observed(objs, ts) ==
  /\ ts \in Nat /\ \A i \in 1..Len(seen) : seen[i].ts < ts
  /\ seen' = Append(seen, [ts |-> ts, objs |-> objs]) /\ rebuilds' = rebuilds

\* A frame adds one observation to the history.
LEMMA ObservedGoesOn ==
  ASSUME SeenInOrder, NEW objs, NEW ts, Observed(objs, ts)
  PROVE  /\ HistoryGoesOn /\ Len(seen)' = Len(seen) + 1
         /\ seen'[Len(seen) + 1] = [ts |-> ts, objs |-> objs]
  <1> DEFINE x == [ts |-> ts, objs |-> objs]
             len == Len(seen)
  <1>1. PICK S : seen \in Seq(S)
    BY DEF SeenInOrder
  <1>2. seen \in Seq(S \cup {x}) /\ x \in S \cup {x}
    <2>1. \A s \in Seq(S) : s \in Seq(S \cup {x})
      OBVIOUS
    <2> QED
      BY <1>1, <2>1
  <1>3. seen' = Append(seen, x)
    BY DEF Observed
  <1>4. len \in Nat
    BY <1>1
  <1> HIDE DEF x
  <1>5. /\ seen' \in Seq(S \cup {x}) /\ Len(seen)' = len + 1
        /\ \A i \in 1..len : seen'[i] = seen[i]
        /\ seen'[len + 1] = x
    BY <1>2, <1>3
  <1>6. x.ts = ts
    BY DEF x
  <1>7. SeenInOrder'
    <2>1. \A i \in 1..(len + 1) : i \in 1..len \/ i = len + 1
      BY <1>4
    <2>2. \A i \in 1..(len + 1) : seen'[i].ts \in Nat
      BY <1>5, <1>6, <2>1 DEF SeenInOrder, Observed
    <2>3. ASSUME NEW i \in 1..(len + 1), NEW j \in 1..(len + 1), i < j
          PROVE  seen'[i].ts < seen'[j].ts
      <3>1. i \in 1..len /\ i \in Int /\ j \in Int
        BY <2>3, <1>4
      <3>2. CASE j \in 1..len
        BY <3>1, <3>2, <2>3, <1>5 DEF SeenInOrder
      <3>3. CASE j = len + 1
        <4>1. seen[i].ts < ts
          BY <3>1 DEF Observed
        <4> QED
          BY <3>1, <3>3, <4>1, <1>5, <1>6
      <3> QED
        BY <2>1, <3>2, <3>3
    <2>4. rebuilds' \subseteq 1..(len + 1)
      BY <1>4 DEF SeenInOrder, Observed
    <2>5. \E T : seen' \in Seq(T)
      BY <1>5
    <2> HIDE DEF len
    <2>6. Len(seen)' = len + 1
      BY <1>5
    <2> QED
      BY <2>2, <2>3, <2>4, <2>5, <2>6 DEF SeenInOrder
  <1>8. \A r \in 1..(len - 1) : r \in rebuilds' <=> r \in rebuilds
    BY DEF Observed
  <1>9. len <= Len(seen)'
    BY <1>4, <1>5
  <1> QED
    BY <1>5, <1>7, <1>8, <1>9 DEF HistoryGoesOn, x

\* The last observation, and the one to come.
Ends(last, new) == last = Len(seen) /\ new = last + 1

\* What the new observation adds to the presences of a key.
LEMMA NewIndex ==
  ASSUME SeenInOrder, NEW objs, NEW ts, Observed(objs, ts), NEW last, NEW new, Ends(last, new)
  PROVE  /\ last \in Nat /\ new \in Nat /\ new = last + 1 /\ last = Len(seen) /\ new = Len(seen)'
         /\ seen'[new].ts = ts /\ seen'[new].objs = objs
         /\ \A m \in 1..last : seen'[m] = seen[m]
  <1>1. HistoryGoesOn /\ Len(seen)' = last + 1 /\ seen'[new] = [ts |-> ts, objs |-> objs]
    BY ObservedGoesOn DEF Ends
  <1>2. last \in Nat /\ new = last + 1 /\ last = Len(seen)
    BY SeenLen DEF Ends
  <1>3. \A m \in 1..last : seen'[m] = seen[m]
    BY <1>1, <1>2 DEF HistoryGoesOn
  <1> QED
    BY <1>1, <1>2, <1>3

\* What the new observation adds to the hits, misses and sights since i.
HitsGrow(i, last, new, objs, n, z) ==
  HitsIn(i, new, n, z)' = HitsIn(i, last, n, z) \cup (IF HitBy(objs, n, z) THEN {new} ELSE {})
MissesGrow(i, last, new, objs, n, z) ==
  MissesIn(i, new, n, z)' = MissesIn(i, last, n, z) \cup (IF MissBy(objs, n, z) THEN {new} ELSE {})
TouchedGrow(i, last, new, objs, n) ==
  Touched(i, new, n)' = Touched(i, last, n) \cup (IF n \in DOMAIN objs THEN {new} ELSE {})

\* The new observation joins the hits it is one of, ...
LEMMA NewHits ==
  ASSUME SeenInOrder, NEW objs, NEW ts, Observed(objs, ts), NEW n, NEW z,
         NEW last, NEW new, Ends(last, new), NEW i \in 1..new
  PROVE  HitsGrow(i, last, new, objs, n, z)
  <1>1. /\ last \in Nat /\ new \in Nat /\ new = last + 1 /\ seen'[new].objs = objs
        /\ \A m \in 1..last : seen'[m] = seen[m]
    BY NewIndex
  <1>2. IsHit(new, n, z)' <=> HitBy(objs, n, z)
    BY <1>1 DEF IsHit, HitBy
  <1>3. i..new = (i..last) \cup {new} /\ i..last \subseteq 1..last
    BY <1>1
  <1>4. \A m \in i..last : IsHit(m, n, z)' <=> IsHit(m, n, z)
    BY <1>1, <1>3 DEF IsHit
  <1>5. HitsIn(i, new, n, z)' = {m \in i..new : IsHit(m, n, z)'}
    BY DEF HitsIn
  <1> QED
    BY <1>2, <1>3, <1>4, <1>5 DEF HitsIn, HitsGrow

\* ... the misses, ...
LEMMA NewMisses ==
  ASSUME SeenInOrder, NEW objs, NEW ts, Observed(objs, ts), NEW n, NEW z,
         NEW last, NEW new, Ends(last, new), NEW i \in 1..new
  PROVE  MissesGrow(i, last, new, objs, n, z)
  <1>1. /\ last \in Nat /\ new \in Nat /\ new = last + 1 /\ seen'[new].objs = objs
        /\ \A m \in 1..last : seen'[m] = seen[m]
    BY NewIndex
  <1>2. IsMiss(new, n, z)' <=> MissBy(objs, n, z)
    BY <1>1 DEF IsMiss, MissBy
  <1>3. i..new = (i..last) \cup {new} /\ i..last \subseteq 1..last
    BY <1>1
  <1>4. \A m \in i..last : IsMiss(m, n, z)' <=> IsMiss(m, n, z)
    BY <1>1, <1>3 DEF IsMiss
  <1>5. MissesIn(i, new, n, z)' = {m \in i..new : IsMiss(m, n, z)'}
    BY DEF MissesIn
  <1> QED
    BY <1>2, <1>3, <1>4, <1>5 DEF MissesIn, MissesGrow

\* ... is a hit or a miss by what it shows, ...
LEMMA NewSight ==
  ASSUME SeenInOrder, NEW objs, NEW ts, Observed(objs, ts), NEW n, NEW z,
         NEW last, NEW new, Ends(last, new)
  PROVE  (IsHit(new, n, z)' <=> HitBy(objs, n, z)) /\ (IsMiss(new, n, z)' <=> MissBy(objs, n, z))
  <1>1. seen'[new].objs = objs
    BY NewIndex
  <1> QED
    BY <1>1 DEF IsHit, IsMiss, HitBy, MissBy

\* ... and joins the sights of the tracks it shows.
LEMMA NewTouch ==
  ASSUME SeenInOrder, NEW objs, NEW ts, Observed(objs, ts), NEW n,
         NEW last, NEW new, Ends(last, new), NEW i \in 1..new
  PROVE  TouchedGrow(i, last, new, objs, n)
  <1>1. /\ last \in Nat /\ new \in Nat /\ new = last + 1 /\ seen'[new].objs = objs
        /\ \A m \in 1..last : seen'[m] = seen[m]
    BY NewIndex
  <1>2. i..new = (i..last) \cup {new} /\ i..last \subseteq 1..last
    BY <1>1
  <1> QED
    BY <1>1, <1>2 DEF Touched, TouchedGrow

\* How a presence that began in the past goes on.
LEMMA PresenceGoesOn ==
  ASSUME SeenInOrder, NEW objs, NEW ts, Observed(objs, ts), NEW n, NEW z,
         NEW last, NEW new, Ends(last, new), NEW i \in 1..last
  PROVE  /\ Unbroken(i, new, n, z)' <=>
              (Unbroken(i, last, n, z) /\ last \notin rebuilds /\ Held(i, new, n, z)')
         /\ HitBy(objs, n, z) => Held(i, new, n, z)'
         /\ Held(i, new, n, z)' =>
              /\ \E a \in Touched(i, new, n)' : ts - seen'[a].ts <= Kept
              /\ \E a \in HitsIn(i, new, n, z)' : Cardinality(MissesIn(a, new, n, z)') < Release
  <1>1. HistoryGoesOn
    BY ObservedGoesOn
  <1>2. /\ last \in Nat /\ new \in Nat /\ new = last + 1 /\ seen'[new].ts = ts
        /\ HitsIn(i, new, n, z)' = HitsIn(i, last, n, z) \cup (IF HitBy(objs, n, z) THEN {new} ELSE {})
        /\ Touched(i, new, n)' = Touched(i, last, n) \cup (IF n \in DOMAIN objs THEN {new} ELSE {})
        /\ MissesIn(new, new, n, z)' =
             MissesIn(new, last, n, z) \cup (IF MissBy(objs, n, z) THEN {new} ELSE {})
    <2>1. i \in 1..new /\ new \in 1..new
      BY SeenLen DEF Ends
    <2>2. /\ last \in Nat /\ new \in Nat /\ new = last + 1 /\ seen'[new].ts = ts
      BY NewIndex
    <2>3. HitsIn(i, new, n, z)' = HitsIn(i, last, n, z) \cup (IF HitBy(objs, n, z) THEN {new} ELSE {})
      <3>1. HitsGrow(i, last, new, objs, n, z)
        BY <2>1, NewHits
      <3> QED
        BY <3>1 DEF HitsGrow
    <2>5. Touched(i, new, n)' = Touched(i, last, n) \cup (IF n \in DOMAIN objs THEN {new} ELSE {})
      BY <2>1, NewTouch DEF TouchedGrow
    <2>4. MissesIn(new, new, n, z)' =
            MissesIn(new, last, n, z) \cup (IF MissBy(objs, n, z) THEN {new} ELSE {})
      <3>1. MissesGrow(new, last, new, objs, n, z)
        BY <2>1, NewMisses
      <3> QED
        BY <3>1 DEF MissesGrow
    <2> QED
      BY <2>2, <2>3, <2>4, <2>5
  <1>3. Unbroken(i, new, n, z)' <=>
          (Unbroken(i, last, n, z) /\ last \notin rebuilds /\ Held(i, new, n, z)')
    <2>1. \A m \in i..last : Held(i, m, n, z)' <=> Held(i, m, n, z)
      <3> SUFFICES ASSUME NEW m \in i..last PROVE Held(i, m, n, z)' <=> Held(i, m, n, z)
        OBVIOUS
      <3>1. m \in 1..Len(seen) /\ i \in 1..Len(seen)
        BY <1>2 DEF Ends
      <3> QED
        BY <3>1, <1>1, PastStands
    <2>2. i..new = (i..last) \cup {new} /\ i..(new - 1) = (i..(last - 1)) \cup {last}
      BY <1>2
    <2>3. rebuilds' = rebuilds
      BY DEF Observed
    <2>4. Unbroken(i, new, n, z)' <=>
            (rebuilds' \cap (i..(new - 1)) = {} /\ \A m \in i..new : Held(i, m, n, z)')
      BY DEF Unbroken
    <2>5. rebuilds' \cap (i..(new - 1)) = {} <=>
            (rebuilds \cap (i..(last - 1)) = {} /\ last \notin rebuilds)
      BY <2>2, <2>3
    <2>6. (\A m \in i..new : Held(i, m, n, z)') <=>
            ((\A m \in i..last : Held(i, m, n, z)) /\ Held(i, new, n, z)')
      BY <2>1, <2>2
    <2> QED
      BY <2>4, <2>5, <2>6 DEF Unbroken
  <1>4. Held(i, new, n, z)' <=>
          /\ \E a \in Touched(i, new, n)' : ts - seen'[a].ts <= Kept
          /\ \E a \in HitsIn(i, new, n, z)' : Cardinality(MissesIn(a, new, n, z)') < Release
    <2>1. Kept' = Kept /\ Release' = Release
      BY DEF Kept, Release
    <2> QED
      BY <2>1, <1>2 DEF Held
  <1>5. ASSUME HitBy(objs, n, z) PROVE Held(i, new, n, z)'
    <2>1. new \in HitsIn(i, new, n, z)' /\ new \in Touched(i, new, n)'
      BY <1>2, <1>5 DEF HitBy
    <2>2. MissesIn(new, last, n, z) = {} /\ ~MissBy(objs, n, z)
      BY <1>2, <1>5 DEF MissesIn, HitBy, MissBy
    <2>3. Cardinality(MissesIn(new, new, n, z)') = 0
      BY <1>2, <2>2, FS_EmptySet
    <2>4. ts \in Nat
      BY DEF Observed
    <2>5. ts - seen'[new].ts <= Kept
      BY <2>4, <1>2, VisionNumbers
    <2> QED
      BY <1>4, <2>1, <2>3, <2>5, VisionNumbers
  <1> QED
    BY <1>3, <1>4, <1>5

\* A hit is a presence of its own.
LEMMA PresenceBegins ==
  ASSUME SeenInOrder, NEW objs, NEW ts, Observed(objs, ts), NEW n, NEW z, HitBy(objs, n, z),
         NEW last, NEW new, Ends(last, new)
  PROVE  /\ Unbroken(new, new, n, z)' /\ HitsIn(new, new, n, z)' = {new}
         /\ MissesIn(new, new, n, z)' = {}
  <1>1. /\ last \in Nat /\ new \in Nat /\ new = last + 1 /\ seen'[new].ts = ts
        /\ HitsIn(new, new, n, z)' = HitsIn(new, last, n, z) \cup (IF HitBy(objs, n, z) THEN {new} ELSE {})
        /\ Touched(new, new, n)' = Touched(new, last, n) \cup (IF n \in DOMAIN objs THEN {new} ELSE {})
        /\ MissesIn(new, new, n, z)' =
             MissesIn(new, last, n, z) \cup (IF MissBy(objs, n, z) THEN {new} ELSE {})
    <2>1. new \in 1..new
      BY SeenLen DEF Ends
    <2>2. /\ last \in Nat /\ new \in Nat /\ new = last + 1 /\ seen'[new].ts = ts
      BY NewIndex
    <2>3. Touched(new, new, n)' = Touched(new, last, n) \cup (IF n \in DOMAIN objs THEN {new} ELSE {})
      BY <2>1, NewTouch DEF TouchedGrow
    <2>4. HitsIn(new, new, n, z)' = HitsIn(new, last, n, z) \cup (IF HitBy(objs, n, z) THEN {new} ELSE {})
      <3>1. HitsGrow(new, last, new, objs, n, z)
        BY <2>1, NewHits
      <3> QED
        BY <3>1 DEF HitsGrow
    <2>5. MissesIn(new, new, n, z)' =
            MissesIn(new, last, n, z) \cup (IF MissBy(objs, n, z) THEN {new} ELSE {})
      <3>1. MissesGrow(new, last, new, objs, n, z)
        BY <2>1, NewMisses
      <3> QED
        BY <3>1 DEF MissesGrow
    <2> QED
      BY <2>2, <2>3, <2>4, <2>5
  <1>2. HitsIn(new, last, n, z) = {} /\ MissesIn(new, last, n, z) = {} /\ Touched(new, last, n) = {}
    BY <1>1 DEF HitsIn, MissesIn, Touched
  <1>3. HitsIn(new, new, n, z)' = {new} /\ MissesIn(new, new, n, z)' = {} /\ Touched(new, new, n)' = {new}
    BY <1>1, <1>2 DEF HitBy, MissBy
  <1>4. Cardinality(MissesIn(new, new, n, z)') = 0
    BY <1>3, FS_EmptySet
  <1>5. ts - ts <= Kept
    BY VisionNumbers DEF Observed
  <1>6. Held(new, new, n, z)'
    <2>1. Kept' = Kept /\ Release' = Release
      BY DEF Kept, Release
    <2> QED
      BY <2>1, <1>1, <1>3, <1>4, <1>5, VisionNumbers DEF Held
  <1>7. \A m \in new..new : m = new
    BY <1>1
  <1>8. new..(new - 1) = {}
    BY <1>1
  <1> QED
    BY <1>3, <1>6, <1>7, <1>8 DEF Unbroken

(* What a frame makes of one key. *)

\* The fields of a streak.
StreakTyped(st) ==
  st \in [streakIn : Nat, start : Nat, confirmed : BOOLEAN, since : Nat, streakOut : Nat,
          fired : BOOLEAN, lastSeen : Nat]
\* The streak of a key, a new one where there is none.
Fresh(k) == IF k \in DOMAIN streak THEN streak[k] ELSE NewStreak

\* The streak of <<v, n, z>> after a frame, and whether the frame fires its event.
After(st, objs, ts, n, z) ==
  IF HitBy(objs, n, z) THEN Concluded(Hit(st, ts), ts)
  ELSE IF MissBy(objs, n, z) THEN Miss(st, ts) ELSE st
Fires(k, objs, ts, n, z) ==
  HitBy(objs, n, z) /\ Due(Hit(Fresh(k), ts), ts) /\ ~Suppressed(lastFired, k, ts)
\* The event the frame fires.
EventNow(v, n, z, ts) ==
  [version |-> v, track |-> n, zone |-> z, since |-> Hit(Fresh(Key(v, n, z)), ts).since, ts |-> ts]

\* What a frame does to the engine.
Processed(objs, ts) ==
  /\ streak' = Expired(Stepped(objs, ts).streak, ts) /\ lastFired' = Stepped(objs, ts).last
  /\ events' = events \cup Stepped(objs, ts).fired

\* What the rules see and what they make of it, in a frame.
LEMMA FrameObserves ==
  ASSUME SeenInOrder, NEW det, NEW place, NEW gap \in Gaps, Frame(det, place, gap)
  PROVE  Observed(InFrame(det, place), Now + gap) /\ Processed(InFrame(det, place), Now + gap)
  <1>1. /\ seen' = Append(seen, [ts |-> Now + gap, objs |-> InFrame(det, place)])
        /\ rebuilds' = rebuilds
    BY DEF Frame
  <1>2. gap \in Nat /\ gap > 0
    BY VisionNumbers
  <1>3. Len(seen) \in Nat
    BY SeenLen
  <1>4. Now \in Nat /\ \A i \in 1..Len(seen) : seen[i].ts <= Now
    <2>1. CASE seen = <<>>
      BY <2>1 DEF Now
    <2>2. CASE seen # <<>>
      <3>1. Len(seen) \in 1..Len(seen)
        BY <2>2, <1>3 DEF SeenInOrder
      <3>2. Now = seen[Len(seen)].ts
        BY <2>2 DEF Now
      <3>3. \A i \in 1..Len(seen) : i <= Len(seen)
        BY <1>3
      <3> QED
        BY <3>1, <3>2, <3>3, TimesGrow
    <2> QED
      BY <2>1, <2>2
  <1>5. Now + gap \in Nat /\ \A i \in 1..Len(seen) : seen[i].ts < Now + gap
    BY <1>2, <1>4 DEF SeenInOrder
  <1>6. Processed(InFrame(det, place), Now + gap)
    BY DEF Frame, Processed
  <1> QED
    BY <1>1, <1>5, <1>6 DEF Observed

\* Which keys a version's observation hits and misses.
LEMMA KeyParts ==
  ASSUME NEW v, NEW n, NEW z \in ImageZones, NEW objs
  PROVE  /\ Key(v, n, z)[1] = v.rule
         /\ Key(v, n, z) \in HitsOf(v, objs) <=> HitBy(objs, n, z)
         /\ MissedBy(Key(v, n, z), v, objs) <=> MissBy(objs, n, z)
  <1>1. Key(v, n, z) = <<v.rule, n, z>>
    BY DEF Key
  <1>2. Key(v, n, z) \in {v.rule} \X (DOMAIN objs) \X ImageZones <=> n \in DOMAIN objs
    BY <1>1
  <1> QED
    BY <1>1, <1>2 DEF HitsOf, MissedBy, HitBy, MissBy

\* setdefault, then the hit.
LEMMA HitStreakIs ==
  ASSUME NEW k, NEW ts PROVE HitStreak(EngineNow.streak, k, ts) = Hit(Fresh(k), ts)
  BY DEF HitStreak, EngineNow, Fresh

\* Every version's turn over, a key's streak is what its own version made of it.
LEMMA SteppedStreak ==
  ASSUME OneVersionPerRule, NEW v \in RuleVersions, NEW n, NEW z \in ImageZones,
         NEW objs, NEW ts, NEW k, k = Key(v, n, z)
  PROVE  /\ k \in DOMAIN Stepped(objs, ts).streak <=> (k \in DOMAIN streak \/ HitBy(objs, n, z))
         /\ k \in DOMAIN Stepped(objs, ts).streak =>
              Stepped(objs, ts).streak[k] = After(Fresh(k), objs, ts, n, z)
  <1> DEFINE s == Stepped(objs, ts)
             p == Presence(EngineNow, v, objs, ts)
  <1>1. Agree(s, p, v.rule) /\ k[1] = v.rule
    BY SteppedByOne, KeyParts
  <1>2. AgreeAt(s, p, k)
    BY <1>1 DEF Agree
  <1>3. /\ k \in DOMAIN p.streak <=> (k \in DOMAIN EngineNow.streak \/ k \in HitsOf(v, objs))
        /\ k \in DOMAIN p.streak =>
             p.streak[k] =
               IF k \in HitsOf(v, objs) THEN Concluded(HitStreak(EngineNow.streak, k, ts), ts)
               ELSE IF MissedBy(k, v, objs) THEN Miss(EngineNow.streak[k], ts)
               ELSE EngineNow.streak[k]
    BY PresenceAt
  <1>4. EngineNow.streak = streak
    BY DEF EngineNow
  <1>5. (k \in HitsOf(v, objs) <=> HitBy(objs, n, z)) /\ (MissedBy(k, v, objs) <=> MissBy(objs, n, z))
    BY KeyParts
  <1>6. k \in DOMAIN streak => Fresh(k) = streak[k]
    BY DEF Fresh
  <1> HIDE DEF s, p
  <1>7. k \in DOMAIN s.streak <=> (k \in DOMAIN streak \/ HitBy(objs, n, z))
    BY <1>2, <1>3, <1>4, <1>5 DEF AgreeAt
  <1>8. k \in DOMAIN s.streak => s.streak[k] = After(Fresh(k), objs, ts, n, z)
    <2>1. ASSUME k \in DOMAIN s.streak PROVE s.streak[k] = p.streak[k] /\ k \in DOMAIN p.streak
      BY <2>1, <1>2 DEF AgreeAt
    <2>2. CASE HitBy(objs, n, z)
      BY <2>1, <2>2, <1>3, <1>5, HitStreakIs DEF After
    <2>3. CASE ~HitBy(objs, n, z)
      BY <2>1, <2>3, <1>3, <1>4, <1>5, <1>6, <1>7 DEF After
    <2> QED
      BY <2>2, <2>3
  <1> QED
    BY <1>7, <1>8 DEF s

\* A key's streak after a frame: advanced, unless it is forgotten by _expire.
KeyProcessed(k, objs, ts, n, z) ==
  /\ k \in DOMAIN streak' <=> /\ k \in DOMAIN streak \/ HitBy(objs, n, z)
                              /\ ts - After(Fresh(k), objs, ts, n, z).lastSeen <= Kept
  /\ k \in DOMAIN streak' => Fresh(k)' = After(Fresh(k), objs, ts, n, z)
  /\ k \notin DOMAIN streak' => Fresh(k)' = NewStreak

\* A frame advances every key so.
LEMMA FrameStreak ==
  ASSUME OneVersionPerRule, NEW v \in RuleVersions, NEW n, NEW z \in ImageZones,
         NEW objs, NEW ts, Processed(objs, ts), NEW k, k = Key(v, n, z)
  PROVE  KeyProcessed(k, objs, ts, n, z)
  <1> DEFINE s == Stepped(objs, ts).streak
  <1>1. /\ k \in DOMAIN s <=> (k \in DOMAIN streak \/ HitBy(objs, n, z))
        /\ k \in DOMAIN s => s[k] = After(Fresh(k), objs, ts, n, z)
    BY SteppedStreak
  <1>2. streak' = Expired(s, ts)
    BY DEF Processed
  <1> HIDE DEF s
  <1>3. k \in DOMAIN streak' <=> (k \in DOMAIN s /\ ts - s[k].lastSeen <= Kept)
    BY <1>2 DEF Expired
  <1>4. k \in DOMAIN streak' => streak'[k] = s[k]
    BY <1>2 DEF Expired
  <1>5. Fresh(k)' = IF k \in DOMAIN streak' THEN streak'[k] ELSE NewStreak
    BY DEF Fresh, NewStreak
  <1> QED
    BY <1>1, <1>3, <1>4, <1>5 DEF KeyProcessed

\* A key's last event after a frame.
KeyCools(k, objs, ts, n, z) ==
  /\ k \in DOMAIN lastFired' <=> (k \in DOMAIN lastFired \/ Fires(k, objs, ts, n, z))
  /\ k \in DOMAIN lastFired' =>
       lastFired'[k] = IF Fires(k, objs, ts, n, z) THEN ts ELSE lastFired[k]

\* One version fires for a key exactly when the key is due and not suppressed.
LEMMA FiresIs ==
  ASSUME NEW v, NEW n, NEW z \in ImageZones, NEW objs, NEW ts, NEW k, k = Key(v, n, z)
  PROVE  k \in FiresOf(EngineNow, v, objs, ts) <=> Fires(k, objs, ts, n, z)
  <1>1. k \in HitsOf(v, objs) <=> HitBy(objs, n, z)
    BY KeyParts
  <1>2. HitStreak(EngineNow.streak, k, ts) = Hit(Fresh(k), ts)
    BY HitStreakIs
  <1>3. EngineNow.last = lastFired
    BY DEF EngineNow
  <1>4. k \in FiresOf(EngineNow, v, objs, ts) <=>
          /\ k \in HitsOf(v, objs) /\ Due(HitStreak(EngineNow.streak, k, ts), ts)
          /\ ~Suppressed(EngineNow.last, k, ts)
    BY DEF FiresOf
  <1> QED
    BY <1>1, <1>2, <1>3, <1>4 DEF Fires

\* A frame notes exactly the events it fires.
LEMMA FrameCools ==
  ASSUME OneVersionPerRule, NEW v \in RuleVersions, NEW n, NEW z \in ImageZones,
         NEW objs, NEW ts, Processed(objs, ts), NEW k, k = Key(v, n, z)
  PROVE  KeyCools(k, objs, ts, n, z)
  <1> DEFINE s == Stepped(objs, ts)
             p == Presence(EngineNow, v, objs, ts)
  <1>1. Agree(s, p, v.rule) /\ k[1] = v.rule
    BY SteppedByOne, KeyParts
  <1>2. AgreeAt(s, p, k)
    BY <1>1 DEF Agree
  <1>3. /\ k \in DOMAIN p.last <=> (k \in DOMAIN EngineNow.last \/ k \in FiresOf(EngineNow, v, objs, ts))
        /\ k \in DOMAIN p.last =>
             p.last[k] = IF k \in FiresOf(EngineNow, v, objs, ts) THEN ts ELSE EngineNow.last[k]
    BY PresenceAt
  <1>4. EngineNow.last = lastFired
    BY DEF EngineNow
  <1>5. k \in FiresOf(EngineNow, v, objs, ts) <=> Fires(k, objs, ts, n, z)
    BY FiresIs
  <1>6. lastFired' = s.last
    BY DEF Processed
  <1> HIDE DEF s, p
  <1> QED
    BY <1>2, <1>3, <1>4, <1>5, <1>6 DEF AgreeAt, KeyCools

\* An event of this frame.
FiredEvent(e, objs, ts) ==
  /\ e.version \in RuleVersions /\ e.zone \in ImageZones
  /\ Fires(Key(e.version, e.track, e.zone), objs, ts, e.track, e.zone)
  /\ e = EventNow(e.version, e.track, e.zone, ts)

\* A new event is one of a key that fires.
LEMMA FrameFires ==
  ASSUME OneVersionPerRule, NEW objs, NEW ts, Processed(objs, ts), NEW e \in events', e \notin events
  PROVE  FiredEvent(e, objs, ts)
  <1>1. e \in Stepped(objs, ts).fired
    BY DEF Processed
  <1>2. PICK v \in RuleVersions : e.version = v
    <2>1. RuleVersions # {}
      <3>1. ASSUME RuleVersions = {} PROVE Len(Turns) = 0
        BY <3>1, OrderedTakesAll, VisionRulesAssumption, FS_EmptySet DEF Turns
      <3>2. PICK eng : Stepped(objs, ts) = eng[Len(Turns)] /\ eng[0] = EngineNow
        BY EngineTurns
      <3> QED
        BY <1>1, <3>1, <3>2 DEF EngineNow
    <2> QED
      BY <1>1, <2>1, SteppedByOne
  <1>3. e \in Presence(EngineNow, v, objs, ts).fired
    BY <1>1, <1>2, SteppedByOne DEF FiredBy
  <1>4. PICK k \in FiresOf(EngineNow, v, objs, ts) : e = EventOf(EngineNow, v, k, ts)
    BY <1>3, PresenceFires DEF EngineNow
  <1>5. /\ k = Key(v, k[2], k[3]) /\ k[3] \in ImageZones
    BY DEF FiresOf, HitsOf, Key
  <1>6. e = EventNow(v, k[2], k[3], ts)
    <2>1. HitStreak(EngineNow.streak, k, ts) = Hit(Fresh(Key(v, k[2], k[3])), ts)
      BY <1>5, HitStreakIs
    <2> QED
      BY <1>4, <2>1 DEF EventOf, EventNow
  <1>7. e.track = k[2] /\ e.zone = k[3]
    BY <1>6 DEF EventNow
  <1>8. Fires(Key(v, e.track, e.zone), objs, ts, e.track, e.zone)
    BY <1>5, <1>7, FiresIs
  <1> QED
    BY <1>2, <1>5, <1>6, <1>7, <1>8 DEF FiredEvent

\* The event of a key that fires is there.
LEMMA FiredStands ==
  ASSUME OneVersionPerRule, NEW v \in RuleVersions, NEW n, NEW z \in ImageZones,
         NEW objs, NEW ts, Processed(objs, ts), Fires(Key(v, n, z), objs, ts, n, z)
  PROVE  EventNow(v, n, z, ts) \in events'
  <1> DEFINE k == Key(v, n, z)
             x == EventNow(v, n, z, ts)
  <1>1. k \in FiresOf(EngineNow, v, objs, ts)
    BY FiresIs
  <1>2. x = EventOf(EngineNow, v, k, ts)
    <2>1. HitStreak(EngineNow.streak, k, ts) = Hit(Fresh(k), ts)
      BY HitStreakIs
    <2>2. k[2] = n /\ k[3] = z
      BY DEF Key
    <2> QED
      BY <2>1, <2>2 DEF EventOf, EventNow
  <1> HIDE DEF k, x
  <1>3. x \in Presence(EngineNow, v, objs, ts).fired
    BY <1>1, <1>2, PresenceFires
  <1>4. x \in FiredBy(Stepped(objs, ts), v)
    BY <1>3, SteppedByOne
  <1> QED
    BY <1>4 DEF FiredBy, Processed, x

(* What the engine's state says of the observations so far. *)

\* The events of a key; a streak with a presence.
Match(e, v, n, z) == e.version = v /\ e.track = n /\ e.zone = z
Going(st) == st.confirmed \/ st.streakIn > 0

\* The event e answers for the presence that began at h.
Told(e, h, j, n, z) ==
  \/ e.ts >= seen[h].ts
  \/ \E m \in h..j : /\ Concludes(h, m, n, z) /\ seen[m].ts - e.ts < Cooldown
                     /\ rebuilds \cap (IndexOf(e.ts)..(m - 1)) = {}
\* An event is of the time of an observation.
EventAt(e) == \E t \in 1..Len(seen) : e.ts = seen[t].ts

\* lastSeen is the time of the last observation of the track.
LastSeenTold(st, j, n) ==
  \E a \in Touched(1, j, n) : st.lastSeen = seen[a].ts /\ Touched(a + 1, j, n) = {}

\* An unconfirmed presence: hits alone, as many as the streak counts.
Building(st, i, j, n, z) ==
  st.streakIn = Cardinality(HitsIn(i, j, n, z)) /\ MissesIn(i, j, n, z) = {}

\* A confirmed presence: the misses since its last hit, and no event due at that hit.
LastHit(st, a, j, n, z) ==
  /\ HitsIn(a + 1, j, n, z) = {}
  /\ st.streakOut = Cardinality(MissesIn(a, j, n, z)) /\ st.streakOut < Release
  /\ ~st.fired => seen[a].ts - st.since < MinDwell

\* A confirmed presence that began at i, its event fired or answered for if it is concluded.
Standing(st, i, j, v, n, z) ==
  /\ st.since = st.start /\ Established(i, j, n, z)
  /\ \E a \in HitsIn(i, j, n, z) : LastHit(st, a, j, n, z)
  /\ st.fired => \E e \in events : Match(e, v, n, z) /\ Told(e, i, j, n, z)

\* The presence the streak holds is one that began at i and is unbroken.
Begun(st, i, j, v, n, z) ==
  /\ IsHit(i, n, z) /\ st.start = seen[i].ts /\ Unbroken(i, j, n, z) /\ j \notin rebuilds
  /\ st.confirmed => Standing(st, i, j, v, n, z)
  /\ ~st.confirmed => Building(st, i, j, n, z)

\* A streak tells of a presence of the observations.
StreakTold(st, j, v, n, z) ==
  /\ StreakTyped(st)
  /\ ~st.confirmed => st.streakIn < MinObservations /\ ~st.fired
  /\ Going(st) => \E i \in 1..j : Begun(st, i, j, v, n, z)

\* The other presences the observations still hold began no earlier.
Alive(g, j, n, z) ==
  /\ IsHit(g, n, z) /\ Unbroken(g, j, n, z) /\ j \notin rebuilds
  /\ \A x \in MissesIn(g, j, n, z) : Cardinality(HitsIn(g, x, n, z)) >= MinObservations
AliveHeld(st, j, n, z) ==
  \A g \in 1..j : Alive(g, j, n, z) => Going(st) /\ st.start <= seen[g].ts

\* The presence that an event reported is concluded or over.
Answered(d, st, j, n, z) ==
  \/ st.confirmed /\ st.fired /\ st.start <= d.ts
  \/ ~Unbroken(IndexOf(d.ts), IF Going(st) THEN IndexOf(st.start) ELSE j, n, z)

\* The last event of the key is one that the engine fired since it was rebuilt.
CooldownTold(k, j, v, n, z) ==
  k \in DOMAIN lastFired =>
    \E e \in events : /\ Match(e, v, n, z) /\ e.ts = lastFired[k]
                      /\ rebuilds \cap (IndexOf(e.ts)..j) = {}
\* Every event fired since the rebuild is at or before the last, its presence answered.
AllAnswered(k, st, j, v, n, z) ==
  \A d \in events : (Match(d, v, n, z) /\ rebuilds \cap (IndexOf(d.ts)..j) = {}) =>
    k \in DOMAIN lastFired /\ d.ts <= lastFired[k] /\ Answered(d, st, j, n, z)

\* What the engine's state says of one key.
KeyTold(st, k, j, v, n, z) ==
  /\ StreakTold(st, j, v, n, z)
  /\ k \in DOMAIN streak => LastSeenTold(st, j, n)
  /\ AliveHeld(st, j, n, z)
  /\ CooldownTold(k, j, v, n, z)
  /\ AllAnswered(k, st, j, v, n, z)

\* An event tells of a presence that concluded.
EventTold(e) ==
  /\ e.version \in RuleVersions /\ e.zone \in ImageZones
  /\ \E i, j \in 1..Len(seen) :
       i <= j /\ e.since = seen[i].ts /\ e.ts = seen[j].ts /\ Concludes(i, j, e.track, e.zone)

\* The fields of a streak after a hit, ...
LEMMA HitIs ==
  ASSUME NEW st, StreakTyped(st), NEW ts \in Nat
  PROVE  /\ StreakTyped(Hit(st, ts))
         /\ Hit(st, ts).lastSeen = ts /\ Hit(st, ts).streakOut = 0 /\ Hit(st, ts).fired = st.fired
         /\ Hit(st, ts).start = IF Going(st) THEN st.start ELSE ts
         /\ Hit(st, ts).streakIn = IF st.confirmed THEN st.streakIn ELSE st.streakIn + 1
         /\ Hit(st, ts).confirmed <=> (st.confirmed \/ st.streakIn + 1 >= MinObservations)
         /\ Hit(st, ts).since = IF st.confirmed THEN st.since ELSE Hit(st, ts).start
         /\ Going(Hit(st, ts))
  <1> DEFINE begin == IF st.confirmed \/ st.streakIn > 0 THEN st.start ELSE ts
             count == IF st.confirmed THEN st.streakIn ELSE st.streakIn + 1
             conf == st.confirmed \/ count >= MinObservations
             since == IF st.confirmed THEN st.since ELSE begin
  <1>1. /\ st.streakIn \in Nat /\ st.start \in Nat /\ st.confirmed \in BOOLEAN /\ st.since \in Nat
        /\ st.fired \in BOOLEAN
        /\ st = [streakIn |-> st.streakIn, start |-> st.start, confirmed |-> st.confirmed,
                 since |-> st.since, streakOut |-> st.streakOut, fired |-> st.fired,
                 lastSeen |-> st.lastSeen]
    BY DEF StreakTyped
  <1>2. MinObservations \in Nat
    BY VisionNumbers
  <1>3. begin \in Nat /\ count \in Nat /\ conf \in BOOLEAN /\ since \in Nat
    BY <1>1, <1>2
  <1>4. Hit(st, ts) = [streakIn |-> count, start |-> begin, confirmed |-> conf, since |-> since,
                       streakOut |-> 0, fired |-> st.fired, lastSeen |-> ts]
    <2>1. Hit(st, ts) = [st EXCEPT !.lastSeen = ts, !.streakOut = 0, !.streakIn = count,
                                   !.start = begin, !.confirmed = conf, !.since = since]
      BY DEF Hit
    <2> HIDE DEF begin, count, conf, since
    <2> QED
      BY <2>1, <1>1
  <1>5. conf <=> (st.confirmed \/ st.streakIn + 1 >= MinObservations)
    OBVIOUS
  <1>6. conf \/ count > 0
    BY <1>1
  <1> HIDE DEF conf, count, begin, since
  <1>7. StreakTyped(Hit(st, ts))
    BY <1>1, <1>3, <1>4 DEF StreakTyped
  <1>8. /\ Hit(st, ts).lastSeen = ts /\ Hit(st, ts).streakOut = 0 /\ Hit(st, ts).fired = st.fired
        /\ Hit(st, ts).start = begin /\ Hit(st, ts).streakIn = count
        /\ Hit(st, ts).confirmed = conf /\ Hit(st, ts).since = since
    BY <1>4
  <1> QED
    BY <1>5, <1>6, <1>7, <1>8 DEF Going, count, begin, since

\* ... after its conclusion, ...
LEMMA ConcludedIs ==
  ASSUME NEW st, StreakTyped(st), NEW ts
  PROVE  /\ StreakTyped(Concluded(st, ts))
         /\ Concluded(st, ts).lastSeen = st.lastSeen /\ Concluded(st, ts).streakOut = st.streakOut
         /\ Concluded(st, ts).start = st.start /\ Concluded(st, ts).streakIn = st.streakIn
         /\ Concluded(st, ts).confirmed = st.confirmed /\ Concluded(st, ts).since = st.since
         /\ Concluded(st, ts).fired <=> (st.fired \/ Due(st, ts))
         /\ Going(Concluded(st, ts)) <=> Going(st)
  BY DEF Concluded, StreakTyped, Going

\* ... and of a new one.
LEMMA NewStreakIs ==
  /\ StreakTyped(NewStreak) /\ ~Going(NewStreak) /\ ~NewStreak.confirmed /\ ~NewStreak.fired
  /\ NewStreak.streakIn = 0
  BY DEF StreakTyped, NewStreak, Going

\* What a miss that ends a presence leaves.
SeenAt(st, ts) == [st EXCEPT !.lastSeen = ts]
Reset(ts) == SeenAt(NewStreak, ts)

\* Its fields.
LEMMA SeenAtIs ==
  ASSUME NEW st, StreakTyped(st), NEW ts \in Nat
  PROVE  /\ StreakTyped(SeenAt(st, ts)) /\ SeenAt(st, ts).lastSeen = ts
         /\ SeenAt(st, ts).confirmed = st.confirmed /\ SeenAt(st, ts).fired = st.fired
         /\ SeenAt(st, ts).streakIn = st.streakIn
  <1>1. st = [streakIn |-> st.streakIn, start |-> st.start, confirmed |-> st.confirmed,
              since |-> st.since, streakOut |-> st.streakOut, fired |-> st.fired,
              lastSeen |-> st.lastSeen]
    BY DEF StreakTyped
  <1>2. SeenAt(st, ts) = [streakIn |-> st.streakIn, start |-> st.start, confirmed |-> st.confirmed,
                          since |-> st.since, streakOut |-> st.streakOut, fired |-> st.fired,
                          lastSeen |-> ts]
    BY <1>1 DEF SeenAt
  <1>3. StreakTyped(SeenAt(st, ts))
    BY <1>2 DEF StreakTyped
  <1> QED
    BY <1>2, <1>3

\* It holds no presence.
LEMMA ResetIs ==
  ASSUME NEW ts \in Nat
  PROVE  /\ StreakTyped(Reset(ts)) /\ ~Going(Reset(ts))
         /\ ~Reset(ts).confirmed /\ ~Reset(ts).fired
         /\ Reset(ts).streakIn = 0 /\ Reset(ts).lastSeen = ts
  <1>1. /\ StreakTyped(Reset(ts)) /\ Reset(ts).lastSeen = ts
        /\ Reset(ts).confirmed = NewStreak.confirmed /\ Reset(ts).fired = NewStreak.fired
        /\ Reset(ts).streakIn = NewStreak.streakIn
    BY NewStreakIs, SeenAtIs DEF Reset
  <1> QED
    BY <1>1, NewStreakIs DEF Going

\* A presence that a miss does not end.
Outlasts(st) == st.confirmed /\ st.streakOut + 1 < Release

\* The fields of a streak after a miss.
LEMMA MissIs ==
  ASSUME NEW st, StreakTyped(st), NEW ts \in Nat
  PROVE  /\ StreakTyped(Miss(st, ts)) /\ Miss(st, ts).lastSeen = ts
         /\ ~Outlasts(st) => /\ ~Going(Miss(st, ts)) /\ ~Miss(st, ts).confirmed /\ ~Miss(st, ts).fired
                             /\ Miss(st, ts).streakIn = 0
         /\ Outlasts(st) => /\ Miss(st, ts).start = st.start /\ Miss(st, ts).confirmed
                            /\ Miss(st, ts).since = st.since /\ Miss(st, ts).fired = st.fired
                            /\ Miss(st, ts).streakOut = st.streakOut + 1 /\ Going(Miss(st, ts))
  <1>1. /\ Release \in Nat /\ st.streakIn \in Nat /\ st.start \in Nat /\ st.confirmed \in BOOLEAN
        /\ st.since \in Nat /\ st.streakOut \in Nat /\ st.fired \in BOOLEAN
        /\ st = [streakIn |-> st.streakIn, start |-> st.start, confirmed |-> st.confirmed,
                 since |-> st.since, streakOut |-> st.streakOut, fired |-> st.fired,
                 lastSeen |-> st.lastSeen]
    BY VisionNumbers DEF StreakTyped
  <1>2. ASSUME Outlasts(st)
        PROVE  Miss(st, ts) = [streakIn |-> st.streakIn, start |-> st.start,
                               confirmed |-> st.confirmed, since |-> st.since,
                               streakOut |-> st.streakOut + 1, fired |-> st.fired, lastSeen |-> ts]
    <2>1. Miss(st, ts) = [st EXCEPT !.streakOut = st.streakOut + 1, !.lastSeen = ts]
      BY <1>1, <1>2 DEF Miss, Outlasts
    <2> QED
      BY <2>1, <1>1
  <1>3. ASSUME Outlasts(st)
        PROVE  /\ StreakTyped(Miss(st, ts)) /\ Miss(st, ts).lastSeen = ts
               /\ Miss(st, ts).start = st.start /\ Miss(st, ts).confirmed = st.confirmed
               /\ Miss(st, ts).since = st.since /\ Miss(st, ts).fired = st.fired
               /\ Miss(st, ts).streakOut = st.streakOut + 1
    <2>1. st.streakOut + 1 \in Nat
      BY <1>1
    <2>2. StreakTyped(Miss(st, ts))
      BY <1>1, <1>2, <1>3, <2>1 DEF StreakTyped
    <2> QED
      BY <1>2, <1>3, <2>2
  <1>4. ASSUME ~Outlasts(st) PROVE Miss(st, ts) = Reset(ts)
    BY <1>1, <1>4 DEF Miss, Outlasts, Reset, SeenAt
  <1>5. ASSUME Outlasts(st) PROVE Going(Miss(st, ts)) /\ Miss(st, ts).confirmed
    BY <1>3, <1>5 DEF Going, Outlasts
  <1>6. CASE Outlasts(st)
    BY <1>3, <1>5, <1>6
  <1>7. CASE ~Outlasts(st)
    <2> DEFINE r == Miss(st, ts)
    <2> HIDE DEF r
    <2>2. r = Reset(ts)
      BY <1>4, <1>7 DEF r
    <2>3. /\ StreakTyped(r) /\ ~Going(r) /\ ~r.confirmed /\ ~r.fired
          /\ r.streakIn = 0 /\ r.lastSeen = ts
      BY <2>2, ResetIs
    <2> QED
      BY <2>3, <1>7 DEF r
  <1> QED
    BY <1>6, <1>7

--------------------------------------------------------------------------------
(* What was said of the past still stands. *)

\* A past observation keeps its place.
LEMMA PastIndex ==
  ASSUME HistoryGoesOn, NEW t \in 1..Len(seen), NEW ts, ts = seen[t].ts
  PROVE  /\ t \in 1..Len(seen)' /\ seen'[t] = seen[t]
         /\ IndexOf(ts) = t /\ IndexOf(ts)' = t
  <1>1. SeenInOrder /\ SeenInOrder' /\ seen'[t] = seen[t] /\ Len(seen) <= Len(seen)'
    BY DEF HistoryGoesOn
  <1>2. Len(seen) \in Nat /\ Len(seen)' \in Nat
    BY <1>1, SeenLen DEF SeenInOrder
  <1>3. t \in 1..Len(seen)'
    BY <1>1, <1>2
  <1>4. IndexOf(ts) = t
    BY <1>1, IndexIs
  <1>5. IndexOf(ts)' = t
    BY <1>1, <1>3, IndexIsNext
  <1> QED
    BY <1>1, <1>3, <1>4, <1>5

\* An event goes on answering for a presence.
LEMMA PastTold ==
  ASSUME HistoryGoesOn, NEW e, EventAt(e), NEW n, NEW z,
         NEW h \in 1..Len(seen), NEW j \in 1..Len(seen), NEW jj \in 1..Len(seen)', j <= jj,
         Told(e, h, j, n, z)
  PROVE  Told(e, h, jj, n, z)'
  <1>1. PICK t \in 1..Len(seen) : e.ts = seen[t].ts
    BY DEF EventAt
  <1>2. IndexOf(e.ts) = t /\ IndexOf(e.ts)' = t /\ seen'[h] = seen[h]
    BY <1>1, PastIndex
  <1>3. Len(seen) \in Nat /\ Len(seen)' \in Nat
    BY SeenLen DEF HistoryGoesOn
  <1>4. CASE e.ts >= seen[h].ts
    BY <1>2, <1>4 DEF Told
  <1>5. CASE \E m \in h..j : /\ Concludes(h, m, n, z) /\ seen[m].ts - e.ts < Cooldown
                             /\ rebuilds \cap (IndexOf(e.ts)..(m - 1)) = {}
    <2>1. PICK m \in h..j : /\ Concludes(h, m, n, z) /\ seen[m].ts - e.ts < Cooldown
                            /\ rebuilds \cap (IndexOf(e.ts)..(m - 1)) = {}
      BY <1>5
    <2>2. m \in 1..Len(seen) /\ m \in h..jj
      BY <1>3
    <2>3. Concludes(h, m, n, z)' /\ seen'[m] = seen[m]
      BY <2>1, <2>2, PastStands, PastIndex
    <2>4. t..(m - 1) \subseteq 1..(Len(seen) - 1)
      BY <2>2, <1>3
    <2>5. rebuilds' \cap (t..(m - 1)) = {}
      BY <2>1, <2>4, <1>2 DEF HistoryGoesOn
    <2>6. \E x \in h..jj : /\ Concludes(h, x, n, z)' /\ seen'[x].ts - e.ts < Cooldown
                           /\ rebuilds' \cap (IndexOf(e.ts)'..(x - 1)) = {}
      BY <2>1, <2>2, <2>3, <2>5, <1>2
    <2> QED
      BY <2>6 DEF Told
  <1> QED
    BY <1>4, <1>5 DEF Told

\* What the new observation makes of the counts of a presence of the past.
MoreHits(i, last, new, n, z) ==
  Cardinality(HitsIn(i, new, n, z)') = Cardinality(HitsIn(i, last, n, z)) + 1
SameHits(i, last, new, n, z) == HitsIn(i, new, n, z)' = HitsIn(i, last, n, z)
MoreMisses(i, last, new, n, z) ==
  Cardinality(MissesIn(i, new, n, z)') = Cardinality(MissesIn(i, last, n, z)) + 1
SameMisses(i, last, new, n, z) == MissesIn(i, new, n, z)' = MissesIn(i, last, n, z)

\* The new observation adds one hit, one miss or neither.
LEMMA HitsCount ==
  ASSUME SeenInOrder, NEW objs, NEW ts, Observed(objs, ts), NEW n, NEW z,
         NEW last, NEW new, Ends(last, new), NEW i \in 1..last
  PROVE  /\ HitBy(objs, n, z) => MoreHits(i, last, new, n, z) /\ SameMisses(i, last, new, n, z)
         /\ MissBy(objs, n, z) => MoreMisses(i, last, new, n, z) /\ SameHits(i, last, new, n, z)
         /\ n \notin DOMAIN objs => /\ SameMisses(i, last, new, n, z)
                                    /\ SameHits(i, last, new, n, z)
  <1>1. last \in Nat /\ new \in Nat /\ new = last + 1
    BY NewIndex
  <1>2. i \in 1..new
    BY <1>1
  <1>3. HitsGrow(i, last, new, objs, n, z)
    BY <1>2, NewHits
  <1>4. MissesGrow(i, last, new, objs, n, z)
    BY <1>2, NewMisses
  <1>5. /\ HitsIn(i, new, n, z)' = HitsIn(i, last, n, z) \cup (IF HitBy(objs, n, z) THEN {new} ELSE {})
        /\ MissesIn(i, new, n, z)' = MissesIn(i, last, n, z) \cup (IF MissBy(objs, n, z) THEN {new} ELSE {})
    BY <1>3, <1>4 DEF HitsGrow, MissesGrow
  <1>6. new \notin HitsIn(i, last, n, z) /\ new \notin MissesIn(i, last, n, z)
    BY <1>1 DEF HitsIn, MissesIn
  <1>7. IsFiniteSet(HitsIn(i, last, n, z)) /\ IsFiniteSet(MissesIn(i, last, n, z))
    BY <1>1, Counts
  <1>8. /\ Cardinality(HitsIn(i, last, n, z) \cup {new}) = Cardinality(HitsIn(i, last, n, z)) + 1
        /\ Cardinality(MissesIn(i, last, n, z) \cup {new}) = Cardinality(MissesIn(i, last, n, z)) + 1
    BY <1>6, <1>7, FS_AddElement
  <1>9. CASE HitBy(objs, n, z)
    <2>1. ~MissBy(objs, n, z) /\ n \in DOMAIN objs
      BY <1>9 DEF HitBy, MissBy
    <2> QED
      BY <1>5, <1>8, <1>9, <2>1 DEF MoreHits, SameMisses
  <1>10. CASE MissBy(objs, n, z)
    <2>1. ~HitBy(objs, n, z) /\ n \in DOMAIN objs
      BY <1>10 DEF HitBy, MissBy
    <2> QED
      BY <1>5, <1>8, <1>10, <2>1 DEF MoreMisses, SameHits
  <1>11. CASE n \notin DOMAIN objs
    <2>1. ~HitBy(objs, n, z) /\ ~MissBy(objs, n, z)
      BY <1>11 DEF HitBy, MissBy
    <2> QED
      BY <1>5, <1>11, <2>1 DEF SameMisses, SameHits
  <1> QED
    BY <1>9, <1>10, <1>11 DEF HitBy, MissBy

\* A presence once established stays so.
LEMMA StaysEstablished ==
  ASSUME HistoryGoesOn, NEW i \in 1..Len(seen), NEW j \in 1..Len(seen),
         NEW jj \in 1..Len(seen)', j <= jj, NEW n, NEW z, Established(i, j, n, z)
  PROVE  Established(i, jj, n, z)'
  <1>1. Len(seen) \in Nat /\ Len(seen)' \in Nat
    BY SeenLen DEF HistoryGoesOn
  <1>2. Established(i, j, n, z)'
    BY PastStands
  <1>3. PICK m \in i..j : /\ Cardinality(HitsIn(i, m, n, z)') = MinObservations
                          /\ MissesIn(i, m, n, z)' = {}
    BY <1>2 DEF Established
  <1>4. m \in i..jj
    BY <1>1
  <1> QED
    BY <1>3, <1>4 DEF Established

\* A hit begins a presence or goes on with the one the streak holds.
HitFrom(st, ts, i, new, n, z) ==
  /\ IsHit(i, n, z)' /\ Hit(st, ts).start = seen'[i].ts
  /\ Unbroken(i, new, n, z)' /\ new \notin rebuilds'
  /\ Hit(st, ts).confirmed => Hit(st, ts).since = Hit(st, ts).start /\ Established(i, new, n, z)'
  /\ ~Hit(st, ts).confirmed => /\ Hit(st, ts).streakIn = Cardinality(HitsIn(i, new, n, z)')
                               /\ MissesIn(i, new, n, z)' = {}

\* A hit goes on with the presence of the streak, ...
LEMMA HitGoesOn ==
  ASSUME SeenInOrder, NEW objs, NEW ts, Observed(objs, ts), NEW n, NEW z, HitBy(objs, n, z),
         NEW last, NEW new, Ends(last, new), NEW v, NEW st, StreakTold(st, last, v, n, z),
         NEW i \in 1..last, Begun(st, i, last, v, n, z), Going(st)
  PROVE  HitFrom(st, ts, i, new, n, z)
  <1>1. /\ last \in Nat /\ new \in Nat /\ new = last + 1 /\ last = Len(seen) /\ new = Len(seen)'
        /\ seen'[new].ts = ts /\ \A m \in 1..last : seen'[m] = seen[m]
    BY NewIndex
  <1>2. HistoryGoesOn
    BY ObservedGoesOn
  <1>3. new \notin rebuilds' /\ ts \in Nat
    BY <1>1 DEF SeenInOrder, Observed
  <1>4. StreakTyped(st) /\ (~st.confirmed => st.streakIn < MinObservations)
    BY DEF StreakTold
  <1>5. /\ Hit(st, ts).start = st.start
        /\ Hit(st, ts).streakIn = IF st.confirmed THEN st.streakIn ELSE st.streakIn + 1
        /\ Hit(st, ts).confirmed <=> (st.confirmed \/ st.streakIn + 1 >= MinObservations)
        /\ Hit(st, ts).since = IF st.confirmed THEN st.since ELSE Hit(st, ts).start
    BY <1>3, <1>4, HitIs
  <1>6. /\ IsHit(i, n, z) /\ st.start = seen[i].ts /\ Unbroken(i, last, n, z) /\ last \notin rebuilds
        /\ st.confirmed => st.since = st.start /\ Established(i, last, n, z)
        /\ ~st.confirmed => /\ st.streakIn = Cardinality(HitsIn(i, last, n, z))
                            /\ MissesIn(i, last, n, z) = {}
    BY DEF Begun, Standing, Building
  <1>7. i \in 1..Len(seen) /\ last \in 1..Len(seen) /\ i \in 1..new /\ new \in 1..Len(seen)'
    BY <1>1
  <1>8. IsHit(i, n, z)'
    BY <1>2, <1>6, <1>7, PastStands
  <1>9. Unbroken(i, new, n, z)'
    BY <1>6, PresenceGoesOn
  <1>10. /\ Cardinality(HitsIn(i, new, n, z)') = Cardinality(HitsIn(i, last, n, z)) + 1
         /\ MissesIn(i, new, n, z)' = MissesIn(i, last, n, z)
    <2>1. MoreHits(i, last, new, n, z) /\ SameMisses(i, last, new, n, z)
      BY HitsCount
    <2> QED
      BY <2>1 DEF MoreHits, SameMisses
  <1>11. MinObservations \in Nat /\ st.streakIn \in Nat
    BY <1>4, VisionNumbers DEF StreakTyped
  <1>12. ASSUME Hit(st, ts).confirmed
         PROVE  Hit(st, ts).since = Hit(st, ts).start /\ Established(i, new, n, z)'
    <2>1. CASE st.confirmed
      BY <2>1, <1>1, <1>2, <1>5, <1>6, <1>7, StaysEstablished
    <2>2. CASE ~st.confirmed
      <3>1. st.streakIn + 1 = MinObservations
        BY <1>4, <1>5, <1>11, <1>12, <2>2
      <3>2. /\ Cardinality(HitsIn(i, new, n, z)') = MinObservations
            /\ MissesIn(i, new, n, z)' = {}
        BY <3>1, <1>6, <1>10, <2>2
      <3>3. new \in i..new
        BY <1>1
      <3>4. Established(i, new, n, z)'
        BY <3>2, <3>3 DEF Established
      <3> QED
        BY <3>4, <1>5, <2>2
    <2> QED
      BY <2>1, <2>2
  <1>13. ASSUME ~Hit(st, ts).confirmed
         PROVE  /\ Hit(st, ts).streakIn = Cardinality(HitsIn(i, new, n, z)')
                /\ MissesIn(i, new, n, z)' = {}
    BY <1>5, <1>6, <1>10, <1>13
  <1> QED
    BY <1>1, <1>3, <1>5, <1>6, <1>8, <1>9, <1>12, <1>13 DEF HitFrom

\* ... or begins one.
LEMMA HitBegins ==
  ASSUME SeenInOrder, NEW objs, NEW ts, Observed(objs, ts), NEW n, NEW z, HitBy(objs, n, z),
         NEW last, NEW new, Ends(last, new), NEW st, StreakTyped(st), ~Going(st)
  PROVE  HitFrom(st, ts, new, new, n, z)
  <1>1. /\ last \in Nat /\ new \in Nat /\ new = last + 1 /\ last = Len(seen) /\ new = Len(seen)'
        /\ seen'[new].ts = ts
    BY NewIndex
  <1>2. new \notin rebuilds' /\ ts \in Nat
    BY <1>1 DEF SeenInOrder, Observed
  <1>3. ~st.confirmed /\ st.streakIn = 0 /\ MinObservations \in Nat /\ MinObservations >= 1
    BY VisionNumbers DEF Going, StreakTyped
  <1>4. /\ Hit(st, ts).start = ts /\ Hit(st, ts).streakIn = 1
        /\ Hit(st, ts).confirmed <=> 1 >= MinObservations
        /\ Hit(st, ts).since = ts
    <2>1. /\ Hit(st, ts).start = IF Going(st) THEN st.start ELSE ts
          /\ Hit(st, ts).streakIn = IF st.confirmed THEN st.streakIn ELSE st.streakIn + 1
          /\ Hit(st, ts).confirmed <=> (st.confirmed \/ st.streakIn + 1 >= MinObservations)
          /\ Hit(st, ts).since = IF st.confirmed THEN st.since ELSE Hit(st, ts).start
      BY <1>2, HitIs
    <2> QED
      BY <2>1, <1>3
  <1>5. IsHit(new, n, z)'
    BY NewSight
  <1>6. /\ Unbroken(new, new, n, z)' /\ HitsIn(new, new, n, z)' = {new}
        /\ MissesIn(new, new, n, z)' = {}
    BY PresenceBegins
  <1>7. Cardinality(HitsIn(new, new, n, z)') = 1
    BY <1>6, FS_Singleton
  <1>8. ASSUME Hit(st, ts).confirmed PROVE Established(new, new, n, z)'
    <2>1. MinObservations = 1 /\ new \in new..new
      BY <1>1, <1>3, <1>4, <1>8
    <2> QED
      BY <2>1, <1>6, <1>7 DEF Established
  <1> QED
    BY <1>1, <1>2, <1>4, <1>5, <1>6, <1>7, <1>8 DEF HitFrom

\* A hit at which the streak is due concludes its presence.
LEMMA HitConcludes ==
  ASSUME SeenInOrder, NEW objs, NEW ts, Observed(objs, ts), NEW n, NEW z, HitBy(objs, n, z),
         NEW last, NEW new, Ends(last, new), NEW st, StreakTyped(st),
         NEW i \in 1..new, HitFrom(st, ts, i, new, n, z), Due(Hit(st, ts), ts)
  PROVE  Concludes(i, new, n, z)' /\ Hit(st, ts).since = seen'[i].ts
  <1>1. seen'[new].ts = ts
    BY NewIndex
  <1>2. IsHit(new, n, z)'
    BY NewSight
  <1>3. /\ IsHit(i, n, z)' /\ Hit(st, ts).start = seen'[i].ts /\ Unbroken(i, new, n, z)'
        /\ Hit(st, ts).since = Hit(st, ts).start /\ Established(i, new, n, z)'
        /\ ts - Hit(st, ts).since >= MinDwell
    BY DEF HitFrom, Due
  <1>4. seen'[new].ts - seen'[i].ts >= MinDwell
    BY <1>1, <1>3
  <1> QED
    BY <1>2, <1>3, <1>4 DEF Concludes

\* A presence that is due is answered for by its event, or by the one that suppressed it.
LEMMA DueTold ==
  ASSUME SeenInOrder, NEW objs, NEW ts, Observed(objs, ts), NEW n, NEW z \in ImageZones,
         HitBy(objs, n, z), NEW last, NEW new, Ends(last, new), OneVersionPerRule,
         NEW v \in RuleVersions, Processed(objs, ts), NEW k, k = Key(v, n, z), NEW st, st = Fresh(k),
         StreakTyped(st), NEW i \in 1..new, HitFrom(st, ts, i, new, n, z), Due(Hit(st, ts), ts),
         CooldownTold(k, last, v, n, z), \A e \in events : EventAt(e)
  PROVE  \E e \in events' : Match(e, v, n, z) /\ Told(e, i, new, n, z)'
  <1>1. /\ last \in Nat /\ new \in Nat /\ new = last + 1 /\ last = Len(seen) /\ new = Len(seen)'
        /\ seen'[new].ts = ts
    BY NewIndex
  <1>2. HistoryGoesOn
    BY ObservedGoesOn
  <1>3. CASE Suppressed(lastFired, k, ts)
    <2>1. k \in DOMAIN lastFired /\ ts - lastFired[k] < Cooldown
      BY <1>3 DEF Suppressed
    <2>2. PICK e \in events : /\ Match(e, v, n, z) /\ e.ts = lastFired[k]
                              /\ rebuilds \cap (IndexOf(e.ts)..last) = {}
      BY <2>1 DEF CooldownTold
    <2>3. PICK t \in 1..Len(seen) : e.ts = seen[t].ts
      BY <2>2 DEF EventAt
    <2>4. IndexOf(e.ts) = t /\ IndexOf(e.ts)' = t
      BY <1>2, <2>3, PastIndex
    <2>5. Concludes(i, new, n, z)'
      BY HitConcludes
    <2>6. rebuilds' \cap (t..(new - 1)) = {}
      BY <1>1, <2>2, <2>4 DEF Observed
    <2>7. seen'[new].ts - e.ts < Cooldown
      BY <1>1, <2>1, <2>2
    <2>8. new \in i..new
      BY <1>1
    <2>9. \E m \in i..new : /\ Concludes(i, m, n, z)' /\ seen'[m].ts - e.ts < Cooldown
                            /\ rebuilds' \cap (IndexOf(e.ts)'..(m - 1)) = {}
      BY <2>4, <2>5, <2>6, <2>7, <2>8
    <2>10. Told(e, i, new, n, z)'
      BY <2>9 DEF Told
    <2>11. e \in events'
      BY <2>2 DEF Processed
    <2> QED
      BY <2>2, <2>10, <2>11
  <1>4. CASE ~Suppressed(lastFired, k, ts)
    <2>0. PICK e : e = EventNow(v, n, z, ts)
      OBVIOUS
    <2>1. Fires(k, objs, ts, n, z)
      BY <1>4 DEF Fires
    <2>2. e \in events'
      BY <2>0, <2>1, FiredStands
    <2>3. e.ts = ts /\ Match(e, v, n, z)
      BY <2>0 DEF EventNow, Match
    <2>4. i <= new /\ i \in 1..Len(seen)' /\ new \in 1..Len(seen)'
      BY <1>1
    <2>5. seen'[i].ts <= seen'[new].ts
      <3>1. SeenInOrder'
        BY <1>2 DEF HistoryGoesOn
      <3>2. seen'[i].ts \in Nat /\ (i < new => seen'[i].ts < seen'[new].ts) /\ seen'[new].ts \in Nat
        BY <3>1, <2>4 DEF SeenInOrder
      <3> QED
        BY <3>2, <2>4, <1>1
    <2>6. e.ts >= seen'[i].ts
      <3>1. ts \in Nat
        BY DEF Observed
      <3>2. seen'[i].ts \in Nat
        BY <1>2, <2>4 DEF HistoryGoesOn, SeenInOrder
      <3> QED
        BY <3>1, <3>2, <2>3, <2>5, <1>1
    <2>7. Told(e, i, new, n, z)'
      BY <2>6 DEF Told
    <2> QED
      BY <2>2, <2>3, <2>7
  <1> QED
    BY <1>3, <1>4

\* The streak after a hit tells of the presence it goes on with.
LEMMA HitBegun ==
  ASSUME SeenInOrder, NEW objs, NEW ts, Observed(objs, ts), NEW n, NEW z,
         HitBy(objs, n, z), NEW last, NEW new, Ends(last, new), NEW v,
         NEW st, StreakTyped(st), ~st.confirmed => ~st.fired,
         NEW i \in 1..new, HitFrom(st, ts, i, new, n, z), NEW c, c = Concluded(Hit(st, ts), ts),
         c.fired => \E e \in events' : Match(e, v, n, z) /\ Told(e, i, new, n, z)'
  PROVE  Begun(c, i, new, v, n, z)' /\ StreakTold(c, new, v, n, z)'
  <1>1. /\ last \in Nat /\ new \in Nat /\ new = last + 1 /\ seen'[new].ts = ts /\ ts \in Nat
    BY NewIndex DEF Observed
  <1> DEFINE h == Hit(st, ts)
  <1>2. /\ StreakTyped(h) /\ h.streakOut = 0 /\ h.fired = st.fired /\ Going(h)
        /\ h.streakIn = IF st.confirmed THEN st.streakIn ELSE st.streakIn + 1
        /\ h.confirmed <=> (st.confirmed \/ st.streakIn + 1 >= MinObservations)
    BY <1>1, HitIs
  <1>3. /\ StreakTyped(c) /\ c.streakOut = h.streakOut /\ c.start = h.start /\ c.streakIn = h.streakIn
        /\ c.confirmed = h.confirmed /\ c.since = h.since
        /\ c.fired <=> (h.fired \/ Due(h, ts))
        /\ Going(c)
    BY <1>2, ConcludedIs
  <1>4. /\ IsHit(i, n, z)' /\ h.start = seen'[i].ts /\ Unbroken(i, new, n, z)' /\ new \notin rebuilds'
        /\ h.confirmed => h.since = h.start /\ Established(i, new, n, z)'
        /\ ~h.confirmed => h.streakIn = Cardinality(HitsIn(i, new, n, z)') /\ MissesIn(i, new, n, z)' = {}
    BY DEF HitFrom
  <1> HIDE DEF h
  <1>5. ASSUME ~c.confirmed PROVE c.streakIn < MinObservations /\ ~c.fired /\ Building(c, i, new, n, z)'
    <2>1. ~h.confirmed /\ ~st.confirmed
      BY <1>2, <1>3, <1>5
    <2>2. h.streakIn < MinObservations
      BY <1>2, <2>1, VisionNumbers DEF StreakTyped
    <2>3. ~c.fired
      BY <1>2, <1>3, <2>1 DEF Due
    <2>4. Building(c, i, new, n, z)'
      BY <1>3, <1>4, <2>1 DEF Building
    <2> QED
      BY <1>3, <2>2, <2>3, <2>4
  <1>6. ASSUME c.confirmed PROVE Standing(c, i, new, v, n, z)'
    <2>1. HitsIn(new + 1, new, n, z)' = {}
      BY <1>1 DEF HitsIn
    <2>2. MissesIn(new, new, n, z)' = {}
      BY PresenceBegins
    <2>3. Cardinality(MissesIn(new, new, n, z)') = 0
      BY <2>2, FS_EmptySet
    <2>4. ASSUME ~c.fired PROVE seen'[new].ts - c.since < MinDwell
      <3>1. h.confirmed /\ ~h.fired /\ ~Due(h, ts)
        BY <1>3, <1>6, <2>4
      <3>2. ~(ts - h.since >= MinDwell)
        BY <3>1 DEF Due
      <3>3. ts - h.since \in Int /\ MinDwell \in Int
        BY <1>1, <1>2, VisionNumbers DEF StreakTyped
      <3> QED
        BY <3>2, <3>3, <1>1, <1>3
    <2>5. LastHit(c, new, new, n, z)'
      BY <2>1, <2>3, <2>4, <1>2, <1>3, VisionNumbers DEF LastHit, Release
    <2>6. new \in HitsIn(i, new, n, z)'
      <3>1. IsHit(new, n, z)'
        BY NewSight
      <3> QED
        BY <3>1, <1>1 DEF HitsIn
    <2>7. c.since = c.start /\ Established(i, new, n, z)'
      BY <1>3, <1>4, <1>6
    <2> QED
      BY <2>5, <2>6, <2>7 DEF Standing
  <1>7. Begun(c, i, new, v, n, z)'
    BY <1>3, <1>4, <1>5, <1>6 DEF Begun
  <1>8. StreakTold(c, new, v, n, z)'
    <2>1. \E x \in 1..new : Begun(c, x, new, v, n, z)'
      BY <1>7
    <2>2. StreakTyped(c)'
      BY <1>3 DEF StreakTyped
    <2> QED
      BY <2>1, <2>2, <1>3, <1>5 DEF StreakTold
  <1> QED
    BY <1>7, <1>8

\* The two halves of being held at the new observation.
SeenLately(i, ts, new, n) == \E a \in Touched(i, new, n)' : ts - seen'[a].ts <= Kept
FewMisses(i, new, n, z) ==
  \E a \in HitsIn(i, new, n, z)' : Cardinality(MissesIn(a, new, n, z)') < Release

\* A presence is held when its track was seen lately and few misses follow its last hit.
LEMMA HeldNow ==
  ASSUME SeenInOrder, NEW objs, NEW ts, Observed(objs, ts), NEW n, NEW z,
         NEW last, NEW new, Ends(last, new), NEW i \in 1..new
  PROVE  Held(i, new, n, z)' <=> (SeenLately(i, ts, new, n) /\ FewMisses(i, new, n, z))
  <1>1. seen'[new].ts = ts
    BY NewIndex
  <1>2. Kept' = Kept /\ Release' = Release
    BY DEF Kept, Release
  <1> QED
    BY <1>1, <1>2 DEF Held, SeenLately, FewMisses

\* A miss that does not release a presence.
LEMMA MissHolds ==
  ASSUME SeenInOrder, NEW objs, NEW ts, Observed(objs, ts), NEW n, NEW z, MissBy(objs, n, z),
         NEW last, NEW new, Ends(last, new), NEW v, NEW st, Outlasts(st),
         NEW i \in 1..last, Begun(st, i, last, v, n, z)
  PROVE  Held(i, new, n, z)'
  <1>1. /\ last \in Nat /\ new \in Nat /\ new = last + 1 /\ seen'[new].ts = ts /\ ts \in Nat
    BY NewIndex DEF Observed
  <1>2. SeenLately(i, ts, new, n)
    <2>1. TouchedGrow(i, last, new, objs, n)
      BY <1>1, NewTouch
    <2>2. new \in Touched(i, new, n)'
      BY <2>1 DEF TouchedGrow, MissBy
    <2>3. ts - seen'[new].ts <= Kept
      BY <1>1, VisionNumbers
    <2> QED
      BY <2>2, <2>3 DEF SeenLately
  <1>3. FewMisses(i, new, n, z)
    <2>1. PICK a \in HitsIn(i, last, n, z) : LastHit(st, a, last, n, z)
      BY DEF Begun, Standing, Outlasts
    <2>2. a \in 1..last
      BY <1>1, <2>1 DEF HitsIn
    <2>3. Cardinality(MissesIn(a, new, n, z)') = Cardinality(MissesIn(a, last, n, z)) + 1
      <3>1. MoreMisses(a, last, new, n, z)
        BY <2>2, HitsCount
      <3> QED
        BY <3>1 DEF MoreMisses
    <2>4. HitsIn(i, new, n, z)' = HitsIn(i, last, n, z)
      <3>1. SameHits(i, last, new, n, z)
        BY HitsCount
      <3> QED
        BY <3>1 DEF SameHits
    <2>5. st.streakOut = Cardinality(MissesIn(a, last, n, z)) /\ st.streakOut + 1 < Release
      BY <2>1 DEF LastHit, Outlasts
    <2> QED
      BY <2>1, <2>3, <2>4, <2>5 DEF FewMisses
  <1>4. i \in 1..new
    BY <1>1
  <1> QED
    BY <1>2, <1>3, <1>4, HeldNow

\* A presence not looked at, whose track was seen lately.
LEMMA RestHolds ==
  ASSUME SeenInOrder, NEW objs, NEW ts, Observed(objs, ts), NEW n, NEW z, n \notin DOMAIN objs,
         NEW last, NEW new, Ends(last, new), NEW v, NEW st,
         NEW i \in 1..last, Begun(st, i, last, v, n, z), LastSeenTold(st, last, n),
         ts - st.lastSeen <= Kept
  PROVE  Held(i, new, n, z)'
  <1>1. /\ last \in Nat /\ new \in Nat /\ new = last + 1 /\ \A m \in 1..last : seen'[m] = seen[m]
    BY NewIndex
  <1>2. SeenLately(i, ts, new, n)
    <2>1. PICK a \in Touched(1, last, n) : st.lastSeen = seen[a].ts /\ Touched(a + 1, last, n) = {}
      BY DEF LastSeenTold
    <2>2. a \in 1..last /\ n \in DOMAIN seen[a].objs
      BY <2>1 DEF Touched
    <2>3. i <= a
      <3>1. n \in DOMAIN seen[i].objs
        BY DEF Begun, IsHit
      <3>2. ASSUME a < i PROVE FALSE
        <4>1. i \in (a + 1)..last
          BY <1>1, <2>2, <3>2
        <4> QED
          BY <2>1, <3>1, <4>1 DEF Touched
      <3> QED
        BY <1>1, <2>2, <3>2
    <2>4. a \in Touched(i, last, n)
      BY <1>1, <2>2, <2>3 DEF Touched
    <2>5. TouchedGrow(i, last, new, objs, n)
      BY <1>1, NewTouch
    <2>6. a \in Touched(i, new, n)'
      BY <2>4, <2>5 DEF TouchedGrow
    <2>7. ts - seen'[a].ts <= Kept
      BY <1>1, <2>1, <2>2
    <2> QED
      BY <2>6, <2>7 DEF SeenLately
  <1>3. FewMisses(i, new, n, z)
    <2>1. Held(i, last, n, z)
      BY <1>1 DEF Begun, Unbroken
    <2>2. PICK a \in HitsIn(i, last, n, z) : Cardinality(MissesIn(a, last, n, z)) < Release
      BY <2>1 DEF Held
    <2>3. a \in 1..last
      BY <1>1, <2>2 DEF HitsIn
    <2>4. MissesIn(a, new, n, z)' = MissesIn(a, last, n, z)
      <3>1. SameMisses(a, last, new, n, z)
        BY <2>3, HitsCount
      <3> QED
        BY <3>1 DEF SameMisses
    <2>5. HitsIn(i, new, n, z)' = HitsIn(i, last, n, z)
      <3>1. SameHits(i, last, new, n, z)
        BY HitsCount
      <3> QED
        BY <3>1 DEF SameHits
    <2> QED
      BY <2>2, <2>4, <2>5 DEF FewMisses
  <1>4. i \in 1..new
    BY <1>1
  <1> QED
    BY <1>2, <1>3, <1>4, HeldNow

\* How a streak goes on without a hit.
Lasts(st, c, objs, n, z) ==
  /\ c.start = st.start /\ c.since = st.since /\ c.fired = st.fired /\ c.confirmed = st.confirmed
  /\ \/ MissBy(objs, n, z) /\ Outlasts(st) /\ c.streakOut = st.streakOut + 1
     \/ n \notin DOMAIN objs /\ c.streakOut = st.streakOut /\ c.streakIn = st.streakIn

\* The presence of such a streak is the one that began at i.
LEMMA GoesOnUnhit ==
  ASSUME SeenInOrder, NEW objs, NEW ts, Observed(objs, ts), NEW n, NEW z,
         NEW last, NEW new, Ends(last, new), NEW v, NEW st, NEW c, Lasts(st, c, objs, n, z),
         NEW i \in 1..last, Begun(st, i, last, v, n, z), Held(i, new, n, z)',
         \A e \in events : EventAt(e), events \subseteq events'
  PROVE  Begun(c, i, new, v, n, z)'
  <1>1. /\ last \in Nat /\ new \in Nat /\ new = last + 1 /\ \A m \in 1..last : seen'[m] = seen[m]
        /\ last = Len(seen) /\ new = Len(seen)'
    BY NewIndex
  <1>2. HistoryGoesOn
    BY ObservedGoesOn
  <1>3. /\ IsHit(i, n, z) /\ st.start = seen[i].ts /\ Unbroken(i, last, n, z) /\ last \notin rebuilds
        /\ st.confirmed => Standing(st, i, last, v, n, z)
        /\ ~st.confirmed => Building(st, i, last, n, z)
    BY DEF Begun
  <1>4. new \notin rebuilds'
    BY <1>1 DEF SeenInOrder, Observed
  <1>5. IsHit(i, n, z)'
    BY <1>1, <1>2, <1>3, PastStands
  <1>6. Unbroken(i, new, n, z)'
    BY <1>3, PresenceGoesOn
  <1>7. ~HitBy(objs, n, z)
    BY DEF Lasts, MissBy, HitBy
  <1>8. HitsIn(i, new, n, z)' = HitsIn(i, last, n, z)
    <2>1. SameHits(i, last, new, n, z)
      BY HitsCount DEF Lasts
    <2> QED
      BY <2>1 DEF SameHits
  <1>9. ASSUME c.confirmed PROVE Standing(c, i, new, v, n, z)'
    <2>1. /\ st.since = st.start /\ Established(i, last, n, z)
          /\ \E a \in HitsIn(i, last, n, z) : LastHit(st, a, last, n, z)
          /\ st.fired => \E e \in events : Match(e, v, n, z) /\ Told(e, i, last, n, z)
      BY <1>3, <1>9 DEF Lasts, Standing
    <2>2. PICK a \in HitsIn(i, last, n, z) : LastHit(st, a, last, n, z)
      BY <2>1
    <2>3. a \in 1..last
      BY <1>1, <2>2 DEF HitsIn
    <2>4. /\ HitsIn(a + 1, last, n, z) = {}
          /\ st.streakOut = Cardinality(MissesIn(a, last, n, z)) /\ st.streakOut < Release
          /\ ~st.fired => seen[a].ts - st.since < MinDwell
      BY <2>2 DEF LastHit
    <2>5. HitsIn(a + 1, new, n, z)' = {}
      <3>1. a + 1 \in 1..new
        BY <1>1, <2>3
      <3>2. HitsGrow(a + 1, last, new, objs, n, z)
        BY <3>1, NewHits
      <3> QED
        BY <1>7, <2>4, <3>2 DEF HitsGrow
    <2>6. c.streakOut = Cardinality(MissesIn(a, new, n, z)') /\ c.streakOut < Release
      <3>1. CASE MissBy(objs, n, z) /\ Outlasts(st) /\ c.streakOut = st.streakOut + 1
        <4>1. Cardinality(MissesIn(a, new, n, z)') = Cardinality(MissesIn(a, last, n, z)) + 1
          <5>1. MoreMisses(a, last, new, n, z)
            BY <2>3, <3>1, HitsCount
          <5> QED
            BY <5>1 DEF MoreMisses
        <4> QED
          BY <2>4, <3>1, <4>1 DEF Outlasts
      <3>2. CASE n \notin DOMAIN objs /\ c.streakOut = st.streakOut
        <4>1. MissesIn(a, new, n, z)' = MissesIn(a, last, n, z)
          <5>1. SameMisses(a, last, new, n, z)
            BY <2>3, <3>2, HitsCount
          <5> QED
            BY <5>1 DEF SameMisses
        <4> QED
          BY <2>4, <3>2, <4>1
      <3> QED
        BY <3>1, <3>2 DEF Lasts
    <2>7. ~c.fired => seen'[a].ts - c.since < MinDwell
      BY <1>1, <2>3, <2>4 DEF Lasts
    <2>8. Release' = Release
      BY DEF Release
    <2>9. LastHit(c, a, new, n, z)'
      BY <2>5, <2>6, <2>7, <2>8 DEF LastHit
    <2>10. a \in HitsIn(i, new, n, z)'
      BY <1>8, <2>2
    <2>11. ASSUME c.fired PROVE \E e \in events' : Match(e, v, n, z) /\ Told(e, i, new, n, z)'
      <3>1. PICK e \in events : Match(e, v, n, z) /\ Told(e, i, last, n, z)
        BY <2>1, <2>11 DEF Lasts
      <3>2. i \in 1..Len(seen) /\ last \in 1..Len(seen) /\ new \in 1..Len(seen)' /\ last <= new
        BY <1>1
      <3>3. EventAt(e)
        BY <3>1
      <3>4. Told(e, i, new, n, z)'
        BY <1>2, <3>1, <3>2, <3>3, PastTold
      <3> QED
        BY <3>1, <3>4
    <2>12. Established(i, new, n, z)'
      BY <1>1, <1>2, <2>1, StaysEstablished
    <2>13. c.since = c.start
      BY <2>1 DEF Lasts
    <2>14. Match(c, v, n, z)' <=> Match(c, v, n, z)
      BY DEF Match
    <2> QED
      BY <2>9, <2>10, <2>11, <2>12, <2>13 DEF Standing, Match
  <1>10. ASSUME ~c.confirmed PROVE Building(c, i, new, n, z)'
    <2>1. /\ st.streakIn = Cardinality(HitsIn(i, last, n, z)) /\ MissesIn(i, last, n, z) = {}
      BY <1>3, <1>10 DEF Lasts, Building
    <2>2. n \notin DOMAIN objs /\ c.streakIn = st.streakIn
      BY <1>10 DEF Lasts, Outlasts
    <2>3. MissesIn(i, new, n, z)' = MissesIn(i, last, n, z)
      <3>1. SameMisses(i, last, new, n, z)
        BY <2>2, HitsCount
      <3> QED
        BY <3>1 DEF SameMisses
    <2> QED
      BY <1>8, <2>1, <2>2, <2>3 DEF Building
  <1>11. c.start = seen'[i].ts
    BY <1>1, <1>3 DEF Lasts
  <1> QED
    BY <1>4, <1>5, <1>6, <1>9, <1>10, <1>11 DEF Begun

\* What is alive is held at its end.
LEMMA AliveIsHeld ==
  ASSUME NEW g, NEW new, new \in Nat, g \in 1..new, NEW n, NEW z, Alive(g, new, n, z)'
  PROVE  Held(g, new, n, z)'
  BY DEF Alive, Unbroken

\* A miss that releases a presence ends every one that began in it.
LEMMA MissEnds ==
  ASSUME SeenInOrder, NEW objs, NEW ts, Observed(objs, ts), NEW n, NEW z, MissBy(objs, n, z),
         NEW last, NEW new, Ends(last, new), NEW v, NEW st, StreakTold(st, last, v, n, z),
         ~Outlasts(st), NEW i \in 1..last, Begun(st, i, last, v, n, z), NEW g \in i..last
  PROVE  ~Alive(g, new, n, z)' /\ (st.confirmed => ~Held(g, new, n, z)')
  <1>1. /\ last \in Nat /\ new \in Nat /\ new = last + 1 /\ g \in 1..last /\ g \in 1..new
        /\ i \in Nat /\ i <= g
    BY NewIndex
  <1>2. HitsIn(g, new, n, z)' = HitsIn(g, last, n, z)
    <2>1. SameHits(g, last, new, n, z)
      BY <1>1, HitsCount
    <2> QED
      BY <2>1 DEF SameHits
  <1>3. ASSUME st.confirmed, Held(g, new, n, z)' PROVE FALSE
    <2>1. PICK a \in HitsIn(i, last, n, z) : LastHit(st, a, last, n, z)
      BY <1>3 DEF Begun, Standing
    <2>2. a \in 1..last
      BY <1>1, <2>1 DEF HitsIn
    <2>3. FewMisses(g, new, n, z)
      BY <1>1, <1>3, HeldNow
    <2>4. PICK b \in HitsIn(g, last, n, z) : Cardinality(MissesIn(b, new, n, z)') < Release
      BY <1>2, <2>3 DEF FewMisses
    <2>5. b \in 1..last /\ b <= last /\ IsHit(b, n, z)
      BY <1>1, <2>4 DEF HitsIn
    <2>6. b <= a
      <3>1. ASSUME a < b PROVE FALSE
        <4>1. b \in (a + 1)..last
          BY <1>1, <2>2, <2>5, <3>1
        <4> QED
          BY <2>1, <2>5, <4>1 DEF LastHit, HitsIn
      <3> QED
        BY <1>1, <2>2, <2>5, <3>1
    <2>7. Cardinality(MissesIn(b, new, n, z)') = Cardinality(MissesIn(b, last, n, z)) + 1
      <3>1. MoreMisses(b, last, new, n, z)
        BY <2>5, HitsCount
      <3> QED
        BY <3>1 DEF MoreMisses
    <2>8. Cardinality(MissesIn(a, last, n, z)) <= Cardinality(MissesIn(b, last, n, z))
      BY <1>1, <2>2, <2>5, <2>6, CountsGrow
    <2>9. st.streakOut + 1 >= Release /\ st.streakOut = Cardinality(MissesIn(a, last, n, z))
      <3>1. st.streakOut \in Nat /\ ~(st.streakOut + 1 < Release)
        BY <1>3 DEF Outlasts, StreakTold, StreakTyped
      <3> QED
        BY <2>1, <3>1, VisionNumbers DEF LastHit
    <2>10. /\ Cardinality(MissesIn(a, last, n, z)) \in Nat /\ Cardinality(MissesIn(b, last, n, z)) \in Nat
      BY <1>1, <2>2, <2>5, Counts
    <2> QED
      BY <2>4, <2>7, <2>8, <2>9, <2>10, VisionNumbers
  <1>4. ASSUME ~st.confirmed, Alive(g, new, n, z)' PROVE FALSE
    <2>1. st.streakIn = Cardinality(HitsIn(i, last, n, z)) /\ st.streakIn < MinObservations
      BY <1>4 DEF Begun, Building, StreakTold
    <2>2. new \in MissesIn(g, new, n, z)'
      <3>1. MissesGrow(g, last, new, objs, n, z)
        BY <1>1, NewMisses
      <3> QED
        BY <3>1 DEF MissesGrow
    <2>3. Cardinality(HitsIn(g, new, n, z)') >= MinObservations
      BY <1>4, <2>2 DEF Alive
    <2>4. Cardinality(HitsIn(g, last, n, z)) <= Cardinality(HitsIn(i, last, n, z))
      BY <1>1, CountsGrow
    <2>5. Cardinality(HitsIn(g, last, n, z)) \in Nat /\ Cardinality(HitsIn(i, last, n, z)) \in Nat
      BY <1>1, Counts
    <2> QED
      BY <1>2, <2>1, <2>3, <2>4, <2>5, VisionNumbers
  <1> QED
    BY <1>1, <1>3, <1>4, AliveIsHeld

\* A track unseen for longer than the window ends every presence of its own.
LEMMA DropEnds ==
  ASSUME SeenInOrder, NEW objs, NEW ts, Observed(objs, ts), NEW n, NEW z, n \notin DOMAIN objs,
         NEW last, NEW new, Ends(last, new), NEW st, StreakTyped(st), LastSeenTold(st, last, n),
         ~(ts - st.lastSeen <= Kept), NEW g \in 1..last
  PROVE  ~Held(g, new, n, z)'
  <1>1. /\ last \in Nat /\ new \in Nat /\ new = last + 1 /\ \A m \in 1..last : seen'[m] = seen[m]
        /\ last = Len(seen) /\ g \in 1..new
    BY NewIndex
  <1>2. SUFFICES ASSUME SeenLately(g, ts, new, n) PROVE FALSE
    BY <1>1, HeldNow
  <1>3. PICK a \in Touched(1, last, n) : st.lastSeen = seen[a].ts /\ Touched(a + 1, last, n) = {}
    BY DEF LastSeenTold
  <1>4. TouchedGrow(g, last, new, objs, n)
    BY <1>1, NewTouch
  <1>5. Touched(g, new, n)' = Touched(g, last, n)
    BY <1>4 DEF TouchedGrow
  <1>6. PICK b \in Touched(g, last, n) : ts - seen'[b].ts <= Kept
    BY <1>2, <1>5 DEF SeenLately
  <1>7. a \in 1..last /\ b \in 1..last /\ n \in DOMAIN seen[b].objs
    BY <1>1, <1>3, <1>6 DEF Touched
  <1>8. b <= a
    <2>1. ASSUME a < b PROVE FALSE
      <3>1. b \in (a + 1)..last
        BY <1>1, <1>7, <2>1
      <3> QED
        BY <1>3, <1>7, <3>1 DEF Touched
    <2> QED
      BY <1>1, <1>7, <2>1
  <1>9. seen[b].ts <= seen[a].ts /\ seen[a].ts \in Nat /\ seen[b].ts \in Nat
    BY <1>1, <1>7, <1>8, TimesGrow
  <1>10. ts \in Nat /\ seen'[b] = seen[b]
    BY <1>1, <1>7 DEF Observed
  <1> QED
    BY <1>3, <1>6, <1>9, <1>10, VisionNumbers

--------------------------------------------------------------------------------
(* The streak of a key after a frame. *)

\* A hit, a miss, a rest, a forgotten key and a key without a streak.
StreakSteps(k, st, c, objs, ts, n, z) ==
  \/ HitBy(objs, n, z) /\ c = Concluded(Hit(st, ts), ts) /\ k \in DOMAIN streak'
  \/ MissBy(objs, n, z) /\ k \in DOMAIN streak /\ c = Miss(st, ts) /\ k \in DOMAIN streak'
  \/ n \notin DOMAIN objs /\ k \in DOMAIN streak /\ c = st /\ ts - st.lastSeen <= Kept
  \/ /\ n \notin DOMAIN objs /\ k \in DOMAIN streak /\ c = NewStreak /\ ~(ts - st.lastSeen <= Kept)
     /\ k \notin DOMAIN streak'
  \/ ~HitBy(objs, n, z) /\ st = NewStreak /\ c = NewStreak /\ k \notin DOMAIN streak'

\* A frame does one of these to a key.
LEMMA StreakMoves ==
  ASSUME NEW k, NEW objs, NEW ts \in Nat, NEW n, NEW z, KeyProcessed(k, objs, ts, n, z),
         NEW st, st = Fresh(k), StreakTyped(st), NEW c, c = Fresh(k)'
  PROVE  StreakSteps(k, st, c, objs, ts, n, z)
  <1>1. /\ k \in DOMAIN streak' <=> /\ k \in DOMAIN streak \/ HitBy(objs, n, z)
                                    /\ ts - After(st, objs, ts, n, z).lastSeen <= Kept
        /\ k \in DOMAIN streak' => c = After(st, objs, ts, n, z)
        /\ k \notin DOMAIN streak' => c = NewStreak
    BY DEF KeyProcessed
  <1>2. ts - ts <= Kept
    BY VisionNumbers
  <1>3. k \notin DOMAIN streak => st = NewStreak
    BY DEF Fresh
  <1>4. CASE HitBy(objs, n, z)
    <2>1. After(st, objs, ts, n, z) = Concluded(Hit(st, ts), ts)
      BY <1>4 DEF After
    <2>2. StreakTyped(Hit(st, ts)) /\ Hit(st, ts).lastSeen = ts
      BY HitIs
    <2>3. Concluded(Hit(st, ts), ts).lastSeen = ts
      BY <2>2, ConcludedIs
    <2> QED
      BY <1>1, <1>2, <1>4, <2>1, <2>3 DEF StreakSteps
  <1>5. CASE MissBy(objs, n, z)
    <2>1. ~HitBy(objs, n, z)
      BY <1>5 DEF HitBy, MissBy
    <2>2. After(st, objs, ts, n, z) = Miss(st, ts)
      BY <1>5, <2>1 DEF After
    <2>3. Miss(st, ts).lastSeen = ts
      BY MissIs
    <2> QED
      BY <1>1, <1>2, <1>3, <1>5, <2>1, <2>2, <2>3 DEF StreakSteps
  <1>6. CASE n \notin DOMAIN objs
    <2>1. ~HitBy(objs, n, z) /\ ~MissBy(objs, n, z)
      BY <1>6 DEF HitBy, MissBy
    <2>2. After(st, objs, ts, n, z) = st
      BY <2>1 DEF After
    <2> QED
      BY <1>1, <1>3, <1>6, <2>1, <2>2 DEF StreakSteps
  <1> QED
    BY <1>4, <1>5, <1>6 DEF HitBy, MissBy

\* The new observation is the last of its track.
LEMMA SeenNow ==
  ASSUME SeenInOrder, NEW objs, NEW ts, Observed(objs, ts), NEW n, n \in DOMAIN objs,
         NEW last, NEW new, Ends(last, new), NEW c, c.lastSeen = ts
  PROVE  LastSeenTold(c, new, n)'
  <1>1. /\ last \in Nat /\ new \in Nat /\ new = last + 1 /\ seen'[new].ts = ts
    BY NewIndex
  <1>2. TouchedGrow(1, last, new, objs, n)
    BY <1>1, NewTouch
  <1>3. new \in Touched(1, new, n)'
    BY <1>2 DEF TouchedGrow
  <1>4. Touched(new + 1, new, n)' = {}
    BY <1>1 DEF Touched
  <1> QED
    BY <1>1, <1>3, <1>4 DEF LastSeenTold

\* Or an earlier one stays its last.
LEMMA SeenBefore ==
  ASSUME SeenInOrder, NEW objs, NEW ts, Observed(objs, ts), NEW n, n \notin DOMAIN objs,
         NEW last, NEW new, Ends(last, new), NEW st, LastSeenTold(st, last, n)
  PROVE  LastSeenTold(st, new, n)'
  <1>1. /\ last \in Nat /\ new \in Nat /\ new = last + 1 /\ \A m \in 1..last : seen'[m] = seen[m]
    BY NewIndex
  <1>2. PICK a \in Touched(1, last, n) : st.lastSeen = seen[a].ts /\ Touched(a + 1, last, n) = {}
    BY DEF LastSeenTold
  <1>3. a \in 1..last /\ a + 1 \in 1..new /\ 1 \in 1..new
    BY <1>1, <1>2 DEF Touched
  <1>4. TouchedGrow(1, last, new, objs, n)
    BY <1>3, NewTouch
  <1>5. TouchedGrow(a + 1, last, new, objs, n)
    BY <1>3, NewTouch
  <1>6. a \in Touched(1, new, n)' /\ Touched(a + 1, new, n)' = {}
    BY <1>2, <1>4, <1>5 DEF TouchedGrow
  <1> QED
    BY <1>1, <1>2, <1>3, <1>6 DEF LastSeenTold

\* What a hit leaves for the history: the presence's start and its conclusion.
HitFollows(st, c, ts) ==
  /\ Going(c)
  /\ Going(st) => c.start = st.start
  /\ ~Going(st) => c.start = ts
  /\ st.confirmed /\ st.fired => c.confirmed /\ c.fired
  /\ Due(Hit(st, ts), ts) => c.confirmed /\ c.fired

\* Every hit does so.
LEMMA HitFollowed ==
  ASSUME NEW st, StreakTyped(st), NEW ts \in Nat, NEW c, c = Concluded(Hit(st, ts), ts)
  PROVE  HitFollows(st, c, ts) /\ c.lastSeen = ts
  <1> DEFINE h == Hit(st, ts)
  <1>1. /\ StreakTyped(h) /\ h.fired = st.fired /\ h.lastSeen = ts /\ Going(h)
        /\ h.start = IF Going(st) THEN st.start ELSE ts
        /\ h.confirmed <=> (st.confirmed \/ st.streakIn + 1 >= MinObservations)
    BY HitIs
  <1> HIDE DEF h
  <1>2. /\ c.lastSeen = h.lastSeen /\ c.start = h.start /\ c.confirmed = h.confirmed
        /\ c.fired <=> (h.fired \/ Due(h, ts))
        /\ Going(c)
    BY <1>1, ConcludedIs DEF h
  <1>3. Due(h, ts) => h.confirmed
    BY DEF Due
  <1> QED
    BY <1>1, <1>2, <1>3 DEF HitFollows, h

\* After a hit the streak tells of its presence.
LEMMA HitKey ==
  ASSUME SeenInOrder, NEW objs, NEW ts, Observed(objs, ts), NEW n, NEW z \in ImageZones,
         HitBy(objs, n, z), NEW last, NEW new, Ends(last, new), OneVersionPerRule,
         NEW v \in RuleVersions, Processed(objs, ts), NEW k, k = Key(v, n, z), NEW st, st = Fresh(k),
         StreakTold(st, last, v, n, z), CooldownTold(k, last, v, n, z),
         \A e \in events : EventAt(e), NEW c, c = Concluded(Hit(st, ts), ts)
  PROVE  StreakTold(c, new, v, n, z)'
  <1>1. /\ last \in Nat /\ new \in Nat /\ new = last + 1 /\ last = Len(seen) /\ new = Len(seen)'
        /\ ts \in Nat
    BY NewIndex DEF Observed
  <1>2. StreakTyped(st) /\ (~st.confirmed => ~st.fired)
    BY DEF StreakTold
  <1>3. PICK i \in 1..new : /\ HitFrom(st, ts, i, new, n, z)
                            /\ st.fired => \E e \in events' : Match(e, v, n, z) /\ Told(e, i, new, n, z)'
    <2>1. CASE Going(st)
      <3>1. PICK i \in 1..last : Begun(st, i, last, v, n, z)
        BY <2>1 DEF StreakTold
      <3>2. HitFrom(st, ts, i, new, n, z)
        BY <2>1, <3>1, HitGoesOn
      <3>3. ASSUME st.fired PROVE \E e \in events' : Match(e, v, n, z) /\ Told(e, i, new, n, z)'
        <4>1. PICK e \in events : Match(e, v, n, z) /\ Told(e, i, last, n, z)
          BY <1>2, <3>1, <3>3 DEF Begun, Standing
        <4>2. i \in 1..Len(seen) /\ last \in 1..Len(seen) /\ new \in 1..Len(seen)' /\ last <= new
          BY <1>1, <3>1
        <4>3. EventAt(e) /\ e \in events'
          BY <4>1 DEF Processed
        <4>4. HistoryGoesOn
          BY ObservedGoesOn
        <4>5. Told(e, i, new, n, z)'
          BY <4>1, <4>2, <4>3, <4>4, PastTold
        <4> QED
          BY <4>1, <4>3, <4>5
      <3>4. i \in 1..new
        BY <1>1, <3>1
      <3> QED
        BY <3>2, <3>3, <3>4
    <2>2. CASE ~Going(st)
      <3>1. HitFrom(st, ts, new, new, n, z)
        BY <1>2, <2>2, HitBegins
      <3>2. ~st.fired
        BY <1>2, <2>2 DEF Going
      <3>3. new \in 1..new
        BY <1>1
      <3> QED
        BY <3>1, <3>2, <3>3
    <2> QED
      BY <2>1, <2>2
  <1>4. c.fired <=> (st.fired \/ Due(Hit(st, ts), ts))
    <2>1. StreakTyped(Hit(st, ts)) /\ Hit(st, ts).fired = st.fired
      BY <1>1, <1>2, HitIs
    <2> QED
      BY <2>1, ConcludedIs
  <1>5. c.fired => \E e \in events' : Match(e, v, n, z) /\ Told(e, i, new, n, z)'
    <2>1. CASE Due(Hit(st, ts), ts)
      BY <1>2, <1>3, <2>1, DueTold
    <2>2. CASE ~Due(Hit(st, ts), ts)
      BY <1>3, <1>4, <2>2
    <2> QED
      BY <2>1, <2>2
  <1> QED
    BY <1>2, <1>3, <1>5, HitBegun

\* Every presence that the observations still hold ended with the streak.
Ended(st, n, z, last, new) ==
  \A g \in 1..last : st.start <= seen[g].ts =>
    ~Alive(g, new, n, z)' /\ (st.confirmed => ~Held(g, new, n, z)')

\* Without a hit the presence goes on, there is still none, or it ended.
UnhitFollows(st, c, n, z, last, new) ==
  \/ Going(st) /\ Going(c) /\ c.start = st.start /\ c.confirmed = st.confirmed /\ c.fired = st.fired
  \/ ~Going(st) /\ ~Going(c)
  \/ Going(st) /\ ~Going(c) /\ Ended(st, n, z, last, new)

\* A streak without a presence tells nothing.
LEMMA IdleTold ==
  ASSUME NEW c, StreakTyped(c), ~Going(c), ~c.fired, NEW j, NEW v, NEW n, NEW z
  PROVE  StreakTold(c, j, v, n, z)'
  <1>1. StreakTyped(c)'
    BY DEF StreakTyped
  <1>2. c.streakIn < MinObservations
    BY VisionNumbers DEF Going, StreakTyped
  <1> QED
    BY <1>1, <1>2 DEF StreakTold, Going

\* After a miss the streak tells of its presence, ...
LEMMA MissKey ==
  ASSUME SeenInOrder, NEW objs, NEW ts, Observed(objs, ts), NEW n, NEW z, MissBy(objs, n, z),
         NEW last, NEW new, Ends(last, new), NEW v, NEW st, StreakTold(st, last, v, n, z),
         \A e \in events : EventAt(e), events \subseteq events', NEW c, c = Miss(st, ts)
  PROVE  /\ StreakTold(c, new, v, n, z)' /\ c.lastSeen = ts
         /\ UnhitFollows(st, c, n, z, last, new)
  <1>1. /\ last \in Nat /\ new \in Nat /\ new = last + 1 /\ last = Len(seen) /\ ts \in Nat
    BY NewIndex DEF Observed
  <1>2. StreakTyped(st) /\ (~st.confirmed => ~st.fired)
    BY DEF StreakTold
  <1>3. CASE Outlasts(st)
    <2>1. /\ StreakTyped(c) /\ c.lastSeen = ts /\ c.start = st.start /\ c.confirmed
          /\ c.since = st.since /\ c.fired = st.fired /\ c.streakOut = st.streakOut + 1 /\ Going(c)
      BY <1>1, <1>2, <1>3, MissIs
    <2>2. st.confirmed = TRUE /\ Going(st) /\ c.confirmed = TRUE
      BY <1>2, <1>3, <2>1 DEF Outlasts, Going, StreakTyped
    <2>3. PICK i \in 1..last : Begun(st, i, last, v, n, z)
      BY <2>2 DEF StreakTold
    <2>4. Held(i, new, n, z)'
      BY <1>3, <2>3, MissHolds
    <2>5. Lasts(st, c, objs, n, z)
      BY <1>3, <2>1, <2>2 DEF Lasts
    <2>6. Begun(c, i, new, v, n, z)'
      BY <2>3, <2>4, <2>5, GoesOnUnhit
    <2>7. i \in 1..new
      BY <1>1, <2>3
    <2>8. StreakTyped(c)'
      BY <2>1 DEF StreakTyped
    <2>9. StreakTold(c, new, v, n, z)'
      BY <2>2, <2>6, <2>7, <2>8 DEF StreakTold
    <2> QED
      BY <2>1, <2>2, <2>9 DEF UnhitFollows
  <1>4. CASE ~Outlasts(st)
    <2>1. StreakTyped(c) /\ c.lastSeen = ts /\ ~Going(c) /\ ~c.confirmed /\ ~c.fired
      BY <1>1, <1>2, <1>4, MissIs
    <2>2. StreakTold(c, new, v, n, z)'
      BY <2>1, IdleTold
    <2>3. ASSUME Going(st) PROVE Ended(st, n, z, last, new)
      <3>1. PICK i \in 1..last : Begun(st, i, last, v, n, z)
        BY <2>3 DEF StreakTold
      <3>2. ASSUME NEW g \in 1..last, st.start <= seen[g].ts PROVE g \in i..last
        <4>1. st.start = seen[i].ts
          BY <3>1 DEF Begun
        <4> QED
          BY <1>1, <3>1, <3>2, <4>1, TimesGrow
      <3>3. ASSUME NEW g \in 1..last, st.start <= seen[g].ts
            PROVE  ~Alive(g, new, n, z)' /\ (st.confirmed => ~Held(g, new, n, z)')
        <4>1. g \in i..last
          BY <3>2, <3>3
        <4> QED
          BY <1>4, <3>1, <4>1, MissEnds
      <3> QED
        BY <3>3 DEF Ended
    <2> QED
      BY <2>1, <2>2, <2>3 DEF UnhitFollows
  <1> QED
    BY <1>3, <1>4

\* ... as it does where the track is not in view ...
LEMMA RestKey ==
  ASSUME SeenInOrder, NEW objs, NEW ts, Observed(objs, ts), NEW n, NEW z, n \notin DOMAIN objs,
         NEW last, NEW new, Ends(last, new), NEW v, NEW st, StreakTold(st, last, v, n, z),
         LastSeenTold(st, last, n), ts - st.lastSeen <= Kept,
         \A e \in events : EventAt(e), events \subseteq events'
  PROVE  StreakTold(st, new, v, n, z)' /\ UnhitFollows(st, st, n, z, last, new)
  <1>1. last \in Nat /\ new \in Nat /\ new = last + 1
    BY NewIndex
  <1>2. StreakTyped(st)'
    BY DEF StreakTold, StreakTyped
  <1>3. ASSUME Going(st) PROVE \E i \in 1..new : Begun(st, i, new, v, n, z)'
    <2>1. PICK i \in 1..last : Begun(st, i, last, v, n, z)
      BY <1>3 DEF StreakTold
    <2>2. Held(i, new, n, z)'
      BY <2>1, RestHolds
    <2>3. Lasts(st, st, objs, n, z)
      BY DEF Lasts
    <2>4. Begun(st, i, new, v, n, z)'
      BY <2>1, <2>2, <2>3, GoesOnUnhit
    <2> QED
      BY <1>1, <2>1, <2>4
  <1>4. StreakTold(st, new, v, n, z)'
    BY <1>2, <1>3 DEF StreakTold
  <1> QED
    BY <1>4 DEF UnhitFollows

\* ... and after the key is forgotten.
LEMMA DropKey ==
  ASSUME SeenInOrder, NEW objs, NEW ts, Observed(objs, ts), NEW n, NEW z, n \notin DOMAIN objs,
         NEW last, NEW new, Ends(last, new), NEW st, StreakTyped(st),
         LastSeenTold(st, last, n), ~(ts - st.lastSeen <= Kept)
  PROVE  UnhitFollows(st, NewStreak, n, z, last, new)
  <1>1. last \in Nat /\ new \in Nat /\ new = last + 1
    BY NewIndex
  <1>2. ASSUME NEW g \in 1..last PROVE ~Held(g, new, n, z)'
    BY <1>2, DropEnds
  <1>3. ASSUME NEW g \in 1..last PROVE ~Alive(g, new, n, z)'
    <2>1. g \in 1..new
      BY <1>1
    <2> QED
      BY <1>1, <1>2, <2>1, AliveIsHeld
  <1>4. Ended(st, n, z, last, new)
    BY <1>2, <1>3 DEF Ended
  <1> QED
    BY <1>4, NewStreakIs DEF UnhitFollows

\* The streak after any frame.
Follows(st, c, objs, ts, n, z, last, new) ==
  \/ HitBy(objs, n, z) /\ HitFollows(st, c, ts)
  \/ ~HitBy(objs, n, z) /\ UnhitFollows(st, c, n, z, last, new)

\* Every frame leaves a streak that tells of its presence.
LEMMA StreakKept ==
  ASSUME SeenInOrder, NEW objs, NEW ts, Observed(objs, ts), NEW n, NEW z \in ImageZones,
         NEW last, NEW new, Ends(last, new), OneVersionPerRule, NEW v \in RuleVersions,
         Processed(objs, ts), NEW k, k = Key(v, n, z), \A e \in events : EventAt(e),
         NEW st, st = Fresh(k), KeyTold(st, k, last, v, n, z), NEW c, c = Fresh(k)'
  PROVE  /\ StreakTold(c, new, v, n, z)' /\ (k \in DOMAIN streak' => LastSeenTold(c, new, n)')
         /\ Follows(st, c, objs, ts, n, z, last, new)
  <1>1. ts \in Nat /\ events \subseteq events'
    BY DEF Observed, Processed
  <1>2. /\ StreakTold(st, last, v, n, z) /\ StreakTyped(st) /\ CooldownTold(k, last, v, n, z)
        /\ k \in DOMAIN streak => LastSeenTold(st, last, n)
    BY DEF KeyTold, StreakTold
  <1>3. KeyProcessed(k, objs, ts, n, z)
    BY FrameStreak
  <1>4. StreakSteps(k, st, c, objs, ts, n, z)
    BY <1>1, <1>2, <1>3, StreakMoves
  <1>5. CASE HitBy(objs, n, z) /\ c = Concluded(Hit(st, ts), ts)
    <2>1. HitFollows(st, c, ts) /\ c.lastSeen = ts
      BY <1>1, <1>2, <1>5, HitFollowed
    <2>2. StreakTold(c, new, v, n, z)'
      BY <1>2, <1>5, HitKey
    <2>3. n \in DOMAIN objs
      BY <1>5 DEF HitBy
    <2>4. LastSeenTold(c, new, n)'
      BY <2>1, <2>3, SeenNow
    <2> QED
      BY <1>5, <2>1, <2>2, <2>4 DEF Follows
  <1>6. CASE MissBy(objs, n, z) /\ k \in DOMAIN streak /\ c = Miss(st, ts)
    <2>1. ~HitBy(objs, n, z) /\ n \in DOMAIN objs
      BY <1>6 DEF HitBy, MissBy
    <2>2. StreakTold(c, new, v, n, z)' /\ c.lastSeen = ts /\ UnhitFollows(st, c, n, z, last, new)
      BY <1>1, <1>2, <1>6, MissKey
    <2>3. LastSeenTold(c, new, n)'
      BY <2>1, <2>2, SeenNow
    <2> QED
      BY <2>1, <2>2, <2>3 DEF Follows
  <1>7. CASE n \notin DOMAIN objs /\ k \in DOMAIN streak /\ c = st /\ ts - st.lastSeen <= Kept
    <2>1. ~HitBy(objs, n, z) /\ LastSeenTold(st, last, n)
      BY <1>2, <1>7 DEF HitBy
    <2>2. StreakTold(st, new, v, n, z)' /\ UnhitFollows(st, st, n, z, last, new)
      BY <1>1, <1>2, <1>7, <2>1, RestKey
    <2>3. LastSeenTold(st, new, n)'
      BY <1>7, <2>1, SeenBefore
    <2> QED
      BY <1>7, <2>1, <2>2, <2>3 DEF Follows
  <1>8. CASE /\ n \notin DOMAIN objs /\ k \in DOMAIN streak /\ c = NewStreak
             /\ ~(ts - st.lastSeen <= Kept) /\ k \notin DOMAIN streak'
    <2>1. ~HitBy(objs, n, z) /\ LastSeenTold(st, last, n)
      BY <1>2, <1>8 DEF HitBy
    <2>2. UnhitFollows(st, NewStreak, n, z, last, new)
      BY <1>2, <1>8, <2>1, DropKey
    <2>3. StreakTold(c, new, v, n, z)'
      BY <1>8, NewStreakIs, IdleTold
    <2> QED
      BY <1>8, <2>1, <2>2, <2>3 DEF Follows
  <1>9. CASE ~HitBy(objs, n, z) /\ st = NewStreak /\ c = NewStreak /\ k \notin DOMAIN streak'
    <2>1. UnhitFollows(st, c, n, z, last, new)
      BY <1>9, NewStreakIs DEF UnhitFollows
    <2>2. StreakTold(c, new, v, n, z)'
      BY <1>9, NewStreakIs, IdleTold
    <2> QED
      BY <1>9, <2>1, <2>2 DEF Follows
  <1> QED
    BY <1>4, <1>5, <1>6, <1>7, <1>8, <1>9 DEF StreakSteps

--------------------------------------------------------------------------------
\* The hits of the past, hidden where a goal is about the next state.
PastHits(i, j, n, z) == HitsIn(i, j, n, z)' = HitsIn(i, j, n, z)

\* They stand.
LEMMA PastHitsStand ==
  ASSUME HistoryGoesOn, NEW n, NEW z, NEW i \in 1..Len(seen), NEW j \in 1..Len(seen)
  PROVE  PastHits(i, j, n, z)
  <1>1. Len(seen) \in Nat
    BY SeenLen DEF HistoryGoesOn
  <1>2. i..j \subseteq 1..Len(seen)
    BY <1>1
  <1>3. \A m \in i..j : seen'[m] = seen[m]
    BY <1>2 DEF HistoryGoesOn
  <1>4. \A m \in i..j : IsHit(m, n, z)' <=> IsHit(m, n, z)
    BY <1>3 DEF IsHit
  <1> QED
    BY <1>4 DEF HitsIn, PastHits

\* A presence alive at the new observation was alive before.
LEMMA AliveBefore ==
  ASSUME SeenInOrder, NEW objs, NEW ts, Observed(objs, ts), NEW n, NEW z,
         NEW last, NEW new, Ends(last, new), NEW g \in 1..last, Alive(g, new, n, z)'
  PROVE  Alive(g, last, n, z)
  <1>1. /\ last \in Nat /\ new \in Nat /\ new = last + 1 /\ last = Len(seen) /\ g \in 1..new
    BY NewIndex
  <1>2. HistoryGoesOn
    BY ObservedGoesOn
  <1>3. IsHit(g, n, z)
    BY <1>1, <1>2, PastStands DEF Alive
  <1>4. Unbroken(g, last, n, z) /\ last \notin rebuilds
    BY PresenceGoesOn DEF Alive
  <1>5. ASSUME NEW x \in MissesIn(g, last, n, z)
        PROVE  Cardinality(HitsIn(g, x, n, z)) >= MinObservations
    <2>1. MissesGrow(g, last, new, objs, n, z)
      BY <1>1, NewMisses
    <2>2. x \in MissesIn(g, new, n, z)'
      BY <2>1 DEF MissesGrow
    <2>3. Cardinality(HitsIn(g, x, n, z)') >= MinObservations
      BY <2>2 DEF Alive
    <2>4. x \in 1..Len(seen) /\ g \in 1..Len(seen)
      BY <1>1 DEF MissesIn
    <2>5. PastHits(g, x, n, z)
      BY <1>2, <2>4, PastHitsStand
    <2> QED
      BY <2>3, <2>5 DEF PastHits
  <1> QED
    BY <1>3, <1>4, <1>5 DEF Alive

\* No streak starts after the observation it was last advanced by.
LEMMA StartsBefore ==
  ASSUME SeenInOrder, NEW objs, NEW ts, Observed(objs, ts), NEW n, NEW z, HitBy(objs, n, z),
         NEW last, NEW new, Ends(last, new), NEW v, NEW st, StreakTold(st, last, v, n, z),
         NEW c, HitFollows(st, c, ts)
  PROVE  c.start <= ts
  <1>1. last = Len(seen) /\ ts \in Nat
    BY NewIndex DEF Observed
  <1>2. CASE Going(st)
    <2>1. PICK i \in 1..last : Begun(st, i, last, v, n, z)
      BY <1>2 DEF StreakTold
    <2>2. seen[i].ts < ts /\ seen[i].ts \in Nat
      BY <1>1, <2>1 DEF Observed, SeenInOrder
    <2> QED
      BY <1>1, <1>2, <2>1, <2>2 DEF Begun, HitFollows
  <1>3. CASE ~Going(st)
    BY <1>1, <1>3 DEF HitFollows
  <1> QED
    BY <1>2, <1>3

\* The streak holds every presence that is alive, after a frame too.
LEMMA AliveKept ==
  ASSUME SeenInOrder, NEW objs, NEW ts, Observed(objs, ts), NEW n, NEW z,
         NEW last, NEW new, Ends(last, new), NEW v, NEW st, StreakTold(st, last, v, n, z),
         AliveHeld(st, last, n, z), NEW c, Follows(st, c, objs, ts, n, z, last, new)
  PROVE  AliveHeld(c, new, n, z)'
  <1>1. /\ last \in Nat /\ new \in Nat /\ new = last + 1 /\ seen'[new].ts = ts
        /\ \A m \in 1..last : seen'[m] = seen[m]
    BY NewIndex
  <1>2. ASSUME NEW g \in 1..new, Alive(g, new, n, z)' PROVE Going(c) /\ c.start <= seen'[g].ts
    <2>1. CASE g = new
      <3>1. IsHit(new, n, z)'
        BY <1>2, <2>1 DEF Alive
      <3>2. HitBy(objs, n, z)
        BY <3>1, NewSight
      <3>3. HitFollows(st, c, ts)
        BY <3>2 DEF Follows
      <3>4. c.start <= ts
        BY <3>2, <3>3, StartsBefore
      <3> QED
        BY <1>1, <2>1, <3>3, <3>4 DEF HitFollows
    <2>2. CASE g # new
      <3>1. g \in 1..last
        BY <1>1, <2>2
      <3>2. Alive(g, last, n, z)
        BY <1>2, <3>1, AliveBefore
      <3>3. Going(st) /\ st.start <= seen[g].ts
        BY <3>1, <3>2 DEF AliveHeld
      <3>4. ~Ended(st, n, z, last, new)
        BY <1>2, <3>1, <3>3 DEF Ended
      <3>5. Going(c) /\ c.start = st.start
        BY <3>3, <3>4 DEF Follows, HitFollows, UnhitFollows
      <3> QED
        BY <1>1, <3>1, <3>3, <3>5
    <2> QED
      BY <2>1, <2>2
  <1>3. Going(c)' <=> Going(c)
    BY DEF Going
  <1> QED
    BY <1>2, <1>3 DEF AliveHeld, Going

\* The last event is one of this engine, after a frame too.
LEMMA CooldownKept ==
  ASSUME SeenInOrder, NEW objs, NEW ts, Observed(objs, ts), NEW n, NEW z \in ImageZones,
         NEW last, NEW new, Ends(last, new), OneVersionPerRule, NEW v \in RuleVersions,
         Processed(objs, ts), NEW k, k = Key(v, n, z), \A e \in events : EventAt(e),
         CooldownTold(k, last, v, n, z)
  PROVE  CooldownTold(k, new, v, n, z)'
  <1>1. /\ last \in Nat /\ new \in Nat /\ new = last + 1 /\ last = Len(seen) /\ new = Len(seen)'
        /\ seen'[new].ts = ts
    BY NewIndex
  <1>2. HistoryGoesOn /\ SeenInOrder'
    BY ObservedGoesOn DEF HistoryGoesOn
  <1>3. new \notin rebuilds' /\ rebuilds' = rebuilds
    BY <1>1 DEF SeenInOrder, Observed
  <1>4. KeyCools(k, objs, ts, n, z)
    BY FrameCools
  <1>5. SUFFICES ASSUME k \in DOMAIN lastFired'
                 PROVE  \E e \in events' : /\ Match(e, v, n, z) /\ e.ts = lastFired'[k]
                                           /\ rebuilds' \cap (IndexOf(e.ts)'..new) = {}
    BY DEF CooldownTold, Match
  <1>6. CASE Fires(k, objs, ts, n, z)
    <2>1. PICK e : e = EventNow(v, n, z, ts)
      OBVIOUS
    <2>2. e \in events'
      BY <1>6, <2>1, FiredStands
    <2>3. e.ts = ts /\ Match(e, v, n, z)
      BY <2>1 DEF EventNow, Match
    <2>4. lastFired'[k] = ts
      BY <1>4, <1>5, <1>6 DEF KeyCools
    <2>5. IndexOf(e.ts)' = new
      <3>1. new \in 1..Len(seen)'
        BY <1>1
      <3> QED
        BY <1>1, <1>2, <2>3, <3>1, IndexIsNext
    <2>6. new..new = {new}
      BY <1>1
    <2>7. rebuilds' \cap (IndexOf(e.ts)'..new) = {}
      BY <1>3, <2>5, <2>6
    <2> QED
      BY <2>2, <2>3, <2>4, <2>7
  <1>7. CASE ~Fires(k, objs, ts, n, z)
    <2>1. k \in DOMAIN lastFired /\ lastFired'[k] = lastFired[k]
      BY <1>4, <1>5, <1>7 DEF KeyCools
    <2>2. PICK e \in events : /\ Match(e, v, n, z) /\ e.ts = lastFired[k]
                              /\ rebuilds \cap (IndexOf(e.ts)..last) = {}
      BY <2>1 DEF CooldownTold
    <2>3. PICK t \in 1..last : e.ts = seen[t].ts
      BY <1>1, <2>2 DEF EventAt
    <2>4. IndexOf(e.ts) = t /\ IndexOf(e.ts)' = t
      BY <1>1, <1>2, <2>3, PastIndex
    <2>5. t..new = (t..last) \cup {new}
      BY <1>1, <2>3
    <2>6. rebuilds' \cap (IndexOf(e.ts)'..new) = {}
      BY <1>3, <2>2, <2>4, <2>5
    <2>7. e \in events'
      BY <2>2 DEF Processed
    <2> QED
      BY <2>1, <2>2, <2>6, <2>7
  <1> QED
    BY <1>6, <1>7

\* A presence is unbroken up to any of its observations.
LEMMA UnbrokenBefore ==
  ASSUME NEW new, new \in Nat, NEW t, t \in Nat, NEW x, x \in Nat, x <= new, NEW n, NEW z,
         Unbroken(t, new, n, z)'
  PROVE  Unbroken(t, x, n, z)'
  <1>1. t..x \subseteq t..new /\ t..(x - 1) \subseteq t..(new - 1)
    OBVIOUS
  <1>2. rebuilds' \cap (t..(new - 1)) = {} /\ \A m \in t..new : Held(t, m, n, z)'
    BY DEF Unbroken
  <1>3. rebuilds' \cap (t..(x - 1)) = {}
    BY <1>1, <1>2
  <1>4. \A m \in t..x : Held(t, m, n, z)'
    BY <1>1, <1>2
  <1> QED
    BY <1>3, <1>4 DEF Unbroken

\* Where the streak's presence begins, or the end where it has none.
Onset(st, j) == IF Going(st) THEN IndexOf(st.start) ELSE j

\* A frame leaves the beginning of the streak's presence or moves it to the end.
LEMMA OnsetMoves ==
  ASSUME SeenInOrder, NEW objs, NEW ts, Observed(objs, ts), NEW n, NEW z,
         NEW last, NEW new, Ends(last, new), NEW v, NEW st, StreakTold(st, last, v, n, z),
         NEW c, Follows(st, c, objs, ts, n, z, last, new), last >= 1,
         NEW x, x = Onset(st, last), NEW y, y = Onset(c, new)'
  PROVE  x \in 1..last /\ (y = x \/ y = new)
  <1>1. /\ last \in Nat /\ new \in Nat /\ new = last + 1 /\ last = Len(seen) /\ new = Len(seen)'
        /\ seen'[new].ts = ts
    BY NewIndex
  <1>2. HistoryGoesOn /\ SeenInOrder'
    BY ObservedGoesOn DEF HistoryGoesOn
  <1>3. Going(c)' <=> Going(c)
    BY DEF Going
  <1>4. y = IF Going(c) THEN IndexOf(c.start)' ELSE new
    BY <1>3 DEF Onset, Going
  <1>5. CASE Going(st)
    <2>1. PICK i \in 1..last : Begun(st, i, last, v, n, z)
      BY <1>5 DEF StreakTold
    <2>2. st.start = seen[i].ts
      BY <2>1 DEF Begun
    <2>3. IndexOf(st.start) = i /\ IndexOf(st.start)' = i
      BY <1>1, <1>2, <2>1, <2>2, PastIndex
    <2>4. x = i
      BY <1>5, <2>3 DEF Onset
    <2>5. Going(c) => c.start = st.start
      BY <1>5 DEF Follows, HitFollows, UnhitFollows
    <2> QED
      BY <1>4, <2>1, <2>3, <2>4, <2>5
  <1>6. CASE ~Going(st)
    <2>1. x = last
      BY <1>6 DEF Onset
    <2>2. Going(c) => c.start = ts
      BY <1>6 DEF Follows, HitFollows, UnhitFollows
    <2>3. IndexOf(ts)' = new
      <3>1. new \in 1..Len(seen)'
        BY <1>1
      <3> QED
        BY <1>1, <1>2, <3>1, IndexIsNext
    <2> QED
      BY <1>1, <1>4, <2>1, <2>2, <2>3
  <1> QED
    BY <1>5, <1>6

\* What ended between an event and the streak's presence stays ended.
LEMMA BrokenKept ==
  ASSUME SeenInOrder, NEW objs, NEW ts, Observed(objs, ts), NEW n, NEW z,
         NEW last, NEW new, Ends(last, new), NEW t \in 1..last, NEW x \in 1..last,
         ~Unbroken(t, x, n, z), NEW y, y = x \/ y = new
  PROVE  ~Unbroken(t, y, n, z)'
  <1>1. /\ last \in Nat /\ new \in Nat /\ new = last + 1 /\ last = Len(seen)
    BY NewIndex
  <1>2. HistoryGoesOn
    BY ObservedGoesOn
  <1>3. ~Unbroken(t, x, n, z)'
    BY <1>1, <1>2, PastStands
  <1>4. x \in Nat /\ t \in Nat /\ x <= new
    BY <1>1
  <1> QED
    BY <1>1, <1>3, <1>4, UnbrokenBefore

\* An event's presence stays concluded or over.
LEMMA AnsweredOn ==
  ASSUME SeenInOrder, NEW objs, NEW ts, Observed(objs, ts), NEW n, NEW z,
         NEW last, NEW new, Ends(last, new), NEW v, NEW st, StreakTold(st, last, v, n, z),
         NEW c, Follows(st, c, objs, ts, n, z, last, new),
         NEW d, NEW t \in 1..last, d.ts = seen[t].ts, Answered(d, st, last, n, z)
  PROVE  Answered(d, c, new, n, z)'
  <1>1. /\ last \in Nat /\ new \in Nat /\ new = last + 1 /\ last = Len(seen)
    BY NewIndex
  <1>2. HistoryGoesOn
    BY ObservedGoesOn
  <1>3. IndexOf(d.ts) = t /\ IndexOf(d.ts)' = t
    BY <1>1, <1>2, PastIndex
  <1>4. Going(c)' <=> Going(c)
    BY DEF Going
  <1>5. PICK x : x = Onset(st, last)
    OBVIOUS
  <1>6. PICK y : y = Onset(c, new)'
    OBVIOUS
  <1>7. last >= 1
    BY <1>1
  <1>8. x \in 1..last /\ (y = x \/ y = new)
    BY <1>5, <1>6, <1>7, OnsetMoves
  <1>9. Answered(d, c, new, n, z)' <=>
          \/ c.confirmed /\ c.fired /\ c.start <= d.ts
          \/ ~Unbroken(t, y, n, z)'
    BY <1>3, <1>6 DEF Answered, Onset
  <1>10. Answered(d, st, last, n, z) <=>
          \/ st.confirmed /\ st.fired /\ st.start <= d.ts
          \/ ~Unbroken(t, x, n, z)
    BY <1>3, <1>5 DEF Answered, Onset
  <1>11. CASE ~Unbroken(t, x, n, z)
    <2>1. ~Unbroken(t, y, n, z)'
      BY <1>8, <1>11, BrokenKept
    <2> QED
      BY <1>9, <2>1
  <1>12. CASE st.confirmed /\ st.fired /\ st.start <= d.ts
    <2>1. Going(st)
      BY <1>12 DEF Going
    <2>2. CASE Ended(st, n, z, last, new) /\ ~Going(c)
      <3>1. ~Held(t, new, n, z)'
        BY <1>12, <2>2 DEF Ended
      <3>2. y = new
        BY <1>4, <1>6, <2>2 DEF Onset, Going
      <3>3. ~Unbroken(t, new, n, z)'
        BY <1>1, <3>1 DEF Unbroken
      <3> QED
        BY <1>9, <3>2, <3>3
    <2>3. CASE ~(Ended(st, n, z, last, new) /\ ~Going(c))
      <3>1. c.confirmed /\ c.fired /\ c.start = st.start
        BY <1>12, <2>1, <2>3 DEF Follows, HitFollows, UnhitFollows
      <3> QED
        BY <1>9, <1>12, <3>1
    <2> QED
      BY <2>2, <2>3
  <1> QED
    BY <1>10, <1>11, <1>12

\* What is known of the event a frame fires.
LEMMA NewEvent ==
  ASSUME OneVersionPerRule, NEW objs, NEW ts, Processed(objs, ts), NEW v, NEW n, NEW z,
         NEW k, k = Key(v, n, z), NEW st, st = Fresh(k), NEW d \in events', d \notin events, Match(d, v, n, z)
  PROVE  /\ v \in RuleVersions /\ z \in ImageZones
         /\ HitBy(objs, n, z) /\ Due(Hit(st, ts), ts) /\ ~Suppressed(lastFired, k, ts)
         /\ Fires(k, objs, ts, n, z) /\ d.ts = ts /\ d.since = Hit(st, ts).since
         /\ d = EventNow(v, n, z, ts)
  <1>1. FiredEvent(d, objs, ts)
    BY FrameFires
  <1>2. d.version = v /\ d.track = n /\ d.zone = z
    BY DEF Match
  <1>3. /\ v \in RuleVersions /\ z \in ImageZones /\ Fires(k, objs, ts, n, z)
        /\ d = EventNow(v, n, z, ts)
    BY <1>1, <1>2 DEF FiredEvent
  <1>4. d.ts = ts /\ d.since = Hit(st, ts).since
    BY <1>3 DEF EventNow
  <1> QED
    BY <1>3, <1>4 DEF Fires

\* All events are answered, after a frame too.
LEMMA AllAnsweredKept ==
  ASSUME SeenInOrder, NEW objs, NEW ts, Observed(objs, ts), NEW n, NEW z \in ImageZones,
         NEW last, NEW new, Ends(last, new), OneVersionPerRule, NEW v \in RuleVersions,
         Processed(objs, ts), NEW k, k = Key(v, n, z), \A e \in events : EventAt(e),
         NEW st, st = Fresh(k), KeyTold(st, k, last, v, n, z), NEW c,
         Follows(st, c, objs, ts, n, z, last, new)
  PROVE  AllAnswered(k, c, new, v, n, z)'
  <1>1. /\ last \in Nat /\ new \in Nat /\ new = last + 1 /\ last = Len(seen) /\ new = Len(seen)'
        /\ seen'[new].ts = ts /\ ts \in Nat
    BY NewIndex DEF Observed
  <1>2. HistoryGoesOn
    BY ObservedGoesOn
  <1>3. KeyCools(k, objs, ts, n, z)
    BY FrameCools
  <1>4. StreakTold(st, last, v, n, z) /\ AllAnswered(k, st, last, v, n, z)
    BY DEF KeyTold
  <1>5. SUFFICES ASSUME NEW d \in events', Match(d, v, n, z),
                        rebuilds' \cap (IndexOf(d.ts)'..new) = {}
                 PROVE  /\ k \in DOMAIN lastFired' /\ d.ts <= lastFired'[k]
                        /\ Answered(d, c, new, n, z)'
    BY DEF AllAnswered, Match
  <1>6. CASE d \notin events
    <2>1. /\ HitBy(objs, n, z) /\ Due(Hit(st, ts), ts) /\ Fires(k, objs, ts, n, z) /\ d.ts = ts
      BY <1>5, <1>6, NewEvent
    <2>2. k \in DOMAIN lastFired' /\ lastFired'[k] = ts
      BY <1>3, <2>1 DEF KeyCools
    <2>3. HitFollows(st, c, ts)
      BY <2>1 DEF Follows
    <2>4. c.start <= ts
      BY <1>4, <2>1, <2>3, StartsBefore
    <2>5. c.confirmed /\ c.fired
      BY <2>1, <2>3 DEF HitFollows
    <2>6. Answered(d, c, new, n, z)'
      BY <2>1, <2>4, <2>5 DEF Answered
    <2> QED
      BY <1>1, <2>1, <2>2, <2>6
  <1>7. CASE d \in events
    <2>1. PICK t \in 1..last : d.ts = seen[t].ts
      BY <1>1, <1>7 DEF EventAt
    <2>2. IndexOf(d.ts) = t /\ IndexOf(d.ts)' = t
      BY <1>1, <1>2, <2>1, PastIndex
    <2>3. rebuilds \cap (IndexOf(d.ts)..last) = {}
      <3>1. t..last \subseteq t..new /\ rebuilds' = rebuilds
        BY <1>1, <2>1 DEF Observed
      <3> QED
        BY <1>5, <2>2, <3>1
    <2>4. k \in DOMAIN lastFired /\ d.ts <= lastFired[k] /\ Answered(d, st, last, n, z)
      BY <1>4, <1>5, <1>7, <2>3 DEF AllAnswered
    <2>5. Answered(d, c, new, n, z)'
      BY <1>4, <2>1, <2>4, AnsweredOn
    <2>6. seen[t].ts < ts /\ seen[t].ts \in Nat
      BY <1>1, <2>1 DEF Observed, SeenInOrder
    <2>7. k \in DOMAIN lastFired' /\ d.ts <= lastFired'[k]
      BY <1>1, <1>3, <2>1, <2>4, <2>6 DEF KeyCools
    <2> QED
      BY <2>5, <2>7
  <1> QED
    BY <1>6, <1>7

\* What the engine's state says of a key holds after a frame.
LEMMA KeyKept ==
  ASSUME SeenInOrder, NEW objs, NEW ts, Observed(objs, ts), NEW n, NEW z \in ImageZones,
         NEW last, NEW new, Ends(last, new), OneVersionPerRule, NEW v \in RuleVersions,
         Processed(objs, ts), NEW k, k = Key(v, n, z), \A e \in events : EventAt(e),
         NEW st, st = Fresh(k), KeyTold(st, k, last, v, n, z), NEW c, c = Fresh(k)'
  PROVE  KeyTold(c, k, new, v, n, z)'
  <1>1. /\ StreakTold(c, new, v, n, z)' /\ (k \in DOMAIN streak' => LastSeenTold(c, new, n)')
        /\ Follows(st, c, objs, ts, n, z, last, new)
    BY StreakKept
  <1>2. /\ StreakTold(st, last, v, n, z) /\ AliveHeld(st, last, n, z) /\ CooldownTold(k, last, v, n, z)
    BY DEF KeyTold
  <1>3. AliveHeld(c, new, n, z)'
    BY <1>1, <1>2, AliveKept
  <1>4. CooldownTold(k, new, v, n, z)'
    BY <1>2, CooldownKept
  <1>5. AllAnswered(k, c, new, v, n, z)'
    BY <1>1, AllAnsweredKept
  <1> QED
    BY <1>1, <1>3, <1>4, <1>5 DEF KeyTold

\* What the engine's state says of a key now.
KeyInvAt(v, n, z) ==
  \A st, k, j : (st = Fresh(k) /\ k = Key(v, n, z) /\ j = Len(seen)) => KeyTold(st, k, j, v, n, z)

\* It holds after a frame.
LEMMA FrameKeepsKeys ==
  ASSUME SeenInOrder, NEW objs, NEW ts, Observed(objs, ts), NEW n, NEW z \in ImageZones,
         OneVersionPerRule, NEW v \in RuleVersions, Processed(objs, ts),
         \A e \in events : EventAt(e), KeyInvAt(v, n, z)
  PROVE  KeyInvAt(v, n, z)'
  <1>1. SUFFICES ASSUME NEW c, NEW k, NEW new, c = Fresh(k)', k = Key(v, n, z), new = Len(seen)'
                 PROVE  KeyTold(c, k, new, v, n, z)'
    BY DEF KeyInvAt, Key
  <1>2. PICK last : last = Len(seen)
    OBVIOUS
  <1>3. Ends(last, new)
    BY <1>1, <1>2, ObservedGoesOn DEF Ends
  <1>4. PICK st : st = Fresh(k)
    OBVIOUS
  <1>5. KeyTold(st, k, last, v, n, z)
    BY <1>1, <1>2, <1>4 DEF KeyInvAt
  <1> QED
    BY <1>1, <1>3, <1>4, <1>5, KeyKept

\* The presence that a hit belongs to began at some observation.
LEMMA HitPoint ==
  ASSUME SeenInOrder, NEW objs, NEW ts, Observed(objs, ts), NEW n, NEW z, HitBy(objs, n, z),
         NEW last, NEW new, Ends(last, new), NEW v, NEW st, StreakTold(st, last, v, n, z)
  PROVE  \E i \in 1..new : HitFrom(st, ts, i, new, n, z)
  <1>1. last \in Nat /\ new \in Nat /\ new = last + 1
    BY NewIndex
  <1>2. CASE Going(st)
    <2>1. PICK i \in 1..last : Begun(st, i, last, v, n, z)
      BY <1>2 DEF StreakTold
    <2>2. HitFrom(st, ts, i, new, n, z)
      BY <1>2, <2>1, HitGoesOn
    <2> QED
      BY <1>1, <2>1, <2>2
  <1>3. CASE ~Going(st)
    <2>1. HitFrom(st, ts, new, new, n, z)
      BY <1>3, HitBegins DEF StreakTold
    <2> QED
      BY <1>1, <2>1
  <1> QED
    BY <1>2, <1>3

\* An event goes on telling of its presence.
LEMMA EventKept ==
  ASSUME HistoryGoesOn, NEW e, EventTold(e)
  PROVE  EventTold(e)'
  <1>1. PICK i \in 1..Len(seen), j \in 1..Len(seen) :
          i <= j /\ e.since = seen[i].ts /\ e.ts = seen[j].ts /\ Concludes(i, j, e.track, e.zone)
    BY DEF EventTold
  <1>2. PICK n, z : n = e.track /\ z = e.zone
    OBVIOUS
  <1>3. Concludes(i, j, n, z)'
    BY <1>1, <1>2, PastStands
  <1>4. i \in 1..Len(seen)' /\ j \in 1..Len(seen)' /\ seen'[i] = seen[i] /\ seen'[j] = seen[j]
    BY PastIndex
  <1> QED
    BY <1>1, <1>2, <1>3, <1>4 DEF EventTold

\* The event of a frame, and where its presence begins.
LEMMA EventMade ==
  ASSUME SeenInOrder, NEW objs, NEW ts, Observed(objs, ts), NEW n, NEW z,
         NEW last, NEW new, Ends(last, new), OneVersionPerRule, NEW v,
         Processed(objs, ts), NEW k, k = Key(v, n, z), NEW st, st = Fresh(k),
         StreakTold(st, last, v, n, z), NEW e \in events', e \notin events, Match(e, v, n, z)
  PROVE  \E i \in 1..new :
           /\ e.since = seen'[i].ts /\ Concludes(i, new, n, z)'
           /\ \A x \in 1..last : (x = Onset(st, last) /\ last >= 1) => (i = x \/ i = new)
  <1>1. /\ last \in Nat /\ new \in Nat /\ new = last + 1 /\ last = Len(seen) /\ new = Len(seen)'
        /\ seen'[new].ts = ts /\ ts \in Nat
    BY NewIndex DEF Observed
  <1>2. HistoryGoesOn /\ SeenInOrder'
    BY ObservedGoesOn DEF HistoryGoesOn
  <1>3. HitBy(objs, n, z) /\ Due(Hit(st, ts), ts) /\ e.since = Hit(st, ts).since
    BY NewEvent
  <1>4. PICK i \in 1..new : HitFrom(st, ts, i, new, n, z)
    BY <1>3, HitPoint
  <1>5. StreakTyped(st)
    BY DEF StreakTold
  <1>6. Concludes(i, new, n, z)' /\ e.since = seen'[i].ts
    BY <1>3, <1>4, <1>5, HitConcludes
  <1>7. ASSUME NEW x \in 1..last, x = Onset(st, last), last >= 1 PROVE i = x \/ i = new
    <2>1. PICK c : c = Concluded(Hit(st, ts), ts)
      OBVIOUS
    <2>2. HitFollows(st, c, ts)
      BY <1>1, <1>5, <2>1, HitFollowed
    <2>3. Follows(st, c, objs, ts, n, z, last, new)
      BY <1>3, <2>2 DEF Follows
    <2>4. PICK y : y = Onset(c, new)'
      OBVIOUS
    <2>5. y = x \/ y = new
      BY <1>7, <2>3, <2>4, OnsetMoves
    <2>6. c.start = seen'[i].ts
      <3>1. StreakTyped(Hit(st, ts))
        BY <1>1, <1>5, HitIs
      <3>2. c.start = Hit(st, ts).start
        BY <2>1, <3>1, ConcludedIs
      <3> QED
        BY <1>4, <3>2 DEF HitFrom
    <2>7. IndexOf(c.start)' = i
      <3>1. i \in 1..Len(seen)'
        BY <1>1
      <3> QED
        BY <1>2, <2>6, <3>1, IndexIsNext
    <2>8. y = i
      BY <2>2, <2>4, <2>7 DEF Onset, HitFollows, Going
    <2> QED
      BY <2>5, <2>8
  <1> QED
    BY <1>6, <1>7

--------------------------------------------------------------------------------
(* No other event of the presence or of the cooldown before. *)

\* Two events of a key: a cooldown and the end of a presence, or a rebuild, lies between.
Apart(d, e, n, z) ==
  \/ e.ts - d.ts >= Cooldown /\ ~Unbroken(IndexOf(d.ts), IndexOf(e.since), n, z)
  \/ rebuilds \cap (IndexOf(d.ts)..(IndexOf(e.ts) - 1)) # {}

\* The presence of an event began at an observation.
SinceAt(e) == \E t \in 1..Len(seen) : e.since = seen[t].ts

\* They stay apart.
LEMMA ApartKept ==
  ASSUME HistoryGoesOn, NEW d, NEW e, EventAt(d), EventAt(e), SinceAt(e), NEW n, NEW z,
         Apart(d, e, n, z)
  PROVE  Apart(d, e, n, z)'
  <1>1. PICK t \in 1..Len(seen) : d.ts = seen[t].ts
    BY DEF EventAt
  <1>2. PICK j \in 1..Len(seen) : e.ts = seen[j].ts
    BY DEF EventAt
  <1>3. PICK i \in 1..Len(seen) : e.since = seen[i].ts
    BY DEF SinceAt
  <1>4. IndexOf(d.ts) = t /\ IndexOf(d.ts)' = t
    BY <1>1, PastIndex
  <1>5. IndexOf(e.ts) = j /\ IndexOf(e.ts)' = j
    BY <1>2, PastIndex
  <1>6. IndexOf(e.since) = i /\ IndexOf(e.since)' = i
    BY <1>3, PastIndex
  <1>7. Unbroken(t, i, n, z)' <=> Unbroken(t, i, n, z)
    BY PastStands
  <1>8. rebuilds' \cap (t..(j - 1)) = rebuilds \cap (t..(j - 1))
    <2>1. Len(seen) \in Nat
      BY SeenLen DEF HistoryGoesOn
    <2>2. t..(j - 1) \subseteq 1..(Len(seen) - 1)
      BY <2>1
    <2> QED
      BY <2>2 DEF HistoryGoesOn
  <1> QED
    BY <1>4, <1>5, <1>6, <1>7, <1>8 DEF Apart

\* A new event is apart from those before.
LEMMA NewApart ==
  ASSUME SeenInOrder, NEW objs, NEW ts, Observed(objs, ts), NEW n, NEW z \in ImageZones,
         NEW last, NEW new, Ends(last, new), OneVersionPerRule, NEW v \in RuleVersions,
         Processed(objs, ts), NEW k, k = Key(v, n, z), NEW st, st = Fresh(k),
         KeyTold(st, k, last, v, n, z), NEW e \in events', e \notin events, Match(e, v, n, z),
         NEW d \in events, Match(d, v, n, z), \A b \in events : EventAt(b)
  PROVE  Apart(d, e, n, z)'
  <1>1. /\ last \in Nat /\ new \in Nat /\ new = last + 1 /\ last = Len(seen) /\ new = Len(seen)'
        /\ seen'[new].ts = ts /\ ts \in Nat
    BY NewIndex DEF Observed
  <1>2. HistoryGoesOn /\ SeenInOrder'
    BY ObservedGoesOn DEF HistoryGoesOn
  <1>3. PICK t \in 1..last : d.ts = seen[t].ts
    BY <1>1 DEF EventAt
  <1>4. IndexOf(d.ts) = t /\ IndexOf(d.ts)' = t
    BY <1>1, <1>2, <1>3, PastIndex
  <1>5. /\ HitBy(objs, n, z) /\ Due(Hit(st, ts), ts) /\ ~Suppressed(lastFired, k, ts) /\ e.ts = ts
    BY NewEvent
  <1>6. IndexOf(e.ts)' = new
    <2>1. new \in 1..Len(seen)'
      BY <1>1
    <2> QED
      BY <1>1, <1>2, <1>5, <2>1, IndexIsNext
  <1>7. CASE rebuilds \cap (t..last) # {}
    <2>1. rebuilds' \cap (t..(new - 1)) # {}
      BY <1>1, <1>7 DEF Observed
    <2> QED
      BY <1>4, <1>6, <2>1 DEF Apart
  <1>8. CASE rebuilds \cap (t..last) = {}
    <2>1. k \in DOMAIN lastFired /\ d.ts <= lastFired[k] /\ Answered(d, st, last, n, z)
      BY <1>4, <1>8 DEF KeyTold, AllAnswered
    <2>2. ~(ts - lastFired[k] < Cooldown)
      BY <1>5, <2>1 DEF Suppressed
    <2>3. lastFired[k] \in Nat /\ d.ts \in Nat
      <3>1. PICK b \in events : b.ts = lastFired[k] /\ EventAt(b)
        <4>1. CooldownTold(k, last, v, n, z)
          BY DEF KeyTold
        <4> QED
          BY <2>1, <4>1 DEF CooldownTold
      <3> QED
        BY <1>1, <1>3, <3>1 DEF EventAt, SeenInOrder
    <2>4. e.ts - d.ts >= Cooldown
      BY <1>1, <1>5, <2>1, <2>2, <2>3, VisionNumbers
    <2>5. StreakTold(st, last, v, n, z) /\ StreakTyped(st)
      BY DEF KeyTold, StreakTold
    <2>6. ~(st.confirmed /\ st.fired)
      <3>1. Hit(st, ts).fired = st.fired
        BY <1>1, <2>5, HitIs
      <3> QED
        BY <1>5, <3>1 DEF Due
    <2>7. PICK x : x = Onset(st, last)
      OBVIOUS
    <2>8. ~Unbroken(t, x, n, z)
      BY <1>4, <2>1, <2>6, <2>7 DEF Answered, Onset
    <2>9. last >= 1
      BY <1>1
    <2>10. x \in 1..last
      <3>1. PICK c : c = Concluded(Hit(st, ts), ts)
        OBVIOUS
      <3>2. HitFollows(st, c, ts)
        BY <1>1, <2>5, <3>1, HitFollowed
      <3>3. Follows(st, c, objs, ts, n, z, last, new)
        BY <1>5, <3>2 DEF Follows
      <3>4. PICK y : y = Onset(c, new)'
        OBVIOUS
      <3> QED
        BY <2>5, <2>7, <2>9, <3>3, <3>4, OnsetMoves
    <2>11. PICK i \in 1..new :
             /\ e.since = seen'[i].ts
             /\ \A xx \in 1..last : (xx = Onset(st, last) /\ last >= 1) => (i = xx \/ i = new)
      BY <2>5, EventMade
    <2>12. i = x \/ i = new
      BY <2>7, <2>9, <2>10, <2>11
    <2>13. ~Unbroken(t, i, n, z)'
      BY <2>8, <2>10, <2>12, BrokenKept
    <2>14. IndexOf(e.since)' = i
      <3>1. i \in 1..Len(seen)'
        BY <1>1
      <3> QED
        BY <1>2, <2>11, <3>1, IndexIsNext
    <2> QED
      BY <1>4, <2>4, <2>13, <2>14 DEF Apart
  <1> QED
    BY <1>7, <1>8

\* Times grow with the index, after a step too.
LEMMA TimesGrowNext ==
  ASSUME SeenInOrder', NEW i \in 1..Len(seen)', NEW j \in 1..Len(seen)'
  PROVE  /\ seen'[i].ts \in Nat
         /\ i <= j <=> seen'[i].ts <= seen'[j].ts
  <1>1. Len(seen)' \in Nat
    BY DEF SeenInOrder
  <1>2. seen'[i].ts \in Nat /\ seen'[j].ts \in Nat
    BY DEF SeenInOrder
  <1>3. i < j => seen'[i].ts < seen'[j].ts
    BY DEF SeenInOrder
  <1>4. j < i => seen'[j].ts < seen'[i].ts
    BY DEF SeenInOrder
  <1>5. i \in Int /\ j \in Int
    BY <1>1
  <1> QED
    BY <1>2, <1>3, <1>4, <1>5

\* A stretch has no more hits than a longer one.
FewerHits(i, m, h, j, n, z) ==
  /\ Cardinality(HitsIn(i, m, n, z)) <= Cardinality(HitsIn(h, j, n, z))
  /\ Cardinality(HitsIn(i, m, n, z)) \in Nat /\ Cardinality(HitsIn(h, j, n, z)) \in Nat

\* So it is after a step.
LEMMA HitsGrowNext ==
  ASSUME NEW i \in Int, NEW m \in Int, NEW h \in Int, NEW j \in Int, h <= i, m <= j, NEW n, NEW z
  PROVE  FewerHits(i, m, h, j, n, z)'
  <1>1. i..m \subseteq h..j /\ IsFiniteSet(h..j) /\ IsFiniteSet(i..m)
    BY FS_Interval
  <1>2. HitsIn(i, m, n, z)' = {x \in i..m : IsHit(x, n, z)'} /\ HitsIn(h, j, n, z)' = {x \in h..j : IsHit(x, n, z)'}
    BY DEF HitsIn
  <1> DEFINE A == {x \in i..m : IsHit(x, n, z)'}
             B == {x \in h..j : IsHit(x, n, z)'}
  <1>3. A \in SUBSET B /\ B \in SUBSET (h..j)
    BY <1>1
  <1> HIDE DEF A, B
  <1>4. IsFiniteSet(B)
    BY <1>1, <1>3, FS_Subset
  <1>5. IsFiniteSet(A) /\ Cardinality(A) <= Cardinality(B)
    BY <1>3, <1>4, FS_Subset
  <1>6. Cardinality(A) \in Nat /\ Cardinality(B) \in Nat
    BY <1>4, <1>5, FS_CardinalityType
  <1> USE DEF A, B
  <1> QED
    BY <1>2, <1>5, <1>6 DEF FewerHits

\* A presence that has lasted long enough is answered for by an event.
Reported(i, j, v, n, z) ==
  \E e \in events, h \in 1..i :
    Match(e, v, n, z) /\ e.ts <= seen[j].ts /\ Unbroken(h, j, n, z) /\ Told(e, h, j, n, z)

\* What was answered for stays so.
LEMMA ReportedKept ==
  ASSUME HistoryGoesOn, events \subseteq events', \A e \in events : EventAt(e),
         NEW i \in 1..Len(seen), NEW j \in 1..Len(seen), i <= j,
         NEW v, NEW n, NEW z, Reported(i, j, v, n, z)
  PROVE  Reported(i, j, v, n, z)'
  <1>1. PICK e \in events, h \in 1..i :
          Match(e, v, n, z) /\ e.ts <= seen[j].ts /\ Unbroken(h, j, n, z) /\ Told(e, h, j, n, z)
    BY DEF Reported
  <1>2. Len(seen) \in Nat /\ h \in 1..Len(seen)
    BY <1>1, SeenLen DEF HistoryGoesOn
  <1>3. seen'[j] = seen[j] /\ j \in 1..Len(seen)' /\ j <= j
    BY <1>2, PastIndex
  <1>4. Unbroken(h, j, n, z)'
    BY <1>1, <1>2, PastStands
  <1>5. Told(e, h, j, n, z)'
    BY <1>1, <1>2, <1>3, PastTold
  <1>6. Match(e, v, n, z)' <=> Match(e, v, n, z)
    BY DEF Match
  <1> QED
    BY <1>1, <1>3, <1>4, <1>5, <1>6 DEF Reported

\* A presence that has lasted long enough at the newest observation is answered for.
LEMMA NowReported ==
  ASSUME SeenInOrder', NEW new, new = Len(seen)', NEW n, NEW z, NEW v, NEW c,
         new \notin rebuilds', StreakTold(c, new, v, n, z)', AliveHeld(c, new, n, z)',
         \A e \in events' : EventTold(e)', NEW i \in 1..new, Concludes(i, new, n, z)'
  PROVE  Reported(i, new, v, n, z)'
  <1>1. new \in Nat /\ i \in Nat /\ i <= new /\ new \in 1..new
    BY DEF SeenInOrder
  <1>2. /\ IsHit(i, n, z)' /\ IsHit(new, n, z)' /\ Unbroken(i, new, n, z)'
        /\ Established(i, new, n, z)' /\ seen'[new].ts - seen'[i].ts >= MinDwell
    BY DEF Concludes
  <1>3. PICK m \in i..new : /\ Cardinality(HitsIn(i, m, n, z)') = MinObservations
                            /\ MissesIn(i, m, n, z)' = {}
    BY <1>2 DEF Established
  <1>4. m \in Nat /\ m <= new
    BY <1>1, <1>3
  <1>5. ASSUME NEW x \in MissesIn(i, new, n, z)'
        PROVE  Cardinality(HitsIn(i, x, n, z)') >= MinObservations
    <2>1. x \in i..new /\ IsMiss(x, n, z)'
      BY DEF MissesIn
    <2>2. x \in Int /\ m <= x
      <3>1. ASSUME x < m PROVE FALSE
        <4>1. x \in i..m
          BY <1>1, <1>4, <2>1, <3>1
        <4>2. x \in MissesIn(i, m, n, z)'
          BY <2>1, <4>1 DEF MissesIn
        <4> QED
          BY <1>3, <4>2
      <3> QED
        BY <1>1, <1>4, <2>1, <3>1
    <2>3. FewerHits(i, m, i, x, n, z)'
      BY <1>1, <1>4, <2>2, HitsGrowNext
    <2> QED
      BY <1>3, <2>3, VisionNumbers DEF FewerHits
  <1>6. Alive(i, new, n, z)'
    BY <1>2, <1>5 DEF Alive
  <1>7. Going(c) /\ c.start <= seen'[i].ts
    BY <1>6 DEF AliveHeld, Going
  <1>8. PICK h \in 1..new : Begun(c, h, new, v, n, z)'
    BY <1>7 DEF StreakTold, Going
  <1>9. c.start = seen'[h].ts /\ Unbroken(h, new, n, z)'
    BY <1>8 DEF Begun
  <1>10. h \in Nat /\ h <= i
    <2>1. h <= i <=> seen'[h].ts <= seen'[i].ts
      BY <1>8, TimesGrowNext
    <2> QED
      BY <1>1, <1>7, <1>8, <1>9, <2>1
  <1>11. c.confirmed
    <2> SUFFICES ASSUME ~c.confirmed PROVE FALSE
      OBVIOUS
    <2>1. c.streakIn < MinObservations
      BY DEF StreakTold
    <2>2. c.streakIn = Cardinality(HitsIn(h, new, n, z)')
      BY <1>8 DEF Begun, Building
    <2>3. FewerHits(i, m, h, new, n, z)'
      BY <1>1, <1>4, <1>10, HitsGrowNext
    <2> QED
      BY <1>3, <2>1, <2>2, <2>3, VisionNumbers DEF FewerHits
  <1>12. /\ c.since = c.start
         /\ \E a \in HitsIn(h, new, n, z)' : LastHit(c, a, new, n, z)'
         /\ c.fired => \E e \in events' : Match(e, v, n, z) /\ Told(e, h, new, n, z)'
    BY <1>8, <1>11 DEF Begun, Standing, Match
  <1>13. c.fired
    <2> SUFFICES ASSUME ~c.fired PROVE FALSE
      OBVIOUS
    <2>1. PICK a \in HitsIn(h, new, n, z)' : LastHit(c, a, new, n, z)'
      BY <1>12
    <2>2. a \in 1..new
      BY <1>1, <1>10, <2>1 DEF HitsIn
    <2>3. a = new
      <3>1. ASSUME a < new PROVE FALSE
        <4>1. new \in (a + 1)..new
          BY <1>1, <2>2, <3>1
        <4>2. new \in HitsIn(a + 1, new, n, z)'
          BY <1>2, <4>1 DEF HitsIn
        <4> QED
          BY <2>1, <4>2 DEF LastHit
      <3> QED
        BY <1>1, <2>2, <3>1
    <2>4. seen'[new].ts - c.since < MinDwell
      BY <2>1, <2>3 DEF LastHit
    <2>5. seen'[new].ts \in Nat /\ seen'[i].ts \in Nat /\ seen'[h].ts \in Nat
      BY <1>1, <1>8, TimesGrowNext
    <2> QED
      BY <1>2, <1>7, <1>9, <1>12, <2>4, <2>5, VisionNumbers
  <1>14. PICK e \in events' : Match(e, v, n, z) /\ Told(e, h, new, n, z)'
    BY <1>12, <1>13
  <1>15. e.ts <= seen'[new].ts
    <2>1. EventTold(e)'
      BY <1>14
    <2>2. PICK j \in 1..Len(seen)' : e.ts = seen'[j].ts
      BY <2>1 DEF EventTold
    <2>3. j <= new <=> seen'[j].ts <= seen'[new].ts
      BY <1>1, <2>2, TimesGrowNext
    <2> QED
      BY <1>1, <2>2, <2>3
  <1>16. h \in 1..i
    BY <1>1, <1>8, <1>10
  <1> QED
    BY <1>9, <1>14, <1>15, <1>16 DEF Reported, Match

\* The parts of the invariant: the engine's state, the events, and the presences reported.
KeysTold == \A v \in RuleVersions, z \in ImageZones : \A n : KeyInvAt(v, n, z)
EventsTold == \A e \in events : EventTold(e)
EventsApart ==
  \A d, e \in events : (d # e /\ Match(d, e.version, e.track, e.zone) /\ d.ts <= e.ts) =>
                         Apart(d, e, e.track, e.zone)
AllReported ==
  \A v \in RuleVersions, z \in ImageZones : \A n : \A i, j \in 1..Len(seen) :
    (i <= j /\ Concludes(i, j, n, z)) => Reported(i, j, v, n, z)

\* The inductive invariant: where one version of each rule is active, the engine's state
\* and the events tell of the observations so far.
RulesInv ==
  /\ SeenInOrder
  /\ OneVersionPerRule => KeysTold /\ EventsTold /\ EventsApart /\ AllReported

\* The times of an event are times of observations.
LEMMA ToldAt ==
  ASSUME EventsTold
  PROVE  /\ \A e \in events : EventAt(e) /\ SinceAt(e)
  BY DEF EventsTold, EventTold, EventAt, SinceAt

\* It holds before the first frame.
LEMMA RulesInit_Inv == RulesInit => RulesInv
  <1> SUFFICES ASSUME RulesInit PROVE RulesInv
    OBVIOUS
  <1>1. streak = <<>> /\ lastFired = <<>> /\ seen = <<>> /\ events = {} /\ rebuilds = {}
    BY DEF RulesInit
  <1>2. Len(seen) = 0 /\ 1..Len(seen) = {}
    BY <1>1
  <1>3. SeenInOrder
    <2>1. \E S : seen \in Seq(S)
      BY <1>1
    <2> QED
      BY <1>1, <1>2, <2>1 DEF SeenInOrder
  <1>4. ASSUME NEW v, NEW n, NEW z PROVE KeyInvAt(v, n, z)
    <2> SUFFICES ASSUME NEW st, NEW k, NEW j, st = Fresh(k), k = Key(v, n, z), j = Len(seen)
                 PROVE  KeyTold(st, k, j, v, n, z)
      BY DEF KeyInvAt
    <2>1. k \notin DOMAIN streak /\ k \notin DOMAIN lastFired
      BY <1>1
    <2>2. st = NewStreak
      BY <2>1 DEF Fresh
    <2>3. StreakTold(st, j, v, n, z)
      BY <2>2, NewStreakIs, VisionNumbers DEF StreakTold
    <2>4. AliveHeld(st, j, n, z)
      BY <1>2 DEF AliveHeld
    <2> QED
      BY <1>1, <2>1, <2>3, <2>4 DEF KeyTold, CooldownTold, AllAnswered
  <1>5. EventsTold /\ EventsApart /\ AllReported
    BY <1>1, <1>2 DEF EventsTold, EventsApart, AllReported
  <1> QED
    BY <1>3, <1>4, <1>5 DEF RulesInv, KeysTold

--------------------------------------------------------------------------------
\* A presence of the past stays reported.
LEMMA ReportsGoOn ==
  ASSUME HistoryGoesOn, events \subseteq events', \A e \in events : EventAt(e),
         NEW v, NEW n, NEW z, NEW i \in 1..Len(seen), NEW j \in 1..Len(seen), i <= j,
         Concludes(i, j, n, z) => Reported(i, j, v, n, z), Concludes(i, j, n, z)'
  PROVE  Reported(i, j, v, n, z)'
  <1>1. Concludes(i, j, n, z)
    BY PastStands
  <1> QED
    BY <1>1, ReportedKept

\* A frame keeps what the events tell, ...
LEMMA FrameKeepsEvents ==
  ASSUME SeenInOrder, NEW objs, NEW ts, Observed(objs, ts), OneVersionPerRule,
         Processed(objs, ts), KeysTold, EventsTold
  PROVE  EventsTold'
  <1>1. HistoryGoesOn
    BY ObservedGoesOn
  <1>2. SUFFICES ASSUME NEW e \in events' PROVE EventTold(e)'
    BY DEF EventsTold
  <1>3. CASE e \in events
    BY <1>1, <1>3, EventKept DEF EventsTold
  <1>4. CASE e \notin events
    <2>1. PICK v, n, z : Match(e, v, n, z)
      BY DEF Match
    <2>2. PICK k : k = Key(v, n, z)
      OBVIOUS
    <2>3. PICK st : st = Fresh(k)
      OBVIOUS
    <2>4. PICK last, new : Ends(last, new) /\ last = Len(seen)
      BY DEF Ends
    <2>5. v \in RuleVersions /\ z \in ImageZones
      BY <1>4, <2>1, <2>2, <2>3, NewEvent
    <2>6. KeyTold(st, k, last, v, n, z)
      BY <2>2, <2>3, <2>4, <2>5 DEF KeysTold, KeyInvAt
    <2>7. /\ new = Len(seen)' /\ seen'[new].ts = ts /\ new \in Nat
      BY <2>4, NewIndex
    <2>8. PICK i \in 1..new : e.since = seen'[i].ts /\ Concludes(i, new, n, z)'
      BY <1>4, <2>1, <2>2, <2>3, <2>4, <2>6, EventMade DEF KeyTold
    <2>9. e.ts = ts
      BY <1>4, <2>1, <2>2, <2>3, NewEvent
    <2>10. i <= new /\ new \in 1..new
      BY <2>7, <2>8
    <2> QED
      BY <2>1, <2>5, <2>7, <2>8, <2>9, <2>10 DEF EventTold, Match
  <1> QED
    BY <1>3, <1>4

\* ... how they lie apart ...
LEMMA FrameKeepsApart ==
  ASSUME SeenInOrder, NEW objs, NEW ts, Observed(objs, ts), OneVersionPerRule,
         Processed(objs, ts), KeysTold, EventsTold, EventsApart
  PROVE  EventsApart'
  <1>1. HistoryGoesOn
    BY ObservedGoesOn
  <1>2. \A e \in events : EventAt(e) /\ SinceAt(e)
    BY ToldAt
  <1>3. SUFFICES ASSUME NEW d \in events', NEW e \in events', d # e,
                        Match(d, e.version, e.track, e.zone), d.ts <= e.ts
                 PROVE  Apart(d, e, e.track, e.zone)'
    BY DEF EventsApart, Match
  <1>4. PICK v, n, z : v = e.version /\ n = e.track /\ z = e.zone
    OBVIOUS
  <1>5. SUFFICES Apart(d, e, n, z)'
    BY <1>4
  <1>6. Match(d, v, n, z) /\ Match(e, v, n, z)
    BY <1>3, <1>4 DEF Match
  <1>7. PICK k : k = Key(v, n, z)
    OBVIOUS
  <1>8. PICK st : st = Fresh(k)
    OBVIOUS
  <1>9. CASE e \in events /\ d \in events
    <2>1. Apart(d, e, n, z)
      BY <1>3, <1>4, <1>9 DEF EventsApart
    <2> QED
      BY <1>1, <1>2, <1>9, <2>1, ApartKept
  <1>10. CASE e \notin events /\ d \notin events
    <2>1. e = EventNow(v, n, z, ts)
      BY <1>6, <1>7, <1>8, <1>10, NewEvent
    <2>2. d = EventNow(v, n, z, ts)
      BY <1>6, <1>7, <1>8, <1>10, NewEvent
    <2> QED
      BY <1>3, <2>1, <2>2
  <1>11. CASE e \in events /\ d \notin events
    <2>1. d.ts = ts
      BY <1>6, <1>7, <1>8, <1>11, NewEvent
    <2>2. PICK t \in 1..Len(seen) : e.ts = seen[t].ts
      BY <1>2, <1>11 DEF EventAt
    <2>3. seen[t].ts < ts /\ seen[t].ts \in Nat /\ ts \in Nat
      BY DEF Observed, SeenInOrder
    <2> QED
      BY <1>3, <2>1, <2>2, <2>3
  <1>12. CASE e \notin events /\ d \in events
    <2>1. PICK last, new : Ends(last, new) /\ last = Len(seen)
      BY DEF Ends
    <2>2. v \in RuleVersions /\ z \in ImageZones
      BY <1>6, <1>7, <1>8, <1>12, NewEvent
    <2>3. KeyTold(st, k, last, v, n, z)
      BY <1>7, <1>8, <2>1, <2>2 DEF KeysTold, KeyInvAt
    <2>4. \A b \in events : EventAt(b)
      BY <1>2
    <2> QED
      BY <1>6, <1>7, <1>8, <1>12, <2>1, <2>2, <2>3, <2>4, NewApart
  <1> QED
    BY <1>9, <1>10, <1>11, <1>12

\* ... and that every presence is reported.
LEMMA FrameKeepsReports ==
  ASSUME SeenInOrder, NEW objs, NEW ts, Observed(objs, ts), OneVersionPerRule,
         Processed(objs, ts), EventsTold, AllReported, KeysTold', EventsTold'
  PROVE  AllReported'
  <1>1. HistoryGoesOn /\ SeenInOrder'
    BY ObservedGoesOn DEF HistoryGoesOn
  <1>2. (\A e \in events : EventAt(e)) /\ events \subseteq events'
    BY ToldAt DEF Processed
  <1>3. SUFFICES ASSUME NEW v \in RuleVersions, NEW z \in ImageZones, NEW n,
                        NEW i \in 1..Len(seen)', NEW j \in 1..Len(seen)', i <= j, Concludes(i, j, n, z)'
                 PROVE  Reported(i, j, v, n, z)'
    BY DEF AllReported
  <1>4. PICK last, new : Ends(last, new) /\ last = Len(seen)
    BY DEF Ends
  <1>5. /\ last \in Nat /\ new \in Nat /\ new = last + 1 /\ new = Len(seen)'
    BY <1>4, NewIndex
  <1>6. CASE j = new
    <2>1. PICK k : k = Key(v, n, z)
      OBVIOUS
    <2>2. PICK c : c = Fresh(k)'
      OBVIOUS
    <2>3. KeyInvAt(v, n, z)'
      BY DEF KeysTold
    <2>4. KeyTold(c, k, new, v, n, z)'
      BY <1>5, <2>1, <2>2, <2>3 DEF KeyInvAt, Key
    <2>5. StreakTold(c, new, v, n, z)' /\ AliveHeld(c, new, n, z)'
      BY <2>4 DEF KeyTold
    <2>6. new \notin rebuilds'
      BY <1>4, <1>5 DEF SeenInOrder, Observed
    <2>7. \A e \in events' : EventTold(e)'
      BY DEF EventsTold
    <2>8. i \in 1..new /\ Concludes(i, new, n, z)'
      BY <1>3, <1>5, <1>6
    <2>9. Reported(i, new, v, n, z)'
      BY <1>1, <1>5, <2>5, <2>6, <2>7, <2>8, NowReported
    <2> QED
      BY <1>6, <2>9
  <1>7. CASE j # new
    <2>1. i \in 1..Len(seen) /\ j \in 1..Len(seen)
      BY <1>3, <1>4, <1>5, <1>7
    <2>2. Concludes(i, j, n, z) => Reported(i, j, v, n, z)
      BY <1>3, <2>1 DEF AllReported
    <2> QED
      BY <1>1, <1>2, <1>3, <2>1, <2>2, ReportsGoOn
  <1> QED
    BY <1>6, <1>7

(* A rebuild of the engine. *)

\* A rebuild leaves the observations and the events.
LEMMA RebuildGoesOn ==
  ASSUME SeenInOrder, RebuildEngine
  PROVE  HistoryGoesOn /\ seen' = seen /\ events' = events /\ Len(seen)' = Len(seen)
  <1>1. /\ seen' = seen /\ events' = events /\ rebuilds' = rebuilds \cup {Len(seen)} /\ seen # <<>>
    BY DEF RebuildEngine
  <1>2. Len(seen) \in Nat /\ Len(seen) \in 1..Len(seen)
    BY <1>1 DEF SeenInOrder
  <1>3. SeenInOrder'
    BY <1>1, <1>2 DEF SeenInOrder
  <1>4. \A r \in 1..(Len(seen) - 1) : r \in rebuilds' <=> r \in rebuilds
    BY <1>1, <1>2
  <1> QED
    BY <1>1, <1>2, <1>3, <1>4 DEF HistoryGoesOn

\* It leaves no streak, and no event of this engine to answer for.
LEMMA RebuildKeepsKeys ==
  ASSUME SeenInOrder, RebuildEngine, EventsTold
  PROVE  KeysTold'
  <1>1. HistoryGoesOn /\ seen' = seen /\ events' = events /\ Len(seen)' = Len(seen)
    BY RebuildGoesOn
  <1>2. streak' = <<>> /\ lastFired' = <<>> /\ rebuilds' = rebuilds \cup {Len(seen)}
    BY DEF RebuildEngine
  <1>3. ASSUME NEW v, NEW n, NEW z PROVE KeyInvAt(v, n, z)'
    <2> SUFFICES ASSUME NEW st, NEW k, NEW j, st = Fresh(k)', k = Key(v, n, z), j = Len(seen)'
                 PROVE  KeyTold(st, k, j, v, n, z)'
      BY DEF KeyInvAt, Key
    <2>1. k \notin DOMAIN streak' /\ k \notin DOMAIN lastFired'
      BY <1>2
    <2>2. st = NewStreak
      BY <2>1 DEF Fresh, NewStreak
    <2>3. StreakTold(st, j, v, n, z)'
      BY <2>2, NewStreakIs, IdleTold
    <2>4. j \in rebuilds'
      BY <1>1, <1>2
    <2>5. AliveHeld(st, j, n, z)'
      BY <2>4 DEF AliveHeld, Alive
    <2>6. ASSUME NEW d \in events' PROVE rebuilds' \cap (IndexOf(d.ts)'..j) # {}
      <3>1. PICK t \in 1..Len(seen) : d.ts = seen[t].ts
        BY <1>1, ToldAt DEF EventAt
      <3>2. IndexOf(d.ts)' = t
        BY <1>1, <3>1, PastIndex
      <3>3. j \in t..j
        BY <1>1, SeenLen
      <3> QED
        BY <2>4, <3>2, <3>3
    <2>7. AllAnswered(k, st, j, v, n, z)'
      BY <2>6 DEF AllAnswered
    <2>8. CooldownTold(k, j, v, n, z)'
      BY <2>1 DEF CooldownTold
    <2> QED
      BY <2>1, <2>3, <2>5, <2>7, <2>8 DEF KeyTold
  <1> QED
    BY <1>3 DEF KeysTold

\* It keeps what the events tell.
LEMMA RebuildKeepsEvents ==
  ASSUME SeenInOrder, RebuildEngine, EventsTold, EventsApart, AllReported
  PROVE  EventsTold' /\ EventsApart' /\ AllReported'
  <1>1. HistoryGoesOn /\ seen' = seen /\ events' = events /\ Len(seen)' = Len(seen)
    BY RebuildGoesOn
  <1>2. \A e \in events : EventAt(e) /\ SinceAt(e)
    BY ToldAt
  <1>3. EventsTold'
    <2> SUFFICES ASSUME NEW e \in events' PROVE EventTold(e)'
      BY DEF EventsTold
    <2>1. EventTold(e)
      BY <1>1 DEF EventsTold
    <2> QED
      BY <1>1, <2>1, EventKept
  <1>4. EventsApart'
    <2> SUFFICES ASSUME NEW d \in events', NEW e \in events', d # e,
                        Match(d, e.version, e.track, e.zone), d.ts <= e.ts
                 PROVE  Apart(d, e, e.track, e.zone)'
      BY DEF EventsApart, Match
    <2>1. d \in events /\ e \in events
      BY <1>1
    <2>2. PICK n, z : n = e.track /\ z = e.zone
      OBVIOUS
    <2>3. Apart(d, e, n, z)
      BY <2>1, <2>2 DEF EventsApart
    <2>4. Apart(d, e, n, z)'
      BY <1>1, <1>2, <2>1, <2>3, ApartKept
    <2> QED
      BY <2>2, <2>4
  <1>5. AllReported'
    <2> SUFFICES ASSUME NEW v \in RuleVersions, NEW z \in ImageZones, NEW n,
                        NEW i \in 1..Len(seen)', NEW j \in 1..Len(seen)', i <= j, Concludes(i, j, n, z)'
                 PROVE  Reported(i, j, v, n, z)'
      BY DEF AllReported
    <2>1. i \in 1..Len(seen) /\ j \in 1..Len(seen) /\ events \subseteq events'
      BY <1>1
    <2>2. Concludes(i, j, n, z) => Reported(i, j, v, n, z)
      BY <2>1 DEF AllReported
    <2> QED
      BY <1>1, <1>2, <2>1, <2>2, ReportsGoOn
  <1> QED
    BY <1>3, <1>4, <1>5

--------------------------------------------------------------------------------
\* A frame keeps the invariant, ...
LEMMA FrameKeepsRules ==
  ASSUME RulesInv, NEW det, NEW place, NEW gap \in Gaps, Frame(det, place, gap)
  PROVE  RulesInv'
  <1>1. SeenInOrder
    BY DEF RulesInv
  <1>2. PICK objs, ts : objs = InFrame(det, place) /\ ts = Now + gap
    OBVIOUS
  <1>3. Observed(objs, ts) /\ Processed(objs, ts)
    BY <1>1, <1>2, FrameObserves
  <1>4. SeenInOrder'
    BY <1>1, <1>3, ObservedGoesOn DEF HistoryGoesOn
  <1>5. ASSUME OneVersionPerRule PROVE KeysTold' /\ EventsTold' /\ EventsApart' /\ AllReported'
    <2>1. KeysTold /\ EventsTold /\ EventsApart /\ AllReported
      BY <1>5 DEF RulesInv
    <2>2. \A e \in events : EventAt(e)
      BY <2>1, ToldAt
    <2>3. KeysTold'
      <3> SUFFICES ASSUME NEW v \in RuleVersions, NEW z \in ImageZones, NEW n PROVE KeyInvAt(v, n, z)'
        BY DEF KeysTold
      <3>1. KeyInvAt(v, n, z)
        BY <2>1 DEF KeysTold
      <3> QED
        BY <1>1, <1>3, <1>5, <2>2, <3>1, FrameKeepsKeys
    <2>4. EventsTold'
      BY <1>1, <1>3, <1>5, <2>1, FrameKeepsEvents
    <2>5. EventsApart'
      BY <1>1, <1>3, <1>5, <2>1, FrameKeepsApart
    <2>6. AllReported'
      BY <1>1, <1>3, <1>5, <2>1, <2>3, <2>4, FrameKeepsReports
    <2> QED
      BY <2>3, <2>4, <2>5, <2>6
  <1>6. OneVersionPerRule' <=> OneVersionPerRule
    BY DEF OneVersionPerRule
  <1> QED
    BY <1>4, <1>5, <1>6 DEF RulesInv

\* ... a rebuild does ...
LEMMA RebuildKeepsRules ==
  ASSUME RulesInv, RebuildEngine
  PROVE  RulesInv'
  <1>1. SeenInOrder
    BY DEF RulesInv
  <1>2. SeenInOrder'
    BY <1>1, RebuildGoesOn DEF HistoryGoesOn
  <1>3. ASSUME OneVersionPerRule PROVE KeysTold' /\ EventsTold' /\ EventsApart' /\ AllReported'
    <2>1. KeysTold /\ EventsTold /\ EventsApart /\ AllReported
      BY <1>3 DEF RulesInv
    <2> QED
      BY <1>1, <2>1, RebuildKeepsKeys, RebuildKeepsEvents
  <1>4. OneVersionPerRule' <=> OneVersionPerRule
    BY DEF OneVersionPerRule
  <1> QED
    BY <1>2, <1>3, <1>4 DEF RulesInv

\* ... and so does a step that changes nothing here.
LEMMA StutterKeepsRules ==
  ASSUME RulesInv, UNCHANGED rulesVars
  PROVE  RulesInv'
  <1>1. /\ streak' = streak /\ lastFired' = lastFired
        /\ seen' = seen /\ events' = events /\ rebuilds' = rebuilds
    BY DEF rulesVars
  <1>2. /\ \A i, j, n, z : HitsIn(i, j, n, z)' = HitsIn(i, j, n, z)
        /\ \A i, j, n, z : MissesIn(i, j, n, z)' = MissesIn(i, j, n, z)
        /\ \A i, j, n : Touched(i, j, n)' = Touched(i, j, n)
        /\ \A i, n, z : IsHit(i, n, z)' <=> IsHit(i, n, z)
    BY <1>1 DEF HitsIn, MissesIn, Touched, IsHit, IsMiss
  <1>3. \A i, j, n, z : Unbroken(i, j, n, z)' <=> Unbroken(i, j, n, z)
    BY <1>1, <1>2 DEF Unbroken, Held
  <1>4. \A i, j, n, z : Established(i, j, n, z)' <=> Established(i, j, n, z)
    BY <1>2 DEF Established
  <1>5. \A i, j, n, z : Concludes(i, j, n, z)' <=> Concludes(i, j, n, z)
    BY <1>1, <1>2, <1>3, <1>4 DEF Concludes
  <1>6. \A ts : IndexOf(ts)' = IndexOf(ts)
    BY <1>1 DEF IndexOf
  <1>7. \A e, h, j, n, z : Told(e, h, j, n, z)' <=> Told(e, h, j, n, z)
    BY <1>1, <1>5, <1>6 DEF Told
  <1>8. \A st, i, j, v, n, z : Standing(st, i, j, v, n, z)' <=> Standing(st, i, j, v, n, z)
    BY <1>1, <1>2, <1>4, <1>7 DEF Standing, LastHit, Match
  <1>9. \A st, i, j, v, n, z : Begun(st, i, j, v, n, z)' <=> Begun(st, i, j, v, n, z)
    BY <1>1, <1>2, <1>3, <1>8 DEF Begun, Building
  <1>10. \A st, j, v, n, z : StreakTold(st, j, v, n, z)' <=> StreakTold(st, j, v, n, z)
    BY <1>9 DEF StreakTold
  <1>11. \A st, j, n : LastSeenTold(st, j, n)' <=> LastSeenTold(st, j, n)
    BY <1>1, <1>2 DEF LastSeenTold
  <1>12. \A st, j, n, z : AliveHeld(st, j, n, z)' <=> AliveHeld(st, j, n, z)
    BY <1>1, <1>2, <1>3 DEF AliveHeld, Alive
  <1>13. \A k, j, v, n, z : CooldownTold(k, j, v, n, z)' <=> CooldownTold(k, j, v, n, z)
    BY <1>1, <1>6 DEF CooldownTold, Match
  <1>14. \A d, st, j, n, z : Answered(d, st, j, n, z)' <=> Answered(d, st, j, n, z)
    BY <1>3, <1>6 DEF Answered
  <1>15. \A k, st, j, v, n, z : AllAnswered(k, st, j, v, n, z)' <=> AllAnswered(k, st, j, v, n, z)
    BY <1>1, <1>6, <1>14 DEF AllAnswered, Match
  <1>16. \A st, k, j, v, n, z : KeyTold(st, k, j, v, n, z)' <=> KeyTold(st, k, j, v, n, z)
    BY <1>1, <1>10, <1>11, <1>12, <1>13, <1>15 DEF KeyTold
  <1>17. \A v, n, z : KeyInvAt(v, n, z)' <=> KeyInvAt(v, n, z)
    BY <1>1, <1>16 DEF KeyInvAt, Fresh, Key
  <1>18. KeysTold' <=> KeysTold
    BY <1>17 DEF KeysTold
  <1>19. EventsTold' <=> EventsTold
    BY <1>1, <1>5 DEF EventsTold, EventTold
  <1>20. EventsApart' <=> EventsApart
    BY <1>1, <1>3, <1>6 DEF EventsApart, Apart, Match
  <1>21. \A i, j, v, n, z : Reported(i, j, v, n, z)' <=> Reported(i, j, v, n, z)
    BY <1>1, <1>3, <1>7 DEF Reported, Match
  <1>22. AllReported' <=> AllReported
    BY <1>1, <1>5, <1>21 DEF AllReported
  <1>23. SeenInOrder'
    BY <1>1 DEF RulesInv, SeenInOrder
  <1> QED
    BY <1>18, <1>19, <1>20, <1>22, <1>23 DEF RulesInv, OneVersionPerRule

\* Every step keeps it.
LEMMA RulesNext_Inv == RulesInv /\ [RulesNext]_rulesVars => RulesInv'
  <1> SUFFICES ASSUME RulesInv, [RulesNext]_rulesVars PROVE RulesInv'
    OBVIOUS
  <1>1. CASE UNCHANGED rulesVars
    BY <1>1, StutterKeepsRules
  <1>2. ASSUME NEW det \in [Subjects -> {"none", "low", "high"}], NEW gap \in Gaps,
               NEW place \in [Subjects -> Places], Frame(det, place, gap)
        PROVE  RulesInv'
    BY <1>2, FrameKeepsRules
  <1>3. CASE RebuildEngine
    BY <1>3, RebuildKeepsRules
  <1> QED
    BY <1>1, <1>2, <1>3 DEF RulesNext

\* And it says that the events are exact.
LEMMA RulesInv_Exact == RulesInv => EventsExact
  <1> SUFFICES ASSUME RulesInv, OneVersionPerRule PROVE EventsEarned /\ PresenceReported
    BY DEF EventsExact
  <1>1. SeenInOrder /\ EventsTold /\ EventsApart /\ AllReported
    BY DEF RulesInv
  <1>2. EventsEarned
    <2>1. ASSUME NEW e \in events PROVE Concludes(IndexOf(e.since), IndexOf(e.ts), e.track, e.zone)
      <3>1. PICK i \in 1..Len(seen), j \in 1..Len(seen) :
              e.since = seen[i].ts /\ e.ts = seen[j].ts /\ Concludes(i, j, e.track, e.zone)
        BY <1>1 DEF EventsTold, EventTold
      <3>2. IndexOf(e.since) = i /\ IndexOf(e.ts) = j
        BY <1>1, <3>1, IndexIs
      <3> QED
        BY <3>1, <3>2
    <2>2. ASSUME NEW e \in events, NEW d \in events, d # e, d.version = e.version,
                 d.track = e.track, d.zone = e.zone, d.ts <= e.ts
          PROVE  Apart(d, e, e.track, e.zone)
      BY <1>1, <2>2 DEF EventsApart, Match
    <2> QED
      BY <2>1, <2>2 DEF EventsEarned, Apart
  <1>3. PresenceReported
    <2>1. DOMAIN seen = 1..Len(seen)
      BY <1>1, SeenLen
    <2>2. ASSUME NEW n, NEW z \in ImageZones, NEW v \in RuleVersions,
                 NEW i \in 1..Len(seen), NEW j \in 1..Len(seen), i <= j, Concludes(i, j, n, z)
          PROVE  Reported(i, j, v, n, z)
      BY <1>1, <2>2 DEF AllReported
    <2> SUFFICES ASSUME NEW n \in 1..(nextNum - 1), NEW z \in ImageZones, NEW v \in RuleVersions,
                        NEW i \in DOMAIN seen, NEW j \in DOMAIN seen, i <= j, Concludes(i, j, n, z)
                 PROVE  \E e \in events, h \in 1..i :
                          /\ e.version = v /\ e.track = n /\ e.zone = z /\ e.ts <= seen[j].ts
                          /\ Unbroken(h, j, n, z)
                          /\ \/ e.ts >= seen[h].ts
                             \/ \E m \in h..j : /\ Concludes(h, m, n, z) /\ seen[m].ts - e.ts < Cooldown
                                               /\ rebuilds \cap (IndexOf(e.ts)..(m - 1)) = {}
      BY DEF PresenceReported
    <2>3. PICK e \in events, h \in 1..i :
            Match(e, v, n, z) /\ e.ts <= seen[j].ts /\ Unbroken(h, j, n, z) /\ Told(e, h, j, n, z)
      BY <2>1, <2>2 DEF Reported
    <2> QED
      BY <2>3 DEF Match, Told
  <1> QED
    BY <1>2, <1>3

\* Where one version of each rule is active, the rules report every presence that lasts and
\* nothing else, whatever the frames, the parameters and the changes of rules.
THEOREM VisionEventsAreExact == RulesSpec => []EventsExact
  <1>1. RulesInit => RulesInv
    BY RulesInit_Inv
  <1>2. RulesInv /\ [RulesNext]_rulesVars => RulesInv'
    BY RulesNext_Inv
  <1>3. RulesInv => EventsExact
    BY RulesInv_Exact
  <1> QED
    BY <1>1, <1>2, <1>3, PTL DEF RulesSpec

\* The times from a presence's start to its event hold the hits that established it.
LEMMA RulesInv_Frames == RulesInv /\ OneVersionPerRule => EventsFromEnoughFrames
  <1> SUFFICES ASSUME RulesInv, OneVersionPerRule, NEW e \in events
               PROVE  Cardinality({x \in DOMAIN seen :
                                     /\ e.since <= seen[x].ts /\ seen[x].ts <= e.ts
                                     /\ IsHit(x, e.track, e.zone)}) >= MinObservations
    BY DEF EventsFromEnoughFrames
  <1>1. SeenInOrder /\ EventsTold
    BY DEF RulesInv
  <1>2. Len(seen) \in Nat /\ DOMAIN seen = 1..Len(seen)
    BY <1>1, SeenLen
  <1>3. PICK i \in 1..Len(seen), j \in 1..Len(seen) :
          e.since = seen[i].ts /\ e.ts = seen[j].ts /\ Concludes(i, j, e.track, e.zone)
    BY <1>1 DEF EventsTold, EventTold
  <1>4. PICK m \in i..j : Cardinality(HitsIn(i, m, e.track, e.zone)) = MinObservations
    BY <1>3 DEF Concludes, Established
  <1> DEFINE S == {x \in DOMAIN seen : /\ e.since <= seen[x].ts /\ seen[x].ts <= e.ts
                                       /\ IsHit(x, e.track, e.zone)}
  <1>5. HitsIn(i, m, e.track, e.zone) \subseteq S
    <2> SUFFICES ASSUME NEW x \in i..m, IsHit(x, e.track, e.zone) PROVE x \in S
      BY DEF HitsIn
    <2>1. x \in 1..Len(seen) /\ i <= x /\ x <= j
      BY <1>2
    <2>2. seen[i].ts <= seen[x].ts /\ seen[x].ts <= seen[j].ts
      BY <1>1, <2>1, TimesGrow
    <2> QED
      BY <1>2, <1>3, <2>1, <2>2
  <1>6. IsFiniteSet(S)
    <2>1. IsFiniteSet(1..Len(seen)) /\ S \subseteq 1..Len(seen)
      BY <1>2, FS_Interval
    <2> QED
      BY <2>1, FS_Subset
  <1>7. Cardinality(HitsIn(i, m, e.track, e.zone)) <= Cardinality(S)
    BY <1>5, <1>6, FS_Subset
  <1>8. Cardinality(S) \in Nat /\ MinObservations \in Nat
    BY <1>6, FS_CardinalityType, VisionNumbers
  <1> QED
    BY <1>4, <1>7, <1>8

\* With one active version of each rule no event comes from too few frames, as vision/temporal.py
\* says: it takes a second version of a rule for its observations to count twice.
THEOREM OneVersionTakesEnoughFrames == RulesSpec => [](OneVersionPerRule => EventsFromEnoughFrames)
  <1>1. RulesInit => RulesInv
    BY RulesInit_Inv
  <1>2. RulesInv /\ [RulesNext]_rulesVars => RulesInv'
    BY RulesNext_Inv
  <1>3. RulesInv => (OneVersionPerRule => EventsFromEnoughFrames)
    BY RulesInv_Frames
  <1> QED
    BY <1>1, <1>2, <1>3, PTL DEF RulesSpec

-----------------------------------------------------------------------------
(* The rebuild of cycles and buckets.                                      *)

\* The numbers and the lock holders the argument rests on.
LEMMA Numbers == /\ MaxTs \in Nat /\ Lookback \in Nat /\ MinVisit \in Nat /\ MinExit \in Nat
                 /\ Chunk \in Nat /\ ChunkMin \in Nat /\ ChunkMin >= 1 /\ Chunk >= 1
                 /\ Since \subseteq Nat
                 /\ "tick" \notin Ingesters /\ "demand" \notin Ingesters /\ "free" \notin Ingesters
  BY RecomputeAssumption DEF RecomputeAssumption

USE Numbers

Jobs == [pc : {"idle", "locked", "read", "between"}, from : Int, to : Int,
         seen : SUBSET Times, last : Int]

Types ==
  /\ fixes \subseteq Times /\ stale \subseteq fixes
  /\ through \in fixes \cup {None} /\ dirty \in fixes \cup {None} /\ start \in Nat
  /\ inflight \in [Ingesters -> Times \cup {None}]
  /\ job \in [Rebuilders -> Jobs]
  /\ left \in [until : Times, ahead : Nat, demands : Nat, marks : Nat, faults : Nat]

\* The cursor: its window starts at or before its end, a mark lies behind it, and what is out
\* of date is ahead of it or marked; nothing is ahead of a cursor that does not exist.
CursorInv ==
  /\ through = None <=> start = None
  /\ start <= through
  /\ through # None => dirty <= through
  /\ \A t \in stale : \/ through # None /\ t > through
                      \/ dirty # None /\ dirty <= t

\* Who holds a lock is in the step that took it.
LockInv ==
  /\ \A w \in Ingesters : inflight[w] # None => rowLock = w
  /\ \A r \in Rebuilders : job[r].pc \in {"locked", "read"} => rebuildLock = r
  /\ \A r \in Rebuilders : job[r].pc = "read" /\ job[r].to = Open => rowLock = r
  /\ job["tick"].pc = "read" => job["tick"].to = Open
  /\ \A w \in Ingesters : inflight[w] \notin fixes

\* A rebuild that will move the cursor has seen everything that is out of date and the newest
\* fix; the tick's window starts before all of it.
ReadInv ==
  /\ \A r \in Rebuilders : job[r].pc = "read" /\ job[r].to = Open =>
       /\ stale \subseteq job[r].seen
       /\ job[r].from >= 1
       /\ job[r].last \in fixes /\ \A t \in fixes : t <= job[r].last
  /\ job["tick"].pc = "read" => \A t \in stale : job["tick"].from <= t

\* No position of an on-demand rebuild is ahead of the cursor.
Behind(t) == 1 <= t /\ (\E x \in fixes : t <= x) /\ (through # None => t <= through)
DemandInv ==
  /\ job["demand"].pc # "idle" => Behind(job["demand"].from)
  /\ job["demand"].pc = "read" /\ job["demand"].to # Open => Behind(job["demand"].to)
  /\ left.demands > 0 \/ job["demand"].pc # "idle" => left.ahead <= Lookback

\* Ingest runs no further ahead of the cursor than its bound.
AheadInv ==
  /\ through # None => \A t \in fixes : t <= through + left.ahead
  /\ through # None => \A w \in Ingesters : inflight[w] <= through + left.ahead

IndInv == Types /\ CursorInv /\ LockInv /\ ReadInv /\ DemandInv /\ AheadInv

-----------------------------------------------------------------------------
(* The oldest and the newest of a set of times.                            *)

\* Times are naturals, from one to the bound.
LEMMA TimesNat == \A t \in Times : t \in Nat /\ 1 <= t /\ t <= MaxTs
  BY DEF Times

\* Min picks the least of a set of times.
LEMMA MinTimes == ASSUME NEW S, S \subseteq Times, S # {}
                  PROVE  Min(S) \in S /\ \A y \in S : Min(S) <= y
  <1>1. S \subseteq Nat
    BY DEF Times
  <1>2. \E x \in S : \A y \in S : x <= y
    BY <1>1, LeastNat
  <1> QED
    BY <1>2 DEF Min

\* Max picks the greatest of a set of times.
LEMMA MaxTimes == ASSUME NEW S, S \subseteq Times, S # {}
                  PROVE  Max(S) \in S /\ \A y \in S : y <= Max(S)
  <1> DEFINE T == {MaxTs - t : t \in S}
  <1>1. T \subseteq Nat /\ T # {}
    <2>1. \A t \in S : MaxTs - t \in Nat
      BY TimesNat
    <2> QED
      BY <2>1
  <1>2. PICK x \in T : \A y \in T : x <= y
    BY <1>1, LeastNat
  <1>3. PICK m \in S : x = MaxTs - m
    BY DEF T
  <1>4. ASSUME NEW y \in S PROVE m >= y
    <2>1. MaxTs - y \in T
      BY DEF T
    <2>2. MaxTs - m <= MaxTs - y
      BY <1>2, <1>3, <2>1
    <2> QED
      BY <2>2 DEF Times
  <1>5. \E z \in S : \A y \in S : z >= y
    BY <1>4
  <1>6. Max(S) \in S /\ \A y \in S : Max(S) >= y
    BY <1>5 DEF Max
  <1>7. \A y \in S : y \in Int /\ Max(S) \in Int
    BY <1>6, TimesNat
  <1> QED
    BY <1>6, <1>7

\* The lesser of two integers.
LEMMA MinPair == ASSUME NEW a \in Int, NEW b \in Int
                 PROVE  Min({a, b}) \in {a, b} /\ Min({a, b}) <= a /\ Min({a, b}) <= b
  <1>1. \E x \in {a, b} : \A y \in {a, b} : x <= y
    OBVIOUS
  <1> QED
    BY <1>1 DEF Min

\* A rebuild starts at the time asked for or at the oldest fix, whichever is later.
LEMMA StartAtBounds == ASSUME fixes \subseteq Times, fixes # {}, NEW ts \in Int
                       PROVE  /\ StartAt(ts) \in Int /\ StartAt(ts) >= 1
                              /\ StartAt(ts) \in fixes \/ StartAt(ts) = ts
                              /\ \A t \in fixes : ts <= t => StartAt(ts) <= t
  <1>1. Min(fixes) \in fixes /\ \A y \in fixes : Min(fixes) <= y
    BY MinTimes
  <1>2. Min(fixes) \in Int /\ Min(fixes) >= 1
    <2>1. Min(fixes) \in Times
      BY <1>1
    <2> QED
      BY <2>1, TimesNat
  <1> QED
    BY <1>1, <1>2 DEF StartAt

\* The newest fix.
LEMMA NewestFix == ASSUME fixes \subseteq Times, fixes # {}
                   PROVE  /\ Newest \in fixes /\ Newest \in Times
                          /\ \A t \in fixes : t <= Newest
  BY MaxTimes DEF Newest

\* The tick's window starts no later than anything that is out of date, and no later than the
\* newest fix: this is what the mark and the cycle in progress are kept for.
LEMMA WindowBounds == ASSUME Types, CursorInv, fixes # {}
                      PROVE  /\ WindowIncremental \in Int /\ WindowIncremental >= 1 /\ WindowIncremental <= Newest
                             /\ \A t \in stale : WindowIncremental <= t
  <1>1. Newest \in fixes /\ Newest \in Nat /\ \A t \in fixes : t <= Newest
    BY NewestFix DEF Types, Times
  <1>2. fixes \subseteq Times /\ stale \subseteq fixes /\ fixes \subseteq Nat
    BY DEF Types, Times
  <1>3. dirty \in Nat /\ through \in Nat /\ start \in Nat
    BY <1>2 DEF Types, None
  <1>4. CASE start = None
    <2> DEFINE d == IF dirty # None THEN dirty ELSE Newest
    <2>1. d \in fixes /\ d \in Nat /\ d - Lookback \in Int
      BY <1>1, <1>2, <1>3 DEF Types
    <2>2. WindowIncremental = StartAt(d - Lookback)
      BY <1>4 DEF WindowIncremental
    <2>3. /\ StartAt(d - Lookback) \in Int /\ StartAt(d - Lookback) >= 1
          /\ StartAt(d - Lookback) \in fixes \/ StartAt(d - Lookback) = d - Lookback
          /\ \A t \in fixes : d - Lookback <= t => StartAt(d - Lookback) <= t
      BY <1>2, <2>1, StartAtBounds
    <2>4. \A t \in stale : d <= t
      BY <1>4 DEF CursorInv
    <2> HIDE DEF d
    <2>5. \A t \in stale : t \in Nat /\ d - Lookback <= t
      BY <1>2, <2>1, <2>4
    <2>6. d - Lookback <= Newest
      BY <1>1, <2>1
    <2> QED
      BY <1>1, <1>2, <2>2, <2>3, <2>5, <2>6
  <1>5. CASE start # None /\ dirty # None /\ dirty < start + MinVisit
    <2>1. dirty \in fixes /\ dirty - Lookback \in Int
      BY <1>3, <1>5 DEF Types
    <2>2. WindowIncremental = StartAt(dirty - Lookback)
      BY <1>5 DEF WindowIncremental
    <2>3. /\ StartAt(dirty - Lookback) \in Int /\ StartAt(dirty - Lookback) >= 1
          /\ StartAt(dirty - Lookback) \in fixes \/ StartAt(dirty - Lookback) = dirty - Lookback
          /\ \A t \in fixes : dirty - Lookback <= t => StartAt(dirty - Lookback) <= t
      BY <1>2, <2>1, StartAtBounds
    <2>4. \A t \in stale : t \in Nat /\ dirty - Lookback <= t
      BY <1>2, <1>3, <1>5 DEF CursorInv
    <2>5. dirty - Lookback <= Newest
      BY <1>1, <1>3, <2>1
    <2> QED
      BY <1>1, <1>2, <2>2, <2>3, <2>4, <2>5
  <1>6. CASE start # None /\ ~ (dirty # None /\ dirty < start + MinVisit)
    <2>1. WindowIncremental = start
      BY <1>6 DEF WindowIncremental
    <2>2. through \in fixes /\ start <= through
      BY <1>6 DEF Types, CursorInv
    <2>3. \A t \in stale : start <= t
      BY <1>2, <1>3, <1>6, <2>2 DEF CursorInv
    <2> QED
      BY <1>1, <1>2, <1>3, <1>6, <2>1, <2>2, <2>3 DEF None
  <1> QED
    BY <1>4, <1>5, <1>6

-----------------------------------------------------------------------------
(* Each step keeps the invariant.                                          *)

\* Nothing is stored, locked or under way at the start.
LEMMA InitInv == Init => IndInv
  <1> SUFFICES ASSUME Init PROVE IndInv
    OBVIOUS
  <1>1. /\ left \in [until : Times, ahead : Nat, demands : Nat, marks : Nat, faults : Nat]
        /\ left.demands > 0 => left.ahead <= Lookback
    BY RecomputeAssumption DEF Init, RecomputeAssumption
  <1>2. Types
    BY <1>1 DEF Init, Types, Jobs, Idle, Rebuilders, None
  <1>3. CursorInv /\ ReadInv /\ AheadInv
    BY DEF Init, CursorInv, ReadInv, AheadInv, Rebuilders, Idle, None
  <1>4. LockInv
    BY DEF Init, LockInv, Rebuilders, Idle, None
  <1>5. DemandInv
    BY <1>1 DEF Init, DemandInv, Rebuilders, Idle
  <1> QED
    BY <1>2, <1>3, <1>4, <1>5 DEF IndInv

\* The times of the cursor and of the fixes are naturals.
LEMMA Naturals == ASSUME Types
                  PROVE  /\ \A t \in fixes : t \in Nat /\ 1 <= t /\ t <= MaxTs
                         /\ through \in Nat /\ dirty \in Nat /\ start \in Nat
                         /\ \A w \in Ingesters : inflight[w] \in Nat
                         /\ left.ahead \in Nat /\ left.demands \in Nat
  BY TimesNat DEF Types, None

\* A change of the data leaves each rebuild where it is; it has not seen the change.
LEMMA ChangedJobs ==
  ASSUME Types, NEW t, Changed(t)
  PROVE  /\ job' \in [Rebuilders -> Jobs]
         /\ \A r \in Rebuilders : /\ job'[r].pc = job[r].pc /\ job'[r].from = job[r].from
                                  /\ job'[r].to = job[r].to /\ job'[r].last = job[r].last
  BY DEF Types, Changed, Jobs

\* The insert takes the cursor row's lock.
LEMMA InsertStep == ASSUME IndInv, NEW w \in Ingesters, NEW t \in Times, Insert(w, t) PROVE IndInv'
  <1> USE DEF IndInv
  <1>1. Types'
    BY DEF Insert, Types, cursor
  <1>2. CursorInv' /\ DemandInv'
    BY DEF Insert, CursorInv, DemandInv, Behind, cursor
  <1>3. LockInv'
    BY DEF Insert, LockInv, Types, Rebuilders, cursor
  <1>4. ReadInv'
    BY DEF Insert, ReadInv, LockInv, Rebuilders, cursor
  <1>5. AheadInv'
    <2>1. t \in Nat
      BY TimesNat
    <2> QED
      BY <2>1 DEF Insert, AheadInv, Types, cursor
  <1> QED
    BY <1>1, <1>2, <1>3, <1>4, <1>5

\* A commit marks a fix behind the cursor; no rebuild that moves the cursor is under way.
LEMMA CommitFixStep == ASSUME IndInv, NEW w \in Ingesters, CommitFix(w) PROVE IndInv'
  <1> USE DEF IndInv
  <1> DEFINE x == inflight[w]
  <1>1. x \in Times /\ x \notin fixes /\ rowLock = w
    BY DEF CommitFix, Types, LockInv
  <1>2. /\ fixes' = fixes \cup {x} /\ stale' = stale \cup {x} /\ Changed(x)
        /\ dirty' = Marked(x) /\ rowLock' = "free"
        /\ inflight' = [inflight EXCEPT ![w] = None]
        /\ UNCHANGED <<through, start, rebuildLock, left>>
    BY <1>1 DEF CommitFix, Changed
  <1>3. /\ job' \in [Rebuilders -> Jobs]
        /\ \A r \in Rebuilders : /\ job'[r].pc = job[r].pc /\ job'[r].from = job[r].from
                                 /\ job'[r].to = job[r].to /\ job'[r].last = job[r].last
    BY <1>2, ChangedJobs
  <1>4. x \in Nat /\ 1 <= x /\ (through # None => x <= through + left.ahead)
    BY <1>1, TimesNat DEF AheadInv
  <1>5. dirty' \in {x, dirty} /\ (dirty' = dirty \/ dirty' = x)
    BY <1>2 DEF Marked
  <1>6. \A v \in Ingesters : v # w => inflight[v] = None
    BY <1>1 DEF LockInv
  <1>7. \A v \in Ingesters : inflight'[v] = None
    BY <1>2, <1>6 DEF Types
  <1>8. \A r \in Rebuilders : ~ (job[r].pc = "read" /\ job[r].to = Open)
    BY <1>1 DEF LockInv, Rebuilders
  <1> HIDE DEF x
  <1>9. Types'
    BY <1>1, <1>2, <1>3, <1>5 DEF Types
  <1>10. CursorInv'
    BY <1>1, <1>2, <1>4, Naturals DEF CursorInv, Marked, Types, None
  <1>11. LockInv'
    BY <1>2, <1>3, <1>7, <1>8, <1>4, Naturals DEF LockInv, None, Rebuilders
  <1>12. ReadInv'
    BY <1>2, <1>3, <1>8 DEF ReadInv, LockInv, Rebuilders, Open
  <1>13. DemandInv'
    BY <1>2, <1>3 DEF DemandInv, Behind, Rebuilders, Open
  <1>14. AheadInv'
    BY <1>2, <1>4, <1>7, Naturals DEF AheadInv, None
  <1> QED
    BY <1>9, <1>10, <1>11, <1>12, <1>13, <1>14

\* A rollback gives the lock back.
LEMMA RollbackFixStep == ASSUME IndInv, NEW w \in Ingesters, RollbackFix(w) PROVE IndInv'
  <1> USE DEF IndInv
  <1>1. /\ left' \in [until : Times, ahead : Nat, demands : Nat, marks : Nat, faults : Nat]
        /\ left'.ahead = left.ahead /\ left'.demands = left.demands
    BY DEF RollbackFix, Types
  <1>2. Types'
    BY <1>1 DEF RollbackFix, Types, cursor
  <1>3. CursorInv'
    BY DEF RollbackFix, CursorInv, cursor
  <1>4. rowLock = w
    BY DEF RollbackFix, LockInv
  <1>5. LockInv'
    BY <1>4, Naturals DEF RollbackFix, LockInv, Types, Rebuilders, cursor, None
  <1>6. ReadInv'
    BY DEF RollbackFix, ReadInv, cursor
  <1>7. DemandInv'
    BY <1>1 DEF RollbackFix, DemandInv, Behind, cursor
  <1>8. AheadInv'
    BY <1>1, Naturals DEF RollbackFix, AheadInv, Types, cursor, None
  <1> QED
    BY <1>2, <1>3, <1>5, <1>6, <1>7, <1>8

\* A loader's mark is a mark behind the cursor.
LEMMA MarkPairedStep == ASSUME IndInv, NEW t \in Times, MarkPaired(t) PROVE IndInv'
  <1> USE DEF IndInv
  <1>1. /\ left' \in [until : Times, ahead : Nat, demands : Nat, marks : Nat, faults : Nat]
        /\ left'.ahead = left.ahead /\ left'.demands = left.demands
    BY DEF MarkPaired, Types
  <1>2. /\ job' \in [Rebuilders -> Jobs]
        /\ \A r \in Rebuilders : /\ job'[r].pc = job[r].pc /\ job'[r].from = job[r].from
                                 /\ job'[r].to = job[r].to /\ job'[r].last = job[r].last
    BY ChangedJobs DEF MarkPaired
  <1>3. /\ t \in fixes /\ t <= through /\ t \in Nat /\ 1 <= t
        /\ stale' = stale \cup {t} /\ rowLock = "free"
    BY TimesNat DEF MarkPaired, Changed
  <1>4. Types'
    BY <1>1, <1>2, <1>3 DEF MarkPaired, Types
  <1>5. CursorInv'
    <2>1. through \in Nat /\ dirty \in Nat /\ through # None /\ through' = through /\ start' = start
      BY <1>3, Naturals DEF MarkPaired, None
    <2>2. dirty' \in Nat /\ dirty' # None /\ dirty' <= t /\ (dirty # None => dirty' <= dirty)
      BY <1>3, <2>1 DEF MarkPaired, None
    <2>3. \A u \in stale : u \in Nat
      BY Naturals DEF Types
    <2> QED
      BY <1>3, <2>1, <2>2, <2>3 DEF CursorInv
  <1>6. LockInv'
    BY <1>2, <1>3 DEF MarkPaired, LockInv, Rebuilders, Open
  <1>7. ReadInv'
    BY <1>2, <1>3 DEF MarkPaired, ReadInv, LockInv, Rebuilders, Open
  <1>8. DemandInv'
    BY <1>1, <1>2 DEF MarkPaired, DemandInv, Behind, Rebuilders, Open
  <1>9. AheadInv'
    BY <1>1 DEF MarkPaired, AheadInv
  <1> QED
    BY <1>4, <1>5, <1>6, <1>7, <1>8, <1>9

\* A rebuild at rest, and one that has been given a step and a position.
LEMMA IdleWith == ASSUME NEW p \in {"idle", "locked", "read", "between"}, NEW f \in Int
                  PROVE  /\ [Idle EXCEPT !.pc = p, !.from = f] \in Jobs
                         /\ [Idle EXCEPT !.pc = p, !.from = f].pc = p
                         /\ [Idle EXCEPT !.pc = p, !.from = f].from = f
  <1>1. Idle \in Jobs
    BY DEF Idle, Jobs
  <1> QED
    BY <1>1 DEF Jobs

\* Taking the rebuilders' lock: the other rebuild, if there is one, is between two slices.
LEMMA LockRebuildStep ==
  ASSUME IndInv, NEW r \in Rebuilders, NEW f \in Int,
         LockRebuild(r, "locked", f), r = "demand" => Behind(f),
         UNCHANGED <<fixes, stale, cursor, rowLock, inflight>>,
         left' \in [until : Times, ahead : Nat, demands : Nat, marks : Nat, faults : Nat],
         left'.ahead = left.ahead,
         left.demands > 0 \/ job["demand"].pc # "idle" \/ r = "demand" => left.ahead <= Lookback,
         left'.demands <= left.demands
  PROVE  IndInv'
  <1> USE DEF IndInv
  <1>1. /\ job' \in [Rebuilders -> Jobs]
        /\ job'[r].pc = "locked" /\ job'[r].from = f
        /\ \A q \in Rebuilders : q # r => job'[q] = job[q]
    <2> DEFINE j == [Idle EXCEPT !.pc = "locked", !.from = f]
    <2>1. j \in Jobs /\ j.pc = "locked" /\ j.from = f
      BY IdleWith
    <2>2. job' = [job EXCEPT ![r] = j] /\ job \in [Rebuilders -> Jobs]
      BY DEF LockRebuild, Types
    <2> HIDE DEF j
    <2> QED
      BY <2>1, <2>2
  <1>2. \A q \in Rebuilders : job[q].pc \notin {"locked", "read"}
    BY DEF LockRebuild, LockInv, Rebuilders
  <1>3. \A q \in Rebuilders : job'[q].pc # "read"
    BY <1>1, <1>2
  <1>4. Types'
    BY <1>1 DEF Types, cursor
  <1>5. CursorInv' /\ AheadInv'
    BY DEF CursorInv, AheadInv, cursor
  <1>6. LockInv' /\ ReadInv'
    BY <1>1, <1>2, <1>3 DEF LockInv, ReadInv, LockRebuild, cursor, Rebuilders
  <1>7. DemandInv'
    BY <1>1, <1>3, Naturals DEF DemandInv, Behind, cursor, Rebuilders
  <1> QED
    BY <1>4, <1>5, <1>6, <1>7

\* The tick takes the rebuilders' lock.
LEMMA TickStartStep == ASSUME IndInv, TickStart PROVE IndInv'
  <1>1. LockRebuild("tick", "locked", 0) /\ UNCHANGED <<fixes, stale, cursor, rowLock, inflight>>
    BY DEF TickStart
  <1>2. left' = left
    BY DEF TickStart
  <1> QED
    BY <1>1, <1>2, LockRebuildStep, Naturals DEF IndInv, Types, DemandInv, Rebuilders

\* A rebuild that starts on demand starts behind the cursor: it was asked for from a moment
\* of the recorded history, and the cursor is no more than the lookback behind that.
LEMMA DemandStartStep == ASSUME IndInv, NEW s \in Requests, DemandStart(s) PROVE IndInv'
  <1> DEFINE f == IF s = None THEN Min(fixes) ELSE StartAt(s - Lookback)
  <1>1. /\ LockRebuild("demand", "locked", f) /\ UNCHANGED <<fixes, stale, cursor, rowLock, inflight>>
        /\ fixes # {} /\ left.demands > 0
    BY DEF DemandStart
  <1>2. /\ left' \in [until : Times, ahead : Nat, demands : Nat, marks : Nat, faults : Nat]
        /\ left'.ahead = left.ahead /\ left'.demands <= left.demands
    BY DEF DemandStart, IndInv, Types
  <1>3. left.ahead <= Lookback
    BY <1>1 DEF IndInv, DemandInv
  <1>4. s \in Nat /\ s <= Newest
    BY <1>1 DEF Requests
  <1>5. fixes \subseteq Times /\ through \in fixes \cup {None}
    BY DEF IndInv, Types
  <1>6. Newest \in fixes
    BY <1>1, <1>5, NewestFix
  <1>7. f \in Int /\ Behind(f)
    <2>1. CASE s = None
      <3>1. f \in fixes /\ \A t \in fixes : f <= t
        BY <1>1, <1>5, <2>1, MinTimes
      <3> QED
        BY <1>5, <3>1, TimesNat DEF Behind
    <2>2. CASE s # None
      <3>1. /\ f \in Int /\ f >= 1
            /\ \A t \in fixes : s - Lookback <= t => f <= t
        BY <1>1, <1>4, <1>5, <2>2, StartAtBounds
      <3>2. Newest \in Nat /\ s - Lookback <= Newest
        BY <1>4, <1>5, <1>6, TimesNat
      <3>3. ASSUME through # None PROVE s - Lookback <= through
        <4>1. Newest <= through + left.ahead
          BY <1>6, <3>3 DEF IndInv, AheadInv
        <4> QED
          BY <1>3, <1>4, <3>2, <4>1, Naturals DEF IndInv
      <3>4. f <= Newest
        BY <1>6, <3>1, <3>2
      <3>5. through # None => f <= through
        BY <1>5, <3>1, <3>3
      <3> HIDE DEF f
      <3> QED
        BY <1>6, <3>1, <3>4, <3>5 DEF Behind
    <2> QED
      BY <2>1, <2>2
  <1> HIDE DEF f
  <1>8. "demand" \in Rebuilders
    BY DEF Rebuilders
  <1> QED
    BY <1>1, <1>2, <1>3, <1>7, <1>8, LockRebuildStep

\* The next slice goes on where the last one ended.
LEMMA DemandNextStep == ASSUME IndInv, DemandNext PROVE IndInv'
  <1>1. LockRebuild("demand", "locked", job["demand"].from)
    BY DEF DemandNext
  <1>2. UNCHANGED <<fixes, stale, cursor, rowLock, inflight, left>> /\ job["demand"].pc = "between"
    BY DEF DemandNext
  <1>3. job["demand"].from \in Int /\ "demand" \in Rebuilders
    BY DEF IndInv, Types, Jobs, Rebuilders
  <1>4. Behind(job["demand"].from) /\ left.ahead <= Lookback
    BY <1>2 DEF IndInv, DemandInv
  <1>5. left \in [until : Times, ahead : Nat, demands : Nat, marks : Nat, faults : Nat]
    BY DEF IndInv, Types
  <1> QED
    BY <1>1, <1>2, <1>3, <1>4, <1>5, LockRebuildStep

\* Storing a job: its own fields, and the other rebuild left alone.
LEMMA JobSet == ASSUME Types, NEW r \in Rebuilders, NEW j \in Jobs, job' = [job EXCEPT ![r] = j]
                PROVE  /\ job' \in [Rebuilders -> Jobs]
                       /\ job'[r] = j
                       /\ \A q \in Rebuilders : q # r => job'[q] = job[q]
  BY DEF Types

\* Whoever reads has the rebuilders' lock; the other rebuild has neither locked nor read.
LEMMA OtherRests == ASSUME LockInv, NEW r \in Rebuilders, NEW q \in Rebuilders, q # r,
                           job[r].pc \in {"locked", "read"}
                    PROVE  job[q].pc \notin {"locked", "read"}
  BY DEF LockInv

\* A rebuild that ends without a trace, in a failure or because nothing is new.
LEMMA GiveUpStep ==
  ASSUME IndInv, NEW r \in Rebuilders, job[r].pc \in {"locked", "read"},
         job' = [job EXCEPT ![r] = Idle], rebuildLock' = "free",
         rowLock' = rowLock \/ (rowLock = r /\ rowLock' = "free"),
         job[r].pc = "read" /\ job[r].to = Open => rowLock' = "free",
         UNCHANGED <<fixes, stale, cursor, inflight>>,
         left' \in [until : Times, ahead : Nat, demands : Nat, marks : Nat, faults : Nat],
         left'.ahead = left.ahead, left'.demands = left.demands
  PROVE  IndInv'
  <1> USE DEF IndInv
  <1>1. Idle \in Jobs
    BY DEF Idle, Jobs
  <1>2. /\ job' \in [Rebuilders -> Jobs] /\ job'[r] = Idle
        /\ \A q \in Rebuilders : q # r => job'[q] = job[q]
    BY <1>1, JobSet
  <1>3. \A q \in Rebuilders : job'[q].pc \notin {"locked", "read"}
    BY <1>2, OtherRests DEF Idle
  <1>4. Types'
    BY <1>2 DEF Types, cursor
  <1>5. CursorInv' /\ AheadInv'
    BY DEF CursorInv, AheadInv, cursor
  <1>6. ReadInv'
    BY <1>3 DEF ReadInv, Rebuilders
  <1>7. LockInv'
    BY <1>3 DEF LockInv, Rebuilders, cursor
  <1>8. DemandInv'
    BY <1>2, <1>3 DEF DemandInv, Behind, Idle, cursor, Rebuilders
  <1> QED
    BY <1>4, <1>5, <1>6, <1>7, <1>8

\* A failed rebuild is rolled back.
LEMMA RebuildFailsStep == ASSUME IndInv, NEW r \in Rebuilders, RebuildFails(r) PROVE IndInv'
  <1>1. /\ left' \in [until : Times, ahead : Nat, demands : Nat, marks : Nat, faults : Nat]
        /\ left'.ahead = left.ahead /\ left'.demands = left.demands
    BY DEF RebuildFails, IndInv, Types
  <1>2. job[r].pc = "read" /\ job[r].to = Open => rowLock' = "free"
    BY DEF RebuildFails, IndInv, LockInv
  <1> QED
    BY <1>1, <1>2, GiveUpStep DEF RebuildFails

\* The tick reads under both locks: everything out of date, from before all of it, up to the
\* newest fix.
LEMMA TickReadStep == ASSUME IndInv, TickRead PROVE IndInv'
  <1> USE DEF IndInv
  <1>1. "tick" \in Rebuilders /\ job["tick"].pc = "locked" /\ rowLock = "free"
    BY DEF TickRead, Rebuilders
  <1>2. CASE NothingNew
    BY <1>1, <1>2, GiveUpStep DEF TickRead, Types
  <1>3. CASE ~ NothingNew
    <2> DEFINE j == [pc |-> "read", from |-> WindowIncremental, to |-> Open, seen |-> stale,
                     last |-> LastRead(WindowIncremental)]
    <2>1. /\ job' = [job EXCEPT !["tick"] = j] /\ rowLock' = "tick"
          /\ UNCHANGED <<fixes, stale, cursor, rebuildLock, inflight, left>>
      BY <1>3 DEF TickRead
    <2>2. fixes # {} /\ fixes \subseteq Times /\ stale \subseteq Times
      BY <1>3 DEF NothingNew, Types
    <2>3. /\ WindowIncremental \in Int /\ WindowIncremental >= 1 /\ WindowIncremental <= Newest
          /\ \A t \in stale : WindowIncremental <= t
      BY <2>2, WindowBounds
    <2>4. Newest \in fixes /\ Newest \in Nat /\ \A t \in fixes : t <= Newest
      BY <2>2, NewestFix, TimesNat
    <2>5. LastRead(WindowIncremental) = Newest
      BY <2>3, <2>4 DEF LastRead
    <2>6. j \in Jobs
      BY <2>2, <2>3, <2>4, <2>5 DEF Jobs, Open
    <2>7. /\ j.pc = "read" /\ j.from = WindowIncremental /\ j.to = Open /\ j.seen = stale
          /\ j.last = Newest
      BY <2>5
    <2> HIDE DEF j
    <2>8. /\ job' \in [Rebuilders -> Jobs] /\ job'["tick"] = j /\ job'["demand"] = job["demand"]
      BY <1>1, <2>1, <2>6, JobSet DEF Rebuilders
    <2>9. job["demand"].pc \notin {"locked", "read"}
      BY <1>1, OtherRests DEF Rebuilders
    <2>10. Types'
      BY <2>1, <2>8 DEF Types, cursor
    <2>11. CursorInv' /\ AheadInv'
      BY <2>1 DEF CursorInv, AheadInv, cursor
    <2>12. LockInv'
      BY <1>1, <2>1, <2>7, <2>8, <2>9 DEF LockInv, Rebuilders, cursor
    <2>13. ReadInv'
      BY <2>1, <2>3, <2>4, <2>7, <2>8, <2>9 DEF ReadInv, Rebuilders, cursor
    <2>14. DemandInv'
      BY <2>1, <2>8 DEF DemandInv, Behind, cursor
    <2> QED
      BY <2>10, <2>11, <2>12, <2>13, <2>14
  <1> QED
    BY <1>2, <1>3

\* What a rebuild that moves the cursor leaves: the cursor at the newest fix, the next window
\* inside it, and of what was out of date only what its window did not reach.
LEMMA AdvanceCursor ==
  ASSUME IndInv, NEW r \in Rebuilders, job[r].pc = "read", job[r].to = Open, Advance(r),
         stale' = stale \ Rewritten(r)
  PROVE  /\ through' \in fixes /\ \A t \in fixes : t <= through'
         /\ start' \in Nat /\ start' # None /\ start' <= through'
         /\ stale' = {t \in stale : t < job[r].from}
         /\ \A w \in Ingesters : inflight[w] = None
  <1> USE DEF IndInv
  <1>1. /\ stale \subseteq job[r].seen /\ job[r].from >= 1
        /\ job[r].last \in fixes /\ \A t \in fixes : t <= job[r].last
    BY DEF ReadInv
  <1>2. job[r].from \in Int /\ job[r].last \in Nat /\ job[r].last >= 1
    BY <1>1, Naturals DEF Types, Jobs
  <1>3. Min({job[r].from, job[r].last}) \in Int /\ Min({job[r].from, job[r].last}) >= 1
    <2>1. Min({job[r].from, job[r].last}) \in {job[r].from, job[r].last}
      <3>1. job[r].from \in Int /\ job[r].last \in Int
        BY <1>2
      <3> QED
        BY <3>1, MinPair, Zenon
    <2> QED
      BY <1>1, <1>2, <2>1
  <1>4. through' = job[r].last /\ start' \in Min({job[r].from, job[r].last}) .. job[r].last
    BY <1>2 DEF Advance, None
  <1>5. start' \in Nat /\ start' # None /\ start' <= through'
    BY <1>2, <1>3, <1>4 DEF None
  <1>6. \A t \in stale : t \in job[r].seen /\ t \in Nat /\ t < Open
    BY <1>1, Naturals DEF Types, Open
  <1>7. stale' = {t \in stale : t < job[r].from}
    BY <1>2, <1>6 DEF Rewritten
  <1>8. \A w \in Ingesters : inflight[w] = None
    BY DEF LockInv, Rebuilders
  <1> QED
    BY <1>1, <1>4, <1>5, <1>7, <1>8

\* The tick leaves nothing out of date and no mark.
LEMMA TickCommitStep == ASSUME IndInv, TickCommit PROVE IndInv'
  <1> USE DEF IndInv
  <1>1. /\ "tick" \in Rebuilders /\ job["tick"].pc = "read" /\ job["tick"].to = Open
        /\ Advance("tick") /\ stale' = stale \ Rewritten("tick") /\ dirty' = None
        /\ rowLock' = "free" /\ rebuildLock' = "free" /\ UNCHANGED <<fixes, inflight, left>>
    BY DEF TickCommit, LockInv, Rebuilders
  <1>2. /\ through' \in fixes /\ \A t \in fixes : t <= through'
        /\ start' \in Nat /\ start' # None /\ start' <= through'
        /\ stale' = {t \in stale : t < job["tick"].from}
        /\ \A w \in Ingesters : inflight[w] = None
    BY <1>1, AdvanceCursor
  <1>3. stale' = {}
    <2>1. \A t \in stale : job["tick"].from <= t /\ t \in Int
      BY <1>1, Naturals DEF ReadInv, Types
    <2>2. job["tick"].from \in Int
      BY <1>1 DEF Types, Jobs
    <2> QED
      BY <1>2, <2>1, <2>2
  <1>4. Idle \in Jobs /\ Idle.pc = "idle"
    BY DEF Idle, Jobs
  <1>5. /\ job' \in [Rebuilders -> Jobs] /\ job'["tick"] = Idle /\ job'["demand"] = job["demand"]
    BY <1>1, <1>4, JobSet DEF TickCommit, Rebuilders
  <1>6. job["demand"].pc \notin {"locked", "read"}
    BY <1>1, OtherRests DEF Rebuilders
  <1>7. through' \in Nat /\ through' # None
    BY <1>2, Naturals DEF None
  <1>8. Types'
    BY <1>1, <1>2, <1>3, <1>5 DEF Types
  <1>9. CursorInv'
    BY <1>1, <1>2, <1>3, <1>7 DEF CursorInv, None
  <1>10. LockInv' /\ ReadInv'
    BY <1>1, <1>2, <1>4, <1>5, <1>6 DEF LockInv, ReadInv, Rebuilders
  <1>11. DemandInv'
    <2>1. job["demand"].pc # "idle" => Behind(job["demand"].from)
      BY DEF DemandInv
    <2>2. job["demand"].from \in Int
      BY DEF Types, Jobs, Rebuilders
    <2>3. Behind(job["demand"].from) => Behind(job["demand"].from)'
      BY <1>1, <1>2, <1>5, <1>7, <2>2, Naturals DEF Behind
    <2> QED
      BY <1>1, <1>5, <1>6, <2>1, <2>3 DEF DemandInv
  <1>12. AheadInv'
    <2>1. left.ahead \in Nat /\ \A t \in fixes : t \in Nat
      BY Naturals
    <2>2. \A t \in fixes : t <= through' + left.ahead
      <3>1. \A t \in fixes : t <= through'
        BY <1>2
      <3> QED
        BY <2>1, <3>1, <1>7
    <2>3. \A w \in Ingesters : inflight[w] <= through' + left.ahead
      <3>1. \A w \in Ingesters : inflight[w] = None
        BY <1>2
      <3> QED
        BY <2>1, <3>1, <1>7 DEF None
    <2> QED
      BY <1>1, <2>2, <2>3 DEF AheadInv
  <1> QED
    BY <1>8, <1>9, <1>10, <1>11, <1>12

\* A slice ends at the newest fix or, if it is an older one, behind the cursor.
LEMMA SliceBounds ==
  ASSUME IndInv, job["demand"].pc = "locked", NEW from, from = job["demand"].from
  PROVE  /\ SliceEnd(from) \in Int
         /\ SliceEnd(from) # Open => Behind(SliceEnd(from))
         /\ LastRead(from) = Newest /\ Newest \in fixes /\ \A t \in fixes : t <= Newest
  <1> USE DEF IndInv
  <1>1. Behind(from) /\ left.ahead <= Lookback
    BY DEF DemandInv
  <1>2. from \in Int
    BY DEF Types, Jobs, Rebuilders
  <1>3. fixes \subseteq Times /\ fixes # {}
    BY <1>1 DEF Behind, Types
  <1>4. Newest \in fixes /\ Newest \in Nat /\ Newest <= MaxTs /\ \A t \in fixes : t <= Newest
    BY <1>3, NewestFix, TimesNat
  <1>5. 1 <= from /\ from <= Newest
    BY <1>1, <1>2, <1>4, Naturals DEF Behind
  <1>6. LastRead(from) = Newest
    BY <1>2, <1>4, <1>5 DEF LastRead
  <1>7. through # None => Newest - Lookback <= through
    <2>1. through # None => Newest <= through + left.ahead
      BY <1>4 DEF AheadInv
    <2> QED
      BY <1>1, <1>4, <2>1, Naturals
  <1>8. CASE (Newest - Lookback) - from >= ChunkMin
    <2>1. /\ SliceEnd(from) \in Int /\ SliceEnd(from) <= Newest - Lookback /\ SliceEnd(from) >= from
      BY <1>2, <1>4, <1>8 DEF SliceEnd
    <2> HIDE DEF SliceEnd
    <2>2. Behind(SliceEnd(from))
      BY <1>2, <1>4, <1>5, <1>7, <2>1, Naturals DEF Behind
    <2> QED
      BY <1>4, <1>6, <2>1, <2>2
  <1>9. CASE ~ ((Newest - Lookback) - from >= ChunkMin)
    <2>1. SliceEnd(from) = Open /\ Open \in Int
      BY <1>9 DEF SliceEnd, Open
    <2> QED
      BY <1>4, <1>6, <2>1
  <1> QED
    BY <1>8, <1>9

\* The newest slice locks the cursor row before it reads.
LEMMA DemandReadStep == ASSUME IndInv, DemandRead PROVE IndInv'
  <1> USE DEF IndInv
  <1> DEFINE from == job["demand"].from
             to == SliceEnd(from)
             j == [pc |-> "read", from |-> from, to |-> to, seen |-> stale, last |-> LastRead(from)]
  <1>1. /\ "demand" \in Rebuilders /\ "tick" \in Rebuilders /\ job["demand"].pc = "locked"
        /\ job' = [job EXCEPT !["demand"] = j]
        /\ IF to = Open THEN rowLock = "free" /\ rowLock' = "demand" ELSE UNCHANGED rowLock
        /\ UNCHANGED <<fixes, stale, cursor, rebuildLock, inflight, left>>
    BY DEF DemandRead, Rebuilders
  <1>2. /\ to \in Int /\ (to # Open => Behind(to))
        /\ LastRead(from) = Newest /\ Newest \in fixes /\ \A t \in fixes : t <= Newest
    BY <1>1, SliceBounds
  <1>3. from \in Int /\ Newest \in Int /\ stale \subseteq Times
    BY <1>2, Naturals DEF Types, Jobs, Rebuilders
  <1>4. Behind(from) /\ from >= 1
    BY <1>1 DEF DemandInv, Behind
  <1> HIDE DEF from, to
  <1>5. j \in Jobs
    BY <1>2, <1>3 DEF Jobs
  <1>6. j.pc = "read" /\ j.from = from /\ j.to = to /\ j.seen = stale /\ j.last = Newest
    BY <1>2
  <1> HIDE DEF j
  <1>7. /\ job' \in [Rebuilders -> Jobs] /\ job'["demand"] = j /\ job'["tick"] = job["tick"]
    BY <1>1, <1>5, JobSet DEF Rebuilders
  <1>8. job["tick"].pc \notin {"locked", "read"}
    BY <1>1, OtherRests DEF Rebuilders
  <1>9. Types'
    BY <1>1, <1>7 DEF Types, cursor
  <1>10. CursorInv' /\ AheadInv'
    BY <1>1 DEF CursorInv, AheadInv, cursor
  <1>11. LockInv'
    BY <1>1, <1>6, <1>7, <1>8 DEF LockInv, Rebuilders, cursor
  <1>12. ReadInv'
    BY <1>1, <1>2, <1>4, <1>6, <1>7, <1>8 DEF ReadInv, Rebuilders, cursor
  <1>13. DemandInv'
    BY <1>1, <1>2, <1>4, <1>6, <1>7 DEF DemandInv, Behind, cursor
  <1> QED
    BY <1>9, <1>10, <1>11, <1>12, <1>13

\* The newest slice moves the cursor and leaves the mark: what it did not reach lies behind its
\* start, hence behind the cursor as it was, and is marked.
LEMMA DemandCommitStep == ASSUME IndInv, DemandCommit PROVE IndInv'
  <1> USE DEF IndInv
  <1> DEFINE from == job["demand"].from
             to == job["demand"].to
  <1>1. /\ "demand" \in Rebuilders /\ "tick" \in Rebuilders /\ job["demand"].pc = "read"
        /\ stale' = stale \ Rewritten("demand") /\ rebuildLock' = "free"
        /\ UNCHANGED <<fixes, dirty, inflight, left>>
    BY DEF DemandCommit, Rebuilders
  <1>2. job["tick"].pc \notin {"locked", "read"}
    BY <1>1, OtherRests
  <1>3. from \in Int /\ to \in Int /\ Behind(from) /\ left.ahead <= Lookback
    BY <1>1 DEF Types, Jobs, Rebuilders, DemandInv
  <1>4. CASE to = Open
    <2>1. /\ Advance("demand") /\ rowLock' = "free" /\ job' = [job EXCEPT !["demand"] = Idle]
      BY <1>1, <1>4 DEF DemandCommit, LockInv
    <2>2. /\ through' \in fixes /\ \A t \in fixes : t <= through'
          /\ start' \in Nat /\ start' # None /\ start' <= through'
          /\ stale' = {t \in stale : t < from}
          /\ \A w \in Ingesters : inflight[w] = None
      BY <1>1, <1>4, <2>1, AdvanceCursor
    <2>3. through' \in Nat /\ through' # None
      BY <2>2, Naturals DEF None
    <2>4. Idle \in Jobs /\ Idle.pc = "idle"
      BY DEF Idle, Jobs
    <2>5. /\ job' \in [Rebuilders -> Jobs] /\ job'["demand"] = Idle /\ job'["tick"] = job["tick"]
      BY <1>1, <2>1, <2>4, JobSet DEF Rebuilders
    <2>6. Types'
      BY <1>1, <2>2, <2>5 DEF Types
    <2>7. CursorInv'
      <3>1. \A t \in stale' : dirty # None /\ dirty <= t
        <4> SUFFICES ASSUME NEW t \in stale' PROVE dirty # None /\ dirty <= t
          OBVIOUS
        <4>1. t \in stale /\ t < from /\ t \in Nat
          BY <2>2, Naturals DEF Types
        <4>2. ~ (through # None /\ t > through)
          BY <1>3, <4>1, Naturals DEF Behind
        <4> QED
          BY <4>1, <4>2 DEF CursorInv
      <3>2. dirty <= through'
        BY <2>2, <2>3 DEF Types, None
      <3> QED
        BY <1>1, <2>2, <2>3, <3>1, <3>2 DEF CursorInv
    <2>8. LockInv' /\ ReadInv'
      BY <1>1, <1>2, <2>1, <2>2, <2>4, <2>5 DEF LockInv, ReadInv, Rebuilders
    <2>9. DemandInv'
      BY <1>1, <1>3, <2>4, <2>5 DEF DemandInv
    <2>10. AheadInv'
      <3>1. /\ left.ahead \in Nat /\ \A t \in fixes : t \in Nat /\ t <= through' + left.ahead
            /\ \A w \in Ingesters : inflight[w] <= through' + left.ahead
        <4>1. left.ahead \in Nat /\ \A t \in fixes : t \in Nat
          BY Naturals
        <4> QED
          BY <2>2, <2>3, <4>1 DEF None
      <3> QED
        BY <1>1, <3>1 DEF AheadInv
    <2> QED
      BY <2>6, <2>7, <2>8, <2>9, <2>10
  <1>5. CASE to # Open
    <2> DEFINE j == [Idle EXCEPT !.pc = "between", !.from = to]
    <2>1. job' = [job EXCEPT !["demand"] = j] /\ UNCHANGED <<through, start, rowLock>>
      BY <1>5 DEF DemandCommit
    <2>3. j \in Jobs /\ j.pc = "between" /\ j.from = to
      BY <1>3, IdleWith
    <2> HIDE DEF j
    <2>4. /\ job' \in [Rebuilders -> Jobs] /\ job'["demand"] = j /\ job'["tick"] = job["tick"]
      BY <1>1, <2>1, <2>3, JobSet DEF Rebuilders
    <2>5. stale' \subseteq stale
      BY <1>1
    <2>6. Types'
      BY <1>1, <2>1, <2>4, <2>5 DEF Types
    <2>7. CursorInv' /\ AheadInv'
      BY <1>1, <2>1, <2>5 DEF CursorInv, AheadInv
    <2>8. LockInv' /\ ReadInv'
      BY <1>1, <1>2, <2>1, <2>3, <2>4 DEF LockInv, ReadInv, Rebuilders
    <2>9. DemandInv'
      BY <1>1, <1>3, <1>5, <2>1, <2>3, <2>4 DEF DemandInv, Behind
    <2> QED
      BY <2>6, <2>7, <2>8, <2>9
  <1> QED
    BY <1>4, <1>5

\* Every step keeps the invariant.
LEMMA Invariance == IndInv /\ [Next]_vars => IndInv'
  <1> SUFFICES ASSUME IndInv, [Next]_vars PROVE IndInv'
    OBVIOUS
  <1>1. CASE UNCHANGED vars
    BY <1>1 DEF vars, IndInv, Types, CursorInv, LockInv, ReadInv, DemandInv, Behind, AheadInv
  <1>2. CASE Tick
    BY <1>2, TickStartStep, TickReadStep, TickCommitStep DEF Tick
  <1>3. CASE Demand
    BY <1>3, DemandStartStep, DemandReadStep, DemandCommitStep, DemandNextStep DEF Demand
  <1>4. CASE \E r \in Rebuilders : RebuildFails(r)
    BY <1>4, RebuildFailsStep
  <1>5. CASE \E w \in Ingesters : \/ \E t \in Times : Insert(w, t)
                                  \/ CommitFix(w) \/ RollbackFix(w)
    BY <1>5, InsertStep, CommitFixStep, RollbackFixStep
  <1>6. CASE \E t \in Times : MarkPaired(t)
    BY <1>6, MarkPairedStep
  <1> QED
    BY <1>1, <1>2, <1>3, <1>4, <1>5, <1>6 DEF Next

-----------------------------------------------------------------------------
\* Whatever ingest, the tick, on-demand rebuilds, a loader's marks and failures do, a time whose
\* rows are out of date is ahead of the cursor or marked in it (_mark_recompute_dirty,
\* _advance), so that the next tick rebuilds it.
THEOREM NoChangeSlips == Spec => []NothingSlips
  <1>1. IndInv => NothingSlips
    BY DEF IndInv, CursorInv, NothingSlips
  <1> QED
    BY <1>1, InitInv, Invariance, PTL DEF Spec

\* What the two locks are for: a rebuild that is about to move the cursor (_lock_cursor) has
\* seen every change, and its newest fix is the newest stored.
ReadIsCurrent ==
  \A r \in Rebuilders : job[r].pc = "read" /\ job[r].to = Open =>
    stale \subseteq job[r].seen /\ job[r].last \in fixes /\ \A t \in fixes : t <= job[r].last

\* No fix comes between a rebuild's read and the commit that moves the cursor past it.
THEOREM CursorMovesAreCurrent == Spec => []ReadIsCurrent
  <1>1. IndInv => ReadIsCurrent
    BY DEF IndInv, ReadInv, ReadIsCurrent
  <1> QED
    BY <1>1, InitInv, Invariance, PTL DEF Spec
=============================================================================
