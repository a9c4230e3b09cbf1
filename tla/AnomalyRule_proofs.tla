------------------------- MODULE AnomalyRule_proofs -------------------------
(***************************************************************************)
(* Proofs about AnomalyRule: its types, what an alarm and an overflow rest *)
(* on, and that its alarms are episodes, for every window, tolerance,      *)
(* cooldown, capacity and number of instruments.                           *)
(***************************************************************************)
EXTENDS AnomalyRule, FiniteSetTheorems, WellFoundedInduction, TLAPS

\* What a window w, with the observation l seeded last, holds of the arrivals s
\* since it was last empty: all of them but some older than everything in it.
WindowOK(w, l, s) ==
  /\ w = {} <=> l = NoObservation
  /\ w = {} => s = {}
  /\ w # {} => l \in w /\ \A p \in w : p.at <= l.at
  /\ \A p \in w, q \in w : p.at = q.at => p = q
  /\ \A p \in w : p.at \in s
  /\ \A t \in s : (\E p \in w : p.at = t) \/ (\A q \in w : t < q.at)

\* A cumulative total in the window never exceeds the newest one.
LevelOK(f, w, l) == f = "cumulative" => \A p \in w : p.value <= l.value

\* How far an instrument in state r is from the time a of its last alarm: an
\* armed one is past the spacing, one that warms up has only younger samples.
AlarmOK(r, a) ==
  /\ r.window = {} => r.state = "warming_up"
  /\ r.state \in {"triggered", "cooling_down"} => a = r.triggeredAt /\ a \in Nat /\ a <= r.last.at
  /\ r.state = "armed" /\ a # NoTime => a + Spacing <= r.last.at
  /\ r.state = "warming_up" /\ a # NoTime => \A p \in r.window : a <= p.at

\* All of this about an instrument of a monitor of family f: its state r, the
\* arrivals s since its window was empty, its last alarm a, the latest arrival n.
RuleOK(f, r, s, a, n) ==
  /\ WindowOK(r.window, r.last, s)
  /\ LevelOK(f, r.window, r.last)
  /\ AlarmOK(r, a)
  /\ \A p \in r.window : p.at <= n
  /\ a # NoTime => a <= n

RuleInv == \A i \in Instruments : RuleOK(family, rule[i], seen[i], alarm[i], now)

RulesIInv == TypeOK /\ RuleInv /\ AlarmJustified

-----------------------------------------------------------------------------
(* Windows *)

\* A non-empty set of bounded naturals has a least element.
LEMMA LeastArrival ==
  ASSUME NEW n \in Nat, NEW T \in SUBSET (0..n), T # {}
  PROVE  \E m \in T : \A k \in T : m <= k
<1> DEFINE S == 0..n
           F == {0..k : k \in T}
<1>1. IsFiniteSet(S)  BY FS_Interval
<1>2. IsWellFoundedOn(StrictSubsetOrdering(S), FiniteSubsetsOf(S))
  BY <1>1, FS_StrictSubsetOrderingWellFounded
<1>3. F \subseteq FiniteSubsetsOf(S)
  BY <1>1, FS_FiniteSubsetsOfFinite
<1>4. F # {}  OBVIOUS
<1>5. PICK x \in F : \A y \in F : ~ (<<y, x>> \in StrictSubsetOrdering(S))
  <2> HIDE DEF F
  <2> QED BY <1>2, <1>3, <1>4, WFMin
<1>6. PICK m \in T : x = 0..m  OBVIOUS
<1>7. ASSUME NEW k \in T, k < m PROVE FALSE
  <2>1. /\ (0..k) \in F /\ (0..k) \subseteq (0..m)
        /\ m \notin 0..k /\ m \in 0..m
    BY <1>7
  <2>2. <<0..k, 0..m>> \in StrictSubsetOrdering(S)
    BY <2>1 DEF StrictSubsetOrdering
  <2>3. QED BY <1>5, <1>6, <2>1, <2>2
<1>8. QED BY <1>7

\* The front of a window is its oldest observation.
LEMMA FrontIsOldest ==
  ASSUME NEW w \in SUBSET Observation, NEW o \in w, \A p \in w : p.at <= o.at
  PROVE  Front(w) \in w /\ \A p \in w : Front(w).at <= p.at
<1> DEFINE T == {p.at : p \in w}
<1>1. o.at \in Nat /\ T \in SUBSET (0..o.at) /\ T # {}
  BY DEF Observation
<1>2. PICK m \in T : \A k \in T : m <= k
  <2> HIDE DEF T
  <2> QED BY <1>1, LeastArrival
<1>3. \E p \in w : \A q \in w : p.at <= q.at
  BY <1>2
<1>4. QED  BY <1>3 DEF Front

\* What pruning keeps: at most one observation at or before the cutoff, and
\* nothing younger is dropped.
LEMMA PrunedFacts ==
  ASSUME NEW w \in SUBSET Observation, NEW cutoff \in Int
  PROVE  /\ Pruned(w, cutoff) \subseteq w
         /\ \A p \in Pruned(w, cutoff), q \in w : p.at < q.at => cutoff < q.at
         /\ \A p \in w : p \notin Pruned(w, cutoff) =>
              \A q \in Pruned(w, cutoff) : p.at < q.at
<1>1. \A p \in w : p.at \in Nat  BY DEF Observation
<1>2. Pruned(w, cutoff) \subseteq w  BY DEF Pruned
<1>3. \A p \in Pruned(w, cutoff), q \in w : p.at < q.at => cutoff < q.at
  BY <1>1, <1>2 DEF Pruned
<1>4. ASSUME NEW p \in w, p \notin Pruned(w, cutoff), NEW q \in Pruned(w, cutoff)
      PROVE  p.at < q.at
  <2>1. PICK r \in w : p.at < r.at /\ r.at <= cutoff  BY <1>4 DEF Pruned
  <2>2. q \in w /\ (q.at < r.at => cutoff < r.at)  BY <1>2, <1>3, <1>4
  <2>3. QED  BY <1>1, <2>1, <2>2
<1>5. QED  BY <1>2, <1>3, <1>4

\* The window that continues with a later observation is still all of the
\* arrivals but some older ones.
LEMMA WindowContinues ==
  ASSUME NEW w \in SUBSET Observation, NEW l \in Observation \cup {NoObservation},
         NEW s \in SUBSET Nat, NEW o \in Observation, NEW cutoff \in Int,
         WindowOK(w, l, s), l # NoObservation => o.at > l.at
  PROVE  WindowOK(Pruned(w, cutoff) \cup {o}, o, s \cup {o.at})
<1> DEFINE k == Pruned(w, cutoff)
           n == k \cup {o}
<1>1. /\ k \subseteq w
      /\ \A p \in w : p \notin k => \A q \in k : p.at < q.at
  BY PrunedFacts
<1>2. o.at \in Nat /\ \A p \in w : p.at \in Nat /\ p.at < o.at
  <2>1. \A p \in w : p.at \in Nat /\ p.at <= l.at /\ l \in w /\ o.at > l.at
    BY DEF WindowOK, Observation
  <2>2. o.at \in Nat  BY DEF Observation
  <2>3. QED  BY <2>1, <2>2
<1> HIDE DEF k
<1>3. o # NoObservation  BY ObservationAssumption
<1>4. \A p \in n : p.at <= o.at  BY <1>1, <1>2
<1>5. \A p \in n, q \in n : p.at = q.at => p = q
  BY <1>1, <1>2 DEF WindowOK
<1>6. \A p \in n : p.at \in s \cup {o.at}
  BY <1>1 DEF WindowOK
<1>7. ASSUME NEW t \in s \cup {o.at}
      PROVE  (\E p \in n : p.at = t) \/ (\A q \in n : t < q.at)
  <2>1. CASE t = o.at  BY <2>1
  <2>2. CASE t \in s /\ \E p \in w : p.at = t
    <3>1. PICK p \in w : p.at = t  BY <2>2
    <3>2. CASE p \in k  BY <3>1, <3>2
    <3>3. CASE p \notin k  BY <1>1, <1>2, <3>1, <3>3
    <3>4. QED  BY <3>2, <3>3
  <2>3. CASE t \in s /\ \A q \in w : t < q.at
    <3>1. PICK p \in w : TRUE  BY <2>3 DEF WindowOK
    <3>2. t < p.at /\ p.at < o.at /\ t \in Nat  BY <1>2, <2>3
    <3>3. t < o.at  BY <1>2, <3>2
    <3>4. QED  BY <1>1, <2>3, <3>3
  <2>4. QED  BY <2>1, <2>2, <2>3 DEF WindowOK
<1>8. QED  BY <1>3, <1>4, <1>5, <1>6, <1>7 DEF WindowOK, k

\* At a measurable edge no arrival lies between the edge and the cutoff.
LEMMA EdgeIsLatest ==
  ASSUME NEW w \in SUBSET Observation, NEW l \in Observation \cup {NoObservation},
         NEW s \in SUBSET Nat, NEW o \in Observation,
         WindowOK(w, l, s), l # NoObservation => o.at > l.at,
         NEW b, b = Front(Pruned(w, o.at - Window) \cup {o}),
         b.at <= o.at - Window
  PROVE  /\ b \in Pruned(w, o.at - Window)
         /\ \A t \in s \cup {o.at} : t <= b.at \/ o.at - Window < t
<1> DEFINE cutoff == o.at - Window
           k == Pruned(w, cutoff)
           n == k \cup {o}
<1>1. /\ cutoff \in Int /\ o.at \in Nat /\ cutoff < o.at
      /\ \A p \in w : p.at \in Nat
  BY LimitsAssumption DEF Observation
<1>2. /\ k \subseteq w
      /\ \A p \in k, q \in w : p.at < q.at => cutoff < q.at
      /\ \A p \in w : p \notin k => \A q \in k : p.at < q.at
  BY <1>1, PrunedFacts
<1>3. \A p \in w : p.at < o.at
  <2>1. \A p \in w : p.at <= l.at /\ l \in w /\ o.at > l.at
    BY DEF WindowOK
  <2>2. QED  BY <1>1, <2>1
<1>4. b \in n /\ \A p \in n : b.at <= p.at
  <2>1. n \in SUBSET Observation /\ o \in n /\ \A p \in n : p.at <= o.at
    BY <1>1, <1>2, <1>3
  <2>2. QED  BY <2>1, FrontIsOldest
<1>5. b # o  BY <1>1
<1>6. b \in k /\ b.at \in Nat  BY <1>1, <1>2, <1>4, <1>5
<1> HIDE DEF k
<1>7. ASSUME NEW t \in s \cup {o.at} PROVE t <= b.at \/ cutoff < t
  <2>1. CASE t = o.at  BY <1>1, <2>1
  <2>2. CASE t \in s /\ \E p \in w : p.at = t
    <3>1. PICK p \in w : p.at = t  BY <2>2
    <3>2. b.at < t => cutoff < t  BY <1>2, <1>6, <3>1
    <3>3. QED  BY <1>1, <1>6, <3>1, <3>2
  <2>3. CASE t \in s /\ \A q \in w : t < q.at
    <3>1. t < b.at  BY <1>2, <1>6, <2>3
    <3>2. QED  BY <1>6, <3>1
  <2>4. QED  BY <2>1, <2>2, <2>3 DEF WindowOK
<1>8. QED  BY <1>6, <1>7 DEF k
-----------------------------------------------------------------------------
(* Steps of one instrument *)

LEMMA SpacingBounds == Spacing \in Nat /\ Spacing <= Cooldown /\ Spacing <= Window
<1>1. QED  BY LimitsAssumption DEF Spacing

\* Fresh and restarted rules are in their types, and hold one sample at most.
LEMMA FreshFacts ==
  /\ Fresh \in State
  /\ \A o \in Observation :
       /\ ResetAndSeed(o) \in State
       /\ ResetAndSeed(o).window = {o} /\ ResetAndSeed(o).last = o
       /\ ResetAndSeed(o).state = "warming_up"
<1>1. Fresh \in State  BY DEF Fresh, State, RuleStates
<1>2. QED  BY <1>1 DEF ResetAndSeed, State, RuleStates

\* An instrument that gets a state keeps within the limit.
LEMMA KnownBounded ==
  ASSUME TypeOK, NEW i \in Instruments, HasPlace(i)
  PROVE  known \cup {i} \subseteq Instruments /\ Cardinality(known \cup {i}) <= MaxInstruments
<1>1. IsFiniteSet(known)  BY DataAssumption, FS_Subset DEF TypeOK
<1>2. CASE i \in known
  <2>1. known \cup {i} = known  BY <1>2
  <2>2. QED  BY <2>1 DEF TypeOK
<1>3. CASE i \notin known
  <2>1. Cardinality(known \cup {i}) = Cardinality(known) + 1 /\ Cardinality(known) \in Nat
    BY <1>1, <1>3, FS_AddElement, FS_CardinalityType
  <2>2. Cardinality(known) < MaxInstruments  BY <1>3 DEF HasPlace
  <2>3. QED  BY <2>1, <2>2, LimitsAssumption DEF TypeOK
<1>4. QED  BY <1>2, <1>3

\* Time that passes for one instrument does not disturb another.
LEMMA OthersKeep ==
  ASSUME TypeOK, RuleInv, NEW j \in Instruments, NEW n \in Nat, now <= n
  PROVE  RuleOK(family, rule[j], seen[j], alarm[j], n)
<1>1. RuleOK(family, rule[j], seen[j], alarm[j], now)  BY DEF RuleInv
<1>2. /\ now \in Nat /\ \A p \in rule[j].window : p.at \in Nat
      /\ alarm[j] # NoTime => alarm[j] \in Nat
  BY DEF TypeOK, State, Observation
<1>3. QED  BY <1>1, <1>2 DEF RuleOK

\* A restart leaves one sample, which is not older than the last alarm.
LEMMA RestartPreserves ==
  ASSUME TypeOK, RuleInv, NEW i \in Instruments, NEW o \in Observation, NEW kind \in Kinds,
         Accepts(i, o), Restart(i, o, kind)
  PROVE  TypeOK' /\ RuleInv'
<1> DEFINE r == ResetAndSeed(o)
<1>1. /\ r \in State /\ r.window = {o} /\ r.last = o /\ r.state = "warming_up"
  BY FreshFacts
<1> HIDE DEF r
<1>2. /\ rule' = [rule EXCEPT ![i] = r] /\ seen' = [seen EXCEPT ![i] = {o.at}]
      /\ alarm' = alarm /\ now' = o.at /\ family' = family /\ known' = known \cup {i}
      /\ answer' = Plain(kind) /\ now <= o.at
  BY DEF Accepts, Restart, r
<1>3. /\ rule'[i] = r /\ seen'[i] = {o.at} /\ o.at \in Nat /\ now \in Nat
      /\ \A j \in Instruments \ {i} : rule'[j] = rule[j] /\ seen'[j] = seen[j]
      /\ rule' \in [Instruments -> State] /\ seen' \in [Instruments -> SUBSET Nat]
  BY <1>1, <1>2 DEF TypeOK, Observation
<1>4. TypeOK'
  <2>1. known' \subseteq Instruments /\ Cardinality(known') <= MaxInstruments
    BY <1>2, KnownBounded DEF Accepts
  <2>2. ASSUME NEW j \in Instruments
        PROVE  IsFiniteSet(rule'[j].window) /\ Cardinality(rule'[j].window) <= Capacity
    <3>1. CASE j = i
      <4>1. IsFiniteSet({o}) /\ Cardinality({o}) = 1  BY FS_Singleton
      <4>2. rule'[j].window = {o}  BY <1>1, <1>3, <3>1
      <4>3. QED  BY <4>1, <4>2, LimitsAssumption
    <3>2. CASE j # i  BY <1>3, <3>2 DEF TypeOK
    <3>3. QED  BY <3>1, <3>2
  <2>3. answer' \in Answer  BY <1>2 DEF Answer, Plain
  <2>4. QED  BY <1>2, <1>3, <2>1, <2>2, <2>3 DEF TypeOK
<1>5. \A j \in Instruments : alarm[j] # NoTime => alarm[j] \in Nat /\ alarm[j] <= now
  BY DEF RuleInv, RuleOK, TypeOK
<1>6. RuleOK(family, r, {o.at}, alarm[i], o.at)
  <2>1. WindowOK({o}, o, {o.at})  BY ObservationAssumption, <1>3 DEF WindowOK
  <2>2. LevelOK(family, {o}, o)
    <3>1. o.value \in Nat  BY DataAssumption DEF Observation
    <3>2. QED  BY <3>1 DEF LevelOK
  <2>3. alarm[i] # NoTime => alarm[i] <= o.at  BY <1>2, <1>3, <1>5
  <2>4. AlarmOK(r, alarm[i])  BY <1>1, <2>3 DEF AlarmOK
  <2>5. QED  BY <1>1, <1>3, <2>1, <2>2, <2>3, <2>4 DEF RuleOK
<1>7. QED  BY <1>2, <1>3, <1>4, <1>6, OthersKeep DEF RuleInv

\* A window's elements, bounds and finiteness after one that fits is added.
LEMMA KeptFacts ==
  ASSUME TypeOK, RuleInv, NEW i \in Instruments, NEW o \in Observation, Fits(i, o)
  PROVE  /\ Kept(i, o) \subseteq rule[i].window
         /\ Kept(i, o) \cup {o} \in SUBSET Observation
         /\ IsFiniteSet(Kept(i, o) \cup {o}) /\ Cardinality(Kept(i, o) \cup {o}) <= Capacity
         /\ o.at \in Nat /\ now \in Nat /\ now <= o.at
         /\ \A p \in Kept(i, o) \cup {o} : p.at \in Nat /\ p.at <= o.at
         /\ \A p \in Kept(i, o) : p.at <= now
<1> DEFINE w == rule[i].window
           k == Kept(i, o)
<1>1. w \in SUBSET Observation /\ IsFiniteSet(w) /\ now \in Nat /\ o.at \in Nat
      /\ (o.at - Window) \in Int
  BY LimitsAssumption DEF TypeOK, State, Observation
<1>2. k \subseteq w  BY <1>1, PrunedFacts DEF Kept
<1>3. now <= o.at /\ Cardinality(k) < Capacity  BY DEF Fits, Continues, Accepts
<1>4. \A p \in w : p.at <= now /\ p.at \in Nat  BY <1>1 DEF RuleInv, RuleOK, Observation
<1> HIDE DEF k
<1>5. IsFiniteSet(k \cup {o}) /\ Cardinality(k \cup {o}) <= Capacity
  <2>1. IsFiniteSet(k) /\ Cardinality(k) \in Nat
    BY <1>1, <1>2, FS_Subset, FS_CardinalityType
  <2>2. IsFiniteSet(k \cup {o}) /\ Cardinality(k \cup {o}) <= Cardinality(k) + 1
    BY <2>1, FS_AddElement
  <2>3. Cardinality(k \cup {o}) \in Nat  BY <2>2, FS_CardinalityType
  <2>4. QED  BY <1>3, <2>1, <2>2, <2>3, LimitsAssumption
<1>6. QED  BY <1>1, <1>2, <1>3, <1>4, <1>5 DEF k

\* An instrument that goes on as r with a window continued by o keeps all of
\* RuleInv, if r is where it says from the last alarm.
LEMMA ContinuePreserves ==
  ASSUME TypeOK, RuleInv, NEW i \in Instruments, NEW o \in Observation, Fits(i, o),
         NEW r \in State, r.window = Kept(i, o) \cup {o}, r.last = o, Goes(i, o, r),
         answer' \in Answer,
         NEW a \in Nat \cup {NoTime}, alarm' = [alarm EXCEPT ![i] = a],
         a # NoTime => a <= o.at, AlarmOK(r, a)
  PROVE  TypeOK' /\ RuleInv'
<1>1. /\ rule' = [rule EXCEPT ![i] = r] /\ seen' = [seen EXCEPT ![i] = seen[i] \cup {o.at}]
      /\ now' = o.at /\ family' = family /\ known' = known \cup {i}
  BY DEF Fits, Continues, Accepts, Goes
<1>2. /\ Kept(i, o) \subseteq rule[i].window
      /\ IsFiniteSet(r.window) /\ Cardinality(r.window) <= Capacity
      /\ o.at \in Nat /\ now \in Nat /\ now <= o.at
      /\ \A p \in r.window : p.at <= o.at
  BY KeptFacts
<1>3. /\ rule'[i] = r /\ seen'[i] = seen[i] \cup {o.at} /\ alarm'[i] = a
      /\ \A j \in Instruments \ {i} :
           rule'[j] = rule[j] /\ seen'[j] = seen[j] /\ alarm'[j] = alarm[j]
      /\ rule' \in [Instruments -> State] /\ seen' \in [Instruments -> SUBSET Nat]
      /\ alarm' \in [Instruments -> Nat \cup {NoTime}]
  BY <1>1, <1>2 DEF TypeOK
<1>4. TypeOK'
  <2>1. known' \subseteq Instruments /\ Cardinality(known') <= MaxInstruments
    BY <1>1, KnownBounded DEF Fits, Continues, Accepts
  <2>2. ASSUME NEW j \in Instruments
        PROVE  IsFiniteSet(rule'[j].window) /\ Cardinality(rule'[j].window) <= Capacity
    <3>1. CASE j = i  BY <1>2, <1>3, <3>1
    <3>2. CASE j # i  BY <1>3, <3>2 DEF TypeOK
    <3>3. QED  BY <3>1, <3>2
  <2>3. QED  BY <1>1, <1>2, <1>3, <2>1, <2>2 DEF TypeOK
<1>5. RuleOK(family, rule[i], seen[i], alarm[i], now)  BY DEF RuleInv
<1>6. WindowOK(r.window, o, seen[i] \cup {o.at})
  <2>1. /\ rule[i].window \in SUBSET Observation /\ seen[i] \in SUBSET Nat
        /\ rule[i].last \in Observation \cup {NoObservation} /\ (o.at - Window) \in Int
        /\ rule[i].last # NoObservation => o.at > rule[i].last.at
        /\ WindowOK(rule[i].window, rule[i].last, seen[i])
    BY <1>2, <1>5, LimitsAssumption
    DEF TypeOK, State, Fits, Continues, Accepts, Advances, RuleOK
  <2>2. QED  BY <2>1, WindowContinues DEF Kept
<1>7. LevelOK(family, r.window, o)
  <2>1. SUFFICES ASSUME family = "cumulative", NEW p \in r.window
                 PROVE  p.value <= o.value
    BY DEF LevelOK
  <2>2. o.value \in Nat  BY DataAssumption DEF Observation
  <2>3. CASE p = o  BY <2>2, <2>3
  <2>4. CASE p \in rule[i].window
    <3>1. rule[i].last \in Observation /\ p \in Observation /\ rule[i].last # NoObservation
      BY <1>5, <2>4 DEF TypeOK, State, RuleOK, WindowOK
    <3>2. p.value \in Nat /\ rule[i].last.value \in Nat
      BY <3>1, DataAssumption DEF Observation
    <3>3. p.value <= rule[i].last.value  BY <1>5, <2>1, <2>4 DEF RuleOK, LevelOK
    <3>4. ~ (o.value < rule[i].last.value)
      BY <2>1, <3>1 DEF Fits, Continues, RollsBack
    <3>5. QED  BY <2>2, <3>2, <3>3, <3>4
  <2>5. QED  BY <1>2, <2>3, <2>4
<1>8. RuleOK(family, r, seen[i] \cup {o.at}, a, o.at)
  BY <1>2, <1>6, <1>7 DEF RuleOK
<1>9. QED  BY <1>1, <1>2, <1>3, <1>4, <1>8, OthersKeep DEF RuleInv

\* The rule as it continues with o, whatever its state and its trigger become.
LEMMA ContinuedFacts ==
  ASSUME TypeOK, RuleInv, NEW i \in Instruments, NEW o \in Observation, Fits(i, o)
  PROVE  /\ rule[i] \in State /\ Continued(i, o) \in State
         /\ Continued(i, o).window = Kept(i, o) \cup {o} /\ Continued(i, o).last = o
         /\ Continued(i, o).state = rule[i].state
         /\ Continued(i, o).triggeredAt = rule[i].triggeredAt
<1> DEFINE r == rule[i]
           w == Kept(i, o) \cup {o}
           c == Continued(i, o)
<1>1. r \in State /\ w \in SUBSET Observation  BY KeptFacts DEF TypeOK
<1>2. c = [r EXCEPT !.window = w, !.last = o]  BY DEF Continued
<1> HIDE DEF r, w, c
<1>3. c \in State /\ c.window = w /\ c.last = o
  BY <1>1, <1>2 DEF State
<1>4. c.state = r.state /\ c.triggeredAt = r.triggeredAt
  BY <1>1, <1>2 DEF State
<1>5. QED  BY <1>1, <1>3, <1>4 DEF r, w, c

\* What the comparison of o with the window's edge rests on.
LEMMA EdgeFacts ==
  ASSUME TypeOK, RuleInv, NEW i \in Instruments, NEW o \in Observation, Measures(i, o)
  PROVE  /\ Edge(i, o) \in Kept(i, o) /\ Edge(i, o) \in Observation
         /\ Edge(i, o).at <= o.at - Window /\ o.at - Window <= Edge(i, o).at + Tolerance
         /\ \A t \in seen[i] \cup {o.at} : t <= Edge(i, o).at \/ o.at - Window < t
         /\ {Edge(i, o).at, o.at} \subseteq seen[i] \cup {o.at}
         /\ family = "cumulative" => Edge(i, o).value <= o.value
<1> DEFINE b == Edge(i, o)
<1>1. Fits(i, o) /\ Measurable(b, o)  BY DEF Measures
<1>2. RuleOK(family, rule[i], seen[i], alarm[i], now)  BY DEF RuleInv
<1>3. /\ rule[i].window \in SUBSET Observation /\ seen[i] \in SUBSET Nat
      /\ rule[i].last \in Observation \cup {NoObservation}
      /\ rule[i].last # NoObservation => o.at > rule[i].last.at
      /\ WindowOK(rule[i].window, rule[i].last, seen[i])
  BY <1>1, <1>2 DEF TypeOK, State, Fits, Continues, Accepts, Advances, RuleOK
<1>4. b \in Kept(i, o) /\ \A t \in seen[i] \cup {o.at} : t <= b.at \/ o.at - Window < t
  <2>1. b.at <= o.at - Window /\ b = Front(Pruned(rule[i].window, o.at - Window) \cup {o})
    BY <1>1 DEF Measurable, Edge, Kept
  <2>2. QED  BY <1>3, <2>1, EdgeIsLatest DEF Kept
<1>5. b \in rule[i].window /\ b \in Observation  BY <1>1, <1>3, <1>4, KeptFacts
<1>6. b.at \in seen[i]  BY <1>3, <1>5 DEF WindowOK
<1>7. family = "cumulative" => b.value <= o.value
  <2>1. SUFFICES ASSUME family = "cumulative" PROVE b.value <= o.value  OBVIOUS
  <2>2. rule[i].last # NoObservation /\ rule[i].last \in Observation
    BY <1>3, <1>5 DEF WindowOK
  <2>3. b.value <= rule[i].last.value  BY <1>2, <1>5, <2>1 DEF RuleOK, LevelOK
  <2>4. ~ (o.value < rule[i].last.value)
    BY <1>1, <2>1, <2>2 DEF Fits, Continues, RollsBack
  <2>5. b.value \in Nat /\ o.value \in Nat /\ rule[i].last.value \in Nat
    BY <1>5, <2>2, DataAssumption DEF Observation
  <2>6. QED  BY <2>3, <2>4, <2>5
<1>8. b.at <= o.at - Window /\ o.at - Window <= b.at + Tolerance
  <2>1. b.at \in Nat /\ o.at \in Nat /\ Window \in Nat /\ Tolerance \in Nat
    BY <1>5, LimitsAssumption DEF Observation
  <2>2. QED  BY <1>1, <2>1 DEF Measurable
<1>9. QED  BY <1>4, <1>5, <1>6, <1>7, <1>8

\* An answer that is no alarm needs no justification.
LEMMA PlainJustified ==
  ASSUME NEW kind \in Kinds \ {"triggered", "rearmed"}, answer' = Plain(kind)
  PROVE  AlarmJustified'
<1>1. QED  BY DEF AlarmJustified, Plain

\* An alarm, or its end, names the edge and the observation.
LEMMA AlarmIsJustified ==
  ASSUME TypeOK, RuleInv, NEW i \in Instruments, NEW o \in Observation, Measures(i, o),
         NEW kind \in Kinds, Alarm(i, o, kind), NEW r, Goes(i, o, r)
  PROVE  answer' \in Answer /\ AlarmJustified'
<1>1. answer' = [kind |-> kind, instrument |-> i, boundary |-> Edge(i, o), current |-> o]
  BY DEF Alarm
<1>2. /\ answer'.kind = kind /\ answer'.instrument = i
      /\ answer'.boundary = Edge(i, o) /\ answer'.current = o
  BY <1>1
<1>3. seen'[i] = seen[i] \cup {o.at} /\ family' = family
  BY DEF Goes, TypeOK, Measures, Fits, Continues, Accepts
<1>4. AlarmJustified'  BY <1>2, <1>3, EdgeFacts DEF AlarmJustified
<1>5. answer' \in Answer  BY <1>1, EdgeFacts DEF Answer
<1>6. QED  BY <1>4, <1>5

-----------------------------------------------------------------------------
(* The steps *)

\* An instrument that goes on as r without an alarm.
LEMMA QuietStep ==
  ASSUME TypeOK, RuleInv, NEW i \in Instruments, NEW o \in Observation, Fits(i, o),
         NEW r \in State, r.window = Kept(i, o) \cup {o}, r.last = o, Goes(i, o, r),
         answer' \in Answer, UNCHANGED alarm, AlarmOK(r, alarm[i])
  PROVE  TypeOK' /\ RuleInv'
<1>1. alarm[i] \in Nat \cup {NoTime} /\ alarm' = [alarm EXCEPT ![i] = alarm[i]]
  BY DEF TypeOK
<1>2. alarm[i] # NoTime => alarm[i] <= o.at
  <2>1. alarm[i] # NoTime => alarm[i] <= now /\ alarm[i] \in Nat
    BY <1>1 DEF RuleInv, RuleOK
  <2>2. now \in Nat /\ o.at \in Nat /\ now <= o.at  BY KeptFacts
  <2>3. QED  BY <2>1, <2>2
<1>3. QED  BY <1>1, <1>2, ContinuePreserves

\* Where an instrument is from its last alarm, and what its new window holds.
LEMMA LastAlarm ==
  ASSUME TypeOK, RuleInv, NEW i \in Instruments, NEW o \in Observation, Fits(i, o)
  PROVE  /\ AlarmOK(rule[i], alarm[i])
         /\ alarm[i] # NoTime => alarm[i] \in Nat /\ alarm[i] <= now
         /\ rule[i].state # "warming_up" =>
              /\ rule[i].last \in Observation /\ rule[i].last.at \in Nat
              /\ rule[i].last.at < o.at
<1>1. RuleOK(family, rule[i], seen[i], alarm[i], now)  BY DEF RuleInv
<1>2. /\ AlarmOK(rule[i], alarm[i])
      /\ alarm[i] # NoTime => alarm[i] \in Nat /\ alarm[i] <= now
  BY <1>1 DEF RuleOK, TypeOK
<1>3. ASSUME rule[i].state # "warming_up"
      PROVE  /\ rule[i].last \in Observation /\ rule[i].last.at \in Nat
             /\ rule[i].last.at < o.at
  <2>1. rule[i].window # {}  BY <1>2, <1>3 DEF AlarmOK
  <2>2. rule[i].last # NoObservation  BY <1>1, <2>1 DEF RuleOK, WindowOK
  <2>3. rule[i].last \in Observation  BY <2>2 DEF TypeOK, State
  <2>4. o.at > rule[i].last.at  BY <2>2 DEF Fits, Continues, Accepts, Advances
  <2>5. QED  BY <2>3, <2>4 DEF Observation
<1>4. QED  BY <1>2, <1>3

LEMMA WarmOnStep ==
  ASSUME RulesIInv, NEW i \in Instruments, NEW o \in Observation, WarmOn(i, o)
  PROVE  RulesIInv'
<1> DEFINE r == Continued(i, o)
<1>1. TypeOK /\ RuleInv /\ Fits(i, o)  BY DEF RulesIInv, WarmOn
<1>2. /\ r \in State /\ r.window = Kept(i, o) \cup {o} /\ r.last = o
      /\ r.state = "warming_up"
  BY <1>1, ContinuedFacts DEF WarmOn
<1>3. Goes(i, o, r) /\ answer' = Plain("none") /\ UNCHANGED alarm  BY DEF WarmOn
<1> HIDE DEF r
<1>4. AlarmOK(r, alarm[i])
  <2>1. ASSUME alarm[i] # NoTime, NEW p \in r.window PROVE alarm[i] <= p.at
    <3>1. CASE p = o
      <4>1. now \in Nat /\ o.at \in Nat /\ now <= o.at  BY <1>1, KeptFacts
      <4>2. alarm[i] \in Nat /\ alarm[i] <= now  BY <1>1, <2>1, LastAlarm
      <4>3. QED  BY <3>1, <4>1, <4>2
    <3>2. CASE p \in Kept(i, o)
      <4>1. p \in rule[i].window  BY <1>1, <3>2, KeptFacts
      <4>2. rule[i].state = "warming_up" /\ AlarmOK(rule[i], alarm[i])
        BY <1>1, LastAlarm DEF WarmOn
      <4>3. QED  BY <2>1, <4>1, <4>2 DEF AlarmOK
    <3>3. QED  BY <1>2, <2>1, <3>1, <3>2
  <2>2. QED  BY <1>2, <2>1 DEF AlarmOK
<1>5. answer' \in Answer  BY <1>3 DEF Answer, Plain, Kinds
<1>6. AlarmJustified'  BY <1>3, PlainJustified DEF Kinds
<1>7. QED  BY <1>1, <1>2, <1>3, <1>4, <1>5, <1>6, QuietStep DEF RulesIInv

\* An armed rule, or one that cools down, that only takes the observation.
LEMMA StaysStep ==
  ASSUME RulesIInv, NEW i \in Instruments, NEW o \in Observation,
         Fits(i, o), Stays(i, o), rule[i].state \in {"armed", "cooling_down"}
  PROVE  RulesIInv'
<1> DEFINE r == Continued(i, o)
<1>1. TypeOK /\ RuleInv  BY DEF RulesIInv
<1>2. /\ r \in State /\ r.window = Kept(i, o) \cup {o} /\ r.last = o
      /\ r.state = rule[i].state /\ r.triggeredAt = rule[i].triggeredAt
  BY <1>1, ContinuedFacts
<1>3. Goes(i, o, r) /\ answer' = Plain("none") /\ UNCHANGED alarm  BY DEF Stays
<1> HIDE DEF r
<1>4. AlarmOK(r, alarm[i])
  <2>1. /\ AlarmOK(rule[i], alarm[i]) /\ rule[i].last.at \in Nat /\ rule[i].last.at < o.at
        /\ alarm[i] # NoTime => alarm[i] \in Nat
        /\ o.at \in Nat
    BY <1>1, LastAlarm, KeptFacts
  <2>2. r.state = "armed" /\ alarm[i] # NoTime => alarm[i] + Spacing <= o.at
    BY <1>2, <2>1, SpacingBounds DEF AlarmOK
  <2>3. r.state = "cooling_down" => /\ alarm[i] = r.triggeredAt /\ alarm[i] \in Nat
                                    /\ alarm[i] <= o.at
    BY <1>2, <2>1 DEF AlarmOK
  <2>4. QED  BY <1>2, <2>2, <2>3 DEF AlarmOK
<1>5. answer' \in Answer  BY <1>3 DEF Answer, Plain, Kinds
<1>6. AlarmJustified'  BY <1>3, PlainJustified DEF Kinds
<1>7. QED  BY <1>1, <1>2, <1>3, <1>4, <1>5, <1>6, QuietStep DEF RulesIInv

\* A state is set in a rule.
LEMMA RuleSet ==
  ASSUME NEW c \in State, NEW st \in RuleStates
  PROVE  /\ [c EXCEPT !.state = st] \in State
         /\ [c EXCEPT !.state = st].window = c.window /\ [c EXCEPT !.state = st].last = c.last
         /\ [c EXCEPT !.state = st].state = st
         /\ [c EXCEPT !.state = st].triggeredAt = c.triggeredAt
<1>1. QED  BY DEF State

LEMMA WarmedUpStep ==
  ASSUME RulesIInv, NEW i \in Instruments, NEW o \in Observation, WarmedUp(i, o)
  PROVE  RulesIInv'
<1> DEFINE c == Continued(i, o)
           r == [c EXCEPT !.state = "armed"]
<1>1. TypeOK /\ RuleInv /\ Fits(i, o) /\ Measures(i, o) /\ rule[i].state = "warming_up"
  BY DEF RulesIInv, WarmedUp, Compares, Measures
<1>2. /\ r \in State /\ r.window = Kept(i, o) \cup {o} /\ r.last = o
      /\ r.state = "armed"
  <2>1. c \in State /\ c.window = Kept(i, o) \cup {o} /\ c.last = o
    BY <1>1, ContinuedFacts
  <2> HIDE DEF c
  <2>2. QED  BY <2>1, RuleSet DEF RuleStates
<1>3. Goes(i, o, r) /\ answer' = Plain("warmed_up") /\ UNCHANGED alarm  BY DEF WarmedUp
<1> HIDE DEF r, c
<1>4. AlarmOK(r, alarm[i])
  <2>1. alarm[i] # NoTime => alarm[i] + Spacing <= o.at
    <3>1. SUFFICES ASSUME alarm[i] # NoTime PROVE alarm[i] + Spacing <= o.at  OBVIOUS
    <3>2. alarm[i] \in Nat /\ AlarmOK(rule[i], alarm[i])  BY <1>1, <3>1, LastAlarm
    <3>3. /\ Edge(i, o) \in rule[i].window /\ Edge(i, o).at \in Nat
          /\ Edge(i, o).at <= o.at - Window
      BY <1>1, EdgeFacts, KeptFacts DEF Observation
    <3>4. alarm[i] <= Edge(i, o).at  BY <1>1, <3>1, <3>2, <3>3 DEF AlarmOK
    <3>5. o.at \in Nat /\ Window \in Nat /\ Spacing \in Nat /\ Spacing <= Window
      BY LimitsAssumption, SpacingBounds DEF Observation
    <3>6. QED  BY <3>2, <3>3, <3>4, <3>5
  <2>2. QED  BY <1>2, <2>1 DEF AlarmOK
<1>5. answer' \in Answer  BY <1>3 DEF Answer, Plain, Kinds
<1>6. AlarmJustified'  BY <1>3, PlainJustified DEF Kinds
<1>7. QED  BY <1>1, <1>2, <1>3, <1>4, <1>5, <1>6, QuietStep DEF RulesIInv

LEMMA TriggeredStep ==
  ASSUME RulesIInv, NEW i \in Instruments, NEW o \in Observation, Triggered(i, o)
  PROVE  RulesIInv'
<1> DEFINE c == Continued(i, o)
           r == [c EXCEPT !.state = "triggered", !.triggeredAt = o.at]
<1>1. TypeOK /\ RuleInv /\ Fits(i, o) /\ Measures(i, o)
  BY DEF RulesIInv, Triggered, Compares, Measures
<1>2. /\ r \in State /\ r.window = Kept(i, o) \cup {o} /\ r.last = o
      /\ r.state = "triggered" /\ r.triggeredAt = o.at /\ o.at \in Nat
  <2>1. c \in State /\ c.window = Kept(i, o) \cup {o} /\ c.last = o /\ o.at \in Nat
    BY <1>1, ContinuedFacts DEF Observation
  <2> HIDE DEF c
  <2>2. QED  BY <2>1 DEF State, RuleStates
<1>3. Goes(i, o, r) /\ Alarm(i, o, "triggered") /\ alarm' = [alarm EXCEPT ![i] = o.at]
  BY DEF Triggered
<1> HIDE DEF r, c
<1>4. AlarmOK(r, o.at)  BY <1>2 DEF AlarmOK
<1>5. answer' \in Answer /\ AlarmJustified'
  BY <1>1, <1>3, AlarmIsJustified DEF Kinds
<1>6. o.at \in Nat \cup {NoTime} /\ o.at <= o.at  BY <1>2
<1>7. TypeOK' /\ RuleInv'  BY <1>1, <1>2, <1>3, <1>4, <1>5, <1>6, ContinuePreserves
<1>8. QED  BY <1>5, <1>7 DEF RulesIInv

LEMMA CoolDownStep ==
  ASSUME RulesIInv, NEW i \in Instruments, NEW o \in Observation, CoolDown(i, o)
  PROVE  RulesIInv'
<1> DEFINE c == Continued(i, o)
           r == [c EXCEPT !.state = "cooling_down"]
<1>1. TypeOK /\ RuleInv /\ Fits(i, o) /\ rule[i].state = "triggered"
  BY DEF RulesIInv, CoolDown, Compares, Measures
<1>2. /\ r \in State /\ r.window = Kept(i, o) \cup {o} /\ r.last = o
      /\ r.state = "cooling_down" /\ r.triggeredAt = rule[i].triggeredAt
  <2>1. /\ c \in State /\ c.window = Kept(i, o) \cup {o} /\ c.last = o
        /\ c.triggeredAt = rule[i].triggeredAt
    BY <1>1, ContinuedFacts
  <2> HIDE DEF c
  <2>2. QED  BY <2>1, RuleSet DEF RuleStates
<1>3. Goes(i, o, r) /\ answer' = Plain("cooling_down") /\ UNCHANGED alarm  BY DEF CoolDown
<1> HIDE DEF r, c
<1>4. AlarmOK(r, alarm[i])
  <2>1. /\ AlarmOK(rule[i], alarm[i]) /\ rule[i].last.at \in Nat /\ rule[i].last.at < o.at
        /\ o.at \in Nat
    BY <1>1, LastAlarm DEF Observation
  <2>2. alarm[i] = r.triggeredAt /\ alarm[i] \in Nat /\ alarm[i] <= o.at
    BY <1>1, <1>2, <2>1 DEF AlarmOK
  <2>3. QED  BY <1>2, <2>2 DEF AlarmOK
<1>5. answer' \in Answer  BY <1>3 DEF Answer, Plain, Kinds
<1>6. AlarmJustified'  BY <1>3, PlainJustified DEF Kinds
<1>7. QED  BY <1>1, <1>2, <1>3, <1>4, <1>5, <1>6, QuietStep DEF RulesIInv

LEMMA RearmedStep ==
  ASSUME RulesIInv, NEW i \in Instruments, NEW o \in Observation, Rearmed(i, o)
  PROVE  RulesIInv'
<1> DEFINE c == Continued(i, o)
           r == [c EXCEPT !.state = "armed", !.triggeredAt = NoTime]
<1>1. TypeOK /\ RuleInv /\ Fits(i, o) /\ Measures(i, o) /\ rule[i].state = "cooling_down"
  BY DEF RulesIInv, Rearmed, Compares, Measures
<1>2. /\ r \in State /\ r.window = Kept(i, o) \cup {o} /\ r.last = o
      /\ r.state = "armed"
  <2>1. c \in State /\ c.window = Kept(i, o) \cup {o} /\ c.last = o
    BY <1>1, ContinuedFacts
  <2> HIDE DEF c
  <2>2. QED  BY <2>1 DEF State, RuleStates
<1>3. Goes(i, o, r) /\ Alarm(i, o, "rearmed") /\ UNCHANGED alarm  BY DEF Rearmed
<1> HIDE DEF r, c
<1>4. AlarmOK(r, alarm[i])
  <2>1. AlarmOK(rule[i], alarm[i]) /\ o.at \in Nat  BY <1>1, LastAlarm DEF Observation
  <2>2. alarm[i] = rule[i].triggeredAt /\ alarm[i] \in Nat  BY <1>1, <2>1 DEF AlarmOK
  <2>3. o.at - alarm[i] >= Cooldown  BY <2>2 DEF Rearmed, Cooled
  <2>4. alarm[i] + Spacing <= o.at
    BY <2>1, <2>2, <2>3, SpacingBounds, LimitsAssumption
  <2>5. QED  BY <1>2, <2>4 DEF AlarmOK
<1>5. answer' \in Answer /\ AlarmJustified'
  BY <1>1, <1>3, AlarmIsJustified DEF Kinds
<1>6. QED  BY <1>1, <1>2, <1>3, <1>4, <1>5, QuietStep DEF RulesIInv

\* Whatever empties the window and starts it again.
LEMMA RestartStep ==
  ASSUME RulesIInv, NEW i \in Instruments, NEW o \in Observation, Accepts(i, o),
         NEW kind \in Kinds \ {"triggered", "rearmed"}, Restart(i, o, kind)
  PROVE  RulesIInv'
<1>1. TypeOK /\ RuleInv /\ answer' = Plain(kind)  BY DEF RulesIInv, Restart
<1>2. TypeOK' /\ RuleInv'  BY <1>1, RestartPreserves
<1>3. AlarmJustified'  BY <1>1, PlainJustified
<1>4. QED  BY <1>2, <1>3 DEF RulesIInv

\* One instrument's rule starts anew without an observation.
LEMMA InjectResetStep ==
  ASSUME RulesIInv, NEW i \in Instruments, InjectReset(i)
  PROVE  RulesIInv'
<1>1. TypeOK /\ RuleInv  BY DEF RulesIInv
<1>2. /\ rule' = [rule EXCEPT ![i] = Fresh] /\ answer' = Plain("reset")
      /\ seen' = [seen EXCEPT ![i] = {}] /\ UNCHANGED <<family, known, now, alarm>>
  BY DEF InjectReset
<1>3. /\ rule'[i] = Fresh /\ seen'[i] = {}
      /\ \A j \in Instruments \ {i} : rule'[j] = rule[j] /\ seen'[j] = seen[j]
      /\ rule' \in [Instruments -> State] /\ seen' \in [Instruments -> SUBSET Nat]
  BY <1>1, <1>2, FreshFacts DEF TypeOK
<1>4. answer' \in Answer /\ AlarmJustified'
  BY <1>2, PlainJustified DEF Answer, Plain, Kinds
<1>5. ASSUME NEW j \in Instruments
      PROVE  IsFiniteSet(rule'[j].window) /\ Cardinality(rule'[j].window) <= Capacity
  <2>1. CASE j = i
    <3>1. rule'[j].window = {}  BY <1>3, <2>1 DEF Fresh
    <3>2. IsFiniteSet({}) /\ Cardinality({}) = 0  BY FS_EmptySet
    <3>3. QED  BY <3>1, <3>2, LimitsAssumption
  <2>2. CASE j # i  BY <1>1, <1>3, <2>2 DEF TypeOK
  <2>3. QED  BY <2>1, <2>2
<1>6. TypeOK'  BY <1>1, <1>2, <1>3, <1>4, <1>5 DEF TypeOK
<1>7. ASSUME NEW a, a # NoTime => a <= now PROVE RuleOK(family, Fresh, {}, a, now)
  BY <1>7 DEF RuleOK, WindowOK, LevelOK, AlarmOK, Fresh
<1>8. ASSUME NEW j \in Instruments
      PROVE  RuleOK(family, rule[j], seen[j], alarm[j], now)
  BY <1>1 DEF RuleInv
<1>9. RuleInv'
  <2>1. RuleOK(family, Fresh, {}, alarm[i], now)  BY <1>7, <1>8 DEF RuleOK
  <2>2. QED  BY <1>2, <1>3, <1>8, <2>1 DEF RuleInv
<1>10. QED  BY <1>4, <1>6, <1>9 DEF RulesIInv

\* All of them do.
LEMMA RecreateStep ==
  ASSUME RulesIInv, Recreate
  PROVE  RulesIInv'
<1>1. TypeOK /\ RuleInv  BY DEF RulesIInv
<1>2. /\ known' = {} /\ rule' = [i \in Instruments |-> Fresh] /\ answer' = Plain("none")
      /\ seen' = [i \in Instruments |-> {}] /\ UNCHANGED <<family, now, alarm>>
  BY DEF Recreate
<1>3. answer' \in Answer /\ AlarmJustified'
  BY <1>2, PlainJustified DEF Answer, Plain, Kinds
<1>4. rule' \in [Instruments -> State] /\ seen' \in [Instruments -> SUBSET Nat]
  BY <1>2, FreshFacts
<1>5. known' \subseteq Instruments /\ Cardinality(known') <= MaxInstruments
  BY <1>2, FS_EmptySet, LimitsAssumption
<1>6. ASSUME NEW j \in Instruments
      PROVE  IsFiniteSet(rule'[j].window) /\ Cardinality(rule'[j].window) <= Capacity
  <2>1. rule'[j].window = {}  BY <1>2 DEF Fresh
  <2>2. IsFiniteSet({}) /\ Cardinality({}) = 0  BY FS_EmptySet
  <2>3. QED  BY <2>1, <2>2, LimitsAssumption
<1>7. TypeOK'  BY <1>1, <1>2, <1>3, <1>4, <1>5, <1>6 DEF TypeOK
<1>8. ASSUME NEW a, a # NoTime => a <= now PROVE RuleOK(family, Fresh, {}, a, now)
  BY <1>8 DEF RuleOK, WindowOK, LevelOK, AlarmOK, Fresh
<1>9. \A j \in Instruments : alarm[j] # NoTime => alarm[j] <= now
  BY <1>1 DEF RuleInv, RuleOK
<1>10. RuleInv'  BY <1>2, <1>8, <1>9 DEF RuleInv
<1>11. QED  BY <1>3, <1>7, <1>10 DEF RulesIInv

\* What does not touch a rule, an arrival or an alarm.
LEMMA RejectStep ==
  ASSUME RulesIInv, UNCHANGED <<family, known, rule, now, seen, alarm>>,
         answer' = Plain("rejected")
  PROVE  RulesIInv'
<1>1. answer' \in Answer /\ AlarmJustified'
  BY PlainJustified DEF Answer, Plain, Kinds
<1>2. TypeOK'  BY <1>1 DEF RulesIInv, TypeOK
<1>3. RuleInv'  BY DEF RulesIInv, RuleInv
<1>4. QED  BY <1>1, <1>2, <1>3 DEF RulesIInv

\* The inductive invariant.
THEOREM RulesInvariance == Spec => []RulesIInv
<1>1. Init => RulesIInv
  <2>1. SUFFICES ASSUME Init PROVE RulesIInv  OBVIOUS
  <2>2. rule \in [Instruments -> State] /\ answer \in Answer
    BY <2>1, FreshFacts DEF Init, Answer, Plain, Kinds
  <2>3. TypeOK
    <3>1. IsFiniteSet({}) /\ Cardinality({}) = 0  BY FS_EmptySet
    <3>2. \A i \in Instruments : rule[i].window = {}  BY <2>1 DEF Init, Fresh
    <3>3. seen \in [Instruments -> SUBSET Nat] /\ alarm \in [Instruments -> Nat \cup {NoTime}]
      BY <2>1 DEF Init
    <3>4. family \in Families /\ known = {} /\ now = 0  BY <2>1 DEF Init
    <3>5. \A i \in Instruments : IsFiniteSet(rule[i].window)
                                 /\ Cardinality(rule[i].window) <= Capacity
      BY <3>1, <3>2, LimitsAssumption
    <3>6. known \subseteq Instruments /\ Cardinality(known) <= MaxInstruments
      BY <3>1, <3>4, LimitsAssumption
    <3>7. QED  BY <2>2, <3>3, <3>4, <3>5, <3>6 DEF TypeOK
  <2>4. \A f : RuleOK(f, Fresh, {}, NoTime, 0)
    BY DEF RuleOK, WindowOK, LevelOK, AlarmOK, Fresh
  <2>5. RuleInv  BY <2>1, <2>4 DEF Init, RuleInv
  <2>6. AlarmJustified  BY <2>1 DEF Init, AlarmJustified, Plain
  <2>7. QED  BY <2>3, <2>5, <2>6 DEF RulesIInv
<1>2. RulesIInv /\ [Next]_vars => RulesIInv'
  <2>1. SUFFICES ASSUME RulesIInv, [Next]_vars PROVE RulesIInv'  OBVIOUS
  <2>2. ASSUME NEW i \in Instruments, NEW o \in Observation, Process(i, o)
        PROVE  RulesIInv'
    <3>1. CASE Discontinue(i, o)  BY <2>1, <3>1, RestartStep DEF Discontinue, Kinds
    <3>2. CASE RollBack(i, o)  BY <2>1, <3>2, RestartStep DEF RollBack, Kinds
    <3>3. CASE Overflow(i, o)
      BY <2>1, <3>3, RestartStep DEF Overflow, Continues, Kinds
    <3>4. CASE WarmOn(i, o)  BY <2>1, <3>4, WarmOnStep
    <3>5. CASE SamplingGap(i, o)
      BY <2>1, <3>5, RestartStep DEF SamplingGap, Fits, Continues, Kinds
    <3>6. CASE PriceOverflow(i, o)
      BY <2>1, <3>6, RestartStep DEF PriceOverflow, Measures, Fits, Continues, Kinds
    <3>7. CASE WarmedUp(i, o)  BY <2>1, <3>7, WarmedUpStep
    <3>8. CASE Triggered(i, o)  BY <2>1, <3>8, TriggeredStep
    <3>9. CASE StayArmed(i, o)
      BY <2>1, <3>9, StaysStep DEF StayArmed, Compares, Measures
    <3>10. CASE CoolDown(i, o)  BY <2>1, <3>10, CoolDownStep
    <3>11. CASE Rearmed(i, o)  BY <2>1, <3>11, RearmedStep
    <3>12. CASE StayCooling(i, o)
      BY <2>1, <3>12, StaysStep DEF StayCooling, Compares, Measures
    <3>13. QED
      BY <2>2, <3>1, <3>2, <3>3, <3>4, <3>5, <3>6, <3>7, <3>8, <3>9, <3>10, <3>11, <3>12
      DEF Process
  <2>3. ASSUME NEW i \in Instruments, NEW at \in Arrivals, NEW value \in Values,
               Process(i, [at |-> at, value |-> value])
        PROVE  RulesIInv'
    <3>1. now \in Nat /\ MaxTime \in Nat /\ MaxStep \in Nat
      BY <2>1, DataAssumption DEF RulesIInv, TypeOK
    <3>2. at \in Nat  BY <3>1 DEF Arrivals
    <3>3. [at |-> at, value |-> value] \in Observation  BY <3>2 DEF Observation
    <3>4. QED  BY <2>2, <2>3, <3>3
  <2>4. ASSUME NEW i \in Instruments, NEW at \in 0..MaxTime, Reject(i, at)
        PROVE  RulesIInv'
    BY <2>1, <2>4, RejectStep DEF Reject
  <2>5. CASE UNCHANGED vars
    BY <2>1, <2>5 DEF vars, RulesIInv, TypeOK, RuleInv, AlarmJustified
  <2>6. QED  BY <2>1, <2>3, <2>4, <2>5, InjectResetStep, RecreateStep DEF Next
<1>3. QED  BY <1>1, <1>2, PTL DEF Spec

\* Types and limits: no window exceeds its capacity, no more instruments have a
\* state than max_instruments allows (price.rs:818, lib.rs MonitorLimits).
THEOREM TypeCorrect == Spec => []TypeOK
<1>1. RulesIInv => TypeOK  BY DEF RulesIInv
<1>2. QED  BY <1>1, RulesInvariance, PTL

\* Every alarm and every rearming compares the newest observation with the latest
\* arrival that is old enough, of one unbroken window (price.rs:891-955).
THEOREM AlarmsCorrect == Spec => []AlarmJustified
<1>1. RulesIInv => AlarmJustified  BY DEF RulesIInv
<1>2. QED  BY <1>1, RulesInvariance, PTL

-----------------------------------------------------------------------------
(* Overflows *)

\* Every observation a pruned window keeps but one stands for an arrival later
\* than the cutoff.
LEMMA KeptAreYoung ==
  ASSUME NEW w \in SUBSET Observation, NEW l \in Observation \cup {NoObservation},
         NEW s \in SUBSET Nat, NEW n \in Nat, NEW cutoff \in Int,
         IsFiniteSet(w), WindowOK(w, l, s), \A p \in w : p.at <= n
  PROVE  /\ Cardinality({t \in s : t > cutoff}) >= Cardinality(Pruned(w, cutoff)) - 1
         /\ Cardinality({t \in s : t > cutoff}) \in Int /\ Cardinality(Pruned(w, cutoff)) \in Int
<1> DEFINE k == Pruned(w, cutoff)
           D == {p \in k : p.at > cutoff}
           T == {t \in s : t > cutoff}
<1>1. /\ k \subseteq w
      /\ \A p \in k, q \in w : p.at < q.at => cutoff < q.at
  BY PrunedFacts
<1>2. \A p \in w : p.at \in Nat  BY DEF Observation
<1>3. IsFiniteSet(k) /\ IsFiniteSet(D)
  <2>1. IsFiniteSet(k)  BY <1>1, FS_Subset
  <2> HIDE DEF k
  <2>2. D \in SUBSET k  OBVIOUS
  <2>3. QED  BY <2>1, <2>2, FS_Subset
<1>4. IsFiniteSet(T)
  <2>1. ASSUME NEW t \in s PROVE t <= n
    <3>1. CASE \E p \in w : p.at = t  BY <3>1
    <3>2. CASE \A q \in w : t < q.at
      <4>1. PICK q \in w : TRUE  BY DEF WindowOK
      <4>2. t \in Nat /\ q.at \in Nat /\ t < q.at /\ q.at <= n  BY <1>2, <3>2, <4>1
      <4>3. QED  BY <4>2
    <3>3. QED  BY <3>1, <3>2 DEF WindowOK
  <2>2. T \in SUBSET Nat /\ \A t \in T : t <= n  BY <2>1
  <2> HIDE DEF T
  <2>3. QED  BY <2>2, FS_BoundedSetOfNaturals
<1>5. Cardinality(D) <= Cardinality(T)
  <2> DEFINE f == [p \in D |-> p.at]
  <2>1. f \in Injection(D, T)
    <3>1. \A p \in D : p \in w /\ p.at \in T  BY <1>1 DEF WindowOK
    <3>2. \A p \in D, q \in D : p.at = q.at => p = q  BY <3>1 DEF WindowOK
    <3> HIDE DEF D, T
    <3>3. QED  BY <3>1, <3>2 DEF Injection, IsInjective
  <2> HIDE DEF D, T, f
  <2>2. QED  BY <1>4, <2>1, FS_Injection
<1>6. \A p \in k, q \in k : p.at <= cutoff /\ q.at <= cutoff => p = q
  <2>1. SUFFICES ASSUME NEW p \in k, NEW q \in k, p.at <= cutoff, q.at <= cutoff
                 PROVE  p = q
    OBVIOUS
  <2>2. p \in w /\ q \in w /\ p.at \in Nat /\ q.at \in Nat  BY <1>1, <1>2
  <2>3. ~ (p.at < q.at) /\ ~ (q.at < p.at)  BY <1>1, <2>1, <2>2
  <2>4. p.at = q.at  BY <2>2, <2>3
  <2>5. QED  BY <2>2, <2>4 DEF WindowOK
<1>7. Cardinality(D) >= Cardinality(k) - 1
  <2>1. \A p \in k : p.at \in Int  BY <1>1, <1>2
  <2>2. CASE \A p \in k : p.at > cutoff
    <3>1. D = k  BY <2>2
    <3>2. Cardinality(k) \in Nat  BY <1>3, FS_CardinalityType
    <3> HIDE DEF D, k
    <3>3. QED  BY <3>1, <3>2
  <2>3. CASE \E p \in k : ~ (p.at > cutoff)
    <3>1. PICK p \in k : ~ (p.at > cutoff)  BY <2>3
    <3>2. D = k \ {p}  BY <1>6, <2>1, <3>1
    <3> HIDE DEF D, k
    <3>3. Cardinality(k) \in Nat /\ Cardinality(k \ {p}) = Cardinality(k) - 1
      BY <1>3, <3>1, FS_CardinalityType, FS_RemoveElement
    <3>4. QED  BY <3>2, <3>3
  <2>4. QED  BY <2>2, <2>3
<1>8. Cardinality(D) \in Nat /\ Cardinality(T) \in Nat /\ Cardinality(k) \in Nat
  BY <1>3, <1>4, FS_CardinalityType
<1>9. Cardinality(T) >= Cardinality(k) - 1
  <2> HIDE DEF D, k, T
  <2>1. QED  BY <1>5, <1>7, <1>8
<1>10. QED  BY <1>8, <1>9

\* The steps of one instrument leave the others' rules alone.
LEMMA OnlyOne ==
  ASSUME TypeOK, NEW i \in Instruments, NEW o, Process(i, o)
  PROVE  \A j \in Instruments \ {i} : rule'[j] = rule[j]
<1>1. \E r : rule' = [rule EXCEPT ![i] = r]
  BY DEF Process, Discontinue, RollBack, Overflow, WarmOn, SamplingGap, PriceOverflow,
         WarmedUp, Triggered, StayArmed, CoolDown, Rearmed, StayCooling, Restart, Stays, Goes
<1>2. QED  BY <1>1 DEF TypeOK

\* A window is full only of observations younger than it is long, but for one
\* (prune_for before the capacity check, price.rs:818).
THEOREM OverflowCorrect == Spec => OverflowIsDense
<1> DEFINE Dense(i) == answer'.kind = "window_overflow" /\ rule'[i] # rule[i] =>
                         Cardinality({t \in seen[i] : t > now' - Window}) >= Capacity - 1
<1>1. ASSUME RulesIInv, [Next]_vars, NEW i \in Instruments PROVE Dense(i)
  <2>1. SUFFICES ASSUME answer'.kind = "window_overflow", rule'[i] # rule[i]
                 PROVE  Cardinality({t \in seen[i] : t > now' - Window}) >= Capacity - 1
    OBVIOUS
  <2>2. TypeOK /\ RuleInv  BY <1>1 DEF RulesIInv
  <2>3. PICK j \in Instruments, at \in Arrivals, value \in Values :
               Process(j, [at |-> at, value |-> value])
    <3>1. \A k \in Instruments : ~ InjectReset(k)  BY <2>1 DEF InjectReset, Plain
    <3>2. ~ Recreate  BY <2>1 DEF Recreate, Plain
    <3>3. QED  BY <1>1, <2>1, <3>1, <3>2 DEF Next, Reject, vars
  <2> DEFINE o == [at |-> at, value |-> value]
  <2>4. j = i  BY <2>1, <2>2, <2>3, OnlyOne
  <2>5. o \in Observation /\ o.at \in Nat
    <3>1. now \in Nat /\ MaxTime \in Nat /\ MaxStep \in Nat
      BY <2>2, DataAssumption DEF TypeOK
    <3>2. at \in Nat  BY <3>1 DEF Arrivals
    <3>3. QED  BY <3>2 DEF Observation
  <2> HIDE DEF o
  <2>6. Overflow(i, o)
    <3>1. Process(i, o)  BY <2>3, <2>4 DEF o
    <3>2. \A kind : answer' = Plain(kind) => kind = "window_overflow"
      BY <2>1 DEF Plain
    <3>3. \A kind : Alarm(i, o, kind) => kind = "window_overflow"
      BY <2>1 DEF Alarm
    <3>4. QED
      BY <3>1, <3>2, <3>3
      DEF Process, Discontinue, RollBack, WarmOn, SamplingGap, PriceOverflow, WarmedUp,
          Triggered, StayArmed, CoolDown, Rearmed, StayCooling, Restart, Stays
  <2>7. /\ now' = o.at /\ Cardinality(Kept(i, o)) >= Capacity
    BY <2>6 DEF Overflow, Continues, Accepts
  <2>8. /\ rule[i].window \in SUBSET Observation /\ IsFiniteSet(rule[i].window)
        /\ rule[i].last \in Observation \cup {NoObservation}
        /\ seen[i] \in SUBSET Nat /\ now \in Nat /\ (o.at - Window) \in Int
        /\ WindowOK(rule[i].window, rule[i].last, seen[i])
        /\ \A p \in rule[i].window : p.at <= now
    BY <2>2, <2>5, LimitsAssumption DEF TypeOK, State, RuleInv, RuleOK
  <2>9. /\ Cardinality({t \in seen[i] : t > o.at - Window}) >= Cardinality(Kept(i, o)) - 1
        /\ Cardinality({t \in seen[i] : t > o.at - Window}) \in Int
        /\ Cardinality(Kept(i, o)) \in Int
    BY <2>8, KeptAreYoung DEF Kept
  <2>10. {t \in seen[i] : t > now' - Window} = {t \in seen[i] : t > o.at - Window}
    BY <2>7
  <2>11. QED  BY <2>7, <2>9, <2>10, LimitsAssumption
<1>2. RulesIInv /\ [Next]_vars =>
        [\A i \in Instruments : answer'.kind = "window_overflow" /\ rule'[i] # rule[i] =>
           Cardinality({t \in seen[i] : t > now' - Window}) >= Capacity - 1]_vars
  BY <1>1
<1>3. QED  BY <1>2, RulesInvariance, PTL DEF Spec, OverflowIsDense

-----------------------------------------------------------------------------
(* Alarms are episodes *)

Alarmed(r) == r.state \in {"triggered", "cooling_down"}

\* No way through process but one raises an alarm.
LEMMA NothingRaises ==
  ASSUME RulesIInv, NEW i \in Instruments, NEW o \in Observation,
         Process(i, o), ~ Triggered(i, o)
  PROVE  alarm' = alarm /\ (Alarmed(rule'[i]) => Alarmed(rule[i]))
<1> DEFINE c == Continued(i, o)
<1>1. TypeOK /\ RuleInv  BY DEF RulesIInv
<1>2. \A r : rule' = [rule EXCEPT ![i] = r] => rule'[i] = r  BY <1>1 DEF TypeOK
<1>3. ASSUME NEW kind, Restart(i, o, kind) PROVE alarm' = alarm /\ ~ Alarmed(rule'[i])
  <2>1. alarm' = alarm /\ rule'[i] = ResetAndSeed(o)  BY <1>2, <1>3 DEF Restart
  <2>2. ResetAndSeed(o).state = "warming_up"  BY FreshFacts
  <2>3. QED  BY <2>1, <2>2 DEF Alarmed
<1>4. CASE Discontinue(i, o) \/ RollBack(i, o) \/ Overflow(i, o) \/ SamplingGap(i, o)
           \/ PriceOverflow(i, o)
  BY <1>3, <1>4 DEF Discontinue, RollBack, Overflow, SamplingGap, PriceOverflow
<1>5. Fits(i, o) => c \in State /\ c.state = rule[i].state
  BY <1>1, ContinuedFacts
<1>6. CASE WarmOn(i, o) \/ StayArmed(i, o) \/ StayCooling(i, o)
  <2>1. Fits(i, o) /\ alarm' = alarm /\ rule'[i] = c
    BY <1>2, <1>6
    DEF WarmOn, StayArmed, StayCooling, Compares, Measures, Stays, Goes
  <2>2. QED  BY <1>5, <2>1 DEF Alarmed
<1>7. CASE WarmedUp(i, o)
  <2>1. Fits(i, o) /\ alarm' = alarm /\ rule'[i] = [c EXCEPT !.state = "armed"]
    BY <1>2, <1>7 DEF WarmedUp, Compares, Measures, Goes
  <2> HIDE DEF c
  <2>2. rule'[i].state = "armed"  BY <1>5, <2>1, RuleSet DEF RuleStates
  <2>3. QED  BY <2>1, <2>2 DEF Alarmed
<1>8. CASE CoolDown(i, o)
  <2>1. alarm' = alarm /\ rule[i].state = "triggered"  BY <1>8 DEF CoolDown, Compares
  <2>2. QED  BY <2>1 DEF Alarmed
<1>9. CASE Rearmed(i, o)
  <2>1. alarm' = alarm /\ rule[i].state = "cooling_down"  BY <1>9 DEF Rearmed, Compares
  <2>2. QED  BY <2>1 DEF Alarmed
<1>10. QED  BY <1>4, <1>6, <1>7, <1>8, <1>9 DEF Process

\* An alarm is raised by a rule that is armed, and far enough from its last one.
LEMMA TriggeredRaises ==
  ASSUME RulesIInv, NEW i \in Instruments, NEW o \in Observation, Triggered(i, o)
  PROVE  Episodes!Raise(i)
<1> DEFINE c == Continued(i, o)
<1>1. TypeOK /\ RuleInv /\ Fits(i, o) /\ rule[i].state = "armed"
  BY DEF RulesIInv, Triggered, Compares, Measures
<1>2. /\ rule' = [rule EXCEPT ![i] = [c EXCEPT !.state = "triggered", !.triggeredAt = o.at]]
      /\ alarm' = [alarm EXCEPT ![i] = o.at] /\ o.at \in Nat
  BY DEF Triggered, Goes, Observation
<1>3. c \in State  BY <1>1, ContinuedFacts
<1> HIDE DEF c
<1>4. rule'[i].state = "triggered"  BY <1>1, <1>2, <1>3 DEF TypeOK, State
<1>5. \A j \in Instruments \ {i} : rule'[j] = rule[j]  BY <1>1, <1>2 DEF TypeOK
<1>6. {j \in Instruments : Alarmed(rule'[j])} = {j \in Instruments : Alarmed(rule[j])} \cup {i}
  BY <1>4, <1>5 DEF Alarmed
<1>7. i \notin {j \in Instruments : Alarmed(rule[j])}  BY <1>1 DEF Alarmed
<1>8. alarm'[i] = o.at /\ alarm' = [alarm EXCEPT ![i] = alarm'[i]]
  BY <1>1, <1>2 DEF TypeOK
<1>9. alarm[i] = NoTime \/ o.at > alarm[i] + Spacing
  <2>1. SUFFICES ASSUME alarm[i] # NoTime PROVE o.at > alarm[i] + Spacing  OBVIOUS
  <2>2. /\ AlarmOK(rule[i], alarm[i]) /\ alarm[i] \in Nat
        /\ rule[i].last.at \in Nat /\ rule[i].last.at < o.at
    BY <1>1, <2>1, LastAlarm
  <2>3. alarm[i] + Spacing <= rule[i].last.at  BY <1>1, <2>1, <2>2 DEF AlarmOK
  <2>4. QED  BY <1>2, <2>2, <2>3, SpacingBounds
<1>10. QED  BY <1>2, <1>6, <1>7, <1>8, <1>9 DEF Episodes!Raise, Alarmed

\* The rules of a monitor, with their gaps, rollbacks, overflows and resets,
\* implement AlarmEpisode: no alarm is raised twice, and none sooner than the
\* spacing after the instrument's last (price.rs:839-873, 957-960).
THEOREM EpisodesCorrect == Spec => AlarmEpisodes
<1>1. Init => Episodes!Init
  <2>1. SUFFICES ASSUME Init PROVE Episodes!Init  OBVIOUS
  <2>2. \A i \in Instruments : rule[i].state = "warming_up"  BY <2>1 DEF Init, Fresh
  <2>3. QED  BY <2>1, <2>2 DEF Init, Episodes!Init
<1>2. RulesIInv /\ [Next]_vars =>
        Episodes!Next \/ UNCHANGED <<{i \in Instruments :
                                        rule[i].state \in {"triggered", "cooling_down"}}, alarm>>
  <2>1. SUFFICES ASSUME RulesIInv, [Next]_vars
                 PROVE  \/ Episodes!Next
                        \/ UNCHANGED <<{i \in Instruments :
                             rule[i].state \in {"triggered", "cooling_down"}}, alarm>>
    OBVIOUS
  <2>2. ASSUME alarm' = alarm,
               \A i \in Instruments : Alarmed(rule'[i]) => Alarmed(rule[i])
        PROVE  Episodes!Clear
    <3>1. {i \in Instruments : Alarmed(rule'[i])} \subseteq
          {i \in Instruments : Alarmed(rule[i])}
      BY <2>2
    <3>2. QED  BY <2>2, <3>1 DEF Episodes!Clear, Alarmed
  <2>3. TypeOK /\ ~ Alarmed(Fresh)  BY <2>1 DEF RulesIInv, Alarmed, Fresh
  <2>4. ASSUME NEW i \in Instruments, NEW o \in Observation, Process(i, o)
        PROVE  Episodes!Next
    <3>1. CASE Triggered(i, o)  BY <2>1, <3>1, TriggeredRaises DEF Episodes!Next
    <3>2. CASE ~ Triggered(i, o)
      <4>1. alarm' = alarm /\ (Alarmed(rule'[i]) => Alarmed(rule[i]))
        BY <2>1, <2>4, <3>2, NothingRaises
      <4>2. \A j \in Instruments \ {i} : rule'[j] = rule[j]  BY <2>3, <2>4, OnlyOne
      <4>3. Episodes!Clear  BY <2>2, <4>1, <4>2
      <4>4. QED  BY <4>3 DEF Episodes!Next
    <3>3. QED  BY <3>1, <3>2
  <2>5. ASSUME NEW i \in Instruments, NEW at \in Arrivals, NEW value \in Values,
               Process(i, [at |-> at, value |-> value])
        PROVE  Episodes!Next
    <3>1. now \in Nat /\ MaxTime \in Nat /\ MaxStep \in Nat
      BY <2>3, DataAssumption DEF TypeOK
    <3>2. at \in Nat  BY <3>1 DEF Arrivals
    <3>3. [at |-> at, value |-> value] \in Observation  BY <3>2 DEF Observation
    <3>4. QED  BY <2>4, <2>5, <3>3
  <2>6. ASSUME NEW i \in Instruments, InjectReset(i) PROVE Episodes!Next
    <3>1. alarm' = alarm /\ rule' = [rule EXCEPT ![i] = Fresh]  BY <2>6 DEF InjectReset
    <3>2. \A j \in Instruments : Alarmed(rule'[j]) => Alarmed(rule[j])
      BY <2>3, <3>1 DEF TypeOK
    <3>3. QED  BY <2>2, <3>1, <3>2 DEF Episodes!Next
  <2>7. CASE Recreate
    <3>1. alarm' = alarm /\ rule' = [i \in Instruments |-> Fresh]  BY <2>7 DEF Recreate
    <3>2. \A j \in Instruments : Alarmed(rule'[j]) => Alarmed(rule[j])  BY <2>3, <3>1
    <3>3. QED  BY <2>2, <3>1, <3>2 DEF Episodes!Next
  <2>8. CASE rule' = rule /\ alarm' = alarm  BY <2>8
  <2>9. QED  BY <2>1, <2>5, <2>6, <2>7, <2>8 DEF Next, Reject, vars
<1>3. QED  BY <1>1, <1>2, RulesInvariance, PTL DEF Spec, AlarmEpisodes, Episodes!Spec
=============================================================================
