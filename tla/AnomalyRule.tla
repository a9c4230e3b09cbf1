----------------------------- MODULE AnomalyRule -----------------------------
\* The deterministic anomaly monitors of magic-market-monitor: one rule over a
\* sliding window per instrument, for the price (price.rs) or for a cumulative
\* amount or volume (turnover.rs, which repeats price.rs with a rollback check).
\* An instrument's state machine warms up, arms, triggers, cools down and rearms;
\* gaps, rollbacks, overflow and injected resets take it back to warming up.
EXTENDS Integers, FiniteSets

CONSTANTS
  Instruments,
  MaxInstruments,  \* MonitorLimits.max_instruments
  Capacity,        \* MonitorLimits.window_capacity
  Window,          \* window_millis
  Tolerance,       \* boundary_tolerance_millis
  Cooldown,        \* cooldown_millis
  Trigger, Rearm,  \* per family: percent of the old price, or a difference
  MaxRatio,        \* the largest finite price ratio
  Values,          \* prices, or cumulative totals
  NoTime, NoObservation, NoInstrument,
  MaxTime, MaxStep \* bounds: the last arrival, and the distance of two

Families == {"price", "cumulative"}

ASSUME LimitsAssumption ==
  /\ MaxInstruments \in Nat \ {0} /\ Capacity \in Nat \ {0, 1}
  /\ Window \in Nat \ {0} /\ Tolerance \in 0..Window /\ Cooldown \in Nat
ASSUME ThresholdAssumption ==
  /\ Trigger \in [Families -> Nat \ {0}] /\ Rearm \in [Families -> Nat] /\ MaxRatio \in Nat
  /\ \A f \in Families : Rearm[f] < Trigger[f]
ASSUME DataAssumption ==
  /\ IsFiniteSet(Instruments) /\ Values \subseteq Nat \ {0} /\ NoTime \notin Nat
  /\ NoInstrument \notin Instruments /\ MaxTime \in Nat /\ MaxStep \in Nat

Observation == [at : Nat, value : Values]
ASSUME ObservationAssumption == NoObservation \notin Observation

RuleStates == {"warming_up", "armed", "triggered", "cooling_down"}

\* What a call returns: a transition, none, or one of the errors. The error of
\* delta() for a total that fell (turnover.rs:760) is left out: the rollback
\* check makes it unreachable, as AlarmJustified says.
Kinds == {"none", "warmed_up", "triggered", "cooling_down", "rearmed", "reset",
          "window_overflow", "price_overflow", "rejected"}
Answer == [kind : Kinds, instrument : Instruments \cup {NoInstrument},
           boundary : Observation \cup {NoObservation},
           current : Observation \cup {NoObservation}]

\* InstrumentState and DeltaState. last is the observation seeded last, which
\* carries last_arrival_millis and last_cumulative. The window is a set because
\* the arrivals in it strictly increase.
State == [state : RuleStates, window : SUBSET Observation,
          last : Observation \cup {NoObservation}, triggeredAt : Nat \cup {NoTime}]
Fresh == [state |-> "warming_up", window |-> {}, last |-> NoObservation,
          triggeredAt |-> NoTime]

VARIABLES
  family,   \* which monitor this is; it never changes
  known,    \* the instruments that have a state
  rule,     \* their states
  answer,   \* what the last call returned; an alarm and its end name what they compared
  now,      \* environment: the latest arrival
  seen,     \* history: arrivals since an instrument's window was last emptied
  alarm     \* history: when an instrument last triggered

vars == <<family, known, rule, answer, now, seen, alarm>>

Plain(kind) == [kind |-> kind, instrument |-> NoInstrument,
                boundary |-> NoObservation, current |-> NoObservation]

Init ==
  /\ family \in Families
  /\ known = {} /\ rule = [i \in Instruments |-> Fresh] /\ answer = Plain("none")
  /\ now = 0 /\ seen = [i \in Instruments |-> {}] /\ alarm = [i \in Instruments |-> NoTime]

-----------------------------------------------------------------------------
\* Operations on a window

\* reset_and_seed
ResetAndSeed(o) == [state |-> "warming_up", window |-> {o}, last |-> o,
                    triggeredAt |-> NoTime]

\* Mutant: the oldest observation is kept although the next one is just as old
\* as the window is long.
PrunedLate(window, cutoff) ==
  {p \in window : ~ \E q \in window : p.at < q.at /\ q.at < cutoff}

\* prune_for drops the oldest observation as long as the next one is old enough
\* to stand at the window's edge.
Pruned(window, cutoff) ==
  {p \in window : ~ \E q \in window : p.at < q.at /\ q.at <= cutoff}

Front(window) == CHOOSE p \in window : \A q \in window : p.at <= q.at

\* The comparison is possible if the front is old enough, and not too old.
Measurable(b, o) ==
  /\ b.at <= o.at - Window
  /\ o.at - Window - b.at <= Tolerance

Rises(b, o) ==
  IF family = "price" THEN 100 * (o.value - b.value) >= Trigger[family] * b.value
                      ELSE o.value - b.value >= Trigger[family]
Settles(b, o) ==
  IF family = "price" THEN 100 * (o.value - b.value) <= Rearm[family] * b.value
                      ELSE o.value - b.value <= Rearm[family]

NotFinite(b, o) == family = "price" /\ o.value - b.value > MaxRatio * b.value

\* reset_reason, but for the interrupted continuity and the source's record
\* count, which the environment decides.
RollsBack(r, o) ==
  family = "cumulative" /\ r.last # NoObservation /\ o.value < r.last.value

-----------------------------------------------------------------------------
\* process: Reject and the disjuncts of Process are the ways through it, in the
\* order of its tests.

\* An instrument beyond the limit gets no state; an arrival that does not
\* advance is refused before anything changes.
HasPlace(i) == i \in known \/ Cardinality(known) < MaxInstruments
Advances(i, at) == rule[i].last # NoObservation => at > rule[i].last.at

Reject(i, at) ==
  /\ ~ HasPlace(i) \/ ~ Advances(i, at)
  /\ answer' = Plain("rejected")
  /\ UNCHANGED <<family, known, rule, now, seen, alarm>>

\* lib.rs: callers inject a monotonic arrival time.
Accepts(i, o) ==
  /\ HasPlace(i) /\ Advances(i, o.at) /\ o.at >= now
  /\ known' = known \cup {i} /\ now' = o.at /\ UNCHANGED family

\* The window starts again with this observation.
Restart(i, o, kind) ==
  /\ rule' = [rule EXCEPT ![i] = ResetAndSeed(o)]
  /\ answer' = Plain(kind)
  /\ seen' = [seen EXCEPT ![i] = {o.at}] /\ UNCHANGED alarm

Discontinue(i, o) == Accepts(i, o) /\ Restart(i, o, "reset")
RollBack(i, o) == Accepts(i, o) /\ RollsBack(rule[i], o) /\ Restart(i, o, "reset")

\* From here on the observation continues the window, which keeps what Kept says.
Continues(i, o) == Accepts(i, o) /\ ~ RollsBack(rule[i], o)
\* Mutant: the capacity is checked before the window is pruned.
KeptUnpruned(i, o) == rule[i].window
Kept(i, o) == Pruned(rule[i].window, o.at - Window)

Overflow(i, o) ==
  /\ Continues(i, o) /\ Cardinality(Kept(i, o)) >= Capacity
  /\ Restart(i, o, "window_overflow")

\* Mutant: one observation more than the window holds.
FitsOneMore(i, o) == Continues(i, o) /\ Cardinality(Kept(i, o)) <= Capacity
Fits(i, o) == Continues(i, o) /\ Cardinality(Kept(i, o)) < Capacity
Edge(i, o) == Front(Kept(i, o) \cup {o})
Continued(i, o) == [rule[i] EXCEPT !.window = Kept(i, o) \cup {o}, !.last = o]

\* The rule of an instrument goes on as r.
Goes(i, o, r) ==
  rule' = [rule EXCEPT ![i] = r] /\ seen' = [seen EXCEPT ![i] = @ \cup {o.at}]

\* No observation stands at the window's edge: warming up continues, any other
\* state is given up.
WarmOn(i, o) ==
  /\ Fits(i, o) /\ ~ Measurable(Edge(i, o), o) /\ rule[i].state = "warming_up"
  /\ Goes(i, o, Continued(i, o)) /\ answer' = Plain("none") /\ UNCHANGED alarm
SamplingGap(i, o) ==
  /\ Fits(i, o) /\ ~ Measurable(Edge(i, o), o) /\ rule[i].state # "warming_up"
  /\ Restart(i, o, "reset")

Measures(i, o) == Fits(i, o) /\ Measurable(Edge(i, o), o)

PriceOverflow(i, o) ==
  Measures(i, o) /\ NotFinite(Edge(i, o), o) /\ Restart(i, o, "price_overflow")

\* In the state from, the rule compares the observation with the edge.
Compares(i, o, from) ==
  /\ Measures(i, o) /\ ~ NotFinite(Edge(i, o), o)
  /\ rule[i].state = from

\* The comparison leaves the state alone.
Stays(i, o) == Goes(i, o, Continued(i, o)) /\ answer' = Plain("none") /\ UNCHANGED alarm

Alarm(i, o, kind) ==
  answer' = [kind |-> kind, instrument |-> i, boundary |-> Edge(i, o), current |-> o]

WarmedUp(i, o) ==
  /\ Compares(i, o, "warming_up")
  /\ Goes(i, o, [Continued(i, o) EXCEPT !.state = "armed"])
  /\ answer' = Plain("warmed_up") /\ UNCHANGED alarm

Triggered(i, o) ==
  /\ Compares(i, o, "armed") /\ Rises(Edge(i, o), o)
  /\ Goes(i, o, [Continued(i, o) EXCEPT !.state = "triggered", !.triggeredAt = o.at])
  /\ Alarm(i, o, "triggered") /\ alarm' = [alarm EXCEPT ![i] = o.at]
StayArmed(i, o) == Compares(i, o, "armed") /\ ~ Rises(Edge(i, o), o) /\ Stays(i, o)

CoolDown(i, o) ==
  /\ Compares(i, o, "triggered")
  /\ Goes(i, o, [Continued(i, o) EXCEPT !.state = "cooling_down"])
  /\ answer' = Plain("cooling_down") /\ UNCHANGED alarm

\* Mutant: the rule rearms as soon as the value has settled.
CooledAtOnce(i, o) == Settles(Edge(i, o), o)
Cooled(i, o) ==
  /\ o.at - rule[i].triggeredAt >= Cooldown
  /\ Settles(Edge(i, o), o)
Rearmed(i, o) ==
  /\ Compares(i, o, "cooling_down") /\ Cooled(i, o)
  /\ Goes(i, o, [Continued(i, o) EXCEPT !.state = "armed", !.triggeredAt = NoTime])
  /\ Alarm(i, o, "rearmed") /\ UNCHANGED alarm
StayCooling(i, o) == Compares(i, o, "cooling_down") /\ ~ Cooled(i, o) /\ Stays(i, o)

Process(i, o) ==
  \/ Discontinue(i, o) \/ RollBack(i, o) \/ Overflow(i, o)
  \/ WarmOn(i, o) \/ SamplingGap(i, o) \/ PriceOverflow(i, o)
  \/ WarmedUp(i, o) \/ Triggered(i, o) \/ StayArmed(i, o)
  \/ CoolDown(i, o) \/ Rearmed(i, o) \/ StayCooling(i, o)

\* A calendar decision empties one window without an observation.
InjectReset(i) ==
  /\ i \in known /\ rule' = [rule EXCEPT ![i] = Fresh] /\ answer' = Plain("reset")
  /\ seen' = [seen EXCEPT ![i] = {}] /\ UNCHANGED <<family, known, now, alarm>>

\* The monitor server replaces its monitors whenever the terminal, the session
\* or a snapshot fails.
Recreate ==
  /\ known' = {} /\ rule' = [i \in Instruments |-> Fresh] /\ answer' = Plain("none")
  /\ seen' = [i \in Instruments |-> {}] /\ UNCHANGED <<family, now, alarm>>

Arrivals == {at \in now..now + MaxStep : at <= MaxTime}

Next ==
  \/ \E i \in Instruments, at \in Arrivals, value \in Values :
       Process(i, [at |-> at, value |-> value])
  \/ \E i \in Instruments, at \in 0..MaxTime : Reject(i, at)
  \/ \E i \in Instruments : InjectReset(i)
  \/ Recreate

Spec == Init /\ [][Next]_vars
-----------------------------------------------------------------------------
\* Properties

\* Every instrument's state is one of the code's, no window exceeds its capacity
\* and no more instruments have a state than the limits allow.
TypeOK ==
  /\ family \in Families
  /\ known \subseteq Instruments /\ Cardinality(known) <= MaxInstruments
  /\ rule \in [Instruments -> State]
  /\ \A i \in Instruments : /\ IsFiniteSet(rule[i].window)
                            /\ Cardinality(rule[i].window) <= Capacity
  /\ answer \in Answer
  /\ now \in Nat /\ seen \in [Instruments -> SUBSET Nat]
  /\ alarm \in [Instruments -> Nat \cup {NoTime}]

\* An alarm, and its end, compare two observations of one unbroken window: the
\* newest, and the latest of those since the last reset that are at least as old
\* as the window is long. The older one exceeds the window by no more than the
\* tolerance, and a cumulative total is never less than it was there (prune_for,
\* price_change and reset_reason together, price.rs:891-955).
AlarmJustified ==
  answer.kind \in {"triggered", "rearmed"} =>
    LET b == answer.boundary
        c == answer.current
        cutoff == c.at - Window
    IN  /\ {b.at, c.at} \subseteq seen[answer.instrument]
        /\ b.at <= cutoff /\ cutoff <= b.at + Tolerance
        /\ \A t \in seen[answer.instrument] : t <= b.at \/ cutoff < t
        /\ family = "cumulative" => b.value <= c.value

\* A window overflows only if it must: since the last reset, Capacity - 1
\* observations or more have arrived later than the window's edge
\* (prune_for before the capacity check, price.rs:818).
OverflowIsDense ==
  [][\A i \in Instruments : answer'.kind = "window_overflow" /\ rule'[i] # rule[i] =>
       Cardinality({t \in seen[i] : t > now' - Window}) >= Capacity - 1]_vars

\* What the receiver of the alarms is promised, with the shorter of cooldown and
\* window between two alarms: a rule that lost its window forgets its cooldown,
\* but has to warm up again.
Spacing == IF Cooldown < Window THEN Cooldown ELSE Window
Episodes == INSTANCE AlarmEpisode WITH
  raised <- {i \in Instruments : rule[i].state \in {"triggered", "cooling_down"}},
  since <- alarm
AlarmEpisodes == Episodes!Spec
=============================================================================
