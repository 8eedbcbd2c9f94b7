------------------------------ MODULE Pressure ------------------------------
(* news/intelligence.py: the events of the window are aggregated into a      *)
(* snapshot of pressure scores, and a snapshot is compared with the one      *)
(* before it.                                                                *)
(*                                                                            *)
(* A score is the quotient of two whole numbers, kept as its numerator and   *)
(* its denominator.  A weight halves with every step of an event's age.      *)
EXTENDS Integers, FiniteSets, FiniteSetsExt, Functions

CONSTANTS
  Dimension,       \* DIMENSIONS
  Reads(_, _),     \* the event's hypothesis a dimension reads, or Unread
  Unread,
  EventPool,       \* events that may become available
  MinWeight,       \* MIN_EVIDENCE_WEIGHT
  FullWeight,      \* FULL_CONFIDENCE_WEIGHT
  StepNum, StepDen, \* ESCALATION_THRESHOLD, of the scale of scores
  IntensityStep,   \* CATEGORY_INTENSITY_STEP
  FreshStep,       \* FRESHNESS_STEP_S
  StaleAfter,      \* STALE_AFTER_S
  FullAge,         \* the age by which an event has left the window
  Null,            \* NULL
  Health,          \* what source_health may say of the sources
  Versions,        \* values of CALC_VERSION
  MaxCaptures

ASSUME PressureAssumption ==
  /\ {IntensityStep, FreshStep, StaleAfter, FullAge, MaxCaptures} \subseteq Nat
  /\ {MinWeight, StepNum, StepDen, FullWeight} \subseteq Nat \ {0}
  /\ IsFiniteSet(EventPool)
  /\ \A d \in Dimension, e \in EventPool :
       Reads(d, e) \in [score : Int, confidence : Nat] \cup {Unread}
  /\ Unread \notin [score : Int, confidence : Nat]
  /\ Null \notin [num : Int, den : Int, confidence : Int \X Int,
                  supporting : SUBSET EventPool, conflicting : SUBSET EventPool]

VARIABLES
  ages,       \* the events in the window and their ages
  version,    \* CALC_VERSION of the service that runs
  previous,   \* the snapshot stored before the last, and Null before the second
  latest,     \* the last snapshot stored, and Null before the first
  deltas,     \* intelligence_deltas of the pair, Null while none are
  captures

pressureVars == <<ages, version, previous, latest, deltas, captures>>

-----------------------------------------------------------------------------
(* Scores                                                                    *)

Magnitude(n) == IF n < 0 THEN -n ELSE n
Sign(n) == IF n < 0 THEN -1 ELSE IF n > 0 THEN 1 ELSE 0

\* _independence: one source counts half, three count in full.
Corroboration(n) == IF n >= 3 THEN 4 ELSE IF n = 2 THEN 3 ELSE 2

\* _recency: a weight halves with every step of age, and the oldest event in
\* the window has one part left.
Recency[left \in 0 .. FullAge] == IF left = 0 THEN 1 ELSE 2 * Recency[left - 1]

\* The hypothesis a dimension reads in an event.  In the mirrored world, to
\* which the properties turn with `way` = -1, every one points the other way.
Read(way, d, e) ==
  IF Reads(d, e) = Unread THEN Unread ELSE [Reads(d, e) EXCEPT !.score = way * @]

\* confidence x recency x independence.
Weight(way, d, e, age) ==
  Read(way, d, e).confidence * Corroboration(e.sources) * Recency[FullAge - age]

\* Mutant: what argues for relief carries no weight.
Speaks_Rising(way, d, window) ==
  {e \in DOMAIN window : /\ Read(way, d, e) # Unread
                         /\ Read(way, d, e).score * Weight(way, d, e, window[e]) > 0}

\* _contributions.
Speaks(way, d, window) ==
  {e \in DOMAIN window : Read(way, d, e) # Unread /\ Weight(way, d, e, window[e]) > 0}

TotalWeight(way, d, window) ==
  SumFunction([e \in Speaks(way, d, window) |-> Weight(way, d, e, window[e])])
Weighted(way, d, window) ==
  SumFunction([e \in Speaks(way, d, window) |->
                 Read(way, d, e).score * Weight(way, d, e, window[e])])
Strength(way, d, window) ==
  SumFunction([e \in Speaks(way, d, window) |->
                 Magnitude(Read(way, d, e).score) * Weight(way, d, e, window[e])])

Measured(way, d, window) ==
  Speaks(way, d, window) # {} /\ TotalWeight(way, d, window) >= MinWeight

\* Agreement times weight, both saturating (MAX_DIMENSION_CONFIDENCE), as a
\* fraction.
Confidence(way, d, window) ==
  LET total == Min({TotalWeight(way, d, window), FullWeight})
      strength == Strength(way, d, window)
      agree == IF strength = 0 THEN 1 ELSE Magnitude(Weighted(way, d, window))
      outOf == IF strength = 0 THEN 1 ELSE strength
  IN  IF 4 * agree * total > 3 * outOf * FullWeight THEN <<3, 4>>
      ELSE <<agree * total, outOf * FullWeight>>

\* _score_dimension: NULL on too little evidence, else the weighted mean, how
\* far its contributions agree, and who argued which way.
ScoreDimension(way, d, window) ==
  IF ~Measured(way, d, window) THEN Null
  ELSE [num |-> Weighted(way, d, window), den |-> TotalWeight(way, d, window),
        confidence |-> Confidence(way, d, window),
        supporting |-> {e \in Speaks(way, d, window) :
                          Sign(Read(way, d, e).score) = Sign(Weighted(way, d, window))},
        conflicting |-> {e \in Speaks(way, d, window) :
                           Sign(Read(way, d, e).score) * Sign(Weighted(way, d, window)) = -1}]

-----------------------------------------------------------------------------
(* Snapshots                                                                 *)

Conflicting(scores) == UNION {scores[d].conflicting : d \in {x \in Dimension : scores[x] # Null}}

\* snapshot_event_rows: every event with a weight, on one side or the other.
Roles(scores, window) ==
  [e \in {x \in DOMAIN window : \E d \in Dimension : x \in Speaks(1, d, window)} |->
     IF e \in Conflicting(scores) THEN "conflicting" ELSE "supporting"]

Freshness(window) == IF DOMAIN window = {} THEN Null ELSE Min(Range(window))

BuildSnapshot(window, health) ==
  LET fresh == Freshness(window)
      scores == [d \in Dimension |-> ScoreDimension(1, d, window)]
  IN  [version |-> version, window |-> window, scores |-> scores, roles |-> Roles(scores, window),
       events |-> DOMAIN window, health |-> health, fresh |-> fresh,
       stale |-> fresh = Null \/ fresh > StaleAfter]

-----------------------------------------------------------------------------
(* compute_delta                                                             *)

\* a - b >= the threshold, for scores in [-scale, scale].
Rises(a, b) == (a.num * b.den - b.num * a.den) * StepDen >= StepNum * a.den * b.den

Change_Eager(before, after) ==
  IF Null \in {before, after} THEN "none"
  ELSE IF Rises(after, before) THEN "escalation"
  ELSE IF after.num * before.den < before.num * after.den THEN "deescalation"
  ELSE "none"

Change(before, after) ==
  IF Null \in {before, after} THEN "none"
  ELSE IF Rises(after, before) THEN "escalation"
  ELSE IF Rises(before, after) THEN "deescalation"
  ELSE "none"

InCategory(s, c) == Cardinality({e \in s.events : e.category = c})

\* Only a source both snapshots saw can have failed or recovered.
HealthChange(before, after, source) ==
  IF source \notin DOMAIN before \cap DOMAIN after \/ before[source] = after[source] THEN "none"
  ELSE IF after[source] THEN "source_recovery" ELSE "source_failure"

\* The freshness changed by two polling cycles, or across the staleness bound.
FreshnessChanged(s, t) ==
  \/ s.stale # t.stale
  \/ Null \notin {s.fresh, t.fresh} /\ Magnitude(t.fresh - s.fresh) >= FreshStep

\* Nothing without a baseline.
ComputeDelta(s, t) ==
  IF s = Null THEN [arrived |-> {}, moved |-> [d \in Dimension |-> "none"],
                    intense |-> {}, health |-> <<>>, freshness |-> FALSE]
  ELSE [arrived |-> t.events \ s.events,
        moved |-> [d \in Dimension |-> Change(s.scores[d], t.scores[d])],
        intense |-> {c \in {e.category : e \in t.events} :
                       InCategory(t, c) - InCategory(s, c) >= IntensityStep},
        health |-> [x \in DOMAIN s.health \cup DOMAIN t.health |->
                      HealthChange(s.health, t.health, x)],
        freshness |-> FreshnessChanged(s, t)]

-----------------------------------------------------------------------------
(* The window and the captures                                               *)

PressureInit ==
  /\ ages = <<>> /\ version \in Versions
  /\ previous = Null /\ latest = Null /\ deltas = Null /\ captures = 0

\* Time passes: the events in the window age, those past it leave, and some
\* arrive.
NewsArrives ==
  /\ captures < MaxCaptures
  /\ \E new \in SUBSET (EventPool \ DOMAIN ages) :
       ages' = [e \in {x \in DOMAIN ages : ages[x] < FullAge} \cup new |->
                  IF e \in new THEN 0 ELSE ages[e] + 1]
  /\ UNCHANGED <<version, previous, latest, deltas, captures>>

\* build_snapshot and persist_snapshot.
Capture ==
  /\ captures < MaxCaptures /\ captures' = captures + 1
  /\ \E health \in Health : latest' = BuildSnapshot(ages, health)
  /\ previous' = latest
  /\ deltas' = Null
  /\ UNCHANGED <<ages, version>>

\* compute_delta and persist_deltas, of the last two snapshots; snapshots of two
\* calculation versions are refused.
Compare ==
  /\ latest # Null /\ deltas = Null
  /\ previous # Null => previous.version = latest.version
  /\ deltas' = ComputeDelta(previous, latest)
  /\ UNCHANGED <<ages, version, previous, latest, captures>>

\* The service comes back with another calculation.
Upgrade ==
  /\ version' \in Versions \ {version}
  /\ UNCHANGED <<ages, previous, latest, deltas, captures>>

PressureNext == NewsArrives \/ Capture \/ Compare \/ Upgrade

PressureSpec == PressureInit /\ [][PressureNext]_pressureVars

-----------------------------------------------------------------------------
(* Properties                                                                *)

Opposite == [escalation |-> "deescalation", deescalation |-> "escalation", none |-> "none"]

\* Two scores stand on the same evidence: equally confident, with the same
\* events for the direction each says and against it.
StandsAlike(a, b) ==
  IF Null \in {a, b} THEN a = b
  ELSE /\ a.confidence = b.confidence
       /\ a.supporting = b.supporting /\ a.conflicting = b.conflicting

\* Were every hypothesis of the two windows to point the other way, relief
\* would be reported exactly where alarm is, on the same evidence and with the
\* same confidence, whatever the events' weights, ages and sources ("a delta
\* engine with a lower bar for alarm than for relief reports a world that is
\* always getting worse").
EvenHanded ==
  previous # Null /\ deltas # Null =>
    \A d \in Dimension :
      LET before == ScoreDimension(-1, d, previous.window)
          after == ScoreDimension(-1, d, latest.window)
      IN  /\ deltas.moved[d] = Opposite[Change(before, after)]
          /\ StandsAlike(latest.scores[d], after)

=============================================================================
