----------------------------- MODULE PriceGate -----------------------------
(***************************************************************************)
(* The collect job's admission gate                                        *)
(* (prediction-python/app/jobs/collect.py, app/core/validation.py) for ONE *)
(* symbol: which quotes of its providers reach the prices table, and which *)
(* are held in raw_observations as suspect until something corroborates    *)
(* them.  A run asks the providers in priority order; one run per tick.    *)
(*                                                                         *)
(* Values are integers and the percentage tests are exact: the code        *)
(* computes them in floating point.  A provider the circuit breaker skips, *)
(* one that fails and one without a quote of the symbol are the same to    *)
(* the gate.                                                               *)
(***************************************************************************)
EXTENDS Integers, Sequences, FiniteSets, FiniteSetsExt, SequencesExt

CONSTANTS
  Priority,       \* the providers, first asked first
  Lags,           \* Lags[p]: how many ticks old p's ticker may be
  Value,          \* quotes a provider may give
  Sane,           \* SANITY_RANGES of the symbol
  Open,           \* the instants at which the market is open
  StaleAfter,     \* STALE_MINUTES
  SustainMin,     \* SUSTAIN_MIN_OBSERVATIONS
  SustainSpan,    \* SUSTAIN_MIN_SPAN_MINUTES
  AlertAfter,     \* SUSPECT_ALERT_AFTER
  AlertCooldown,  \* FREEZE_ALERT_COOLDOWN_MINUTES
  MadMin,         \* the window length is_mad_outlier needs
  RecentWindow,   \* RECENT_WINDOW
  HistoryLimit,   \* SUSPECT_HISTORY_LIMIT
  MaxTime         \* bound on the clock

Provider == Range(Priority)
Time == 1..MaxTime

\* A provider is asked once in a run.  The history a streak is read from
\* reaches far enough back to hold a sustained run, also when every tick
\* deposits a row; the warning's threshold is below the acceptance's.
ASSUME GateAssumption ==
  /\ Priority \in Seq(Provider)
  /\ \A i, j \in DOMAIN Priority : Priority[i] = Priority[j] => i = j
  /\ Lags \in [Provider -> SUBSET Nat]
  /\ Value \subseteq Int
  /\ MaxTime \in Nat
  /\ AlertAfter \in Nat \ {0} /\ AlertCooldown \in Nat \ {0}
  /\ SustainMin \in Nat /\ SustainMin > AlertAfter
  /\ RecentWindow \in Nat \ {0}
  /\ HistoryLimit \in Nat /\ HistoryLimit + 1 >= SustainMin
  /\ SustainSpan \in Nat /\ HistoryLimit >= SustainSpan

Quote == [source : Provider, at : Time, value : Value]

VARIABLES
  now,       \* utcnow(), in ticks
  turn,      \* index into Priority of the provider asked next
  needed,    \* the symbol is still in symbols_needed
  suspects,  \* quotes held in this run, awaiting a second source
  raw,       \* raw_observations: quotes with their quality and collected_at
  prices,    \* prices: accepted quotes with their collected_at
  warned     \* suspect_freeze_alerts: the last warning (0: none)

vars == <<now, turn, needed, suspects, raw, prices, warned>>

Qualities == {"ok", "suspect", "outlier"}

TypeOK ==
  /\ now \in 0..MaxTime
  /\ turn \in 1..Len(Priority) + 1
  /\ needed \in BOOLEAN
  /\ suspects \subseteq Quote
  /\ \A x \in raw : /\ [source |-> x.source, at |-> x.at, value |-> x.value] \in Quote
                    /\ x.quality \in Qualities
                    /\ x.collected \in x.at..now
  /\ \A r \in prices : /\ [source |-> r.source, at |-> r.at, value |-> r.value] \in Quote
                       /\ r.value \in Sane
                       /\ r.collected \in r.at..now
  /\ warned \in 0..now

Init ==
  /\ now = 0
  /\ turn = Len(Priority) + 1
  /\ needed = FALSE
  /\ suspects = {}
  /\ raw = {}
  /\ prices = {}
  /\ warned = 0

-----------------------------------------------------------------------------
(* validation.py                                                            *)

Dist(a, b) == IF a < b THEN b - a ELSE a - b

\* jump_pct(v, good) > MAX_JUMP_PCT; no jump is measured from zero.
Jump(v, good) == good # 0 /\ Dist(v, good) * 100 > 15 * Dist(good, 0)

\* values_agree, within CONFIRM_TOLERANCE_PCT of the larger.
Agree(a, b) == Dist(a, b) * 100 <= 3 * Max({Dist(a, 0), Dist(b, 0)})

\* Twice the median of a sequence of integers.
Median2(s) ==
  LET o == SortSeq(s, <)
      n == Len(s)
  IN o[(n + 1) \div 2] + o[(n + 2) \div 2]

\* is_mad_outlier: more than 8 robust deviations from the median; a window
\* that has not moved leaves 8 parts in 10000 of its median.
MadOutlier(v, window) ==
  LET med == Median2(window)
      mad == Median2([i \in 1..Len(window) |-> Dist(2 * window[i], med)])
  IN /\ Len(window) >= MadMin
     /\ IF mad > 0 THEN Dist(2 * v, med) * 20000 > 118608 * mad
                   ELSE Dist(2 * v, med) * 10000 > 8 * Dist(med, 0)

\* classify_observation.
Classify(v, window) ==
  IF v \notin Sane THEN "outlier"
  ELSE IF window # <<>> /\ Jump(v, Head(window)) THEN "suspect"
  ELSE IF MadOutlier(v, window) THEN "suspect"
  ELSE "ok"

-----------------------------------------------------------------------------
(* What a run reads of the tables.                                          *)

\* prices ORDER BY observed_at DESC: rows of one instant come in any order.
NewestFirst ==
  LET upTo[t \in 0..MaxTime] ==
        IF t = 0 THEN {<<>>}
        ELSE {s \o older :
                s \in SetToSeqs({r \in prices : r.at = t}), older \in upTo[t - 1]}
  IN {[i \in 1..Len(s) |-> s[i].value] : s \in upTo[MaxTime]}

\* _since_last_level_reset: up to the newest step beyond MAX_JUMP_PCT.
SinceLastLevelReset(values) ==
  LET steps == {i \in 1..Len(values) - 1 : Jump(values[i], values[i + 1])}
  IN IF steps = {} THEN values ELSE SubSeq(values, 1, Min(steps))

\* _recent_values.
RecentValues ==
  {SinceLastLevelReset(SubSeq(s, 1, Min({Len(s), RecentWindow}))) : s \in NewestFirst}

\* _provider_history: the provider's newest rows (a ticker states one value
\* per instant).
History(p) ==
  LET own == {x \in raw : x.source = p}
  IN {x \in own : Cardinality({y \in own : y.at > x.at}) < HistoryLimit}

\* suspect_streak: the rows that agree with the quote, back to the first of
\* them that is not suspect or does not agree; its own instant adds nothing.
Streak(q) ==
  LET hist == History(q.source)
      breaks == {x \in hist : x.quality # "suspect" \/ ~Agree(q.value, x.value)}
  IN {q.at} \cup {x.at : x \in {y \in hist : y.at < q.at /\ \A b \in breaks : b.at < y.at}}

\* Mutant: the count without the span.
Sustained_Count(streak) == Cardinality(streak) >= SustainMin - 1

\* Mutant: the span must be exceeded.
Sustained_Strict(streak) ==
  /\ Cardinality(streak) >= SustainMin
  /\ Max(streak) - Min(streak) > SustainSpan

\* sustained_by_repetition.
Sustained(streak) ==
  /\ Cardinality(streak) >= SustainMin
  /\ Max(streak) - Min(streak) >= SustainSpan

\* No price is as new as the streak's first quote.
Frozen(streak) == \A r \in prices : r.at < Min(streak)

\* closure_started_at: the first instant of the closure t lies in.
ClosureStart(t) == Max({0} \cup {u \in Open : u < t}) + 1

\* is_acceptably_fresh.
Fresh(at) ==
  \/ now \in Open /\ now - at <= StaleAfter
  \/ now \notin Open /\ at >= ClosureStart(now) - StaleAfter

-----------------------------------------------------------------------------
(* What a run writes.                                                       *)

\* insert_ignore on the dedupe key: a row that is there keeps its quality.
Recorded(q, quality) ==
  IF \E x \in raw : x.source = q.source /\ x.at = q.at /\ x.value = q.value
  THEN raw
  ELSE raw \cup {[source |-> q.source, at |-> q.at, value |-> q.value,
                  quality |-> quality, collected |-> now]}

\* insert_ignore on prices_unique (symbol, observed_at, source).
Priced(qs) ==
  prices \cup
    {[source |-> q.source, at |-> q.at, value |-> q.value, collected |-> now] :
       q \in {x \in qs : \A r \in prices : ~(r.source = x.source /\ r.at = x.at)}}

\* An accepted quote satisfies the symbol if it is fresh.
Satisfy(q) ==
  /\ needed' = ~Fresh(q.at)
  /\ turn' = turn + 1
  /\ UNCHANGED now

\* The run goes on to the next provider, the symbol still needed.
Fallback == turn' = turn + 1 /\ UNCHANGED <<now, needed>>

-----------------------------------------------------------------------------
(* The run.                                                                 *)

\* The next tick's run_collect begins.
Start ==
  /\ turn > Len(Priority)
  /\ now < MaxTime
  /\ now' = now + 1
  /\ turn' = 1
  /\ needed' = TRUE
  /\ suspects' = {}
  /\ UNCHANGED <<raw, prices, warned>>

\* External: what a provider may quote.  A ticker does not run backwards and
\* does not restate an instant.
Quotes(p) ==
  {q \in [source : {p}, at : {now - l : l \in Lags[p]} \cap Time, value : Value] :
     \A x \in raw : x.source = p => \/ x.at < q.at
                                    \/ x.at = q.at /\ x.value = q.value}

\* Breaker open, fetch failed, or no quote of the symbol.
Skip ==
  /\ turn <= Len(Priority)
  /\ Fallback
  /\ UNCHANGED <<suspects, raw, prices, warned>>

\* Outside the plausible range: recorded, never held.
Reject(q) ==
  /\ q.value \notin Sane
  /\ raw' = Recorded(q, "outlier")
  /\ Fallback
  /\ UNCHANGED <<suspects, prices, warned>>

Accept(q) ==
  /\ \E window \in RecentValues : Classify(q.value, window) = "ok"
  /\ raw' = Recorded(q, "ok")
  /\ prices' = Priced({q})
  /\ Satisfy(q)
  /\ UNCHANGED <<suspects, warned>>

Suspect(q) == \E window \in RecentValues : Classify(q.value, window) = "suspect"

\* The quotes held in this run that a second source's quote confirms.
Confirms(q) == {s \in suspects : Agree(q.value, s.value)}

\* Both are promoted; the rest of the run's suspects are forgotten.
Promote(q) ==
  /\ Suspect(q)
  /\ Confirms(q) # {}
  /\ raw' = Recorded(q, "ok")
  /\ prices' = Priced(Confirms(q) \cup {q})
  /\ suspects' = {}
  /\ Satisfy(q)
  /\ UNCHANGED warned

\* Nobody confirms it, but it has been repeated for long enough.
Relevel(q) ==
  /\ Suspect(q)
  /\ Confirms(q) = {}
  /\ Frozen(Streak(q)) /\ Sustained(Streak(q))
  /\ raw' = Recorded(q, "ok")
  /\ prices' = Priced({q})
  /\ Satisfy(q)
  /\ UNCHANGED <<suspects, warned>>

\* Mutant: the warning waits for the last quote of the run.
Warns_Late(streak) ==
  /\ Frozen(streak) /\ Cardinality(streak) > SustainMin
  /\ now \in Open

\* _warn_series_frozen files a warning: silent while the market is closed,
\* and throttled.
Warns(streak) ==
  /\ Frozen(streak) /\ Cardinality(streak) >= AlertAfter
  /\ now \in Open
  /\ warned = 0 \/ now - warned >= AlertCooldown

Hold(q) ==
  /\ Suspect(q)
  /\ Confirms(q) = {}
  /\ ~(Frozen(Streak(q)) /\ Sustained(Streak(q)))
  /\ suspects' = suspects \cup {q}
  /\ raw' = Recorded(q, "suspect")
  /\ warned' = IF Warns(Streak(q)) THEN now ELSE warned
  /\ Fallback
  /\ UNCHANGED prices

\* The fallback chain asks the provider whose turn it is.
Ask ==
  /\ turn <= Len(Priority) /\ needed
  /\ \E q \in Quotes(Priority[turn]) :
       Reject(q) \/ Accept(q) \/ Promote(q) \/ Relevel(q) \/ Hold(q)

\* _measure_dispersion: a provider fetched for another symbol has quoted this
\* one too; its quote is recorded on the sanity test alone, never priced.
Peer ==
  /\ turn <= Len(Priority) /\ ~needed
  /\ \E q \in Quotes(Priority[turn]) :
       raw' = Recorded(q, IF q.value \in Sane THEN "ok" ELSE "outlier")
  /\ Fallback
  /\ UNCHANGED <<suspects, prices, warned>>

Next == Start \/ Skip \/ Ask \/ Peer

Spec == Init /\ [][Next]_vars

-----------------------------------------------------------------------------
(* Properties.                                                              *)

\* The rows of x's source from some instant until x.
Run(x, since) == {y \in raw : y.source = x.source /\ y.at >= since /\ y.at < x.at}

\* They held x's level, for long enough.
Insisted(x, since) ==
  /\ \E y \in Run(x, since) : y.at = since
  /\ \A y \in Run(x, since) : y.quality = "suspect" /\ Agree(x.value, y.value)
  /\ Cardinality(Run(x, since)) + 1 >= SustainMin
  /\ x.at - since >= SustainSpan

\* The last row of x's source before that instant did not.
Began(x, since) ==
  LET before == {y \in raw : y.source = x.source /\ y.at < since}
  IN \A y \in before : \/ \E z \in before : z.at > y.at
                         \/ ~(y.quality = "suspect" /\ Agree(x.value, y.value))

\* Another price of that instant or later was there when x was judged.
Delivered(x, since) ==
  \E r \in prices : /\ r.at >= since /\ r.collected <= x.collected
                    /\ ~(r.source = x.source /\ r.at = x.at)

\* Repeated by its source over a long enough time with nothing else accepted.
Repeated(x) == \E since \in Time : Insisted(x, since) /\ ~Delivered(x, since)

\* Agreed with by a price of another source that the run of r could be quoted.
Confirmed(r) == \E s \in prices : /\ s.source # r.source
                                  /\ s.collected <= r.collected
                                  /\ r.collected - s.at \in Lags[s.source]
                                  /\ Agree(r.value, s.value)

\* The newest prices before r: several, if they are of one instant.
Preceding(r) ==
  {s \in prices : s.at < r.at /\ \A x \in prices : x.at < r.at => x.at <= s.at}

\* A step beyond MAX_JUMP_PCT between two consecutive prices is a level shift
\* that a second source confirmed or that its source repeated long enough,
\* with nothing else accepted meanwhile: what _since_last_level_reset
\* concludes from the prices alone ("by construction, a level shift this
\* system decided to accept").
StepsAreDecided ==
  \A r \in prices :
    Preceding(r) # {} /\ (\A s \in Preceding(r) : Jump(r.value, s.value))
      => Confirmed(r) \/ Repeated(r)

\* The prices came in the order of their instants; those of one run agree.
InOrder ==
  \A r, s \in prices :
    /\ r.collected < s.collected => r.at < s.at
    /\ r.collected = s.collected => Agree(r.value, s.value)

\* That conclusion is right as long as no price is as old as one collected
\* before it, and no run stored prices that disagree.
StepsAreDecidedInOrder == InOrder => StepsAreDecided

\* The gate is no trapdoor: no quote is held back whose source has sustained
\* its level since a first instant with nothing else accepted from then on
\* (validation.py: "A guard a series cannot get out of is not a guard, it is
\* a trapdoor").
NoTrapdoor ==
  \A x \in raw : \A since \in Time :
    /\ x.quality = "suspect"
    /\ Insisted(x, since) /\ Began(x, since) /\ ~Delivered(x, since)
    => \E r \in prices : r.source = x.source /\ r.at = x.at

\* Its rows agree with each other, and none with the row before them: the code
\* compares each quote with the ones before it, and agreement within a
\* tolerance is not transitive.
Steady(x, since) ==
  \A y \in Run(x, since) : /\ Began(y, since)
                           /\ \A z \in Run(x, since) : Agree(y.value, z.value)

\* A steady level that began with the freeze is never accepted on repetition
\* before the operator has been warned, within the throttling interval, unless
\* the market was closed during it ("so the warning always precedes an
\* automatic acceptance instead of narrating it afterwards").
WarnedFirst ==
  [][\A r \in prices' \ prices : \A since \in Time :
       /\ Insisted(r, since)' /\ Steady(r, since)' /\ ~Delivered(r, since)'
       /\ since..now \subseteq Open
       => warned > since - AlertCooldown /\ warned > 0]_vars

\* An accepted level shift stays accepted: the quotes after it that repeat it
\* to the digit are not held again ("the MAD window must stop arguing with a
\* conclusion the system has already reached").
NoRetrap ==
  \A x \in raw : x.quality = "suspect" =>
    ~\E r \in prices : /\ r.value = x.value /\ r.at < x.at /\ Repeated(r)
                       /\ \A s \in prices : s.at > r.at => s.collected > x.collected

=============================================================================
