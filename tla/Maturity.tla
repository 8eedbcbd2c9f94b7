------------------------------ MODULE Maturity ------------------------------
(***************************************************************************)
(* The forecasts of ONE symbol from the row the prediction stores          *)
(* (models/predicting.py, _predict_one) to the outcome the evaluation      *)
(* records (jobs/evaluate.py, run_evaluate), the windows the system learns *)
(* its own skill from, and the retention that deletes old rows             *)
(* (core/retention.py, run_retention).                                     *)
(*                                                                         *)
(* A price is represented by the instant it was observed at: the           *)
(* properties are about WHICH observation grades a forecast.               *)
(***************************************************************************)
EXTENDS Integers, FiniteSets, FiniteSetsExt

CONSTANTS
  Horizon,       \* forecast horizons
  Daily,         \* the horizons counted in observed daily bars
  Steps,         \* Steps[h]: the horizon, in ticks
  Tolerance,     \* TOLERANCES
  Evaluator,     \* handlers of /internal/evaluate, cron or manual
  QueueLimit,    \* LIMIT of the pending query (500)
  CalWindow,     \* LIVE_CAL_WINDOW, rows per horizon
  GateSamples,   \* MAX_SAMPLES of the meta-gate, rows in all
  MinSamples,    \* MIN_SAMPLES of them, with a call
  CallOf(_),     \* what a graded row says of its call: "hit", "miss", or "none"
  Settles(_),    \* these rows differ in a feature and the optimizer converges
  EnsembleAge,   \* ENSEMBLE_WINDOW_DAYS
  PredictionAge, \* prediction_retention_days
  BatchRows,     \* BATCH_ROWS of one DELETE
  MaxTime,       \* bound on the clock
  MaxPreds,      \* bound on the forecasts ever made
  MaxKills,      \* bound on the evaluations killed
  Nil

ASSUME MaturityAssumption ==
  /\ Daily \subseteq Horizon
  /\ Steps \in [Horizon -> Nat \ {0}]
  /\ Tolerance \in [Horizon -> Nat]
  /\ {QueueLimit, CalWindow, GateSamples, BatchRows} \subseteq Nat \ {0}
  /\ {MinSamples, EnsembleAge, PredictionAge, MaxTime, MaxPreds, MaxKills} \subseteq Nat
  /\ Nil \notin Nat

VARIABLES
  now,      \* utcnow()
  prices,   \* the instants an ok price was observed at
  preds,    \* the predictions table
  made,     \* forecasts made so far
  kills,    \* evaluations killed so far
  epc,      \* where each evaluation is
  asOf,     \* the instant it started at, until it has graded
  queue,    \* the pending rows it has still to look at
  known,    \* the prices stored when it started
  learned,  \* app_settings: the rows the stored calibration was computed from
  gate      \* and those the stored meta-gate was fitted on

evalVars == <<epc, asOf, queue, known>>
maturityVars == <<now, prices, preds, made, kills, learned, gate, evalVars>>

\* A row of predictions; actual is the observation that graded it.
Prediction ==
  [h : Horizon, at : 0..MaxTime, target : Nat, actual : (0..MaxTime) \cup {Nil}]

Key(p) == <<p.h, p.at>>
Keys(P) == {Key(p) : p \in P}
Matured == {p \in preds : p.actual # Nil}

MaturityTypeOK ==
  /\ now \in 0..MaxTime
  /\ prices \subseteq 0..MaxTime
  /\ preds \subseteq Prediction
  /\ \A p, q \in preds : Key(p) = Key(q) => p = q
  /\ made \in 0..MaxPreds
  /\ kills \in 0..MaxKills
  /\ epc \in [Evaluator -> {"idle", "grading", "learning", "storing", "inserting",
                           "refitting", "publishing", "creating"}]
  /\ asOf \in [Evaluator -> 0..MaxTime]
  /\ \A e \in Evaluator : queue[e] \subseteq Prediction
  /\ known \in [Evaluator -> SUBSET (0..MaxTime)]

MaturityInit ==
  /\ now = 0
  /\ prices = {0}
  /\ preds = {}
  /\ made = 0
  /\ kills = 0
  /\ learned = {} /\ gate = {}
  /\ epc = [e \in Evaluator |-> "idle"]
  /\ asOf = [e \in Evaluator |-> 0]
  /\ queue = [e \in Evaluator |-> {}]
  /\ known = [e \in Evaluator |-> {}]

-----------------------------------------------------------------------------
(* Prices and forecasts                                                     *)

\* collect stores an observation of this instant; a backfill, an older one.
Observe(t) ==
  /\ t \in (0..now) \ prices
  /\ prices' = prices \cup {t}
  /\ UNCHANGED <<now, preds, made, kills, learned, gate, evalVars>>

\* _bar_aligned_target counts from the last bar and is never in the past;
\* _target_time counts from now.
Target(h) ==
  IF h \in Daily
  THEN LET t == Max(prices) + Steps[h] IN IF t > now THEN t ELSE now + 1
  ELSE now + Steps[h]

\* _predict_one stores a row; what it loads is ModelRegistry's.
Predict(h) ==
  /\ made < MaxPreds
  /\ <<h, now>> \notin Keys(preds)
  /\ preds' = preds \cup {[h |-> h, at |-> now, target |-> Target(h), actual |-> Nil]}
  /\ made' = made + 1
  /\ UNCHANGED <<now, prices, kills, learned, gate, evalVars>>

-----------------------------------------------------------------------------
(* run_evaluate                                                             *)

\* The first n rows of S in the order of target_time, newest or oldest first:
\* rows of equal target_time come in any order.
Newest(S, n) ==
  {W \in kSubset(IF Cardinality(S) < n THEN Cardinality(S) ELSE n, S) :
     \A w \in W, v \in S \ W : v.target <= w.target}
Oldest(S, n) ==
  {W \in kSubset(IF Cardinality(S) < n THEN Cardinality(S) ELSE n, S) :
     \A w \in W, v \in S \ W : w.target <= v.target}

Due(t) == {p \in preds : p.actual = Nil /\ p.target <= t}

\* The pending rows are selected, oldest target first.
StartEvaluate(e) ==
  /\ epc[e] = "idle"
  /\ \E Q \in Oldest(Due(now), QueueLimit) : queue' = [queue EXCEPT ![e] = Q]
  /\ epc' = [epc EXCEPT ![e] = "grading"]
  /\ asOf' = [asOf EXCEPT ![e] = now]
  /\ known' = [known EXCEPT ![e] = prices]
  /\ UNCHANGED <<now, prices, preds, made, kills, learned, gate>>

\* Mutant: the window reaches back before the forecast.
Window_Unfloored(p, P) ==
  {t \in P : p.target - Tolerance[p.h] < t /\ t <= p.target + Tolerance[p.h]}

\* _nearest_price: the observations that may grade p.
Window(p, P) ==
  {t \in P : /\ p.target - Tolerance[p.h] < t
             /\ p.at < t
             /\ t <= p.target + Tolerance[p.h]}

Gap(p, t) == IF t < p.target THEN p.target - t ELSE t - p.target

\* The nearest of them, the earlier of two equally near.
Nearest(p, P) ==
  CHOOSE t \in Window(p, P) :
    \A u \in Window(p, P) : Gap(p, t) < Gap(p, u) \/ (Gap(p, t) = Gap(p, u) /\ t <= u)

\* The row as it is after UPDATE ... WHERE id = p's.
Graded(p) ==
  {IF Key(q) = Key(p) THEN [q EXCEPT !.actual = Nearest(p, prices)] ELSE q : q \in preds}

\* Mutant: a row nothing matches ends the pass.
Grade_Break(e) ==
  /\ epc[e] = "grading"
  /\ \E p \in queue[e] :
       /\ \A q \in queue[e] : p.target <= q.target
       /\ queue' = [queue EXCEPT ![e] = IF Window(p, prices) = {} THEN {} ELSE @ \ {p}]
       /\ preds' = IF Window(p, prices) = {} THEN preds ELSE Graded(p)
  /\ UNCHANGED <<now, prices, made, kills, learned, gate, epc, asOf, known>>

\* One row of the queue: graded, or left pending when nothing matches.
Grade(e) ==
  /\ epc[e] = "grading"
  /\ \E p \in queue[e] :
       /\ \A q \in queue[e] : p.target <= q.target
       /\ queue' = [queue EXCEPT ![e] = @ \ {p}]
       /\ preds' = IF Window(p, prices) = {} THEN preds ELSE Graded(p)
  /\ UNCHANGED <<now, prices, made, kills, learned, gate, epc, asOf, known>>

EndGrading(e) ==
  /\ epc[e] = "grading"
  /\ queue[e] = {}
  /\ epc' = [epc EXCEPT ![e] = "learning"]
  /\ UNCHANGED <<now, prices, preds, made, kills, learned, gate, asOf, queue, known>>

\* The evaluation, done with its grading, goes on at pc with these rows in hand.
Goto(e, pc, rows) ==
  /\ epc' = [epc EXCEPT ![e] = pc]
  /\ queue' = [queue EXCEPT ![e] = rows]
  /\ asOf' = [asOf EXCEPT ![e] = 0]
  /\ known' = [known EXCEPT ![e] = {}]

Ended(e) == Goto(e, "idle", {})

\* The rows compute_live_calibration reads: the newest of each horizon.
CalWindows(h) == Newest({p \in Matured : p.h = h}, CalWindow)

\* The rows fit_meta_gate reads.
GateWindows == Newest(Matured, GateSamples)

\* A calibration: one window per horizon.
Calibrations ==
  {C \in SUBSET Matured : \A h \in Horizon : {p \in C : p.h = h} \in CalWindows(h)}

\* compute_live_calibration, on its own connection.
Learn(e) ==
  /\ epc[e] = "learning"
  /\ \E C \in Calibrations : Goto(e, "storing", C)
  /\ UNCHANGED <<now, prices, preds, made, kills, learned, gate>>

\* Mutant: a row that exists is not updated.
StoreCalibration_InsertOnly(e) ==
  /\ epc[e] = "storing"
  /\ learned' = learned
  /\ IF learned = {} /\ queue[e] # {} THEN Goto(e, "inserting", queue[e])
                                      ELSE Goto(e, "refitting", {})
  /\ UNCHANGED <<now, prices, preds, made, kills, gate>>

\* The UPDATE of upsert_setting; an empty calibration is not stored, and one
\* that finds no row goes on to the INSERT.
StoreCalibration(e) ==
  /\ epc[e] = "storing"
  /\ learned' = IF learned = {} \/ queue[e] = {} THEN learned ELSE queue[e]
  /\ IF learned = {} /\ queue[e] # {} THEN Goto(e, "inserting", queue[e])
                                      ELSE Goto(e, "refitting", {})
  /\ UNCHANGED <<now, prices, preds, made, kills, gate>>

\* The INSERT: refused, and the evaluation lost, when another one's came first.
InsertCalibration(e) ==
  /\ epc[e] = "inserting"
  /\ IF learned = {} THEN learned' = queue[e] /\ Goto(e, "refitting", {})
                     ELSE learned' = learned /\ Ended(e)
  /\ UNCHANGED <<now, prices, preds, made, kills, gate>>

\* fit_meta_gate returns a gate: enough calls, right ones and wrong ones, on
\* features that vary, and an optimizer that finished.
GivesGate(G) ==
  LET calls == {p \in G : CallOf(p) # "none"} IN
  /\ Cardinality(calls) >= MinSamples
  /\ {CallOf(p) : p \in calls} = {"hit", "miss"}
  /\ Settles(calls)

\* fit_meta_gate on the rows there are by now, on its own connection.
FitGate(e) ==
  /\ epc[e] = "refitting"
  /\ \E G \in GateWindows : IF GivesGate(G) THEN Goto(e, "publishing", G) ELSE Ended(e)
  /\ UNCHANGED <<now, prices, preds, made, kills, learned, gate>>

\* The UPDATE of upsert_setting, and the INSERT when it found no row.
StoreGate(e) ==
  /\ epc[e] = "publishing"
  /\ IF gate = {} THEN gate' = gate /\ Goto(e, "creating", queue[e])
                  ELSE gate' = queue[e] /\ Ended(e)
  /\ UNCHANGED <<now, prices, preds, made, kills, learned>>

InsertGate(e) ==
  /\ epc[e] = "creating"
  /\ gate' = IF gate = {} THEN queue[e] ELSE gate
  /\ Ended(e)
  /\ UNCHANGED <<now, prices, preds, made, kills, learned>>

Evaluate(e) ==
  \/ StartEvaluate(e) \/ Grade(e) \/ EndGrading(e) \/ Learn(e)
  \/ StoreCalibration(e) \/ InsertCalibration(e)
  \/ FitGate(e) \/ StoreGate(e) \/ InsertGate(e)

-----------------------------------------------------------------------------
(* run_retention, the predictions table                                     *)

\* The matured rows of p's horizon with a later target.
LaterRows(p) == {q \in Matured : q.h = p.h /\ q.target > p.target}

\* Protected by identity: the gate's rows, the calibration's, the ensemble's.
Protected(p, G) ==
  \/ p \in G
  \/ p \in Matured /\ Cardinality(LaterRows(p)) < CalWindow
  \/ p.target >= now - EnsembleAge

Deletable(G) == {p \in preds : p.at < now - PredictionAge /\ ~Protected(p, G)}

\* One bounded DELETE, in its own transaction.
Retain ==
  /\ \E G \in GateWindows :
       LET D == Deletable(G) IN
       /\ D # {}
       /\ \E B \in kSubset(IF Cardinality(D) < BatchRows THEN Cardinality(D) ELSE BatchRows, D) :
            /\ \A b \in B, d \in D \ B : b.at <= d.at
            /\ preds' = preds \ B
  /\ UNCHANGED <<now, prices, made, kills, learned, gate, evalVars>>

-----------------------------------------------------------------------------

\* The service is killed in the middle of an evaluation.
Killed(e) ==
  /\ epc[e] # "idle"
  /\ kills < MaxKills
  /\ kills' = kills + 1
  /\ Ended(e)
  /\ UNCHANGED <<now, prices, preds, made, learned, gate>>

Elapse ==
  /\ now < MaxTime
  /\ now' = now + 1
  /\ UNCHANGED <<prices, preds, made, kills, learned, gate, evalVars>>

MaturityNext ==
  \/ \E t \in 0..MaxTime : Observe(t)
  \/ \E h \in Horizon : Predict(h)
  \/ \E e \in Evaluator : Evaluate(e) \/ Killed(e)
  \/ Retain
  \/ Elapse

MaturitySpec == MaturityInit /\ [][MaturityNext]_maturityVars

-----------------------------------------------------------------------------
(* Properties.                                                              *)

\* A forecast is graded by an observation made after it, never by the price it
\* was made from (evaluate.py: "An observation can only count as the outcome
\* if it happened after the forecast existed").
OutcomeAfterForecast ==
  \A p \in Matured : p.actual > p.at /\ Gap(p, p.actual) <= Tolerance[p.h]

\* A pass grades every forecast that had fallen due, and had an observation to
\* grade it, when the pass started (evaluate.py: "For each prediction whose
\* target_time has passed and whose actual is not yet recorded, the nearest
\* good observation within a horizon-dependent tolerance is used").
DueAreGraded ==
  \A e \in Evaluator : epc[e] = "learning" =>
    \A p \in preds : p.target <= asOf[e] /\ Window(p, known[e]) # {} => p.actual # Nil

\* Once forecasts and prices have stopped, the stored calibration is the one
\* computed from the table, and so is the stored meta-gate when every fit on the
\* table gives one, whatever was killed, refused, deleted or stored out of order
\* by another evaluation on the way (metagate.py: "Returning None keeps whatever
\* gate is already stored").
CalibrationConverges ==
  <>[](Matured # {} =>
         /\ learned \in Calibrations
         /\ (\A G \in GateWindows : GivesGate(G)) => gate \in GateWindows)

=============================================================================
