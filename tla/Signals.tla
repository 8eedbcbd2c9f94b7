------------------------------- MODULE Signals -------------------------------
(* Buy/hold/sell generation: the pass of jobs/signals.py, the assembly and   *)
(* the scorer of signals/engine.py, the capability profiles of               *)
(* signals/universe.py and the cost hurdle of core/costs.py.                 *)
(*                                                                            *)
(* A factor is modelled by the points it contributes; a board is what the    *)
(* tables offer for one symbol when it is assembled.  Scores are counted in  *)
(* quarters of a point, moves and costs in quarters of a percent, so that    *)
(* every sum and both halvings of the scorer are exact.                      *)
EXTENDS Integers, Sequences, FiniteSets, FiniteSetsExt

CONSTANTS Asset,        \* the symbols of a pass
          Forecastable, \* FORECAST_SYMBOLS
          Reference,    \* DEFAULT_COST_SYMBOL
          Boards,       \* asset -> what may be stored for it
          Bars,         \* factor -> FactorSpec.min_bars
          MinFactors,   \* MIN_SCOREABLE_FACTORS
          TrendWeight,  \* TREND_ALIGNMENT_SIGNAL_WEIGHT, in points
          Assumed,      \* FALLBACK_ROUND_TRIP_COST_PCT, in quarters of a percent
          SanePct,      \* MIN_SANE_PCT .. MAX_SANE_PCT
          ScanLimit,    \* SCAN_LIMIT
          Forecasts,    \* forecasts compared
          MaxSignalPasses,
          None          \* a factor without a value, a table without a row

ASSUME SignalsAssumption ==
  /\ {MinFactors, TrendWeight, Assumed, ScanLimit, MaxSignalPasses} \subseteq Nat
  /\ Forecastable \subseteq Asset /\ Reference \in Asset
  /\ SanePct \subseteq Nat

\* What the tables offer for a symbol: a number per factor, or nothing.
Readable == Int \cup {None}

\* The move of the horizons together, by their weights.
Expected(horizons) ==
  MapThenSumSet(LAMBDA h : horizons[h].weight * horizons[h].move, DOMAIN horizons)
    \div MapThenSumSet(LAMBDA h : horizons[h].weight, DOMAIN horizons)

SignOf(x) == IF x > 0 THEN 1 ELSE IF x < 0 THEN -1 ELSE 0

\* What two horizons or more earn by pointing one way, whichever it is.
Agreement(horizons) ==
  LET moving == {h \in DOMAIN horizons : horizons[h].move # 0}
      way == MapThenSumSet(LAMBDA h : SignOf(horizons[h].move), moving)
  IN  IF Len(horizons) < 2 \/ moving = {} THEN 0
      ELSE (48 * (way * SignOf(way))) \div Cardinality(moving) - 24

\* The horizons' moves, and the points of their confidence.
ForecastRead ==
  {f \in [horizons : Seq([weight : Nat \ {0}, move : Int]), sure : Int] :
     f.horizons # <<>> /\ Expected(f.horizons) \in Int /\ Agreement(f.horizons) \in Int}

Readings ==
  [forecast : ForecastRead \cup {None}, align : {"full_bullish", "full_bearish", "not_aligned", None},
   sma : Readable, rsi : Readable, momentum : Readable, premium : Readable, regime : Readable,
   flow : Readable, quotes : Seq(Int), applies : SUBSET STRING, bars : Nat, fresh : BOOLEAN]

ASSUME BoardsAssumption ==
  /\ None \notin ForecastRead /\ Forecasts \subseteq ForecastRead
  /\ \A s \in Asset : \A b \in Boards[s] : b \in Readings

VARIABLES signals,   \* the newest row of each symbol
          policy,    \* app_settings['decision_policy']
          contract,  \* app_settings['signal_universe']
          generation, \* the pass: its step, the symbols left, what became of the others
          generations

signalVars == <<signals, policy, contract, generation, generations>>

-----------------------------------------------------------------------------
(* The cost hurdle                                                           *)

\* The newest usable quote among the last rows scanned, else the assumption.
ResolveCost(quotes) ==
  LET usable == {i \in DOMAIN quotes : i <= ScanLimit /\ quotes[i] \in SanePct}
  IN  IF usable = {} THEN [pct |-> Assumed, basis |-> "assumed"]
      ELSE [pct |-> quotes[Min(usable)], basis |-> "observed_spread"]

-----------------------------------------------------------------------------
(* The scorer                                                                *)

Points(n) == 4 * n

Clip(x, bound) == IF x > bound THEN bound ELSE IF x < -bound THEN -bound ELSE x

\* round(): a tie goes to the even integer.
Rounded(q) ==
  LET low == q \div 4
      rest == q % 4
  IN  IF rest > 2 \/ (rest = 2 /\ low % 2 = 1) THEN low + 1 ELSE low

FinalScore(q) == LET r == Rounded(q) IN IF r < 0 THEN 0 ELSE IF r > 100 THEN 100 ELSE r

ScoreToSignal(n) ==
  CASE n >= 75 -> "strong_buy" [] n >= 60 -> "buy"
    [] n <= 25 -> "strong_sell" [] n <= 40 -> "sell" [] OTHER -> "hold"

Band(n) ==
  CASE n >= 75 -> <<75, 100>> [] n >= 60 -> <<60, 74>>
    [] n <= 25 -> <<0, 25>> [] n <= 40 -> <<26, 40>> [] OTHER -> <<41, 59>>

Edge_Cliff(move, cost) ==
  IF move > cost THEN move ELSE IF move > 0 THEN -cost ELSE Clip(move, cost)

\* Moves inside the round trip's cost earn nothing in either direction.
Edge(move, cost) ==
  IF move > cost THEN move - cost ELSE IF move < -cost THEN move + cost ELSE 0

\* The forecast, its confidence and the agreement of its horizons.
ForecastPoints(b) ==
  IF b.forecast = None THEN 0
  ELSE Clip(8 * Edge(Expected(b.forecast.horizons), ResolveCost(b.quotes).pct), Points(25))
       + Points(b.forecast.sure) + Agreement(b.forecast.horizons)

Worth(points) == IF points = None THEN 0 ELSE Points(points)

\* A move further from hold is capped at the edge of the band it started in.
HoldWithinBand(before, after) ==
  LET band == Band(FinalScore(before))
  IN  IF after > before THEN Min({after, Points(band[2])})
      ELSE Max({after, Points(band[1])})

Away(q) == IF q > Points(50) THEN q - Points(50) ELSE Points(50) - q

\* The multi-timeframe alignment: at half weight when it confirms the SMA
\* factor, and capped when it makes the call more committal.
AlignTo(score, b) ==
  IF b.align \notin {"full_bullish", "full_bearish"} THEN score
  ELSE LET sign == IF b.align = "full_bullish" THEN 1 ELSE -1
           confirms == Worth(b.sma) * sign > 0
           proposed == score + sign * (IF confirms THEN 2 ELSE 4) * TrendWeight
       IN  IF Away(proposed) > Away(score) THEN HoldWithinBand(score, proposed) ELSE proposed

Slower(b) == Worth(b.rsi) + Worth(b.momentum) + Worth(b.premium) + Worth(b.regime) + Worth(b.flow)

\* Without a model behind it the reading keeps half its distance from hold.
Discounted(score, b) ==
  IF b.forecast # None THEN score ELSE Points(50) + (score - Points(50)) \div 2

\* compute_signal, in the order of its factors.
Scored(b) ==
  LET trend == Points(50) + ForecastPoints(b) + Worth(b.sma)
      all == AlignTo(trend, b) + Slower(b)
  IN  IF b.fresh THEN FinalScore(Discounted(all, b)) ELSE 50

-----------------------------------------------------------------------------
(* What a symbol can carry                                                   *)

Universal == {"sma", "rsi", "momentum", "regime"}
Directional == {"forecast", "sma", "align"}
Factors == Universal \cup Directional \cup {"premium", "flow"}

\* Which factors apply to the symbol is part of the board; a forecast needs a
\* trained model.
ProfileFor(s, b) ==
  (b.applies \cap Factors) \cup Universal
    \cup (IF s \in Forecastable THEN {"forecast"} ELSE {})

Supported(s, b) == {f \in ProfileFor(s, b) : b.bars >= Bars[f]}

Value(b, f) == b[f]

\* assemble_inputs: a supported factor with a value is scored; every other
\* factor is left unset, for the history, the profile or the value.
Carried(s, b) == {f \in Supported(s, b) : Value(b, f) # None}

Inputs(s, b) == [b EXCEPT !.forecast = IF "forecast" \in Carried(s, b) THEN @ ELSE None,
                          !.sma = IF "sma" \in Carried(s, b) THEN @ ELSE None,
                          !.align = IF "align" \in Carried(s, b) THEN @ ELSE None,
                          !.rsi = IF "rsi" \in Carried(s, b) THEN @ ELSE None,
                          !.momentum = IF "momentum" \in Carried(s, b) THEN @ ELSE None,
                          !.premium = IF "premium" \in Carried(s, b) THEN @ ELSE None,
                          !.regime = IF "regime" \in Carried(s, b) THEN @ ELSE None,
                          !.flow = IF "flow" \in Carried(s, b) THEN @ ELSE None]

Withheld(carried) == carried \cap Directional = {} \/ Cardinality(carried) < MinFactors

-----------------------------------------------------------------------------
(* The pass                                                                  *)

NoPass == [pc |-> "idle", left |-> {}, published |-> {}, withheld |-> {}, failed |-> {}]

SignalsInit ==
  /\ signals = [s \in Asset |-> None]
  /\ policy = None
  /\ contract = None
  /\ generation = NoPass
  /\ generations = 0

\* The requested symbols, and gold's decision policy before any of them.  A
\* policy that cannot be stored does not stop the pass.
StartSignals(requested) ==
  /\ generation.pc = "idle"
  /\ generations < MaxSignalPasses
  /\ generations' = generations + 1
  /\ generation' = [NoPass EXCEPT !.pc = "symbols", !.left = requested]
  /\ \E b \in Boards[Reference] : policy' \in {ResolveCost(b.quotes), policy}
  /\ UNCHANGED <<signals, contract>>

\* generate_signal_for: too little to say publishes nothing.
WithholdSignal(s, b) ==
  /\ s \in generation.left
  /\ Withheld(Carried(s, b))
  /\ generation' = [generation EXCEPT !.left = @ \ {s}, !.withheld = @ \cup {s}]
  /\ UNCHANGED <<signals, policy, contract, generations>>

PublishSignal(s, b) ==
  /\ s \in generation.left
  /\ ~Withheld(Carried(s, b))
  /\ LET inputs == Inputs(s, b)
     IN  signals' = [signals EXCEPT ![s] =
           [inputs |-> inputs, score |-> Scored(inputs),
            signal |-> ScoreToSignal(Scored(inputs))]]
  /\ generation' = [generation EXCEPT !.left = @ \ {s}, !.published = @ \cup {s}]
  /\ UNCHANGED <<policy, contract, generations>>

\* One symbol's failure is its own.
SignalFails(s) ==
  /\ s \in generation.left
  /\ generation' = [generation EXCEPT !.left = @ \ {s}, !.failed = @ \cup {s}]
  /\ UNCHANGED <<signals, policy, contract, generations>>

\* The universe contract is written, or its write fails; a pass in which every
\* symbol failed is then raised to the caller.
EndSignals ==
  /\ generation.pc = "symbols" /\ generation.left = {}
  /\ contract' \in {contract, [withheld |-> generation.withheld,
                               attempted |-> generation.published \cup generation.withheld
                                               \cup generation.failed]}
  /\ generation' = NoPass
  /\ UNCHANGED <<signals, policy, generations>>

SignalsKilled ==
  /\ generation.pc # "idle"
  /\ generation' = NoPass
  /\ UNCHANGED <<signals, policy, contract, generations>>

SignalsNext ==
  \/ \E requested \in SUBSET Asset \ {{}} : StartSignals(requested)
  \/ \E s \in Asset : \/ \E b \in Boards[s] : WithholdSignal(s, b) \/ PublishSignal(s, b)
                      \/ SignalFails(s)
  \/ EndSignals
  \/ SignalsKilled

SignalsSpec == SignalsInit /\ [][SignalsNext]_signalVars

-----------------------------------------------------------------------------
(* Properties                                                                *)

SignalRows == {signals[s] : s \in {x \in Asset : signals[x] # None}}

\* One forecast is at least as good as another: in the move its horizons
\* expect together, in their agreement and in their confidence.
NoWorse(f, g) ==
  /\ Expected(f.horizons) >= Expected(g.horizons)
  /\ Agreement(f.horizons) >= Agreement(g.horizons)
  /\ f.sure >= g.sure

\* The score is monotone in the forecast: whatever the other factors are, and
\* through the alignment's cap, the rounding and the clipping, a forecast that
\* is no worse never earns a lower score (engine.py, "scored monotonically and
\* continuously in `weighted_exp`").  A greater move alone may: where it parts
\* the horizons' directions, their agreement is lost.
ForecastMonotone ==
  \A r \in SignalRows : r.inputs.forecast # None =>
    \A f \in Forecasts : NoWorse(f, r.inputs.forecast) =>
      Scored([r.inputs EXCEPT !.forecast = f]) >= r.score

Call(signal) == CASE signal \in {"buy", "strong_buy"} -> "buy"
                  [] signal \in {"sell", "strong_sell"} -> "sell"
                  [] OTHER -> "hold"

=============================================================================
