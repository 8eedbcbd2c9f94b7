----------------------------- MODULE MCSignals -----------------------------
(* Two assets: one with a trained model, one read from technicals alone.    *)
EXTENDS Signals

CONSTANTS gold, silver

MCBars == [f \in Factors |-> IF f \in {"sma", "align"} THEN 2 ELSE 1]

\* A quote that is no spread in front of one that is, or no quote at all.
MCQuotes == {<<9, 3>>, <<>>}

Board(forecast, sma, align, rsi, momentum, bars, fresh, quotes) ==
  [forecast |-> forecast, sma |-> sma, align |-> align, rsi |-> rsi,
   momentum |-> momentum, premium |-> 6, regime |-> 0, flow |-> None,
   quotes |-> quotes, applies |-> {"align", "premium"}, bars |-> bars, fresh |-> fresh]

\* An hourly and a daily horizon, of half the weight and of the whole.
Forecast(hour, day, c) ==
  [horizons |-> <<[weight |-> 1, move |-> hour], [weight |-> 2, move |-> day]>>, sure |-> c]

\* Horizons that agree, on either side of the cost; and those that do not.
MCForecasts ==
  {Forecast(m, m, c) : m \in {-8, -5, -3, 0, 3, 4, 5, 7, 8, 20}, c \in {-4, 4}}
  \cup {Forecast(-5, 13, c) : c \in {-4, 4}} \cup {Forecast(13, -5, c) : c \in {-4, 4}}
  \cup {[horizons |-> <<[weight |-> 2, move |-> 8]>>, sure |-> 4]}

AlignReads == {"full_bullish", "full_bearish", "not_aligned", None}

\* The forecasts straddle the cost on both sides, and once their horizons part;
\* their confidence is at its extremes.
GoldBoards ==
  {Board(f, t, a, 8, 0, n, TRUE, q) :
     f \in UNION {{Forecast(-5, -2, c), Forecast(3, 9, c), Forecast(-5, 13, c)} : c \in {-4, 4}}, t \in {-12, 6, 12}, a \in AlignReads,
     n \in {2}, q \in MCQuotes}
  \cup {[Board([horizons |-> <<[weight |-> 2, move |-> 7]>>, sure |-> 4], 12, None, 0, 0, 2, FALSE, <<3>>)
           EXCEPT !.regime = -5, !.flow = -4]}

\* Nothing behind it but the tape, at its most favourable too.
SilverBoards ==
  {Board(None, t, a, r, 8, n, TRUE, <<>>) :
     t \in {0, 12}, a \in AlignReads, r \in {-8, 8}, n \in {0, 1, 2}}

MCBoards == [s \in Asset |-> IF s = gold THEN GoldBoards ELSE SilverBoards]

=============================================================================
