---------------------------- MODULE MCForecast ----------------------------
(* What the service derives from what it stored, on small instances: the    *)
(* model versions, the tournament, the trend indicator, the signals, the    *)
(* stories of the news and the pressure snapshot.  They share no variable:  *)
(* a behaviour is about one, and the others stay as they began.             *)
EXTENDS ModelRegistry, TrendAlignment, MCSignals, MCSelection,
        MCNews, TLC

CONSTANTS p1, p2

VARIABLE focus

MCWidth == [tf \in {"1h", "4h", "1d"} |-> CASE tf = "1h" -> 1 [] tf = "4h" -> 2 [] OTHER -> 4]

\* Before the first hour: two days quoted every hour, at a price that fell, or
\* one quoted once and the other every hour, at the same price throughout.
MCHistories ==
  {[h \in 0 .. 6 |-> IF h < 4 THEN 2 ELSE 1], [h \in 0 .. 6 |-> IF h < 3 THEN Absent ELSE 1]}

\* An average that starts on the first close and moves half-way to each of the
\* others, as a fraction, and where the last close lies from it.
MCVerdict(closes) ==
  LET order == SelectSeq([i \in 1 .. LastHour + 1 |-> i - 1], LAMBDA b : b \in DOMAIN closes)
      average[i \in 1 .. Len(order)] ==
        IF i = 1 THEN <<closes[order[1]], 1>>
        ELSE LET a == average[i - 1] IN <<a[1] + closes[order[i]] * a[2], 2 * a[2]>>
      all == average[Len(order)]
      last == closes[order[Len(order)]] * all[2]
  IN  CASE last > all[1] -> "bullish" [] last < all[1] -> "bearish" [] OTHER -> "neutral"

forecastVars == <<registryVars, trendVars, signalVars, selectionVars>>
readingVars == <<storyVars, pressureVars>>

vars == <<forecastVars, readingVars, focus>>

Init ==
  /\ focus \in {"registry", "trend", "signals", "selection", "stories", "pressure"}
  /\ StoriesInit
  /\ focus # "stories" => batch = {}
  /\ PressureInit
  /\ focus # "pressure" => version = Min(Versions)
  /\ RegistryInit /\ TrendInit /\ SignalsInit /\ SelectionInit
  /\ focus # "selection" => length = Min(Lengths) /\ ahead = Min(Horizons)
  /\ focus # "trend" => close[0] # Absent

Next ==
  /\ UNCHANGED focus
  /\ \/ /\ focus = "registry" /\ RegistryNext
        /\ UNCHANGED <<trendVars, signalVars, selectionVars, readingVars>>
     \/ /\ focus = "trend" /\ TrendNext
        /\ UNCHANGED <<registryVars, signalVars, selectionVars, readingVars>>
     \/ /\ focus = "signals" /\ SignalsNext
        /\ UNCHANGED <<registryVars, trendVars, selectionVars, readingVars>>
     \/ /\ focus = "selection" /\ SelectionNext
        /\ UNCHANGED <<registryVars, trendVars, signalVars, readingVars>>
     \/ focus = "stories" /\ StoriesNext /\ UNCHANGED <<forecastVars, pressureVars>>
     \/ focus = "pressure" /\ PressureNext /\ UNCHANGED <<forecastVars, storyVars>>

Spec == Init /\ [][Next]_vars

=============================================================================
