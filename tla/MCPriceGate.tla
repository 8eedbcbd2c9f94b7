---------------------------- MODULE MCPriceGate ----------------------------
(* Instances of PriceGate: the symbol's providers are "live" and "ticker".  *)
EXTENDS PriceGate

MCPriority == <<"live", "ticker">>
MCSole == <<"live">>

\* Tickers that may lag the market by a tick, or by two.
MCLags == [p \in {"live", "ticker"} |-> IF p = "live" THEN {0} ELSE {0, 1}]
MCNoLag == [p \in {"live"} |-> {0}]

MCSane == 50..500

\* The market opens with the second tick.
MCOpen == 2..10
MCAlwaysOpen == 1..20

=============================================================================
