------------------------------ MODULE MCPrices ------------------------------
(* How prices come to be stored: the gate of the live collection, and the   *)
(* daily closes taken from TGJU.  The two share no variable here: a         *)
(* behaviour is about one of them, and the other stays as it began.         *)
EXTENDS MCPriceGate, TgjuHistory

VARIABLE focus

pricesVars == <<vars, tgjuVars, focus>>

PricesInit ==
  /\ focus \in {"gate", "tgju"}
  /\ Init
  /\ TgjuInit
  /\ table[1] = LiveValue
  /\ focus # "tgju" => gap /\ table[2] = LiveValue

PricesNext ==
  /\ UNCHANGED focus
  /\ \/ focus = "gate" /\ Next /\ UNCHANGED tgjuVars
     \/ focus = "tgju" /\ TgjuNext /\ UNCHANGED vars

PricesSpec == PricesInit /\ [][PricesNext]_pricesVars

=============================================================================
