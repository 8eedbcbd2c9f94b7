------------------------- MODULE MCEconomicIngest --------------------------
(* EconomicIngest on a small instance.                                      *)
EXTENDS EconomicIngest, TLC

CONSTANTS p1, p2, y1, y2, a, b

MCPeriodEnd == [per \in Period |-> IF per = y1 THEN 0 ELSE 1]

FairSpec == Spec /\ Fairness

Symmetry == Permutations(Pass)

=============================================================================
