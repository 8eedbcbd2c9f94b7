----------------------------- MODULE Restatement -----------------------------
(***************************************************************************)
(* The rules by which a payload that disagrees with stored rows is judged  *)
(* (bourse/ingest.py): TSETMC's CDN serves two copies of a history, and a  *)
(* stored row is never overwritten.  Shared by the equity bars, the index  *)
(* histories, the money flows and the session files.                       *)
(***************************************************************************)
EXTENDS Integers, FiniteSets, FiniteSetsExt

CONSTANTS
  MinCompared,    \* SYSTEMATIC_MIN_COMPARED
  RecentOverlap   \* RECENT_OVERLAP

ASSUME RestatementAssumption == {MinCompared, RecentOverlap} \subseteq Nat \ {0}

\* restatement_is_systematic: more than half of enough rows.
Systematic(restated, compared) ==
  compared >= MinCompared /\ 2 * restated > compared

\* The newest n of a set of days.
NewestOf(D, n) == {d \in D : Cardinality({e \in D : e > d}) < n}

\* newest_overlap_is_systematic: the same rule over the newest rows compared.
NewestSystematic(compared, restated) ==
  LET newest == NewestOf(compared, RecentOverlap)
  IN Systematic(Cardinality(newest \cap restated), Cardinality(newest))

\* The payload is some other series and is refused whole.
OtherSeries(compared, restated) ==
  \/ Systematic(Cardinality(restated), Cardinality(compared))
  \/ NewestSystematic(compared, restated)

\* Running totals of the first n entries of a history, for n up to N: adjust.py's
\* chain_factors and scale.py's scale_exponents carry one along.
Running(N, entry) ==
  LET sum[n \in 0..N] == IF n = 0 THEN 0 ELSE sum[n - 1] + entry[n] IN sum

\* The day before d in a set of days.
Before(D, d) == Max({e \in D : e < d})

\* joins_onto_restated: the new days whose predecessor in the merged series is
\* a stored day the payload restates.
JoinsOntoRestated(stored, new, restated) ==
  {d \in new : {e \in stored \cup new : e < d} # {} /\ Before(stored \cup new, d) \in restated}

=============================================================================
