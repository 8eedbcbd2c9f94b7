------------------------------ MODULE Selection ------------------------------
(* The tournament of one symbol and horizon (models/training.py): the walk   *)
(* of every candidate, the split of its folds, the ensemble, and the gates a *)
(* winner has to pass.                                                       *)
(*                                                                            *)
(* A fold is the index of its `now` point.  The last value stands for naive  *)
(* in every fold, and a candidate's fold is better than naive's, worse, the  *)
(* same prediction, or it failed; its error is counted in thirds of naive's. *)
EXTENDS Integers, Sequences, FiniteSets, FiniteSetsExt

CONSTANTS Lengths,     \* how long the series may be
          Horizons,    \* steps ahead
          Candidates,  \* CANDIDATES without naive, in order
          Walks(_),    \* what a walk over a set of folds, or a mean of walks, may give
          MinTrain,    \* MIN_TRAIN_POINTS
          MinPoints,   \* MIN_DAILY_POINTS
          MaxFolds,    \* MAX_FOLDS
          HoldoutMin,  \* HOLDOUT_MIN
          HoldoutTotal, \* HOLDOUT_MIN_TOTAL
          HoldoutPct,  \* HOLDOUT_FRACTION, in percent
          EdgePct,     \* MIN_EDGE_PCT, in percent
          MinPaired,   \* the folds bootstrap_beats needs
          Undecided

ASSUME SelectionAssumption ==
  /\ {MinTrain, MinPoints, MaxFolds, HoldoutMin, HoldoutTotal, HoldoutPct, EdgePct, MinPaired}
       \subseteq Nat \ {0}
  /\ Lengths \subseteq Nat /\ Horizons \subseteq Nat \ {0}
  /\ Candidates \in Seq(STRING)

\* A walk gives outcomes for folds it was given, at most.
ASSUME WalksAssumption ==
  \A n \in Lengths : \A F \in SUBSET (0 .. n) : \A w \in Walks(F) : DOMAIN w \subseteq F

VARIABLES length, ahead,  \* the series and the horizon
          stage, walked,  \* the step of the tournament, the candidates walked
          walks,          \* results: candidate -> fold -> outcome
          winner, reasons, activation

selectionVars == <<length, ahead, stage, walked, walks, winner, reasons, activation>>

ErrorOf == [better |-> 1, same |-> 3, worse |-> 4]

-----------------------------------------------------------------------------
(* Folds                                                                     *)

\* _fold_step: the spacing of the folds.
FoldStep ==
  LET last == length - 1 - ahead
      first == MinTrain - 1
  IN  IF last < first THEN 1 ELSE Max({1, (last - first) \div MaxFolds + 1})

\* _fold_indices: from the first point a model can be trained to, to the last
\* one whose target is known.
FoldIndices ==
  {i \in (MinTrain - 1)..(length - 1 - ahead) : (i - MinTrain + 1) % FoldStep = 0}

\* The n first, and the n last, of a set of folds.
FirstOf(F, n) == {i \in F : Cardinality({j \in F : j < i}) < n}
LastOf(F, n) == {i \in F : Cardinality({j \in F : j > i}) < n}

HoldoutSize(F) == Max({HoldoutMin, (Cardinality(F) * HoldoutPct) \div 100})

EmbargoWanted_Floor == Max({0, ahead \div FoldStep - 1})

\* ceil(horizon / step) - 1: the folds that share a future with the holdout.
EmbargoWanted == (ahead + FoldStep - 1) \div FoldStep - 1

\* What the selection can spare.
EmbargoOf(F) ==
  Min({EmbargoWanted, Max({0, Cardinality(F) - HoldoutSize(F) - HoldoutMin})})

SelectionSize(F) == Cardinality(F) - HoldoutSize(F) - EmbargoOf(F)

\* split_folds: all folds and no holdout when there are too few.
Splits(F) == Cardinality(F) >= HoldoutTotal /\ SelectionSize(F) >= HoldoutMin
SelFolds(F) == IF Splits(F) THEN FirstOf(F, SelectionSize(F)) ELSE F
HoldFolds(F) == IF Splits(F) THEN LastOf(F, HoldoutSize(F)) ELSE {}

-----------------------------------------------------------------------------
(* Metrics                                                                   *)

FoldsOf(c) == IF c = "naive" THEN FoldIndices ELSE DOMAIN walks[c]
FoldError(c, i) == IF c = "naive" THEN ErrorOf["same"] ELSE ErrorOf[walks[c][i]]
ErrorSum(c, F) == SumFunctionOnSet([i \in F |-> FoldError(c, i)], F)

\* The mean error over c's folds F is below that of d's folds G, by the edge.
Below(c, F, d, G) == ErrorSum(c, F) * Cardinality(G) < ErrorSum(d, G) * Cardinality(F)
Material(c, F, d, G) ==
  100 * (ErrorSum(d, G) * Cardinality(F) - ErrorSum(c, F) * Cardinality(G))
    >= EdgePct * ErrorSum(d, G) * Cardinality(F)

Entered == DOMAIN walks
Sel(c) == SelFolds(FoldsOf(c))
Hold(c) == HoldFolds(FoldsOf(c))
BeatsNaive(c) == Below(c, Sel(c), "naive", Sel("naive"))

-----------------------------------------------------------------------------
(* evaluate_candidates                                                       *)

SelectionInit ==
  /\ length \in Lengths /\ ahead \in Horizons
  /\ stage = "walk" /\ walked = 0 /\ walks = <<>>
  /\ winner = Undecided /\ reasons = {} /\ activation = Undecided

\* horizon_enabled refuses the series, or no candidate can be walked.
NoTournament ==
  /\ stage = "walk"
  /\ length < MinPoints \/ FoldIndices = {}
  /\ stage' = "ended"
  /\ UNCHANGED <<length, ahead, walked, walks, winner, reasons, activation>>

\* walk_forward of the next candidate: one that is not available, or whose
\* folds all failed, does not enter.
WalkForward ==
  /\ stage = "walk" /\ walked < Len(Candidates)
  /\ length >= MinPoints /\ FoldIndices # {}
  /\ walked' = walked + 1
  /\ \E w \in Walks(FoldIndices) :
       walks' = IF DOMAIN w = {} THEN walks
                ELSE [c \in Entered \cup {Candidates[walked']} |->
                        IF c = Candidates[walked'] THEN w ELSE walks[c]]
  /\ UNCHANGED <<length, ahead, stage, winner, reasons, activation>>

\* _drop_duplicate_members keeps one of the members that predict alike.
Members(kept) ==
  /\ kept \subseteq {c \in Entered : BeatsNaive(c)}
  /\ \A c \in {x \in Entered : BeatsNaive(x)} \ kept : \E d \in kept : walks[d] = walks[c]

\* combine, in each fold all the members have: the weighted mean of what they
\* predict, which is naive's when all of them are, and otherwise better or worse
\* than naive's, or the same when they cancel out.
AddEnsemble ==
  /\ stage = "walk" /\ walked = Len(Candidates)
  /\ stage' = "select"
  /\ \/ \E kept \in SUBSET Entered :
          /\ Members(kept) /\ Cardinality(kept) >= 2
          /\ LET common == {i \in FoldIndices : \A c \in kept : i \in FoldsOf(c)}
             IN  /\ common # {}
                 /\ \E mean \in Walks(common) :
                      /\ DOMAIN mean = common
                      /\ \A i \in common :
                           (\A d \in kept : walks[d][i] = "same") => mean[i] = "same"
                      /\ walks' = [c \in Entered \cup {"ensemble"} |->
                                    IF c = "ensemble" THEN mean ELSE walks[c]]
     \/ /\ \E kept \in SUBSET Entered :
             /\ Members(kept)
             /\ \/ Cardinality(kept) < 2
                \/ {i \in FoldIndices : \A c \in kept : i \in FoldsOf(c)} = {}
        /\ UNCHANGED walks
  /\ UNCHANGED <<length, ahead, walked, winner, reasons, activation>>

-----------------------------------------------------------------------------
(* select_winner                                                             *)

Order == Candidates \o <<"ensemble">>

\* The least selection error, the first of equals, and less than naive's.
Best ==
  LET least == {c \in Entered : /\ BeatsNaive(c)
                                /\ \A d \in Entered : ~Below(d, Sel(d), c, Sel(c))}
  IN  IF least = {} THEN "naive"
      ELSE Order[Min({k \in DOMAIN Order : Order[k] \in least})]

\* degenerate_share above a half, over the folds F.
Degenerate(c, F) == 2 * Cardinality({i \in F : walks[c][i] = "same"}) > Cardinality(F)

\* bootstrap_beats: too few folds say nothing, none that is not better beats
\* naive, and a mean no better does not.
MayBeat(c, F) == Cardinality(F) < MinPaired \/ Below(c, F, "naive", F)
MayNotBeat(c, F) == Cardinality(F) >= MinPaired /\ \E i \in F : walks[c][i] # "better"

\* The folds the gates read: no result carries `sel_folds`, so every fold.
GateFolds(c) == FoldsOf(c)

\* The reasons that do not depend on a resampling or on absolute errors.
ReasonsFor(c) ==
  (IF Degenerate(c, GateFolds(c)) THEN {"reproduced naive"} ELSE {})
    \cup (IF Material(c, Sel(c), "naive", Sel("naive")) THEN {} ELSE {"edge"})
    \cup (IF Hold(c) = {} \/ Hold("naive") = {} THEN {"no holdout"}
          ELSE IF Material(c, Hold(c), "naive", Hold("naive")) THEN {} ELSE {"holdout edge"})

\* _state_for: the most fundamental of the reasons.
StateFor(why) ==
  CASE "no holdout" \in why -> "insufficient_holdout"
    [] "mase" \in why -> "rejected_by_mase"
    [] "holdout edge" \in why -> "rejected_by_holdout"
    [] {"bootstrap", "reproduced naive"} \cap why # {} -> "rejected_by_instability"
    [] OTHER -> "rejected_by_materiality"

\* What the resampling and the absolute errors of the holdout may add.
MayAdd(c) ==
  {extra \in SUBSET {"bootstrap", "mase"} :
     /\ "bootstrap" \in extra => MayNotBeat(c, GateFolds(c))
     /\ "bootstrap" \notin extra => MayBeat(c, GateFolds(c))
     /\ "mase" \in extra => Hold(c) # {}}

SelectWinner ==
  /\ stage = "select"
  /\ stage' = "ended"
  /\ IF Best = "naive"
     THEN winner' = "naive" /\ UNCHANGED <<reasons, activation>>
     ELSE \E extra \in MayAdd(Best) :
            LET why == ReasonsFor(Best) \cup extra
            IN  /\ reasons' = why
                /\ winner' = IF why = {} THEN Best ELSE "naive"
                /\ activation' = IF why = {} THEN "confirmed" ELSE StateFor(why)
  /\ UNCHANGED <<length, ahead, walked, walks>>

SelectionNext == NoTournament \/ WalkForward \/ AddEnsemble \/ SelectWinner

SelectionSpec == SelectionInit /\ [][SelectionNext]_selectionVars

-----------------------------------------------------------------------------
(* Properties                                                                *)

\* A model is served only on evidence it was not chosen by: its holdout is
\* materially better than naive's, and no value its selection was scored
\* against lies after the holdout's first `now` (split_folds' embargo), except
\* where the embargo had to be cut to leave a selection at all.
ConfirmedOutOfSample ==
  winner \notin {Undecided, "naive"} =>
    /\ Hold(winner) # {}
    /\ Material(winner, Hold(winner), "naive", Hold("naive"))
    /\ \/ EmbargoOf(FoldsOf(winner)) < EmbargoWanted
       \/ \A s \in Sel(winner), h \in Hold(winner) : s + ahead <= h

\* A candidate is turned down as never exercised only for what it did on the
\* folds it was selected on ("Selection folds only").
GateSeesSelectionOnly ==
  "reproduced naive" \in reasons => Degenerate(Best, Sel(Best))

=============================================================================
