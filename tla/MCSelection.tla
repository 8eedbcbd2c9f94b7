---------------------------- MODULE MCSelection ----------------------------
(* Two candidates over four folds, a point or two apart.                    *)
EXTENDS Selection

MCCandidates == <<"sma", "gbr">>

\* A walk that is better in its oldest folds or in its newest, and reproduces
\* naive or is worse in the others; one whose first fold or last one failed,
\* and none.
MCWalks(F) ==
  {[i \in F |-> IF i \in B THEN "better" ELSE o] :
     B \in {FirstOf(F, n) : n \in {0, 1, 3, 4}} \cup {LastOf(F, n) : n \in {1, 2}},
     o \in {"same", "worse"}}
  \cup {[i \in F \ {j} |-> "better"] : j \in FirstOf(F, 1) \cup LastOf(F, 1)}
  \cup {<<>>}

=============================================================================
