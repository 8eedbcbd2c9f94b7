---------------------------- MODULE IndexHistory ----------------------------
(***************************************************************************)
(* The stored history of ONE index, its decimal-shift correction and the   *)
(* verdict on it (bourse/ingest.py, ingest_index_history; bourse/scale.py),*)
(* under ingests of two copies of TSETMC's history that print stretches of *)
(* it on different decades, disagree on a level or lack a session.         *)
(*                                                                         *)
(* A value is a decade and a level: the decade is what scale_exp corrects, *)
(* the level is what two prints of one value share.  Payloads hold settled *)
(* sessions only (the cutoff is modelled in ShareFetch).                   *)
(***************************************************************************)
EXTENDS Restatement

CONSTANTS
  IndexDays,   \* sessions 1 to IndexDays
  FirstListed, \* sessions published when the behaviour begins
  Decades,     \* the decades a copy prints; 0 is the exchange's own
  Levels,
  IndexDiffer, \* bound on the sessions of which the copies' levels differ
  Handler,     \* handlers of /internal/bourse/ingest
  MaxPosts,    \* bound on the ingests ever started
  MaxExp,      \* MAX_ABS_EXP
  NoValue      \* no row

ASSUME IndexAssumption ==
  /\ {IndexDays, FirstListed, MaxPosts, MaxExp} \subseteq Nat \ {0}
  /\ IndexDiffer \in Nat
  /\ Decades \cup Levels \subseteq Int /\ 0 \in Decades

VARIABLES
  prints,   \* what each copy says of each session
  settled,  \* sessions published so far
  values,   \* market_index_values: the value
  exps,     \* and its scale_exp
  at,       \* the post that stored the row
  check,    \* market_index_checks: the status, and whether a live figure was compared
  crossing, \* two posts of this index have overlapped
  posts,    \* posts started
  hpc, paper, view  \* each post: its payload, and the rows it read

indexVars == <<prints, settled, values, exps, at, check, crossing, posts, hpc, paper, view>>

IndexDay == 1..IndexDays
Value == [dec : Decades, lev : Levels]
NoValues == [d \in IndexDay |-> NoValue]
Shown(V) == {d \in IndexDay : V[d] # NoValue}
NoView == [values |-> NoValues, exps |-> [d \in IndexDay |-> 0]]
NoPaper == [copy |-> 0, values |-> NoValues, live |-> FALSE]

IndexTypeOK ==
  /\ values \in [IndexDay -> Value \cup {NoValue}]
  /\ exps \in [IndexDay -> -MaxExp..MaxExp]
  /\ check.status \in {"none", "validated", "refused"} /\ check.live \in BOOLEAN
  /\ hpc \in [Handler -> {"idle", "read"}]

\* One copy is without the decimal-shift stretches and complete.
IndexInit ==
  /\ prints \in [{1, 2} -> [IndexDay -> Value \cup {NoValue}]]
  /\ \A d \in IndexDay : prints[1][d] = [dec |-> 0, lev |-> 0]
  /\ Cardinality({d \in IndexDay : prints[2][d] = NoValue \/ prints[2][d].lev # 0})
       <= IndexDiffer
  /\ settled = FirstListed
  /\ values = NoValues
  /\ exps = [d \in IndexDay |-> 0]
  /\ at = [d \in IndexDay |-> 0]
  /\ check = [status |-> "none", live |-> FALSE]
  /\ crossing = FALSE
  /\ posts = 0
  /\ hpc = [h \in Handler |-> "idle"]
  /\ paper = [h \in Handler |-> NoPaper]
  /\ view = [h \in Handler |-> NoView]

-----------------------------------------------------------------------------
(* scale.py                                                                 *)

\* The adjacent pairs of the days of a series.
Adjacent(D) == {p \in D \X D : p[1] < p[2] /\ p[1] = Before(D, p[2])}

\* A day that is tenfold up on the one before has a decade taken off from
\* there on, one that is tenfold down has one added.
Step(V, d) ==
  LET earlier == {e \in Shown(V) : e < d}
      k == V[d].dec - V[Max(earlier)].dec
  IN IF d \in Shown(V) /\ earlier # {} /\ k \in {-1, 1} THEN -k ELSE 0

\* The decades to add to each value so that the series is continuous.
Relative(V) == Running(IndexDays, [d \in IndexDay |-> Step(V, d)])

\* The scale most rows share; of two, the nearer to zero, then the larger.
Reference(V, rel) ==
  LET size(k) == Cardinality({p \in rel : p[2] = k})
      abs(k) == IF k < 0 THEN -k ELSE k
      scales == {p[2] : p \in rel}
  IN CHOOSE k \in scales : \A j \in scales \ {k} :
       \/ size(k) > size(j)
       \/ size(k) = size(j) /\ abs(k) < abs(j)
       \/ size(k) = size(j) /\ abs(k) = abs(j) /\ k > j

\* scale_exponents
Exponents(V) ==
  LET shift == Relative(V)
      rel == {<<d, shift[d]>> : d \in Shown(V)}
      ref == Reference(V, rel)
  IN {<<p[1], p[2] - ref>> : p \in rel}

\* verdict: refused when the correction is out of range, or when the newest
\* corrected value is not on the live figure's decade.
IndexVerdict(V, E, live) ==
  LET newest == Max(Shown(V)) IN
  IF \/ \E p \in E : p[2] \notin -MaxExp..MaxExp
     \/ live /\ <<newest, -V[newest].dec>> \notin E
  THEN "refused" ELSE "validated"

-----------------------------------------------------------------------------
(* ingest_index_history                                                     *)

Served(c) == [d \in IndexDay |-> IF d <= settled THEN prints[c][d] ELSE NoValue]

\* The payload is parsed and the transaction reads the stored rows; the run
\* may have lost the live figures.
ReadIndex(h) ==
  /\ hpc[h] = "idle"
  /\ posts < MaxPosts
  /\ posts' = posts + 1
  /\ \E c \in {1, 2}, live \in BOOLEAN :
       /\ Shown(Served(c)) # {}
       /\ paper' = [paper EXCEPT ![h] = [copy |-> c, values |-> Served(c), live |-> live]]
  /\ view' = [view EXCEPT ![h] = [values |-> values, exps |-> exps]]
  /\ crossing' = (crossing \/ \E g \in Handler : hpc[g] = "read")
  /\ hpc' = [hpc EXCEPT ![h] = "read"]
  /\ UNCHANGED <<prints, settled, values, exps, at, check>>

NewDays(h) == Shown(paper[h].values) \ Shown(view[h].values)
Overlap(h) == Shown(paper[h].values) \cap Shown(view[h].values)

\* Neither one value printed twice (_same_index_print) nor a power of ten
\* apart (_power_of_ten_apart): the level differs.
Contradicted(h) ==
  {d \in Overlap(h) : paper[h].values[d].lev # view[h].values[d].lev}

\* Mutant: a new value may follow a stored one its copy states differently.
StepsOnto_None(h) == {}

\* The new days that follow a stored value this copy states differently.
StepsOnto(h) == JoinsOntoRestated(Shown(view[h].values), NewDays(h), Contradicted(h))

Refused(h) == OtherSeries(Overlap(h), Contradicted(h)) \/ StepsOnto(h) # {}

Done(h) ==
  /\ hpc' = [hpc EXCEPT ![h] = "idle"]
  /\ paper' = [paper EXCEPT ![h] = NoPaper]
  /\ view' = [view EXCEPT ![h] = NoView]

RefuseIndex(h) ==
  /\ hpc[h] = "read"
  /\ Refused(h)
  /\ Done(h)
  /\ UNCHANGED <<prints, settled, values, exps, at, check, crossing, posts>>

\* Mutant: only the new rows are given their correction.
Rescaled_NewOnly(h, E) == {}

\* The stored rows whose correction, as read, is not the new one.
Rescaled(h, E) == {p \in E : p[1] \in Shown(view[h].values) /\ p[2] # view[h].exps[p[1]]}

\* The new rows are inserted, the correction is recomputed over the merged
\* series, and the verdict describes it.
CommitIndex(h) ==
  /\ hpc[h] = "read"
  /\ ~Refused(h)
  /\ LET merged == [d \in IndexDay |-> IF d \in NewDays(h) THEN paper[h].values[d]
                                        ELSE view[h].values[d]]
         new == {d \in NewDays(h) : values[d] = NoValue}
     IN \E E \in {Exponents(merged)} :
          LET written == {p \in E : p[1] \in new} \cup Rescaled(h, E) IN
          /\ values' = [d \in IndexDay |-> IF d \in new THEN merged[d] ELSE values[d]]
          /\ exps' = [d \in IndexDay |->
               IF \E p \in written : p[1] = d
               THEN (CHOOSE p \in written : p[1] = d)[2] ELSE exps[d]]
          /\ at' = [d \in IndexDay |-> IF d \in new THEN posts ELSE at[d]]
          /\ check' = [status |-> IndexVerdict(merged, E, paper[h].live), live |-> paper[h].live]
  /\ Done(h)
  /\ UNCHANGED <<prints, settled, crossing, posts>>

NextPrint ==
  /\ settled < IndexDays
  /\ settled' = settled + 1
  /\ UNCHANGED <<prints, values, exps, at, check, crossing, posts, hpc, paper, view>>

IndexNext ==
  \/ NextPrint
  \/ \E h \in Handler : ReadIndex(h) \/ RefuseIndex(h) \/ CommitIndex(h)

IndexSpec == IndexInit /\ [][IndexNext]_indexVars

-----------------------------------------------------------------------------
(* Properties.                                                              *)

\* An index whose verdict is 'validated' against the live figure has every
\* stored value, once corrected, on the exchange's own decade, whichever copy
\* each row came from and however the majority scale has moved since it was
\* stored; unless two posts of the index overlapped.
ValidatedIsOnScale ==
  crossing \/ (check.status = "validated" /\ check.live =>
    \A d \in Shown(values) : values[d].dec + exps[d] = 0)

\* A value stored no earlier than its neighbour before it comes from a copy
\* that states that neighbour the same way, or lacks it: a new value never
\* meets the store with a step that its own copy shows no session made.
NoForwardStep ==
  crossing \/ \A p \in Adjacent(Shown(values)) :
    at[p[1]] <= at[p[2]] =>
      \E c \in {1, 2} :
        /\ prints[c][p[2]] # NoValue /\ prints[c][p[2]].lev = values[p[2]].lev
        /\ prints[c][p[1]] = NoValue \/ prints[c][p[1]].lev = values[p[1]].lev

=============================================================================
