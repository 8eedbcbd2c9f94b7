---------------------------- MODULE ArchiveProofs ----------------------------
(***************************************************************************)
(* The archives filled from TSETMC, for any number of sessions, shares,    *)
(* posts and overlapping handlers and any pair of copies.                  *)
(***************************************************************************)
EXTENDS EquityBars, FundCloses, IndexHistory, ShareFetch, NaturalSets

\* The newest member before one whose predecessor is there is that one.
LEMMA BeforeNext ==
  ASSUME NEW n \in Nat, NEW D \in SUBSET (0..n), NEW d \in D
  PROVE  Before(D, d + 1) = d
<1>0. d \in Nat /\ d < d + 1
  OBVIOUS
<1>1. {e \in D : e < d + 1} \in SUBSET (0..n) /\ d \in {e \in D : e < d + 1}
  BY <1>0
<1>2. /\ Max({e \in D : e < d + 1}) \in {e \in D : e < d + 1}
      /\ \A m \in {e \in D : e < d + 1} : m <= Max({e \in D : e < d + 1})
  BY <1>1, MaxIs
<1> DEFINE m == Max({e \in D : e < d + 1})
<1>3. m \in Nat /\ m < d + 1 /\ d <= m
  BY <1>1, <1>2
<1> HIDE DEF m
<1>4. m = d
  BY <1>0, <1>3
<1> QED
  BY <1>4 DEF Before, m

-----------------------------------------------------------------------------
(* The commodity funds                                                      *)

\* A handler's variables.
FundShape ==
  /\ DOMAIN closes = FundDay
  /\ fpc \in [FundHandler -> {"idle", "judged", "written"}]
  /\ tedpix \subseteq Nat /\ today \in Nat
  /\ DOMAIN post = FundHandler
  /\ \A h \in FundHandler :
       post[h] = [list |-> post[h].list, rows |-> post[h].rows,
                  alone |-> post[h].alone, count |-> post[h].count]

\* A list is written from row by row.
RowsOfList ==
  \A h \in FundHandler, d \in FundDay :
    post[h].rows[d] # NoClose => post[h].rows[d] = post[h].list[d] /\ fpc[h] # "idle"

\* What is inserted is of nobody else: neither stored nor another's.
InsertedIsNew ==
  \A h \in FundHandler : fpc[h] = "written" =>
    /\ Stored(post[h].rows) \cap Stored(closes) = {}
    /\ \A g \in FundHandler \ {h} : fpc[g] = "written" =>
         Stored(post[h].rows) \cap Stored(post[g].rows) = {}

\* An ingest that has been alone since it judged finds the store as it was
\* then, and every pair it would complete chains to it.
AloneChains ==
  \A h \in FundHandler : fpc[h] # "idle" /\ post[h].alone =>
    /\ \A g \in FundHandler \ {h} : fpc[g] = "idle"
    /\ Stored(post[h].rows) \cap Stored(closes) = {}
    /\ \A d \in FundDay \ {FundDays} :
         /\ {d, d + 1} \cap Stored(post[h].rows) # {}
         /\ {d, d + 1} \subseteq Stored(post[h].list)
         /\ post[h].list[d].traded
         => RoundingApart(post[h].list[d + 1].ref,
              IF closes[d] # NoClose THEN closes[d].close ELSE post[h].list[d].close)

FundInv ==
  /\ FundShape /\ RowsOfList /\ InsertedIsNew /\ AloneChains
  /\ \A p \in chained : p.day \in Stored(closes)
  /\ NoUnmadeStep

\* A list that is not refused chains to the store wherever it would write.
LEMMA JudgedChains ==
  ASSUME tedpix \subseteq Nat, NEW list, NEW d \in FundDay \ {FundDays},
         ReferenceRestatements(list) = {},
         {d, d + 1} \cap (SettledOf(list) \ Stored(closes)) # {},
         {d, d + 1} \subseteq Stored(list),
         list[d].traded
  PROVE  RoundingApart(list[d + 1].ref,
           IF closes[d] # NoClose THEN closes[d].close ELSE list[d].close)
<1>0. FundDays \in Nat /\ Stored(list) \in SUBSET (0..FundDays) /\ d \in Nat
  BY FundAssumption DEF Stored, FundDay
<1>1. Before(Stored(list), d + 1) = d
  BY <1>0, BeforeNext
<1>2. d + 1 \in Stored(list) /\ {e \in Stored(list) : e < d + 1} # {}
  BY <1>0
<1>3. {d, d + 1} \cap Judged(list) # {}
  BY DEF Judged
<1>4. {e \in tedpix : d < e /\ e < d + 1} = {}
  <2> SUFFICES ASSUME NEW e \in tedpix, d < e, e < d + 1 PROVE FALSE
    OBVIOUS
  <2>1. e \in Nat
    OBVIOUS
  <2> QED
    BY <1>0, <2>1
<1>5. RoundingApart(list[d + 1].ref, AsStored(list, d))
  BY <1>1, <1>2, <1>3, <1>4 DEF ReferenceRestatements
<1> QED
  BY <1>5 DEF AsStored

\* Judging a list.
LEMMA JudgeKeepsFund ==
  ASSUME FundInv, NEW h \in FundHandler, JudgeFund(h)
  PROVE  FundInv'
<1> USE DEF FundInv
<1>1. PICK c \in {1, 2} :
        LET list == [d \in FundDay |-> IF d <= today THEN lists[c][d] ELSE NoClose]
            new == SettledOf(list) \ Stored(closes)
            refused == \/ OtherSeries(SettledOf(list) \cap Stored(closes), RestatedCloses(list))
                       \/ ReferenceRestatements(list) # {}
        IN  /\ fpc' = [fpc EXCEPT ![h] = IF refused THEN "idle" ELSE "judged"]
            /\ post' = [g \in FundHandler |->
                 IF g = h
                 THEN IF refused THEN NoPost
                      ELSE [list |-> list, count |-> 0,
                            rows |-> [d \in FundDay |-> IF d \in new THEN list[d] ELSE NoClose],
                            alone |-> \A k \in FundHandler \ {h} : fpc[k] = "idle"]
                 ELSE [post[g] EXCEPT !.alone = FALSE]]
  BY DEF JudgeFund
<1> DEFINE list == [d \in FundDay |-> IF d <= today THEN lists[c][d] ELSE NoClose]
           new == SettledOf(list) \ Stored(closes)
           refused == \/ OtherSeries(SettledOf(list) \cap Stored(closes), RestatedCloses(list))
                      \/ ReferenceRestatements(list) # {}
           rows == [d \in FundDay |-> IF d \in new THEN list[d] ELSE NoClose]
<1>2. fpc[h] = "idle" /\ UNCHANGED <<lists, today, tedpix, closes, chained>>
  BY DEF JudgeFund, fundWorld
<1>3. ASSUME NEW g \in FundHandler \ {h}
      PROVE  /\ post'[g] = [list |-> post[g].list, rows |-> post[g].rows,
                            alone |-> FALSE, count |-> post[g].count]
             /\ post'[g].list = post[g].list /\ post'[g].rows = post[g].rows
             /\ ~post'[g].alone /\ fpc'[g] = fpc[g]
  <2>1. post'[g] = [post[g] EXCEPT !.alone = FALSE] /\ fpc'[g] = fpc[g]
    BY <1>1 DEF FundShape
  <2>2. post'[g] = [list |-> post[g].list, rows |-> post[g].rows,
                   alone |-> FALSE, count |-> post[g].count]
    BY <2>1 DEF FundShape
  <2>3. ~post'[g].alone
    BY <2>2
  <2> QED
    BY <2>1, <2>2, <2>3
<1>4. Stored(rows) = new /\ \A d \in FundDay : rows[d] # NoClose => rows[d] = list[d]
  BY DEF Stored, SettledOf
<1>5. ReferenceRestatements(list) = {} \/ refused
  OBVIOUS
<1>6. ASSUME ~refused
      PROVE  \A d \in FundDay \ {FundDays} :
               /\ {d, d + 1} \cap Stored(rows) # {}
               /\ {d, d + 1} \subseteq Stored(list)
               /\ list[d].traded
               => RoundingApart(list[d + 1].ref,
                    IF closes[d] # NoClose THEN closes[d].close ELSE list[d].close)
  <2>1. ReferenceRestatements(list) = {}
    BY <1>5, <1>6
  <2> HIDE DEF list, refused, rows
  <2> QED
    BY <1>4, <2>1, JudgedChains DEF FundShape
<1>7. \/ refused /\ post'[h] = NoPost /\ fpc'[h] = "idle"
      \/ /\ ~refused /\ fpc'[h] = "judged"
         /\ post'[h] = [list |-> list, count |-> 0, rows |-> rows,
                        alone |-> \A k \in FundHandler \ {h} : fpc[k] = "idle"]
  BY <1>1 DEF FundShape
<1>8. fpc' \in [FundHandler -> {"idle", "judged", "written"}] /\ DOMAIN post' = FundHandler
  BY <1>1 DEF FundShape
<1> HIDE DEF list, new, refused, rows
<1>9. FundShape'
  BY <1>2, <1>3, <1>7, <1>8 DEF NoPost, FundShape
<1>13. \A g \in FundHandler \ {h} :
         /\ post'[g].list = post[g].list /\ post'[g].rows = post[g].rows
         /\ ~post'[g].alone /\ fpc'[g] = fpc[g]
  BY <1>3
<1>14. CASE refused
  <2>1. post'[h].rows = NoRows /\ fpc'[h] = "idle"
    BY <1>7, <1>14 DEF NoPost
  <2>2. \A d \in FundDay : post'[h].rows[d] = NoClose
    BY <2>1 DEF NoRows
  <2>5. RowsOfList'
    BY <1>13, <2>1, <2>2 DEF RowsOfList
  <2>3. InsertedIsNew'
    BY <1>2, <1>13, <2>1 DEF InsertedIsNew
  <2>4. AloneChains'
    BY <1>13, <2>1 DEF AloneChains
  <2> QED
    BY <1>2, <1>9, <2>3, <2>4, <2>5 DEF NoUnmadeStep
<1>15. CASE ~refused
  <2>1. /\ post'[h].list = list /\ post'[h].rows = rows /\ fpc'[h] = "judged"
    BY <1>7, <1>15
  <2>2. post'[h].alone => \A k \in FundHandler \ {h} : fpc[k] = "idle"
    BY <1>7, <1>15
  <2>3. RowsOfList'
    BY <1>2, <1>4, <1>13, <2>1 DEF RowsOfList
  <2>5. InsertedIsNew'
    BY <1>2, <1>13, <2>1 DEF InsertedIsNew
  <2>4. AloneChains'
    <3>1. new \cap Stored(closes) = {}
      BY DEF new
    <3>2. \A g \in FundHandler : post'[g].alone => g = h
      BY <1>13
    <3>3. post'[h].alone => \A g \in FundHandler \ {h} : fpc'[g] = "idle"
      BY <1>13, <2>2
    <3>4. Stored(post'[h].rows) \cap Stored(closes') = {}
      BY <1>2, <1>4, <2>1, <3>1
    <3>5. \A d \in FundDay \ {FundDays} :
            /\ {d, d + 1} \cap Stored(post'[h].rows) # {}
            /\ {d, d + 1} \subseteq Stored(post'[h].list)
            /\ post'[h].list[d].traded
            => RoundingApart(post'[h].list[d + 1].ref,
                 IF closes'[d] # NoClose THEN closes'[d].close ELSE post'[h].list[d].close)
      BY <1>2, <1>6, <1>15, <2>1
    <3> QED
      BY <3>2, <3>3, <3>4, <3>5 DEF AloneChains
  <2> QED
    BY <1>2, <1>9, <2>3, <2>4, <2>5 DEF NoUnmadeStep
<1> QED
  BY <1>14, <1>15


\* Inserting: what another has stored or is storing is left out.
LEMMA InsertKeepsFund ==
  ASSUME FundInv, NEW h \in FundHandler, InsertCloses(h)
  PROVE  FundInv'
<1> USE DEF FundInv
<1> DEFINE rows == [d \in FundDay |-> IF closes[d] = NoClose THEN post[h].rows[d] ELSE NoClose]
<1>1. /\ fpc[h] = "judged" /\ fpc' = [fpc EXCEPT ![h] = "written"]
      /\ \A g \in FundHandler \ {h} : fpc[g] = "written" =>
           Stored(post[g].rows) \cap Stored(post[h].rows) = {}
      /\ post' = [post EXCEPT ![h].rows = rows,
                              ![h].count = Cardinality(Stored(closes) \cup Stored(post[h].rows))]
      /\ UNCHANGED <<today, tedpix, closes, chained>>
  BY DEF InsertCloses, fundWorld
<1> HIDE DEF rows
<1>2. /\ fpc' \in [FundHandler -> {"idle", "judged", "written"}] /\ fpc'[h] = "written"
      /\ \A g \in FundHandler \ {h} : fpc'[g] = fpc[g]
  BY <1>1 DEF FundShape
<1>3. /\ DOMAIN post' = FundHandler
      /\ post'[h] = [list |-> post[h].list, rows |-> rows, alone |-> post[h].alone,
                     count |-> Cardinality(Stored(closes) \cup Stored(post[h].rows))]
      /\ \A g \in FundHandler \ {h} : post'[g] = post[g]
  <2> DEFINE n == Cardinality(Stored(closes) \cup Stored(post[h].rows))
  <2> HIDE DEF n
  <2>1. post' = [[post EXCEPT ![h].rows = rows] EXCEPT ![h].count = n] /\ h \in DOMAIN post
    BY <1>1 DEF FundShape, n
  <2>2. post'[h] = [[post[h] EXCEPT !.rows = rows] EXCEPT !.count = n]
    BY <2>1
  <2>3. post[h] = [list |-> post[h].list, rows |-> post[h].rows,
                   alone |-> post[h].alone, count |-> post[h].count]
    BY DEF FundShape
  <2>4. post'[h] = [list |-> post[h].list, rows |-> rows, alone |-> post[h].alone, count |-> n]
    BY <2>2, <2>3
  <2>5. DOMAIN post' = FundHandler /\ \A g \in FundHandler \ {h} : post'[g] = post[g]
    BY <2>1 DEF FundShape
  <2> QED
    BY <2>4, <2>5 DEF n
<1>4. post'[h].list = post[h].list /\ post'[h].rows = rows
  BY <1>3
<1>5. post'[h].alone <=> post[h].alone
  BY <1>3
<1>6. /\ Stored(rows) \subseteq Stored(post[h].rows) /\ Stored(rows) \cap Stored(closes) = {}
      /\ \A d \in FundDay : rows[d] # NoClose => rows[d] = post[h].rows[d]
  BY DEF rows, Stored
<1>7. FundShape'
  BY <1>1, <1>2, <1>3 DEF FundShape
<1>8. RowsOfList'
  <2>1. \A d \in FundDay : rows[d] # NoClose => rows[d] = post[h].list[d]
    BY <1>6 DEF RowsOfList
  <2> QED
    BY <1>2, <1>3, <1>4, <2>1 DEF RowsOfList
<1>9. InsertedIsNew'
  <2>1. /\ UNCHANGED closes
        /\ \A g \in FundHandler \ {h} : fpc'[g] = fpc[g] /\ post'[g].rows = post[g].rows
    BY <1>1, <1>2, <1>3
  <2>2. \A g \in FundHandler \ {h} : fpc[g] = "written" =>
          /\ Stored(post[g].rows) \cap Stored(rows) = {}
          /\ Stored(rows) \cap Stored(post[g].rows) = {}
    BY <1>1, <1>6
  <2>3. post'[h].rows = rows /\ Stored(rows) \cap Stored(closes) = {}
    BY <1>4, <1>6
  <2> QED
    BY <2>1, <2>2, <2>3 DEF InsertedIsNew
<1>10. AloneChains'
  <2>1. post[h].alone => \A g \in FundHandler \ {h} : fpc[g] = "idle"
    BY <1>1 DEF AloneChains
  <2>2. post[h].alone =>
          \A d \in FundDay \ {FundDays} :
            /\ {d, d + 1} \cap Stored(rows) # {}
            /\ {d, d + 1} \subseteq Stored(post[h].list)
            /\ post[h].list[d].traded
            => RoundingApart(post[h].list[d + 1].ref,
                 IF closes[d] # NoClose THEN closes[d].close ELSE post[h].list[d].close)
    BY <1>1, <1>6 DEF AloneChains
  <2>3. \A g \in FundHandler \ {h} : ~(fpc[g] # "idle" /\ post[g].alone)
    BY <1>1 DEF AloneChains
  <2> QED
    BY <1>1, <1>2, <1>3, <1>4, <1>5, <1>6, <2>1, <2>2, <2>3 DEF AloneChains
<1> QED
  BY <1>1, <1>7, <1>8, <1>9, <1>10 DEF NoUnmadeStep

\* Committing: no stored close changes, and a pair that is completed chains.
LEMMA CommitKeepsFund ==
  ASSUME FundInv, NEW h \in FundHandler, CommitFund(h)
  PROVE  FundInv'
<1> USE DEF FundInv
<1>1. /\ fpc[h] = "written" /\ fpc' = [fpc EXCEPT ![h] = "idle"]
      /\ post' = [post EXCEPT ![h] = NoPost]
      /\ closes' = [d \in FundDay |->
           IF post[h].rows[d] # NoClose THEN post[h].rows[d] ELSE closes[d]]
      /\ chained' = chained \cup
           {[day |-> d, ref |-> post[h].list[d + 1].ref] :
              d \in {e \in FundDay \ {FundDays} :
                      /\ {e, e + 1} \cap Stored(post[h].rows) # {}
                      /\ {e, e + 1} \subseteq Stored(post[h].list) \cap Stored(closes')
                      /\ post[h].list[e].traded
                      /\ post[h].alone}}
      /\ UNCHANGED <<today, tedpix>>
  BY DEF CommitFund, fundWorld
<1>2. /\ fpc' \in [FundHandler -> {"idle", "judged", "written"}] /\ fpc'[h] = "idle"
      /\ \A g \in FundHandler \ {h} : fpc'[g] = fpc[g]
  BY <1>1 DEF FundShape
<1>3. /\ DOMAIN post' = FundHandler /\ post'[h] = NoPost
      /\ \A g \in FundHandler \ {h} : post'[g] = post[g]
  BY <1>1 DEF FundShape
<1>4. \A d \in FundDay : post[h].rows[d] # NoClose => closes[d] = NoClose
  BY <1>1 DEF InsertedIsNew, Stored
<1>5. /\ \A d \in Stored(closes) : closes'[d] = closes[d]
      /\ Stored(closes') = Stored(closes) \cup Stored(post[h].rows)
  BY <1>1, <1>4 DEF Stored
<1>6. FundShape'
  BY <1>1, <1>2, <1>3 DEF FundShape, NoPost
<1>7. RowsOfList'
  BY <1>2, <1>3 DEF RowsOfList, NoPost, NoRows
<1>8. InsertedIsNew'
  <2> SUFFICES ASSUME NEW g \in FundHandler, fpc'[g] = "written"
               PROVE  /\ Stored(post'[g].rows) \cap Stored(closes') = {}
                      /\ \A k \in FundHandler \ {g} : fpc'[k] = "written" =>
                           Stored(post'[g].rows) \cap Stored(post'[k].rows) = {}
    BY DEF InsertedIsNew
  <2>1. g # h /\ fpc[g] = "written" /\ post'[g] = post[g]
    BY <1>2, <1>3
  <2>2. /\ Stored(post[g].rows) \cap Stored(closes) = {}
        /\ \A k \in FundHandler \ {g} : fpc[k] = "written" =>
             Stored(post[g].rows) \cap Stored(post[k].rows) = {}
    BY <2>1 DEF InsertedIsNew
  <2>3. Stored(post[g].rows) \cap Stored(post[h].rows) = {}
    BY <1>1, <2>1, <2>2
  <2>4. \A k \in FundHandler : fpc'[k] = "written" => fpc[k] = "written" /\ post'[k] = post[k]
    BY <1>2, <1>3
  <2>5. Stored(post'[g].rows) \cap Stored(closes') = {}
    BY <1>5, <2>1, <2>2, <2>3
  <2> QED
    BY <2>1, <2>2, <2>4, <2>5
<1>9. AloneChains'
  <2>1. \A g \in FundHandler \ {h} : ~(fpc[g] # "idle" /\ post[g].alone)
    BY <1>1 DEF AloneChains
  <2> QED
    BY <1>2, <1>3, <2>1 DEF AloneChains
<1>10. ASSUME NEW p \in chained'
       PROVE  p.day \in Stored(closes') /\ RoundingApart(p.ref, closes'[p.day].close)
  <2>1. CASE p \in chained
    BY <1>5, <2>1 DEF NoUnmadeStep
  <2>2. CASE p \notin chained
    <3>1. PICK d \in FundDay \ {FundDays} :
            /\ {d, d + 1} \cap Stored(post[h].rows) # {}
            /\ {d, d + 1} \subseteq Stored(post[h].list) \cap Stored(closes')
            /\ post[h].list[d].traded
            /\ post[h].alone
            /\ p = [day |-> d, ref |-> post[h].list[d + 1].ref]
      BY <1>1, <1>10, <2>2
    <3>2. RoundingApart(post[h].list[d + 1].ref,
            IF closes[d] # NoClose THEN closes[d].close ELSE post[h].list[d].close)
      <4>1. {d, d + 1} \subseteq Stored(post[h].list)
        BY <3>1
      <4> QED
        BY <1>1, <3>1, <4>1 DEF AloneChains
    <3>3. closes'[d].close = IF closes[d] # NoClose THEN closes[d].close ELSE post[h].list[d].close
      <4>1. CASE closes[d] # NoClose
        BY <1>5, <4>1 DEF Stored
      <4>2. CASE closes[d] = NoClose
        <5>1. d \in Stored(post[h].rows)
          BY <1>5, <3>1, <4>2 DEF Stored
        <5>2. closes'[d] = post[h].rows[d] /\ post[h].rows[d] = post[h].list[d]
          BY <1>1, <5>1 DEF Stored, RowsOfList
        <5> QED
          BY <4>2, <5>2
      <4> QED
        BY <4>1, <4>2
    <3> QED
      BY <3>1, <3>2, <3>3
  <2> QED
    BY <2>1, <2>2
<1> QED
  BY <1>6, <1>7, <1>8, <1>9, <1>10 DEF NoUnmadeStep

\* Failing leaves the store as it was.
LEMMA FailKeepsFund ==
  ASSUME FundInv, NEW h \in FundHandler, FundFails(h)
  PROVE  FundInv'
<1> USE DEF FundInv
<1>1. /\ fpc' = [fpc EXCEPT ![h] = "idle"] /\ post' = [post EXCEPT ![h] = NoPost]
      /\ UNCHANGED <<today, tedpix, closes, chained>>
  BY DEF FundFails, fundWorld
<1>2. /\ fpc' \in [FundHandler -> {"idle", "judged", "written"}] /\ fpc'[h] = "idle"
      /\ \A g \in FundHandler \ {h} : fpc'[g] = fpc[g]
  BY <1>1 DEF FundShape
<1>3. /\ DOMAIN post' = FundHandler /\ post'[h] = NoPost
      /\ \A g \in FundHandler \ {h} : post'[g] = post[g]
  BY <1>1 DEF FundShape
<1>4. FundShape'
  BY <1>1, <1>2, <1>3 DEF FundShape, NoPost
<1>5. RowsOfList'
  BY <1>2, <1>3 DEF RowsOfList, NoPost, NoRows
<1>6. InsertedIsNew'
  BY <1>1, <1>2, <1>3 DEF InsertedIsNew
<1>7. AloneChains'
  BY <1>1, <1>2, <1>3 DEF AloneChains
<1> QED
  BY <1>1, <1>4, <1>5, <1>6, <1>7 DEF NoUnmadeStep

\* No stored pair carries a step that no price made, for any two copies, any
\* calendar and any number of handlers (reference_restatements, as_stored).
THEOREM NoUnmadeStepHolds == FundSpec => []NoUnmadeStep
<1>1. FundInit => FundInv
  <2> SUFFICES ASSUME FundInit PROVE FundInv
    OBVIOUS
  <2>1. /\ \A h \in FundHandler : fpc[h] = "idle" /\ post[h] = NoPost
        /\ DOMAIN closes = FundDay /\ chained = {} /\ tedpix = {} /\ today \in Nat
        /\ DOMAIN post = FundHandler /\ fpc \in [FundHandler -> {"idle", "judged", "written"}]
    BY DEF FundInit, NoRows
  <2>2. FundShape
    BY <2>1 DEF FundShape, NoPost
  <2>3. RowsOfList
    BY <2>1 DEF RowsOfList, NoPost, NoRows
  <2> QED
    BY <2>1, <2>2, <2>3 DEF FundInv, InsertedIsNew, AloneChains, NoUnmadeStep
<1>2. FundInv /\ [FundNext]_fundVars => FundInv'
  <2> SUFFICES ASSUME FundInv, [FundNext]_fundVars PROVE FundInv'
    OBVIOUS
  <2>1. CASE StoreIndex \/ ObserveLive \/ NextFundDay \/ UNCHANGED fundVars
    <3>1. UNCHANGED <<closes, chained, fpc, post>>
      BY <2>1 DEF StoreIndex, ObserveLive, NextFundDay, fundVars
    <3>2. tedpix' \subseteq Nat /\ today' \in Nat
      <4>1. tedpix \subseteq Nat /\ today \in Nat
        BY DEF FundInv, FundShape
      <4>2. /\ tedpix' = tedpix \/ tedpix' = 1..(today - 1)
            /\ today' = today \/ today' = today + 1
        BY <2>1 DEF StoreIndex, ObserveLive, NextFundDay, fundVars, fundWorld
      <4>3. 1..(today - 1) \subseteq Nat
        BY <4>1
      <4>4. tedpix' \subseteq Nat
        BY <4>1, <4>2, <4>3
      <4>5. today' \in Nat
        BY <4>1, <4>2
      <4> QED
        BY <4>4, <4>5
    <3>3. FundShape'
      BY <3>1, <3>2 DEF FundInv, FundShape
    <3> QED
      <4>1. RowsOfList'
        BY <3>1 DEF FundInv, RowsOfList
      <4>2. InsertedIsNew'
        BY <3>1 DEF FundInv, InsertedIsNew
      <4>3. AloneChains'
        BY <3>1 DEF FundInv, AloneChains
      <4>4. NoUnmadeStep' /\ \A p \in chained' : p.day \in Stored(closes')
        BY <3>1 DEF FundInv, NoUnmadeStep
      <4> QED
        BY <3>3, <4>1, <4>2, <4>3, <4>4 DEF FundInv
  <2> QED
    BY <2>1, JudgeKeepsFund, InsertKeepsFund, CommitKeepsFund, FailKeepsFund DEF FundNext
<1>3. FundInv => NoUnmadeStep
  BY DEF FundInv
<1> QED
  BY <1>1, <1>2, <1>3, PTL DEF FundSpec


-----------------------------------------------------------------------------
(* The sessions of the market's shares                                      *)

\* Stamps are numbers no later than the newest, and calls are records.
ShareShape ==
  /\ stamp \in Nat
  /\ firstSeen \in [Share -> Nat]
  /\ DOMAIN files = TradeDay
  /\ \A d \in TradeDay : files[d].at \in Nat /\ files[d].at <= stamp
  /\ DOMAIN ucall = Runner /\ DOMAIN scall = Runner /\ DOMAIN box = Runner /\ DOMAIN flows = Share
  /\ \A r \in Runner : ucall[r].at \in Nat /\ ucall[r].at <= stamp
  /\ \A r \in Runner : scall[r].at \in Nat /\ scall[r].at <= stamp
  /\ \A r \in Runner :
       scall[r] = [at |-> scall[r].at, time |-> scall[r].time, universe |-> scall[r].universe,
                   todo |-> scall[r].todo, affected |-> scall[r].affected]

\* A flow row is of a day the share traded on.
FlowsAreTrades ==
  \A s \in Share :
    /\ flows[s] \subseteq trades[s]
    /\ \A r \in Runner : box[r].flows[s] \subseteq trades[s]

\* An open universe call was stamped after every open sessions call and after
\* every stored file, unless a sessions call began beside it.
UniverseIsNewer ==
  \A q \in Runner : ucall[q] # NoUniverse =>
    /\ \A r \in Runner : scall[r] # NoSessions => scall[r].at < ucall[q].at
    /\ \A d \in TradeDay : files[d].at < ucall[q].at

\* What an open sessions call does not know of joined after it.
JoinedAfterCall ==
  \A r \in Runner, s \in Share :
    scall[r] # NoSessions /\ firstSeen[s] # 0 /\ s \notin scall[r].universe
      => firstSeen[s] > scall[r].at

\* A share without its row of an ingested file joined after the file, or the
\* file stated a row of it that is skipped.
JoinedAfterFile ==
  \A s \in Share, d \in TradeDay :
    files[d].at # 0 /\ firstSeen[s] # 0 /\ d \in trades[s] /\ d \notin sess[s] \cup skipped[s]
      => firstSeen[s] > files[d].at

ShareInv ==
  /\ ShareShape /\ FlowsAreTrades
  /\ crossed \/ (UniverseIsNewer /\ JoinedAfterCall /\ JoinedAfterFile)

\* What a run ships of a share are rows of it.
LEMMA TrimIsRows ==
  ASSUME NEW r \in Runner, NEW s \in Share, NEW rows
  PROVE  Trim(r, s, rows) \subseteq rows
BY DEF Trim, NewestOf

\* The run's own steps move no stamp back and store no row of a session.
LEMMA RunKeepsShare ==
  ASSUME ShareInv, NEW r \in Runner,
         ReadState(r) \/ Fetch(r) \/ PostUniverse(r) \/ IngestFlows(r) \/ PostSessions(r)
  PROVE  ShareInv'
<1>0. ShareShape /\ FlowsAreTrades
  BY DEF ShareInv
<1>1. UNCHANGED <<trades, firstSeen, sess, files, skipped, skipped>>
  BY DEF ReadState, Fetch, PostUniverse, IngestFlows, PostSessions, shareWorld, shareStore
<1>2. CASE ReadState(r)
  <2>1. UNCHANGED <<trades, firstSeen, sess, files, skipped, stamp, flows, box, crossed, ucall, scall>>
    BY <1>2 DEF ReadState, shareWorld, shareStore
  <2> QED
    BY <2>1 DEF ShareInv, ShareShape, FlowsAreTrades, UniverseIsNewer, JoinedAfterCall, JoinedAfterFile
<1>3. CASE Fetch(r)
  <2>1. UNCHANGED <<trades, firstSeen, sess, files, skipped, stamp, flows, crossed, ucall, scall>>
    BY <1>3 DEF Fetch, shareWorld, shareStore
  <2>2. PICK watch \in SUBSET Share, missing \in {{}, lacks} :
          box' = [box EXCEPT ![r] =
            [at |-> time, watch |-> watch,
             flows |-> DownloadShareFlows(r, Asked(r, watch), missing),
             days |-> DayFilesToFetch(r, MarketSessions(r, Asked(r, watch), missing)),
             due |-> [s \in Share |->
                        IF s \in Asked(r, watch)
                        THEN {d \in Rows(s, missing) : IsSettled(d, time)} ELSE {}]]]
    BY <1>3 DEF Fetch
  <2>4. /\ DOMAIN box' = Runner /\ \A q \in Runner \ {r} : box'[q] = box[q]
        /\ box'[r].flows = DownloadShareFlows(r, Asked(r, watch), missing)
    BY <1>0, <2>2 DEF ShareShape
  <2>3. \A s \in Share : box'[r].flows[s] \subseteq trades[s]
    BY <2>4, TrimIsRows DEF DownloadShareFlows, Rows
  <2>5. FlowsAreTrades'
    BY <1>0, <2>1, <2>3, <2>4 DEF FlowsAreTrades
  <2>6. ShareShape'
    BY <1>0, <2>1, <2>4 DEF ShareShape
  <2> QED
    BY <2>1, <2>5, <2>6 DEF ShareInv, UniverseIsNewer, JoinedAfterCall, JoinedAfterFile
<1>4. CASE PostUniverse(r)
  <2>1. UNCHANGED <<trades, firstSeen, sess, files, skipped, flows, box, crossed, scall>>
    BY <1>4 DEF PostUniverse, shareWorld, shareStore
  <2>2. \/ UNCHANGED <<stamp, ucall>>
        \/ /\ stamp' = stamp + 1
           /\ ucall' = [ucall EXCEPT ![r] = [at |-> stamp + 1, watch |-> box[r].watch]]
    BY <1>4 DEF PostUniverse
  <2>3. CASE UNCHANGED <<stamp, ucall>>
    BY <2>1, <2>3 DEF ShareInv, ShareShape, FlowsAreTrades, UniverseIsNewer, JoinedAfterCall, JoinedAfterFile
  <2>4. CASE /\ stamp' = stamp + 1
             /\ ucall' = [ucall EXCEPT ![r] = [at |-> stamp + 1, watch |-> box[r].watch]]
    <3>1. /\ DOMAIN ucall' = Runner /\ ucall'[r].at = stamp + 1
          /\ \A q \in Runner \ {r} : ucall'[q] = ucall[q]
      BY <1>0, <2>4 DEF ShareShape
    <3>2. ShareShape'
      BY <1>0, <2>1, <2>4, <3>1 DEF ShareShape
    <3>3. UniverseIsNewer => UniverseIsNewer'
      BY <1>0, <2>1, <3>1 DEF UniverseIsNewer, ShareShape
    <3> QED
      BY <2>1, <3>2, <3>3 DEF ShareInv, FlowsAreTrades, JoinedAfterCall, JoinedAfterFile
  <2> QED
    BY <2>2, <2>3, <2>4
<1>5. CASE IngestFlows(r)
  <2>1. UNCHANGED <<trades, firstSeen, sess, files, skipped, stamp, crossed, ucall, scall>>
    BY <1>5 DEF IngestFlows, shareWorld
  <2>2. PICK s \in Share :
          /\ \/ flows' = [flows EXCEPT ![s] = @ \cup {d \in box[r].flows[s] : IsSettled(d, time)}]
             \/ flows' = flows
          /\ box' = [box EXCEPT ![r].flows[s] = {}]
    BY <1>5 DEF IngestFlows
  <2>3. DOMAIN box' = Runner /\ \A q \in Runner \ {r} : box'[q] = box[q]
    BY <1>0, <2>2 DEF ShareShape
  <2>4. \A x \in Share : box'[r].flows[x] \subseteq trades[x]
    BY <1>0, <2>2 DEF ShareShape, FlowsAreTrades
  <2>5. \A x \in Share : flows'[x] \subseteq trades[x]
    BY <1>0, <2>2 DEF FlowsAreTrades, ShareShape
  <2>6. FlowsAreTrades'
    BY <1>0, <2>1, <2>3, <2>4, <2>5 DEF FlowsAreTrades
  <2>7. DOMAIN flows' = Share
    BY <1>0, <2>2 DEF ShareShape
  <2>8. ShareShape'
    BY <1>0, <2>1, <2>3, <2>7 DEF ShareShape
  <2> QED
    BY <2>1, <2>6, <2>8 DEF ShareInv, UniverseIsNewer, JoinedAfterCall, JoinedAfterFile
<1>6. CASE PostSessions(r)
  <2>1. UNCHANGED <<trades, firstSeen, sess, files, skipped, flows, ucall>>
    BY <1>6 DEF PostSessions, shareWorld, shareStore
  <2>2. /\ stamp' = stamp + 1
        /\ scall' = [scall EXCEPT ![r] =
             [at |-> stamp + 1, time |-> time, universe |-> Universe(r),
              todo |-> box[r].days, affected |-> {}]]
        /\ crossed' = (crossed \/ \E q \in Runner : ucall[q] # NoUniverse)
        /\ box' = [box EXCEPT ![r] = NoBox]
    BY <1>6 DEF PostSessions
  <2>3. /\ DOMAIN scall' = Runner
        /\ scall'[r] = [at |-> stamp + 1, time |-> time, universe |-> Universe(r),
                        todo |-> box[r].days, affected |-> {}]
        /\ \A q \in Runner \ {r} : scall'[q] = scall[q]
    BY <1>0, <2>2 DEF ShareShape
  <2>4. DOMAIN box' = Runner /\ \A q \in Runner, s \in Share : box'[q].flows[s] \subseteq trades[s]
    BY <1>0, <2>2 DEF ShareShape, FlowsAreTrades, NoBox
  <2>5. ShareShape'
    <3>1. scall'[r].at = stamp + 1 /\ stamp \in Nat
      BY <1>0, <2>3 DEF ShareShape
    <3>2. \A q \in Runner : scall'[q].at \in Nat /\ scall'[q].at <= stamp'
      BY <1>0, <2>2, <2>3, <3>1 DEF ShareShape
    <3>3. \A q \in Runner :
            scall'[q] = [at |-> scall'[q].at, time |-> scall'[q].time,
                         universe |-> scall'[q].universe, todo |-> scall'[q].todo,
                         affected |-> scall'[q].affected]
      <4>1. scall'[r] = [at |-> scall'[r].at, time |-> scall'[r].time,
                         universe |-> scall'[r].universe, todo |-> scall'[r].todo,
                         affected |-> scall'[r].affected]
        BY <2>3
      <4>2. \A q \in Runner \ {r} :
              scall'[q] = [at |-> scall'[q].at, time |-> scall'[q].time,
                           universe |-> scall'[q].universe, todo |-> scall'[q].todo,
                           affected |-> scall'[q].affected]
        BY <1>0, <2>3 DEF ShareShape
      <4> QED
        BY <4>1, <4>2
    <3>4. /\ stamp' \in Nat
          /\ \A d \in TradeDay : files'[d].at \in Nat /\ files'[d].at <= stamp'
          /\ \A q \in Runner : ucall'[q].at \in Nat /\ ucall'[q].at <= stamp'
      BY <1>0, <2>1, <2>2 DEF ShareShape
    <3> QED
      BY <1>0, <2>1, <2>3, <2>4, <3>2, <3>3, <3>4 DEF ShareShape
  <2>6. FlowsAreTrades'
    BY <1>0, <2>1, <2>4 DEF FlowsAreTrades
  <2>7. CASE crossed'
    BY <2>5, <2>6, <2>7 DEF ShareInv
  <2>8. CASE ~crossed'
    <3>1. ~crossed /\ \A q \in Runner : ucall[q] = NoUniverse
      BY <2>2, <2>8
    <3>2. UniverseIsNewer'
      BY <2>1, <3>1 DEF UniverseIsNewer
    <3>3. JoinedAfterCall'
      <4>1. \A s \in Share : firstSeen[s] # 0 => s \in scall'[r].universe
        BY <2>3 DEF Universe
      <4> QED
        BY <2>1, <2>3, <3>1, <4>1 DEF ShareInv, JoinedAfterCall
    <3>4. JoinedAfterFile'
      BY <2>1, <3>1 DEF ShareInv, JoinedAfterFile
    <3> QED
      BY <2>5, <2>6, <3>2, <3>3, <3>4 DEF ShareInv
  <2> QED
    BY <2>7, <2>8
<1> QED
  BY <1>2, <1>3, <1>4, <1>5, <1>6


\* A universe call stamps what it inserts with its own stamp, which is newer
\* than the open sessions calls' and than the stored files'.
LEMMA CommitUniverseKeepsShare ==
  ASSUME ShareInv, NEW r \in Runner, CommitUniverse(r)
  PROVE  ShareInv'
<1>0. ShareShape /\ FlowsAreTrades
  BY DEF ShareInv
<1>1. /\ ucall[r] # NoUniverse /\ ucall' = [ucall EXCEPT ![r] = NoUniverse]
      /\ UNCHANGED <<trades, flows, sess, files, skipped, stamp, box, crossed, scall>>
  BY DEF CommitUniverse, shareWorld
<1>2. \/ firstSeen' = firstSeen
      \/ firstSeen' = [s \in Share |->
           IF s \in ucall[r].watch /\ firstSeen[s] = 0 THEN ucall[r].at ELSE firstSeen[s]]
  BY DEF CommitUniverse
<1>3. /\ DOMAIN ucall' = Runner /\ ucall'[r] = NoUniverse
      /\ \A q \in Runner \ {r} : ucall'[q] = ucall[q]
  BY <1>0, <1>1 DEF ShareShape
<1>4. /\ firstSeen' \in [Share -> Nat]
      /\ \A s \in Share : firstSeen'[s] = firstSeen[s]
                          \/ (firstSeen[s] = 0 /\ firstSeen'[s] = ucall[r].at)
  <2> DEFINE watch == ucall[r].watch
             u == ucall[r].at
  <2>1. firstSeen \in [Share -> Nat] /\ u \in Nat
    BY <1>0 DEF ShareShape
  <2>2. CASE firstSeen' = firstSeen
    BY <2>1, <2>2
  <2>3. CASE firstSeen' = [s \in Share |->
               IF s \in watch /\ firstSeen[s] = 0 THEN u ELSE firstSeen[s]]
    <3> HIDE DEF watch, u
    <3>1. \A s \in Share : firstSeen'[s] = firstSeen[s] \/ (firstSeen[s] = 0 /\ firstSeen'[s] = u)
      BY <2>3
    <3>2. firstSeen' \in [Share -> Nat]
      BY <2>1, <2>3
    <3> QED
      BY <3>1, <3>2 DEF u
  <2> QED
    BY <1>2, <2>2, <2>3
<1>5. ShareShape'
  BY <1>0, <1>1, <1>3, <1>4 DEF ShareShape, NoUniverse
<1>6. FlowsAreTrades'
  BY <1>0, <1>1 DEF FlowsAreTrades
<1>7. ASSUME UniverseIsNewer, JoinedAfterCall, JoinedAfterFile
      PROVE  UniverseIsNewer' /\ JoinedAfterCall' /\ JoinedAfterFile'
  <2>1. UniverseIsNewer'
    BY <1>1, <1>3, <1>7 DEF UniverseIsNewer
  <2>2. JoinedAfterCall'
    BY <1>0, <1>1, <1>4, <1>7 DEF JoinedAfterCall, UniverseIsNewer, ShareShape
  <2>3. JoinedAfterFile'
    BY <1>0, <1>1, <1>4, <1>7 DEF JoinedAfterFile, UniverseIsNewer, ShareShape
  <2> QED
    BY <2>1, <2>2, <2>3
<1> QED
  BY <1>1, <1>5, <1>6, <1>7 DEF ShareInv

\* A file is stored with the stamp of its call, before which everything that
\* the call does not know of had not joined.
LEMMA IngestDayKeepsShare ==
  ASSUME ShareInv, NEW r \in Runner, IngestDay(r)
  PROVE  ShareInv'
<1>0. ShareShape /\ FlowsAreTrades
  BY DEF ShareInv
<1> DEFINE d == Min(scall[r].todo)
           rows == {s \in scall[r].universe : d \in trades[s]}
<1>1. /\ scall[r].todo # {}
      /\ UNCHANGED <<trades, firstSeen, flows, stamp, crossed, box, ucall>>
  BY DEF IngestDay, shareWorld, runVars
<1>2. PICK invalid \in SUBSET rows, new \in SUBSET Share :
        \/ /\ \A s \in rows \cap Share : s \in invalid \/ s \in new \/ d \in sess[s]
           /\ sess' = [s \in Share |-> IF s \in new THEN sess[s] \cup {d} ELSE sess[s]]
           /\ skipped' = [s \in Share |->
                IF s \in invalid THEN skipped[s] \cup {d} ELSE skipped[s]]
           /\ \/ \E count : files' = [files EXCEPT ![d] = [at |-> scall[r].at, rows |-> count]]
              \/ files' = files
           /\ \E more : scall' = [scall EXCEPT ![r].todo = @ \ {d},
                                             ![r].affected = @ \cup more]
        \/ /\ scall' = [scall EXCEPT ![r].todo = @ \ {d}]
           /\ UNCHANGED <<sess, files, skipped>>
  <2>1. CASE /\ scall' = [scall EXCEPT ![r].todo = @ \ {d}]
             /\ UNCHANGED <<sess, files, skipped>>
    BY <2>1
  <2>2. CASE ~(/\ scall' = [scall EXCEPT ![r].todo = @ \ {d}]
               /\ UNCHANGED <<sess, files, skipped>>)
    <3>1. PICK invalid \in SUBSET {s \in rows : <<s, d>> \in Misstated} :
            /\ sess' = [s \in Share |->
                 IF s \in {x \in rows \ invalid : d \notin sess[x]} THEN sess[s] \cup {d}
                 ELSE sess[s]]
            /\ skipped' = [s \in Share |->
                 IF s \in invalid THEN skipped[s] \cup {d} ELSE skipped[s]]
            /\ \/ files' = [files EXCEPT ![d] = [at |-> scall[r].at,
                                                 rows |-> Cardinality(rows \ invalid)]]
               \/ files' = files
            /\ scall' = [scall EXCEPT ![r].todo = @ \ {d},
                 ![r].affected = @ \cup {x \in rows \ invalid : d \notin sess[x]}]
      BY <2>2 DEF IngestDay
    <3> DEFINE fresh == {x \in rows \ invalid : d \notin sess[x]}
               new == fresh \cap Share
    <3>0. \/ files' = files
          \/ \E count : files' = [files EXCEPT ![d] = [at |-> scall[r].at, rows |-> count]]
      BY <3>1
    <3> HIDE DEF d, rows
    <3>2. sess' = [s \in Share |-> IF s \in new THEN sess[s] \cup {d} ELSE sess[s]]
      BY <3>1
    <3>3. \A s \in rows \cap Share : s \in invalid \/ s \in new \/ d \in sess[s]
      OBVIOUS
    <3>4. invalid \in SUBSET rows /\ new \in SUBSET Share
      OBVIOUS
    <3>5. \E more : scall' = [scall EXCEPT ![r].todo = @ \ {d}, ![r].affected = @ \cup more]
      BY <3>1
    <3>6. skipped' = [s \in Share |-> IF s \in invalid THEN skipped[s] \cup {d} ELSE skipped[s]]
      BY <3>1
    <3> HIDE DEF fresh, new
    <3> QED
      BY <3>0, <3>2, <3>3, <3>4, <3>5, <3>6
  <2> QED
    BY <2>1, <2>2
<1> HIDE DEF d
<1>3. scall[r] # NoSessions
  BY <1>1 DEF NoSessions
<1>4. /\ DOMAIN scall' = Runner
      /\ scall'[r].at = scall[r].at /\ scall'[r].universe = scall[r].universe
      /\ scall'[r] = [at |-> scall'[r].at, time |-> scall'[r].time,
                      universe |-> scall'[r].universe, todo |-> scall'[r].todo,
                      affected |-> scall'[r].affected]
      /\ \A q \in Runner \ {r} : scall'[q] = scall[q]
  <2> DEFINE todo == scall[r].todo \ {d}
  <2>1. scall[r] = [at |-> scall[r].at, time |-> scall[r].time, universe |-> scall[r].universe,
                    todo |-> scall[r].todo, affected |-> scall[r].affected]
        /\ DOMAIN scall = Runner
    BY <1>0 DEF ShareShape
  <2>2. PICK affected :
          \/ scall' = [[scall EXCEPT ![r].todo = todo] EXCEPT ![r].affected = affected]
          \/ scall' = [scall EXCEPT ![r].todo = todo]
    BY <1>2, <2>1
  <2> HIDE DEF todo
  <2>3. DOMAIN scall' = Runner /\ \A q \in Runner \ {r} : scall'[q] = scall[q]
    BY <2>1, <2>2
  <2>4. \/ scall'[r] = [[scall[r] EXCEPT !.todo = todo] EXCEPT !.affected = affected]
        \/ scall'[r] = [scall[r] EXCEPT !.todo = todo]
    BY <2>1, <2>2
  <2>5. \E aff : scall'[r] = [at |-> scall[r].at, time |-> scall[r].time,
                              universe |-> scall[r].universe, todo |-> todo, affected |-> aff]
    BY <2>1, <2>4
  <2> QED
    BY <2>3, <2>5
<1>5. \A e \in TradeDay : files'[e] = files[e] \/ (e = d /\ files'[e].at = scall[r].at)
  BY <1>0, <1>2 DEF ShareShape
<1>6. DOMAIN files' = TradeDay
  BY <1>0, <1>2 DEF ShareShape
<1>7. ShareShape'
  <2>1. \A e \in TradeDay : files'[e].at \in Nat /\ files'[e].at <= stamp'
    BY <1>0, <1>1, <1>5 DEF ShareShape
  <2>2. \A q \in Runner : scall'[q].at \in Nat /\ scall'[q].at <= stamp'
    BY <1>0, <1>1, <1>4 DEF ShareShape
  <2>3. \A q \in Runner \ {r} :
          scall'[q] = [at |-> scall'[q].at, time |-> scall'[q].time,
                       universe |-> scall'[q].universe, todo |-> scall'[q].todo,
                       affected |-> scall'[q].affected]
    BY <1>0, <1>4 DEF ShareShape
  <2>4. \A q \in Runner :
          scall'[q] = [at |-> scall'[q].at, time |-> scall'[q].time,
                       universe |-> scall'[q].universe, todo |-> scall'[q].todo,
                       affected |-> scall'[q].affected]
    BY <1>4, <2>3
  <2> QED
    BY <1>0, <1>1, <1>4, <1>6, <2>1, <2>2, <2>4 DEF ShareShape
<1>8. FlowsAreTrades'
  BY <1>0, <1>1 DEF FlowsAreTrades
<1>9. ASSUME UniverseIsNewer, JoinedAfterCall, JoinedAfterFile
      PROVE  UniverseIsNewer' /\ JoinedAfterCall' /\ JoinedAfterFile'
  <2>1. UniverseIsNewer'
    BY <1>1, <1>3, <1>4, <1>5, <1>9 DEF UniverseIsNewer
  <2>2. JoinedAfterCall'
    BY <1>1, <1>3, <1>4, <1>9 DEF JoinedAfterCall
  <2>3. JoinedAfterFile'
    <3> SUFFICES ASSUME NEW s \in Share, NEW e \in TradeDay, files'[e].at # 0, firstSeen[s] # 0,
                        e \in trades[s], e \notin sess'[s] \cup skipped'[s]
                 PROVE  firstSeen[s] > files'[e].at
      BY <1>1 DEF JoinedAfterFile
    <3>1. e \notin sess[s] \cup skipped[s]
      BY <1>2
    <3>2. CASE files'[e] = files[e]
      BY <1>9, <3>1, <3>2 DEF JoinedAfterFile
    <3>3. CASE files'[e] # files[e]
      <4>1. e = d /\ files'[e].at = scall[r].at
        BY <1>5, <3>3
      <4>2. /\ \A x \in rows \cap Share : x \in invalid \/ x \in new \/ d \in sess[x]
            /\ sess' = [x \in Share |-> IF x \in new THEN sess[x] \cup {d} ELSE sess[x]]
            /\ skipped' = [x \in Share |->
                 IF x \in invalid THEN skipped[x] \cup {d} ELSE skipped[x]]
        BY <1>2, <3>3
      <4>3. s \notin rows
        BY <3>1, <4>1, <4>2
      <4>4. s \notin scall[r].universe
        BY <4>1, <4>3
      <4> QED
        BY <1>3, <1>9, <4>1, <4>4 DEF JoinedAfterCall
    <3> QED
      BY <3>2, <3>3
  <2> QED
    BY <2>1, <2>2, <2>3
<1> QED
  BY <1>1, <1>7, <1>8, <1>9 DEF ShareInv

\* A session row that is owed has its file asked for again, for any number of
\* shares, runs and calls in any order (_incomplete_session_dates, started_at).
THEOREM OwedIsAskedHolds == ShareSpec => []OwedIsAsked
<1>1. ShareInit => ShareInv
  <2> SUFFICES ASSUME ShareInit PROVE ShareInv
    OBVIOUS
  <2>1. /\ stamp = 1 /\ firstSeen \in [Share -> Nat]
        /\ files = [d \in TradeDay |-> NoFile]
        /\ box = [r \in Runner |-> NoBox]
        /\ ucall = [r \in Runner |-> NoUniverse] /\ scall = [r \in Runner |-> NoSessions]
        /\ flows = [s \in Share |-> {}]
    BY DEF ShareInit
  <2>2. ShareShape
    BY <2>1 DEF ShareShape, NoFile, NoUniverse, NoSessions
  <2>3. FlowsAreTrades
    BY <2>1 DEF FlowsAreTrades, NoBox
  <2>4. UniverseIsNewer /\ JoinedAfterCall
    BY <2>1 DEF UniverseIsNewer, JoinedAfterCall
  <2>5. JoinedAfterFile
    BY <2>1 DEF JoinedAfterFile, NoFile
  <2> QED
    BY <2>2, <2>3, <2>4, <2>5 DEF ShareInv
<1>2. ShareInv /\ [ShareNext]_shareVars => ShareInv'
  <2> SUFFICES ASSUME ShareInv, [ShareNext]_shareVars PROVE ShareInv'
    OBVIOUS
  <2>1. CASE ShareTick \/ (\E s \in Share : JoinRoster(s)) \/ UNCHANGED shareVars
    <3>1. UNCHANGED <<trades, firstSeen, flows, sess, files, skipped, stamp, crossed, box, ucall, scall>>
      BY <2>1 DEF ShareTick, JoinRoster, shareVars, shareWorld, shareStore, runVars
    <3> QED
      BY <3>1 DEF ShareInv, ShareShape, FlowsAreTrades, UniverseIsNewer, JoinedAfterCall, JoinedAfterFile
  <2>2. ASSUME NEW r \in Runner, EndSessions(r) PROVE ShareInv'
    <3>0. ShareShape /\ FlowsAreTrades
      BY DEF ShareInv
    <3>1. /\ UNCHANGED <<trades, firstSeen, flows, sess, files, skipped, stamp, crossed, box, ucall>>
          /\ scall' = [scall EXCEPT ![r] = NoSessions]
      BY <2>2 DEF EndSessions, shareWorld, runVars
    <3>2. /\ DOMAIN scall' = Runner /\ scall'[r] = NoSessions
          /\ \A q \in Runner \ {r} : scall'[q] = scall[q]
      BY <3>0, <3>1 DEF ShareShape
    <3>3. ShareShape'
      <4>1. /\ scall'[r].at = 0
            /\ scall'[r] = [at |-> scall'[r].at, time |-> scall'[r].time,
                            universe |-> scall'[r].universe, todo |-> scall'[r].todo,
                            affected |-> scall'[r].affected]
        BY <3>2 DEF NoSessions
      <4>2. \A q \in Runner : scall'[q].at \in Nat /\ scall'[q].at <= stamp
        BY <3>0, <3>2, <4>1 DEF ShareShape
      <4>3. \A q \in Runner \ {r} :
              scall'[q] = [at |-> scall'[q].at, time |-> scall'[q].time,
                           universe |-> scall'[q].universe, todo |-> scall'[q].todo,
                           affected |-> scall'[q].affected]
        BY <3>0, <3>2 DEF ShareShape
      <4>4. \A q \in Runner :
              scall'[q] = [at |-> scall'[q].at, time |-> scall'[q].time,
                           universe |-> scall'[q].universe, todo |-> scall'[q].todo,
                           affected |-> scall'[q].affected]
        BY <4>1, <4>3
      <4> QED
        BY <3>0, <3>1, <3>2, <4>2, <4>4 DEF ShareShape
    <3>4. FlowsAreTrades' /\ (JoinedAfterFile => JoinedAfterFile')
      BY <3>0, <3>1 DEF FlowsAreTrades, JoinedAfterFile
    <3>5. (UniverseIsNewer => UniverseIsNewer') /\ (JoinedAfterCall => JoinedAfterCall')
      BY <3>1, <3>2 DEF UniverseIsNewer, JoinedAfterCall
    <3> QED
      BY <3>1, <3>3, <3>4, <3>5 DEF ShareInv
  <2> QED
    BY <2>1, <2>2, RunKeepsShare, CommitUniverseKeepsShare, IngestDayKeepsShare DEF ShareNext
<1>3. ShareInv => OwedIsAsked
  BY DEF ShareInv, FlowsAreTrades, JoinedAfterFile, OwedIsAsked, Incomplete, Ingested
<1> QED
  BY <1>1, <1>2, <1>3, PTL DEF ShareSpec


-----------------------------------------------------------------------------
(* The index histories                                                      *)

\* The days of a series.
IndexShape ==
  /\ posts \in Nat /\ settled \in Nat /\ at \in [IndexDay -> Nat]
  /\ DOMAIN values = IndexDay
  /\ hpc \in [Handler -> {"idle", "read"}]
  /\ DOMAIN paper = Handler /\ DOMAIN view = Handler

\* A payload is one copy's statement of every session up to some day.
CopyUpTo(V, P) ==
  \E c \in {1, 2}, k \in Nat : V = [d \in IndexDay |-> IF d <= k THEN P[c][d] ELSE NoValue]

PaperIsCopy ==
  \A h \in Handler : hpc[h] = "read" => CopyUpTo(paper[h].values, prints)

\* A post that is alone sees the store as it is, and is newer than every row.
ReadIsCurrent ==
  \A h \in Handler : hpc[h] = "read" =>
    /\ view[h].values = values
    /\ \A g \in Handler \ {h} : hpc[g] = "idle"
    /\ \A d \in IndexDay : at[d] < posts

IndexInv ==
  /\ IndexShape /\ PaperIsCopy
  /\ \A d \in IndexDay : at[d] <= posts
  /\ crossing \/ ReadIsCurrent
  /\ NoForwardStep

\* Two days of a series are adjacent when nothing lies between them.
LEMMA AdjacentIs ==
  ASSUME NEW D \in SUBSET IndexDay, NEW p
  PROVE  p \in Adjacent(D) <=>
           /\ p \in D \X D /\ p[1] < p[2]
           /\ \A e \in D : e < p[2] => e <= p[1]
<1>0. IndexDays \in Nat /\ D \in SUBSET (0..IndexDays) /\ D \subseteq Nat
  BY IndexAssumption DEF IndexDay
<1>1. ASSUME p \in D \X D, p[1] < p[2]
      PROVE  p[1] = Before(D, p[2]) <=> \A e \in D : e < p[2] => e <= p[1]
  <2> DEFINE B == {e \in D : e < p[2]}
  <2>1. B \in SUBSET (0..IndexDays) /\ p[1] \in B
    BY <1>0, <1>1
  <2>2. Max(B) \in B /\ \A m \in B : m <= Max(B)
    BY <1>0, <2>1, MaxIs
  <2>3. Before(D, p[2]) = Max(B)
    BY DEF Before
  <2>4. Max(B) \in Nat /\ p[1] \in Nat /\ \A e \in D : e \in Nat
    BY <1>0, <1>1, <2>2
  <2>5. ASSUME \A e \in D : e < p[2] => e <= p[1] PROVE p[1] = Max(B)
    <3>1. Max(B) <= p[1] /\ p[1] <= Max(B)
      BY <2>1, <2>2, <2>5
    <3> QED
      BY <2>4, <3>1
  <2>6. ASSUME p[1] = Max(B) PROVE \A e \in D : e < p[2] => e <= p[1]
    BY <2>2, <2>6
  <2> QED
    BY <2>3, <2>5, <2>6
<1> QED
  BY <1>1 DEF Adjacent

\* A new value follows a stored one only where its copy states that one alike.
LEMMA CommitKeepsIndex ==
  ASSUME IndexInv, NEW h \in Handler, CommitIndex(h)
  PROVE  IndexInv'
<1> USE DEF IndexInv
<1> DEFINE new == {d \in NewDays(h) : values[d] = NoValue}
           merged == [d \in IndexDay |-> IF d \in NewDays(h) THEN paper[h].values[d]
                                          ELSE view[h].values[d]]
<1>1. /\ hpc[h] = "read" /\ ~Refused(h)
      /\ values' = [d \in IndexDay |-> IF d \in new THEN merged[d] ELSE values[d]]
      /\ at' = [d \in IndexDay |-> IF d \in new THEN posts ELSE at[d]]
      /\ UNCHANGED <<prints, settled, crossing, posts>>
  BY DEF CommitIndex
<1>2. /\ hpc' = [hpc EXCEPT ![h] = "idle"] /\ paper' = [paper EXCEPT ![h] = NoPaper]
      /\ view' = [view EXCEPT ![h] = NoView]
  BY DEF CommitIndex, Done
<1>3. /\ hpc' \in [Handler -> {"idle", "read"}] /\ hpc'[h] = "idle"
      /\ \A g \in Handler \ {h} : hpc'[g] = hpc[g] /\ paper'[g] = paper[g] /\ view'[g] = view[g]
  BY <1>2 DEF IndexShape
<1>4. IndexShape'
  <2>1. at' \in [IndexDay -> Nat] /\ posts' \in Nat /\ settled' \in Nat
    BY <1>1 DEF IndexShape
  <2> QED
    BY <1>1, <1>2, <1>3, <2>1 DEF IndexShape
<1>5. PaperIsCopy'
  BY <1>1, <1>3 DEF PaperIsCopy
<1>6. \A d \in IndexDay : at'[d] <= posts'
  BY <1>1 DEF IndexShape
<1>7. CASE crossing
  BY <1>1, <1>4, <1>5, <1>6, <1>7 DEF NoForwardStep
<1>8. CASE ~crossing
  <2>1. /\ view[h].values = values /\ (\A g \in Handler \ {h} : hpc[g] = "idle")
        /\ \A d \in IndexDay : at[d] < posts
    BY <1>1, <1>8 DEF ReadIsCurrent
  <2>2. ReadIsCurrent'
    BY <1>3, <2>1 DEF ReadIsCurrent
  <2> DEFINE seen == paper[h].values
  <2>3. PICK c \in {1, 2}, k \in Nat :
          seen = [d \in IndexDay |-> IF d <= k THEN prints[c][d] ELSE NoValue]
    BY <1>1 DEF PaperIsCopy, CopyUpTo
  <2>4. /\ NewDays(h) = {d \in IndexDay : seen[d] # NoValue /\ values[d] = NoValue}
        /\ new = NewDays(h)
    BY <2>1 DEF NewDays, Shown
  <2>5. /\ \A d \in new : values'[d] = seen[d] /\ at'[d] = posts /\ d \in IndexDay
        /\ \A d \in IndexDay \ new : values'[d] = values[d] /\ at'[d] = at[d]
        /\ Shown(values') = Shown(values) \cup new /\ Shown(values) \cap new = {}
    BY <1>1, <2>4 DEF Shown
  <2> HIDE DEF new, merged
  <2>6. ASSUME NEW p \in Adjacent(Shown(values')), at'[p[1]] <= at'[p[2]]
        PROVE  \E q \in {1, 2} :
                 /\ prints[q][p[2]] # NoValue /\ prints[q][p[2]].lev = values'[p[2]].lev
                 /\ prints[q][p[1]] = NoValue \/ prints[q][p[1]].lev = values'[p[1]].lev
    <3>0. /\ p \in Shown(values') \X Shown(values') /\ p[1] < p[2]
          /\ p[1] = Before(Shown(values'), p[2])
      BY DEF Adjacent
    <3>1. /\ p[1] \in Shown(values') /\ p[2] \in Shown(values')
          /\ p[1] \in IndexDay /\ p[2] \in IndexDay /\ p[1] \in Nat /\ p[2] \in Nat
      BY <3>0, IndexAssumption DEF Shown, IndexDay
    <3>2. CASE p[2] \in new
      <4>1. seen[p[2]] # NoValue /\ values'[p[2]] = seen[p[2]]
        BY <2>4, <2>5, <3>2
      <4>2. p[2] <= k /\ seen[p[2]] = prints[c][p[2]]
        BY <2>3, <3>1, <4>1
      <4>3. seen[p[1]] = prints[c][p[1]]
        BY <2>3, <3>0, <3>1, <4>2
      <4>4. CASE seen[p[1]] = NoValue
        BY <4>1, <4>2, <4>3, <4>4
      <4>5. CASE seen[p[1]] # NoValue /\ p[1] \in new
        BY <2>5, <4>1, <4>2, <4>3, <4>5
      <4>6. CASE seen[p[1]] # NoValue /\ p[1] \notin new
        <5>1. p[1] \in Shown(values) /\ values'[p[1]] = values[p[1]] /\ p[1] \in Overlap(h)
          BY <2>1, <2>5, <3>1, <4>6 DEF Overlap, Shown
        <5>2. StepsOnto(h) = {}
          BY <1>1 DEF Refused
        <5>3. {e \in Shown(values') : e < p[2]} # {}
          BY <3>0, <3>1
        <5>4. Shown(values') = Shown(view[h].values) \cup NewDays(h) /\ p[2] \in NewDays(h)
          BY <2>1, <2>4, <2>5, <3>2
        <5>5. p[1] \notin Contradicted(h)
          BY <3>0, <5>2, <5>3, <5>4 DEF StepsOnto, JoinsOntoRestated
        <5>6. seen[p[1]].lev = values[p[1]].lev
          BY <2>1, <5>1, <5>5 DEF Contradicted
        <5> QED
          BY <4>1, <4>2, <4>3, <5>1, <5>6
      <4> QED
        BY <4>4, <4>5, <4>6
    <3>3. CASE p[2] \notin new /\ p[1] \in new
      <4>1. at'[p[1]] = posts /\ at'[p[2]] = at[p[2]] /\ at[p[2]] < posts /\ at[p[2]] \in Nat
        BY <2>1, <2>5, <3>1, <3>3 DEF IndexShape
      <4> QED
        BY <2>6, <4>1 DEF IndexShape
    <3>4. CASE p[2] \notin new /\ p[1] \notin new
      <4>1. p \in Shown(values) \X Shown(values)
        BY <2>5, <3>0, <3>4
      <4>2. Shown(values) \in SUBSET IndexDay /\ Shown(values') \in SUBSET IndexDay
        BY DEF Shown
      <4>3. \A e \in Shown(values') : e < p[2] => e <= p[1]
        BY <4>2, AdjacentIs
      <4>4. \A e \in Shown(values) : e < p[2] => e <= p[1]
        BY <2>5, <4>3
      <4>5. p \in Adjacent(Shown(values))
        BY <3>0, <4>1, <4>2, <4>4, AdjacentIs
      <4>6. at[p[1]] <= at[p[2]]
        BY <2>5, <2>6, <3>1, <3>4
      <4>7. values'[p[1]] = values[p[1]] /\ values'[p[2]] = values[p[2]]
        BY <2>5, <3>1, <3>4
      <4> QED
        BY <1>8, <4>5, <4>6, <4>7 DEF NoForwardStep
    <3> QED
      BY <3>2, <3>3, <3>4
  <2>7. NoForwardStep'
    BY <1>1, <2>6 DEF NoForwardStep
  <2> QED
    BY <1>4, <1>5, <1>6, <2>2, <2>7
<1> QED
  BY <1>7, <1>8

\* A post begins.
LEMMA ReadKeepsIndex ==
  ASSUME IndexInv, NEW h \in Handler, ReadIndex(h)
  PROVE  IndexInv'
<1> USE DEF IndexInv
<1>1. /\ hpc[h] = "idle" /\ hpc' = [hpc EXCEPT ![h] = "read"] /\ posts' = posts + 1
      /\ view' = [view EXCEPT ![h] = [values |-> values, exps |-> exps]]
      /\ crossing' = (crossing \/ \E g \in Handler : hpc[g] = "read")
      /\ UNCHANGED <<prints, settled, values, at>>
  BY DEF ReadIndex
<1>2. PICK c \in {1, 2}, live \in BOOLEAN :
        paper' = [paper EXCEPT ![h] = [copy |-> c, values |-> Served(c), live |-> live]]
  BY DEF ReadIndex
<1>3. /\ hpc' \in [Handler -> {"idle", "read"}] /\ hpc'[h] = "read"
      /\ paper'[h].values = Served(c) /\ view'[h].values = values
      /\ \A g \in Handler \ {h} : hpc'[g] = hpc[g] /\ paper'[g] = paper[g] /\ view'[g] = view[g]
  BY <1>1, <1>2 DEF IndexShape
<1>4. IndexShape'
  BY <1>1, <1>2, <1>3 DEF IndexShape
<1>5. PaperIsCopy'
  <2>1. CopyUpTo(Served(c), prints)
    BY DEF CopyUpTo, Served, IndexShape
  <2> QED
    BY <1>1, <1>3, <2>1 DEF PaperIsCopy
<1>6. \A d \in IndexDay : at'[d] <= posts' /\ at'[d] < posts'
  BY <1>1 DEF IndexShape
<1>7. crossing' \/ ReadIsCurrent'
  <2> SUFFICES ASSUME ~crossing' PROVE ReadIsCurrent'
    OBVIOUS
  <2>1. \A g \in Handler : hpc[g] # "read"
    BY <1>1
  <2>2. \A g \in Handler \ {h} : hpc'[g] = "idle"
    BY <1>3, <2>1 DEF IndexShape
  <2> QED
    BY <1>1, <1>3, <1>6, <2>2 DEF ReadIsCurrent
<1>8. NoForwardStep'
  BY <1>1 DEF NoForwardStep
<1> QED
  BY <1>4, <1>5, <1>6, <1>7, <1>8

\* A new value never meets the store with a step its own copy shows no session
\* made, for any two copies, any number of sessions and of posts that do not
\* overlap (joins_onto_restated).
THEOREM NoForwardStepHolds == IndexSpec => []NoForwardStep
<1>1. IndexInit => IndexInv
  <2> SUFFICES ASSUME IndexInit PROVE IndexInv
    OBVIOUS
  <2>1. /\ posts = 0 /\ at = [d \in IndexDay |-> 0] /\ values = NoValues
        /\ \A h \in Handler : hpc[h] = "idle"
        /\ hpc \in [Handler -> {"idle", "read"}] /\ DOMAIN paper = Handler /\ DOMAIN view = Handler
        /\ settled \in Nat
    BY IndexAssumption DEF IndexInit
  <2>2. Shown(values) = {}
    BY <2>1 DEF Shown, NoValues
  <2>3. NoForwardStep
    BY <2>2 DEF NoForwardStep, Adjacent
  <2>4. IndexShape
    BY <2>1 DEF IndexShape, NoValues
  <2> QED
    BY <2>1, <2>3, <2>4 DEF IndexInv, PaperIsCopy, ReadIsCurrent
<1>2. IndexInv /\ [IndexNext]_indexVars => IndexInv'
  <2> SUFFICES ASSUME IndexInv, [IndexNext]_indexVars PROVE IndexInv'
    OBVIOUS
  <2>1. CASE NextPrint \/ UNCHANGED indexVars
    <3>1. UNCHANGED <<prints, values, at, crossing, posts, hpc, paper, view>>
      BY <2>1 DEF NextPrint, indexVars
    <3>2. settled' \in Nat
      BY <2>1 DEF NextPrint, indexVars, IndexInv, IndexShape
    <3> QED
      BY <3>1, <3>2 DEF IndexInv, IndexShape, PaperIsCopy, ReadIsCurrent, NoForwardStep
  <2>2. ASSUME NEW h \in Handler, RefuseIndex(h) PROVE IndexInv'
    <3>1. /\ hpc' = [hpc EXCEPT ![h] = "idle"] /\ paper' = [paper EXCEPT ![h] = NoPaper]
          /\ view' = [view EXCEPT ![h] = NoView]
          /\ UNCHANGED <<prints, settled, values, at, crossing, posts>>
      BY <2>2 DEF RefuseIndex, Done
    <3>2. /\ hpc' \in [Handler -> {"idle", "read"}] /\ hpc'[h] = "idle"
          /\ \A g \in Handler \ {h} : hpc'[g] = hpc[g] /\ paper'[g] = paper[g] /\ view'[g] = view[g]
      BY <3>1 DEF IndexInv, IndexShape
    <3>3. IndexShape'
      BY <3>1, <3>2 DEF IndexInv, IndexShape
    <3>4. PaperIsCopy' /\ (ReadIsCurrent => ReadIsCurrent')
      BY <3>1, <3>2 DEF IndexInv, PaperIsCopy, ReadIsCurrent
    <3> QED
      BY <3>1, <3>3, <3>4 DEF IndexInv, NoForwardStep
  <2> QED
    BY <2>1, <2>2, ReadKeepsIndex, CommitKeepsIndex DEF IndexNext
<1>3. IndexInv => NoForwardStep
  BY DEF IndexInv
<1> QED
  BY <1>1, <1>2, <1>3, PTL DEF IndexSpec


\* d lies between the floor and x.
Between(f, d, x) == (f <= d /\ d <= x) \/ (x <= d /\ d <= f)

\* From every day of X to the floor, the days the share traded on are in Y, or
\* one of the copies lacks them.
ToFloor(f, s, X, Y) ==
  \A x \in X, d \in trades[s] : Between(f, d, x) => d \in Y \cup lacks

\* The world, and what the runs' variables hold.
CleanShape(f) ==
  /\ time \in Nat /\ 3 * (f + 1) <= time
  /\ rpc \in [Runner -> {"idle", "stated", "fetched", "universe"}]
  /\ DOMAIN known = Runner /\ DOMAIN box = Runner /\ clean \in [Runner -> BOOLEAN]
  /\ DOMAIN flows = Share
  /\ \A s \in Share : trades[s] \subseteq TradeDay /\ flows[s] \subseteq trades[s]
  /\ \A r \in Runner, s \in Share : box[r].flows[s] \cup box[r].due[s] \subseteq trades[s]
  /\ \A r \in Runner, s \in Share : known[r].flows[s] \subseteq flows[s]
  /\ \A r \in Runner : rpc[r] # "idle" => known[r].floor = f

\* What is stored, what a run read of it, and what is stored once its files
\* are, reaches the floor without a hole.
NoHoles(f) ==
  /\ \A s \in Share : ToFloor(f, s, flows[s], flows[s])
  /\ \A r \in Runner, s \in Share :
       /\ ToFloor(f, s, known[r].flows[s], known[r].flows[s])
       /\ ToFloor(f, s, box[r].flows[s], box[r].flows[s] \cup flows[s])

\* What a run owes is settled, and it is still to be shipped or stored unless a
\* file failed.
DueIsShipped ==
  \A r \in Runner, s \in Share : \A d \in box[r].due[s] :
    d >= FloorOf(r, s) /\ rpc[r] \in {"fetched", "universe"} =>
      /\ IsSettled(d, time)
      /\ clean[r] => d \in box[r].flows[s] \cup flows[s] \cup lacks

CleanInv(f) == CleanShape(f) /\ NoHoles(f) /\ DueIsShipped

\* What has settled stays settled, and so has everything before it.
LEMMA SettledGrows ==
  ASSUME NEW t \in Nat, NEW d \in Nat, IsSettled(d, t)
  PROVE  IsSettled(d, t + 1) /\ \A e \in Nat : e <= d => IsSettled(e, t)
<1> DEFINE q == t \div 3
           r == t % 3
           p == (t + 1) \div 3
           m == (t + 1) % 3
<1>1. q \in Nat /\ r \in Nat /\ r <= 2 /\ t = (3 * q) + r
  OBVIOUS
<1>2. p \in Nat /\ m \in Nat /\ m <= 2 /\ t + 1 = (3 * p) + m
  OBVIOUS
<1>3. d < q \/ (d = q /\ r = 2)
  BY DEF IsSettled
<1> HIDE DEF q, r, p, m
<1>4. d < p
  BY <1>1, <1>2, <1>3
<1>5. \A e \in Nat : e <= d => e < q \/ (e = q /\ r = 2)
  BY <1>1, <1>3
<1> QED
  BY <1>4, <1>5 DEF IsSettled, q, r, p, m

\* What the trimming leaves out of a download is stored, or lacking somewhere.
LEMMA TrimCovers ==
  ASSUME NEW f \in Nat, Floors = {f}, CleanInv(f), NEW r \in Runner, NEW s \in Share,
         NEW missing, known[r].floor = f, NEW d \in Rows(s, missing), d >= FloorOf(r, s)
  PROVE  d \in Trim(r, s, Rows(s, missing)) \cup known[r].flows[s] \cup lacks
<1> DEFINE rows == Rows(s, missing)
           held == known[r].flows[s]
<1>0. d \in trades[s] /\ d \in Nat /\ held \subseteq Nat /\ held \in SUBSET (0..LastDay) /\ LastDay \in Nat
  BY ShareAssumption DEF CleanInv, CleanShape, Rows, TradeDay
<1>1. CASE held = {}
  <2>1. d \in Trim(r, s, rows)
    BY <1>1 DEF Trim
  <2> QED
    BY <2>1
<1>2. CASE held # {}
  <2>0. /\ Min(held) \in held /\ Max(held) \in held /\ Min(held) \in Nat /\ Max(held) \in Nat
    BY <1>0, <1>2, MinIs, MaxIs
  <2>1. CASE d > Max(held) \/ d < Min(held)
    <3>1. d \in Trim(r, s, rows)
      BY <1>2, <2>1 DEF Trim
    <3> QED
      BY <3>1
  <2>2. CASE d <= Max(held) /\ Min(held) <= d
    <3>1. \E x \in held : Between(f, d, x)
      BY <1>0, <2>0, <2>2 DEF Between
    <3>2. d \in held \cup lacks
      BY <1>0, <3>1 DEF CleanInv, NoHoles, ToFloor
    <3> QED
      BY <3>2
  <2> QED
    BY <1>0, <2>0, <2>1, <2>2
<1> QED
  BY <1>1, <1>2

\* A download.
LEMMA FetchKeepsClean ==
  ASSUME NEW f \in Nat, Floors = {f}, CleanInv(f), NEW r \in Runner, Fetch(r)
  PROVE  CleanInv(f)'
<1>0. f >= 1
  BY ShareAssumption
<1>1. PICK watch \in SUBSET Share, missing \in {{}, lacks} :
        /\ box' = [box EXCEPT ![r] =
             [at |-> time, watch |-> watch,
              flows |-> DownloadShareFlows(r, Asked(r, watch), missing),
              days |-> DayFilesToFetch(r, MarketSessions(r, Asked(r, watch), missing)),
              due |-> [s \in Share |->
                         IF s \in Asked(r, watch)
                         THEN {d \in Rows(s, missing) : IsSettled(d, time)} ELSE {}]]]
        /\ clean' = [clean EXCEPT ![r] =
             watch # {} /\ \A s \in Asked(r, watch) :
                             Rows(s, missing) = {} => known[r].flows[s] = {}]
  BY DEF Fetch
<1>2. /\ rpc[r] = "stated" /\ rpc' = [rpc EXCEPT ![r] = "fetched"]
      /\ UNCHANGED <<time, trades, lacks, flows, known>>
  BY DEF Fetch, shareWorld, shareStore
<1>3. /\ DOMAIN box' = Runner /\ rpc'[r] = "fetched" /\ clean' \in [Runner -> BOOLEAN]
      /\ rpc' \in [Runner -> {"idle", "stated", "fetched", "universe"}]
  BY <1>1, <1>2 DEF CleanInv, CleanShape
<1>4. /\ box'[r].flows = DownloadShareFlows(r, Asked(r, watch), missing)
      /\ box'[r].due = [s \in Share |->
           IF s \in Asked(r, watch) THEN {d \in Rows(s, missing) : IsSettled(d, time)} ELSE {}]
  BY <1>1 DEF CleanInv, CleanShape
<1>5. \A q \in Runner \ {r} : box'[q] = box[q] /\ rpc'[q] = rpc[q] /\ clean'[q] = clean[q]
  BY <1>1, <1>2 DEF CleanInv, CleanShape
<1>6. known[r].floor = f
  BY <1>2 DEF CleanInv, CleanShape
<1>7. \A s \in Share : box'[r].flows[s] \cup box'[r].due[s] \subseteq trades[s]
  BY <1>4, TrimIsRows DEF DownloadShareFlows, Rows
<1>8. CleanShape(f)'
  BY <1>2, <1>3, <1>5, <1>7 DEF CleanInv, CleanShape
<1>9. ASSUME NEW s \in Share, s \in Asked(r, watch), NEW d \in Rows(s, missing), d >= FloorOf(r, s)
      PROVE  d \in box'[r].flows[s] \cup flows[s] \cup lacks
  <2>1. d \in Trim(r, s, Rows(s, missing)) \cup known[r].flows[s] \cup lacks
    BY <1>6, <1>9, TrimCovers
  <2>2. box'[r].flows[s] = Trim(r, s, Rows(s, missing)) /\ known[r].flows[s] \subseteq flows[s]
    BY <1>4, <1>9 DEF DownloadShareFlows, CleanInv, CleanShape
  <2> QED
    BY <2>1, <2>2
<1>10. ASSUME NEW s \in Share, NEW x \in box'[r].flows[s], NEW d \in trades[s], Between(f, d, x)
       PROVE  d \in box'[r].flows[s] \cup flows[s] \cup lacks
  <2>1. s \in Asked(r, watch) /\ x \in Trim(r, s, Rows(s, missing))
    BY <1>4, <1>10 DEF DownloadShareFlows
  <2>2. x \in Rows(s, missing) /\ x >= FloorOf(r, s)
    BY <2>1, TrimIsRows DEF Trim
  <2>3. /\ FloorOf(r, s) \in {1, f} /\ x \in Nat /\ d \in Nat /\ x <= time \div 3 /\ f <= time \div 3
        /\ time \div 3 \in Nat
    <3>1. trades[s] \subseteq Nat /\ time \in Nat /\ 3 * (f + 1) <= time
      BY ShareAssumption DEF CleanInv, CleanShape, TradeDay
    <3>2. x \in trades[s] /\ x <= time \div 3
      BY <2>2 DEF Rows
    <3> QED
      BY <1>6, <3>1, <3>2 DEF FloorOf
  <2>4. d >= FloorOf(r, s) /\ d <= time \div 3
    BY <1>0, <1>10, <2>2, <2>3 DEF Between
  <2>5. d \in Rows(s, missing) \/ d \in lacks
    BY <2>4 DEF Rows
  <2> QED
    BY <1>9, <2>1, <2>4, <2>5
<1>11. NoHoles(f)'
  BY <1>2, <1>5, <1>10 DEF CleanInv, NoHoles, ToFloor
<1>12. DueIsShipped'
  <2> SUFFICES ASSUME NEW q \in Runner, NEW s \in Share, NEW d \in box'[q].due[s],
                      d >= FloorOf(q, s)', rpc'[q] \in {"fetched", "universe"}
               PROVE  /\ IsSettled(d, time')
                      /\ clean'[q] => d \in box'[q].flows[s] \cup flows'[s] \cup lacks'
    BY DEF DueIsShipped
  <2>1. d >= FloorOf(q, s)
    BY <1>2 DEF FloorOf
  <2>2. CASE q = r
    <3>1. s \in Asked(r, watch) /\ d \in Rows(s, missing) /\ IsSettled(d, time)
      BY <1>4, <2>2
    <3> QED
      BY <1>2, <1>3, <1>9, <2>1, <2>2, <3>1
  <2>3. CASE q # r
    BY <1>2, <1>5, <2>1, <2>3 DEF CleanInv, DueIsShipped
  <2> QED
    BY <2>2, <2>3
<1> QED
  BY <1>8, <1>11, <1>12 DEF CleanInv

\* Days up to the floor have settled.
LEMMA FloorIsSettled ==
  ASSUME NEW f \in Nat, CleanShape(f), NEW x \in Nat, IsSettled(x, time),
         NEW d \in Nat, Between(f, d, x)
  PROVE  IsSettled(d, time)
<1>1. time \in Nat /\ 3 * (f + 1) <= time
  BY DEF CleanShape
<1>2. f < time \div 3
  BY <1>1
<1>3. IsSettled(f, time)
  BY <1>2 DEF IsSettled
<1>4. \A e \in Nat : (e <= x \/ e <= f) => IsSettled(e, time)
  BY <1>1, <1>3, SettledGrows
<1> QED
  BY <1>4 DEF Between

\* A file of a run is ingested.
LEMMA IngestKeepsClean ==
  ASSUME NEW f \in Nat, CleanInv(f), NEW r \in Runner, IngestFlows(r)
  PROVE  CleanInv(f)'
<1>1. PICK s \in Share :
        /\ \/ /\ flows' = [flows EXCEPT ![s] = @ \cup {d \in box[r].flows[s] : IsSettled(d, time)}]
              /\ clean' = [clean EXCEPT ![r] = @ /\ ucall[r] = NoUniverse]
           \/ /\ clean' = [clean EXCEPT ![r] = FALSE]
              /\ UNCHANGED flows
        /\ box' = [box EXCEPT ![r].flows[s] = {}]
  BY DEF IngestFlows
<1>2. rpc[r] = "universe" /\ UNCHANGED <<time, trades, lacks, known, rpc>>
  BY DEF IngestFlows, shareWorld
<1>3. /\ clean' \in [Runner -> BOOLEAN] /\ \A q \in Runner : clean'[q] => clean[q]
  <2>1. clean \in [Runner -> BOOLEAN]
    BY DEF CleanInv, CleanShape
  <2>2. clean' = [clean EXCEPT ![r] = clean[r] /\ ucall[r] = NoUniverse]
        \/ clean' = [clean EXCEPT ![r] = FALSE]
    BY <1>1
  <2>3. CASE clean' = [clean EXCEPT ![r] = FALSE]
    BY <2>1, <2>3
  <2>4. CASE clean' = [clean EXCEPT ![r] = clean[r] /\ ucall[r] = NoUniverse]
    <3> DEFINE now == clean[r] /\ ucall[r] = NoUniverse
    <3>1. now \in BOOLEAN /\ (now => clean[r])
      BY <2>1
    <3> HIDE DEF now
    <3> QED
      BY <2>1, <2>4, <3>1 DEF now
  <2> QED
    BY <2>2, <2>3, <2>4
<1>4. /\ \A x \in Share : flows[x] \subseteq flows'[x] /\ (x # s => flows'[x] = flows[x])
      /\ flows'[s] = flows[s] \/ flows'[s] = flows[s] \cup {d \in box[r].flows[s] : IsSettled(d, time)}
      /\ clean'[r] => flows'[s] = flows[s] \cup {d \in box[r].flows[s] : IsSettled(d, time)}
  <2>1. clean \in [Runner -> BOOLEAN] /\ DOMAIN flows = Share
    BY DEF CleanInv, CleanShape
  <2> QED
    BY <1>1, <2>1
<1>5. /\ DOMAIN box' = Runner /\ \A q \in Runner \ {r} : box'[q] = box[q]
      /\ box'[r].due = box[r].due
      /\ \A x \in Share : x # s => box'[r].flows[x] = box[r].flows[x]
      /\ box'[r].flows[s] \in {box[r].flows[s], {}}
  BY <1>1 DEF CleanInv, CleanShape
<1>6. \A x \in Share : trades[x] \subseteq Nat
  BY ShareAssumption DEF CleanInv, CleanShape, TradeDay
<1>7. CleanShape(f)'
  <2>1. \A x \in Share : trades'[x] \subseteq TradeDay /\ flows'[x] \subseteq trades'[x]
    BY <1>2, <1>4 DEF CleanInv, CleanShape
  <2>2. \A q \in Runner, x \in Share : box'[q].flows[x] \cup box'[q].due[x] \subseteq trades'[x]
    BY <1>2, <1>5 DEF CleanInv, CleanShape
  <2>3. \A q \in Runner, x \in Share : known'[q].flows[x] \subseteq flows'[x]
    BY <1>2, <1>4 DEF CleanInv, CleanShape
  <2>4. DOMAIN flows' = Share
    BY <1>1 DEF CleanInv, CleanShape
  <2> QED
    BY <1>1, <1>2, <1>3, <1>5, <2>1, <2>2, <2>3, <2>4 DEF CleanInv, CleanShape
<1>8. ASSUME NEW x \in flows'[s], NEW d \in trades[s], Between(f, d, x)
      PROVE  d \in flows'[s] \cup lacks
  <2>1. CASE x \in flows[s]
    BY <1>4, <1>8, <2>1 DEF CleanInv, NoHoles, ToFloor
  <2>2. CASE x \notin flows[s]
    <3>1. /\ flows'[s] = flows[s] \cup {e \in box[r].flows[s] : IsSettled(e, time)}
          /\ x \in box[r].flows[s] /\ IsSettled(x, time)
      BY <1>4, <2>2
    <3>2. d \in Nat /\ x \in Nat
      BY <1>6, <3>1 DEF CleanInv, CleanShape
    <3>3. IsSettled(d, time)
      BY <1>8, <3>1, <3>2, FloorIsSettled DEF CleanInv
    <3>4. d \in box[r].flows[s] \cup flows[s] \cup lacks
      BY <1>8, <3>1 DEF CleanInv, NoHoles, ToFloor
    <3> QED
      BY <3>1, <3>3, <3>4
  <2> QED
    BY <2>1, <2>2
<1>9. NoHoles(f)'
  <2>1. \A x \in Share : ToFloor(f, x, flows[x], flows[x])'
    BY <1>2, <1>4, <1>8 DEF CleanInv, NoHoles, ToFloor
  <2>2. \A q \in Runner, x \in Share : ToFloor(f, x, known[q].flows[x], known[q].flows[x])'
    BY <1>2 DEF CleanInv, NoHoles, ToFloor
  <2>3. \A q \in Runner, x \in Share :
          box'[q].flows[x] = box[q].flows[x] \/ box'[q].flows[x] = {}
    BY <1>5
  <2>4. \A q \in Runner, x \in Share :
          ToFloor(f, x, box[q].flows[x], box[q].flows[x] \cup flows[x])'
    BY <1>2, <1>4, <2>3 DEF CleanInv, NoHoles, ToFloor
  <2> QED
    BY <2>1, <2>2, <2>4 DEF NoHoles
<1>10. DueIsShipped'
  <2> SUFFICES ASSUME NEW q \in Runner, NEW x \in Share, NEW d \in box'[q].due[x],
                      d >= FloorOf(q, x)', rpc'[q] \in {"fetched", "universe"}
               PROVE  /\ IsSettled(d, time')
                      /\ clean'[q] => d \in box'[q].flows[x] \cup flows'[x] \cup lacks'
    BY DEF DueIsShipped
  <2>1. d \in box[q].due[x] /\ d >= FloorOf(q, x) /\ rpc[q] \in {"fetched", "universe"}
    BY <1>2, <1>5 DEF FloorOf
  <2>2. /\ IsSettled(d, time)
        /\ clean[q] => d \in box[q].flows[x] \cup flows[x] \cup lacks
    BY <2>1 DEF CleanInv, DueIsShipped
  <2>3. CASE q = r /\ x = s
    BY <1>2, <1>3, <1>4, <2>2, <2>3
  <2>4. CASE q # r \/ x # s
    <3>1. box'[q].flows[x] = box[q].flows[x]
      BY <1>5, <2>4
    <3> QED
      BY <1>2, <1>3, <1>4, <2>2, <3>1
  <2> QED
    BY <2>3, <2>4
<1> QED
  BY <1>7, <1>9, <1>10 DEF CleanInv

\* A step that leaves the files, the rows and the state a run read alone, and
\* moves no run past its ingest.
LEMMA OtherStepsKeepClean ==
  ASSUME NEW f \in Nat, CleanInv(f), UNCHANGED <<trades, lacks, flows, known, box>>,
         time' \in {time, time + 1},
         rpc' \in [Runner -> {"idle", "stated", "fetched", "universe"}],
         \A q \in Runner : rpc'[q] = rpc[q] \/ (rpc[q] = "fetched" /\ rpc'[q] = "universe"),
         clean' \in [Runner -> BOOLEAN], \A q \in Runner : clean'[q] => clean[q]
  PROVE  CleanInv(f)'
<1>1. time \in Nat /\ time' \in Nat /\ 3 * (f + 1) <= time'
  BY DEF CleanInv, CleanShape
<1>2. CleanShape(f)'
  BY <1>1 DEF CleanInv, CleanShape
<1>3. NoHoles(f)'
  BY DEF CleanInv, NoHoles, ToFloor
<1>4. \A d \in Nat : IsSettled(d, time) => IsSettled(d, time')
  BY <1>1, SettledGrows
<1>5. DueIsShipped'
  <2> SUFFICES ASSUME NEW q \in Runner, NEW s \in Share, NEW d \in box'[q].due[s],
                      d >= FloorOf(q, s)', rpc'[q] \in {"fetched", "universe"}
               PROVE  /\ IsSettled(d, time')
                      /\ clean'[q] => d \in box'[q].flows[s] \cup flows'[s] \cup lacks'
    BY DEF DueIsShipped
  <2>1. d >= FloorOf(q, s) /\ d \in box[q].due[s]
    BY DEF FloorOf
  <2>2. d \in Nat
    BY <2>1, ShareAssumption DEF CleanInv, CleanShape, TradeDay
  <2> QED
    BY <1>4, <2>1, <2>2 DEF CleanInv, DueIsShipped
<1> QED
  BY <1>2, <1>3, <1>5 DEF CleanInv

\* A run reads the server's state, and ends.
LEMMA RunEndsKeepClean ==
  ASSUME NEW f \in Nat, Floors = {f}, CleanInv(f), NEW r \in Runner,
         ReadState(r) \/ PostSessions(r)
  PROVE  CleanInv(f)'
<1>1. /\ UNCHANGED <<time, trades, lacks, flows>>
      /\ \A q \in Runner \ {r} : /\ rpc'[q] = rpc[q] /\ known'[q] = known[q] /\ box'[q] = box[q]
                                 /\ clean'[q] = clean[q]
      /\ rpc' \in [Runner -> {"idle", "stated", "fetched", "universe"}]
      /\ rpc'[r] \in {"idle", "stated"} /\ DOMAIN known' = Runner /\ DOMAIN box' = Runner
  BY DEF ReadState, PostSessions, CleanInv, CleanShape, shareWorld, shareStore
<1>2. clean' \in [Runner -> BOOLEAN]
  BY DEF ReadState, PostSessions, CleanInv, CleanShape
<1>3. known'[r].flows \in {flows, [s \in Share |-> {}]} /\ (rpc'[r] = "stated" => known'[r].floor = f)
  BY DEF ReadState, PostSessions, CleanInv, CleanShape, NoKnown
<1>4. \/ box'[r].flows = box[r].flows /\ box'[r].due = box[r].due
      \/ box'[r].flows = [s \in Share |-> {}] /\ box'[r].due = [s \in Share |-> {}]
  <2>1. CASE ReadState(r)
    BY <2>1 DEF ReadState
  <2>2. CASE PostSessions(r)
    <3>1. box'[r] = NoBox
      BY <2>2 DEF PostSessions, CleanInv, CleanShape
    <3> QED
      BY <3>1 DEF NoBox
  <2> QED
    BY <2>1, <2>2
<1>5. \A s \in Share : /\ known'[r].flows[s] \in {flows[s], {}}
                       /\ \/ box'[r].flows[s] = box[r].flows[s] /\ box'[r].due[s] = box[r].due[s]
                          \/ box'[r].flows[s] = {} /\ box'[r].due[s] = {}
  BY <1>3, <1>4
<1>6. CleanShape(f)'
  BY <1>1, <1>2, <1>3, <1>5 DEF CleanInv, CleanShape
<1>7. NoHoles(f)'
  BY <1>1, <1>5 DEF CleanInv, NoHoles, ToFloor
<1>8. DueIsShipped'
  BY <1>1 DEF CleanInv, DueIsShipped, FloorOf
<1> QED
  BY <1>6, <1>7, <1>8 DEF CleanInv

\* A run none of whose items failed leaves nothing it downloaded missing, while
\* every run is given the same floor and that is a past day: what the trimming
\* in trim_client_types leaves out is stored already, because what is stored
\* reaches the floor without a hole.
THEOREM CleanRunStoresAllHolds ==
  ASSUME NEW f \in Nat, Floors = {f}, f < StartDay
  PROVE  ShareSpec => CleanRunStoresAll
<1>1. ShareInit => CleanInv(f)
  <2> SUFFICES ASSUME ShareInit PROVE CleanInv(f)
    OBVIOUS
  <2>1. StartDay \in Nat /\ 3 * (f + 1) <= 3 * StartDay
    BY ShareAssumption
  <2>2. time \in Nat /\ 3 * (f + 1) <= time
    BY <2>1 DEF ShareInit
  <2>3. /\ \A s \in Share : trades[s] \subseteq TradeDay /\ flows[s] = {}
        /\ \A r \in Runner : /\ rpc[r] = "idle" /\ known[r] = NoKnown /\ box[r] = NoBox
        /\ rpc \in [Runner -> {"idle", "stated", "fetched", "universe"}]
        /\ DOMAIN known = Runner /\ DOMAIN box = Runner
    BY ShareAssumption DEF ShareInit, TradeDay
  <2>4. clean \in [Runner -> BOOLEAN] /\ DOMAIN flows = Share
    BY DEF ShareInit
  <2>5. \A r \in Runner, s \in Share :
          known[r].flows[s] = {} /\ box[r].flows[s] = {} /\ box[r].due[s] = {}
    BY <2>3 DEF NoKnown, NoBox
  <2>6. CleanShape(f)
    BY <2>2, <2>3, <2>4, <2>5 DEF CleanShape
  <2>7. NoHoles(f) /\ DueIsShipped
    BY <2>3, <2>5 DEF NoHoles, ToFloor, DueIsShipped
  <2> QED
    BY <2>6, <2>7 DEF CleanInv
<1>2. CleanInv(f) /\ [ShareNext]_shareVars => CleanInv(f)'
  <2> SUFFICES ASSUME CleanInv(f), [ShareNext]_shareVars PROVE CleanInv(f)'
    OBVIOUS
  <2>0. /\ rpc \in [Runner -> {"idle", "stated", "fetched", "universe"}]
        /\ clean \in [Runner -> BOOLEAN]
    BY DEF CleanInv, CleanShape
  <2>1. CASE UNCHANGED shareVars
    BY <2>0, <2>1, OtherStepsKeepClean DEF shareVars, shareWorld, shareStore, runVars
  <2>2. CASE ShareTick
    BY <2>0, <2>2, OtherStepsKeepClean DEF ShareTick, shareStore, runVars
  <2>3. CASE \E s \in Share : JoinRoster(s)
    BY <2>0, <2>3, OtherStepsKeepClean DEF JoinRoster, shareWorld, runVars
  <2>4. ASSUME NEW r \in Runner, PostUniverse(r) PROVE CleanInv(f)'
    BY <2>0, <2>4, OtherStepsKeepClean DEF PostUniverse, shareWorld, shareStore
  <2>5. ASSUME NEW r \in Runner, CommitUniverse(r) PROVE CleanInv(f)'
    <3>1. clean' = clean \/ clean' = [clean EXCEPT ![r] = FALSE]
      BY <2>5 DEF CommitUniverse
    <3>2. clean' \in [Runner -> BOOLEAN] /\ \A q \in Runner : clean'[q] => clean[q]
      BY <2>0, <3>1
    <3>3. UNCHANGED <<time, trades, lacks, flows, rpc, known, box>>
      BY <2>5 DEF CommitUniverse, shareWorld
    <3> QED
      BY <2>0, <3>2, <3>3, OtherStepsKeepClean
  <2>6. ASSUME NEW r \in Runner, IngestDay(r) \/ EndSessions(r) PROVE CleanInv(f)'
    BY <2>0, <2>6, OtherStepsKeepClean DEF IngestDay, EndSessions, shareWorld, runVars
  <2> QED
    BY <2>1, <2>2, <2>3, <2>4, <2>5, <2>6, FetchKeepsClean, IngestKeepsClean, RunEndsKeepClean
    DEF ShareNext
<1>3. CleanInv(f) /\ [ShareNext]_shareVars =>
        [\A r \in Runner : rpc[r] = "universe" /\ rpc'[r] = "idle" /\ clean[r] =>
           \A s \in Share : \A d \in box[r].due[s] :
             d >= FloorOf(r, s) => d \in flows[s] \cup lacks]_shareVars
  <2> SUFFICES ASSUME CleanInv(f), ShareNext, NEW r \in Runner,
                      rpc[r] = "universe", rpc'[r] = "idle", clean[r]
               PROVE  \A s \in Share : \A d \in box[r].due[s] :
                        d >= FloorOf(r, s) => d \in flows[s] \cup lacks
    BY DEF shareVars, runVars
  <2>0. rpc \in [Runner -> {"idle", "stated", "fetched", "universe"}]
    BY DEF CleanInv, CleanShape
  <2>1. PICK q \in Runner : PostSessions(q) \/ rpc'[r] \in {rpc[r], "stated", "fetched", "universe"}
    BY <2>0 DEF ShareNext, ShareTick, JoinRoster, ReadState, Fetch, PostUniverse, IngestFlows,
                CommitUniverse, IngestDay, EndSessions, runVars
  <2>2. q = r /\ PostSessions(r)
    BY <2>0, <2>1 DEF PostSessions
  <2>3. \A s \in Share : box[r].flows[s] = {}
    BY <2>2 DEF PostSessions
  <2> QED
    BY <2>3 DEF CleanInv, DueIsShipped
<1> QED
  BY <1>1, <1>2, <1>3, PTL DEF ShareSpec, CleanRunStoresAll

-----------------------------------------------------------------------------
(* Running totals: induction over the entries is by the least one at which   *)
(* the claim fails.                                                          *)

\* What Running(N, r) is to satisfy.
Sums(N, r, g) == g = [n \in 0..N |-> IF n = 0 THEN 0 ELSE g[n - 1] + r[n]]

\* Some function satisfies it: the sums up to n are extended by one entry.
LEMMA SumsExist ==
  ASSUME NEW N \in Nat, NEW r \in [1..N -> Int]
  PROVE  \E g : Sums(N, r, g)
<1> DEFINE T == {m \in 0..N : ~\E g \in [0..m -> Int] : Sums(m, r, g)}
<1>1. T = {}
  <2> SUFFICES ASSUME T # {} PROVE FALSE
    OBVIOUS
  <2>0. T \in SUBSET Nat
    OBVIOUS
  <2> HIDE DEF T
  <2>1. PICK m \in T : \A k \in T : m <= k
    BY <2>0, Least
  <2>2. m \in 0..N /\ ~\E g \in [0..m -> Int] : Sums(m, r, g)
    BY DEF T
  <2>3. m # 0
    <3> DEFINE z == [n \in 0..0 |-> 0]
    <3>1. z \in [0..0 -> Int] /\ Sums(0, r, z)
      BY DEF Sums
    <3> QED
      BY <2>2, <3>1
  <2>4. m - 1 \in 0..N /\ m - 1 \notin T
    BY <2>0, <2>1, <2>2, <2>3
  <2>5. PICK f \in [0..(m - 1) -> Int] : Sums(m - 1, r, f)
    BY <2>4 DEF T
  <2> DEFINE g == [n \in 0..m |-> IF n = m THEN f[m - 1] + r[m] ELSE f[n]]
  <2>6. g \in [0..m -> Int]
    BY <2>2, <2>3
  <2>7. \A n \in 0..(m - 1) : f[n] = IF n = 0 THEN 0 ELSE f[n - 1] + r[n]
    BY <2>5 DEF Sums
  <2>8. \A n \in 0..m : g[n] = IF n = 0 THEN 0 ELSE g[n - 1] + r[n]
    <3> SUFFICES ASSUME NEW n \in 0..m PROVE g[n] = IF n = 0 THEN 0 ELSE g[n - 1] + r[n]
      OBVIOUS
    <3>1. CASE n = m
      BY <2>2, <2>3, <3>1
    <3>2. CASE n # m
      <4>1. n \in 0..(m - 1) /\ (n # 0 => n - 1 \in 0..m /\ n - 1 # m)
        BY <2>2, <3>2
      <4>2. g[n] = f[n] /\ (n # 0 => g[n - 1] = f[n - 1])
        BY <3>2, <4>1
      <4> QED
        BY <2>7, <4>1, <4>2
    <3> QED
      BY <3>1, <3>2
  <2>9. Sums(m, r, g)
    BY <2>6, <2>8 DEF Sums
  <2> QED
    BY <2>2, <2>6, <2>9
<1>2. N \in {m \in 0..N : TRUE} /\ N \notin T
  BY <1>1
<1>3. \E g \in [0..N -> Int] : Sums(N, r, g)
  BY <1>2
<1> QED
  BY <1>3

\* Running starts at zero and adds one entry at a time.
LEMMA RunningIs ==
  ASSUME NEW N \in Nat, NEW r \in [1..N -> Int]
  PROVE  /\ Running(N, r) \in [0..N -> Int]
         /\ Running(N, r)[0] = 0
         /\ \A n \in 1..N : Running(N, r)[n] = Running(N, r)[n - 1] + r[n]
<1> DEFINE R == Running(N, r)
<1>1. Sums(N, r, CHOOSE g : Sums(N, r, g))
  BY SumsExist, Zenon
<1>2. Running(N, r) = CHOOSE g : Sums(N, r, g)
  BY DEF Running, Sums
<1>3. Sums(N, r, R)
  BY <1>1, <1>2
<1> HIDE DEF R
<1>4. /\ DOMAIN R = 0..N /\ R[0] = 0 /\ R = [n \in 0..N |-> R[n]]
      /\ \A n \in 1..N : R[n] = R[n - 1] + r[n]
  <2>1. \A n \in 0..N : R[n] = IF n = 0 THEN 0 ELSE R[n - 1] + r[n]
    BY <1>3 DEF Sums
  <2>2. DOMAIN R = 0..N /\ R = [n \in 0..N |-> R[n]]
    BY <1>3 DEF Sums
  <2>3. 0 \in 0..N /\ \A n \in 1..N : n \in 0..N /\ n # 0
    OBVIOUS
  <2>4. R[0] = 0
    BY <2>1, <2>3
  <2>5. \A n \in 1..N : R[n] = R[n - 1] + r[n]
    BY <2>1, <2>3
  <2> QED
    BY <2>2, <2>4, <2>5
<1>5. \A n \in 0..N : R[n] \in Int
  <2> DEFINE T == {n \in 0..N : R[n] \notin Int}
  <2> SUFFICES ASSUME T # {} PROVE FALSE
    OBVIOUS
  <2>0. T \in SUBSET Nat
    OBVIOUS
  <2> HIDE DEF T
  <2>1. PICK n \in T : \A k \in T : n <= k
    BY <2>0, Least
  <2>2. n \in 0..N /\ R[n] \notin Int
    BY DEF T
  <2>3. n # 0 /\ n - 1 \in 0..N /\ n - 1 \notin T /\ n \in 1..N
    BY <1>4, <2>0, <2>1, <2>2
  <2>4. R[n - 1] \in Int /\ r[n] \in Int
    BY <2>3 DEF T
  <2>5. R[n] = R[n - 1] + r[n]
    BY <1>4, <2>3
  <2>6. R[n - 1] + r[n] \in Int
    BY <2>4
  <2> QED
    BY <2>2, <2>5, <2>6
<1> QED
  BY <1>4, <1>5 DEF R
\* Running stands still where the entries are zero.
LEMMA RunningFlat ==
  ASSUME NEW N \in Nat, NEW r \in [1..N -> Int], NEW a \in 0..N, NEW b \in 0..N, a <= b,
         \A n \in 1..N : a < n /\ n <= b => r[n] = 0
  PROVE  Running(N, r)[b] = Running(N, r)[a]
<1> DEFINE R == Running(N, r)
           T == {n \in 0..N : a <= n /\ n <= b /\ R[n] # R[a]}
<1>1. /\ R \in [0..N -> Int]
      /\ \A n \in 1..N : R[n] = R[n - 1] + r[n]
  BY RunningIs
<1> HIDE DEF R
<1>2. T = {}
  <2> SUFFICES ASSUME T # {} PROVE FALSE
    OBVIOUS
  <2>0. T \in SUBSET Nat
    OBVIOUS
  <2> HIDE DEF T
  <2>1. PICK n \in T : \A k \in T : n <= k
    BY <2>0, Least
  <2>2. n \in 0..N /\ a <= n /\ n <= b /\ R[n] # R[a]
    BY DEF T
  <2>3. a < n /\ n \in 1..N /\ n - 1 \in 0..N /\ a <= n - 1 /\ n - 1 <= b
    BY <2>2
  <2>4. n - 1 \notin T
    BY <2>0, <2>1, <2>2
  <2>5. R[n - 1] = R[a]
    BY <2>3, <2>4 DEF T
  <2>6. R[n] = R[n - 1] + 0
    BY <1>1, <2>2, <2>3
  <2>7. R[n - 1] \in Int
    BY <1>1, <2>3
  <2> QED
    BY <2>2, <2>5, <2>6, <2>7
<1>3. b \in 0..N /\ b \notin T
  BY <1>2
<1> QED
  BY <1>3 DEF R

-----------------------------------------------------------------------------
(* The decades of an index                                                   *)

\* A history printed on two adjoining decades: a step is one decade at most.
Adjoining == \A j, k \in Decades : j - k \in -1..1

\* Every corrected value is on the decade of the first: what the correction
\* adds undoes what the prints step.
LEMMA RelativeLevels ==
  ASSUME Adjoining, NEW V \in [IndexDay -> Value \cup {NoValue}],
         NEW d \in Shown(V), NEW e \in Shown(V)
  PROVE  /\ Relative(V)[d] \in Int
         /\ V[d].dec + Relative(V)[d] = V[e].dec + Relative(V)[e]
<1> DEFINE r == [n \in IndexDay |-> Step(V, n)]
           R == Running(IndexDays, r)
<1>0. IndexDays \in Nat /\ IndexDay = 1..IndexDays
  BY IndexAssumption DEF IndexDay
<1>1. /\ Shown(V) \in SUBSET IndexDay /\ Shown(V) \in SUBSET Nat
      /\ \A n \in Shown(V) : V[n].dec \in Decades /\ V[n].dec \in Int /\ n \in 0..IndexDays
  <2>1. Shown(V) \in SUBSET IndexDay
    BY DEF Shown
  <2>2. \A n \in Shown(V) : V[n] \in Value
    BY DEF Shown
  <2> QED
    BY <1>0, <2>1, <2>2, IndexAssumption DEF Value
<1>2. \A n \in IndexDay : Step(V, n) \in Int
  <2> SUFFICES ASSUME NEW n \in IndexDay PROVE Step(V, n) \in Int
    OBVIOUS
  <2> QED
    BY DEF Step
<1>3. r \in [1..IndexDays -> Int]
  BY <1>0, <1>2
<1>4. /\ R \in [0..IndexDays -> Int] /\ R[0] = 0
      /\ \A n \in 1..IndexDays : R[n] = R[n - 1] + r[n]
  <2> HIDE DEF r
  <2> QED
    BY <1>0, <1>3, RunningIs
<1>5. Relative(V) = R
  BY DEF Relative
<1>6. PICK f \in Shown(V) : \A n \in Shown(V) : f <= n
  BY <1>1, Least
<1> DEFINE on(n) == V[n].dec + R[n]
           T == {n \in Shown(V) : on(n) # on(f)}
<1>7. T = {}
  <2> SUFFICES ASSUME T # {} PROVE FALSE
    OBVIOUS
  <2>0. T \in SUBSET Nat
    BY <1>1
  <2> HIDE DEF T
  <2>1. PICK n \in T : \A m \in T : n <= m
    BY <2>0, Least
  <2>2. n \in Shown(V) /\ on(n) # on(f)
    BY DEF T
  <2>3. n # f /\ f < n /\ n \in 1..IndexDays /\ n \in Nat /\ f \in Nat
    BY <1>0, <1>1, <1>6, <2>2
  <2> DEFINE earlier == {m \in Shown(V) : m < n}
  <2>4. earlier # {} /\ earlier \in SUBSET (0..IndexDays)
    BY <1>1, <1>6, <2>3
  <2>5. Max(earlier) \in earlier /\ \A m \in earlier : m <= Max(earlier)
    BY <1>0, <2>4, MaxIs
  <2> DEFINE p == Max(earlier)
  <2>6. p \in Shown(V) /\ p < n /\ p \in Nat /\ p \notin T
    <3>1. p \in Shown(V) /\ p < n /\ p \in Nat
      BY <1>1, <2>5
    <3> HIDE DEF p
    <3>2. ~(n <= p)
      BY <2>3, <3>1
    <3> QED
      BY <2>1, <3>1, <3>2
  <2>7. on(p) = on(f)
    BY <2>6 DEF T
  <2>8. Step(V, n) = -(V[n].dec - V[p].dec)
    <3>1. V[n].dec - V[p].dec \in -1..1 /\ V[n].dec \in Int /\ V[p].dec \in Int
      BY <1>1, <2>2, <2>6 DEF Adjoining
    <3>2. Step(V, n) = IF V[n].dec - V[p].dec \in {-1, 1} THEN -(V[n].dec - V[p].dec) ELSE 0
      BY <2>2, <2>4 DEF Step
    <3> QED
      BY <3>1, <3>2
  <2>9. R[n - 1] = R[p]
    <3>1. \A m \in 1..IndexDays : p < m /\ m <= n - 1 => r[m] = 0
      <4> SUFFICES ASSUME NEW m \in 1..IndexDays, p < m, m <= n - 1 PROVE m \notin Shown(V)
        BY <1>0 DEF Step
      <4>1. m \notin earlier
        <5>1. m \in earlier => m <= p
          BY <2>5
        <5>2. m \in Nat /\ p \in Nat
          BY <1>0, <2>6
        <5> HIDE DEF earlier, p
        <5> QED
          BY <5>1, <5>2
      <4> QED
        BY <1>0, <2>3, <4>1
    <3>2. p \in 0..IndexDays /\ n - 1 \in 0..IndexDays /\ p <= n - 1
      BY <1>0, <2>3, <2>6
    <3> HIDE DEF r, p
    <3> QED
      BY <1>0, <1>3, <3>1, <3>2, RunningFlat
  <2>10. R[n] = R[p] - (V[n].dec - V[p].dec)
    <3>1. R[n] = R[n - 1] + Step(V, n)
      BY <1>0, <1>4, <2>3
    <3>2. R[p] \in Int /\ V[n].dec \in Int /\ V[p].dec \in Int
      BY <1>1, <1>4, <2>2, <2>6
    <3> HIDE DEF R, p
    <3> QED
      BY <2>8, <2>9, <3>1, <3>2
  <2>11. on(n) = on(p)
    <3>1. R[p] \in Int /\ V[n].dec \in Int /\ V[p].dec \in Int
      BY <1>1, <1>4, <2>2, <2>6
    <3> HIDE DEF R, p
    <3> QED
      BY <2>10, <3>1
  <2> QED
    BY <2>2, <2>7, <2>11
<1>8. on(d) = on(f) /\ on(e) = on(f)
  BY <1>7
<1>9. R[d] \in Int
  BY <1>1, <1>4
<1> QED
  BY <1>5, <1>8, <1>9

\* Some scale is Reference's choice: of finitely many, ordered by the rows
\* they cover, their distance from zero and their value, one comes first.
LEMMA ReferenceIs ==
  ASSUME NEW V \in [IndexDay -> Value \cup {NoValue}], NEW f \in [Shown(V) -> Int],
         Shown(V) # {}
  PROVE  Reference(V, {<<d, f[d]>> : d \in Shown(V)}) \in {f[d] : d \in Shown(V)}
<1> DEFINE rel == {<<d, f[d]>> : d \in Shown(V)}
           scales == {p[2] : p \in rel}
           size(k) == Cardinality({p \in rel : p[2] = k})
           abs(k) == IF k < 0 THEN -k ELSE k
           Q(k, j) == \/ size(k) > size(j)
                      \/ size(k) = size(j) /\ abs(k) < abs(j)
                      \/ size(k) = size(j) /\ abs(k) = abs(j) /\ k > j
           first == {p \in scales \X scales : Q(p[1], p[2])}
<1>1. IsFiniteSet(Shown(V))
  <2>1. 1 \in Int /\ IndexDays \in Int /\ Shown(V) \subseteq 1..IndexDays
    BY IndexAssumption DEF Shown, IndexDay
  <2>2. IsFiniteSet(1..IndexDays)
    BY <2>1, FS_Interval
  <2> QED
    BY <2>1, <2>2, FS_Subset
<1>2. IsFiniteSet(rel)
  <2> DEFINE g == [d \in Shown(V) |-> <<d, f[d]>>]
  <2>1. g \in Surjection(Shown(V), rel)
    BY DEF Surjection
  <2> QED
    BY <1>1, <2>1, FS_Surjection
<1>3. scales = {f[d] : d \in Shown(V)} /\ scales \in SUBSET Int /\ scales # {}
  <2>1. \A d \in Shown(V) : <<d, f[d]>> \in rel /\ <<d, f[d]>>[2] = f[d] /\ f[d] \in Int
    OBVIOUS
  <2>2. \A p \in rel : \E d \in Shown(V) : p[2] = f[d]
    OBVIOUS
  <2> HIDE DEF rel
  <2>3. \A k : k \in scales <=> k \in {f[d] : d \in Shown(V)}
    <3>1. ASSUME NEW k, k \in scales PROVE k \in {f[d] : d \in Shown(V)}
      <4>1. PICK p \in rel : k = p[2]
        BY <3>1
      <4> QED
        BY <2>2, <4>1
    <3>2. ASSUME NEW d \in Shown(V) PROVE f[d] \in scales
      <4>1. <<d, f[d]>> \in rel /\ f[d] = <<d, f[d]>>[2]
        BY <2>1
      <4> QED
        BY <4>1
    <3> QED
      BY <3>1, <3>2
  <2>4. scales = {f[d] : d \in Shown(V)}
    <3> HIDE DEF scales
    <3> QED
      BY <2>3
  <2> QED
    BY <2>1, <2>4
<1>4. IsFiniteSet(scales)
  <2>1. f \in Surjection(Shown(V), scales)
    <3> HIDE DEF scales
    <3>1. f \in [Shown(V) -> scales] /\ \A k \in scales : \E d \in Shown(V) : f[d] = k
      BY <1>3
    <3> QED
      BY <3>1 DEF Surjection
  <2> HIDE DEF scales
  <2> QED
    BY <1>1, <2>1, FS_Surjection
<1>5. \A k \in scales : size(k) \in Nat
  <2> SUFFICES ASSUME NEW k \in scales PROVE size(k) \in Nat
    OBVIOUS
  <2>1. IsFiniteSet({p \in rel : p[2] = k})
    BY <1>2, FS_Subset
  <2> QED
    BY <2>1, FS_CardinalityType
<1> HIDE DEF scales, size, rel
<1>6. StrictOrder(scales, first)
  <2>1. \A k, j \in scales : <<k, j>> \in first <=> Q(k, j)
    OBVIOUS
  <2>2. \A k \in scales : size(k) \in Nat /\ k \in Int
    BY <1>3, <1>5
  <2> HIDE DEF first
  <2>3. \A x \in scales : ~Q(x, x)
    BY <2>2
  <2>4. \A x, y, z \in scales : Q(x, y) /\ Q(y, z) => Q(x, z)
    BY <2>2
  <2>5. \A x, y \in scales : x = y \/ Q(x, y) \/ Q(y, x)
    BY <2>2
  <2> HIDE DEF Q
  <2> QED
    BY <2>1, <2>3, <2>4, <2>5 DEF StrictOrder
<1>7. PICK k \in scales : \A j \in scales : j = k \/ <<k, j>> \in first
  <2> DEFINE M == scales
  <2>1. M \in SUBSET scales /\ M # {}
    BY <1>3
  <2> HIDE DEF first, Q, M
  <2>2. \E k \in M : \A j \in M : j = k \/ <<k, j>> \in first
    BY <1>4, <1>6, <2>1, Lowest
  <2> QED
    BY <2>2 DEF M
<1>8. \A j \in scales \ {k} : Q(k, j)
  BY <1>7
<1>9. Reference(V, rel) = CHOOSE i \in scales : \A j \in scales \ {i} : Q(i, j)
  BY DEF Reference, scales, size, rel
<1>10. (CHOOSE i \in scales : \A j \in scales \ {i} : Q(i, j)) \in scales
  <2> HIDE DEF Q
  <2> QED
    BY <1>8
<1>11. Reference(V, rel) \in {f[d] : d \in Shown(V)}
  <2> HIDE DEF Q
  <2> QED
    BY <1>3, <1>9, <1>10
<1> QED
  BY <1>11 DEF rel

\* A verdict of 'validated' against the live figure puts the newest value on
\* the exchange's decade, and with it every other.
LEMMA ValidatedCorrects ==
  ASSUME Adjoining, NEW V \in [IndexDay -> Value \cup {NoValue}], Shown(V) # {},
         IndexVerdict(V, Exponents(V), TRUE) = "validated"
  PROVE  /\ \A d \in Shown(V) : \E p \in Exponents(V) : p[1] = d
         /\ \A p \in Exponents(V) : p[1] \in Shown(V) /\ V[p[1]].dec + p[2] = 0
<1> DEFINE f == [d \in Shown(V) |-> Relative(V)[d]]
           rel == {<<d, f[d]>> : d \in Shown(V)}
           ref == Reference(V, rel)
           newest == Max(Shown(V))
<1>0. /\ \A d \in Shown(V) : V[d].dec \in Int
      /\ IndexDays \in Nat /\ Shown(V) \in SUBSET (0..IndexDays)
  <2>1. Shown(V) \in SUBSET IndexDay /\ \A n \in Shown(V) : V[n] \in Value
    BY DEF Shown
  <2> QED
    BY <2>1, IndexAssumption DEF Value, IndexDay
<1>1. f \in [Shown(V) -> Int]
  BY RelativeLevels
<1>2. ref \in Int
  <2> HIDE DEF f
  <2>1. ref \in {f[d] : d \in Shown(V)}
    BY <1>1, ReferenceIs
  <2> QED
    BY <1>1, <2>1
<1>3. rel = {<<d, Relative(V)[d]>> : d \in Shown(V)}
  OBVIOUS
<1>4. Exponents(V) = {<<d, f[d] - ref>> : d \in Shown(V)}
  <2>1. Exponents(V) = {<<p[1], p[2] - ref>> : p \in rel}
    BY <1>3, Zenon DEF Exponents
  <2> HIDE DEF f, ref
  <2>2. \A d \in Shown(V) : <<d, f[d]>> \in rel
    OBVIOUS
  <2>3. \A p \in rel : \E d \in Shown(V) : p[1] = d /\ p[2] = f[d]
    OBVIOUS
  <2> HIDE DEF rel
  <2>4. ASSUME NEW d \in Shown(V) PROVE <<d, f[d] - ref>> \in Exponents(V)
    <3>1. <<d, f[d]>>[1] = d /\ <<d, f[d]>>[2] = f[d]
      OBVIOUS
    <3> QED
      BY <2>1, <2>2, <3>1
  <2>5. ASSUME NEW e \in Exponents(V) PROVE e \in {<<d, f[d] - ref>> : d \in Shown(V)}
    <3>1. PICK p \in rel : e = <<p[1], p[2] - ref>>
      BY <2>1
    <3> QED
      BY <2>3, <3>1
  <2> QED
    BY <2>4, <2>5
<1>5. newest \in Shown(V)
  BY <1>0, MaxIs
<1>6. <<newest, -V[newest].dec>> \in Exponents(V)
  BY Zenon DEF IndexVerdict
<1> HIDE DEF f, rel, ref, newest
<1>7. f[newest] - ref = -V[newest].dec
  <2>1. PICK d \in Shown(V) : <<newest, -V[newest].dec>> = <<d, f[d] - ref>>
    BY <1>4, <1>6
  <2> QED
    BY <2>1
<1>8. ASSUME NEW d \in Shown(V) PROVE V[d].dec + (f[d] - ref) = 0
  <2>1. V[d].dec + f[d] = V[newest].dec + f[newest]
    BY <1>5, RelativeLevels DEF f
  <2>2. f[d] \in Int /\ f[newest] \in Int /\ V[d].dec \in Int /\ V[newest].dec \in Int
    BY <1>0, <1>1, <1>5
  <2> QED
    BY <1>2, <1>7, <2>1, <2>2
<1>9. ASSUME NEW d \in Shown(V) PROVE \E p \in Exponents(V) : p[1] = d
  <2>1. <<d, f[d] - ref>> \in Exponents(V)
    BY <1>4
  <2> QED
    BY <2>1
<1>10. ASSUME NEW p \in Exponents(V) PROVE p[1] \in Shown(V) /\ V[p[1]].dec + p[2] = 0
  <2>1. PICK d \in Shown(V) : p = <<d, f[d] - ref>>
    BY <1>4
  <2>2. p[1] = d /\ p[2] = f[d] - ref
    BY <2>1
  <2> QED
    BY <1>8, <2>2
<1> QED
  BY <1>9, <1>10

\* What is printed, stored and posted are values; a post that is alone has
\* read the rows and corrections as they are.
ScaleInv ==
  /\ prints \in [{1, 2} -> [IndexDay -> Value \cup {NoValue}]]
  /\ values \in [IndexDay -> Value \cup {NoValue}] /\ DOMAIN exps = IndexDay
  /\ hpc \in [Handler -> {"idle", "read"}]
  /\ DOMAIN paper = Handler /\ DOMAIN view = Handler
  /\ \A h \in Handler : hpc[h] = "read" =>
       /\ paper[h].values \in [IndexDay -> Value \cup {NoValue}]
       /\ Shown(paper[h].values) # {} /\ paper[h].live \in BOOLEAN
  /\ crossing \/ \A h \in Handler : hpc[h] = "read" =>
       /\ view[h] = [values |-> values, exps |-> exps]
       /\ \A g \in Handler \ {h} : hpc[g] = "idle"
  /\ check.live \in BOOLEAN
  /\ ValidatedIsOnScale

\* The correction that a commit stores is the one its verdict is about.
LEMMA CommitKeepsScale ==
  ASSUME Adjoining, ScaleInv, NEW h \in Handler, CommitIndex(h)
  PROVE  ScaleInv'
<1> DEFINE seen == paper[h].values
           new == {d \in NewDays(h) : values[d] = NoValue}
           merged == [d \in IndexDay |-> IF d \in NewDays(h) THEN seen[d] ELSE view[h].values[d]]
           E == Exponents(merged)
           written == {p \in E : p[1] \in new} \cup Rescaled(h, E)
<1>1. /\ hpc[h] = "read" /\ UNCHANGED <<prints, crossing>>
      /\ values' = [d \in IndexDay |-> IF d \in new THEN merged[d] ELSE values[d]]
      /\ exps' = [d \in IndexDay |-> IF \E p \in written : p[1] = d
                                     THEN (CHOOSE p \in written : p[1] = d)[2] ELSE exps[d]]
      /\ check' = [status |-> IndexVerdict(merged, E, paper[h].live), live |-> paper[h].live]
      /\ Done(h)
  BY DEF CommitIndex
<1>2. /\ hpc' = [hpc EXCEPT ![h] = "idle"] /\ paper' = [paper EXCEPT ![h] = NoPaper]
      /\ view' = [view EXCEPT ![h] = NoView]
  BY <1>1 DEF Done
<1>3. /\ hpc' \in [Handler -> {"idle", "read"}] /\ hpc'[h] = "idle"
      /\ DOMAIN paper' = Handler /\ DOMAIN view' = Handler
      /\ \A g \in Handler \ {h} : hpc'[g] = hpc[g] /\ paper'[g] = paper[g] /\ view'[g] = view[g]
  BY <1>2 DEF ScaleInv
<1>4. /\ seen \in [IndexDay -> Value \cup {NoValue}] /\ Shown(seen) # {}
      /\ paper[h].live \in BOOLEAN
  BY <1>1 DEF ScaleInv
<1>5. \A d \in new : d \in IndexDay /\ merged[d] = seen[d] /\ seen[d] # NoValue
  BY <1>4 DEF NewDays, Shown
<1>6. values' \in [IndexDay -> Value \cup {NoValue}] /\ DOMAIN exps' = IndexDay
  BY <1>1, <1>4, <1>5 DEF ScaleInv
<1>7. check'.live \in BOOLEAN /\ check'.live = paper[h].live
      /\ check'.status = IndexVerdict(merged, E, paper[h].live)
  BY <1>1, <1>4
<1>8. \A g \in Handler : hpc'[g] = "read" =>
        /\ paper'[g].values \in [IndexDay -> Value \cup {NoValue}]
        /\ Shown(paper'[g].values) # {} /\ paper'[g].live \in BOOLEAN
  BY <1>3 DEF ScaleInv
<1>9. CASE crossing
  BY <1>1, <1>3, <1>6, <1>7, <1>8, <1>9 DEF ScaleInv, ValidatedIsOnScale
<1>10. CASE ~crossing
  <2>1. /\ view[h] = [values |-> values, exps |-> exps]
        /\ \A g \in Handler \ {h} : hpc[g] = "idle"
    BY <1>1, <1>10 DEF ScaleInv
  <2>2. view[h].values = values /\ view[h].exps = exps
    BY <2>1
  <2>3. new = NewDays(h)
    BY <2>2, <1>4 DEF NewDays, Shown, ScaleInv
  <2>4. values' = merged
    BY <1>1, <2>2, <2>3
  <2>5. Shown(values') # {}
    BY <1>4, <1>5, <2>2, <2>3, <2>4 DEF NewDays, Shown
  <2> HIDE DEF merged, new
  <2>6. ASSUME check'.status = "validated", check'.live, NEW d \in Shown(values')
        PROVE  values'[d].dec + exps'[d] = 0
    <3>1. E = Exponents(values') /\ IndexVerdict(values', Exponents(values'), TRUE) = "validated"
      BY <1>4, <1>7, <2>4, <2>6
    <3>2. /\ \A e \in Shown(values') : \E p \in E : p[1] = e
          /\ \A p \in E : p[1] \in Shown(values') /\ values'[p[1]].dec + p[2] = 0
      BY <1>6, <2>5, <3>1, ValidatedCorrects
    <3> HIDE DEF E
    <3>3. d \in IndexDay
      BY DEF Shown
    <3>4. CASE \E p \in written : p[1] = d
      <4> DEFINE q == CHOOSE p \in written : p[1] = d
      <4>1. q \in written /\ q[1] = d
        BY <3>4
      <4>2. q \in E
        BY <4>1 DEF Rescaled
      <4>3. exps'[d] = q[2]
        BY <1>1, <3>3, <3>4
      <4> HIDE DEF q
      <4> QED
        BY <3>2, <4>1, <4>2, <4>3
    <3>5. CASE ~\E p \in written : p[1] = d
      <4>1. PICK p \in E : p[1] = d
        BY <3>2
      <4>2. exps'[d] = exps[d]
        BY <1>1, <3>3, <3>5
      <4>3. d \notin new /\ p \notin Rescaled(h, E)
        BY <3>5, <4>1
      <4>4. d \in Shown(view[h].values)
        BY <2>2, <2>3, <2>4, <3>3, <4>3 DEF Shown, merged
      <4>5. p[2] = exps[d]
        BY <2>2, <4>1, <4>3, <4>4 DEF Rescaled
      <4> QED
        BY <3>2, <4>1, <4>2, <4>5
    <3> QED
      BY <3>4, <3>5
  <2>7. ValidatedIsOnScale'
    BY <2>6 DEF ValidatedIsOnScale
  <2>8. \A g \in Handler : hpc'[g] # "read"
    BY <1>3, <2>1
  <2> QED
    BY <1>1, <1>3, <1>6, <1>7, <1>8, <2>7, <2>8 DEF ScaleInv
<1> QED
  BY <1>9, <1>10

\* An index whose verdict is 'validated' against the live figure has every
\* stored value, once corrected, on the exchange's own decade, whichever copy
\* each row came from, for any number of sessions and of posts that do not
\* overlap, as long as the copies print on two adjoining decades
\* (scale_exponents, and the rescaling of stored rows).
THEOREM ValidatedIsOnScaleHolds ==
  ASSUME Adjoining
  PROVE  IndexSpec => []ValidatedIsOnScale
<1>1. IndexInit => ScaleInv
  <2> SUFFICES ASSUME IndexInit PROVE ScaleInv
    OBVIOUS
  <2>1. /\ prints \in [{1, 2} -> [IndexDay -> Value \cup {NoValue}]]
        /\ values = NoValues /\ exps = [d \in IndexDay |-> 0]
        /\ check = [status |-> "none", live |-> FALSE] /\ hpc = [g \in Handler |-> "idle"]
        /\ DOMAIN paper = Handler /\ DOMAIN view = Handler
    BY DEF IndexInit
  <2>2. check.live = FALSE
    BY <2>1
  <2> QED
    BY <2>1, <2>2 DEF ScaleInv, ValidatedIsOnScale, NoValues
<1>2. ScaleInv /\ [IndexNext]_indexVars => ScaleInv'
  <2> SUFFICES ASSUME ScaleInv, [IndexNext]_indexVars PROVE ScaleInv'
    OBVIOUS
  <2>1. CASE NextPrint \/ UNCHANGED indexVars
    <3>1. UNCHANGED <<prints, values, exps, check, crossing, hpc, paper, view>>
      BY <2>1 DEF NextPrint, indexVars
    <3> QED
      BY <3>1 DEF ScaleInv, ValidatedIsOnScale
  <2>2. ASSUME NEW h \in Handler, RefuseIndex(h) PROVE ScaleInv'
    <3>1. /\ hpc' = [hpc EXCEPT ![h] = "idle"] /\ paper' = [paper EXCEPT ![h] = NoPaper]
          /\ view' = [view EXCEPT ![h] = NoView]
          /\ UNCHANGED <<prints, values, exps, check, crossing>>
      BY <2>2 DEF RefuseIndex, Done
    <3>2. /\ hpc' \in [Handler -> {"idle", "read"}] /\ hpc'[h] = "idle"
          /\ DOMAIN paper' = Handler /\ DOMAIN view' = Handler
          /\ \A g \in Handler \ {h} : hpc'[g] = hpc[g] /\ paper'[g] = paper[g] /\ view'[g] = view[g]
      BY <3>1 DEF ScaleInv
    <3>3. ValidatedIsOnScale'
      BY <3>1 DEF ScaleInv, ValidatedIsOnScale
    <3> QED
      BY <3>1, <3>2, <3>3 DEF ScaleInv
  <2>3. ASSUME NEW h \in Handler, ReadIndex(h) PROVE ScaleInv'
    <3>1. /\ hpc[h] = "idle" /\ hpc' = [hpc EXCEPT ![h] = "read"]
          /\ view' = [view EXCEPT ![h] = [values |-> values, exps |-> exps]]
          /\ crossing' = (crossing \/ \E g \in Handler : hpc[g] = "read")
          /\ UNCHANGED <<prints, values, exps, check>>
      BY <2>3 DEF ReadIndex
    <3>2. PICK c \in {1, 2}, live \in BOOLEAN :
            /\ Shown(Served(c)) # {}
            /\ paper' = [paper EXCEPT ![h] = [copy |-> c, values |-> Served(c), live |-> live]]
      BY <2>3 DEF ReadIndex
    <3>3. /\ hpc' \in [Handler -> {"idle", "read"}] /\ DOMAIN paper' = Handler /\ DOMAIN view' = Handler
          /\ paper'[h].values = Served(c) /\ paper'[h].live = live
          /\ view'[h] = [values |-> values, exps |-> exps]
          /\ \A g \in Handler \ {h} : hpc'[g] = hpc[g] /\ paper'[g] = paper[g] /\ view'[g] = view[g]
      BY <3>1, <3>2 DEF ScaleInv
    <3>4. Served(c) \in [IndexDay -> Value \cup {NoValue}]
      BY DEF Served, ScaleInv
    <3>5. \A g \in Handler : hpc'[g] = "read" =>
            /\ paper'[g].values \in [IndexDay -> Value \cup {NoValue}]
            /\ Shown(paper'[g].values) # {} /\ paper'[g].live \in BOOLEAN
      BY <3>2, <3>3, <3>4 DEF ScaleInv
    <3>6. ASSUME ~crossing', NEW g \in Handler, hpc'[g] = "read"
          PROVE  /\ view'[g] = [values |-> values', exps |-> exps']
                 /\ \A k \in Handler \ {g} : hpc'[k] = "idle"
      <4>1. \A k \in Handler \ {h} : hpc'[k] = "idle"
        BY <3>1, <3>3, <3>6 DEF ScaleInv
      <4>2. g = h
        BY <3>6, <4>1
      <4> QED
        BY <3>1, <3>3, <4>1, <4>2
    <3>7. ValidatedIsOnScale'
      BY <3>1 DEF ScaleInv, ValidatedIsOnScale
    <3> QED
      BY <3>1, <3>3, <3>5, <3>6, <3>7 DEF ScaleInv
  <2> QED
    BY <2>1, <2>2, <2>3, CommitKeepsScale DEF IndexNext
<1>3. ScaleInv => ValidatedIsOnScale
  BY DEF ScaleInv
<1> QED
  BY <1>1, <1>2, <1>3, PTL DEF IndexSpec

-----------------------------------------------------------------------------
(* The equity bars                                                          *)

\* What a session implies is a number; only an adjacent pair implies anything.
LEMMA ImpliedIs ==
  ASSUME NEW B \in [Session -> Bar \cup {Missing}], NEW A
  PROVE  /\ \A d \in Session : Implied(B, A, d) \in Int
         /\ \A d \in HeldIn(B) : d \in Session /\ B[d] \in Bar
         /\ \A p \in Pairs(B) :
              /\ p[1] \in HeldIn(B) /\ p[2] \in HeldIn(B) /\ p[1] < p[2]
              /\ \A e \in HeldIn(B) : ~(p[1] < e /\ e < p[2])
              /\ Implied(B, A, p[2]) = Ratio(B, A, p[1], p[2])
         /\ \A d \in Session : Implied(B, A, d) # 0 =>
              \E p \in Pairs(B) : p[2] = d
<1>0. Sessions \in Nat /\ Session = 1..Sessions
  BY EquityAssumption DEF Session
<1>1. \A d \in HeldIn(B) : d \in Session /\ B[d] \in Bar
  BY DEF HeldIn
<1>2. HeldIn(B) \in SUBSET (0..Sessions) /\ HeldIn(B) \in SUBSET Nat
  BY <1>0, <1>1
<1>3. ASSUME NEW d \in HeldIn(B), {e \in HeldIn(B) : e < d} # {}
      PROVE  /\ Before(HeldIn(B), d) \in HeldIn(B) /\ Before(HeldIn(B), d) < d
             /\ \A e \in HeldIn(B) : e < d => e <= Before(HeldIn(B), d)
  <2> DEFINE earlier == {e \in HeldIn(B) : e < d}
  <2>1. earlier \in SUBSET (0..Sessions)
    BY <1>2
  <2>2. Max(earlier) \in earlier /\ \A m \in earlier : m <= Max(earlier)
    BY <1>0, <1>3, <2>1, MaxIs
  <2>3. Before(HeldIn(B), d) = Max(earlier)
    BY DEF Before
  <2> QED
    BY <2>2, <2>3
<1>4. \A d, e \in HeldIn(B) : Ratio(B, A, d, e) \in Int
  <2> SUFFICES ASSUME NEW d \in HeldIn(B), NEW e \in HeldIn(B) PROVE Ratio(B, A, d, e) \in Int
    OBVIOUS
  <2>1. B[d].close \in Int /\ B[e].close \in Int /\ B[e].ref \in Int
    BY <1>1, EquityAssumption DEF Bar
  <2> QED
    BY <2>1 DEF Ratio
<1>5. \A d \in Session : Implied(B, A, d) \in Int
  BY <1>3, <1>4 DEF Implied
<1>6. ASSUME NEW p \in Pairs(B)
      PROVE  /\ p[1] \in HeldIn(B) /\ p[2] \in HeldIn(B) /\ p[1] < p[2]
             /\ \A e \in HeldIn(B) : ~(p[1] < e /\ e < p[2])
             /\ Implied(B, A, p[2]) = Ratio(B, A, p[1], p[2])
  <2>1. p[1] \in HeldIn(B) /\ p[2] \in HeldIn(B) /\ p[1] < p[2] /\ p[1] = Before(HeldIn(B), p[2])
    BY DEF Pairs
  <2>2. {e \in HeldIn(B) : e < p[2]} # {}
    BY <2>1
  <2>3. \A e \in HeldIn(B) : e < p[2] => e <= p[1]
    BY <1>3, <2>1, <2>2
  <2>4. \A e \in HeldIn(B) : e \in Nat
    BY <1>2
  <2>5. \A e \in HeldIn(B) : ~(p[1] < e /\ e < p[2])
    BY <2>1, <2>3, <2>4
  <2>6. Implied(B, A, p[2]) = Ratio(B, A, p[1], p[2])
    BY <2>1, <2>2 DEF Implied
  <2> QED
    BY <2>1, <2>5, <2>6
<1>7. ASSUME NEW d \in Session, Implied(B, A, d) # 0
      PROVE  \E p \in Pairs(B) : p[2] = d
  <2>1. d \in HeldIn(B) /\ {e \in HeldIn(B) : e < d} # {}
    BY <1>7 DEF Implied
  <2> DEFINE p == <<Before(HeldIn(B), d), d>>
  <2>2. p \in HeldIn(B) \X HeldIn(B) /\ p[1] < p[2] /\ p[1] = Before(HeldIn(B), p[2])
    BY <1>3, <2>1
  <2> QED
    BY <2>2 DEF Pairs
<1> QED
  BY <1>1, <1>5, <1>6, <1>7

\* The chained sums from the newest session back.
LEMMA ChainedIs ==
  ASSUME NEW B \in [Session -> Bar \cup {Missing}], NEW A
  PROVE  /\ Chained(B, A) \in [0..Sessions -> Int] /\ Chained(B, A)[0] = 0
         /\ \A d \in Session : Chained(B, A)[Sessions + 1 - d]
                                 = Chained(B, A)[Sessions - d] + Implied(B, A, d)
<1> DEFINE r == [n \in Session |-> Implied(B, A, Sessions + 1 - n)]
<1>0. Sessions \in Nat /\ Session = 1..Sessions
  BY EquityAssumption DEF Session
<1>1. \A n \in Session : Sessions + 1 - n \in Session
  BY <1>0
<1>2. r \in [1..Sessions -> Int]
  BY <1>0, <1>1, ImpliedIs
<1>3. Chained(B, A) = Running(Sessions, r)
  BY DEF Chained
<1>4. \A n \in 1..Sessions : r[n] = Implied(B, A, Sessions + 1 - n)
  BY <1>0
<1> HIDE DEF r
<1>5. /\ Chained(B, A) \in [0..Sessions -> Int] /\ Chained(B, A)[0] = 0
      /\ \A n \in 1..Sessions : Chained(B, A)[n] = Chained(B, A)[n - 1] + r[n]
  BY <1>0, <1>2, <1>3, RunningIs
<1>6. ASSUME NEW d \in Session
      PROVE  Chained(B, A)[Sessions + 1 - d] = Chained(B, A)[Sessions - d] + Implied(B, A, d)
  <2>1. /\ Sessions + 1 - d \in 1..Sessions /\ (Sessions + 1 - d) - 1 = Sessions - d
        /\ Sessions + 1 - (Sessions + 1 - d) = d
    BY <1>0
  <2> QED
    BY <1>4, <1>5, <2>1
<1> QED
  BY <1>5, <1>6

\* They stand still over sessions that imply nothing.
LEMMA ChainedFlat ==
  ASSUME NEW B \in [Session -> Bar \cup {Missing}], NEW A,
         NEW d \in 0..Sessions, NEW e \in 0..Sessions, d <= e,
         \A s \in Session : d < s /\ s <= e => Implied(B, A, s) = 0
  PROVE  Chained(B, A)[Sessions - d] = Chained(B, A)[Sessions - e]
<1> DEFINE r == [n \in Session |-> Implied(B, A, Sessions + 1 - n)]
<1>0. Sessions \in Nat /\ Session = 1..Sessions
  BY EquityAssumption DEF Session
<1>1. \A n \in Session : Sessions + 1 - n \in Session
  BY <1>0
<1>2. r \in [1..Sessions -> Int]
  BY <1>0, <1>1, ImpliedIs
<1>3. Chained(B, A) = Running(Sessions, r)
  BY DEF Chained
<1>4. \A n \in 1..Sessions : r[n] = Implied(B, A, Sessions + 1 - n)
  BY <1>0
<1> HIDE DEF r
<1>5. /\ Sessions - d \in 0..Sessions /\ Sessions - e \in 0..Sessions
      /\ Sessions - e <= Sessions - d
  BY <1>0
<1>6. ASSUME NEW n \in 1..Sessions, Sessions - e < n, n <= Sessions - d PROVE r[n] = 0
  <2>1. Sessions + 1 - n \in Session /\ d < Sessions + 1 - n /\ Sessions + 1 - n <= e
    BY <1>0, <1>6
  <2> QED
    BY <1>4, <2>1
<1>7. ASSUME NEW a \in 0..Sessions, NEW b \in 0..Sessions, a <= b,
             \A n \in 1..Sessions : a < n /\ n <= b => r[n] = 0
      PROVE  Running(Sessions, r)[b] = Running(Sessions, r)[a]
  BY <1>0, <1>2, <1>7, RunningFlat
<1>8. Running(Sessions, r)[Sessions - d] = Running(Sessions, r)[Sessions - e]
  <2> DEFINE a == Sessions - e
             b == Sessions - d
  <2>1. a \in 0..Sessions /\ b \in 0..Sessions /\ a <= b
    BY <1>5
  <2>2. \A n \in 1..Sessions : a < n /\ n <= b => r[n] = 0
    BY <1>6
  <2> HIDE DEF a, b
  <2>3. Running(Sessions, r)[b] = Running(Sessions, r)[a]
    BY <1>7, <2>1, <2>2
  <2> QED
    BY <2>3 DEF a, b
<1> QED
  BY <1>3, <1>8

\* The factor of a session is the sum of what every later one implies.
LEMMA FactorIs ==
  ASSUME NEW B \in [Session -> Bar \cup {Missing}], NEW A, NEW d \in Session
  PROVE  Factor(Detect(B, A), d) = Chained(B, A)[Sessions - d]
<1> DEFINE K == Detect(B, A)
           C == Chained(B, A)
           after == {a \in K : a.day > d}
<1>0. Sessions \in Nat /\ Session = 1..Sessions /\ d \in 0..Sessions /\ d \in Nat
  BY EquityAssumption DEF Session
<1> DEFINE found == {q \in Pairs(B) : Implied(B, A, q[2]) # 0}
           action(p) == [day |-> p[2], prev |-> p[1], ratio |-> Implied(B, A, p[2]),
                         factor |-> C[Sessions + 1 - p[2]]]
<1>9. K = {action(p) : p \in found}
  BY DEF Detect
<1> HIDE DEF K, C
<1>1. \A a \in K : a.day \in Session /\ a.factor = C[Sessions + 1 - a.day]
  <2> SUFFICES ASSUME NEW a \in K PROVE a.day \in Session /\ a.factor = C[Sessions + 1 - a.day]
    OBVIOUS
  <2>1. PICK p \in Pairs(B) : a = action(p)
    BY <1>9
  <2>2. p[2] \in Session
    BY ImpliedIs
  <2> QED
    BY <2>1, <2>2
<1>2. \A s \in Session : Implied(B, A, s) # 0 => \E a \in K : a.day = s
  <2> SUFFICES ASSUME NEW s \in Session, Implied(B, A, s) # 0 PROVE \E a \in K : a.day = s
    OBVIOUS
  <2>1. PICK p \in Pairs(B) : p[2] = s
    BY ImpliedIs
  <2>2. action(p) \in K /\ action(p).day = p[2]
    BY <1>9, <2>1
  <2> QED
    BY <2>1, <2>2
<1> HIDE DEF found, action
<1>3. Factor(K, d) = IF after = {} THEN 0
                     ELSE (CHOOSE a \in after : \A b \in after : a.day <= b.day).factor
  BY DEF Factor
<1>4. CASE after = {}
  <2>1. \A s \in Session : d < s /\ s <= Sessions => Implied(B, A, s) = 0
    BY <1>0, <1>2, <1>4
  <2>2. Sessions \in 0..Sessions /\ d <= Sessions /\ Sessions - Sessions = 0
    BY <1>0
  <2>3. C[Sessions - d] = C[Sessions - Sessions]
    BY <1>0, <2>1, <2>2, ChainedFlat DEF C
  <2>4. C[0] = 0
    BY ChainedIs DEF C
  <2> QED
    BY <1>3, <1>4, <2>2, <2>3, <2>4 DEF K, C
<1>5. CASE after # {}
  <2> DEFINE days == {a.day : a \in after}
  <2>0. \A a \in after : a.day \in Nat
    BY <1>0, <1>1
  <2>1. days \in SUBSET Nat /\ days # {}
    <3> HIDE DEF after
    <3> QED
      BY <1>5, <2>0
  <2>2. PICK n \in days : \A m \in days : n <= m
    BY <2>1, Least
  <2>3. PICK c \in after : c.day = n
    OBVIOUS
  <2>4. \A b \in after : c.day <= b.day
    BY <2>2, <2>3
  <2> DEFINE a == CHOOSE x \in after : \A b \in after : x.day <= b.day
  <2> HIDE DEF after
  <2>5. a \in after /\ \A b \in after : a.day <= b.day
    BY <2>4
  <2> HIDE DEF a
  <2>6. a \in K /\ a.day > d /\ a.day \in Session /\ a.factor = C[Sessions + 1 - a.day]
    BY <1>1, <2>5 DEF after
  <2>7. ASSUME NEW s \in Session, d < s, s <= a.day - 1 PROVE Implied(B, A, s) = 0
    <3> SUFFICES ASSUME Implied(B, A, s) # 0 PROVE FALSE
      OBVIOUS
    <3>1. PICK b \in K : b.day = s
      BY <1>2
    <3>2. b \in after
      BY <1>0, <2>7, <3>1 DEF after
    <3>3. a.day <= s /\ s \in Nat /\ a.day \in Nat
      BY <1>0, <2>5, <2>6, <3>1, <3>2
    <3> QED
      BY <2>7, <3>3
  <2>8. /\ a.day - 1 \in 0..Sessions /\ d <= a.day - 1
        /\ Sessions - (a.day - 1) = Sessions + 1 - a.day
    BY <1>0, <2>6
  <2>9. C[Sessions - d] = C[Sessions - (a.day - 1)]
    <3> DEFINE e == a.day - 1
    <3>1. e \in 0..Sessions /\ d <= e
      BY <2>8
    <3>2. \A s \in Session : d < s /\ s <= e => Implied(B, A, s) = 0
      BY <2>7
    <3> HIDE DEF e
    <3>3. C[Sessions - d] = C[Sessions - e]
      BY <1>0, <3>1, <3>2, ChainedFlat DEF C
    <3> QED
      BY <3>3 DEF e
  <2>10. Factor(K, d) = a.factor
    BY <1>3, <1>5 DEF a
  <2> QED
    BY <2>6, <2>8, <2>9, <2>10 DEF K, C
<1> QED
  BY <1>4, <1>5

\* Bars chained by the factors K derived from them and the alternatives A.
ChainsAt(B, A, K, d, e) ==
  LET meets == IF B[e].ref = B[d].close /\ ~Traded(e) THEN B[e].close ELSE B[e].ref
  IN \/ B[e].ref # B[d].close /\ ChainedByACopy(B, A, d, e)
     \/ B[d].close + Factor(K, d) = meets + Factor(K, e)

\* The factors derived from any bars chain them.
LEMMA DetectChains ==
  ASSUME NEW B \in [Session -> Bar \cup {Missing}], NEW A, NEW p \in Pairs(B)
  PROVE  ChainsAt(B, A, Detect(B, A), p[1], p[2])
<1> DEFINE C == Chained(B, A)
           d == p[1]
           e == p[2]
<1>0. Sessions \in Nat /\ Session = 1..Sessions
  BY EquityAssumption DEF Session
<1>1. /\ d \in HeldIn(B) /\ e \in HeldIn(B) /\ d < e
      /\ \A s \in HeldIn(B) : ~(d < s /\ s < e)
      /\ Implied(B, A, e) = Ratio(B, A, d, e)
  BY ImpliedIs
<1>2. d \in Session /\ e \in Session /\ B[d] \in Bar /\ B[e] \in Bar
  BY <1>1, ImpliedIs
<1> HIDE DEF d, e
<1>3. B[d].close \in Int /\ B[e].close \in Int /\ B[e].ref \in Int
  BY <1>2, EquityAssumption DEF Bar
<1>4. ASSUME NEW s \in Session, d < s, s <= e - 1 PROVE Implied(B, A, s) = 0
  <2>1. s < e
    BY <1>0, <1>2, <1>4
  <2>2. s \notin HeldIn(B)
    BY <1>1, <1>4, <2>1
  <2> QED
    BY <2>2 DEF Implied
<1>5. d \in 0..Sessions /\ e - 1 \in 0..Sessions /\ d <= e - 1 /\ Sessions - (e - 1) = Sessions + 1 - e
  BY <1>0, <1>1, <1>2
<1>6. C[Sessions - d] = C[Sessions + 1 - e]
  <2>1. C[Sessions - d] = C[Sessions - (e - 1)]
    BY <1>4, <1>5, ChainedFlat
  <2> QED
    BY <1>5, <2>1
<1>7. C[Sessions + 1 - e] = C[Sessions - e] + Ratio(B, A, d, e)
  BY <1>1, <1>2, ChainedIs
<1>8. C[Sessions - e] \in Int
  <2>1. Sessions - e \in 0..Sessions
    BY <1>0, <1>2
  <2> QED
    BY <2>1, ChainedIs
<1>9. Factor(Detect(B, A), d) = C[Sessions - d] /\ Factor(Detect(B, A), e) = C[Sessions - e]
  BY <1>2, FactorIs
<1> HIDE DEF C
<1>10. Factor(Detect(B, A), d) = Factor(Detect(B, A), e) + Ratio(B, A, d, e)
       /\ Factor(Detect(B, A), e) \in Int
  BY <1>6, <1>7, <1>8, <1>9
<1>11. CASE B[e].ref # B[d].close /\ ~ChainedByACopy(B, A, d, e)
  <2>1. Ratio(B, A, d, e) = B[e].ref - B[d].close
    BY <1>11 DEF Ratio
  <2> QED
    BY <1>3, <1>10, <1>11, <2>1 DEF ChainsAt, d, e
<1>12. CASE B[e].ref = B[d].close
  <2>1. Ratio(B, A, d, e) = IF Traded(e) THEN 0 ELSE B[e].close - B[e].ref
    BY <1>12 DEF Ratio
  <2> QED
    BY <1>3, <1>10, <1>12, <2>1 DEF ChainsAt, d, e
<1> QED
  BY <1>11, <1>12 DEF ChainsAt, d, e

\* The stored actions are those of the stored bars; an ingest that has derived
\* its actions is alone, saw the stored ones, and derived over what it commits.
EquityInv ==
  /\ copies \in [{1, 2} -> [Session -> Bar \cup {Missing}]]
  /\ bars \in [Session -> Bar \cup {Missing}]
  /\ ipc \in [Ingester -> {"idle", "read", "derived"}]
  /\ pay \in [Ingester -> [Session -> Bar \cup {Missing}]]
  /\ DOMAIN mine = Ingester
  /\ \A i \in Ingester : mine[i].bars \in [Session -> Bar \cup {Missing}]
  /\ blind \/
       /\ actions = Detect(bars, alts)
       /\ \A i \in Ingester : ipc[i] = "derived" =>
            /\ \A j \in Ingester \ {i} : ipc[j] # "derived"
            /\ mine[i].old = actions
            /\ mine[i].actions = Detect(With(bars, mine[i].bars, Session), alts \cup mine[i].alts)

\* Which sessions traded is settled: no step changes what stored bars imply.
LEMMA StoredStands ==
  ASSUME halted' = halted
  PROVE  Detect(bars, alts)' = Detect(bars', alts')
BY DEF Detect, Chained, Implied, Ratio, ChainedByACopy, Traded, Pairs, HeldIn, Before

\* Nor what the bars of an ingest imply.
LEMMA DerivedStands ==
  ASSUME halted' = halted, NEW i \in Ingester
  PROVE  Detect(With(bars, mine[i].bars, Session), alts \cup mine[i].alts)'
           = Detect(With(bars', mine'[i].bars, Session), alts' \cup mine'[i].alts)
BY DEF Detect, Chained, Implied, Ratio, ChainedByACopy, Traded, With, Pairs, HeldIn, Before

\* A step that changes no row, and no ingest's part of one, keeps the invariant.
LEMMA StoreStands ==
  ASSUME EquityInv, halted' = halted, UNCHANGED <<copies, bars, alts, actions, blind, mine>>,
         ipc' \in [Ingester -> {"idle", "read", "derived"}],
         pay' \in [Ingester -> [Session -> Bar \cup {Missing}]],
         \A j \in Ingester : ipc'[j] = "derived" => ipc[j] = "derived"
  PROVE  EquityInv'
<1> USE DEF EquityInv
<1>1. ASSUME ~blind' PROVE actions' = Detect(bars, alts)'
  BY <1>1, StoredStands
<1>2. ASSUME ~blind', NEW i \in Ingester, ipc'[i] = "derived"
      PROVE  /\ \A j \in Ingester \ {i} : ipc'[j] # "derived"
             /\ mine'[i].old = actions'
             /\ mine'[i].actions =
                  Detect(With(bars, mine[i].bars, Session), alts \cup mine[i].alts)'
  BY <1>2, DerivedStands
<1> QED
  BY <1>1, <1>2

\* An ingest derives its actions over the stored bars and its own.
LEMMA DeriveKeepsChain ==
  ASSUME EquityInv, NEW i \in Ingester, DeriveActions(i)
  PROVE  EquityInv'
<1> USE DEF EquityInv
<1> DEFINE B == With(bars, pay[i], Pending(i))
           own == [d \in Session |-> IF bars[d] = Missing THEN B[d] ELSE Missing]
           part == [bars |-> own, alts |-> Alternatives(i),
                    actions |-> Detect(B, alts \cup Alternatives(i)), old |-> actions]
<1>1. /\ ipc[i] = "read" /\ ipc' = [ipc EXCEPT ![i] = "derived"]
      /\ mine' = [mine EXCEPT ![i] = part]
      /\ blind' = (blind \/ \E j \in Ingester \ {i} : ipc[j] = "derived")
      /\ UNCHANGED <<copies, bars, alts, actions, pay>> /\ halted' = halted
  BY DEF DeriveActions, marketVars
<1>2. B \in [Session -> Bar \cup {Missing}] /\ own \in [Session -> Bar \cup {Missing}]
  BY DEF With, Pending
<1>3. With(bars, own, Session) = B
  BY <1>2 DEF With
<1> HIDE DEF B, own
<1>4. /\ DOMAIN mine' = Ingester /\ mine'[i].bars = own /\ mine'[i].old = actions
      /\ mine'[i].alts = Alternatives(i)
      /\ mine'[i].actions = Detect(B, alts \cup Alternatives(i))
      /\ \A j \in Ingester \ {i} : mine'[j] = mine[j] /\ ipc'[j] = ipc[j]
      /\ ipc' \in [Ingester -> {"idle", "read", "derived"}]
  BY <1>1
<1>5. \A j \in Ingester : mine'[j].bars \in [Session -> Bar \cup {Missing}]
  BY <1>2, <1>4
<1>6. ASSUME ~blind'
      PROVE  /\ actions' = Detect(bars, alts)'
             /\ \A j \in Ingester : ipc'[j] = "derived" =>
                  /\ \A k \in Ingester \ {j} : ipc'[k] # "derived"
                  /\ mine'[j].old = actions'
                  /\ mine'[j].actions =
                       Detect(With(bars, mine[j].bars, Session), alts \cup mine[j].alts)'
  <2>1. ~blind /\ \A j \in Ingester \ {i} : ipc'[j] # "derived"
    BY <1>1, <1>4, <1>6
  <2>2. actions' = Detect(bars, alts)'
    BY <1>1, <2>1, StoredStands
  <2>3. Detect(With(bars, mine[i].bars, Session), alts \cup mine[i].alts)'
          = Detect(With(bars', mine'[i].bars, Session), alts' \cup mine'[i].alts)
    BY <1>1, DerivedStands
  <2>4. mine'[i].actions = Detect(With(bars, mine[i].bars, Session), alts \cup mine[i].alts)'
    BY <1>1, <1>3, <1>4, <2>3
  <2> QED
    BY <1>1, <1>4, <2>1, <2>2, <2>4
<1> QED
  BY <1>1, <1>4, <1>5, <1>6

\* What it commits are the actions of the bars it commits.
LEMMA CommitKeepsChain ==
  ASSUME EquityInv, NEW i \in Ingester, CommitBars(i)
  PROVE  EquityInv'
<1> USE DEF EquityInv
<1>1. /\ ipc[i] = "derived" /\ ipc' = [ipc EXCEPT ![i] = "idle"]
      /\ bars' = With(bars, mine[i].bars, Session) /\ alts' = alts \cup mine[i].alts
      /\ actions' = Replaced(i) /\ blind' = blind
      /\ pay' = [pay EXCEPT ![i] = NoBars] /\ DOMAIN mine' = Ingester
      /\ mine'[i].bars = NoBars /\ \A j \in Ingester \ {i} : mine'[j] = mine[j]
      /\ copies' = copies /\ halted' = halted
  BY DEF CommitBars, marketVars
<1>2. NoBars \in [Session -> Bar \cup {Missing}] /\ bars' \in [Session -> Bar \cup {Missing}]
  BY <1>1 DEF NoBars, With
<1>3. /\ pay' \in [Ingester -> [Session -> Bar \cup {Missing}]]
      /\ \A j \in Ingester : mine'[j].bars \in [Session -> Bar \cup {Missing}]
      /\ ipc' \in [Ingester -> {"idle", "read", "derived"}] /\ ipc'[i] = "idle"
      /\ \A j \in Ingester \ {i} : ipc'[j] = ipc[j]
  BY <1>1, <1>2
<1>4. ASSUME ~blind
      PROVE  /\ actions' = Detect(bars, alts)'
             /\ \A j \in Ingester : ipc'[j] # "derived"
  <2>1. /\ mine[i].old = actions /\ \A j \in Ingester \ {i} : ipc[j] # "derived"
        /\ mine[i].actions = Detect(With(bars, mine[i].bars, Session), alts \cup mine[i].alts)
    BY <1>1, <1>4
  <2>2. actions' = mine[i].actions
    BY <1>1, <2>1 DEF Replaced
  <2>3. actions' = Detect(bars', alts')
    BY <1>1, <2>1, <2>2
  <2>4. Detect(bars, alts)' = Detect(bars', alts')
    BY <1>1, StoredStands
  <2> QED
    BY <1>3, <2>1, <2>3, <2>4
<1> QED
  BY <1>1, <1>2, <1>3, <1>4

\* The stored factors chain the stored bars, for any sessions, prices, copies
\* and halts, whichever copy served which bar and in whatever order sessions
\* were filled in, but for ingests that derived over each other's uncommitted
\* rows (detect_actions, chain_factors, _write_actions).
THEOREM FactorsChainBarsHolds == EquitySpec => []FactorsChainBars
<1>1. EquityInit => EquityInv
  <2> SUFFICES ASSUME EquityInit PROVE EquityInv
    OBVIOUS
  <2>1. /\ copies \in [{1, 2} -> [Session -> Bar \cup {Missing}]]
        /\ bars = NoBars /\ alts = {} /\ actions = {} /\ ipc = [i \in Ingester |-> "idle"]
        /\ pay = [i \in Ingester |-> NoBars]
        /\ mine = [i \in Ingester |-> [bars |-> NoBars, alts |-> {}, actions |-> {}, old |-> {}]]
    BY DEF EquityInit
  <2>2. NoBars \in [Session -> Bar \cup {Missing}]
    BY DEF NoBars
  <2>3. HeldIn(NoBars) = {}
    BY DEF HeldIn, NoBars
  <2>4. Detect(NoBars, {}) = {}
    BY <2>3 DEF Detect, Pairs
  <2> QED
    BY <2>1, <2>2, <2>4 DEF EquityInv
<1>2. EquityInv /\ [EquityNext]_equityVars => EquityInv'
  <2> SUFFICES ASSUME EquityInv, [EquityNext]_equityVars PROVE EquityInv'
    OBVIOUS
  <2>0. halted' = halted
    BY DEF EquityNext, NextSession, ReadBars, RefuseBars, DeriveActions, CommitBars,
           equityVars, marketVars
  <2>1. CASE NextSession \/ UNCHANGED equityVars
    <3>1. UNCHANGED <<copies, bars, alts, actions, blind, ipc, pay, mine>>
      BY <2>1 DEF NextSession, equityVars, marketVars
    <3> QED
      BY <2>0, <3>1, StoreStands DEF EquityInv
  <2>2. ASSUME NEW i \in Ingester, ReadBars(i) \/ RefuseBars(i) PROVE EquityInv'
    <3>1. /\ UNCHANGED <<copies, bars, alts, actions, blind, mine>>
          /\ ipc' \in [Ingester -> {"idle", "read", "derived"}]
          /\ \A j \in Ingester : ipc'[j] = "derived" => ipc[j] = "derived"
      BY <2>2 DEF ReadBars, RefuseBars, EquityInv, marketVars
    <3>2. pay' \in [Ingester -> [Session -> Bar \cup {Missing}]]
      BY <2>2 DEF ReadBars, RefuseBars, EquityInv, Payload, NoBars
    <3> QED
      BY <2>0, <3>1, <3>2, StoreStands
  <2> QED
    BY <2>1, <2>2, DeriveKeepsChain, CommitKeepsChain DEF EquityNext
<1>3. EquityInv => FactorsChainBars
  <2> SUFFICES ASSUME EquityInv, ~blind, NEW p \in Pairs(bars)
               PROVE  ChainsAt(bars, alts, actions, p[1], p[2])
    BY DEF FactorsChainBars, ChainsAt
  <2>1. bars \in [Session -> Bar \cup {Missing}] /\ actions = Detect(bars, alts)
    BY DEF EquityInv
  <2> QED
    BY <2>1, DetectChains
<1> QED
  BY <1>1, <1>2, <1>3, PTL DEF EquitySpec

=============================================================================
