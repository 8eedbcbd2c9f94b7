----------------------------- MODULE FundCloses -----------------------------
(***************************************************************************)
(* The settled closes of ONE commodity fund (bourse/funds.py,              *)
(* ingest_fund_closes), unadjusted: a close is stored only where it chains *)
(* to its neighbours as they are STORED.  Lists come from two copies that  *)
(* need not agree, ingests may overlap, and another source of the same     *)
(* symbol ends the era this one writes into.                               *)
(***************************************************************************)
EXTENDS Restatement

CONSTANTS
  FundDays,     \* exchange sessions 1 to FundDays
  FundLists,    \* the pairs of lists the two copies may serve
  FundHandler,  \* handlers of /internal/bourse/funds/ingest
  MaxFundPosts, \* bound on the lists ever posted
  Rounding,     \* ROUNDING_RIALS
  NoClose       \* no row

ASSUME FundAssumption == {FundDays, MaxFundPosts, Rounding} \subseteq Nat

VARIABLES
  lists,      \* what each copy says of each session: close, reference, traded
  today,      \* the sessions before today have settled
  tedpix,     \* the sessions stored of the index, the exchange's calendar
  liveDay,    \* the first day another source observed the fund, 0 for none
  closes,     \* prices: the close and the reference of each session
  coverage,   \* commodity_funds.close_count
  chained,    \* the pairs of sessions completed by a list that carries both,
              \* with its reference, while no other ingest was open
  fundPosts,  \* lists posted
  fpc, post   \* each handler: its step; its list, its rows and its count

fundWorld == <<lists, today, tedpix, liveDay>>
fundVars == <<fundWorld, closes, coverage, chained, fundPosts, fpc, post>>

FundDay == 1..FundDays
Stored(C) == {d \in FundDay : C[d] # NoClose}
NoRows == [d \in FundDay |-> NoClose]
NoPost == [list |-> NoRows, rows |-> NoRows, alone |-> FALSE, count |-> 0]

FundTypeOK ==
  /\ today \in 1..(FundDays + 1) /\ tedpix \subseteq FundDay
  /\ liveDay \in 0..(FundDays + 1)
  /\ Stored(closes) \subseteq 1..(today - 1)
  /\ coverage \in 0..FundDays
  /\ fpc \in [FundHandler -> {"idle", "judged", "written"}]

FundInit ==
  /\ lists \in FundLists
  /\ today = 2 /\ tedpix = {} /\ liveDay = 0
  /\ closes = NoRows /\ coverage = 0 /\ chained = {}
  /\ fundPosts = 0
  /\ fpc = [h \in FundHandler |-> "idle"]
  /\ post = [h \in FundHandler |-> NoPost]

-----------------------------------------------------------------------------
(* Judging a list                                                           *)

RoundingApart(a, b) == a - b <= Rounding /\ b - a <= Rounding

\* The settled, traded sessions before the era of another source.
SettledOf(list) ==
  {d \in Stored(list) : list[d].traded /\ d < today /\ (liveDay = 0 \/ d < liveDay)}

RestatedCloses(list) ==
  {d \in SettledOf(list) \cap Stored(closes) :
     ~RoundingApart(closes[d].close, list[d].close)}

\* Mutant: a new close is judged against the list's own copy of the session
\* it follows.
AsStored_Listed(list, d) == list[d].close

\* The close a session is judged by: the stored one where there is one.
AsStored(list, d) ==
  IF list[d].traded /\ closes[d] # NoClose THEN closes[d].close ELSE list[d].close

\* What a run writes, and the rows nothing traded on since the newest stored.
Judged(list) ==
  (SettledOf(list) \ Stored(closes))
    \cup {d \in Stored(list) :
            ~list[d].traded /\ \A e \in Stored(closes) : d > e}

\* reference_restatements: a pair served consecutively whose reference is not
\* the close it follows, or a row without a trade that moved.
ReferenceRestatements(list) ==
  {d \in Stored(list) :
     \/ /\ {e \in Stored(list) : e < d} # {}
        /\ LET prev == Before(Stored(list), d)
           IN  /\ {prev, d} \cap Judged(list) # {}
               /\ {e \in tedpix : prev < e /\ e < d} = {}
               /\ ~RoundingApart(list[d].ref, AsStored(list, prev))
     \/ /\ d \in Judged(list) /\ ~list[d].traded
        /\ ~RoundingApart(list[d].close, list[d].ref)}

-----------------------------------------------------------------------------
(* The ingest, one transaction at READ COMMITTED                            *)

\* The list is read and judged against what is stored; one that is another
\* series, or that restates a reference where it would write, is refused.
JudgeFund(h) ==
  /\ fpc[h] = "idle" /\ fundPosts < MaxFundPosts
  /\ fundPosts' = fundPosts + 1
  /\ \E c \in {1, 2} :
       LET list == [d \in FundDay |-> IF d <= today THEN lists[c][d] ELSE NoClose]
           new == SettledOf(list) \ Stored(closes)
           refused == \/ OtherSeries(SettledOf(list) \cap Stored(closes), RestatedCloses(list))
                      \/ ReferenceRestatements(list) # {}
       IN  /\ fpc' = [fpc EXCEPT ![h] = IF refused THEN "idle" ELSE "judged"]
           /\ post' = [g \in FundHandler |->
                IF g = h
                THEN IF refused THEN NoPost
                     ELSE [list |-> list, count |-> 0,
                           rows |-> [d \in FundDay |-> IF d \in new THEN list[d] ELSE NoClose],
                           alone |-> \A k \in FundHandler \ {h} : fpc[k] = "idle"]
                ELSE [post[g] EXCEPT !.alone = FALSE]]
  /\ UNCHANGED <<fundWorld, closes, coverage, chained>>

\* INSERT ... ON CONFLICT DO NOTHING: waits for another's uncommitted row of
\* the same session, and gives way to it.  The rows are then counted, the
\* handler's own among them.
InsertCloses(h) ==
  /\ fpc[h] = "judged"
  /\ \A g \in FundHandler \ {h} : fpc[g] = "written" =>
       Stored(post[g].rows) \cap Stored(post[h].rows) = {}
  /\ post' = [post EXCEPT
       ![h].rows = [d \in FundDay |-> IF closes[d] = NoClose THEN @[d] ELSE NoClose],
       ![h].count = Cardinality(Stored(closes) \cup Stored(post[h].rows))]
  /\ fpc' = [fpc EXCEPT ![h] = "written"]
  /\ UNCHANGED <<fundWorld, closes, coverage, chained, fundPosts>>

CommitFund(h) ==
  /\ fpc[h] = "written"
  /\ closes' = [d \in FundDay |->
       IF post[h].rows[d] # NoClose THEN post[h].rows[d] ELSE closes[d]]
  /\ coverage' = post[h].count
  /\ chained' = chained \cup
       {[day |-> d, ref |-> post[h].list[d + 1].ref] :
          d \in {e \in FundDay \ {FundDays} :
                  /\ {e, e + 1} \cap Stored(post[h].rows) # {}
                  /\ {e, e + 1} \subseteq Stored(post[h].list) \cap Stored(closes')
                  /\ post[h].list[e].traded
                  /\ post[h].alone}}
  /\ post' = [post EXCEPT ![h] = NoPost]
  /\ fpc' = [fpc EXCEPT ![h] = "idle"]
  /\ UNCHANGED <<fundWorld, fundPosts>>

\* A list that is no daily list of a fund of the registry, or a failure of the
\* transaction: nothing is written, and the run's other files go on.
FundFails(h) ==
  /\ fpc[h] # "idle"
  /\ fpc' = [fpc EXCEPT ![h] = "idle"]
  /\ post' = [post EXCEPT ![h] = NoPost]
  /\ UNCHANGED <<fundWorld, closes, coverage, chained, fundPosts>>

-----------------------------------------------------------------------------
(* The world                                                                *)

\* The market ingest stores the index's settled sessions.
StoreIndex ==
  /\ tedpix # 1..(today - 1)
  /\ tedpix' = 1..(today - 1)
  /\ UNCHANGED <<lists, today, liveDay, closes, coverage, chained, fundPosts, fpc, post>>

\* Another source begins to observe the fund.
ObserveLive ==
  /\ liveDay = 0
  /\ liveDay' = today
  /\ UNCHANGED <<lists, today, tedpix, closes, coverage, chained, fundPosts, fpc, post>>

NextFundDay ==
  /\ today <= FundDays
  /\ today' = today + 1
  /\ UNCHANGED <<lists, tedpix, liveDay, closes, coverage, chained, fundPosts, fpc, post>>

FundNext ==
  \/ \E h \in FundHandler :
       JudgeFund(h) \/ InsertCloses(h) \/ CommitFund(h) \/ FundFails(h)
  \/ StoreIndex
  \/ ObserveLive
  \/ NextFundDay

FundSpec == FundInit /\ [][FundNext]_fundVars

-----------------------------------------------------------------------------
(* Properties                                                               *)

\* The unadjusted series carries no step that no price made: whichever copy
\* each list came from and in whatever order the sessions were filled in, the
\* list that completed a pair of sessions opens the second where the first is
\* STORED as closing (funds.py, "a new close against its neighbours AS
\* STORED").  The code does not judge pairs completed by overlapping ingests,
\* across a session a list lacks, or after a session the list has no trade of.
NoUnmadeStep ==
  \A p \in chained : RoundingApart(p.ref, closes[p.day].close)

=============================================================================
