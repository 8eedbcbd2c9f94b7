----------------------------- MODULE PriceProofs -----------------------------
(***************************************************************************)
(* How prices come to be stored.  The daily closes: for any calendar,      *)
(* table, page length and neighbourhood and any interleaving of the daily  *)
(* pass, the deep backfill and the live rows.  The admission gate: for any *)
(* providers, quotes, market hours and thresholds, and any number of runs. *)
(***************************************************************************)
EXTENDS PriceGate, TgjuHistory, NaturalSets

Table == [Day -> Values \cup {0}]

PassPC == {"idle", "fetching", "judging", "writing", "committing"}

\* What the two jobs' variables hold.
TgjuShape ==
  /\ clock \in Nat
  /\ table \in Table /\ closes \in Table /\ page \in Table
  /\ entry \in [full : BOOLEAN, newest : 0..Days]
  /\ seen \in 0..Days /\ full \in BOOLEAN
  /\ dpc \in PassPC /\ bpc \in PassPC
  /\ rows \subseteq Day /\ deep \subseteq Day /\ live \subseteq Day
  /\ cutoff \in Nat
  /\ dpc = "committing" => dtx.entry = entry

\* The days of a table are numbers.
LEMMA DaysAreNat == Days \in Nat /\ Day \subseteq Nat /\ Day \subseteq 0..Days /\ IsFiniteSet(Day)
<1>1. Days \in Nat /\ 1 \in Nat
  BY TgjuAssumption
<1>2. IsFiniteSet(Day)
  BY <1>1, FS_Interval DEF Day
<1> QED
  BY <1>1, <1>2 DEF Day

\* The first state has the shape.
LEMMA TgjuShapeInit == TgjuInit => TgjuShape
<1> SUFFICES ASSUME TgjuInit PROVE TgjuShape
  OBVIOUS
<1>1. /\ clock \in Nat /\ FirstDay \in Nat
  BY TgjuAssumption DEF TgjuInit
<1>2. Empty \in Table /\ table \in Table
  BY DEF Empty, Table, TgjuInit
<1>3. entry \in [full : BOOLEAN, newest : 0..Days]
  BY DaysAreNat DEF TgjuInit, NoEntry
<1>4. live \subseteq Day
  BY TgjuAssumption DEF TgjuInit, Day
<1>5. seen \in 0..Days /\ dpc \in PassPC /\ bpc \in PassPC /\ cutoff \in Nat
  BY DaysAreNat DEF TgjuInit, PassPC
<1>8. full \in BOOLEAN
  BY DEF TgjuInit
<1> QED
  BY <1>1, <1>2, <1>3, <1>4, <1>5, <1>8 DEF TgjuInit, TgjuShape

\* Nothing a step does leaves its type.
LEMMA TgjuShapeKept ==
  ASSUME TgjuShape, [TgjuNext]_tgjuVars
  PROVE  TgjuShape'
<1> USE DEF TgjuShape, Table
<1> USE DaysAreNat
<1>0. Empty \in Table /\ \A p \in Table : Printed(p) \subseteq Day
  BY DEF Empty, Printed
<1>1. CASE StartPass
  BY <1>1 DEF StartPass, worldVars, storeVars, deepVars, PassPC
<1>2. CASE FetchPage
  <2>1. Recent(table) \in Table
    BY DEF Recent
  <2> QED
    BY <1>2, <2>1 DEF FetchPage, worldVars, storeVars, deepVars, PassPC
<1>3. CASE AbandonPass
  <2>1. /\ full' = FALSE /\ seen' = 0 /\ page' = Empty /\ dpc' = "idle"
        /\ UNCHANGED <<clock, table, closes, entry, bpc, rows, deep, live, cutoff>>
    BY <1>3 DEF AbandonPass, worldVars, storeVars, deepVars
  <2>2. seen' \in 0..Days /\ page' \in Table /\ dpc' \in PassPC
    BY <1>0, <2>1 DEF PassPC
  <2>5. full' \in BOOLEAN
    BY <2>1
  <2> QED
    BY <2>1, <2>2, <2>5
<1>4. CASE JudgePage
  BY <1>0, <1>4 DEF JudgePage, worldVars, storeVars, deepVars, PassPC
<1>5. CASE BeginDaily
  BY <1>5 DEF BeginDaily, worldVars, deepVars, PassPC
<1>6. CASE CommitDaily
  <2>1. /\ full' = FALSE /\ seen' = 0 /\ page' = Empty /\ dpc' = "idle" /\ rows' = {}
        /\ closes' = Inserted(rows, page)
        /\ entry' = [full |-> full \/ dtx.entry.full,
                     newest |-> Max(Printed(page) \cup {dtx.entry.newest})]
        /\ dtx.entry = entry
        /\ UNCHANGED <<clock, table, bpc, deep, live, cutoff>>
    BY <1>6 DEF CommitDaily, worldVars, deepVars
  <2>2. seen' \in 0..Days /\ page' \in Table /\ dpc' \in PassPC
    BY <1>0, <2>1 DEF PassPC
  <2>5. full' \in BOOLEAN
    BY <2>1
  <2>3. closes' \in Table
    BY <2>1 DEF Inserted
  <2>4. entry' \in [full : BOOLEAN, newest : 0..Days]
    <3>1. Printed(page) \cup {entry.newest} \in SUBSET (0..Days)
      BY <1>0
    <3>2. Max(Printed(page) \cup {entry.newest}) \in 0..Days
      BY <3>1, MaxIs
    <3>3. (full \/ entry.full) \in BOOLEAN
      OBVIOUS
    <3> QED
      BY <2>1, <3>2, <3>3
  <2> QED
    BY <2>1, <2>2, <2>3, <2>4, <2>5
<1>7. CASE Backfill
  <2>0. ReadAnchor => cutoff' \in Nat
    <3>1. live # {} => Held # {} /\ Held \in SUBSET Nat
      BY <1>0 DEF Held
    <3> QED
      BY <3>1, MinIs DEF ReadAnchor
  <2>1. /\ closes' = closes \/ closes' = Inserted(deep, table)
        /\ deep' \in {deep, RowsToWrite, {}}
        /\ bpc' \in PassPC
        /\ cutoff' \in {cutoff, 0} \/ ReadAnchor
        /\ UNCHANGED <<clock, table, page, entry, seen, full, dpc, rows, live, dtx>>
    BY <1>7 DEF Backfill, ReadAnchor, FetchDeep, AbandonDeep, BeginDeep, CommitDeep, PassPC,
                worldVars, storeVars, dailyVars
  <2>2. closes' \in Table
    BY <2>1 DEF Inserted
  <2>3. deep' \subseteq Day
    BY <2>1 DEF RowsToWrite, Printed
  <2> QED
    BY <2>0, <2>1, <2>2, <2>3
<1>8. CASE TgjuRestart
  <2>1. /\ full' = FALSE /\ seen' = 0 /\ page' = Empty /\ dpc' = "idle" /\ rows' = {}
        /\ bpc' = "idle" /\ cutoff' = 0 /\ deep' = {}
        /\ UNCHANGED <<clock, table, closes, entry, live>>
    BY <1>8 DEF TgjuRestart, worldVars, storeVars
  <2>2. seen' \in 0..Days /\ page' \in Table /\ {dpc', bpc'} \subseteq PassPC
    BY <1>0, <2>1 DEF PassPC
  <2>5. full' \in BOOLEAN
    BY <2>1
  <2> QED
    BY <2>1, <2>2, <2>5
<1>9. CASE TgjuTick
  BY <1>9 DEF TgjuTick, storeVars, dailyVars, deepVars
<1>10. CASE \E d \in Day : Observe(d) \/ \E v \in Values : Publish(d, v) \/ Restate(d, v)
  <2>1. /\ live' \subseteq Day /\ table' \in Table
        /\ UNCHANGED <<clock, storeVars, dailyVars, deepVars>>
    <3>1. ASSUME NEW d \in Day, Observe(d)
          PROVE  live' \subseteq Day /\ table' = table
      BY <3>1 DEF Observe
    <3>2. ASSUME NEW d \in Day, NEW v \in Values, Publish(d, v) \/ Restate(d, v)
          PROVE  live' = live /\ table' = [table EXCEPT ![d] = v]
      BY <3>2 DEF Publish, Restate
    <3>3. ASSUME NEW d \in Day, NEW v \in Values PROVE [table EXCEPT ![d] = v] \in Table
      BY DEF Table
    <3>4. UNCHANGED <<clock, storeVars, dailyVars, deepVars>>
      BY <1>10 DEF Observe, Publish, Restate
    <3>5. live \subseteq Day /\ table \in Table
      OBVIOUS
    <3>6. PICK d \in Day : Observe(d) \/ \E v \in Values : Publish(d, v) \/ Restate(d, v)
      BY <1>10
    <3>7. CASE Observe(d)
      BY <3>1, <3>4, <3>5, <3>7
    <3>8. CASE \E v \in Values : Publish(d, v) \/ Restate(d, v)
      <4>1. PICK v \in Values : Publish(d, v) \/ Restate(d, v)
        BY <3>8
      <4>2. live' = live /\ table' = [table EXCEPT ![d] = v]
        BY <3>2, <4>1
      <4>3. [table EXCEPT ![d] = v] \in Table
        BY <3>3
      <4> QED
        BY <3>4, <3>5, <4>2, <4>3
    <3> QED
      BY <3>6, <3>7, <3>8
  <2> QED
    BY <2>1 DEF storeVars, dailyVars, deepVars
<1>11. CASE UNCHANGED tgjuVars
  BY <1>11 DEF tgjuVars, worldVars, storeVars, dailyVars, deepVars
<1> QED
  BY <1>1, <1>2, <1>3, <1>4, <1>5, <1>6, <1>7, <1>8, <1>9, <1>10, <1>11 DEF TgjuNext, Daily


-----------------------------------------------------------------------------
(* No bar is jumped over                                                    *)

\* Some day of the page is as new as e.
Covers(p, e) == \E f \in Printed(p) : e <= f

\* The page holds the table's bars without a hole: from its oldest bar to its
\* newest, and when the whole table was asked for, from the first.
PageIsWhole ==
  /\ Printed(page) \subseteq Printed(table)
  /\ \A e \in Printed(table) :
       Covers(page, e) /\ (full \/ \E d \in Printed(page) : d <= e) => e \in Printed(page)

\* It reaches back to the newest bar the pass before had seen.
PageReaches ==
  full \/ Printed(page) = {} \/ \E d \in Printed(page) : d <= seen

\* The register's newest bar is one of the table, there is one once a whole
\* table has been read, and the pass under way started from it.
SeenInv ==
  /\ TgjuShape
  /\ SeenMeansRead
  /\ entry.newest = 0 \/ entry.newest \in Printed(table)
  /\ entry.full => entry.newest # 0
  /\ dpc # "idle" => seen <= entry.newest /\ (full \/ seen # 0)
  /\ dpc \in {"judging", "writing", "committing"} => PageIsWhole /\ PageReaches
  /\ dpc \in {"writing", "committing"} => Printed(page) # {}

\* The newest rows of a table are those from some day on.
LEMMA RecentIsSuffix ==
  ASSUME NEW t \in Table
  PROVE  /\ Recent(t) \in Table
         /\ Printed(Recent(t)) \subseteq Printed(t)
         /\ \A d \in Printed(Recent(t)), e \in Printed(t) : d <= e => e \in Printed(Recent(t))
<1> DEFINE after(d) == {e \in Printed(t) : e > d}
<1>1. Recent(t) = [d \in Day |-> IF Cardinality(after(d)) < RecentRows THEN t[d] ELSE 0]
  BY DEF Recent
<1>2. Recent(t) \in Table /\ Printed(Recent(t)) \subseteq Printed(t)
  <2> HIDE DEF after
  <2> QED
    BY <1>1 DEF Table, Printed
<1>3. ASSUME NEW d \in Printed(Recent(t)), NEW e \in Printed(t), d <= e
      PROVE  e \in Printed(Recent(t))
  <2>1. d \in Day /\ e \in Day /\ t[e] # 0
    BY DEF Printed
  <2>2. \A x \in Day : IsFiniteSet(after(x)) /\ Cardinality(after(x)) \in Nat
    BY DaysAreNat, FS_Subset, FS_CardinalityType DEF Printed
  <2>3. after(e) \subseteq after(d)
    <3> SUFFICES ASSUME NEW x \in Printed(t), x > e PROVE x > d
      OBVIOUS
    <3>1. x \in Nat /\ d \in Nat /\ e \in Nat
      BY <2>1, DaysAreNat DEF Printed
    <3> QED
      BY <1>3, <3>1
  <2>4. Cardinality(after(e)) <= Cardinality(after(d))
    BY <2>1, <2>2, <2>3, FS_Subset
  <2>5. RecentRows \in Nat
    BY TgjuAssumption
  <2> HIDE DEF after
  <2>6. Cardinality(after(d)) < RecentRows
    BY <1>1, <2>1 DEF Printed
  <2>7. Cardinality(after(e)) < RecentRows
    BY <2>1, <2>2, <2>4, <2>5, <2>6
  <2> QED
    BY <1>1, <2>1, <2>7 DEF Printed
<1> QED
  BY <1>2, <1>3

\* The page a pass goes on with is whole and reaches back.
LEMMA FetchKeepsSeen ==
  ASSUME SeenInv, FetchPage
  PROVE  SeenInv'
<1> USE DEF SeenInv
<1>0. TgjuShape'
  BY TgjuShapeKept DEF TgjuNext, Daily
<1>1. /\ dpc = "fetching"
      /\ page' = IF full THEN table ELSE Recent(table)
      /\ full' = (full \/ Unreached(page'))
      /\ dpc' = IF ~full /\ Unreached(page') THEN "fetching" ELSE "judging"
      /\ UNCHANGED <<table, entry, read, seen>>
  BY DEF FetchPage, worldVars, storeVars
<1>2. seen' <= entry'.newest /\ (full' \/ seen' # 0)
  BY <1>1
<1>3. CASE full
  <2>1. PageIsWhole'
    BY <1>1, <1>3 DEF PageIsWhole
  <2> QED
    BY <1>0, <1>1, <1>2, <1>3, <2>1 DEF PageReaches, SeenMeansRead
<1>4. CASE ~full /\ Unreached(page')
  BY <1>0, <1>1, <1>2, <1>4 DEF SeenMeansRead
<1>5. CASE ~full /\ ~Unreached(page')
  <2>1. page' = Recent(table) /\ dpc' = "judging" /\ seen # 0
    BY <1>1, <1>5
  <2>4. ~full'
    BY <1>1, <1>5
  <2>2. PageIsWhole'
    BY <1>1, <1>5, <2>1, <2>4, RecentIsSuffix DEF PageIsWhole, TgjuShape
  <2>3. PageReaches'
    <3>1. CASE Printed(page') = {}
      BY <3>1 DEF PageReaches
    <3>2. CASE Printed(page') # {}
      <4>1. Printed(page') \in SUBSET Nat
        BY <1>0, DaysAreNat DEF Printed
      <4>2. Min(Printed(page')) \in Printed(page') /\ Min(Printed(page')) \in Nat
        BY <3>2, <4>1, MinIs
      <4>3. ~(Min(Printed(page')) > seen)
        BY <1>5, <2>1, <3>2 DEF Unreached
      <4>4. Min(Printed(page')) <= seen
        BY <4>2, <4>3, DaysAreNat DEF TgjuShape
      <4> QED
        BY <1>1, <4>2, <4>4 DEF PageReaches
    <3> QED
      BY <3>1, <3>2
  <2> QED
    BY <1>0, <1>1, <1>2, <2>1, <2>2, <2>3 DEF SeenMeansRead
<1> QED
  BY <1>3, <1>4, <1>5

\* Everything between the register's newest bar and the page's is in the page.
LEMMA CommitKeepsSeen ==
  ASSUME SeenInv, CommitDaily
  PROVE  SeenInv'
<1> USE DEF SeenInv
<1>0. TgjuShape'
  BY TgjuShapeKept DEF TgjuNext, Daily
<1>1. /\ dpc = "committing" /\ dpc' = "idle"
      /\ entry' = [full |-> full \/ entry.full,
                   newest |-> Max(Printed(page) \cup {entry.newest})]
      /\ read' = read \cup Printed(page)
      /\ table' = table
  BY DEF CommitDaily, worldVars, TgjuShape
<1> DEFINE top == Max(Printed(page) \cup {entry.newest})
<1>2. top \in Printed(page) \cup {entry.newest} /\ \A m \in Printed(page) \cup {entry.newest} : m <= top
  <2>1. Printed(page) \cup {entry.newest} \in SUBSET (0..Days)
    BY DaysAreNat DEF TgjuShape, Printed
  <2> QED
    BY <2>1, MaxIs, DaysAreNat
<1>3. entry'.newest = top
  BY <1>1
<1> HIDE DEF top
<1>4. Printed(page) \subseteq Printed(table) /\ Printed(page) # {} /\ Printed(table) \subseteq Day
  BY <1>1 DEF PageIsWhole, Printed
<1>5. top \in Nat /\ entry.newest \in Nat /\ seen \in Nat /\ top # 0
  <2>0. 0..Days \subseteq Nat /\ Day \subseteq Nat
    BY DaysAreNat
  <2>4. entry.newest \in Nat /\ seen \in Nat
    BY <2>0 DEF TgjuShape
  <2>1. top \in Nat /\ entry.newest \in Nat /\ seen \in Nat
    BY <1>2, <1>4, <2>0, <2>4
  <2>2. PICK m \in Printed(page) : m <= top
    BY <1>2, <1>4
  <2>3. m \in Nat /\ m >= 1
    BY <1>4, DaysAreNat DEF Day
  <2> QED
    BY <2>1, <2>2, <2>3
<1>6. top \in Printed(table)
  BY <1>2, <1>4, <1>5
<1>7. ASSUME NEW d \in Printed(table), d <= top PROVE d \in read \cup Printed(page)
  <2>0. d \in Nat
    BY <1>4, DaysAreNat
  <2>1. CASE d <= entry.newest
    BY <2>1 DEF SeenMeansRead
  <2>2. CASE ~(d <= entry.newest)
    <3>1. top \in Printed(page)
      BY <1>2, <1>5, <1>7, <2>0, <2>2
    <3>2. Covers(page, d)
      BY <1>7, <3>1 DEF Covers
    <3>3. seen < d
      BY <1>1, <1>5, <2>0, <2>2
    <3>4. full \/ \E f \in Printed(page) : f <= d
      <4>1. full \/ \E f \in Printed(page) : f <= seen
        BY <1>1, <1>4 DEF PageReaches
      <4>2. \A f \in Printed(page) : f \in Nat
        BY <1>4, DaysAreNat
      <4> QED
        BY <1>5, <2>0, <3>3, <4>1, <4>2
    <3> QED
      BY <1>1, <3>2, <3>4 DEF PageIsWhole
  <2> QED
    BY <2>1, <2>2
<1>8. SeenMeansRead'
  BY <1>1, <1>3, <1>7 DEF SeenMeansRead
<1> QED
  BY <1>0, <1>1, <1>3, <1>5, <1>6, <1>8

\* A new close comes after every other, and so after the newest bar seen.
LEMMA PublishKeepsSeen ==
  ASSUME SeenInv, NEW d \in Day, NEW v \in Values, Publish(d, v) \/ Restate(d, v)
  PROVE  SeenInv'
<1> USE DEF SeenInv
<1>0. TgjuShape'
  BY TgjuShapeKept DEF TgjuNext
<1>1. UNCHANGED <<entry, read, dpc, full, seen, page>> /\ table' = [table EXCEPT ![d] = v]
  BY DEF Publish, Restate, storeVars, dailyVars
<1>2. v # 0 /\ d \in Nat /\ Day \subseteq Nat
  BY TgjuAssumption, DaysAreNat
<1>3. Printed(table') = Printed(table) \cup {d}
  BY <1>1, <1>2 DEF Printed, TgjuShape, Table
<1>4. CASE Restate(d, v)
  <2>1. Printed(table') = Printed(table) /\ dpc = "idle"
    BY <1>3, <1>4 DEF Restate, Printed
  <2> QED
    BY <1>0, <1>1, <2>1 DEF SeenMeansRead
<1>5. CASE Publish(d, v)
  <2>0. Printed(table) \subseteq Nat /\ Printed(page) \subseteq Nat /\ entry.newest \in Nat
    <3>1. 0..Days \subseteq Nat
      BY DaysAreNat
    <3>2. entry.newest \in Nat
      BY <3>1 DEF TgjuShape
    <3> QED
      BY <1>2, <3>2 DEF Printed
  <2>1. \A e \in Printed(table) : e < d
    BY <1>5 DEF Publish
  <2>2. entry.newest < d
    <3>1. d > 0
      BY DEF Day
    <3> QED
      BY <1>2, <2>1, <3>1
  <2>3. SeenMeansRead'
    BY <1>1, <1>2, <1>3, <2>0, <2>2 DEF SeenMeansRead
  <2>4. PageIsWhole => PageIsWhole'
    <3>1. PageIsWhole => ~Covers(page, d)
      BY <1>2, <2>0, <2>1 DEF PageIsWhole, Covers
    <3> QED
      BY <1>1, <1>3, <3>1 DEF PageIsWhole, Covers
  <2>5. PageReaches => PageReaches'
    BY <1>1 DEF PageReaches
  <2> QED
    BY <1>0, <1>1, <1>3, <2>3, <2>4, <2>5
<1> QED
  BY <1>4, <1>5

\* No bar of the table is jumped over, for any table, page length, number of
\* missed passes, failures and restarts (ingest_symbol's unreached test).
THEOREM SeenMeansReadHolds == TgjuSpec => []SeenMeansRead
<1> USE DEF SeenInv
<1>1. TgjuInit => SeenInv
  <2> SUFFICES ASSUME TgjuInit PROVE SeenInv
    OBVIOUS
  <2>3. entry.full = FALSE /\ entry.newest = 0
    BY DEF TgjuInit, NoEntry
  <2>6. TgjuShape
    BY TgjuShapeInit
  <2>7. SeenMeansRead
    BY <2>3, DaysAreNat DEF SeenMeansRead, Printed, Day
  <2> QED
    BY <2>3, <2>6, <2>7 DEF TgjuInit
<1>2. SeenInv /\ [TgjuNext]_tgjuVars => SeenInv'
  <2> SUFFICES ASSUME SeenInv, [TgjuNext]_tgjuVars PROVE SeenInv'
    OBVIOUS
  <2>0. TgjuShape'
    BY TgjuShapeKept
  <2>1. CASE StartPass
    <3>1. /\ dpc = "idle" /\ dpc' = "fetching" /\ seen' = entry.newest
          /\ UNCHANGED <<entry, table, read>>
      BY <2>1 DEF StartPass, worldVars, storeVars
    <3>2. full' = (closes = Empty \/ ~entry.full)
      BY <2>1 DEF StartPass
    <3>3. full' \/ seen' # 0
      BY <3>1, <3>2
    <3>4. seen' <= entry'.newest
      BY <3>1, DaysAreNat DEF TgjuShape
    <3> QED
      BY <2>0, <3>1, <3>3, <3>4 DEF SeenMeansRead
  <2>2. CASE JudgePage \/ BeginDaily
    <3>1. /\ \/ dpc = "judging" /\ dpc' = "writing" /\ Printed(page) # {}
             \/ dpc = "writing" /\ dpc' = "committing"
          /\ UNCHANGED <<entry, table, read, full, seen, page>>
      BY <2>2 DEF JudgePage, BeginDaily, worldVars, storeVars
    <3> QED
      BY <2>0, <3>1 DEF SeenMeansRead, PageIsWhole, PageReaches
  <2>3. CASE AbandonPass \/ TgjuRestart
    <3>1. dpc' = "idle" /\ UNCHANGED <<entry, table, read>>
      BY <2>3 DEF AbandonPass, TgjuRestart, worldVars, storeVars
    <3> QED
      BY <2>0, <3>1 DEF SeenMeansRead
  <2>4. CASE Backfill \/ TgjuTick \/ (\E d \in Day : Observe(d)) \/ UNCHANGED tgjuVars
    <3>1. UNCHANGED <<entry, table, read, dpc, full, seen, page>>
      BY <2>4 DEF Backfill, ReadAnchor, FetchDeep, AbandonDeep, BeginDeep, CommitDeep, TgjuTick,
                  Observe, tgjuVars, worldVars, storeVars, dailyVars
    <3> QED
      BY <2>0, <3>1 DEF SeenMeansRead, PageIsWhole, PageReaches
  <2> QED
    BY <2>1, <2>2, <2>3, <2>4, FetchKeepsSeen, CommitKeepsSeen, PublishKeepsSeen
    DEF TgjuNext, Daily
<1> QED
  BY <1>1, <1>2, PTL DEF TgjuSpec


-----------------------------------------------------------------------------
(* No mixed day                                                             *)

\* A day that is over: a live row of it that comes now is a late one.
TakenLate(d) == UtcDayOver(d, clock) /\ (d \in live => d \in late)

\* Every day a job has written, or is about to write, was over and free when
\* it was judged, and only a late row can have taken it since.  The backfill's
\* days lie before the oldest live row, and no live row is of a day to come.
MixedInv ==
  /\ TgjuShape
  /\ late \subseteq live
  /\ ~gap => live = {}
  /\ \A d \in live : 3 * d <= clock
  /\ gap => \A d \in Day : closes[d] # 0 \/ d \in rows => TakenLate(d)
  /\ bpc # "idle" => gap /\ \A d \in Day : d < cutoff => TakenLate(d)
  /\ \A d \in deep : bpc \notin {"idle", "fetching"} /\ d < cutoff

\* A live row of a day that is over is late, and time only goes on.
LEMMA LiveKeepsMixed ==
  ASSUME MixedInv, TgjuTick \/ \E d \in Day : Observe(d)
  PROVE  MixedInv'
<1> USE DEF MixedInv
<1>0. TgjuShape'
  BY TgjuShapeKept DEF TgjuNext
<1>1. UNCHANGED <<gap, closes, rows, bpc, cutoff, deep>> /\ clock' \in {clock, clock + 1}
  BY DEF TgjuTick, Observe, storeVars, dailyVars, deepVars
<1>2. clock \in Nat /\ Day \subseteq Nat /\ live \subseteq Day
  BY DaysAreNat DEF TgjuShape
<1>3. ASSUME NEW d \in Day, TakenLate(d) PROVE TakenLate(d)'
  <2>0. d \in Nat
    BY <1>2
  <2>1. UtcDayOver(d, clock')
    BY <1>1, <1>2, <1>3, <2>0 DEF TakenLate, UtcDayOver
  <2>2. d \in live' => d \in late'
    BY <1>3 DEF TakenLate, TgjuTick, Observe
  <2> QED
    BY <2>1, <2>2 DEF TakenLate
<1>4. late' \subseteq live' /\ (~gap' => live' = {})
  BY DEF TgjuTick, Observe
<1>5. \A d \in live' : 3 * d <= clock'
  <2>1. CASE TgjuTick
    <3>1. live' = live /\ clock' = clock + 1
      BY <2>1 DEF TgjuTick
    <3> QED
      BY <1>2, <3>1
  <2>2. CASE \E d \in Day : Observe(d)
    <3>1. PICK d \in Day : Observe(d)
      BY <2>2
    <3>2. live' = live \cup {d} /\ clock' = clock /\ (d = UtcDay(clock) \/ d = UtcDay(clock) - 1)
      BY <3>1 DEF Observe
    <3>3. 3 * (clock \div 3) <= clock /\ clock \div 3 \in Nat
      BY <1>2
    <3>4. 3 * d <= clock
      BY <1>2, <3>2, <3>3 DEF UtcDay
    <3> QED
      BY <3>2, <3>4
  <2> QED
    BY <2>1, <2>2
<1> QED
  BY <1>0, <1>1, <1>3, <1>4, <1>5

\* What the daily pass judged fit was over and free.
LEMMA DailyKeepsMixed ==
  ASSUME MixedInv, Daily
  PROVE  MixedInv'
<1> USE DEF MixedInv
<1>0. TgjuShape'
  BY TgjuShapeKept DEF TgjuNext
<1>1. UNCHANGED <<gap, clock, live, late, bpc, cutoff, deep>>
  BY DEF Daily, StartPass, FetchPage, AbandonPass, JudgePage, BeginDaily, CommitDaily,
         worldVars, deepVars
<1>2. \A d \in Day : TakenLate(d)' <=> TakenLate(d)
  BY <1>1 DEF TakenLate
<1>3. ASSUME gap, NEW d \in Day, closes'[d] # 0 \/ d \in rows' PROVE TakenLate(d)
  <2>1. CASE JudgePage
    <3>1. closes' = closes /\ \A e \in rows' : MayWrite(e)
      BY <2>1 DEF JudgePage, storeVars
    <3>2. MayWrite(d) => TakenLate(d)
      BY <1>3 DEF MayWrite, TakenLate
    <3> QED
      BY <1>3, <3>1, <3>2
  <2>2. CASE CommitDaily
    <3>1. closes' = Inserted(rows, page) /\ rows' = {}
      BY <2>2 DEF CommitDaily
    <3> QED
      BY <1>3, <3>1 DEF Inserted
  <2>3. CASE ~JudgePage /\ ~CommitDaily
    <3>1. closes' = closes /\ rows' = rows
      BY <2>3 DEF Daily, StartPass, FetchPage, AbandonPass, BeginDaily, storeVars
    <3> QED
      BY <1>3, <3>1
  <2> QED
    BY <2>1, <2>2, <2>3
<1> QED
  BY <1>0, <1>1, <1>2, <1>3

\* The backfill stays before the oldest row there was when it began.
LEMMA BackfillKeepsMixed ==
  ASSUME MixedInv, Backfill
  PROVE  MixedInv'
<1> USE DEF MixedInv
<1>0. TgjuShape'
  BY TgjuShapeKept DEF TgjuNext
<1>1. UNCHANGED <<gap, clock, live, late, rows>>
  BY DEF Backfill, ReadAnchor, FetchDeep, AbandonDeep, BeginDeep, CommitDeep,
         worldVars, dailyVars
<1>2. \A d \in Day : TakenLate(d)' <=> TakenLate(d)
  BY <1>1 DEF TakenLate
<1>3. CASE ReadAnchor
  <2>1. /\ gap /\ bpc = "idle" /\ live # {} /\ cutoff' = Min(Held)
        /\ bpc' = "fetching" /\ UNCHANGED <<closes, deep>>
    BY <1>3 DEF ReadAnchor, storeVars
  <2>2. Held \in SUBSET Nat /\ Held # {} /\ live \subseteq Held
    BY <2>1, DaysAreNat DEF Held, Printed, TgjuShape
  <2>3. cutoff' \in Nat /\ \A m \in Held : cutoff' <= m
    BY <2>1, <2>2, MinIs
  <2>4. PICK m \in live : TRUE
    BY <2>1
  <2>5. m \in Nat /\ cutoff' <= m /\ 3 * m <= clock /\ clock \in Nat
    BY <2>2, <2>3, <2>4 DEF TgjuShape
  <2>6. ASSUME NEW d \in Day, d < cutoff' PROVE TakenLate(d)
    <3>1. d \in Nat
      BY DaysAreNat
    <3>2. UtcDayOver(d, clock)
      BY <2>3, <2>5, <2>6, <3>1 DEF UtcDayOver
    <3>3. d \notin live
      BY <2>2, <2>3, <2>6, <3>1
    <3> QED
      BY <3>2, <3>3 DEF TakenLate
  <2>7. deep = {}
    BY <2>1
  <2> QED
    BY <1>0, <1>1, <1>2, <2>1, <2>6, <2>7
<1>4. CASE FetchDeep
  <2>1. bpc = "fetching" /\ bpc' = "writing" /\ deep' = RowsToWrite /\ UNCHANGED <<closes, cutoff>>
    BY <1>4 DEF FetchDeep, storeVars
  <2>2. \A d \in deep' : d < cutoff'
    BY <2>1 DEF RowsToWrite
  <2> QED
    BY <1>0, <1>1, <1>2, <2>1, <2>2
<1>5. CASE AbandonDeep
  <2>1. bpc = "fetching" /\ bpc' = "idle" /\ UNCHANGED <<closes, deep>>
    BY <1>5 DEF AbandonDeep, storeVars
  <2>2. deep = {}
    BY <2>1
  <2> QED
    BY <1>0, <1>1, <1>2, <2>1, <2>2
<1>6. CASE BeginDeep
  <2>1. bpc = "writing" /\ bpc' = "committing" /\ UNCHANGED <<closes, cutoff, deep>>
    BY <1>6 DEF BeginDeep
  <2> QED
    BY <1>0, <1>1, <1>2, <2>1
<1>7. CASE CommitDeep
  <2>1. bpc = "committing" /\ bpc' = "idle" /\ closes' = Inserted(deep, table) /\ deep' = {}
    BY <1>7 DEF CommitDeep
  <2>2. ASSUME gap, NEW d \in Day, closes'[d] # 0 PROVE TakenLate(d)
    BY <2>1, <2>2 DEF Inserted
  <2> QED
    BY <1>0, <1>1, <1>2, <2>1, <2>2
<1> QED
  BY <1>3, <1>4, <1>5, <1>6, <1>7 DEF Backfill

\* A close shares its UTC day with a row of another source only if that row
\* landed after the day was over, for any calendar and any interleaving of the
\* two jobs, the live rows, kills and restatements (price_rows, live_anchor).
THEOREM MixedOnlyByLateRowHolds == TgjuSpec => []MixedOnlyByLateRow
<1> USE DEF MixedInv
<1>1. TgjuInit => MixedInv
  <2> SUFFICES ASSUME TgjuInit PROVE MixedInv
    OBVIOUS
  <2>1. /\ closes = Empty /\ rows = {} /\ deep = {} /\ bpc = "idle" /\ late = {}
        /\ clock = 3 * FirstDay /\ live \subseteq {FirstDay} /\ (~gap => live = {})
    BY DEF TgjuInit
  <2>2. \A d \in live : 3 * d <= clock
    BY <2>1, TgjuAssumption
  <2>3. \A d \in Day : closes[d] = 0
    BY <2>1 DEF Empty
  <2> QED
    BY <2>1, <2>2, <2>3, TgjuShapeInit
<1>2. MixedInv /\ [TgjuNext]_tgjuVars => MixedInv'
  <2> SUFFICES ASSUME MixedInv, [TgjuNext]_tgjuVars PROVE MixedInv'
    OBVIOUS
  <2>0. TgjuShape'
    BY TgjuShapeKept
  <2>1. CASE TgjuRestart
    <3>1. /\ rows' = {} /\ deep' = {} /\ bpc' = "idle"
          /\ UNCHANGED <<gap, clock, live, late, closes>>
      BY <2>1 DEF TgjuRestart, worldVars, storeVars
    <3>2. \A d \in Day : TakenLate(d)' <=> TakenLate(d)
      BY <3>1 DEF TakenLate
    <3> QED
      BY <2>0, <3>1, <3>2
  <2>2. CASE (\E d \in Day : \E v \in Values : Publish(d, v) \/ Restate(d, v)) \/ UNCHANGED tgjuVars
    <3>1. UNCHANGED <<gap, clock, live, late, closes, rows, bpc, cutoff, deep>>
      BY <2>2 DEF Publish, Restate, tgjuVars, worldVars, storeVars, dailyVars, deepVars
    <3>2. \A d \in Day : TakenLate(d)' <=> TakenLate(d)
      BY <3>1 DEF TakenLate
    <3> QED
      BY <2>0, <3>1, <3>2
  <2> QED
    BY <2>1, <2>2, LiveKeepsMixed, DailyKeepsMixed, BackfillKeepsMixed DEF TgjuNext
<1>3. MixedInv => MixedOnlyByLateRow
  BY DEF MixedOnlyByLateRow, TakenLate
<1> QED
  BY <1>1, <1>2, <1>3, PTL DEF TgjuSpec


-----------------------------------------------------------------------------
(* No lone close                                                            *)

\* Closes are numbers.
LEMMA ClosesAreNat ==
  ASSUME NEW p \in Table, NEW d \in Day
  PROVE  p[d] \in Nat
<1>1. Values \subseteq Nat
  BY TgjuAssumption
<1>2. Values \cup {0} \subseteq Nat
  BY <1>1
<1>3. p[d] \in Values \cup {0}
  BY DEF Table
<1> QED
  BY <1>2, <1>3

\* The median of the closes of some days lies between two of them.
LEMMA MedianBetween ==
  ASSUME NEW p \in Table, NEW N \in SUBSET Day, N # {}
  PROVE  /\ MedianTwice(p, N) \in Nat
         /\ \E a, b \in N : 2 * p[a] <= MedianTwice(p, N) /\ MedianTwice(p, N) <= 2 * p[b]
<1> DEFINE R == {x \in N \X N : p[x[1]] < p[x[2]] \/ (p[x[1]] = p[x[2]] /\ x[1] < x[2])}
           below(e) == Cardinality({f \in N : p[f] < p[e] \/ (p[f] = p[e] /\ f < e)})
           at(k) == p[CHOOSE e \in N : below(e) = k]
           n == Cardinality(N)
<1>0. IsFiniteSet(N) /\ n \in Nat /\ n # 0
  BY DaysAreNat, FS_Subset, FS_CardinalityType, FS_EmptySet
<1>1. \A e \in N : p[e] \in Nat /\ e \in Nat
  BY DaysAreNat, ClosesAreNat
<1>2. StrictOrder(N, R)
  BY <1>1 DEF StrictOrder
<1>3. ASSUME NEW e \in N PROVE below(e) = Cardinality(Lower(N, R, e))
  <2>1. Lower(N, R, e) = {f \in N : p[f] < p[e] \/ (p[f] = p[e] /\ f < e)}
    BY DEF Lower
  <2> QED
    BY <2>1
<1>4. ASSUME NEW k \in Nat, k < n PROVE \E e \in N : at(k) = p[e]
  <2>1. \E e \in N : Cardinality(Lower(N, R, e)) = k
    <3> HIDE DEF R
    <3> QED
      BY <1>0, <1>2, <1>4, HasRank
  <2>2. \E e \in N : below(e) = k
    BY <1>3, <2>1
  <2> HIDE DEF below
  <2> QED
    BY <2>2
<1>5. MedianTwice(p, N) = IF n % 2 = 1 THEN 2 * at(n \div 2) ELSE at(n \div 2) + at(n \div 2 - 1)
  BY DEF MedianTwice
<1> HIDE DEF at, n, below, R
<1>6. n \div 2 \in Nat /\ n \div 2 < n
  BY <1>0
<1>7. CASE n % 2 = 1
  <2>1. PICK e \in N : at(n \div 2) = p[e]
    BY <1>4, <1>6
  <2>2. MedianTwice(p, N) = 2 * p[e]
    BY <1>5, <1>7, <2>1
  <2> QED
    BY <1>1, <2>2
<1>8. CASE n % 2 # 1
  <2>0. n \div 2 - 1 \in Nat /\ n \div 2 - 1 < n
    BY <1>0, <1>8
  <2>1. PICK e \in N : at(n \div 2) = p[e]
    BY <1>4, <1>6
  <2>2. PICK f \in N : at(n \div 2 - 1) = p[f]
    BY <1>4, <2>0
  <2>3. MedianTwice(p, N) = p[e] + p[f]
    BY <1>5, <1>8, <2>1, <2>2
  <2>4. p[e] <= p[f] \/ p[f] <= p[e]
    BY <1>1
  <2> QED
    BY <1>1, <2>3, <2>4
<1> QED
  BY <1>7, <1>8

\* What the rule passes is not far from the closes around it, on either side.
LEMMA OkIsNotAlone ==
  ASSUME NEW p \in Table, NEW d \in Day, Verdict(p, d) = "ok"
  PROVE  /\ \E e \in Printed(p) \ {d} : 10 * p[e] <= 16 * p[d]
         /\ \E e \in Printed(p) \ {d} : 10 * p[d] <= 16 * p[e]
<1> DEFINE N == Neighbours(p, d)
<1>1. N \in SUBSET Day /\ N \subseteq Printed(p) \ {d}
  BY DEF Neighbours, Printed
<1>2. ~(Cardinality(N) < MinJudged) /\ ~Suspicious(p[d], MedianTwice(p, N))
  BY DEF Verdict
<1>3. N # {}
  BY <1>2, FS_EmptySet, TgjuAssumption
<1> HIDE DEF N
<1>4. PICK a \in N, b \in N : 2 * p[a] <= MedianTwice(p, N) /\ MedianTwice(p, N) <= 2 * p[b]
  BY <1>1, <1>3, MedianBetween
<1>5. p[a] \in Nat /\ p[b] \in Nat /\ p[d] \in Nat
  BY <1>1, ClosesAreNat
<1>6. MedianTwice(p, N) \in Nat
  BY <1>1, <1>3, MedianBetween
<1>7. 10 * p[a] <= 16 * p[d] /\ 10 * p[d] <= 16 * p[b]
  BY <1>2, <1>4, <1>5, <1>6 DEF Suspicious
<1> QED
  BY <1>1, <1>7

\* The rows about to be written passed the rule on the page they came from.
LoneInv ==
  /\ TgjuShape
  /\ \A d \in rows : dpc \in {"writing", "committing"} /\ Verdict(page, d) = "ok"

\* The daily pass stores no close that stands alone, for any table, levels,
\* neighbourhood and page length (judge_bars, price_rows).
THEOREM LoneCloseNeverStoredHolds == TgjuSpec => LoneCloseNeverStored
<1> USE DEF LoneInv
<1>1. TgjuInit => LoneInv
  BY TgjuShapeInit DEF TgjuInit
<1>2. ASSUME LoneInv, [TgjuNext]_tgjuVars PROVE LoneInv'
  <2>0. TgjuShape'
    BY <1>2, TgjuShapeKept
  <2>1. CASE JudgePage
    <3>1. dpc' = "writing" /\ page' = page /\ \A d \in rows' : MayWrite(d)
      BY <2>1 DEF JudgePage
    <3>2. \A d \in rows' : Verdict(page, d) = "ok"
      BY <3>1 DEF MayWrite
    <3> QED
      BY <2>0, <3>1, <3>2
  <2>2. CASE BeginDaily
    <3>1. dpc' = "committing" /\ page' = page /\ rows' = rows
      BY <2>2 DEF BeginDaily
    <3> QED
      BY <1>2, <2>0, <3>1
  <2>3. CASE StartPass \/ FetchPage \/ AbandonPass
    <3>1. rows' = rows /\ rows = {}
      BY <1>2, <2>3 DEF StartPass, FetchPage, AbandonPass
    <3> QED
      BY <2>0, <3>1
  <2>4. CASE CommitDaily \/ TgjuRestart
    <3>1. rows' = {}
      BY <2>4 DEF CommitDaily, TgjuRestart
    <3> QED
      BY <2>0, <3>1
  <2>5. CASE ~Daily /\ ~TgjuRestart
    <3>1. UNCHANGED <<dpc, page, rows>>
      BY <1>2, <2>5
      DEF TgjuNext, Backfill, ReadAnchor, FetchDeep, AbandonDeep, BeginDeep, CommitDeep, TgjuTick,
          Observe, Publish, Restate, tgjuVars, dailyVars
    <3> QED
      BY <1>2, <2>0, <3>1
  <2> QED
    BY <2>1, <2>2, <2>3, <2>4, <2>5 DEF Daily
<1>3. LoneInv /\ [TgjuNext]_tgjuVars
        => [\A d \in Day : closes[d] = 0 /\ closes'[d] # 0 /\ dpc' # dpc =>
              /\ \E e \in Printed(page) \ {d} : 10 * page[e] <= 16 * page[d]
              /\ \E e \in Printed(page) \ {d} : 10 * page[d] <= 16 * page[e]]_tgjuVars
  <2> SUFFICES ASSUME LoneInv, [TgjuNext]_tgjuVars,
                      NEW d \in Day, closes[d] = 0, closes'[d] # 0, dpc' # dpc
               PROVE  /\ \E e \in Printed(page) \ {d} : 10 * page[e] <= 16 * page[d]
                      /\ \E e \in Printed(page) \ {d} : 10 * page[d] <= 16 * page[e]
    OBVIOUS
  <2>1. CommitDaily
    <3>1. CASE Daily /\ ~CommitDaily
      BY <3>1 DEF Daily, StartPass, FetchPage, AbandonPass, JudgePage, BeginDaily, storeVars
    <3>2. CASE ~Daily
      BY <3>2
      DEF TgjuNext, Backfill, ReadAnchor, FetchDeep, AbandonDeep, BeginDeep, CommitDeep, TgjuTick,
          TgjuRestart, Observe, Publish, Restate, tgjuVars, dailyVars, storeVars
    <3> QED
      BY <3>1, <3>2
  <2>2. d \in rows
    BY <2>1 DEF CommitDaily, Inserted
  <2> QED
    BY <2>2, OkIsNotAlone DEF TgjuShape
<1> QED
  BY <1>1, <1>2, <1>3, PTL DEF TgjuSpec, LoneCloseNeverStored

-----------------------------------------------------------------------------
(* The admission gate.                                                      *)

\* Agreement of two sources is mutual.
LEMMA AgreeIsMutual ==
  ASSUME NEW a \in Int, NEW b \in Int
  PROVE  /\ Agree(a, b) <=> Agree(b, a)
         /\ Agree(a, a)
<1>1. {Dist(a, 0), Dist(b, 0)} = {Dist(b, 0), Dist(a, 0)} /\ Dist(a, b) = Dist(b, a)
  BY DEF Dist
<1>2. Agree(a, b) <=> Agree(b, a)
  BY <1>1 DEF Agree
<1>3. Dist(a, a) = 0 /\ Dist(a, 0) \in Nat /\ {Dist(a, 0), Dist(a, 0)} = {Dist(a, 0)}
  BY DEF Dist
<1>4. Max({Dist(a, 0)}) \in Nat
  <2>1. {Dist(a, 0)} \in SUBSET (0..Dist(a, 0))
    BY <1>3
  <2> QED
    BY <1>3, <2>1, MaxIs
<1> QED
  BY <1>2, <1>3, <1>4 DEF Agree

\* What the constants are.
LEMMA GateConstants ==
  /\ Len(Priority) \in Nat /\ DOMAIN Priority = 1..Len(Priority)
  /\ \A i \in 1..Len(Priority) : Priority[i] \in Provider
  /\ \A i, j \in 1..Len(Priority) : Priority[i] = Priority[j] => i = j
  /\ MaxTime \in Nat /\ Time \subseteq Nat /\ Time = 1..MaxTime
  /\ Value \subseteq Int
  /\ \A p \in Provider : Lags[p] \subseteq Nat
<1>1. Priority \in Seq(Provider) /\ MaxTime \in Nat
  BY GateAssumption
<1>2. Len(Priority) \in Nat /\ DOMAIN Priority = 1..Len(Priority)
  BY <1>1
<1>3. \A i \in 1..Len(Priority) : Priority[i] \in Provider
  BY <1>1, <1>2
<1> QED
  BY <1>1, <1>2, <1>3, GateAssumption DEF Time

\* The fields of what the tables and a run hold.
Rows ==
  /\ IsFiniteSet(raw)
  /\ \A x \in raw \cup prices :
       /\ x.source \in Provider /\ x.at \in Time /\ x.value \in Value
       /\ x.collected \in Nat /\ x.at <= x.collected /\ x.collected <= now
  /\ \A x \in suspects :
       x.source \in Provider /\ x.at \in Time /\ x.value \in Value /\ x.value \in Sane

\* Which quote a source gave, and when: one of an instant, the later the
\* newer, and one in a run.
Asked(p) == \E i \in 1..turn - 1 : Priority[i] = p

OneRow ==
  \A x, y \in raw : x.source = y.source =>
    /\ x.at < y.at => x.collected < y.collected
    /\ x.at = y.at => x = y

AskedOnce ==
  /\ \A x \in raw \cup prices : x.collected = now => Asked(x.source)
  /\ \A s \in suspects :
       /\ Asked(s.source) /\ now - s.at \in Lags[s.source]
       /\ \A r \in prices : ~(r.source = s.source /\ r.collected = now)
       /\ \A t \in suspects : s.source = t.source => s = t

\* Every quote a run holds, and every price, has its row.
Stored ==
  /\ \A s \in suspects :
       \E x \in raw : x.source = s.source /\ x.at = s.at /\ x.value = s.value
  /\ \A r \in prices :
       \E x \in raw : /\ x.source = r.source /\ x.at = r.at /\ x.value = r.value
                      /\ x.collected <= r.collected

OnePrice ==
  /\ \A r \in prices : r.collected - r.at \in Lags[r.source]
  /\ \A r, s \in prices :
       r.source = s.source /\ (r.at = s.at \/ r.collected = s.collected) => r = s

GateShape == TypeOK /\ Rows /\ OneRow /\ AskedOnce /\ Stored /\ OnePrice

\* What asking a provider does: q is recorded with quality k, S is priced and
\* T is held.
Judges(q, k, S, T) ==
  /\ turn <= Len(Priority)
  /\ now' = now /\ turn' = turn + 1
  /\ q \in Quotes(Priority[turn])
  /\ raw' = Recorded(q, k) /\ prices' = Priced(S) /\ suspects' = T
  /\ S \subseteq suspects \cup {q}
  /\ k # "suspect" => T \subseteq suspects /\ warned' = warned
  /\ k = "suspect" => Hold(q) /\ S = {} /\ T = suspects \cup {q}
  /\ S # {} => (S = {q} \/ T = {}) /\ (Accept(q) \/ Promote(q) \/ Relevel(q))

\* A quote judged suspect or accepted is sane.
LEMMA JudgedSane ==
  ASSUME NEW q, Accept(q) \/ Suspect(q)
  PROVE  q.value \in Sane
<1>1. PICK w : Classify(q.value, w) = "ok" \/ Classify(q.value, w) = "suspect"
  BY DEF Accept, Suspect
<1> QED
  BY <1>1 DEF Classify

\* A step begins a run, skips a provider or judges its quote.
LEMMA StepIs ==
  ASSUME [Next]_vars
  PROVE  \/ UNCHANGED vars
         \/ /\ turn > Len(Priority) /\ now < MaxTime /\ now' = now + 1
            /\ turn' = 1 /\ needed' = TRUE /\ suspects' = {}
            /\ UNCHANGED <<raw, prices, warned>>
         \/ /\ turn <= Len(Priority) /\ now' = now /\ turn' = turn + 1 /\ needed' = needed
            /\ UNCHANGED <<suspects, raw, prices, warned>>
         \/ \E q \in Quotes(Priority[turn]), k \in Qualities :
              \E S, T \in SUBSET (suspects \cup {q}) :
                Judges(q, k, S, T) /\ needed' \in {needed, ~Fresh(q.at)}
<1>1. CASE UNCHANGED vars
  BY <1>1
<1>2. CASE Start
  BY <1>2 DEF Start
<1>3. CASE Skip
  BY <1>3 DEF Skip, Fallback
<1>4. CASE Ask
  <2>1. PICK q \in Quotes(Priority[turn]) :
          Reject(q) \/ Accept(q) \/ Promote(q) \/ Relevel(q) \/ Hold(q)
    BY <1>4 DEF Ask
  <2>2. turn <= Len(Priority)
    BY <1>4 DEF Ask
  <2>3. Priced({}) = prices
    BY DEF Priced
  <2>4. CASE Reject(q)
    <3>1. Judges(q, "outlier", {}, suspects) /\ needed' = needed
      BY <2>2, <2>3, <2>4 DEF Judges, Reject, Fallback
    <3> QED
      BY <3>1 DEF Qualities
  <2>5. CASE Accept(q)
    <3>1. Judges(q, "ok", {q}, suspects) /\ needed' = ~Fresh(q.at)
      BY <2>2, <2>5 DEF Judges, Accept, Satisfy
    <3> QED
      BY <3>1 DEF Qualities
  <2>6. CASE Promote(q)
    <3>1. Confirms(q) \subseteq suspects
      BY DEF Confirms
    <3>2. Judges(q, "ok", Confirms(q) \cup {q}, {}) /\ needed' = ~Fresh(q.at)
      BY <2>2, <2>6, <3>1 DEF Judges, Promote, Satisfy
    <3> QED
      BY <3>1, <3>2 DEF Qualities
  <2>7. CASE Relevel(q)
    <3>1. Judges(q, "ok", {q}, suspects) /\ needed' = ~Fresh(q.at)
      BY <2>2, <2>7 DEF Judges, Relevel, Satisfy
    <3> QED
      BY <3>1 DEF Qualities
  <2>8. CASE Hold(q)
    <3>1. Judges(q, "suspect", {}, suspects \cup {q}) /\ needed' = needed
      BY <2>2, <2>3, <2>8 DEF Judges, Hold, Fallback
    <3> QED
      BY <3>1 DEF Qualities
  <2> QED
    BY <2>1, <2>4, <2>5, <2>6, <2>7, <2>8
<1>5. CASE Peer
  <2>1. PICK q \in Quotes(Priority[turn]) :
          raw' = Recorded(q, IF q.value \in Sane THEN "ok" ELSE "outlier")
    BY <1>5 DEF Peer
  <2> DEFINE k == IF q.value \in Sane THEN "ok" ELSE "outlier"
  <2>2. Priced({}) = prices
    BY DEF Priced
  <2>3. Judges(q, k, {}, suspects) /\ needed' = needed
    BY <1>5, <2>1, <2>2 DEF Judges, Peer, Fallback
  <2> QED
    BY <2>3 DEF Qualities
<1> QED
  BY <1>1, <1>2, <1>3, <1>4, <1>5 DEF Next

\* A provider's quote is of an instant its ticker may be at, not before one it
\* has given.
LEMMA QuoteIs ==
  ASSUME GateShape, turn <= Len(Priority), NEW q \in Quotes(Priority[turn])
  PROVE  /\ q \in Quote
         /\ q = [source |-> q.source, at |-> q.at, value |-> q.value]
         /\ turn \in 1..Len(Priority) /\ now \in Nat
         /\ q.source = Priority[turn] /\ q.source \in Provider
         /\ q.at \in Time /\ q.at \in Nat /\ q.value \in Value
         /\ now - q.at \in Lags[q.source] /\ q.at <= now
         /\ \A x \in raw : x.source = q.source =>
              x.at < q.at \/ (x.at = q.at /\ x.value = q.value)
         /\ ~Asked(q.source)
<1> DEFINE p == Priority[turn]
<1>1. turn \in 1..Len(Priority) /\ p \in Provider /\ now \in Nat /\ Time \subseteq Nat
  BY GateConstants DEF GateShape, TypeOK
<1>2. /\ q \in [source : {p}, at : {now - l : l \in Lags[p]} \cap Time, value : Value]
      /\ \A x \in raw : x.source = p => \/ x.at < q.at
                                        \/ x.at = q.at /\ x.value = q.value
  BY DEF Quotes
<1>3. /\ q.source = p /\ q.at \in Time /\ q.value \in Value
      /\ q = [source |-> q.source, at |-> q.at, value |-> q.value]
      /\ q.at \in {now - l : l \in Lags[p]}
  BY <1>2
<1>4. PICK l \in Lags[p] : q.at = now - l
  BY <1>3
<1>5. l \in Nat /\ q.at \in Nat
  BY <1>1, <1>3, GateConstants
<1>6. now - q.at = l /\ q.at <= now
  BY <1>1, <1>4, <1>5
<1>7. ~Asked(q.source)
  <2> SUFFICES ASSUME NEW i \in 1..turn - 1, Priority[i] = p PROVE FALSE
    BY <1>3 DEF Asked
  <2>1. i \in 1..Len(Priority) /\ i # turn
    BY <1>1, GateConstants
  <2> QED
    BY <1>1, <2>1, GateConstants
<1>8. q \in Quote
  BY <1>1, <1>3 DEF Quote
<1>9. \A x \in raw : x.source = q.source =>
        x.at < q.at \/ (x.at = q.at /\ x.value = q.value)
  <2>1. \A x \in raw : x.source = p => x.at < q.at \/ (x.at = q.at /\ x.value = q.value)
    BY <1>2
  <2>2. q.source = p
    BY <1>3
  <2> HIDE DEF p
  <2> QED
    BY <2>1, <2>2
<1> QED
  BY <1>1, <1>3, <1>5, <1>6, <1>7, <1>8, <1>9

\* Recording a quote keeps the rows and adds at most its own, which is there
\* afterwards.
LEMMA RecordedIs ==
  ASSUME NEW q, NEW k
  PROVE  /\ raw \subseteq Recorded(q, k)
         /\ \A x \in Recorded(q, k) : \/ x \in raw
                                      \/ /\ x = [source |-> q.source, at |-> q.at,
                                                 value |-> q.value, quality |-> k,
                                                 collected |-> now]
                                         /\ ~\E y \in raw : /\ y.source = q.source
                                                            /\ y.at = q.at
                                                            /\ y.value = q.value
         /\ \E x \in Recorded(q, k) : x.source = q.source /\ x.at = q.at /\ x.value = q.value
<1> DEFINE row == [source |-> q.source, at |-> q.at, value |-> q.value, quality |-> k,
                   collected |-> now]
<1> DEFINE known == \E y \in raw : y.source = q.source /\ y.at = q.at /\ y.value = q.value
<1>1. Recorded(q, k) = IF known THEN raw ELSE raw \cup {row}
  BY DEF Recorded
<1>2. row.source = q.source /\ row.at = q.at /\ row.value = q.value
  OBVIOUS
<1>3. CASE known
  BY <1>1, <1>3
<1>4. CASE ~known
  <2>1. Recorded(q, k) = raw \cup {row}
    BY <1>1, <1>4
  <2>2. \E x \in raw \cup {row} : x.source = q.source /\ x.at = q.at /\ x.value = q.value
    BY <1>2
  <2> QED
    BY <1>4, <2>1, <2>2
<1> QED
  BY <1>3, <1>4

\* Pricing quotes keeps the prices, adds some of those quotes, and leaves each
\* with a price of its source and instant.
LEMMA PricedIs ==
  ASSUME NEW S
  PROVE  /\ prices \subseteq Priced(S)
         /\ \A r \in Priced(S) :
              \/ r \in prices
              \/ \E s \in S : /\ r = [source |-> s.source, at |-> s.at, value |-> s.value,
                                      collected |-> now]
                              /\ \A t \in prices : ~(t.source = s.source /\ t.at = s.at)
         /\ \A s \in S : \E r \in Priced(S) : r.source = s.source /\ r.at = s.at
<1> DEFINE row(s) == [source |-> s.source, at |-> s.at, value |-> s.value, collected |-> now]
<1> DEFINE free == {x \in S : \A r \in prices : ~(r.source = x.source /\ r.at = x.at)}
<1>1. Priced(S) = prices \cup {row(x) : x \in free}
  BY DEF Priced
<1>2. \A s \in S : \E r \in Priced(S) : r.source = s.source /\ r.at = s.at
  <2> SUFFICES ASSUME NEW s \in S PROVE \E r \in Priced(S) : r.source = s.source /\ r.at = s.at
    OBVIOUS
  <2>1. CASE s \in free
    <3>1. row(s) \in Priced(S) /\ row(s).source = s.source /\ row(s).at = s.at
      BY <1>1, <2>1
    <3> QED
      BY <3>1
  <2>2. CASE s \notin free
    BY <1>1, <2>2
  <2> QED
    BY <2>1, <2>2
<1>3. ASSUME NEW r \in Priced(S), r \notin prices
      PROVE  \E s \in S : r = row(s) /\ \A t \in prices : ~(t.source = s.source /\ t.at = s.at)
  BY <1>1, <1>3
<1> QED
  BY <1>1, <1>2, <1>3

\* The first state.
LEMMA GateShapeInit == Init => GateShape
<1> SUFFICES ASSUME Init PROVE GateShape
  OBVIOUS
<1>1. /\ now = 0 /\ turn = Len(Priority) + 1 /\ needed = FALSE
      /\ suspects = {} /\ raw = {} /\ prices = {} /\ warned = 0
  BY DEF Init
<1>2. TypeOK
  <2>1. 0 \in 0..MaxTime /\ Len(Priority) + 1 \in 1..Len(Priority) + 1 /\ 0 \in 0..0
    BY GateConstants
  <2> QED
    BY <1>1, <2>1 DEF TypeOK
<1>3. Rows
  BY <1>1, FS_EmptySet DEF Rows
<1> QED
  BY <1>1, <1>2, <1>3 DEF GateShape, OneRow, AskedOnce, Stored, OnePrice

\* A new run finds no row and no price of its own.
LEMMA BeginKeepsShape ==
  ASSUME GateShape, now < MaxTime, now' = now + 1, turn' = 1, needed' = TRUE, suspects' = {},
         UNCHANGED <<raw, prices, warned>>
  PROVE  GateShape'
<1>1. now \in Nat /\ now' \in 0..MaxTime /\ 0..now \subseteq 0..now' /\ 1 \in 1..Len(Priority) + 1
  BY GateConstants DEF GateShape, TypeOK
<1>2. TypeOK'
  <2>1. /\ \A x \in raw : x.at \in Nat /\ x.collected \in x.at..now
        /\ \A x \in prices : x.at \in Nat /\ x.collected \in x.at..now
    BY GateConstants DEF GateShape, TypeOK, Rows
  <2>2. /\ \A x \in raw : x.collected \in x.at..now'
        /\ \A x \in prices : x.collected \in x.at..now'
    BY <1>1, <2>1
  <2>3. /\ suspects' \subseteq Quote /\ now' \in 0..MaxTime /\ turn' \in 1..Len(Priority) + 1
        /\ needed' \in BOOLEAN /\ warned' \in 0..now'
    BY <1>1 DEF GateShape, TypeOK
  <2>4. /\ \A x \in raw' : /\ [source |-> x.source, at |-> x.at, value |-> x.value] \in Quote
                           /\ x.quality \in Qualities
                           /\ x.collected \in x.at..now'
        /\ \A r \in prices' : /\ [source |-> r.source, at |-> r.at, value |-> r.value] \in Quote
                              /\ r.value \in Sane
                              /\ r.collected \in r.at..now'
    BY <2>2 DEF GateShape, TypeOK
  <2> QED
    BY <2>3, <2>4 DEF TypeOK, Quote, Provider, Time, Qualities
<1>3. Rows'
  BY <1>1 DEF GateShape, Rows
<1>4. AskedOnce'
  <2>1. \A x \in raw \cup prices : x.collected # now'
    BY <1>1 DEF GateShape, Rows
  <2> QED
    BY <2>1 DEF AskedOnce
<1> QED
  BY <1>2, <1>3, <1>4 DEF GateShape, OneRow, Stored, OnePrice

\* What a run holds and asks, seen from after the judgement.
LEMMA HeldIs ==
  ASSUME GateShape, NEW q, NEW k \in Qualities, NEW S, NEW T, Judges(q, k, S, T)
  PROVE  /\ Asked(q.source)'
         /\ \A p : Asked(p) => Asked(p)'
         /\ \A s \in S : s \in suspects \/ s = q
         /\ \A s \in T : s \in suspects \/ (s = q /\ k = "suspect")
         /\ \A s \in S : s.value \in Sane
         /\ k = "suspect" => q.value \in Sane /\ S = {}
         /\ \A s \in suspects \cup {q} :
              /\ s \in Quote /\ s.source \in Provider /\ s.at \in Time /\ s.at \in Nat
              /\ s.value \in Value /\ s.at <= now /\ now - s.at \in Lags[s.source]
              /\ Asked(s.source)'
         /\ \A s, t \in suspects \cup {q} : s.source = t.source => s = t
<1> USE DEF Judges
<1>0. turn \in Nat /\ now' = now /\ now \in Nat
  BY GateConstants DEF GateShape, TypeOK
<1>1. /\ q \in Quote /\ q.source = Priority[turn] /\ q.source \in Provider /\ q.at \in Time
      /\ q.at \in Nat /\ q.value \in Value /\ q.at <= now /\ now - q.at \in Lags[q.source]
      /\ turn \in 1..Len(Priority) /\ ~Asked(q.source)
  BY QuoteIs
<1>2. Asked(q.source)'
  BY <1>0, <1>1 DEF Asked
<1>3. \A p : Asked(p) => Asked(p)'
  BY <1>0 DEF Asked
<1>4. ASSUME NEW s \in suspects
      PROVE  /\ s \in Quote /\ s.source \in Provider /\ s.at \in Time /\ s.at \in Nat
             /\ s.value \in Value /\ s.value \in Sane /\ now - s.at \in Lags[s.source]
             /\ Asked(s.source) /\ s.at <= now
  <2>1. /\ s \in Quote /\ s.source \in Provider /\ s.at \in Time
        /\ s.value \in Value /\ s.value \in Sane /\ now - s.at \in Lags[s.source]
        /\ Asked(s.source)
    BY DEF GateShape, TypeOK, Rows, AskedOnce
  <2>2. s.at \in Nat /\ now - s.at \in Nat
    BY <2>1, GateConstants
  <2> QED
    BY <1>0, <2>1, <2>2
<1>5. k = "suspect" => q.value \in Sane /\ S = {}
  BY JudgedSane DEF Hold
<1>6. S # {} => q.value \in Sane
  BY JudgedSane DEF Promote, Relevel
<1>7. \A s, t \in suspects \cup {q} : s.source = t.source => s = t
  BY <1>1, <1>4 DEF GateShape, AskedOnce
<1>8. \A s \in S : s.value \in Sane
  BY <1>4, <1>6
<1> QED
  BY <1>1, <1>2, <1>3, <1>4, <1>5, <1>7, <1>8

\* Judging a quote keeps the shape.
LEMMA JudgeKeepsShape ==
  ASSUME GateShape, NEW q, NEW k \in Qualities, NEW S, NEW T, Judges(q, k, S, T),
         needed' \in BOOLEAN
  PROVE  GateShape'
<1> DEFINE new == [source |-> q.source, at |-> q.at, value |-> q.value, quality |-> k,
                   collected |-> now]
<1> DEFINE price(s) == [source |-> s.source, at |-> s.at, value |-> s.value, collected |-> now]
<1>0. /\ turn <= Len(Priority) /\ now' = now /\ turn' = turn + 1 /\ q \in Quotes(Priority[turn])
      /\ raw' = Recorded(q, k) /\ prices' = Priced(S) /\ suspects' = T
      /\ now \in Nat /\ now \in 0..MaxTime /\ turn \in 1..Len(Priority) /\ Len(Priority) \in Nat
  BY QuoteIs, GateConstants DEF GateShape, TypeOK, Judges
<1>1. /\ \A x \in raw : x.source = q.source => x.at < q.at \/ (x.at = q.at /\ x.value = q.value)
      /\ ~Asked(q.source)
  BY <1>0, QuoteIs
<1>2. /\ raw \subseteq raw'
      /\ \A x \in raw' : \/ x \in raw
                         \/ /\ x = new
                            /\ \A y \in raw : ~(/\ y.source = q.source /\ y.at = q.at
                                                /\ y.value = q.value)
      /\ \E x \in raw' : x.source = q.source /\ x.at = q.at /\ x.value = q.value
  BY <1>0, RecordedIs
<1>3. /\ prices \subseteq prices'
      /\ \A r \in prices' :
           \/ r \in prices
           \/ \E s \in S : /\ r = price(s)
                           /\ \A t \in prices : ~(t.source = s.source /\ t.at = s.at)
  BY <1>0, PricedIs
<1>4. /\ Asked(q.source)'
      /\ \A p : Asked(p) => Asked(p)'
      /\ \A s \in S : s \in suspects \/ s = q
      /\ \A s \in T : s \in suspects \/ (s = q /\ k = "suspect")
      /\ \A s \in S : s.value \in Sane
      /\ k = "suspect" => q.value \in Sane /\ S = {}
      /\ \A s \in suspects \cup {q} :
           /\ s \in Quote /\ s.source \in Provider /\ s.at \in Time /\ s.at \in Nat
           /\ s.value \in Value /\ s.at <= now /\ now - s.at \in Lags[s.source]
           /\ Asked(s.source)'
      /\ \A s, t \in suspects \cup {q} : s.source = t.source => s = t
  BY HeldIs
<1>5. Rows'
  <2>1. IsFiniteSet(raw')
    <3>1. raw' = raw \/ raw' = raw \cup {new}
      BY <1>0 DEF Recorded
    <3>2. IsFiniteSet(raw \cup {new})
      BY FS_AddElement DEF GateShape, Rows
    <3> QED
      BY <3>1, <3>2 DEF GateShape, Rows
  <2>2. ASSUME NEW x \in raw'
        PROVE  /\ x.source \in Provider /\ x.at \in Time /\ x.value \in Value
               /\ x.collected \in Nat /\ x.at <= x.collected /\ x.collected <= now
    <3>1. CASE x \in raw
      BY <3>1 DEF GateShape, Rows
    <3>2. CASE x = new
      BY <1>0, <1>4, <3>2
    <3> QED
      BY <1>2, <3>1, <3>2
  <2>3. ASSUME NEW x \in prices'
        PROVE  /\ x.source \in Provider /\ x.at \in Time /\ x.value \in Value
               /\ x.collected \in Nat /\ x.at <= x.collected /\ x.collected <= now
    <3>1. CASE x \in prices
      BY <3>1 DEF GateShape, Rows
    <3>2. CASE x \notin prices
      <4>1. PICK s \in S : x = price(s)
        BY <1>3, <3>2
      <4> QED
        BY <1>0, <1>4, <4>1
    <3> QED
      BY <3>1, <3>2
  <2>4. \A x \in suspects' :
          x.source \in Provider /\ x.at \in Time /\ x.value \in Value /\ x.value \in Sane
    BY <1>0, <1>4 DEF GateShape, Rows
  <2> QED
    BY <1>0, <2>1, <2>2, <2>3, <2>4 DEF Rows, Provider, Time
<1>6. TypeOK'
  <2>1. now' \in 0..MaxTime /\ turn' \in 1..Len(Priority) + 1 /\ suspects' \subseteq Quote
    BY <1>0, <1>4
  <2>2. ASSUME NEW x \in raw'
        PROVE  /\ [source |-> x.source, at |-> x.at, value |-> x.value] \in Quote
               /\ x.quality \in Qualities
               /\ x.collected \in x.at..now
    <3>1. x.source \in Provider /\ x.at \in Time /\ x.value \in Value /\ x.at \in Nat
          /\ x.collected \in x.at..now
      BY <1>0, <1>5, GateConstants DEF Rows, Provider, Time
    <3>2. x.quality \in Qualities
      <4>1. \A y \in raw : y.quality \in Qualities
        BY DEF GateShape, TypeOK
      <4>2. new.quality = k
        OBVIOUS
      <4> QED
        BY <1>2, <4>1, <4>2
    <3> QED
      BY <3>1, <3>2 DEF Quote
  <2>3. ASSUME NEW x \in prices'
        PROVE  /\ [source |-> x.source, at |-> x.at, value |-> x.value] \in Quote
               /\ x.value \in Sane
               /\ x.collected \in x.at..now
    <3>1. x.source \in Provider /\ x.at \in Time /\ x.value \in Value /\ x.at \in Nat
          /\ x.collected \in x.at..now
      BY <1>0, <1>5, GateConstants DEF Rows, Provider, Time
    <3>2. x.value \in Sane
      <4>1. \A y \in prices : y.value \in Sane
        BY DEF GateShape, TypeOK
      <4>2. \A s \in S : price(s).value \in Sane
        BY <1>4
      <4> QED
        BY <1>3, <4>1, <4>2
    <3> QED
      BY <3>1, <3>2 DEF Quote
  <2>4. warned' \in 0..now'
    <3>1. warned' \in {warned, now}
      BY DEF Judges, Hold
    <3> QED
      BY <1>0, <3>1 DEF GateShape, TypeOK
  <2> QED
    BY <1>0, <2>1, <2>2, <2>3, <2>4 DEF TypeOK, Quote, Provider, Time, Qualities
<1>7. OneRow'
  <2> SUFFICES ASSUME NEW x \in raw', NEW y \in raw', x.source = y.source
               PROVE  /\ x.at < y.at => x.collected < y.collected
                      /\ x.at = y.at => x = y
    BY DEF OneRow
  <2>0. x.at \in Nat /\ y.at \in Nat
    BY <1>5, GateConstants DEF Rows, Provider, Time
  <2>1. CASE x \in raw /\ y \in raw
    BY <2>1 DEF GateShape, OneRow
  <2>2. CASE x \in raw /\ y \notin raw
    <3>1. y = new /\ y.source = q.source /\ y.at = q.at /\ y.collected = now
      BY <1>2, <2>2
    <3>2. x.at < q.at /\ x.collected # now
      BY <1>1, <1>2, <2>2, <3>1 DEF GateShape, AskedOnce
    <3>3. x.collected < now
      BY <1>0, <2>2, <3>2 DEF GateShape, Rows
    <3> QED
      BY <2>0, <3>1, <3>2, <3>3
  <2>3. CASE x \notin raw /\ y \in raw
    <3>1. x = new /\ x.source = q.source /\ x.at = q.at /\ x.collected = now
      BY <1>2, <2>3
    <3>2. y.at < q.at
      BY <1>1, <1>2, <2>3, <3>1
    <3> QED
      BY <2>0, <3>1, <3>2
  <2>4. CASE x \notin raw /\ y \notin raw
    BY <1>2, <2>0, <2>4
  <2> QED
    BY <2>1, <2>2, <2>3, <2>4
<1>8. AskedOnce'
  <2>1. ASSUME NEW x \in raw', x.collected = now PROVE Asked(x.source)'
    BY <1>2, <1>4, <2>1 DEF GateShape, AskedOnce
  <2>2. ASSUME NEW x \in prices', x.collected = now PROVE Asked(x.source)'
    <3>1. CASE x \in prices
      BY <1>4, <2>2, <3>1 DEF GateShape, AskedOnce
    <3>2. CASE x \notin prices
      <4>1. PICK s \in S : x = price(s)
        BY <1>3, <3>2
      <4> QED
        BY <1>4, <4>1
    <3> QED
      BY <3>1, <3>2
  <2>3. ASSUME NEW s \in T
        PROVE  /\ Asked(s.source)' /\ now - s.at \in Lags[s.source]
               /\ \A t \in T : s.source = t.source => s = t
    BY <1>4
  <2>4. ASSUME NEW s \in T, NEW r \in prices', r.source = s.source, r.collected = now
        PROVE  FALSE
    <3>1. CASE r \in prices
      <4>1. s \notin suspects
        BY <2>4, <3>1 DEF GateShape, AskedOnce
      <4>2. s = q /\ ~Asked(r.source)
        BY <1>1, <1>4, <2>4, <4>1
      <4> QED
        BY <2>4, <3>1, <4>2 DEF GateShape, AskedOnce
    <3>2. CASE r \notin prices
      <4>1. PICK t \in S : r = price(t)
        BY <1>3, <3>2
      <4>2. k # "suspect" /\ t = s
        BY <1>4, <2>4, <4>1
      <4>3. s \in suspects
        BY <1>4, <4>2
      <4>4. S = {q}
        BY <2>4, <4>1 DEF Judges
      <4>5. s # q
        BY <1>1, <4>3 DEF GateShape, AskedOnce
      <4> QED
        BY <4>1, <4>2, <4>4, <4>5
    <3> QED
      BY <3>1, <3>2
  <2> QED
    BY <1>0, <2>1, <2>2, <2>3, <2>4 DEF AskedOnce
<1>9. Stored'
  <2>1. ASSUME NEW s \in suspects
        PROVE  \E x \in raw : x.source = s.source /\ x.at = s.at /\ x.value = s.value /\ x.collected <= now
    BY <1>0 DEF GateShape, Stored, Rows
  <2>2. \E x \in raw' : x.source = q.source /\ x.at = q.at /\ x.value = q.value /\ x.collected <= now
    BY <1>2, <1>5, <1>0 DEF Rows
  <2>3. \A s \in suspects \cup {q} :
          \E x \in raw' : x.source = s.source /\ x.at = s.at /\ x.value = s.value /\ x.collected <= now
    BY <1>2, <2>1, <2>2
  <2>4. \A s \in suspects' :
          \E x \in raw' : x.source = s.source /\ x.at = s.at /\ x.value = s.value
    BY <1>0, <1>4, <2>3
  <2>5. ASSUME NEW r \in prices'
        PROVE  \E x \in raw' : /\ x.source = r.source /\ x.at = r.at /\ x.value = r.value
                               /\ x.collected <= r.collected
    <3>1. CASE r \in prices
      BY <1>2, <3>1 DEF GateShape, Stored
    <3>2. CASE r \notin prices
      <4>1. PICK s \in S : r = price(s)
        BY <1>3, <3>2
      <4>2. r.source = s.source /\ r.at = s.at /\ r.value = s.value /\ r.collected = now
        BY <4>1
      <4>3. s \in suspects \cup {q}
        BY <1>4
      <4> QED
        BY <2>3, <4>2, <4>3
    <3> QED
      BY <3>1, <3>2
  <2> QED
    BY <2>4, <2>5 DEF Stored
<1>10. OnePrice'
  <2>1. ASSUME NEW r \in prices', r \notin prices
        PROVE  \E s \in S : /\ r = price(s)
                            /\ r.source = s.source /\ r.at = s.at /\ r.collected = now
                            /\ s \in suspects \cup {q} /\ now - s.at \in Lags[s.source]
                            /\ \A t \in prices : ~(t.source = s.source /\ t.at = s.at)
    <3>1. PICK s \in S : /\ r = price(s)
                         /\ \A t \in prices : ~(t.source = s.source /\ t.at = s.at)
      BY <1>3, <2>1
    <3>2. r.source = s.source /\ r.at = s.at /\ r.collected = now
      BY <3>1
    <3> QED
      BY <1>4, <3>1, <3>2
  <2>2. \A r \in prices' : r.collected - r.at \in Lags[r.source]
    BY <2>1 DEF GateShape, OnePrice
  <2>3. ASSUME NEW r \in prices', NEW s \in prices', r.source = s.source,
               r.at = s.at \/ r.collected = s.collected, r \notin prices
        PROVE  r = s
    <3>1. PICK t \in S : /\ r = price(t) /\ r.source = t.source /\ r.at = t.at
                         /\ r.collected = now /\ t \in suspects \cup {q}
                         /\ \A u \in prices : ~(u.source = t.source /\ u.at = t.at)
      BY <2>1, <2>3
    <3>2. CASE s \in prices
      <4>1. s.collected = now /\ s.source = t.source
        BY <2>3, <3>1, <3>2
      <4>2. Asked(t.source)
        BY <3>2, <4>1 DEF GateShape, AskedOnce
      <4>3. t \in suspects
        BY <1>1, <3>1, <4>2
      <4> QED
        BY <3>2, <4>1, <4>3 DEF GateShape, AskedOnce
    <3>3. CASE s \notin prices
      <4>1. PICK u \in S : s = price(u) /\ s.source = u.source /\ u \in suspects \cup {q}
        BY <2>1, <3>3
      <4>2. u = t
        BY <1>4, <2>3, <3>1, <4>1
      <4> QED
        BY <3>1, <4>1, <4>2
    <3> QED
      BY <3>2, <3>3
  <2>4. ASSUME NEW r \in prices, NEW s \in prices, r.source = s.source,
               r.at = s.at \/ r.collected = s.collected
        PROVE  r = s
    BY <2>4 DEF GateShape, OnePrice
  <2>5. \A r, s \in prices' :
          r.source = s.source /\ (r.at = s.at \/ r.collected = s.collected) => r = s
    BY <2>3, <2>4
  <2> QED
    BY <2>2, <2>5 DEF OnePrice
<1> QED
  BY <1>5, <1>6, <1>7, <1>8, <1>9, <1>10 DEF GateShape

\* The shape is kept.
LEMMA GateShapeKept ==
  ASSUME GateShape, [Next]_vars
  PROVE  GateShape'
<1>1. CASE UNCHANGED vars
  BY <1>1 DEF vars, GateShape, TypeOK, Rows, OneRow, AskedOnce, Asked, Stored, OnePrice,
              Quote, Provider, Time, Qualities
<1>2. CASE /\ turn > Len(Priority) /\ now < MaxTime /\ now' = now + 1
           /\ turn' = 1 /\ needed' = TRUE /\ suspects' = {}
           /\ UNCHANGED <<raw, prices, warned>>
  BY <1>2, BeginKeepsShape
<1>3. CASE /\ turn <= Len(Priority) /\ now' = now /\ turn' = turn + 1 /\ needed' = needed
           /\ UNCHANGED <<suspects, raw, prices, warned>>
  <2>1. turn' \in 1..Len(Priority) + 1 /\ turn \in Nat
    BY <1>3, GateConstants DEF GateShape, TypeOK
  <2>2. TypeOK'
    BY <1>3, <2>1 DEF GateShape, TypeOK, Quote, Provider, Time, Qualities
  <2>3. \A p : Asked(p) => Asked(p)'
    BY <1>3, <2>1 DEF Asked
  <2>4. AskedOnce'
    BY <1>3, <2>3 DEF GateShape, AskedOnce
  <2> QED
    BY <1>3, <2>2, <2>4 DEF GateShape, Rows, OneRow, Stored, OnePrice, Provider, Time
<1>4. CASE \E q \in Quotes(Priority[turn]), k \in Qualities :
             \E S, T \in SUBSET (suspects \cup {q}) :
               Judges(q, k, S, T) /\ needed' \in {needed, ~Fresh(q.at)}
  <2>1. PICK q \in Quotes(Priority[turn]), k \in Qualities :
               \E S, T \in SUBSET (suspects \cup {q}) :
                 Judges(q, k, S, T) /\ needed' \in {needed, ~Fresh(q.at)}
    BY <1>4
  <2>2. PICK S, T \in SUBSET (suspects \cup {q}) :
               Judges(q, k, S, T) /\ needed' \in {needed, ~Fresh(q.at)}
    BY <2>1
  <2>3. needed \in BOOLEAN /\ (~Fresh(q.at)) \in BOOLEAN
    <3>1. needed \in BOOLEAN
      BY DEF GateShape, TypeOK
    <3>2. (~Fresh(q.at)) \in BOOLEAN
      BY DEF Fresh
    <3> QED
      BY <3>1, <3>2
  <2>4. needed' \in BOOLEAN
    BY <2>2, <2>3
  <2> QED
    BY <2>2, <2>4, JudgeKeepsShape
<1> QED
  BY <1>1, <1>2, <1>3, <1>4, StepIs

-----------------------------------------------------------------------------
(* The streak of a quote that no row of its source is as new as.            *)

Own(p) == {x \in raw : x.source = p}
Newer(p, y) == {z \in Own(p) : z.at > y.at}

\* A source's history: rows of one instant are one row, and what is newer than
\* a row of it is in it.
LEMMA HistoryIs ==
  ASSUME GateShape, NEW p
  PROVE  /\ Own(p) \subseteq raw /\ IsFiniteSet(Own(p)) /\ History(p) \subseteq Own(p)
         /\ IsFiniteSet(History(p))
         /\ \A y \in Own(p) : /\ y.source = p /\ y.at \in Time /\ y.at \in Nat
                              /\ IsFiniteSet(Newer(p, y)) /\ Cardinality(Newer(p, y)) \in Nat
                              /\ y \in History(p) <=> Cardinality(Newer(p, y)) < HistoryLimit
         /\ \A y, z \in Own(p) : y.at = z.at => y = z
         /\ \A y \in History(p), z \in Own(p) : z.at >= y.at => z \in History(p)
<1>1. Own(p) \subseteq raw /\ IsFiniteSet(Own(p))
  BY FS_Subset DEF Own, GateShape, Rows
<1>2. History(p) = {y \in Own(p) : Cardinality(Newer(p, y)) < HistoryLimit}
  BY DEF History, Own, Newer
<1>3. \A y \in Own(p) : y.source = p /\ y.at \in Time /\ y.at \in Nat
  BY GateConstants DEF Own, GateShape, Rows
<1>4. \A y \in Own(p) : Newer(p, y) \subseteq Own(p) /\ IsFiniteSet(Newer(p, y))
  BY <1>1, FS_Subset DEF Newer
<1>5. \A y \in Own(p) : Cardinality(Newer(p, y)) \in Nat
  BY <1>4, FS_CardinalityType
<1>6. \A y, z \in Own(p) : y.at = z.at => y = z
  BY DEF Own, GateShape, OneRow
<1>7. ASSUME NEW y \in History(p), NEW z \in Own(p), z.at >= y.at PROVE z \in History(p)
  <2>1. y \in Own(p) /\ Cardinality(Newer(p, y)) < HistoryLimit
    BY <1>2
  <2>2. Newer(p, z) \subseteq Newer(p, y)
    BY <1>3, <1>7, <2>1 DEF Newer
  <2>3. Cardinality(Newer(p, z)) <= Cardinality(Newer(p, y))
    BY <1>4, <2>1, <2>2, FS_Subset
  <2>4. Cardinality(Newer(p, z)) < HistoryLimit
    BY <1>5, <2>1, <2>3, GateAssumption
  <2> QED
    BY <1>2, <2>4
<1>8. History(p) \subseteq Own(p) /\ IsFiniteSet(History(p))
  BY <1>1, <1>2, FS_Subset
<1> QED
  BY <1>1, <1>2, <1>3, <1>4, <1>5, <1>6, <1>7, <1>8

\* The rows a streak is made of.
Grain(q) ==
  LET hist == History(q.source)
      breaks == {x \in hist : x.quality # "suspect" \/ ~Agree(q.value, x.value)}
  IN {y \in hist : y.at < q.at /\ \A b \in breaks : b.at < y.at}

\* A streak is finite and ends with its quote; its rows are one per instant,
\* suspect and of the quote's level, and reach back without a gap.
LEMMA StreakIs ==
  ASSUME GateShape, NEW q, q.at \in Time
  PROVE  /\ Streak(q) = {q.at} \cup {x.at : x \in Grain(q)}
         /\ IsFiniteSet(Grain(q)) /\ IsFiniteSet(Streak(q))
         /\ Streak(q) \in SUBSET (0..q.at) /\ q.at \in Nat
         /\ Max(Streak(q)) = q.at
         /\ Min(Streak(q)) \in Streak(q) /\ \A t \in Streak(q) : Min(Streak(q)) <= t
         /\ Cardinality(Streak(q)) = Cardinality(Grain(q)) + 1
         /\ Cardinality(Grain(q)) \in Nat
         /\ \A y \in Grain(q) : /\ y \in Own(q.source) /\ y \in History(q.source)
                                /\ y.at < q.at /\ y.at \in Nat
                                /\ y.quality = "suspect" /\ Agree(q.value, y.value)
         /\ \A y \in Grain(q), z \in Own(q.source) :
              y.at <= z.at /\ z.at < q.at => z \in Grain(q)
<1> DEFINE p == q.source
<1> DEFINE hist == History(p)
<1> DEFINE breaks == {x \in hist : x.quality # "suspect" \/ ~Agree(q.value, x.value)}
<1> DEFINE G == Grain(q)
<1>1. G = {y \in hist : y.at < q.at /\ \A b \in breaks : b.at < y.at}
  BY DEF Grain
<1>2. Streak(q) = {q.at} \cup {x.at : x \in G}
  BY DEF Streak, Grain
<1>3. /\ hist \subseteq Own(p) /\ IsFiniteSet(hist)
      /\ \A y \in Own(p) : y.at \in Time /\ y.at \in Nat
      /\ \A y, z \in Own(p) : y.at = z.at => y = z
      /\ \A y \in hist, z \in Own(p) : z.at >= y.at => z \in hist
  BY HistoryIs
<1>4. q.at \in Nat
  BY GateConstants
<1>5. \A y \in G : y \in Own(p) /\ y \in hist /\ y.at < q.at /\ y.at \in Nat
  BY <1>1, <1>3
<1>6. \A y \in G : y.quality = "suspect" /\ Agree(q.value, y.value)
  <2> SUFFICES ASSUME NEW y \in G, y \in breaks PROVE FALSE
    BY <1>5
  <2> QED
    BY <1>1, <1>5
<1>7. ASSUME NEW y \in G, NEW z \in Own(p), y.at <= z.at, z.at < q.at PROVE z \in G
  <2>1. z \in hist
    BY <1>3, <1>5, <1>7
  <2>2. \A b \in breaks : b.at < z.at
    <3> TAKE b \in breaks
    <3>1. b.at < y.at /\ b.at \in Nat
      BY <1>1, <1>3
    <3> QED
      BY <1>3, <1>5, <1>7, <3>1
  <2> QED
    BY <1>1, <1>7, <2>1, <2>2
<1>8. IsFiniteSet(G) /\ Cardinality(G) \in Nat
  BY <1>1, <1>3, FS_Subset, FS_CardinalityType
<1> DEFINE A == {x.at : x \in G}
<1>9. IsFiniteSet(A) /\ Cardinality(A) = Cardinality(G)
  <2> HIDE DEF G
  <2> DEFINE f == [x \in G |-> x.at]
  <2>1. f \in [G -> A] /\ \A t \in A : \E x \in G : f[x] = t
    OBVIOUS
  <2>2. \A x, y \in G : f[x] = f[y] => x = y
    BY <1>3, <1>5
  <2>3. f \in Surjection(G, A)
    BY <2>1 DEF Surjection
  <2>4. f \in Injection(G, A)
    BY <2>1, <2>2 DEF Injection, IsInjective
  <2> QED
    BY <1>8, <2>3, <2>4, FS_Surjection
<1>10. q.at \notin A
  BY <1>4, <1>5
<1>11. IsFiniteSet(Streak(q)) /\ Cardinality(Streak(q)) = Cardinality(G) + 1
  <2>1. IsFiniteSet(A \cup {q.at}) /\ Cardinality(A \cup {q.at}) = Cardinality(A) + 1
    BY <1>9, <1>10, FS_AddElement
  <2>2. Streak(q) = A \cup {q.at}
    BY <1>2
  <2> QED
    BY <1>9, <2>1, <2>2
<1>12. Streak(q) \in SUBSET (0..q.at) /\ Streak(q) \in SUBSET Nat /\ q.at \in Streak(q)
  BY <1>2, <1>4, <1>5
<1>13. Max(Streak(q)) = q.at
  <2>1. Max(Streak(q)) \in Streak(q) /\ q.at <= Max(Streak(q))
    BY <1>4, <1>12, MaxIs
  <2> QED
    BY <1>4, <1>12, <2>1
<1>14. Min(Streak(q)) \in Streak(q) /\ \A t \in Streak(q) : Min(Streak(q)) <= t
  BY <1>12, MinIs
<1> QED
  BY <1>2, <1>4, <1>5, <1>6, <1>7, <1>8, <1>11, <1>12, <1>13, <1>14

\* A history that leaves a row out holds HistoryLimit newer ones.
LEMMA HistoryIsFull ==
  ASSUME GateShape, NEW p, NEW y \in Own(p), y \notin History(p)
  PROVE  Cardinality({x \in History(p) : x.at > y.at}) >= HistoryLimit
<1> DEFINE O == Own(p)
<1> DEFINE R == {ss \in O \X O : ss[1].at > ss[2].at}
<1> DEFINE H == {x \in History(p) : x.at > y.at}
<1>1. /\ IsFiniteSet(O) /\ IsFiniteSet(History(p)) /\ History(p) \subseteq O
      /\ \A x \in O : /\ x.at \in Nat /\ Cardinality(Newer(p, x)) \in Nat
                      /\ IsFiniteSet(Newer(p, x))
                      /\ x \in History(p) <=> Cardinality(Newer(p, x)) < HistoryLimit
      /\ \A x, z \in O : x.at = z.at => x = z
  BY HistoryIs
<1>2. HistoryLimit \in Nat
  BY GateAssumption
<1>3. StrictOrder(O, R)
  <2>1. \A x, z \in O : <<x, z>> \in R <=> x.at > z.at
    OBVIOUS
  <2> HIDE DEF R
  <2> QED
    BY <1>1, <2>1 DEF StrictOrder
<1>4. \A x \in O : Lower(O, R, x) = Newer(p, x)
  BY DEF Lower, Newer
<1>5. Cardinality(Newer(p, y)) >= HistoryLimit /\ Cardinality(Newer(p, y)) <= Cardinality(O)
  <2>1. Newer(p, y) \subseteq O
    BY DEF Newer
  <2> QED
    BY <1>1, <1>2, <2>1, FS_Subset
<1>6. IsFiniteSet(H) /\ Cardinality(H) \in Nat
  BY <1>1, FS_Subset, FS_CardinalityType
<1>7. ASSUME NEW k \in 0..(HistoryLimit - 1)
      PROVE  \E x \in H : Cardinality(Newer(p, x)) = k
  <2>1. Cardinality(O) \in Nat /\ Cardinality(Newer(p, y)) \in Nat
    BY <1>1, FS_CardinalityType
  <2>2. k \in Nat /\ k < HistoryLimit /\ k < Cardinality(O)
    BY <1>2, <1>5, <2>1
  <2> HIDE DEF O, R
  <2>3. \E x \in O : Cardinality(Lower(O, R, x)) = k
    BY <1>1, <1>3, <2>2, HasRank
  <2>4. PICK x \in O : Cardinality(Newer(p, x)) = k
    BY <1>4, <2>3
  <2>5. x \in History(p)
    BY <1>1, <2>2, <2>4
  <2>6. x.at > y.at
    <3> SUFFICES ASSUME x.at <= y.at PROVE FALSE
      BY <1>1 DEF O
    <3>1. Newer(p, y) \subseteq Newer(p, x)
      <4>1. x.at \in Nat /\ y.at \in Nat /\ \A z \in Own(p) : z.at \in Nat
        BY <1>1 DEF O
      <4> QED
        BY <4>1 DEF Newer
    <3>2. Cardinality(Newer(p, y)) <= Cardinality(Newer(p, x))
      BY <1>1, <3>1, FS_Subset
    <3> QED
      BY <1>2, <1>5, <2>1, <2>2, <2>4, <3>2
  <2> QED
    BY <2>4, <2>5, <2>6
<1> DEFINE f == [x \in H |-> Cardinality(Newer(p, x))]
<1> DEFINE I == {f[x] : x \in H}
<1>8. IsFiniteSet(I) /\ Cardinality(I) <= Cardinality(H)
  <2>1. f \in [H -> I] /\ \A t \in I : \E x \in H : f[x] = t
    OBVIOUS
  <2>2. f \in Surjection(H, I)
    BY <2>1 DEF Surjection
  <2> QED
    BY <1>6, <2>2, FS_Surjection
<1>9. 0..(HistoryLimit - 1) \subseteq I
  BY <1>7
<1>10. Cardinality(0..(HistoryLimit - 1)) = HistoryLimit
  BY <1>2, FS_Interval
<1> HIDE DEF I
<1>11. HistoryLimit <= Cardinality(I)
  <2>1. 0..(HistoryLimit - 1) \in SUBSET I /\ IsFiniteSet(I)
    BY <1>8, <1>9
  <2>2. Cardinality(0..(HistoryLimit - 1)) <= Cardinality(I)
    BY <2>1, FS_Subset
  <2> QED
    BY <1>10, <2>2
<1>12. Cardinality(I) \in Nat
  BY <1>8, FS_CardinalityType
<1> QED
  BY <1>2, <1>6, <1>8, <1>11, <1>12

\* A run of suspects of the quote's level that began at an instant is what its
\* streak sees, or fills the history.
LEMMA StreakSeesRun ==
  ASSUME GateShape, NEW q, q.at \in Time, NEW since \in Time,
         \A y \in Own(q.source) : y.at < q.at,
         \E y \in Run(q, since) \cup {q} : y.at = since,
         \A y \in Run(q, since) : y.quality = "suspect" /\ Agree(q.value, y.value),
         Began(q, since)
  PROVE  /\ Min(Streak(q)) >= since
         /\ \/ /\ Cardinality(Streak(q)) = Cardinality(Run(q, since)) + 1
               /\ Min(Streak(q)) = since
            \/ /\ Cardinality(Streak(q)) >= HistoryLimit + 1
               /\ q.at - Min(Streak(q)) >= HistoryLimit
<1> DEFINE p == q.source
<1> DEFINE R == Run(q, since)
<1> DEFINE G == Grain(q)
<1>1. /\ Own(p) \subseteq raw /\ IsFiniteSet(Own(p)) /\ History(p) \subseteq Own(p)
      /\ \A y \in Own(p) : y.source = p /\ y.at \in Time /\ y.at \in Nat
      /\ \A y, z \in Own(p) : y.at = z.at => y = z
      /\ \A y \in History(p), z \in Own(p) : z.at >= y.at => z \in History(p)
  BY HistoryIs
<1>2. /\ Streak(q) = {q.at} \cup {x.at : x \in G}
      /\ IsFiniteSet(G) /\ Cardinality(G) \in Nat
      /\ q.at \in Nat /\ since \in Nat
      /\ Min(Streak(q)) \in Streak(q) /\ \A t \in Streak(q) : Min(Streak(q)) <= t
      /\ Streak(q) \in SUBSET (0..q.at)
      /\ Cardinality(Streak(q)) = Cardinality(G) + 1
      /\ \A y \in G : y \in Own(p) /\ y \in History(p) /\ y.at < q.at /\ y.at \in Nat
  BY StreakIs, GateConstants
<1>3. R = {y \in Own(p) : y.at >= since}
  BY <1>1, <1>2 DEF Run, Own
<1>4. ASSUME NEW y \in R, y \in History(p) PROVE y \in G
  <2>1. ASSUME NEW b \in History(p), b.quality # "suspect" \/ ~Agree(q.value, b.value)
        PROVE  b.at < y.at
    <3> SUFFICES ASSUME b.at >= y.at PROVE FALSE
      BY <1>1, <1>3
    <3>1. b \in R
      BY <1>1, <1>2, <1>3
    <3> QED
      BY <2>1, <3>1
  <2> QED
    BY <1>3, <1>4, <2>1 DEF Grain
<1>5. ASSUME NEW g \in G PROVE g \in R
  <2> SUFFICES ASSUME g.at < since PROVE FALSE
    BY <1>2, <1>3
  <2> DEFINE before == {y \in raw : y.source = q.source /\ y.at < since}
  <2> DEFINE ats == {y.at : y \in before}
  <2>1. \A y \in before : y \in Own(p) /\ y.at \in Nat
    BY <1>1 DEF Own
  <2>2. ats \in SUBSET (0..since) /\ g \in before /\ g.at \in ats
    BY <1>1, <1>2, <2>1
  <2>3. PICK m \in ats : \A t \in ats : t <= m
    BY <1>2, <2>2, Greatest
  <2>4. PICK z \in before : z.at = m
    BY <2>3
  <2>5. ~(z.quality = "suspect" /\ Agree(q.value, z.value))
    <3>1. ~\E y \in before : y.at > z.at
      BY <2>1, <2>3, <2>4
    <3> QED
      BY <3>1 DEF Began
  <2>6. z.at >= g.at /\ z \in History(p)
    BY <1>1, <1>2, <2>1, <2>2, <2>3, <2>4
  <2>7. z.at < g.at
    BY <2>5, <2>6 DEF Grain
  <2> QED
    BY <1>2, <2>1, <2>6, <2>7
<1>6. Min(Streak(q)) >= since
  <2>1. q.at >= since
    BY <1>1, <1>2, <1>3
  <2> QED
    BY <1>2, <1>3, <1>5, <2>1
<1>7. CASE R \subseteq History(p)
  <2>1. G = R
    BY <1>4, <1>5, <1>7
  <2>2. since \in Streak(q)
    BY <1>2, <2>1
  <2>3. Min(Streak(q)) = since
    BY <1>2, <1>6, <2>2
  <2> QED
    BY <1>2, <1>6, <2>1, <2>3
<1>8. CASE ~(R \subseteq History(p))
  <2>1. PICK y \in R : y \notin History(p)
    BY <1>8
  <2> DEFINE H == {x \in History(p) : x.at > y.at}
  <2>2. Cardinality(H) >= HistoryLimit
    BY <1>3, <2>1, HistoryIsFull
  <2>3. H \subseteq G
    BY <1>1, <1>2, <1>3, <1>4
  <2>4. Cardinality(H) <= Cardinality(G) /\ IsFiniteSet(H)
    BY <1>2, <2>3, FS_Subset
  <2>5. Cardinality(H) \in Nat /\ HistoryLimit \in Nat
    BY <2>4, FS_CardinalityType, GateAssumption
  <2>6. Cardinality(Streak(q)) >= HistoryLimit + 1
    BY <1>2, <2>2, <2>4, <2>5
  <2>7. q.at - Min(Streak(q)) >= HistoryLimit
    <3> DEFINE a == Min(Streak(q))
    <3>1. a \in Nat /\ a <= q.at /\ Streak(q) \subseteq a..q.at
      BY <1>2
    <3> HIDE DEF a
    <3>2. IsFiniteSet(a..q.at) /\ Cardinality(a..q.at) = q.at - a + 1
      <4>1. a \in Int /\ q.at \in Int /\ ~(a > q.at)
        BY <1>2, <3>1
      <4> DEFINE b == q.at
      <4> HIDE DEF b
      <4>2. b \in Int /\ ~(a > b)
        BY <4>1 DEF b
      <4>3. IsFiniteSet(a..b) /\ Cardinality(a..b) = b - a + 1
        BY <4>1, <4>2, FS_Interval
      <4> QED
        BY <4>3 DEF b
    <3>3. Cardinality(Streak(q)) <= Cardinality(a..q.at)
      BY <3>1, <3>2, FS_Subset
    <3> QED
      BY <1>2, <2>5, <2>6, <3>1, <3>2, <3>3 DEF a
  <2> QED
    BY <1>6, <2>6, <2>7
<1> QED
  BY <1>7, <1>8

-----------------------------------------------------------------------------
(* What a step leaves as it was.                                            *)

\* Rows and prices stay; a new row is newer than its source's others, and a
\* new price is of this run.
LEMMA TablesGrow ==
  ASSUME GateShape, [Next]_vars
  PROVE  /\ raw \subseteq raw' /\ prices \subseteq prices'
         /\ \A y \in raw' : y \in raw \/ \A x \in raw : x.source = y.source => x.at < y.at
         /\ \A r \in prices' : r \in prices \/ (r.collected = now /\ now' = now)
<1>1. CASE UNCHANGED <<raw, prices>>
  BY <1>1
<1>2. CASE \E q \in Quotes(Priority[turn]), k \in Qualities :
             \E S, T \in SUBSET (suspects \cup {q}) : Judges(q, k, S, T)
  <2>1. PICK q \in Quotes(Priority[turn]), k \in Qualities :
               \E S, T \in SUBSET (suspects \cup {q}) : Judges(q, k, S, T)
    BY <1>2
  <2>2. PICK S, T \in SUBSET (suspects \cup {q}) : Judges(q, k, S, T)
    BY <2>1
  <2>3. /\ turn <= Len(Priority) /\ now' = now
        /\ raw' = Recorded(q, k) /\ prices' = Priced(S)
    BY <2>2 DEF Judges
  <2>4. \A x \in raw : x.source = q.source => x.at < q.at \/ (x.at = q.at /\ x.value = q.value)
    BY <2>3, QuoteIs
  <2>5. /\ raw \subseteq raw'
        /\ \A y \in raw' :
             \/ y \in raw
             \/ \A x \in raw : x.source = y.source => x.at < y.at
    BY <2>3, <2>4, RecordedIs
  <2>6. /\ prices \subseteq prices'
        /\ \A r \in prices' : r \in prices \/ r.collected = now
    BY <2>3, PricedIs
  <2> QED
    BY <2>3, <2>5, <2>6
<1> QED
  BY <1>1, <1>2, StepIs DEF vars

\* What a source's rows say up to a row of it, they say ever after.
LEMMA RunsStay ==
  ASSUME GateShape, [Next]_vars, NEW x, NEW y \in raw, y.source = x.source, y.at = x.at,
         NEW since \in Time, since <= x.at
  PROVE  /\ Run(x, since)' = Run(x, since)
         /\ Insisted(x, since)' <=> Insisted(x, since)
         /\ Began(x, since)' <=> Began(x, since)
         /\ Delivered(x, since) => Delivered(x, since)'
<1>1. /\ raw \subseteq raw' /\ prices \subseteq prices'
      /\ \A z \in raw' : z \in raw \/ (z.source = x.source => x.at < z.at)
  BY TablesGrow
<1>2. since \in Nat /\ x.at \in Nat /\ \A z \in raw : z.at \in Nat
  BY GateConstants DEF GateShape, Rows
<1>3. \A z \in raw' : z.at \in Nat
  BY GateShapeKept, GateConstants DEF GateShape, Rows, Time
<1>4. Run(x, since)' = Run(x, since)
  BY <1>1, <1>2, <1>3 DEF Run
<1>5. Insisted(x, since)' <=> Insisted(x, since)
  BY <1>4 DEF Insisted
<1>6. {z \in raw' : z.source = x.source /\ z.at < since}
        = {z \in raw : z.source = x.source /\ z.at < since}
  BY <1>1, <1>2, <1>3
<1>7. Began(x, since)' <=> Began(x, since)
  BY <1>6 DEF Began
<1>8. Delivered(x, since) => Delivered(x, since)'
  BY <1>1 DEF Delivered
<1> QED
  BY <1>4, <1>5, <1>7, <1>8

-----------------------------------------------------------------------------
(* A level that is sustained is let through.                                *)

\* No quote is held whose streak is long enough, or is frozen and has not been
\* warned about.
LEMMA HeldRunIs ==
  ASSUME GateShape, GateShape', NEW q, NEW x, Judges(q, "suspect", {}, suspects \cup {q}),
         x \in raw', x \notin raw, NEW since \in Time,
         \E y \in Run(x, since)' \cup {x} : y.at = since,
         \A y \in Run(x, since)' : y.quality = "suspect" /\ Agree(x.value, y.value),
         Began(x, since)',
         ~Delivered(x, since)'
  PROVE  /\ Hold(q) /\ x.source = q.source /\ x.at = q.at /\ x.value = q.value
         /\ x.collected = now /\ since <= q.at /\ q.at <= now
         /\ Run(x, since)' = Run(q, since) /\ Cardinality(Run(q, since)) \in Nat
         /\ Frozen(Streak(q))
         /\ Cardinality(Streak(q)) \in Nat
         /\ \/ /\ Cardinality(Streak(q)) = Cardinality(Run(q, since)) + 1
               /\ Max(Streak(q)) - Min(Streak(q)) = q.at - since
            \/ /\ Cardinality(Streak(q)) >= HistoryLimit + 1
               /\ Max(Streak(q)) - Min(Streak(q)) >= HistoryLimit
<1>1. /\ turn <= Len(Priority) /\ now' = now /\ q \in Quotes(Priority[turn])
      /\ raw' = Recorded(q, "suspect") /\ prices' = Priced({}) /\ Hold(q)
  BY DEF Judges
<1>2. /\ q.source \in Provider /\ q.at \in Time /\ q.at \in Nat /\ q.at <= now
      /\ q.value \in Value /\ now \in Nat
      /\ \A y \in raw : y.source = q.source =>
           y.at < q.at \/ (y.at = q.at /\ y.value = q.value)
  BY <1>1, QuoteIs
<1>3. /\ x = [source |-> q.source, at |-> q.at, value |-> q.value, quality |-> "suspect",
              collected |-> now]
      /\ ~\E y \in raw : y.source = q.source /\ y.at = q.at /\ y.value = q.value
      /\ raw \subseteq raw'
  BY <1>1, RecordedIs
<1>4. /\ x.source = q.source /\ x.at = q.at /\ x.value = q.value /\ x.collected = now
  BY <1>3
<1>5. \A y \in Own(q.source) : y.at < q.at /\ y.at \in Nat
  BY <1>2, <1>3, HistoryIs DEF Own
<1>6. prices' = prices
  BY <1>1 DEF Priced
<1>7. \A y \in raw' : y \in raw \/ y = x
  BY <1>1, <1>3, RecordedIs
<1>8. since \in Nat
  BY GateConstants
<1>9. Run(x, since)' = Run(q, since)
  BY <1>2, <1>3, <1>4, <1>7 DEF Run
<1>10. since <= q.at
  BY <1>2, <1>4, <1>5, <1>8, <1>9 DEF Run, Own
<1>11. Began(q, since)
  <2>1. {y \in raw' : y.source = x.source /\ y.at < since}
          = {y \in raw : y.source = q.source /\ y.at < since}
    BY <1>2, <1>3, <1>4, <1>7, <1>8, <1>10
  <2> QED
    BY <1>4, <2>1 DEF Began
<1>12. /\ \E y \in Run(q, since) \cup {q} : y.at = since
       /\ \A y \in Run(q, since) : y.quality = "suspect" /\ Agree(q.value, y.value)
  BY <1>4, <1>9
<1>13. /\ Min(Streak(q)) >= since
       /\ \/ /\ Cardinality(Streak(q)) = Cardinality(Run(q, since)) + 1
             /\ Min(Streak(q)) = since
          \/ /\ Cardinality(Streak(q)) >= HistoryLimit + 1
             /\ q.at - Min(Streak(q)) >= HistoryLimit
  BY <1>2, <1>5, <1>11, <1>12, StreakSeesRun
<1>14. /\ Max(Streak(q)) = q.at /\ Min(Streak(q)) \in Nat
       /\ Cardinality(Streak(q)) \in Nat
  BY <1>2, StreakIs, FS_CardinalityType
<1>15. Frozen(Streak(q))
  <2> SUFFICES ASSUME NEW r \in prices PROVE r.at < Min(Streak(q))
    BY DEF Frozen
  <2>1. r.collected <= now /\ r.at \in Nat
    BY GateConstants DEF GateShape, Rows
  <2>2. ~(r.source = q.source /\ r.at = q.at)
    <3> SUFFICES ASSUME r.source = q.source, r.at = q.at PROVE FALSE
      OBVIOUS
    <3>1. PICK y \in raw : y.source = r.source /\ y.at = r.at
      BY DEF GateShape, Stored
    <3> QED
      BY <1>2, <1>3, <3>1
  <2>3. ~(r.at >= since)
    BY <1>4, <1>6, <2>1, <2>2 DEF Delivered
  <2> QED
    BY <1>8, <1>13, <1>14, <2>1, <2>3
<1>16. Cardinality(Run(q, since)) \in Nat
  <2>1. Run(q, since) \in SUBSET raw
    BY DEF Run
  <2> QED
    BY <2>1, FS_Subset, FS_CardinalityType DEF GateShape, Rows
<1> QED
  BY <1>1, <1>2, <1>4, <1>9, <1>10, <1>13, <1>14, <1>15, <1>16

\* A new suspect row is a held quote's.
LEMMA SuspectIsHeld ==
  ASSUME GateShape, [Next]_vars, NEW x \in raw', x \notin raw, x.quality = "suspect"
  PROVE  \E q : Judges(q, "suspect", {}, suspects \cup {q})
<1>1. PICK q \in Quotes(Priority[turn]), k \in Qualities :
             \E S, T \in SUBSET (suspects \cup {q}) : Judges(q, k, S, T)
  BY StepIs DEF vars
<1>2. PICK S, T \in SUBSET (suspects \cup {q}) : Judges(q, k, S, T)
  BY <1>1
<1>3. x.quality = k
  BY <1>2, RecordedIs DEF Judges
<1>4. S = {} /\ T = suspects \cup {q}
  BY <1>2, <1>3 DEF Judges
<1> QED
  BY <1>2, <1>3, <1>4

\* No step holds a level its source has sustained.
LEMMA NoTrapdoorKept ==
  ASSUME GateShape, GateShape', NoTrapdoor, [Next]_vars
  PROVE  NoTrapdoor'
<1> SUFFICES ASSUME NEW x \in raw', NEW since \in Time, x.quality = "suspect",
                    Insisted(x, since)', Began(x, since)', ~Delivered(x, since)'
             PROVE  \E r \in prices' : r.source = x.source /\ r.at = x.at
  BY DEF NoTrapdoor, Time
<1>1. CASE x \in raw
  <2>1. x.at \in Nat /\ since \in Nat /\ \A y \in raw' : y.at \in Nat
    BY <1>1, GateConstants DEF GateShape, Rows, Time
  <2>2. since <= x.at
    BY <2>1 DEF Insisted, Run
  <2>3. Insisted(x, since) /\ Began(x, since) /\ ~Delivered(x, since)
    BY <1>1, <2>2, RunsStay
  <2>4. PICK r \in prices : r.source = x.source /\ r.at = x.at
    BY <1>1, <2>3 DEF NoTrapdoor
  <2> QED
    BY <2>4, TablesGrow
<1>2. CASE x \notin raw
  <2>1. PICK q : Judges(q, "suspect", {}, suspects \cup {q})
    BY <1>2, SuspectIsHeld
  <2>2. /\ \E y \in Run(x, since)' \cup {x} : y.at = since
        /\ \A y \in Run(x, since)' : y.quality = "suspect" /\ Agree(x.value, y.value)
        /\ Cardinality(Run(x, since)') + 1 >= SustainMin
        /\ x.at - since >= SustainSpan
    BY DEF Insisted
  <2>3. /\ Hold(q) /\ x.at = q.at
        /\ Run(x, since)' = Run(q, since) /\ Cardinality(Run(q, since)) \in Nat
        /\ Frozen(Streak(q))
        /\ Cardinality(Streak(q)) \in Nat
        /\ \/ /\ Cardinality(Streak(q)) = Cardinality(Run(q, since)) + 1
              /\ Max(Streak(q)) - Min(Streak(q)) = q.at - since
           \/ /\ Cardinality(Streak(q)) >= HistoryLimit + 1
              /\ Max(Streak(q)) - Min(Streak(q)) >= HistoryLimit
    BY <1>2, <2>1, <2>2, HeldRunIs
  <2>4. /\ SustainMin \in Nat /\ SustainSpan \in Nat /\ HistoryLimit \in Nat
        /\ HistoryLimit + 1 >= SustainMin /\ HistoryLimit >= SustainSpan
    BY GateAssumption
  <2>5. /\ Cardinality(Streak(q)) >= SustainMin
        /\ Max(Streak(q)) - Min(Streak(q)) >= SustainSpan
    <3> DEFINE c == Cardinality(Streak(q))
    <3> DEFINE d == Max(Streak(q)) - Min(Streak(q))
    <3>1. CASE c = Cardinality(Run(q, since)) + 1 /\ d = q.at - since
      BY <2>2, <2>3, <3>1
    <3>2. CASE c >= HistoryLimit + 1 /\ d >= HistoryLimit
      <4>1. Max(Streak(q)) \in Int /\ Min(Streak(q)) \in Int
        <5>1. q.at \in Time
          BY <2>1, QuoteIs DEF Judges
        <5> QED
          BY <5>1, StreakIs
      <4>2. d \in Int /\ c \in Nat
        BY <2>3, <4>1
      <4> HIDE DEF c, d
      <4>3. c >= SustainMin /\ d >= SustainSpan
        BY <2>4, <3>2, <4>2
      <4> QED
        BY <4>3 DEF c, d
    <3> QED
      BY <2>3, <3>1, <3>2
  <2> QED
    BY <2>3, <2>5 DEF Hold, Sustained
<1> QED
  BY <1>1, <1>2

-----------------------------------------------------------------------------
(* The operator hears of it first.                                          *)

\* x is held at the end of a run, begun then, that is long enough to warn of,
\* with the market open.
Holding(x, since) ==
  /\ x.quality = "suspect"
  /\ \E y \in Run(x, since) \cup {x} : y.at = since
  /\ \A y \in Run(x, since) : y.quality = "suspect" /\ Agree(x.value, y.value)
  /\ Cardinality(Run(x, since)) + 1 >= AlertAfter
  /\ Began(x, since)
  /\ since..x.collected \subseteq Open

\* The warning was filed, or had been not long before.
Warned ==
  \A x \in raw : \A since \in Time :
    Holding(x, since) /\ ~Delivered(x, since) => warned > 0 /\ warned > since - AlertCooldown

\* Every quote held in such a run files the warning.
LEMMA WarnedKept ==
  ASSUME GateShape, GateShape', Warned, [Next]_vars
  PROVE  Warned'
<1> SUFFICES ASSUME NEW x \in raw', NEW since \in Time, Holding(x, since)', ~Delivered(x, since)'
             PROVE  warned' > 0 /\ warned' > since - AlertCooldown
  BY DEF Warned, Time
<1>1. /\ since \in Nat /\ AlertCooldown \in Nat \ {0} /\ AlertAfter \in Nat \ {0}
      /\ now \in Nat /\ warned \in Nat /\ warned <= now
  BY GateConstants, GateAssumption DEF GateShape, TypeOK
<1>2. warned' = warned \/ (warned' = now /\ now' = now)
  <2>1. ASSUME NEW q, NEW k, NEW S, NEW T, Judges(q, k, S, T)
        PROVE  warned' = warned \/ (warned' = now /\ now' = now)
    BY <2>1 DEF Judges, Hold
  <2> QED
    BY <2>1, StepIs DEF vars
<1>3. CASE x \in raw
  <2>1. x.at \in Nat /\ \A y \in raw' : y.at \in Nat
    BY <1>3, GateConstants DEF GateShape, Rows, Time
  <2>2. since <= x.at
    BY <1>1, <2>1 DEF Holding, Run
  <2>3. Run(x, since)' = Run(x, since) /\ Began(x, since) /\ ~Delivered(x, since)
    BY <1>3, <2>2, RunsStay DEF Holding
  <2>4. Holding(x, since)
    BY <2>3 DEF Holding
  <2>5. warned > 0 /\ warned > since - AlertCooldown
    BY <1>3, <2>3, <2>4 DEF Warned
  <2> QED
    BY <1>1, <1>2, <2>5
<1>4. CASE x \notin raw
  <2>0. x.quality = "suspect"
    BY DEF Holding
  <2>1. PICK q : Judges(q, "suspect", {}, suspects \cup {q})
    BY <1>4, <2>0, SuspectIsHeld
  <2>2. /\ \E y \in Run(x, since)' \cup {x} : y.at = since
        /\ \A y \in Run(x, since)' : y.quality = "suspect" /\ Agree(x.value, y.value)
        /\ Cardinality(Run(x, since)') + 1 >= AlertAfter
        /\ Began(x, since)'
        /\ since..x.collected \subseteq Open
    BY DEF Holding
  <2>3. /\ Hold(q) /\ x.at = q.at /\ x.collected = now /\ since <= q.at /\ q.at <= now
        /\ Run(x, since)' = Run(q, since) /\ Cardinality(Run(q, since)) \in Nat
        /\ Frozen(Streak(q))
        /\ Cardinality(Streak(q)) \in Nat
        /\ \/ Cardinality(Streak(q)) = Cardinality(Run(q, since)) + 1
           \/ Cardinality(Streak(q)) >= HistoryLimit + 1
    BY <1>4, <2>1, <2>2, HeldRunIs
  <2>4. q.at \in Nat
    BY <2>1, QuoteIs DEF Judges
  <2>5. Cardinality(Streak(q)) >= AlertAfter
    <3>1. /\ HistoryLimit \in Nat /\ SustainMin \in Nat /\ HistoryLimit + 1 >= SustainMin
          /\ SustainMin > AlertAfter
      BY GateAssumption
    <3> QED
      BY <1>1, <2>2, <2>3, <3>1
  <2>6. now \in Open
    BY <1>1, <2>2, <2>3, <2>4
  <2>7. warned' = IF Warns(Streak(q)) THEN now ELSE warned
    BY <2>3 DEF Hold
  <2>8. CASE Warns(Streak(q))
    <3>1. warned' = now
      BY <2>7, <2>8
    <3>2. now >= since
      BY <1>1, <2>3, <2>4
    <3>3. now > 0
      <4>1. since >= 1
        BY GateConstants
      <4> QED
        BY <1>1, <3>2, <4>1
    <3> QED
      BY <1>1, <3>1, <3>2, <3>3
  <2>9. CASE ~Warns(Streak(q))
    <3>1. warned # 0 /\ ~(now - warned >= AlertCooldown)
      BY <2>3, <2>5, <2>6, <2>9 DEF Warns
    <3> QED
      BY <1>1, <2>3, <2>4, <2>7, <2>9, <3>1
  <2> QED
    BY <2>8, <2>9
<1> QED
  BY <1>3, <1>4

\* A price that ends a steady run, whole since the freeze began, finds the
\* warning of the run's last held quote.
LEMMA WarnedBefore ==
  ASSUME GateShape, GateShape', Warned', [Next]_vars, NEW r \in prices', r \notin prices,
         NEW since \in Time,
         Insisted(r, since)', Steady(r, since)', ~Delivered(r, since)',
         since..now \subseteq Open
  PROVE  warned > since - AlertCooldown /\ warned > 0
<1> DEFINE R == Run(r, since)'
<1>1. r.collected = now /\ now' = now /\ now \in Nat /\ since \in Nat
  BY TablesGrow, GateConstants DEF GateShape, TypeOK
<1>2. /\ \A y \in raw' : y.at \in Nat /\ y.collected \in Nat /\ y.collected <= now
      /\ IsFiniteSet(raw')
      /\ r.at \in Nat
  BY <1>1, GateConstants DEF GateShape, Rows, Time
<1>3. /\ R = {y \in raw' : y.source = r.source /\ y.at >= since /\ y.at < r.at}
      /\ \E y \in R : y.at = since
      /\ \A y \in R : y.quality = "suspect"
      /\ Cardinality(R) + 1 >= SustainMin
  BY DEF Insisted, Run
<1>4. \A y \in R : Began(y, since)' /\ \A z \in R : Agree(y.value, z.value)
  BY DEF Steady
<1> HIDE DEF R
<1>5. \E y \in R : \A z \in R : z.at <= y.at
  <2> DEFINE ats == {y.at : y \in R}
  <2>1. ats \in SUBSET (0..r.at) /\ ats # {}
    BY <1>2, <1>3
  <2>2. PICK m \in ats : \A t \in ats : t <= m
    BY <1>2, <2>1, Greatest
  <2> QED
    BY <2>2
<1>6. PICK y \in R : \A z \in R : z.at <= y.at
  BY <1>5
<1>7. y \in raw' /\ y.source = r.source /\ y.at >= since /\ y.at < r.at
  BY <1>3
<1>8. Run(y, since)' = R \ {y}
  <2>1. \A z \in R : z.at = y.at => z = y
    BY <1>3, <1>7 DEF GateShape, OneRow
  <2>2. Run(y, since)' = {z \in raw' : z.source = y.source /\ z.at >= since /\ z.at < y.at}
    BY DEF Run
  <2> QED
    BY <1>2, <1>3, <1>6, <1>7, <2>1, <2>2
<1>9. IsFiniteSet(R) /\ Cardinality(R) \in Nat /\ Cardinality(Run(y, since)') + 1 = Cardinality(R)
  <2>1. IsFiniteSet(R)
    BY <1>2, <1>3, FS_Subset
  <2>2. Cardinality(R \ {y}) = Cardinality(R) - 1
    BY <1>6, <2>1, FS_RemoveElement
  <2>3. Cardinality(R) \in Nat
    BY <2>1, FS_CardinalityType
  <2> QED
    BY <1>8, <2>1, <2>2, <2>3
<1>10. Holding(y, since)'
  <2>1. Cardinality(Run(y, since)') + 1 >= AlertAfter
    <3>1. SustainMin \in Nat /\ AlertAfter \in Nat /\ SustainMin > AlertAfter
      BY GateAssumption
    <3> QED
      BY <1>3, <1>9, <3>1
  <2>2. since..y.collected \subseteq Open
    BY <1>1, <1>2, <1>7
  <2>3. \E z \in Run(y, since)' \cup {y} : z.at = since
    BY <1>3, <1>8
  <2>4. \A z \in Run(y, since)' : z.quality = "suspect" /\ Agree(y.value, z.value)
    BY <1>3, <1>4, <1>6, <1>8
  <2>5. y.quality = "suspect" /\ Began(y, since)'
    BY <1>3, <1>4, <1>6
  <2> QED
    BY <2>1, <2>2, <2>3, <2>4, <2>5 DEF Holding
<1>11. ~Delivered(y, since)'
  <2> SUFFICES ASSUME NEW s \in prices', s.at >= since, s.collected <= y.collected
               PROVE  s.source = y.source /\ s.at = y.at
    BY DEF Delivered
  <2>1. s.collected <= r.collected
    BY <1>1, <1>2, <1>7 DEF GateShape, Rows
  <2>2. s.source = r.source /\ s.at = r.at
    BY <2>1 DEF Delivered
  <2>3. PICK x \in raw' : x.source = s.source /\ x.at = s.at /\ x.collected <= s.collected
    BY DEF GateShape, Stored
  <2>4. y.collected < x.collected
    BY <1>7, <2>2, <2>3 DEF GateShape, OneRow
  <2> QED
    BY <1>2, <1>7, <2>3, <2>4 DEF GateShape, Rows
<1>12. warned' > 0 /\ warned' > since - AlertCooldown
  BY <1>7, <1>10, <1>11 DEF Warned, Time
<1>13. warned' = warned
  <2>1. ASSUME NEW q, NEW k, NEW S, NEW T, Judges(q, k, S, T)
        PROVE  warned' = warned
    <3>1. S # {}
      BY <2>1, PricedIs DEF Judges
    <3> QED
      BY <2>1, <3>1 DEF Judges
  <2> QED
    BY <2>1, StepIs DEF vars
<1> QED
  BY <1>12, <1>13

-----------------------------------------------------------------------------
(* The newest price heads the window.                                       *)

\* As many prices as rows, at most.
LEMMA PricesAreFinite ==
  ASSUME GateShape
  PROVE  IsFiniteSet(prices)
<1> DEFINE row(r) == CHOOSE x \in raw : x.source = r.source /\ x.at = r.at
<1> DEFINE f == [r \in prices |-> row(r)]
<1>1. \A r \in prices : row(r) \in raw /\ row(r).source = r.source /\ row(r).at = r.at
  BY DEF GateShape, Stored
<1> HIDE DEF row
<1>2. f \in [prices -> raw]
  BY <1>1
<1>3. \A r, s \in prices : f[r] = f[s] => r = s
  <2> SUFFICES ASSUME NEW r \in prices, NEW s \in prices, row(r) = row(s) PROVE r = s
    OBVIOUS
  <2>1. r.source = s.source /\ r.at = s.at
    BY <1>1
  <2> QED
    BY <2>1 DEF GateShape, OnePrice
<1>4. f \in Injection(prices, raw)
  BY <1>2, <1>3 DEF Injection, IsInjective
<1> QED
  BY <1>4, FS_Injection DEF GateShape, Rows

\* The orders of the prices up to the instants up to N.
UpTo(N, f) ==
  f = [t \in 0..N |->
         IF t = 0 THEN {<<>>}
         ELSE {s \o older : s \in SetToSeqs({r \in prices : r.at = t}), older \in f[t - 1]}]

\* They exist: the orders up to t are those up to t - 1, extended.
LEMMA UpToExists ==
  ASSUME NEW N \in Nat
  PROVE  \E f : UpTo(N, f)
<1> DEFINE B(t, o) == {s \o older : s \in SetToSeqs({r \in prices : r.at = t}), older \in o}
<1> DEFINE Fits(m, f) == f = [t \in 0..m |-> IF t = 0 THEN {<<>>} ELSE B(t, f[t - 1])]
<1>0. ASSUME NEW m, NEW f PROVE Fits(m, f) <=> UpTo(m, f)
  BY DEF UpTo
<1> HIDE DEF B
<1> DEFINE T == {m \in 0..N : ~\E f : Fits(m, f)}
<1>1. T = {}
  <2> SUFFICES ASSUME T # {} PROVE FALSE
    OBVIOUS
  <2>0. T \in SUBSET Nat
    OBVIOUS
  <2> HIDE DEF T
  <2>1. PICK m \in T : \A k \in T : m <= k
    BY <2>0, Least
  <2>2. m \in 0..N /\ ~\E f : Fits(m, f)
    BY DEF T
  <2>3. m # 0
    <3> DEFINE z == [t \in 0..0 |-> {<<>>}]
    <3>1. Fits(0, z)
      OBVIOUS
    <3> QED
      BY <2>2, <3>1
  <2>4. m - 1 \in 0..N /\ m - 1 \notin T
    BY <2>0, <2>1, <2>2, <2>3
  <2>5. PICK f : Fits(m - 1, f)
    BY <2>4 DEF T
  <2> DEFINE g == [t \in 0..m |-> IF t = m THEN B(m, f[m - 1]) ELSE f[t]]
  <2>6. \A t \in 0..(m - 1) : f[t] = IF t = 0 THEN {<<>>} ELSE B(t, f[t - 1])
    BY <2>5
  <2>7. \A t \in 0..m : g[t] = IF t = 0 THEN {<<>>} ELSE B(t, g[t - 1])
    <3> SUFFICES ASSUME NEW t \in 0..m PROVE g[t] = IF t = 0 THEN {<<>>} ELSE B(t, g[t - 1])
      OBVIOUS
    <3>1. CASE t = m
      BY <2>2, <2>3, <3>1
    <3>2. CASE t # m
      <4>1. t \in 0..(m - 1) /\ (t # 0 => t - 1 \in 0..m /\ t - 1 # m)
        BY <2>2, <3>2
      <4>2. g[t] = f[t] /\ (t # 0 => g[t - 1] = f[t - 1])
        BY <3>2, <4>1
      <4> QED
        BY <2>6, <4>1, <4>2
    <3> QED
      BY <3>1, <3>2
  <2>8. Fits(m, g)
    BY <2>7
  <2> QED
    BY <2>2, <2>8
<1>2. \A m \in 0..N : \E f : Fits(m, f)
  BY <1>1
<1>3. \E f : Fits(N, f)
  <2>1. N \in 0..N
    OBVIOUS
  <2> HIDE DEF Fits
  <2> QED
    BY <1>2, <2>1
<1> QED
  BY <1>0, <1>3

\* An order up to t starts with one of the newest prices up to t.
LEMMA OrderStarts ==
  ASSUME GateShape, NEW f, UpTo(MaxTime, f), NEW t \in 0..MaxTime, NEW s \in f[t]
  PROVE  /\ s \in Seq(prices)
         /\ \A x \in prices : x.at <= t => Len(s) > 0 /\ s[1] \in prices /\ x.at <= s[1].at
<1> DEFINE At(k) == {r \in prices : r.at = k}
<1> DEFINE Starts(k, o) ==
      /\ o \in Seq(prices)
      /\ \A x \in prices : x.at <= k => Len(o) > 0 /\ o[1] \in prices /\ x.at <= o[1].at
<1> DEFINE T == {k \in 0..MaxTime : ~\A o \in f[k] : Starts(k, o)}
<1>0. /\ MaxTime \in Nat /\ \A x \in prices : x.at \in Nat /\ x.at >= 1
  BY GateConstants DEF GateShape, Rows
<1> DEFINE B(k, o) == {h \o older : h \in SetToSeqs({r \in prices : r.at = k}), older \in o}
<1> DEFINE Fits(m, g) == g = [k \in 0..m |-> IF k = 0 THEN {<<>>} ELSE B(k, g[k - 1])]
<1>8. ASSUME NEW m, NEW g PROVE Fits(m, g) <=> UpTo(m, g)
  BY DEF UpTo
<1>9. ASSUME NEW k, NEW o, NEW z \in B(k, o)
      PROVE  \E h \in SetToSeqs(At(k)), older \in o : z = h \o older
  OBVIOUS
<1> HIDE DEF B
<1>1. f[0] = {<<>>} /\ \A k \in 1..MaxTime : f[k] = B(k, f[k - 1])
  <2>1. Fits(MaxTime, f)
    BY <1>8
  <2>2. \A k \in 0..MaxTime : f[k] = IF k = 0 THEN {<<>>} ELSE B(k, f[k - 1])
    BY <2>1
  <2>3. 0 \in 0..MaxTime /\ \A k \in 1..MaxTime : k \in 0..MaxTime /\ k # 0
    BY <1>0
  <2> QED
    BY <2>2, <2>3
<1>2. T = {}
  <2> SUFFICES ASSUME T # {} PROVE FALSE
    OBVIOUS
  <2>0. T \in SUBSET Nat
    BY <1>0
  <2> HIDE DEF T
  <2>1. PICK k \in T : \A j \in T : k <= j
    BY <2>0, Least
  <2>2. PICK o \in f[k] : ~Starts(k, o)
    BY DEF T
  <2>3. k \in 0..MaxTime
    BY DEF T
  <2>4. CASE k = 0
    <3>1. o = <<>>
      BY <1>1, <2>2, <2>4
    <3>2. o \in Seq(prices) /\ \A x \in prices : ~(x.at <= k)
      BY <1>0, <2>4, <3>1
    <3> QED
      BY <2>2, <3>2
  <2>5. CASE k # 0
    <3>1. k \in 1..MaxTime /\ k - 1 \in 0..MaxTime /\ k - 1 \notin T
      BY <1>0, <2>0, <2>1, <2>3, <2>5
    <3>2. \A older \in f[k - 1] : Starts(k - 1, older)
      BY <3>1 DEF T
    <3>3. PICK h \in SetToSeqs(At(k)), older \in f[k - 1] : o = h \o older
      <4>1. o \in B(k, f[k - 1])
        BY <1>1, <2>2, <3>1
      <4> QED
        BY <1>9, <4>1
    <3>4. Starts(k - 1, older)
      BY <3>2
    <3>5. IsFiniteSet(At(k)) /\ Cardinality(At(k)) \in Nat
      BY PricesAreFinite, FS_Subset, FS_CardinalityType
    <3>6. h \in [1..Cardinality(At(k)) -> At(k)]
      BY DEF SetToSeqs
    <3>7. h \in Seq(prices) /\ Len(h) = Cardinality(At(k)) /\ \A i \in 1..Len(h) : h[i] \in At(k)
      <4> DEFINE n == Cardinality(At(k))
      <4>1. n \in Nat /\ h \in [1..n -> At(k)]
        BY <3>5, <3>6
      <4>2. At(k) \subseteq prices
        OBVIOUS
      <4> HIDE DEF n, At
      <4>3. h \in Seq(At(k)) /\ Len(h) = n /\ h \in [1..n -> prices]
        BY <4>1, <4>2
      <4>4. h \in Seq(prices)
        BY <4>1, <4>3
      <4>5. \A i \in 1..n : h[i] \in At(k)
        BY <4>1
      <4> QED
        BY <4>3, <4>4, <4>5 DEF n
    <3>8. /\ o \in Seq(prices) /\ Len(o) = Len(h) + Len(older)
          /\ Len(h) \in Nat /\ Len(older) \in Nat
          /\ Len(h) > 0 => o[1] = h[1]
          /\ Len(h) = 0 /\ Len(older) > 0 => o[1] = older[1]
      <4>1. h \in Seq(prices) /\ older \in Seq(prices)
        BY <3>4, <3>7
      <4>2. h \o older \in Seq(prices) /\ Len(h \o older) = Len(h) + Len(older)
        BY <4>1
      <4>3. \A i \in 1..Len(h) + Len(older) :
              (h \o older)[i] = IF i <= Len(h) THEN h[i] ELSE older[i - Len(h)]
        BY <4>1
      <4>4. Len(h) \in Nat /\ Len(older) \in Nat
        BY <4>1
      <4>5. Len(h) > 0 => (h \o older)[1] = h[1]
        BY <4>3, <4>4
      <4>6. Len(h) = 0 /\ Len(older) > 0 => (h \o older)[1] = older[1]
        <5> SUFFICES ASSUME Len(h) = 0, Len(older) > 0 PROVE (h \o older)[1] = older[1]
          OBVIOUS
        <5>1. 1 \in 1..Len(h) + Len(older) /\ ~(1 <= Len(h)) /\ 1 - Len(h) = 1
          BY <4>4
        <5> QED
          BY <4>3, <5>1
      <4> QED
        BY <3>3, <4>2, <4>4, <4>5, <4>6
    <3>9. ASSUME NEW x \in prices, x.at <= k
          PROVE  Len(o) > 0 /\ o[1] \in prices /\ x.at <= o[1].at
      <4>1. CASE Len(h) > 0
        <5>1. o[1] \in At(k)
          BY <3>7, <3>8, <4>1
        <5> QED
          BY <3>8, <3>9, <4>1, <5>1
      <4>2. CASE Len(h) = 0
        <5>1. At(k) = {}
          BY <3>5, <3>7, <4>2, FS_EmptySet
        <5>2. x.at <= k - 1
          BY <1>0, <3>1, <3>9, <5>1
        <5>3. Len(older) > 0 /\ older[1] \in prices /\ x.at <= older[1].at
          BY <3>4, <5>2
        <5> QED
          BY <3>8, <4>2, <5>3
      <4> QED
        BY <3>8, <4>1, <4>2
    <3> QED
      BY <2>2, <3>8, <3>9
  <2> QED
    BY <2>4, <2>5
<1>3. t \notin T
  BY <1>2
<1> QED
  BY <1>3

\* last_good is the value of one of the newest prices.
LEMMA WindowHead ==
  ASSUME GateShape, prices # {}, NEW w \in RecentValues
  PROVE  /\ w # <<>>
         /\ \E s \in prices : Head(w) = s.value /\ \A x \in prices : x.at <= s.at
<1> DEFINE f == CHOOSE g : UpTo(MaxTime, g)
<1>1. UpTo(MaxTime, f)
  BY GateConstants, UpToExists, Zenon
<1>2. NewestFirst = {[i \in 1..Len(s) |-> s[i].value] : s \in f[MaxTime]}
  BY DEF NewestFirst, UpTo
<1> HIDE DEF f
<1>3. PICK v \in NewestFirst :
        w = SinceLastLevelReset(SubSeq(v, 1, Min({Len(v), RecentWindow})))
  BY DEF RecentValues
<1>4. PICK s \in f[MaxTime] : v = [i \in 1..Len(s) |-> s[i].value]
  BY <1>2
<1>5. /\ s \in Seq(prices) /\ MaxTime \in 0..MaxTime
      /\ \A x \in prices : x.at <= MaxTime => Len(s) > 0 /\ s[1] \in prices /\ x.at <= s[1].at
  BY <1>1, OrderStarts, GateConstants
<1>6. \A x \in prices : x.at <= MaxTime
  BY GateConstants DEF GateShape, Rows
<1>7. /\ Len(s) \in Nat /\ Len(s) > 0 /\ s[1] \in prices /\ \A x \in prices : x.at <= s[1].at
  BY <1>5, <1>6
<1>8. /\ Len(v) = Len(s) /\ v[1] = s[1].value
      /\ v \in Seq({s[i].value : i \in 1..Len(s)})
  BY <1>4, <1>7
<1> DEFINE n == Min({Len(v), RecentWindow})
<1>9. n \in Nat /\ 1 <= n /\ n <= Len(v)
  <2>1. RecentWindow \in Nat \ {0}
    BY GateAssumption
  <2> QED
    BY <1>7, <1>8, <2>1, OfTwo
<1> HIDE DEF n
<1> DEFINE u == SubSeq(v, 1, n)
<1>10. Len(u) = n /\ u[1] = v[1] /\ u \in Seq({s[i].value : i \in 1..Len(s)})
  BY <1>8, <1>9
<1>11. w = SinceLastLevelReset(u)
  BY <1>3 DEF n
<1> HIDE DEF u
<1> DEFINE steps == {i \in 1..Len(u) - 1 : Jump(u[i], u[i + 1])}
<1>12. w = IF steps = {} THEN u ELSE SubSeq(u, 1, Min(steps))
  BY <1>11 DEF SinceLastLevelReset
<1>13. steps # {} => Min(steps) \in 1..Len(u) - 1
  <2>1. steps \in SUBSET Nat
    BY <1>9, <1>10
  <2> QED
    BY <2>1, MinIs
<1> HIDE DEF steps
<1>14. w # <<>> /\ Head(w) = u[1]
  <2>1. CASE steps = {}
    BY <1>9, <1>10, <1>12, <2>1
  <2>2. CASE steps # {}
    <3> DEFINE m == Min(steps)
    <3>1. m \in Nat /\ 1 <= m /\ m <= Len(u)
      BY <1>9, <1>10, <1>13, <2>2
    <3> HIDE DEF m
    <3>2. w = SubSeq(u, 1, m)
      BY <1>12, <2>2 DEF m
    <3>3. Len(w) = m /\ w[1] = u[1] /\ w \in Seq({s[i].value : i \in 1..Len(s)})
      BY <1>10, <3>1, <3>2
    <3> QED
      BY <3>1, <3>3
  <2> QED
    BY <2>1, <2>2
<1> QED
  BY <1>7, <1>8, <1>10, <1>14

-----------------------------------------------------------------------------
(* A level shift in the prices is one the gate decided.                     *)

\* A streak that is frozen and long enough is a repetition its price shows.
LEMMA RelevelRepeats ==
  ASSUME GateShape, GateShape', NEW q, turn <= Len(Priority), q \in Quotes(Priority[turn]),
         Relevel(q), NEW r, r.source = q.source, r.at = q.at, r.value = q.value,
         \A s \in prices' : s \in prices \/ (s.source = r.source /\ s.at = r.at)
  PROVE  Repeated(r)'
<1> PICK G : G = Grain(q)
  OBVIOUS
<1> PICK since : since = Min(Streak(q))
  OBVIOUS
<1>1. q.at \in Time /\ q.at \in Nat
  BY QuoteIs
<1>2. /\ Streak(q) = {q.at} \cup {x.at : x \in G}
      /\ IsFiniteSet(G) /\ Cardinality(G) \in Nat
      /\ Max(Streak(q)) = q.at
      /\ since \in Streak(q) /\ \A t \in Streak(q) : since <= t
      /\ Cardinality(Streak(q)) = Cardinality(G) + 1
      /\ \A y \in G : /\ y \in Own(q.source) /\ y.at < q.at /\ y.at \in Nat
                      /\ y.quality = "suspect" /\ Agree(q.value, y.value)
      /\ \A y \in G, z \in Own(q.source) : y.at <= z.at /\ z.at < q.at => z \in G
  BY <1>1, StreakIs
<1>3. /\ Cardinality(G) + 1 >= SustainMin /\ q.at - since >= SustainSpan
      /\ \A s \in prices : s.at < since
  BY <1>2 DEF Relevel, Sustained, Frozen
<1>4. G # {}
  <2>1. SustainMin \in Nat /\ AlertAfter \in Nat \ {0} /\ SustainMin > AlertAfter
    BY GateAssumption
  <2>2. Cardinality(G) # 0
    BY <1>2, <1>3, <2>1
  <2> QED
    BY <2>2, FS_EmptySet
<1>5. PICK g \in G : g.at = since
  <2>1. PICK h \in G : TRUE
    BY <1>4
  <2>2. since # q.at
    <3>1. h.at \in Streak(q)
      BY <1>2, <2>1
    <3>2. since <= h.at /\ h.at < q.at /\ h.at \in Nat
      BY <1>2, <2>1, <3>1
    <3> QED
      BY <1>1, <3>2
  <2> QED
    BY <1>2, <2>2
<1>6. since \in Time
  BY <1>2, <1>5, HistoryIs
<1>7. Run(r, since)' = G
  <2>1. /\ raw \subseteq raw'
        /\ \A y \in raw' : y \in raw \/ (y.source = q.source /\ y.at = q.at)
    BY RecordedIs DEF Relevel
  <2>2. \A y \in raw : y.source = q.source => y \in Own(q.source) /\ y.at \in Nat
    BY HistoryIs DEF Own
  <2>3. ASSUME NEW y \in raw', y.source = r.source, y.at >= since, y.at < r.at PROVE y \in G
    BY <1>1, <1>2, <1>5, <2>1, <2>2, <2>3
  <2>4. ASSUME NEW y \in G
        PROVE  y \in raw' /\ y.source = r.source /\ y.at >= since /\ y.at < r.at
    <3>1. y.at \in Streak(q) /\ y \in raw /\ y.source = q.source
      BY <1>2 DEF Own
    <3> QED
      BY <1>2, <2>1, <3>1
  <2> QED
    BY <2>3, <2>4 DEF Run
<1>8. Insisted(r, since)'
  BY <1>2, <1>3, <1>5, <1>7 DEF Insisted
<1>9. ~Delivered(r, since)'
  <2>1. since \in Nat /\ \A s \in prices : s.at \in Nat
    BY <1>6, GateConstants DEF GateShape, Rows
  <2> QED
    BY <1>3, <2>1 DEF Delivered
<1> QED
  BY <1>6, <1>8, <1>9 DEF Repeated, Time

\* A quote accepted on its own is no jump from some newest price.
LEMMA AcceptIsNoJump ==
  ASSUME GateShape, prices # {}, NEW q, Accept(q)
  PROVE  \E s \in prices : ~Jump(q.value, s.value) /\ \A x \in prices : x.at <= s.at
<1>1. PICK w \in RecentValues : Classify(q.value, w) = "ok"
  BY DEF Accept
<1>2. PICK s \in prices : w # <<>> /\ Head(w) = s.value /\ \A x \in prices : x.at <= s.at
  BY WindowHead
<1>3. ~Jump(q.value, Head(w))
  BY <1>1, <1>2 DEF Classify
<1> QED
  BY <1>2, <1>3

\* A quote and the held one it confirms: the price of each has the other's to
\* agree with.
LEMMA PromoteConfirms ==
  ASSUME GateShape, GateShape', NEW q, NEW k \in Qualities, NEW S, NEW T, Judges(q, k, S, T),
         Promote(q), NEW r \in prices', r \notin prices
  PROVE  Confirmed(r)'
<1> DEFINE C == Confirms(q)
<1>1. /\ now' = now /\ now \in Nat /\ q \in Quotes(Priority[turn]) /\ turn <= Len(Priority)
      /\ prices' = Priced(C \cup {q}) /\ C # {}
  BY DEF Judges, Promote, GateShape, TypeOK
<1>2. \A c \in C : c \in suspects /\ Agree(q.value, c.value)
  BY DEF Confirms
<1>3. /\ \A s \in suspects \cup {q} :
           s.value \in Value /\ s.at <= now /\ now - s.at \in Lags[s.source]
      /\ \A s, t \in suspects \cup {q} : s.source = t.source => s = t
      /\ q \notin suspects
  <2>1. /\ \A s \in suspects \cup {q} :
             s.value \in Value /\ s.at <= now /\ now - s.at \in Lags[s.source]
        /\ \A s, t \in suspects \cup {q} : s.source = t.source => s = t
    BY HeldIs
  <2>2. q \notin suspects
    BY <1>1, QuoteIs DEF GateShape, AskedOnce
  <2> QED
    BY <2>1, <2>2
<1>4. PICK t \in C \cup {q} :
        r = [source |-> t.source, at |-> t.at, value |-> t.value, collected |-> now]
  BY <1>1, PricedIs
<1>5. PICK u \in C \cup {q} : u # t /\ Agree(t.value, u.value)
  <2>1. CASE t = q
    BY <1>1, <1>2, <1>3, <2>1
  <2>2. CASE t # q
    <3>1. t \in C /\ Agree(q.value, t.value) /\ q.value \in Int /\ t.value \in Int
      BY <1>2, <1>3, <2>2, GateConstants
    <3> QED
      BY <2>2, <3>1, AgreeIsMutual
  <2> QED
    BY <2>1, <2>2
<1>6. u \in suspects \cup {q} /\ t \in suspects \cup {q} /\ u.source # t.source
  BY <1>2, <1>3, <1>5
<1>7. PICK p \in prices' : p.source = u.source /\ p.at = u.at
  BY <1>1, PricedIs
<1>8. p.value = u.value /\ p.collected <= now
  <2>1. p.collected <= now
    BY <1>1 DEF GateShape, Rows
  <2>2. PICK x \in raw' : x.source = p.source /\ x.at = p.at /\ x.value = p.value
    BY DEF GateShape, Stored
  <2>3. PICK y \in raw' : y.source = u.source /\ y.at = u.at /\ y.value = u.value
    <3>1. CASE u = q
      BY <3>1, RecordedIs DEF Promote
    <3>2. CASE u \in suspects
      <4>1. PICK y \in raw : y.source = u.source /\ y.at = u.at /\ y.value = u.value
        BY <3>2 DEF GateShape, Stored
      <4> QED
        BY <4>1, RecordedIs DEF Promote
    <3> QED
      BY <1>6, <3>1, <3>2
  <2>4. x = y
    BY <1>7, <2>2, <2>3 DEF GateShape, OneRow
  <2> QED
    BY <2>1, <2>2, <2>3, <2>4
<1>9. r.collected - p.at \in Lags[p.source]
  BY <1>3, <1>4, <1>6, <1>7
<1> QED
  BY <1>4, <1>5, <1>6, <1>7, <1>8, <1>9 DEF Confirmed

\* No step makes an undecided jump.
LEMMA DecidedKept ==
  ASSUME GateShape, GateShape', StepsAreDecidedInOrder, [Next]_vars
  PROVE  StepsAreDecidedInOrder'
<1> SUFFICES ASSUME InOrder', NEW r \in prices', Preceding(r)' # {},
                    \A s \in Preceding(r)' : Jump(r.value, s.value),
                    ~Confirmed(r)'
             PROVE  Repeated(r)'
  BY DEF StepsAreDecidedInOrder, StepsAreDecided
<1>1. /\ prices \subseteq prices' /\ raw \subseteq raw'
      /\ \A p \in prices' : p \in prices \/ (p.collected = now /\ now' = now)
  BY TablesGrow
<1>2. /\ \A p \in prices' : p.at \in Nat /\ p.collected \in Nat /\ p.collected <= now'
      /\ \A p \in prices : p.collected <= now
      /\ now \in Nat
  <2>1. /\ \A p \in prices' : p.at \in Time /\ p.collected \in Nat /\ p.collected <= now'
        /\ \A p \in prices : p.collected <= now
        /\ now \in Nat
    BY DEF GateShape, Rows, TypeOK, Time
  <2> QED
    BY <2>1, GateConstants
<1>3. \A p \in prices' : p.collected = r.collected => p = r
  <2> SUFFICES ASSUME NEW p \in prices', p.collected = r.collected, p # r PROVE FALSE
    OBVIOUS
  <2>1. p.source # r.source
    BY DEF GateShape, OnePrice
  <2>2. Agree(r.value, p.value)
    BY DEF InOrder
  <2>3. p.collected - p.at \in Lags[p.source] /\ p.collected <= r.collected
    BY <1>2 DEF GateShape, OnePrice
  <2> QED
    BY <2>1, <2>2, <2>3 DEF Confirmed
<1>4. /\ \A p \in prices' : p # r /\ p.collected <= r.collected => p.at < r.at
      /\ \A p \in prices' : p # r /\ p.collected >= r.collected => r.at < p.at
  BY <1>2, <1>3 DEF InOrder
<1>5. CASE r \in prices
  <2>1. \A p \in prices' : p \in prices \/ (r.at < p.at /\ r.collected < p.collected)
    BY <1>1, <1>2, <1>3, <1>4, <1>5
  <2>2. InOrder
    BY <1>1 DEF InOrder
  <2>3. Preceding(r)' = Preceding(r)
    <3>1. \A s \in prices' : s.at < r.at => s \in prices
      BY <1>2, <2>1
    <3> QED
      BY <1>1, <3>1 DEF Preceding
  <2>4. Confirmed(r) => Confirmed(r)'
    BY <1>1 DEF Confirmed
  <2>5. Repeated(r)
    BY <1>5, <2>2, <2>3, <2>4 DEF StepsAreDecidedInOrder, StepsAreDecided
  <2>6. PICK since \in Time : Insisted(r, since) /\ ~Delivered(r, since)
    BY <2>5 DEF Repeated
  <2>7. PICK y \in raw : y.source = r.source /\ y.at = r.at
    BY <1>5 DEF GateShape, Stored
  <2>8. since <= r.at
    <3>1. since \in Nat /\ \A z \in raw : z.at \in Nat
      BY GateConstants DEF GateShape, Rows
    <3> QED
      BY <1>2, <2>6, <3>1 DEF Insisted, Run
  <2>9. Insisted(r, since)'
    BY <2>6, <2>7, <2>8, RunsStay
  <2>10. ~Delivered(r, since)'
    BY <1>2, <2>1, <2>6 DEF Delivered
  <2> QED
    BY <2>9, <2>10, <2>6 DEF Repeated, Time
<1>6. CASE r \notin prices
  <2>1. r.collected = now /\ now' = now
    BY <1>1, <1>6
  <2>2. \A p \in prices' : p = r \/ (p \in prices /\ p.at < r.at)
    BY <1>1, <1>2, <1>3, <1>4, <2>1
  <2>3. ASSUME NEW s \in prices, \A x \in prices : x.at <= s.at
        PROVE  Jump(r.value, s.value)
    <3>1. s \in prices' /\ s.at < r.at /\ \A x \in prices' : x.at < r.at => x.at <= s.at
      BY <1>1, <1>2, <1>6, <2>2, <2>3
    <3> QED
      BY <3>1 DEF Preceding
  <2>4. prices # {}
    BY <1>2, <2>2 DEF Preceding
  <2>5. PICK q \in Quotes(Priority[turn]), k \in Qualities :
               \E S, T \in SUBSET (suspects \cup {q}) : Judges(q, k, S, T)
    BY <1>6, StepIs DEF vars
  <2>6. PICK S, T \in SUBSET (suspects \cup {q}) : Judges(q, k, S, T)
    BY <2>5
  <2>7. turn <= Len(Priority) /\ (Accept(q) \/ Promote(q) \/ Relevel(q))
    <3>1. S # {}
      BY <1>6, <2>6, PricedIs DEF Judges
    <3> QED
      BY <2>6, <3>1 DEF Judges
  <2>8. Accept(q) \/ Relevel(q) =>
          r = [source |-> q.source, at |-> q.at, value |-> q.value, collected |-> now]
    <3>1. Accept(q) \/ Relevel(q) => prices' = Priced({q})
      BY DEF Accept, Relevel
    <3> QED
      BY <1>6, <3>1, PricedIs
  <2>9. CASE Accept(q)
    <3>1. PICK s \in prices : ~Jump(q.value, s.value) /\ \A x \in prices : x.at <= s.at
      BY <2>4, <2>9, AcceptIsNoJump
    <3>2. r.value = q.value
      BY <2>8, <2>9
    <3> QED
      BY <2>3, <3>1, <3>2
  <2>10. CASE Promote(q)
    BY <1>6, <2>6, <2>10, PromoteConfirms
  <2>11. CASE Relevel(q)
    <3>1. r.source = q.source /\ r.at = q.at /\ r.value = q.value
      BY <2>8, <2>11
    <3>2. \A s \in prices' : s \in prices \/ (s.source = r.source /\ s.at = r.at)
      BY <2>2
    <3> QED
      BY <2>7, <2>11, <3>1, <3>2, RelevelRepeats
  <2> QED
    BY <2>7, <2>9, <2>10, <2>11
<1> QED
  BY <1>5, <1>6

\* The gate's invariant.
GateInv == GateShape /\ NoTrapdoor /\ Warned /\ StepsAreDecidedInOrder

\* It holds at first, and every step of a run keeps it.
LEMMA GateInvHolds == Spec => []GateInv
<1>1. Init => GateInv
  BY GateShapeInit DEF Init, GateInv, NoTrapdoor, Warned, StepsAreDecidedInOrder, StepsAreDecided
<1>2. GateInv /\ [Next]_vars => GateInv'
  BY GateShapeKept, NoTrapdoorKept, WarnedKept, DecidedKept DEF GateInv
<1> QED
  BY <1>1, <1>2, PTL DEF Spec

\* Every behaviour of the gate: no quote is held whose source has sustained
\* its level since a first instant with nothing else accepted.
THEOREM NoTrapdoorHolds == Spec => []NoTrapdoor
<1>1. GateInv => NoTrapdoor
  BY DEF GateInv
<1> QED
  BY <1>1, GateInvHolds, PTL

\* In prices that came in order, a step beyond the threshold is a shift that
\* another source confirmed or its own repeated.
THEOREM StepsAreDecidedHolds == Spec => []StepsAreDecidedInOrder
<1>1. GateInv => StepsAreDecidedInOrder
  BY DEF GateInv
<1> QED
  BY <1>1, GateInvHolds, PTL

\* A steady level is accepted on repetition only after the warning.
THEOREM WarnedFirstHolds == Spec => WarnedFirst
<1>1. GateInv /\ GateInv' /\ [Next]_vars =>
        [\A r \in prices' \ prices : \A since \in Time :
           /\ Insisted(r, since)' /\ Steady(r, since)' /\ ~Delivered(r, since)'
           /\ since..now \subseteq Open
           => warned > since - AlertCooldown /\ warned > 0]_vars
  BY WarnedBefore DEF GateInv
<1> QED
  BY <1>1, GateInvHolds, PTL DEF Spec, WarnedFirst

=============================================================================
