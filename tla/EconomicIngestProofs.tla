----------------------- MODULE EconomicIngestProofs ------------------------
(***************************************************************************)
(* Overlapping polled passes keep the store's invariant, for any number of *)
(* passes, periods and values, any clock, and any history of the source;   *)
(* overlapping posts of workbooks keep the order of their editions.        *)
(***************************************************************************)
EXTENDS EconomicIngest, SciIngest, EconomicStoreProofs

\* A fetch yields points.
LEMMA FetchedPoints ==
  ASSUME source \in [Period -> Value \cup {Nil}], NEW now
  PROVE  Fetched(now) \in SUBSET Point
<1> SUFFICES ASSUME NEW per \in Period, source[per] # Nil
             PROVE  [period |-> per, value |-> source[per],
                     proj |-> Incomplete(per, now)] \in Point
  BY DEF Fetched
<1>1. source[per] \in Value
  OBVIOUS
<1>2. Incomplete(per, now) \in BOOLEAN
  BY DEF Incomplete
<1>3. QED
  BY <1>1, <1>2 DEF Point

\* Every step of the system keeps types and the store's invariant.
LEMMA NextKeeps ==
  ASSUME TypeOK, StoreInv, [Next]_vars
  PROVE  TypeOK' /\ StoreInv'
<1>0. StoreTypeOK /\ clock \in Nat /\ changes \in Nat
      /\ source \in [Period -> Value \cup {Nil}]
  BY DEF TypeOK, Time
<1>1. ASSUME NEW p \in Pass, Fetch(p)
      PROVE  TypeOK' /\ StoreInv'
  <2>1. Fetched(clock) \in SUBSET Point
    BY <1>0, FetchedPoints
  <2>2. TypeOK'
    BY <1>0, <1>1, <2>1 DEF Fetch, TypeOK, StoreTypeOK, PC
  <2>3. \A q \in Pass : pc'[q] = pc[q] \/ (pc[q] \notin InTx /\ pc'[q] \notin InTx)
    BY <1>0, <1>1 DEF Fetch, StoreTypeOK, InTx
  <2>4. QED
    BY <1>0, <1>1, <2>2, <2>3, PrepareKeeps DEF Fetch
<1>2. ASSUME NEW p \in Pass, Stamp(p)
      PROVE  TypeOK' /\ StoreInv'
  <2>1. TypeOK'
    BY <1>0, <1>2 DEF Stamp, StampTime, TypeOK, StoreTypeOK, PC, Time
  <2>2. \A q \in Pass : pc'[q] = pc[q] \/ (pc[q] \notin InTx /\ pc'[q] \notin InTx)
    BY <1>0, <1>2 DEF Stamp, StoreTypeOK, InTx
  <2>3. QED
    BY <1>0, <1>2, <2>1, <2>2, PrepareKeeps DEF Stamp
<1>3. ASSUME NEW p \in Pass, Write(p)
      PROVE  TypeOK' /\ StoreInv'
  BY <1>0, <1>3, WriteStepKeeps DEF Write, TypeOK, Time
<1>4. ASSUME NEW p \in Pass, Fail(p)
      PROVE  TypeOK' /\ StoreInv'
  BY <1>0, <1>4, CrashKeeps DEF Fail, TypeOK, Time
<1>5. ASSUME UNCHANGED storeVars
      PROVE  StoreTypeOK' /\ StoreInv'
  <2>1. StoreTypeOK'
    BY <1>0, <1>5 DEF storeVars, StoreTypeOK
  <2>2. QED
    BY <1>0, <1>5, <2>1, PrepareKeeps DEF storeVars
<1>6. CASE Tick
  <2>1. clock' \in Nat
    BY <1>0, <1>6, IngestAssumption DEF Tick
  <2>2. QED
    BY <1>0, <1>5, <1>6, <2>1 DEF Tick, TypeOK, Time
<1>7. CASE Publish
  <2>1. source' \in [Period -> Value \cup {Nil}] /\ changes' \in Nat
    BY <1>0, <1>7 DEF Publish
  <2>2. QED
    BY <1>0, <1>5, <1>7, <2>1 DEF Publish, TypeOK, Time
<1>8. CASE UNCHANGED vars
  BY <1>0, <1>5, <1>8 DEF vars, TypeOK, Time
<1>9. QED
  BY <1>1, <1>2, <1>3, <1>4, <1>6, <1>7, <1>8 DEF Next

\* Types and the inductive invariant hold in every reachable state.
THEOREM Invariance == Spec => [](TypeOK /\ StoreInv)
<1>1. Init => TypeOK /\ StoreInv
  BY StoreInitHolds DEF Init, TypeOK, Time
<1>2. TypeOK /\ StoreInv /\ [Next]_vars => (TypeOK /\ StoreInv)'
  BY NextKeeps
<1>3. QED
  BY <1>1, <1>2, PTL DEF Spec

\* record_observation's vintages are ordered as their availability is, however
\* passes overlap and whatever the clock does.
THEOREM VintageMonotoneHolds == Spec => []VintageMonotone
BY Invariance, StoreInvImplies, PTL

\* No pass stores a print the current row already states.
THEOREM NoSpuriousRevisionHolds == Spec => []NoSpuriousRevision
BY Invariance, StoreInvImplies, PTL

\* The ON CONFLICT arm of record_observation is dead code: ensure_series' row
\* lock keeps two passes from ever computing the same vintage.
THEOREM NeverRacedHolds == Spec => []NeverRaced
BY Invariance, StoreInvImplies, PTL

-----------------------------------------------------------------------------
(* Reads at a settled cutoff.                                               *)

\* Rows written by a transaction carry its stamp.
LEMMA StampedKeeps ==
  ASSUME TypeOK, Stamped, StoreInv, [Next]_vars
  PROVE  Stamped'
<1>0. StoreTypeOK
  BY DEF TypeOK
<1> USE DEF local
<1>1. ASSUME NEW p \in Pass, Fetch(p) PROVE Stamped'
  BY <1>0, <1>1 DEF Fetch, Stamped, StoreTypeOK
<1>2. ASSUME NEW p \in Pass, Stamp(p) PROVE Stamped'
  <2>1. staged[p] = {}
    BY <1>2 DEF Stamp, StoreInv, InTx
  <2>2. QED
    BY <1>0, <1>2, <2>1 DEF Stamp, Stamped, StoreTypeOK
<1>3. ASSUME NEW p \in Pass, EndTx(p) PROVE Stamped'
  BY <1>0, <1>3 DEF EndTx, Stamped, StoreTypeOK
<1>4. ASSUME NEW p \in Pass, WriteStep(p) PROVE Stamped'
  <2>1. CASE EnsureSeries(p)
    BY <1>0, <2>1 DEF EnsureSeries, Stamped, StoreTypeOK
  <2>2. CASE SelectCurrent(p)
    BY <1>0, <2>2 DEF SelectCurrent, Stamped, StoreTypeOK
  <2>3. CASE Unchanged(p)
    BY <1>0, <2>3 DEF Unchanged, Stamped, StoreTypeOK
  <2>4. CASE Refuse(p)
    BY <2>4, <1>3 DEF Refuse
  <2>5. CASE Number(p)
    BY <1>0, <2>5 DEF Number, NumberedRow, Stamped, StoreTypeOK
  <2>6. CASE Insert(p)
    BY <1>0, <2>6 DEF Insert, Stamped, StoreTypeOK
  <2>7. CASE Commit(p)
    BY <2>7, <1>3 DEF Commit
  <2>8. QED
    BY <1>4, <2>1, <2>2, <2>3, <2>4, <2>5, <2>6, <2>7 DEF WriteStep
<1>5. CASE UNCHANGED storeVars
  BY <1>5 DEF storeVars, Stamped
<1>6. QED
  BY <1>1, <1>2, <1>3, <1>4, <1>5
     DEF Next, Write, Fail, Crash, Tick, Publish, vars

\* Only the rows available by the cutoff decide a read at it.
LEMMA AnswerDepends ==
  ASSUME NEW c \in Nat, rows \in SUBSET Row, rows' \in SUBSET Row,
         {r \in rows' : r.avail <= c} = {r \in rows : r.avail <= c}
  PROVE  Answer(c)' = Answer(c)
<1>1. ASSUME NEW per \in Period
      PROVE  {r \in RowsOf(rows', per) : r.avail <= c /\ (FALSE \/ ~r.proj)}
             = {r \in RowsOf(rows, per) : r.avail <= c /\ (FALSE \/ ~r.proj)}
  BY DEF RowsOf
<1>2. ASSUME NEW per \in Period
      PROVE  PointInTime(rows', per, c, FALSE) = PointInTime(rows, per, c, FALSE)
  BY <1>1, <1>2 DEF PointInTime
<1>3. QED
  BY <1>2 DEF Answer

\* With a clock that never goes back, a settled cutoff stays settled and reads
\* at it never change again: backtests over the store are reproducible.
THEOREM StableCutoffHolds == Skewed = FALSE /\ Spec => StableCutoff
<1> SUFFICES ASSUME Skewed = FALSE
             PROVE  Spec => StableCutoff
  OBVIOUS
<1>1. ASSUME TypeOK, StoreInv, Stamped, [Next]_vars,
             TypeOK', NEW c \in 0..MaxTime, Settled(c)
      PROVE  Settled(c)' /\ Answer(c)' = Answer(c)
  <2>0. /\ c \in Nat /\ clock \in Nat /\ clock' \in Nat /\ c < clock
        /\ StoreTypeOK /\ StoreTypeOK'
        /\ rows \in SUBSET Row /\ rows' \in SUBSET Row
        /\ \A p \in Pass : stamp[p] \in Nat /\ stamp'[p] \in Nat
    BY <1>1, IngestAssumption DEF TypeOK, StoreTypeOK, Settled, Time
  <2>1. clock' >= clock
    BY <1>1, <2>0 DEF Next, Fetch, Stamp, Write, Fail, Tick, Publish, vars
  <2>2. ASSUME NEW p \in Pass, InFlight(p)'
        PROVE  stamp'[p] > c
    <3>1. CASE UNCHANGED storeVars
      BY <1>1, <2>2, <3>1 DEF storeVars, Settled, InFlight
    <3>2. ASSUME NEW q \in Pass, Fetch(q) PROVE stamp'[p] > c
      BY <1>1, <2>0, <2>2, <3>2 DEF Fetch, Settled, InFlight, StoreTypeOK
    <3>3. ASSUME NEW q \in Pass, Stamp(q) PROVE stamp'[p] > c
      BY <1>1, <2>0, <2>2, <3>3 DEF Stamp, StampTime, Settled, InFlight, StoreTypeOK
    <3>4. ASSUME NEW q \in Pass, EndTx(q) PROVE stamp'[p] > c
      BY <1>1, <2>0, <2>2, <3>4 DEF EndTx, Settled, InFlight, StoreTypeOK
    <3>5. ASSUME NEW q \in Pass, WriteStep(q) PROVE stamp'[p] > c
      <4>1. CASE Refuse(q) \/ Commit(q)
        BY <4>1, <3>4 DEF Refuse, Commit
      <4>2. CASE \/ EnsureSeries(q) \/ SelectCurrent(q) \/ Unchanged(q)
                 \/ Number(q) \/ Insert(q)
        BY <1>1, <2>0, <2>2, <4>2 DEF EnsureSeries, SelectCurrent, Unchanged,
           Number, Insert, local, Settled, InFlight, StoreTypeOK
      <4>3. QED
        BY <3>5, <4>1, <4>2 DEF WriteStep
    <3>6. QED
      BY <1>1, <3>1, <3>2, <3>3, <3>4, <3>5
         DEF Next, Write, Fail, Crash, Tick, Publish, vars
  <2>3. Settled(c)'
    BY <2>0, <2>1, <2>2 DEF Settled
  <2>4. rows' = rows \/ \E p \in Pass : InFlight(p) /\ rows' = rows \cup staged[p]
    <3>1. ASSUME NEW p \in Pass, WriteStep(p)
          PROVE  rows' = rows \/ (InFlight(p) /\ rows' = rows \cup staged[p])
      BY <3>1 DEF WriteStep, EnsureSeries, SelectCurrent, Unchanged, Refuse,
         Number, Insert, Commit, InFlight
    <3>2. QED
      BY <1>1, <3>1 DEF Next, Fetch, Stamp, Write, Fail, Crash, Tick, Publish,
         vars, storeVars
  <2>5. {r \in rows' : r.avail <= c} = {r \in rows : r.avail <= c}
    <3>1. CASE rows' = rows
      BY <3>1
    <3>2. CASE \E p \in Pass : InFlight(p) /\ rows' = rows \cup staged[p]
      <4>1. PICK p \in Pass : InFlight(p) /\ rows' = rows \cup staged[p]
        BY <3>2
      <4>2. stamp[p] > c /\ \A r \in staged[p] : r.avail = stamp[p]
        BY <1>1, <4>1 DEF Settled, Stamped
      <4>3. \A r \in staged[p] : ~(r.avail <= c)
        BY <2>0, <4>2
      <4>4. QED
        BY <4>1, <4>3
    <3>3. QED
      BY <2>4, <3>1, <3>2
  <2>6. QED
    BY <2>0, <2>3, <2>5, AnswerDepends
<1>2. TypeOK /\ StoreInv /\ Stamped /\ [Next]_vars /\ TypeOK'
        => [\A c \in 0..MaxTime : Settled(c) => Settled(c)' /\ Answer(c)' = Answer(c)]_vars
  BY <1>1
<1>3. Init => Stamped
  BY DEF Init, StoreInit, Stamped
<1>4. TypeOK /\ Stamped /\ StoreInv /\ [Next]_vars => Stamped'
  BY StampedKeeps
<1>5. QED
  BY <1>2, <1>3, <1>4, Invariance, PTL DEF Spec, StableCutoff


-----------------------------------------------------------------------------
(* Workbooks posted one at a time.                                          *)

\* No two posts are under way together.
OneAtATime == \A p, q \in Pass : pc[p] # "idle" /\ pc[q] # "idle" => p = q

\* Some publication date is the newest stored one (0: none is).
HasNewest ==
  \E m \in {0} \cup {r.pub : r \in rows} : \A r \in rows : r.pub <= m

\* A post past the check: its edition is undated or not older than what is
\* stored, and what it stages carries that edition and a vintage above every
\* committed row of the period.
Stages(p) ==
  /\ pc[p] \in {"ready"} \cup InTx =>
       pub[p] = 0 \/ \A r \in rows : r.pub <= pub[p]
  /\ \A s \in staged[p] :
       /\ s.pub = pub[p]
       /\ \A r \in rows : r.period = s.period => r.vintage < s.vintage
  /\ pc[p] = "insert" =>
       /\ pending[p].pub = pub[p]
       /\ \A r \in rows : r.period = pending[p].period => r.vintage < pending[p].vintage

SciInv ==
  /\ StoreTypeOK /\ StoreInv /\ posted \in Nat
  /\ EditionOrder /\ HasNewest
  /\ \A p \in Pass : Stages(p)

\* A workbook yields points.
LEMMA PostedPoints ==
  ASSUME NEW e \in Edition, NEW now
  PROVE  Points(e, now) \in SUBSET Point
<1> SUFFICES ASSUME NEW per \in Period, Content[e][per] # Nil
             PROVE  [period |-> per, value |-> Content[e][per],
                     proj |-> now <= MonthEnd[per]] \in Point
  BY DEF Points
<1>1. Content[e][per] \in Value
  BY SciAssumption
<1>2. (now <= MonthEnd[per]) \in BOOLEAN
  OBVIOUS
<1> QED
  BY <1>1, <1>2 DEF Point

\* The check compares with the newest publication date stored.
LEMMA NewestIsNewest ==
  ASSUME rows \in SUBSET Row, HasNewest
  PROVE  NewestPublished \in Nat /\ \A r \in rows : r.pub <= NewestPublished
<1>1. PICK m \in {0} \cup {r.pub : r \in rows} : \A r \in rows : r.pub <= m
  BY DEF HasNewest
<1> DEFINE S == {0} \cup {r.pub : r \in rows}
<1>2. S \in SUBSET Nat /\ m \in S /\ \A y \in S : y <= m
  BY <1>1 DEF Row
<1>3. Max(S) = m
  BY <1>2, MaxIs
<1> QED
  BY <1>1, <1>2, <1>3 DEF NewestPublished

\* A transaction that ends without a commit, for whatever reason.
LEMMA GivenUp ==
  ASSUME SciInv, NEW p \in Pass, EndTx(p), UNCHANGED rows, posted' \in Nat
  PROVE  SciInv'
<1>1. StoreTypeOK'
  BY DEF EndTx, SciInv, StoreTypeOK, PC, Time
<1>2. Good(rows)'
  BY DEF SciInv, StoreInv, Good, VintageOrder, RealRevisions, HasLastVintage, RowsOf, SameKey
<1>3. StoreInv'
  BY <1>1, <1>2, EndTxKeeps DEF SciInv
<1>4. EditionOrder' /\ HasNewest'
  BY DEF SciInv, EditionOrder, HasNewest
<1>5. ASSUME NEW q \in Pass PROVE Stages(q)'
  <2>1. CASE q = p
    BY <2>1 DEF EndTx, SciInv, StoreTypeOK, Stages, InTx
  <2>2. CASE q # p
    BY <2>2 DEF EndTx, SciInv, StoreTypeOK, Stages, InTx
  <2> QED
    BY <2>1, <2>2
<1> QED
  BY <1>1, <1>3, <1>4, <1>5 DEF SciInv

\* A step that leaves the committed rows alone needs only its own pass.
LEMMA OwnStages ==
  ASSUME SciInv, StoreTypeOK', StoreInv', posted' \in Nat,
         NEW p \in Pass, UNCHANGED rows,
         \A q \in Pass \ {p} :
           /\ pc'[q] = pc[q] /\ staged'[q] = staged[q]
           /\ pub'[q] = pub[q] /\ pending'[q] = pending[q],
         Stages(p)'
  PROVE  SciInv'
<1>1. EditionOrder' /\ HasNewest'
  BY DEF SciInv, EditionOrder, HasNewest
<1>2. ASSUME NEW q \in Pass, q # p PROVE Stages(q)'
  BY <1>2 DEF SciInv, Stages
<1> QED
  BY <1>1, <1>2 DEF SciInv

\* The rows a commit adds are of one edition, no older than what was stored
\* unless undated, and above it.
LEMMA CommitKeepsOrder ==
  ASSUME SciInv, OneAtATime, NEW p \in Pass, Commit(p), posted' \in Nat
  PROVE  SciInv'
<1>1. StoreTypeOK' /\ StoreInv'
  BY WriteStepKeeps DEF SciInv, WriteStep
<1>2. /\ rows' = rows \cup staged[p] /\ rows \in SUBSET Row /\ staged[p] \in SUBSET Row
      /\ pub[p] \in Nat /\ EditionOrder
      /\ \A r \in rows \cup staged[p] : r.pub \in Nat /\ r.vintage \in Nat
  BY DEF Commit, SciInv, StoreTypeOK, Row
<1>3. /\ pub[p] = 0 \/ \A r \in rows : r.pub <= pub[p]
      /\ \A s \in staged[p] : s.pub = pub[p]
      /\ \A s \in staged[p], r \in rows : r.period = s.period => r.vintage < s.vintage
  BY DEF Commit, SciInv, Stages, InTx
<1>4. EditionOrder'
  <2> SUFFICES ASSUME NEW r \in rows', NEW s \in rows', r.period = s.period,
                      r.vintage < s.vintage, r.pub # 0, s.pub # 0
               PROVE  r.pub <= s.pub
    BY DEF EditionOrder
  <2>1. CASE r \in rows /\ s \in rows
    BY <1>2, <2>1 DEF EditionOrder
  <2>2. CASE r \in staged[p] /\ s \in staged[p]
    BY <1>2, <1>3, <2>2
  <2>3. CASE r \in rows /\ s \in staged[p]
    BY <1>2, <1>3, <2>3
  <2>4. CASE r \in staged[p] /\ s \in rows
    BY <1>2, <1>3, <2>4
  <2> QED
    BY <1>2, <2>1, <2>2, <2>3, <2>4
<1>5. HasNewest'
  <2>1. PICK m \in {0} \cup {r.pub : r \in rows} : \A r \in rows : r.pub <= m
    BY DEF SciInv, HasNewest
  <2>2. m \in Nat
    BY <1>2
  <2>3. CASE staged[p] = {} \/ pub[p] <= m
    <3>1. m \in {0} \cup {r.pub : r \in rows'} /\ \A r \in rows' : r.pub <= m
      BY <1>2, <1>3, <2>1, <2>2, <2>3
    <3> QED
      BY <3>1 DEF HasNewest
  <2>4. CASE staged[p] # {} /\ pub[p] > m
    <3>1. pub[p] \in {0} \cup {r.pub : r \in rows'} /\ \A r \in rows' : r.pub <= pub[p]
      BY <1>2, <1>3, <2>1, <2>2, <2>4
    <3> QED
      BY <3>1 DEF HasNewest
  <2> QED
    BY <1>2, <2>2, <2>3, <2>4
<1>6. ASSUME NEW q \in Pass PROVE Stages(q)'
  <2>1. pc'[q] = "idle"
    BY DEF Commit, EndTx, OneAtATime, SciInv, StoreTypeOK
  <2>2. staged'[q] = {}
    BY <1>1, <2>1 DEF StoreInv, InTx
  <2> QED
    BY <2>1, <2>2 DEF Stages, InTx
<1> QED
  BY <1>1, <1>4, <1>5, <1>6 DEF SciInv

\* A numbered row is of the post's edition and above every committed row.
LEMMA NumberedIsAbove ==
  ASSUME SciInv, NEW p \in Pass, Number(p)
  PROVE  /\ NumberedRow(p).pub = pub[p]
         /\ \A r \in rows : r.period = NumberedRow(p).period => r.vintage < NumberedRow(p).vintage
<1>1. View(p) \in SUBSET Row /\ Good(View(p)) /\ CurrentIsLast(p) /\ point[p].period \in Period
  BY DEF Number, SciInv, StoreInv, StoreTypeOK, View, InTx, CurrentIsLast, Point
<1>2. ASSUME NEW r \in rows, r.period = point[p].period
      PROVE  r.vintage < NumberedRow(p).vintage
  <2>1. r \in RowsOf(View(p), point[p].period)
    BY <1>2 DEF RowsOf, View
  <2>2. cur[p] # Nil
    BY <1>1, <2>1 DEF CurrentIsLast
  <2>3. /\ cur[p] \in RowsOf(View(p), point[p].period)
        /\ \A s \in RowsOf(View(p), point[p].period) : s.vintage <= cur[p].vintage
    BY <1>1, <2>2 DEF CurrentIsLast
  <2>4. MaxVintage(View(p), point[p].period) = cur[p].vintage
    BY <1>1, <2>3, BoundsOfLast
  <2>5. NumberedRow(p).vintage = cur[p].vintage + 1
    BY <2>2, <2>4 DEF NumberedRow
  <2>6. r.vintage <= cur[p].vintage /\ r.vintage \in Nat /\ cur[p].vintage \in Nat
    BY <1>1, <2>1, <2>3 DEF RowsOf, Row
  <2> QED
    BY <2>5, <2>6
<1> QED
  BY <1>2 DEF NumberedRow

\* Every step of a post keeps the invariant, while no two are under way.
LEMMA SciNextKeeps ==
  ASSUME SciInv, OneAtATime, [SciNext]_sciVars
  PROVE  SciInv'
<1>0. StoreTypeOK /\ StoreInv /\ rows \in SUBSET Row
  BY DEF SciInv, StoreTypeOK
<1> USE DEF local
<1>1. ASSUME NEW p \in Pass, NEW e \in Edition, Post(p, e) PROVE SciInv'
  <2>1. Points(e, posted') \in SUBSET Point /\ e \in Nat /\ posted' \in Nat
    BY <1>1, PostedPoints, SciAssumption DEF Post, SciInv
  <2>2. StoreTypeOK'
    BY <1>0, <1>1, <2>1 DEF Post, StoreTypeOK, PC, Time
  <2>3. \A q \in Pass : pc'[q] = pc[q] \/ (pc[q] \notin InTx /\ pc'[q] \notin InTx)
    BY <1>0, <1>1 DEF Post, StoreTypeOK, InTx
  <2>4. StoreInv'
    BY <1>0, <1>1, <2>3, PrepareKeeps DEF Post
  <2>5. staged'[p] = {} /\ pc'[p] = "fetched"
    BY <1>0, <1>1, <2>4 DEF Post, StoreTypeOK, StoreInv, InTx
  <2>6. Stages(p)'
    BY <2>5 DEF Stages, InTx
  <2> QED
    BY <1>0, <1>1, <2>1, <2>2, <2>4, <2>6, OwnStages DEF Post, StoreTypeOK
<1>2. ASSUME NEW p \in Pass, RefuseStale(p) PROVE SciInv'
  BY <1>2, GivenUp DEF RefuseStale, SciInv
<1>3. ASSUME NEW p \in Pass, PostFails(p) PROVE SciInv'
  BY <1>3, GivenUp DEF PostFails, Crash, SciInv
<1>4. ASSUME NEW p \in Pass, Accept(p) PROVE SciInv'
  <2>1. StoreTypeOK'
    BY <1>0, <1>4 DEF Accept, StoreTypeOK, PC
  <2>2. \A q \in Pass : pc'[q] = pc[q] \/ (pc[q] \notin InTx /\ pc'[q] \notin InTx)
    BY <1>0, <1>4 DEF Accept, StoreTypeOK, InTx
  <2>3. StoreInv'
    BY <1>0, <1>4, <2>2, PrepareKeeps DEF Accept
  <2>4. pub[p] = 0 \/ \A r \in rows : r.pub <= pub[p]
    <3>1. /\ NewestPublished \in Nat /\ \A r \in rows : r.pub <= NewestPublished
          /\ pub[p] \in Nat /\ \A r \in rows : r.pub \in Nat
      BY <1>0, NewestIsNewest DEF SciInv, StoreTypeOK, Row
    <3>2. pub[p] = 0 \/ NewestPublished <= pub[p]
      BY <1>4, <3>1 DEF Accept, Stale
    <3> QED
      BY <3>1, <3>2
  <2>5. staged[p] = {} /\ pc'[p] = "ready"
    BY <1>0, <1>4 DEF Accept, StoreTypeOK, StoreInv, InTx
  <2>6. Stages(p)'
    BY <1>4, <2>4, <2>5 DEF Accept, Stages
  <2> QED
    BY <1>0, <1>4, <2>1, <2>3, <2>6, OwnStages DEF Accept, StoreTypeOK, SciInv
<1>5. ASSUME NEW p \in Pass, WriteWorkbook(p) PROVE SciInv'
  <2>0. WriteStep(p) /\ posted' \in Nat /\ StoreTypeOK' /\ StoreInv' /\ Stages(p)
    BY <1>0, <1>5, WriteStepKeeps DEF WriteWorkbook, SciInv
  <2>1. CASE EnsureSeries(p)
    <3>1. Stages(p)'
      BY <1>0, <2>0, <2>1 DEF EnsureSeries, StoreTypeOK, Stages, InTx
    <3> QED
      BY <1>0, <2>0, <2>1, <3>1, OwnStages DEF EnsureSeries, StoreTypeOK
  <2>2. CASE SelectCurrent(p)
    <3>1. Stages(p)'
      BY <1>0, <2>0, <2>2 DEF SelectCurrent, StoreTypeOK, Stages, InTx
    <3> QED
      BY <1>0, <2>0, <2>2, <3>1, OwnStages DEF SelectCurrent, StoreTypeOK
  <2>3. CASE Unchanged(p)
    <3>1. Stages(p)'
      BY <1>0, <2>0, <2>3 DEF Unchanged, StoreTypeOK, Stages, InTx
    <3> QED
      BY <1>0, <2>0, <2>3, <3>1, OwnStages DEF Unchanged, StoreTypeOK
  <2>4. CASE Refuse(p)
    BY <2>0, <2>4, GivenUp DEF Refuse
  <2>5. CASE Number(p)
    <3>1. Stages(p)'
      BY <1>0, <2>0, <2>5, NumberedIsAbove DEF Number, StoreTypeOK, Stages, InTx
    <3> QED
      BY <1>0, <2>0, <2>5, <3>1, OwnStages DEF Number, StoreTypeOK
  <2>6. CASE Insert(p)
    <3>1. staged'[p] \subseteq staged[p] \cup {pending[p]} /\ pc'[p] = "select" /\ pc[p] = "insert"
      BY <1>0, <2>6 DEF Insert, StoreTypeOK
    <3>2. Stages(p)'
      BY <2>0, <2>6, <3>1 DEF Insert, Stages, InTx
    <3> QED
      BY <1>0, <2>0, <2>6, <3>2, OwnStages DEF Insert, StoreTypeOK
  <2>7. CASE Commit(p)
    BY <2>0, <2>7, CommitKeepsOrder
  <2> QED
    BY <2>0, <2>1, <2>2, <2>3, <2>4, <2>5, <2>6, <2>7 DEF WriteStep
<1>6. CASE UNCHANGED sciVars
  <2>1. StoreTypeOK'
    BY <1>0, <1>6 DEF sciVars, storeVars, StoreTypeOK
  <2>2. StoreInv'
    BY <1>0, <1>6, PrepareKeeps DEF sciVars, storeVars
  <2> QED
    BY <1>6, <2>1, <2>2 DEF sciVars, storeVars, SciInv, EditionOrder, HasNewest, Stages
<1> QED
  BY <1>1, <1>2, <1>3, <1>4, <1>5, <1>6 DEF SciNext

\* A workbook older than one already ingested never becomes the newest vintage
\* of a month, for any workbooks, months and number of posts, as long as no two
\* posts are under way together (ingest_sci_cpi does not see to that itself:
\* it reads the newest publication date before it takes the series' lock).
THEOREM EditionOrderHolds == SciSpec /\ []OneAtATime => []EditionOrder
<1>1. SciInit => SciInv
  BY StoreInitHolds DEF SciInit, StoreInit, SciInv, EditionOrder, HasNewest, Stages, InTx
<1>2. SciInv => EditionOrder
  BY DEF SciInv
<1> QED
  BY <1>1, <1>2, SciNextKeeps, PTL DEF SciSpec

=============================================================================
