------------------------ MODULE EconomicStoreProofs ------------------------
(***************************************************************************)
(* The write transaction keeps the store's inductive invariant, for any    *)
(* number of passes and periods, any clock and any client of EconomicStore *)
(* that only prepares payloads outside the transaction.                    *)
(***************************************************************************)
EXTENDS EconomicStore, TLAPS

\* Max is the element no other exceeds.
LEMMA MaxIs ==
  ASSUME NEW S \in SUBSET Nat, NEW m \in S, \A y \in S : y <= m
  PROVE  Max(S) = m
<1>1. \E x \in S : \A y \in S : x >= y
  OBVIOUS
<1>2. Max(S) \in S /\ \A y \in S : Max(S) >= y
  BY <1>1 DEF Max
<1>3. Max(S) >= m /\ Max(S) <= m /\ Max(S) \in Nat /\ m \in Nat
  BY <1>2
<1>4. QED
  BY <1>3

\* In a good set of rows the last vintage of a period is the row the
\* (available_at, vintage) order puts first, and the only one.
LEMMA NewestIsLast ==
  ASSUME NEW S \in SUBSET Row, Good(S), NEW per \in Period
  PROVE  /\ RowsOf(S, per) # {} => Newest(RowsOf(S, per)) # {}
         /\ \A r \in Newest(RowsOf(S, per)) :
              /\ r \in RowsOf(S, per)
              /\ \A s \in RowsOf(S, per) : s.vintage <= r.vintage
<1> DEFINE P == RowsOf(S, per)
<1>0. P \in SUBSET Row /\ \A r \in P : r \in S /\ r.period = per
  BY DEF RowsOf
<1>1. \A r \in P : r.vintage \in Nat /\ r.avail \in Nat
  BY <1>0 DEF Row, Time
<1>2. ASSUME NEW m \in P, \A s \in P : s.vintage <= m.vintage
      PROVE  \A s \in P : ~Newer(s, m) /\ (s = m \/ Newer(m, s))
  <2> SUFFICES ASSUME NEW s \in P
               PROVE  ~Newer(s, m) /\ (s = m \/ Newer(m, s))
    OBVIOUS
  <2>1. s.vintage <= m.vintage /\ s.vintage \in Nat /\ m.vintage \in Nat
        /\ s.avail \in Nat /\ m.avail \in Nat
    BY <1>1, <1>2
  <2>2. CASE s.vintage = m.vintage
    <3>1. s = m
      BY <1>0, <2>2 DEF Good, RealRevisions, SameKey
    <3>2. QED
      BY <3>1, <2>1 DEF Newer
  <2>3. CASE s.vintage < m.vintage
    <3>1. s.avail <= m.avail
      BY <1>0, <2>3 DEF Good, VintageOrder
    <3>2. QED
      BY <3>1, <2>1, <2>3 DEF Newer
  <2>4. QED
    BY <2>1, <2>2, <2>3
<1>3. ASSUME P # {}
      PROVE  Newest(P) # {}
  <2>1. PICK m \in P : \A s \in P : s.vintage <= m.vintage
    BY <1>3 DEF Good, HasLastVintage
  <2>2. m \in Newest(P)
    BY <2>1, <1>2 DEF Newest
  <2>3. QED
    BY <2>2
<1>4. ASSUME NEW r \in Newest(P)
      PROVE  r \in P /\ \A s \in P : s.vintage <= r.vintage
  <2>1. r \in P /\ \A s \in P : ~Newer(s, r)
    BY DEF Newest
  <2>2. PICK m \in P : \A s \in P : s.vintage <= m.vintage
    BY <2>1 DEF Good, HasLastVintage
  <2>3. r = m
    BY <2>1, <2>2, <1>2
  <2>4. QED
    BY <2>1, <2>2, <2>3
<1>5. QED
  BY <1>3, <1>4

\* A first print of a period extends a good set.
LEMMA FirstPrint ==
  ASSUME NEW S \in SUBSET Row, Good(S), NEW x \in Row, x.vintage = 1,
         RowsOf(S, x.period) = {}
  PROVE  Good(S \cup {x}) /\ \A r \in S : ~SameKey(r, x)
<1>0. \A r \in S : r.period # x.period
  BY DEF RowsOf
<1>1. VintageOrder(S \cup {x})
  BY <1>0 DEF Good, VintageOrder, Row, Time
<1>2. \A r, s \in S \cup {x} : SameKey(r, s) => r = s
  BY <1>0 DEF Good, RealRevisions, SameKey
<1>3. \A r \in S \cup {x} : r.vintage > 1 =>
        \E s \in S \cup {x} : s.period = r.period /\ s.vintage = r.vintage - 1
                              /\ s.value # r.value
  <2> SUFFICES ASSUME NEW r \in S \cup {x}, r.vintage > 1
               PROVE  \E s \in S \cup {x} : s.period = r.period
                        /\ s.vintage = r.vintage - 1 /\ s.value # r.value
    OBVIOUS
  <2>1. r \in S
    OBVIOUS
  <2>2. QED
    BY <2>1 DEF Good, RealRevisions
<1>4. HasLastVintage(S \cup {x})
  <2> SUFFICES ASSUME NEW per \in Period, RowsOf(S \cup {x}, per) # {}
               PROVE  \E r \in RowsOf(S \cup {x}, per) :
                        \A s \in RowsOf(S \cup {x}, per) : s.vintage <= r.vintage
    BY DEF HasLastVintage
  <2>1. CASE per = x.period
    <3>1. RowsOf(S \cup {x}, per) = {x}
      BY <1>0, <2>1 DEF RowsOf
    <3>2. x.vintage <= x.vintage
      OBVIOUS
    <3>3. QED
      BY <3>1, <3>2
  <2>2. CASE per # x.period
    <3>1. RowsOf(S \cup {x}, per) = RowsOf(S, per)
      BY <2>2 DEF RowsOf
    <3>2. QED
      BY <3>1 DEF Good, HasLastVintage
  <2>3. QED
    BY <2>1, <2>2
<1>5. QED
  BY <1>0, <1>1, <1>2, <1>3, <1>4 DEF Good, RealRevisions, SameKey

\* A restatement numbered after the last vintage, and not available before
\* it, extends a good set.
LEMMA Restatement ==
  ASSUME NEW S \in SUBSET Row, Good(S), NEW x \in Row,
         NEW c \in RowsOf(S, x.period),
         \A s \in RowsOf(S, x.period) : s.vintage <= c.vintage,
         x.vintage = c.vintage + 1, x.value # c.value,
         \A s \in RowsOf(S, x.period) : s.avail <= x.avail
  PROVE  Good(S \cup {x}) /\ \A r \in S : ~SameKey(r, x)
<1> USE DEF Time
<1>0. /\ c \in S /\ c.period = x.period
      /\ \A r \in S : r.period = x.period => r \in RowsOf(S, x.period)
      /\ \A r \in S \cup {x} : r \in Row
  BY DEF RowsOf
<1>1. \A r \in S : r.period = x.period =>
        r.vintage < x.vintage /\ r.avail <= x.avail
  <2> SUFFICES ASSUME NEW r \in S, r.period = x.period
               PROVE  r.vintage < x.vintage /\ r.avail <= x.avail
    OBVIOUS
  <2>1. r.vintage <= c.vintage /\ r.avail <= x.avail
    BY <1>0
  <2>2. r.vintage \in Nat /\ c.vintage \in Nat
    BY <1>0 DEF Row
  <2>3. QED
    BY <2>1, <2>2
<1>2. \A r \in S \cup {x} : r.vintage \in Nat /\ r.avail \in Nat
  BY <1>0 DEF Row
<1>3. VintageOrder(S \cup {x})
  <2> SUFFICES ASSUME NEW r \in S \cup {x}, NEW s \in S \cup {x},
                      r.period = s.period, r.vintage < s.vintage
               PROVE  r.avail <= s.avail
    BY DEF VintageOrder
  <2>1. CASE r \in S /\ s \in S
    BY <2>1 DEF Good, VintageOrder
  <2>2. CASE r \in S /\ s = x
    BY <2>2, <1>1
  <2>3. CASE r = x
    <3>1. CASE s = x
      BY <2>3, <3>1, <1>2
    <3>2. CASE s \in S
      BY <2>3, <3>2, <1>1, <1>2
    <3>3. QED
      BY <3>1, <3>2
  <2>4. QED
    BY <2>1, <2>2, <2>3
<1>4. \A r \in S : ~SameKey(r, x) /\ ~SameKey(x, r)
  BY <1>1, <1>2 DEF SameKey
<1>5. \A r, s \in S \cup {x} : SameKey(r, s) => r = s
  BY <1>4 DEF Good, RealRevisions
<1>6. \A r \in S \cup {x} : r.vintage > 1 =>
        \E s \in S \cup {x} : s.period = r.period /\ s.vintage = r.vintage - 1
                              /\ s.value # r.value
  <2> SUFFICES ASSUME NEW r \in S \cup {x}, r.vintage > 1
               PROVE  \E s \in S \cup {x} : s.period = r.period
                        /\ s.vintage = r.vintage - 1 /\ s.value # r.value
    OBVIOUS
  <2>1. CASE r \in S
    BY <2>1 DEF Good, RealRevisions
  <2>2. CASE r = x
    <3>1. c.vintage = x.vintage - 1
      BY <1>0, <1>2
    <3>2. QED
      BY <3>1, <2>2, <1>0
  <2>3. QED
    BY <2>1, <2>2
<1>7. HasLastVintage(S \cup {x})
  <2> SUFFICES ASSUME NEW per \in Period, RowsOf(S \cup {x}, per) # {}
               PROVE  \E r \in RowsOf(S \cup {x}, per) :
                        \A s \in RowsOf(S \cup {x}, per) : s.vintage <= r.vintage
    BY DEF HasLastVintage
  <2>1. CASE per = x.period
    <3>1. x \in RowsOf(S \cup {x}, per)
      BY <2>1 DEF RowsOf
    <3>2. \A s \in RowsOf(S \cup {x}, per) : s.vintage <= x.vintage
      BY <2>1, <1>1, <1>2 DEF RowsOf
    <3>3. QED
      BY <3>1, <3>2
  <2>2. CASE per # x.period
    <3>1. RowsOf(S \cup {x}, per) = RowsOf(S, per)
      BY <2>2 DEF RowsOf
    <3>2. QED
      BY <3>1 DEF Good, HasLastVintage
  <2>3. QED
    BY <2>1, <2>2
<1>8. QED
  BY <1>3, <1>4, <1>5, <1>6, <1>7 DEF Good, RealRevisions

-----------------------------------------------------------------------------

\* Facts about what the store's last vintage bounds.
LEMMA BoundsOfLast ==
  ASSUME NEW S \in SUBSET Row, Good(S), NEW per \in Period,
         NEW c \in RowsOf(S, per),
         \A s \in RowsOf(S, per) : s.vintage <= c.vintage
  PROVE  /\ MaxVintage(S, per) = c.vintage
         /\ MaxAvail(S, per) = c.avail
         /\ \A s \in RowsOf(S, per) : s.avail <= c.avail
<1>0. \A s \in RowsOf(S, per) :
        s \in S /\ s.period = per /\ s.vintage \in Nat /\ s.avail \in Nat
  BY DEF RowsOf, Row, Time
<1>1. \A s \in RowsOf(S, per) : s.avail <= c.avail
  <2> SUFFICES ASSUME NEW s \in RowsOf(S, per)
               PROVE  s.avail <= c.avail
    OBVIOUS
  <2>1. CASE s.vintage = c.vintage
    <3>1. s = c
      BY <1>0, <2>1 DEF Good, RealRevisions, SameKey
    <3>2. QED
      BY <3>1, <1>0
  <2>2. CASE s.vintage < c.vintage
    BY <1>0, <2>2 DEF Good, VintageOrder
  <2>3. QED
    BY <1>0, <2>1, <2>2
<1>2. MaxVintage(S, per) = c.vintage
  <2> DEFINE V == {0} \cup {r.vintage : r \in RowsOf(S, per)}
  <2>1. V \in SUBSET Nat /\ c.vintage \in V /\ \A y \in V : y <= c.vintage
    BY <1>0
  <2>2. Max(V) = c.vintage
    BY <2>1, MaxIs
  <2>3. QED
    BY <2>2 DEF MaxVintage
<1>3. MaxAvail(S, per) = c.avail
  <2> DEFINE A == {0} \cup {r.avail : r \in RowsOf(S, per)}
  <2>1. A \in SUBSET Nat /\ c.avail \in A /\ \A y \in A : y <= c.avail
    BY <1>0, <1>1
  <2>2. Max(A) = c.avail
    BY <2>1, MaxIs
  <2>3. QED
    BY <2>2 DEF MaxAvail
<1>4. QED
  BY <1>1, <1>2, <1>3

\* The row a pass numbers extends its view.
LEMMA NumberedRowExtends ==
  ASSUME StoreTypeOK, StoreInv, NEW p \in Pass, Number(p)
  PROVE  /\ NumberedRow(p) \in Row
         /\ \A r \in View(p) : ~SameKey(r, NumberedRow(p))
         /\ Good(View(p) \cup {NumberedRow(p)})
<1> DEFINE V == View(p)
           x == NumberedRow(p)
           per == point[p].period
<1>0. /\ pc[p] = "bounds" /\ ~SameValue(p) /\ ~Backdated(p)
      /\ CurrentIsLast(p) /\ Good(V) /\ V \in SUBSET Row
      /\ point[p] \in Point /\ stamp[p] \in Nat /\ pub[p] \in Nat /\ per \in Period
  BY DEF Number, StoreInv, StoreTypeOK, InTx, CurrentIsLast, View, Time, Point
<1>1. CASE cur[p] = Nil
  <2>1. /\ x \in Row /\ x.vintage = 1 /\ x.period = per
    BY <1>0, <1>1 DEF NumberedRow, Row, Point, Time
  <2>2. RowsOf(V, x.period) = {}
    BY <1>0, <1>1, <2>1 DEF CurrentIsLast
  <2>3. QED
    BY <1>0, <2>1, <2>2, FirstPrint
<1>2. CASE cur[p] # Nil
  <2> DEFINE c == cur[p]
  <2>1. c \in RowsOf(V, per) /\ \A s \in RowsOf(V, per) : s.vintage <= c.vintage
    BY <1>0, <1>2 DEF CurrentIsLast
  <2>2. /\ MaxVintage(V, per) = c.vintage
        /\ MaxAvail(V, per) = c.avail
        /\ \A s \in RowsOf(V, per) : s.avail <= c.avail
    BY <1>0, <2>1, BoundsOfLast
  <2>3. c \in Row /\ c.vintage \in Nat /\ c.avail \in Nat
    BY <1>0, <2>1 DEF RowsOf, Row, Time
  <2>4. /\ x.vintage = c.vintage + 1 /\ x.period = per
        /\ x.value = point[p].value /\ x.avail = stamp[p]
    BY <1>2, <2>2 DEF NumberedRow
  <2>5. x \in Row
    BY <1>0, <1>2, <2>2, <2>3 DEF NumberedRow, Row, Point, Time
  <2>6. x.value # c.value
    BY <1>0, <1>2, <2>4 DEF SameValue
  <2>7. \A s \in RowsOf(V, per) : s.avail <= x.avail
    <3>1. c.avail <= x.avail
      BY <1>0, <2>2, <2>3, <2>4 DEF Backdated
    <3>2. \A s \in RowsOf(V, per) : s.avail \in Nat
      BY <1>0 DEF RowsOf, Row, Time
    <3>3. QED
      BY <3>1, <3>2, <2>2, <2>3, <2>4, <1>0
  <2>8. QED
    BY <1>0, <2>1, <2>4, <2>5, <2>6, <2>7, Restatement
<1>3. QED
  BY <1>1, <1>2

-----------------------------------------------------------------------------
(* One step of the transaction.                                             *)

\* The invariant of one pass whose transaction is open, given the view it has.
PassInv(p) ==
  /\ pc[p] \in InTx <=> lock = p
  /\ pc[p] \notin InTx => staged[p] = {}
  /\ pc[p] \in InTx => Good(View(p))
  /\ pc[p] = "bounds" => CurrentIsLast(p)
  /\ pc[p] = "insert" => PendingExtends(p)

\* The inductive invariant is good committed rows and one part per pass.
LEMMA StoreInvByPass == StoreInv <=> Good(rows) /\ \A p \in Pass : PassInv(p)
BY DEF StoreInv, PassInv

\* A step that leaves a pass and the committed rows alone keeps its part.
LEMMA PassFrame ==
  ASSUME StoreTypeOK, NEW q \in Pass, PassInv(q), rows' = rows,
         (lock' = q) <=> (lock = q),
         pc'[q] = pc[q], staged'[q] = staged[q], point'[q] = point[q],
         cur'[q] = cur[q], pending'[q] = pending[q]
  PROVE  PassInv(q)'
<1>1. View(q)' = View(q)
  BY DEF View
<1>2. Good(View(q))' = Good(View(q))
  BY <1>1 DEF Good, VintageOrder, RealRevisions, HasLastVintage, RowsOf, SameKey
<1>3. CurrentIsLast(q)' = CurrentIsLast(q)
  BY <1>1 DEF CurrentIsLast, RowsOf
<1>4. PendingExtends(q)' = PendingExtends(q)
  BY <1>1 DEF PendingExtends, SameKey, Good, VintageOrder, RealRevisions,
              HasLastVintage, RowsOf
<1>5. QED
  BY <1>2, <1>3, <1>4 DEF PassInv

\* A pass outside its transaction needs nothing of the rows.
LEMMA PassOutside ==
  ASSUME NEW q \in Pass, (pc[q] \notin InTx)', (lock # q)', (staged[q] = {})'
  PROVE  PassInv(q)'
BY DEF PassInv, InTx

\* Steps of a client outside the transaction keep the invariant.
LEMMA PrepareKeeps ==
  ASSUME StoreTypeOK, StoreInv,
         UNCHANGED <<rows, lock, point, cur, pending, staged>>,
         \A q \in Pass : \/ pc'[q] = pc[q]
                         \/ pc[q] \notin InTx /\ pc'[q] \notin InTx
  PROVE  StoreInv'
<1>1. Good(rows)'
  BY DEF StoreInv, Good, VintageOrder, RealRevisions, HasLastVintage, RowsOf, SameKey
<1>2. ASSUME NEW q \in Pass PROVE PassInv(q)'
  <2>0. PassInv(q)
    BY StoreInvByPass
  <2>1. CASE pc'[q] = pc[q]
    BY <2>0, <2>1, PassFrame
  <2>2. CASE pc[q] \notin InTx /\ pc'[q] \notin InTx
    <3>1. lock # q /\ staged[q] = {}
      BY <2>0, <2>2 DEF PassInv
    <3>2. QED
      BY <2>2, <3>1, PassOutside
  <2>3. QED
    BY <2>1, <2>2
<1>3. QED
  BY <1>1, <1>2 DEF StoreInv, PassInv

\* A transaction that ends keeps the invariant, if the rows it leaves are good.
LEMMA EndTxKeeps ==
  ASSUME StoreTypeOK, StoreInv, NEW p \in Pass, EndTx(p), Good(rows)',
         \A q \in Pass \ {p} : pc[q] \in InTx => rows' = rows
  PROVE  StoreInv'
<1>1. ASSUME NEW q \in Pass PROVE PassInv(q)'
  <2>0. PassInv(q)
    BY StoreInvByPass
  <2>1. CASE q = p
    <3>1. (pc[q] \notin InTx)' /\ (lock # q)' /\ (staged[q] = {})'
      BY <2>1, NilAssumption DEF EndTx, InTx, StoreTypeOK
    <3>2. QED
      BY <3>1, PassOutside
  <2>2. CASE q # p
    <3>0. /\ (lock' = q) <=> (lock = q)
          /\ pc'[q] = pc[q] /\ staged'[q] = staged[q] /\ point'[q] = point[q]
          /\ cur'[q] = cur[q] /\ pending'[q] = pending[q]
      BY <2>2, NilAssumption DEF EndTx, StoreTypeOK
    <3>1. CASE rows' = rows
      BY <2>0, <3>0, <3>1, PassFrame
    <3>2. CASE pc[q] \notin InTx
      <4>1. (pc[q] \notin InTx)' /\ (lock # q)' /\ (staged[q] = {})'
        BY <2>0, <3>0, <3>2 DEF PassInv
      <4>2. QED
        BY <4>1, PassOutside
    <3>3. QED
      BY <2>2, <3>1, <3>2
  <2>3. QED
    BY <2>1, <2>2
<1>2. QED
  BY <1>1 DEF StoreInv, PassInv

\* A step of p inside its transaction that leaves the committed rows, the
\* lock and the other passes alone: only p's part is in question.
LEMMA OwnStep ==
  ASSUME StoreTypeOK, StoreInv, NEW p \in Pass, rows' = rows, lock' = lock,
         \A q \in Pass \ {p} :
           /\ pc'[q] = pc[q] /\ staged'[q] = staged[q] /\ point'[q] = point[q]
           /\ cur'[q] = cur[q] /\ pending'[q] = pending[q],
         PassInv(p)'
  PROVE  StoreInv'
<1>1. Good(rows)'
  BY DEF StoreInv, Good, VintageOrder, RealRevisions, HasLastVintage, RowsOf, SameKey
<1>2. ASSUME NEW q \in Pass, q # p PROVE PassInv(q)'
  <2>0. PassInv(q)
    BY StoreInvByPass
  <2>1. QED
    BY <1>2, <2>0, PassFrame
<1>3. QED
  BY <1>1, <1>2 DEF StoreInv, PassInv

\* Every step of the write transaction keeps types and the invariant.
LEMMA WriteStepKeeps ==
  ASSUME StoreTypeOK, StoreInv, NEW p \in Pass, WriteStep(p)
  PROVE  StoreTypeOK' /\ StoreInv'
<1>0. PassInv(p) /\ Good(rows) /\ rows \in SUBSET Row /\ View(p) \in SUBSET Row
  BY StoreInvByPass DEF StoreTypeOK, View
<1> USE DEF local
<1>1. CASE EnsureSeries(p)
  <2>1. StoreTypeOK'
    BY <1>1 DEF EnsureSeries, StoreTypeOK, PC, InTx
  <2>2. staged[p] = {} /\ View(p) = rows
    BY <1>0, <1>1 DEF EnsureSeries, PassInv, InTx, View
  <2>3. Good(rows)' /\ Good(View(p))'
    BY <1>0, <1>1, <2>2 DEF EnsureSeries, Good, VintageOrder, RealRevisions,
       HasLastVintage, RowsOf, SameKey, View
  <2>4. PassInv(p)'
    BY <1>1, <2>2, <2>3 DEF EnsureSeries, PassInv, InTx, StoreTypeOK
  <2>5. ASSUME NEW q \in Pass, q # p PROVE PassInv(q)'
    <3>1. PassInv(q)
      BY StoreInvByPass
    <3>2. (lock' = q) <=> (lock = q)
      BY <1>1, <2>5, NilAssumption DEF EnsureSeries
    <3>3. QED
      BY <1>1, <2>5, <3>1, <3>2, PassFrame DEF EnsureSeries, StoreTypeOK
  <2>6. QED
    BY <2>1, <2>3, <2>4, <2>5 DEF StoreInv, PassInv
<1>2. CASE SelectCurrent(p)
  <2>0. PICK x \in payload[p] :
          LET newest == Newest(RowsOf(View(p), x.period)) IN
          /\ payload' = [payload EXCEPT ![p] = @ \ {x}]
          /\ point' = [point EXCEPT ![p] = x]
          /\ \E r \in IF newest = {} THEN {Nil} ELSE newest :
               cur' = [cur EXCEPT ![p] = r]
    BY <1>2 DEF SelectCurrent
  <2> DEFINE V == View(p)
             P == RowsOf(V, x.period)
  <2>1. x \in Point /\ x.period \in Period
    BY DEF StoreTypeOK, Point
  <2>2. pc[p] \in InTx /\ Good(V) /\ V \in SUBSET Row
    BY <1>0, <1>2 DEF SelectCurrent, InTx, PassInv
  <2>3. /\ P # {} => Newest(P) # {}
        /\ \A r \in Newest(P) : r \in P /\ \A s \in P : s.vintage <= r.vintage
    BY <2>1, <2>2, NewestIsLast
  <2>4. PICK r : /\ cur' = [cur EXCEPT ![p] = r]
                 /\ \/ r = Nil /\ P = {}
                    \/ r \in Row /\ r \in P /\ \A s \in P : s.vintage <= r.vintage
    <3>1. PICK r \in IF Newest(P) = {} THEN {Nil} ELSE Newest(P) :
            cur' = [cur EXCEPT ![p] = r]
      BY <2>0
    <3>2. QED
      BY <2>2, <2>3, <3>1 DEF RowsOf
  <2>5. StoreTypeOK'
    BY <1>2, <2>0, <2>1, <2>4 DEF SelectCurrent, StoreTypeOK, PC, InTx
  <2>6. View(p)' = V /\ point'[p] = x /\ cur'[p] = r /\ pc'[p] = "bounds"
    BY <1>2, <2>0, <2>4 DEF SelectCurrent, StoreTypeOK, View
  <2>7. CurrentIsLast(p)'
    BY <2>1, <2>4, <2>6, NilAssumption DEF CurrentIsLast, RowsOf
  <2>8. Good(View(p))'
    BY <2>2, <2>6 DEF Good, VintageOrder, RealRevisions, HasLastVintage, RowsOf, SameKey
  <2>9. PassInv(p)'
    BY <1>0, <1>2, <2>2, <2>6, <2>7, <2>8 DEF PassInv, InTx, SelectCurrent
  <2>10. QED
    BY <1>2, <2>0, <2>4, <2>5, <2>9, OwnStep DEF SelectCurrent, StoreTypeOK
<1>3. CASE Unchanged(p)
  <2>1. StoreTypeOK'
    BY <1>3 DEF Unchanged, StoreTypeOK, PC, InTx
  <2>2. View(p)' = View(p) /\ pc[p] \in InTx /\ Good(View(p)) /\ pc'[p] = "select"
    BY <1>0, <1>3 DEF Unchanged, View, PassInv, InTx, StoreTypeOK
  <2>3. Good(View(p))'
    BY <2>2 DEF Good, VintageOrder, RealRevisions, HasLastVintage, RowsOf, SameKey
  <2>4. PassInv(p)'
    BY <1>0, <1>3, <2>2, <2>3 DEF PassInv, InTx, Unchanged
  <2>5. QED
    BY <1>3, <2>1, <2>4, OwnStep DEF Unchanged, StoreTypeOK
<1>4. CASE Refuse(p)
  <2>1. StoreTypeOK'
    BY <1>4 DEF Refuse, EndTx, StoreTypeOK, PC, Time
  <2>2. Good(rows)'
    BY <1>0, <1>4 DEF Refuse, Good, VintageOrder, RealRevisions, HasLastVintage, RowsOf, SameKey
  <2>3. QED
    BY <1>4, <2>1, <2>2, EndTxKeeps DEF Refuse
<1>5. CASE Number(p)
  <2>1. /\ NumberedRow(p) \in Row
        /\ \A r \in View(p) : ~SameKey(r, NumberedRow(p))
        /\ Good(View(p) \cup {NumberedRow(p)})
    BY <1>5, NumberedRowExtends
  <2>2. StoreTypeOK'
    BY <1>5, <2>1 DEF Number, StoreTypeOK, PC, InTx
  <2>3. /\ View(p)' = View(p) /\ pc[p] \in InTx /\ Good(View(p)) /\ pc'[p] = "insert"
        /\ pending'[p] = NumberedRow(p)
    BY <1>0, <1>5 DEF Number, View, PassInv, InTx, StoreTypeOK
  <2>4. Good(View(p))' /\ PendingExtends(p)'
    BY <2>1, <2>3 DEF PendingExtends, Good, VintageOrder, RealRevisions,
       HasLastVintage, RowsOf, SameKey
  <2>5. PassInv(p)'
    BY <1>0, <1>5, <2>3, <2>4 DEF PassInv, InTx, Number
  <2>6. QED
    BY <1>5, <2>2, <2>5, OwnStep DEF Number, StoreTypeOK
<1>6. CASE Insert(p)
  <2>1. pc[p] \in InTx /\ PendingExtends(p)
    BY <1>0, <1>6 DEF Insert, PassInv, InTx
  <2>2. /\ staged' = [staged EXCEPT ![p] = @ \cup {pending[p]}]
        /\ pending[p] \in Row
    BY <1>6, <2>1 DEF Insert, PendingExtends
  <2>3. StoreTypeOK'
    BY <1>6, <2>2 DEF Insert, StoreTypeOK, PC, InTx
  <2>4. View(p)' = View(p) \cup {pending[p]} /\ pc'[p] = "select"
    BY <1>6, <2>2 DEF Insert, View, StoreTypeOK
  <2>5. Good(View(p))'
    BY <2>1, <2>4 DEF PendingExtends, Good, VintageOrder, RealRevisions,
       HasLastVintage, RowsOf, SameKey
  <2>6. PassInv(p)'
    BY <1>0, <1>6, <2>1, <2>4, <2>5 DEF PassInv, InTx, Insert
  <2>7. QED
    BY <1>6, <2>2, <2>3, <2>6, OwnStep DEF Insert, StoreTypeOK
<1>7. CASE Commit(p)
  <2>1. StoreTypeOK'
    BY <1>7 DEF Commit, EndTx, StoreTypeOK, PC, Time
  <2>2. lock = p /\ Good(View(p)) /\ rows' = View(p)
    BY <1>0, <1>7 DEF Commit, PassInv, InTx, View
  <2>3. Good(rows)'
    BY <2>2 DEF Good, VintageOrder, RealRevisions, HasLastVintage, RowsOf, SameKey
  <2>4. \A q \in Pass \ {p} : pc[q] \notin InTx
    BY <2>2 DEF StoreInv
  <2>5. QED
    BY <1>7, <2>1, <2>3, <2>4, EndTxKeeps DEF Commit
<1>8. QED
  BY <1>1, <1>2, <1>3, <1>4, <1>5, <1>6, <1>7 DEF WriteStep

\* A crash rolls the transaction back and keeps the invariant.
LEMMA CrashKeeps ==
  ASSUME StoreTypeOK, StoreInv, NEW p \in Pass, Crash(p)
  PROVE  StoreTypeOK' /\ StoreInv'
<1>1. StoreTypeOK'
  BY DEF Crash, EndTx, StoreTypeOK, PC, Time
<1>2. Good(rows)'
  BY DEF StoreInv, Crash, Good, VintageOrder, RealRevisions, HasLastVintage, RowsOf, SameKey
<1>3. QED
  BY <1>1, <1>2, EndTxKeeps DEF Crash

\* The initial store satisfies types and the invariant.
LEMMA StoreInitHolds == StoreInit => StoreTypeOK /\ StoreInv
BY NilAssumption DEF StoreInit, StoreTypeOK, StoreInv, PC, InTx, Good, VintageOrder,
   RealRevisions, HasLastVintage, RowsOf, SameKey, View, Time

\* The invariant gives the three safety properties of the store.
LEMMA StoreInvImplies ==
  StoreInv => VintageMonotone /\ NoSpuriousRevision /\ NeverRaced
<1> SUFFICES ASSUME StoreInv
             PROVE  VintageMonotone /\ NoSpuriousRevision /\ NeverRaced
  OBVIOUS
<1>1. VintageMonotone /\ NoSpuriousRevision
  BY DEF StoreInv, Good, VintageMonotone, NoSpuriousRevision
<1>2. ASSUME NEW p \in Pass, pc[p] = "insert", NEW q \in Pass, NEW r \in View(q)
      PROVE  ~SameKey(r, pending[p])
  <2>1. \A s \in View(p) : ~SameKey(s, pending[p])
    BY <1>2 DEF StoreInv, PendingExtends
  <2>2. q # p => staged[q] = {}
    BY <1>2 DEF StoreInv, InTx
  <2>3. r \in View(p)
    BY <2>2 DEF View
  <2>4. QED
    BY <2>1, <2>3
<1>3. QED
  BY <1>1, <1>2 DEF NeverRaced

=============================================================================
