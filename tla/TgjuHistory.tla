----------------------------- MODULE TgjuHistory -----------------------------
(***************************************************************************)
(* The daily closes of ONE Iranian instrument taken from TGJU's history    *)
(* table: the twice-daily pass (jobs/tgju_daily.py, ingest_symbol), the    *)
(* deep backfill (jobs/tgju_backfill.py, backfill_symbol), the live rows   *)
(* they must not share a day with, and the register and instrument note    *)
(* both of them rewrite.                                                   *)
(*                                                                         *)
(* A UTC day is three ticks, cut where a rule changes its mind: at 20:30   *)
(* UTC Tehran enters the next date, at 23:00 UTC the close is stamped.     *)
(* A close is one of a few levels, of which only the ratio matters.        *)
(***************************************************************************)
EXTENDS Integers, FiniteSets, FiniteSetsExt

CONSTANTS
  Days,         \* bound on the calendar: days 1 to Days
  FirstDay,     \* the day the behaviour starts on; earlier bars are history
  Values,       \* closes
  LiveValue,    \* the level of the live rows
  MaxRestated,  \* bound on the closes TGJU restates
  Side,         \* NEIGHBOURS_EACH_SIDE
  MinJudged,    \* MIN_JUDGED_NEIGHBOURS
  RecentRows,   \* RECENT_ROWS
  GapFillFrom   \* GAP_FILL_FROM

ASSUME TgjuAssumption ==
  /\ {Days, FirstDay, Side, MinJudged, RecentRows, GapFillFrom} \subseteq Nat \ {0}
  /\ Values \subseteq Nat \ {0}
  /\ FirstDay <= Days

VARIABLES
  gap,     \* whether the series is gap-filled (GAP_FILL_SLUGS) or TGJU's own
  clock,   \* ticks; day d runs from 3d to 3d + 2
  table,   \* TGJU's table: the close printed for a day, 0 for none
  closes,  \* prices of source 'tgju_history': value per day, 0 for none
  live,    \* days with a row of any other source
  restated, \* closes restated so far
  late,    \* days whose live row landed after the UTC day was over
  entry,   \* the symbol's entry in the register: full_pass_at, newest_bar_seen
  read,    \* days some completed pass has read
  note,    \* instruments.notes, as the sentences it holds
  splice,  \* the splice register: the day the live era begins, 0 for none
  dpc, full, seen, page, rows,  \* the daily pass
  bpc, cutoff, deep,            \* the deep backfill
  dtx, btx                      \* what their open transactions have read

dailyVars == <<dpc, full, seen, page, rows, dtx>>
deepVars == <<bpc, cutoff, deep, btx>>
worldVars == <<gap, clock, table, live, late, restated>>
storeVars == <<closes, entry, read, note, splice>>
tgjuVars == <<worldVars, storeVars, dailyVars, deepVars>>

Day == 1..Days
Printed(t) == {d \in Day : t[d] # 0}
Empty == [d \in Day |-> 0]
NoEntry == [full |-> FALSE, newest |-> 0]
NoTx == [open |-> FALSE, entry |-> NoEntry, note |-> {}]

TgjuTypeOK ==
  /\ gap \in BOOLEAN
  /\ clock \in (3 * FirstDay)..(3 * Days + 2)
  /\ {table, closes, page} \subseteq [Day -> Values \cup {0}]
  /\ live \subseteq Day /\ late \subseteq live /\ restated \in 0..MaxRestated
  /\ read \subseteq Day /\ rows \subseteq Day
  /\ entry.full \in BOOLEAN /\ entry.newest \in 0..Days
  /\ note \subseteq {"human", "gap", "splice"}
  /\ splice \in 0..Days /\ cutoff \in 0..Days /\ seen \in 0..Days

\* The table holds some history; a gap-filled series has live rows already.
TgjuInit ==
  /\ gap \in BOOLEAN
  /\ clock = 3 * FirstDay
  /\ table \in [Day -> Values \cup {0}]
  /\ table[1] # 0
  /\ \A d \in Day : d >= FirstDay => table[d] = 0
  /\ live = IF gap THEN {FirstDay} ELSE {}
  /\ restated = 0
  /\ closes = Empty
  /\ late = {} /\ read = {} /\ note = {"human"} /\ splice = 0
  /\ entry = NoEntry
  /\ dpc = "idle" /\ full = FALSE /\ seen = 0 /\ page = Empty /\ rows = {} /\ dtx = NoTx
  /\ bpc = "idle" /\ cutoff = 0 /\ deep = {} /\ btx = NoTx

-----------------------------------------------------------------------------
(* The clock                                                                *)

UtcDay(t) == t \div 3

\* tehran_today: the day in progress in Tehran.
TehranToday(t) == IF t % 3 = 0 THEN UtcDay(t) ELSE UtcDay(t) + 1

\* close_stamp: 23:00 UTC of the bar's own day.
CloseStamp(d) == 3 * d + 2

\* The bar's day is over in Tehran and its stamp has arrived.
Settled(d, t) == d < TehranToday(t) /\ CloseStamp(d) <= t

\* _utc_day_end has passed.
UtcDayOver(d, t) == 3 * (d + 1) <= t

-----------------------------------------------------------------------------
(* judge_bars                                                               *)

\* More than SUSPECT_RATIO apart, in either direction; m2 is twice the median.
Suspicious(v, m2) == 10 * (2 * v) > 16 * m2 \/ 10 * m2 > 16 * (2 * v)

\* Mutant: the bar counts among its own neighbours.
Neighbours_Self(p, d) ==
  LET before(e) == Cardinality({f \in Printed(p) : f < e}) IN
  {e \in Printed(p) : before(d) - before(e) \in -Side..Side}

\* The bars on either side in the same table, by position.
Neighbours(p, d) ==
  LET before(e) == Cardinality({f \in Printed(p) : f < e}) IN
  {e \in Printed(p) \ {d} : before(d) - before(e) \in -Side..Side}

\* Twice the median of the closes of the days N.
MedianTwice(p, N) ==
  LET below(e) == Cardinality({f \in N : p[f] < p[e] \/ (p[f] = p[e] /\ f < e)})
      at(k) == p[CHOOSE e \in N : below(e) = k]
      n == Cardinality(N)
  IN IF n % 2 = 1 THEN 2 * at(n \div 2) ELSE at(n \div 2) + at(n \div 2 - 1)

Verdict(p, d) ==
  LET N == Neighbours(p, d) IN
  IF Cardinality(N) < MinJudged THEN "unjudged"
  ELSE IF Suspicious(p[d], MedianTwice(p, N)) THEN "suspect" ELSE "ok"

-----------------------------------------------------------------------------
(* ingest_symbol                                                            *)

\* The register and the first row are read: a first pass reads everything.
StartPass ==
  /\ dpc = "idle"
  /\ dpc' = "fetching"
  /\ full' = (closes = Empty \/ ~entry.full)
  /\ seen' = entry.newest
  /\ UNCHANGED <<worldVars, storeVars, page, rows, dtx, deepVars>>

\* The newest rows of the table.
Recent(t) ==
  [d \in Day |-> IF Cardinality({e \in Printed(t) : e > d}) < RecentRows THEN t[d] ELSE 0]

\* Mutant: the recent page is trusted to reach back far enough.
Unreached_Never(p) == FALSE

\* The page starts after the newest bar the previous pass saw.
Unreached(p) ==
  /\ Printed(p) # {}
  /\ seen # 0
  /\ Min(Printed(p)) > seen

\* One request; a page that does not reach back is fetched again, whole.
FetchPage ==
  /\ dpc = "fetching"
  /\ LET p == IF full THEN table ELSE Recent(table) IN
     /\ page' = p
     /\ full' = (full \/ Unreached(p))
     /\ dpc' = IF ~full /\ Unreached(p) THEN "fetching" ELSE "judging"
  /\ UNCHANGED <<worldVars, storeVars, seen, rows, dtx, deepVars>>

\* The fetch fails; the answer is truncated, empty or holds dates that cannot
\* be; the units disagree; or it is a dry run: nothing is written.
AbandonPass ==
  /\ dpc \in {"fetching", "judging"}
  /\ dpc' = "idle"
  /\ full' = FALSE /\ seen' = 0 /\ page' = Empty
  /\ UNCHANGED <<worldVars, storeVars, rows, dtx, deepVars>>

\* Mutant: a gap is filled as soon as its close has settled.
MayWrite_Early(d) ==
  /\ Settled(d, clock)
  /\ (gap => d \in live \/ d >= GapFillFrom)
  /\ Verdict(page, d) = "ok"
  /\ closes[d] = 0 /\ d \notin live

\* The rules a bar passes on its way to price_rows, in the code's order:
\* settled, the empty UTC day over, not before the hole, judged ok, and no
\* observation of its day stored, restated or from another source.
MayWrite(d) ==
  /\ Settled(d, clock)
  /\ (gap => UtcDayOver(d, clock))
  /\ (gap => d \in live \/ closes[d] # 0 \/ d >= GapFillFrom)
  /\ Verdict(page, d) = "ok"
  /\ closes[d] = 0 /\ d \notin live

\* The page is judged and compared with what prices holds now.
JudgePage ==
  /\ dpc = "judging"
  /\ Printed(page) # {}
  /\ rows' = {d \in Printed(page) : MayWrite(d)}
  /\ dpc' = "writing"
  /\ UNCHANGED <<worldVars, storeVars, full, seen, page, dtx, deepVars>>

\* The transaction opens: the register and the note are read in it.
BeginDaily ==
  /\ dpc = "writing"
  /\ dpc' = "committing"
  /\ dtx' = [open |-> TRUE, entry |-> entry, note |-> note]
  /\ UNCHANGED <<worldVars, closes, entry, read, note, splice,
                 full, seen, page, rows, deepVars>>

\* insert_ignore: a day that holds a close keeps it.
Inserted(R, p) == [d \in Day |-> IF d \in R /\ closes[d] = 0 THEN p[d] ELSE closes[d]]

\* What the backfill keeps of a note: the text before its own marker.
KeptBySplice(n) == n \ {"splice"}

\* What the daily pass keeps: the text before its marker, and the splice.
KeptByGap(n) == n \ {"gap"}

\* The rows, the register entry and the note are written, and commit.
CommitDaily ==
  /\ dpc = "committing"
  /\ closes' = Inserted(rows, page)
  /\ entry' = [full |-> full \/ dtx.entry.full,
               newest |-> Max(Printed(page) \cup {dtx.entry.newest})]
  /\ note' = IF gap /\ \E d \in rows : closes[d] = 0
             THEN KeptByGap(dtx.note) \cup {"gap"} ELSE note
  /\ read' = read \cup Printed(page)
  /\ dpc' = "idle"
  /\ full' = FALSE /\ seen' = 0 /\ page' = Empty /\ rows' = {} /\ dtx' = NoTx
  /\ UNCHANGED <<worldVars, splice, deepVars>>

Daily ==
  \/ StartPass \/ FetchPage \/ AbandonPass
  \/ JudgePage \/ BeginDaily \/ CommitDaily

-----------------------------------------------------------------------------
(* backfill_symbol: only for a series with a live era                       *)

Held == live \cup Printed(closes)

\* live_anchor: the oldest row of any source bounds what may be written; with
\* no live row there is nothing to join to.
ReadAnchor ==
  /\ gap
  /\ bpc = "idle"
  /\ live # {}
  /\ cutoff' = Min(Held)
  /\ bpc' = "fetching"
  /\ UNCHANGED <<worldVars, storeVars, dailyVars, deep, btx>>

\* _rows_to_write: the bars strictly before the cutoff's day.
RowsToWrite == {d \in Printed(table) : d < cutoff}

\* span_breaks: no adjacent pair is further apart than its tolerance, which
\* levels this far apart exceed whatever the gap.
Coherent(K) ==
  \A d, e \in K :
    d < e /\ {f \in K : d < f /\ f < e} = {} => ~Suspicious(table[d], 2 * table[e])

\* _check_join: the last bar against the oldest live row.
Joins(K) ==  ~Suspicious(table[Max(K)], 2 * LiveValue)

\* The whole table is fetched and every check passes.
FetchDeep ==
  /\ bpc = "fetching"
  /\ RowsToWrite # {}
  /\ Coherent(RowsToWrite)
  /\ Joins(RowsToWrite)
  /\ deep' = RowsToWrite
  /\ bpc' = "writing"
  /\ UNCHANGED <<worldVars, storeVars, dailyVars, cutoff, btx>>

\* Up to date, refused, failed, or a dry run.
AbandonDeep ==
  /\ bpc = "fetching"
  /\ bpc' = "idle"
  /\ cutoff' = 0
  /\ UNCHANGED <<worldVars, storeVars, dailyVars, deep, btx>>

BeginDeep ==
  /\ bpc = "writing"
  /\ bpc' = "committing"
  /\ btx' = [open |-> TRUE, entry |-> entry, note |-> note]
  /\ UNCHANGED <<worldVars, closes, entry, read, note, splice,
                 dailyVars, cutoff, deep>>

\* The rows, the splice register and the note, in one transaction.
CommitDeep ==
  /\ bpc = "committing"
  /\ closes' = Inserted(deep, table)
  /\ splice' = cutoff
  /\ note' = KeptBySplice(btx.note) \cup {"splice"}
  /\ bpc' = "idle"
  /\ cutoff' = 0 /\ deep' = {} /\ btx' = NoTx
  /\ UNCHANGED <<worldVars, entry, read, dailyVars>>

Backfill ==
  ReadAnchor \/ FetchDeep \/ AbandonDeep \/ BeginDeep \/ CommitDeep

-----------------------------------------------------------------------------
(* The world                                                                *)

\* TGJU prints a close: of the day in progress in Tehran, after every other.
Publish(d, v) ==
  /\ d <= TehranToday(clock)
  /\ \A e \in Printed(table) : e < d
  /\ table' = [table EXCEPT ![d] = v]
  /\ UNCHANGED <<gap, clock, live, late, restated, storeVars, dailyVars, deepVars>>

\* TGJU prints another close for a day it has printed already.  A pass reads
\* the table once, so a restatement during a pass is one before or after it.
Restate(d, v) ==
  /\ table[d] \notin {0, v}
  /\ dpc = "idle" /\ bpc = "idle"
  /\ restated < MaxRestated
  /\ restated' = restated + 1
  /\ table' = [table EXCEPT ![d] = v]
  /\ UNCHANGED <<gap, clock, live, late, storeVars, dailyVars, deepVars>>

\* collect stores a live row; a quote may be a day old when it is stored.
Observe(d) ==
  /\ gap
  /\ d \in {UtcDay(clock), UtcDay(clock) - 1} \ live
  /\ live' = live \cup {d}
  /\ late' = IF UtcDayOver(d, clock) THEN late \cup {d} ELSE late
  /\ UNCHANGED <<gap, clock, table, restated, storeVars, dailyVars, deepVars>>

\* The service is killed: what was not committed is gone.
TgjuRestart ==
  /\ dpc # "idle" \/ bpc # "idle"
  /\ dpc' = "idle" /\ full' = FALSE /\ seen' = 0 /\ page' = Empty /\ rows' = {}
  /\ dtx' = NoTx
  /\ bpc' = "idle" /\ cutoff' = 0 /\ deep' = {} /\ btx' = NoTx
  /\ UNCHANGED <<worldVars, storeVars>>

TgjuTick ==
  /\ clock < 3 * Days + 2
  /\ clock' = clock + 1
  /\ UNCHANGED <<gap, table, live, late, restated, storeVars, dailyVars, deepVars>>

TgjuNext ==
  \/ Daily \/ Backfill \/ TgjuRestart \/ TgjuTick
  \/ \E d \in Day : Observe(d) \/ \E v \in Values : Publish(d, v) \/ Restate(d, v)

TgjuSpec == TgjuInit /\ [][TgjuNext]_tgjuVars

-----------------------------------------------------------------------------
(* Properties.                                                              *)

\* No bar is jumped over: whatever the job missed, failed or overlapped with,
\* every bar of the table up to the newest one it has seen has been read
\* ("rows in between were never seen ... so the whole table is read again").
SeenMeansRead == \A d \in Printed(table) : d <= entry.newest => d \in read

\* A close that stands alone is never stored by the daily pass, at whatever
\* moment it is read and however short the page: of the other closes of the
\* page one is not far above it and one is not far below (judge_bars).
LoneCloseNeverStored ==
  [][\A d \in Day : closes[d] = 0 /\ closes'[d] # 0 /\ dpc' # dpc =>
       /\ \E e \in Printed(page) \ {d} : 10 * page[e] <= 16 * page[d]
       /\ \E e \in Printed(page) \ {d} : 10 * page[d] <= 16 * page[e]]_tgjuVars

\* A close and another source's row share a UTC day only when that row landed
\* after the day was over: neither job writes into a day that was taken, nor
\* into one that can still be taken in the ordinary way ("the mixed-source day
\* the gap-fill exists to avoid").
MixedOnlyByLateRow == \A d \in Day : closes[d] # 0 /\ d \in live => d \in late

=============================================================================
