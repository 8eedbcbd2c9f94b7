----------------------------- MODULE CbiHistory -----------------------------
(* economic/cbi_history.py: a saved answer of CBI's time-series viewer is    *)
(* parsed, split into the months no Excel edition can carry and those one    *)
(* can, compared with the stored editions on the latter, and the former are  *)
(* written through record_observation in one transaction.                    *)
(*                                                                            *)
(* A month is <<year, month>>.  A payload states, per series, figures for     *)
(* some quarters: a row without an amount is a gap, and nothing says how far  *)
(* a payload reaches.                                                         *)
EXTENDS Integers, Sequences, FiniteSets

CONSTANTS
  Quarters,      \* the quarter-end months the viewer holds
  FirstExcel,    \* FIRST_EXCEL_EDITION
  SeriesOrder,   \* the series, as sorted(written) takes them
  Strict,        \* STRICT_OVERLAP_CODES
  Payloads,      \* what may be posted
  ExcelEditions,      \* the Excel editions that may be ingested meanwhile
  Poster,        \* overlapping posts
  NoPayload,
  MaxHistoryPosts

Codes == {SeriesOrder[k] : k \in DOMAIN SeriesOrder}

\* A payload whose series are all there, with a figure each.
Whole(payload) ==
  /\ DOMAIN payload.figure = Codes
  /\ \A code \in Codes : DOMAIN payload.figure[code] # {}

ASSUME CbiHistoryAssumption ==
  /\ SeriesOrder \in Seq(Codes)
  /\ Strict \subseteq Codes
  /\ FirstExcel \in Int \X (1..12)
  /\ Quarters \cup ExcelEditions \subseteq Int \X (1..12)
  /\ \A payload \in Payloads : \A code \in DOMAIN payload.figure :
       DOMAIN payload.figure[code] \subseteq Quarters
  /\ MaxHistoryPosts \in Nat
  /\ NoPayload \notin Payloads

VARIABLES
  ingested,  \* the Excel editions stored, as ingest_edition leaves them
  history,   \* per series, the current row of each month it has one for
  hpost,     \* each post: its step, payload, start and uncommitted rows
  hposts,    \* posts so far, and their clock
  commits    \* (ghost) the payloads committed, in the order of their commits

historyVars == <<ingested, history, hpost, hposts, commits>>

NoPost == [at |-> 0, payload |-> NoPayload, started |-> 0, rows |-> <<>>, dry |-> FALSE]

-----------------------------------------------------------------------------
(* Which months an edition prints                                            *)

AtLeast(e, f) == e[1] > f[1] \/ (e[1] = f[1] /\ e[2] >= f[2])

\* Edition.columns.
Columns(e) ==
  IF e[2] = 12 THEN {<<e[1] - 2, 12>>, <<e[1] - 1, 12>>, e}
  ELSE {<<e[1] - 1, e[2]>>, <<e[1] - 1, 12>>, e}

\* The editions excel_can_carry looks at.
Candidates(p) == {p, <<p[1] + 1, p[2]>>} \cup (IF p[2] = 12 THEN {<<p[1] + 2, 12>>} ELSE {})

ExcelCanCarry_NextYear(p) ==
  \E e \in {p, <<p[1] + 1, p[2]>>} : AtLeast(e, FirstExcel) /\ p \in Columns(e)

ExcelCanCarry(p) == \E e \in Candidates(p) : AtLeast(e, FirstExcel) /\ p \in Columns(e)

\* The months of a series' figures that are written.
Written(figure) == {p \in DOMAIN figure : ~ExcelCanCarry(p)}
Overlap(figure) == DOMAIN figure \ Written(figure)

-----------------------------------------------------------------------------
(* A post                                                                    *)

HistoryInit ==
  /\ ingested = {} /\ hposts = 0 /\ commits = <<>>
  /\ history = [c \in Codes |-> <<>>]
  /\ hpost = [p \in Poster |-> NoPost]

\* ingest_edition, which this system runs for every new edition (CbiEditions).
StoreEdition ==
  /\ \E e \in ExcelEditions \ ingested : AtLeast(e, FirstExcel) /\ ingested' = ingested \cup {e}
  /\ UNCHANGED <<history, hpost, hposts, commits>>

\* parse_history: every row quarterly, in the one unit, a positive figure,
\* stated once; some figure of each series.
Parses(payload) == payload.sound /\ Whole(payload)

\* _check_overlap: the stored months agree with the viewer's.
OverlapAgrees(payload) ==
  \A code \in Strict :
    (\E e \in ingested : Columns(e) \cap Overlap(payload.figure[code]) # {})
      => payload.agrees[code]

\* ingest_cbi_history up to its transaction.
PostHistory(p) ==
  /\ hpost[p].at = 0 /\ hposts < MaxHistoryPosts
  /\ hposts' = hposts + 1
  /\ \E payload \in Payloads, dry \in BOOLEAN :
       /\ Parses(payload) /\ OverlapAgrees(payload)
       /\ hpost' = [hpost EXCEPT ![p] =
                      [at |-> 1, payload |-> payload, started |-> hposts', rows |-> <<>>, dry |-> dry]]
  /\ UNCHANGED <<ingested, history, commits>>

\* A payload that is refused writes nothing.
PostRefused(p) ==
  /\ hpost[p].at = 0 /\ hposts < MaxHistoryPosts
  /\ hposts' = hposts + 1
  /\ \E payload \in Payloads : ~(Parses(payload) /\ OverlapAgrees(payload))
  /\ UNCHANGED <<ingested, history, hpost, commits>>

\* ensure_series updates the series' row, which keeps other posts from it until
\* this one's transaction ends.
Holds(q, code) ==
  \E k \in DOMAIN SeriesOrder : SeriesOrder[k] = code /\ hpost[q].at > k

\* record_observation, for each written month of one series: a figure that is
\* the stored one adds nothing, and another one is refused when it is stamped
\* before it.
Observed(rows, figure, avail) ==
  [m \in DOMAIN rows \cup Written(figure) |->
     IF m \in Written(figure) /\ (m \in DOMAIN rows => rows[m].value # figure[m])
     THEN [value |-> figure[m], avail |-> avail] ELSE rows[m]]
Backdates(rows, figure, avail) ==
  \E m \in DOMAIN rows \cap Written(figure) :
    rows[m].value # figure[m] /\ avail < rows[m].avail

\* Mutant: each series commits on its own.
SeenByOthers_AtOnce(h, code, rows) == [h EXCEPT ![code] = rows]

\* What the others see of a series' rows before the transaction commits.
SeenByOthers(h, code, rows) == h

WriteSeries(p) ==
  LET s == hpost[p]
      code == SeriesOrder[s.at]
      figure == s.payload.figure[code]
  IN  /\ s.at \in DOMAIN SeriesOrder
      /\ \A q \in Poster \ {p} : ~Holds(q, code)
      /\ IF Backdates(history[code], figure, s.started)
         THEN hpost' = [hpost EXCEPT ![p] = NoPost] /\ UNCHANGED history
         ELSE LET rows == Observed(history[code], figure, s.started)
              IN  /\ hpost' = [hpost EXCEPT ![p].at = s.at + 1,
                                            ![p].rows = Append(s.rows, rows)]
                  /\ history' = SeenByOthers(history, code, rows)
      /\ UNCHANGED <<ingested, hposts, commits>>

\* The commit, or dry_run's rollback.
EndPost(p) ==
  LET s == hpost[p]
  IN  /\ s.at = Len(SeriesOrder) + 1
      /\ hpost' = [hpost EXCEPT ![p] = NoPost]
      /\ history' = IF s.dry THEN history
                    ELSE [c \in Codes |->
                            s.rows[CHOOSE k \in DOMAIN SeriesOrder : SeriesOrder[k] = c]]
      /\ commits' = IF s.dry THEN commits ELSE Append(commits, s.payload)
      /\ UNCHANGED <<ingested, hposts>>

\* The service is killed, or the database fails: the transaction is rolled back.
PostKilled(p) ==
  /\ hpost[p].at > 0
  /\ hpost' = [hpost EXCEPT ![p] = NoPost]
  /\ UNCHANGED <<ingested, history, hposts, commits>>

HistoryNext ==
  \/ StoreEdition
  \/ \E p \in Poster :
       PostHistory(p) \/ PostRefused(p) \/ WriteSeries(p) \/ EndPost(p) \/ PostKilled(p)

HistorySpec == HistoryInit /\ [][HistoryNext]_historyVars

-----------------------------------------------------------------------------
(* Properties                                                                *)

\* The committed payloads that state a figure of a series for a month.
Stating(code, m) == {k \in DOMAIN commits : m \in Written(commits[k].figure[code])}

\* Every post counts as a whole or not at all: what is stored of each month is
\* the figure of the last post committed that states it, and a month no post
\* states has no row, whatever posts overlap, leave gaps, stop short, are
\* refused half way as backdated or are killed ("If anything fails, nothing is
\* written").
PostsAreWhole ==
  \A code \in Codes :
    /\ \A m \in DOMAIN history[code] : Stating(code, m) # {}
    /\ \A m \in Quarters : \A k \in Stating(code, m) :
         (\A j \in Stating(code, m) : j <= k)
           => /\ m \in DOMAIN history[code]
              /\ history[code][m].value = commits[k].figure[code][m]

\* No month is stored by both sources: whatever edition has been ingested or
\* will be, it prints no month the viewer's history has written ("the two
\* sources never write the same period").
OneSourcePerMonth ==
  \A code \in Codes : \A e \in ingested : Columns(e) \cap DOMAIN history[code] = {}

=============================================================================
