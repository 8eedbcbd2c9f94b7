--------------------------- MODULE EconomicStore ---------------------------
(***************************************************************************)
(* The bitemporal vintage store of economic observations                   *)
(* (prediction-python/app/economic/store.py) for ONE series: the           *)
(* economic_observations rows, and the write transaction every ingest runs *)
(* through ensure_series and record_observation.                           *)
(*                                                                         *)
(* A pass is one caller's transaction.  PostgreSQL runs it at READ         *)
(* COMMITTED (db.create_db_engine sets no isolation level), so every       *)
(* statement sees the rows committed before it plus the pass's own, and    *)
(* each statement is an action of its own.  ensure_series' INSERT .. ON    *)
(* CONFLICT DO UPDATE locks the series' row even when its WHERE leaves the *)
(* row unchanged; the lock is held to the end of the transaction.          *)
(*                                                                         *)
(* How a pass comes by its payload is the client's part: EconomicIngest    *)
(* polls a source, SciIngest reads a posted workbook.                      *)
(***************************************************************************)
EXTENDS Naturals, FiniteSets, FiniteSetsExt

CONSTANTS
  Pass,     \* ingest passes that may overlap: the cron's, a manual POST's
  Period,   \* reference periods of the series
  Value,    \* what a source prints: a number and the method it states
  Nil       \* "no row", "no holder", "no point"

Time == Nat

Point == [period : Period, value : Value, proj : BOOLEAN]

Row == [period : Period, value : Value, proj : BOOLEAN,
        vintage : Nat \ {0}, avail : Time, pub : Nat]

ASSUME NilAssumption == Nil \notin Pass /\ Nil \notin Row /\ Nil \notin Point

VARIABLES
  rows,     \* committed economic_observations of the series
  lock,     \* the pass whose transaction holds the series' row lock
  pc,       \* where each pass is
  payload,  \* points the pass still has to record
  stamp,    \* available_at of the pass
  pub,      \* published_at of the pass (0: the source states none)
  point,    \* the point being recorded
  cur,      \* the row the pass read as current
  pending,  \* the row the pass is about to insert
  staged    \* rows inserted by the pass's open transaction

local == <<payload, stamp, pub, point, cur, pending>>
storeVars == <<rows, lock, pc, payload, stamp, pub, point, cur, pending, staged>>

InTx == {"select", "bounds", "insert"}
PC == {"idle", "fetched", "ready"} \cup InTx

StoreTypeOK ==
  /\ rows \in SUBSET Row
  /\ lock \in Pass \cup {Nil}
  /\ pc \in [Pass -> PC]
  /\ payload \in [Pass -> SUBSET Point]
  /\ stamp \in [Pass -> Time]
  /\ pub \in [Pass -> Nat]
  /\ point \in [Pass -> Point \cup {Nil}]
  /\ cur \in [Pass -> Row \cup {Nil}]
  /\ pending \in [Pass -> Row \cup {Nil}]
  /\ staged \in [Pass -> SUBSET Row]

StoreInit ==
  /\ rows = {}
  /\ lock = Nil
  /\ pc = [p \in Pass |-> "idle"]
  /\ payload = [p \in Pass |-> {}]
  /\ stamp = [p \in Pass |-> 0]
  /\ pub = [p \in Pass |-> 0]
  /\ point = [p \in Pass |-> Nil]
  /\ cur = [p \in Pass |-> Nil]
  /\ pending = [p \in Pass |-> Nil]
  /\ staged = [p \in Pass |-> {}]

-----------------------------------------------------------------------------
(* What a statement of a transaction sees, and the orders rows are read in. *)

\* READ COMMITTED: committed rows and the transaction's own.
View(p) == rows \cup staged[p]

RowsOf(view, per) == {r \in view : r.period = per}

\* ORDER BY available_at DESC, vintage DESC: r comes before s.
Newer(r, s) == \/ r.avail > s.avail
               \/ r.avail = s.avail /\ r.vintage > s.vintage

\* The first rows of that order; the writer's "current" row and the
\* reader's winner are both taken from here.
Newest(S) == {r \in S : \A s \in S : ~Newer(s, r)}

\* The row point_in_time returns for a period at a cutoff (none, or one).
\* Projections are filtered before the winner is chosen.
PointInTime(view, per, cutoff, include_projections) ==
  Newest({r \in RowsOf(view, per) :
            r.avail <= cutoff /\ (include_projections \/ ~r.proj)})

\* The bounds query; the 0 is the NULL of an empty period.
MaxVintage(view, per) == Max({0} \cup {r.vintage : r \in RowsOf(view, per)})
MaxAvail(view, per) == Max({0} \cup {r.avail : r \in RowsOf(view, per)})

SameKey(r, s) == r.period = s.period /\ r.vintage = s.vintage

-----------------------------------------------------------------------------
(* The write transaction.                                                   *)

\* A transaction that ends releases its lock and forgets what it staged.
EndTx(p) ==
  /\ pc' = [pc EXCEPT ![p] = "idle"]
  /\ lock' = IF lock = p THEN Nil ELSE lock
  /\ payload' = [payload EXCEPT ![p] = {}]
  /\ stamp' = [stamp EXCEPT ![p] = 0]
  /\ pub' = [pub EXCEPT ![p] = 0]
  /\ point' = [point EXCEPT ![p] = Nil]
  /\ cur' = [cur EXCEPT ![p] = Nil]
  /\ pending' = [pending EXCEPT ![p] = Nil]
  /\ staged' = [staged EXCEPT ![p] = {}]

\* Mutant: an upsert that takes no row lock (ON CONFLICT DO NOTHING).
EnsureSeries_NoLock(p) ==
  /\ pc[p] = "ready"
  /\ lock' = lock
  /\ pc' = [pc EXCEPT ![p] = "select"]
  /\ UNCHANGED <<rows, staged, local>>

\* ensure_series: the upsert's row lock is taken, or waited for.
EnsureSeries(p) ==
  /\ pc[p] = "ready"
  /\ lock = Nil
  /\ lock' = p
  /\ pc' = [pc EXCEPT ![p] = "select"]
  /\ UNCHANGED <<rows, staged, local>>

\* record_observation's first SELECT, for the next point of the payload.
SelectCurrent(p) ==
  /\ pc[p] = "select"
  /\ \E x \in payload[p] :
       LET newest == Newest(RowsOf(View(p), x.period)) IN
       /\ payload' = [payload EXCEPT ![p] = @ \ {x}]
       /\ point' = [point EXCEPT ![p] = x]
       /\ \E r \in IF newest = {} THEN {Nil} ELSE newest :
            cur' = [cur EXCEPT ![p] = r]
  /\ pc' = [pc EXCEPT ![p] = "bounds"]
  /\ UNCHANGED <<rows, lock, stamp, pub, pending, staged>>

\* Mutant: any stored row counts as unchanged, so nothing is ever revised.
SameValue_AnyRow(p) == cur[p] # Nil

\* The current row already states this value (and method).
SameValue(p) == cur[p] # Nil /\ cur[p].value = point[p].value

\* The row record_observation would store, from the second SELECT's bounds.
NumberedRow(p) ==
  [period  |-> point[p].period,
   value   |-> point[p].value,
   proj    |-> point[p].proj,
   vintage |-> IF cur[p] = Nil THEN 1
               ELSE MaxVintage(View(p), point[p].period) + 1,
   avail   |-> stamp[p],
   pub     |-> pub[p]]

\* STATUS_UNCHANGED: nothing is written, and nothing is checked.
Unchanged(p) ==
  /\ pc[p] = "bounds"
  /\ SameValue(p)
  /\ pc' = [pc EXCEPT ![p] = "select"]
  /\ UNCHANGED <<rows, lock, staged, local>>

\* Mutant: the availability check is dropped.
Backdated_Never(p) == FALSE

\* The availability check: available_at before the newest stored one.
Backdated(p) == stamp[p] < MaxAvail(View(p), point[p].period)

\* ValueError: the whole series' transaction is rolled back.
Refuse(p) ==
  /\ pc[p] = "bounds"
  /\ ~SameValue(p)
  /\ Backdated(p)
  /\ EndTx(p)
  /\ UNCHANGED rows

\* STATUS_INSERTED or STATUS_REVISED: the row to insert is numbered.
Number(p) ==
  /\ pc[p] = "bounds"
  /\ ~SameValue(p)
  /\ ~Backdated(p)
  /\ pending' = [pending EXCEPT ![p] = NumberedRow(p)]
  /\ pc' = [pc EXCEPT ![p] = "insert"]
  /\ UNCHANGED <<rows, lock, payload, stamp, pub, point, cur, staged>>

\* INSERT .. ON CONFLICT (series, period, vintage) DO NOTHING; a conflicting
\* key of another open transaction is waited for.
Insert(p) ==
  /\ pc[p] = "insert"
  /\ \A q \in Pass \ {p} : \A r \in staged[q] : ~SameKey(r, pending[p])
  /\ staged' =
       IF \E r \in View(p) : SameKey(r, pending[p])
       THEN staged                                      \* STATUS_RACED
       ELSE [staged EXCEPT ![p] = @ \cup {pending[p]}]
  /\ pc' = [pc EXCEPT ![p] = "select"]
  /\ UNCHANGED <<rows, lock, local>>

\* Every point is recorded: the transaction commits.
Commit(p) ==
  /\ pc[p] = "select"
  /\ payload[p] = {}
  /\ rows' = rows \cup staged[p]
  /\ EndTx(p)

\* The process or its connection dies: the database rolls back.
Crash(p) ==
  /\ pc[p] # "idle"
  /\ EndTx(p)
  /\ UNCHANGED rows

WriteStep(p) ==
  \/ EnsureSeries(p)
  \/ SelectCurrent(p)
  \/ Unchanged(p)
  \/ Refuse(p)
  \/ Number(p)
  \/ Insert(p)
  \/ Commit(p)

-----------------------------------------------------------------------------
(* Safety.                                                                  *)

\* No vintage claims to have been knowable before one it revises, so a cutoff
\* that sees a revision sees every print it replaced (store.py: "vintage is
\* monotone in available_at - enforced at the write").
VintageOrder(S) ==
  \A r, s \in S :
    r.period = s.period /\ r.vintage < s.vintage => r.avail <= s.avail

\* A period's vintages are numbered 1, 2, .. with one row each, and each
\* restates the one before it with a different value: no revision is
\* manufactured that the source never made.
RealRevisions(S) ==
  /\ \A r, s \in S : SameKey(r, s) => r = s
  /\ \A r \in S : r.vintage > 1 =>
       \E s \in S : /\ s.period = r.period
                    /\ s.vintage = r.vintage - 1
                    /\ s.value # r.value

\* Committed vintages are ordered as their availability is, whatever clock
\* stamped them and however passes overlapped.
VintageMonotone == VintageOrder(rows)

\* Overlapping passes never store one print twice as two vintages, although
\* record_observation reads the current row and the next number in two
\* statements.
NoSpuriousRevision == RealRevisions(rows)

\* The ON CONFLICT arm is never taken: a pass about to insert holds a number
\* nobody else has taken, so no write of a pass is silently dropped.
NeverRaced ==
  \A p \in Pass : pc[p] = "insert" =>
    \A q \in Pass : \A r \in View(q) : ~SameKey(r, pending[p])

-----------------------------------------------------------------------------
(* The inductive invariant behind them.                                     *)

\* Every period with rows has a last vintage (there are finitely many rows).
HasLastVintage(S) ==
  \A per \in Period : RowsOf(S, per) # {} =>
    \E r \in RowsOf(S, per) : \A s \in RowsOf(S, per) : s.vintage <= r.vintage

Good(S) == VintageOrder(S) /\ RealRevisions(S) /\ HasLastVintage(S)

\* What a pass read as current is its view's last vintage of the period.
CurrentIsLast(p) ==
  /\ point[p] \in Point
  /\ IF cur[p] = Nil
     THEN RowsOf(View(p), point[p].period) = {}
     ELSE /\ cur[p] \in RowsOf(View(p), point[p].period)
          /\ \A s \in RowsOf(View(p), point[p].period) :
               s.vintage <= cur[p].vintage

\* What a pass is about to insert extends its view.
PendingExtends(p) ==
  /\ pending[p] \in Row
  /\ \A r \in View(p) : ~SameKey(r, pending[p])
  /\ Good(View(p) \cup {pending[p]})

\* Only the holder of the row lock is inside its transaction, so its view
\* stands still between its statements and what it read stays true.
StoreInv ==
  /\ \A p \in Pass : pc[p] \in InTx <=> lock = p
  /\ \A p \in Pass : pc[p] \notin InTx => staged[p] = {}
  /\ Good(rows)
  /\ \A p \in Pass : pc[p] \in InTx => Good(View(p))
  /\ \A p \in Pass : pc[p] = "bounds" => CurrentIsLast(p)
  /\ \A p \in Pass : pc[p] = "insert" => PendingExtends(p)

=============================================================================
