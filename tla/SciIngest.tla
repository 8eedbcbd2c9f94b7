----------------------------- MODULE SciIngest -----------------------------
(***************************************************************************)
(* The workbook ingest of the Statistical Centre of Iran                   *)
(* (prediction-python/app/economic/sci.py, ingest_sci_cpi): posted files   *)
(* of a publication date, refused when older than what is stored, written  *)
(* through EconomicStore.  The newest stored publication date is read on   *)
(* its own connection before the transaction is opened.                    *)
(***************************************************************************)
EXTENDS EconomicStore

CONSTANTS
  Edition,    \* publication dates; 0 is a file whose name states none
  Content,    \* Content[e][per]: the value the workbook prints (Nil: none)
  MonthEnd,   \* the last instant of each period
  MaxPosts    \* bound on the posted files

ASSUME SciAssumption ==
  /\ Edition \subseteq Nat
  /\ Content \in [Edition -> [Period -> Value \cup {Nil}]]
  /\ MonthEnd \in [Period -> Nat]
  /\ MaxPosts \in Nat

VARIABLES posted   \* utcnow() of the last post; no two posts share an instant

sciVars == <<storeVars, posted>>

SciInit == StoreInit /\ posted = 0

\* read_workbook and is_incomplete_month: one point per printed cell.
Points(e, now) ==
  {[period |-> per, value |-> Content[e][per], proj |-> now <= MonthEnd[per]] :
     per \in {q \in Period : Content[e][q] # Nil}}

\* The file is read; started is the availability stamp of all of it.
Post(p, e) ==
  /\ pc[p] = "idle"
  /\ posted < MaxPosts
  /\ posted' = posted + 1
  /\ payload' = [payload EXCEPT ![p] = Points(e, posted')]
  /\ stamp' = [stamp EXCEPT ![p] = posted']
  /\ pub' = [pub EXCEPT ![p] = e]
  /\ pc' = [pc EXCEPT ![p] = "fetched"]
  /\ UNCHANGED <<rows, lock, point, cur, pending, staged>>

\* newest_published_at: over the committed rows of the SCI series.
NewestPublished == Max({0} \cup {r.pub : r \in rows})

\* Mutant: the check is dropped.
Stale_Never(p) == FALSE

\* published_at is stated and older than the newest stored one.
Stale(p) == pub[p] # 0 /\ pub[p] < NewestPublished

\* SciStaleWorkbookError: refused whole, before anything is written.
RefuseStale(p) ==
  /\ pc[p] = "fetched"
  /\ Stale(p)
  /\ EndTx(p)
  /\ UNCHANGED <<rows, posted>>

\* The check passed; engine.begin() opens the transaction.
Accept(p) ==
  /\ pc[p] = "fetched"
  /\ ~Stale(p)
  /\ pc' = [pc EXCEPT ![p] = "ready"]
  /\ UNCHANGED <<rows, lock, staged, local, posted>>

WriteWorkbook(p) == WriteStep(p) /\ UNCHANGED posted

PostFails(p) == Crash(p) /\ UNCHANGED posted

SciNext ==
  \E p \in Pass : \/ \E e \in Edition : Post(p, e)
                  \/ RefuseStale(p)
                  \/ Accept(p)
                  \/ WriteWorkbook(p)
                  \/ PostFails(p)

SciSpec == SciInit /\ [][SciNext]_sciVars

-----------------------------------------------------------------------------

\* A workbook older than one already ingested never becomes the answer every
\* reader gets: among the dated rows of a period, a later vintage was not
\* published before an earlier one (sci.py: "REFUSE A WORKBOOK OLDER THAN ONE
\* ALREADY INGESTED").
EditionOrder ==
  \A r, s \in rows :
    /\ r.period = s.period /\ r.vintage < s.vintage
    /\ r.pub # 0 /\ s.pub # 0
    => r.pub <= s.pub

=============================================================================
