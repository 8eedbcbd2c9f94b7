-------------------------- MODULE EconomicIngest ---------------------------
(***************************************************************************)
(* The polled ingest (prediction-python/app/jobs/economic.py): overlapping *)
(* passes of one series, started by the scheduler's cron and by a manual   *)
(* POST, which nothing excludes from each other.  A pass fetches outside   *)
(* any transaction, stamps available_at when the payload is in hand, and   *)
(* writes it through EconomicStore in one transaction.                     *)
(***************************************************************************)
EXTENDS EconomicStore

CONSTANTS
  MaxTime,     \* bound on the clock
  MaxChanges,  \* bound on how often the source changes what it prints
  PeriodEnd,   \* the last instant of each period
  Skewed       \* may the clock be set to any instant, also backwards?

ASSUME IngestAssumption ==
  /\ MaxTime \in Nat
  /\ MaxChanges \in Nat
  /\ PeriodEnd \in [Period -> Nat]
  /\ Skewed \in BOOLEAN

VARIABLES
  clock,    \* utcnow()
  source,   \* external: what the publisher prints per period (Nil: no value)
  changes   \* external: how often it has changed

vars == <<storeVars, clock, source, changes>>

TypeOK ==
  /\ StoreTypeOK
  /\ clock \in Time
  /\ source \in [Period -> Value \cup {Nil}]
  /\ changes \in Nat

Init ==
  /\ StoreInit
  /\ clock = 0
  /\ source = [per \in Period |-> Nil]
  /\ changes = 0

\* is_incomplete_annual_period: the period had not finished at that instant.
Incomplete(per, now) == now <= PeriodEnd[per]

\* The points of a fetch; a period without a value is skipped, never filled.
Fetched(now) ==
  {[period |-> per, value |-> source[per], proj |-> Incomplete(per, now)] :
     per \in {q \in Period : source[q] # Nil}}

\* provider.fetch_detail: the projection flags are computed from the clock
\* read before the fetch.
Fetch(p) ==
  /\ pc[p] = "idle"
  /\ payload' = [payload EXCEPT ![p] = Fetched(clock)]
  /\ pc' = [pc EXCEPT ![p] = "fetched"]
  /\ UNCHANGED <<rows, lock, stamp, pub, point, cur, pending, staged,
                 clock, source, changes>>

\* Mutant: the availability stamp is the instant before the payload arrived.
StampTime_Early == IF clock = 0 THEN 0 ELSE clock - 1

\* The instant the payload was in hand.
StampTime == clock

\* available_at = utcnow(), one instant for the whole payload.
Stamp(p) ==
  /\ pc[p] = "fetched"
  /\ stamp' = [stamp EXCEPT ![p] = StampTime]
  /\ pc' = [pc EXCEPT ![p] = "ready"]
  /\ UNCHANGED <<rows, lock, payload, pub, point, cur, pending, staged,
                 clock, source, changes>>

Write(p) == WriteStep(p) /\ UNCHANGED <<clock, source, changes>>

Fail(p) == Crash(p) /\ UNCHANGED <<clock, source, changes>>

\* Time passes; a skewed clock may also jump.
Tick ==
  /\ \/ clock < MaxTime /\ clock' = clock + 1
     \/ Skewed /\ clock' \in 0..MaxTime
  /\ UNCHANGED <<storeVars, source, changes>>

\* External: the publisher prints a value, or restates one.
Publish ==
  /\ changes < MaxChanges
  /\ changes' = changes + 1
  /\ \E per \in Period : \E v \in Value \ {source[per]} :
       source' = [source EXCEPT ![per] = v]
  /\ UNCHANGED <<storeVars, clock>>

Next ==
  \/ \E p \in Pass : Fetch(p) \/ Stamp(p) \/ Write(p) \/ Fail(p)
  \/ Tick
  \/ Publish

Spec == Init /\ [][Next]_vars

\* The cron starts a pass again and again, and a pass that runs takes its
\* next step; crashes are possible but not forever (no fairness on Fail).
Fairness == \A p \in Pass : WF_vars(Fetch(p)) /\ WF_vars(Stamp(p)) /\ SF_vars(Write(p))

-----------------------------------------------------------------------------
(* Properties.                                                              *)

\* A pass that has stamped its payload and has not ended its transaction.
InFlight(p) == pc[p] \notin {"idle", "fetched"}

\* What a point-in-time read answers for every period at a cutoff.
Answer(cutoff) ==
  [per \in Period |-> PointInTime(rows, per, cutoff, FALSE)]

\* A cutoff the clock has passed, with no pass stamped at or before it still
\* writing.
Settled(cutoff) ==
  /\ cutoff < clock
  /\ \A p \in Pass : InFlight(p) => stamp[p] > cutoff

\* A backtest is reproducible: a settled cutoff stays settled, and no step
\* changes what a read at it returns (store.py: "a cutoff before a revision
\* returns the number that stood then, not the number that stands now").
\* Until it is settled a read at it may still change: available_at is taken
\* before the transaction that stores it commits.
StableCutoff ==
  [][\A c \in 0..MaxTime :
       Settled(c) => Settled(c)' /\ Answer(c)' = Answer(c)]_vars

\* Rows a transaction writes carry its pass's stamp.
Stamped ==
  /\ \A p \in Pass : \A r \in staged[p] : r.avail = stamp[p]
  /\ \A p \in Pass : pc[p] = "insert" => pending[p].avail = stamp[p]

\* What the store says now: the value of each period's newest row.
Stored(per) == {r.value : r \in PointInTime(rows, per, MaxTime, TRUE)}

\* Whatever passes raced, were refused or crashed, repeated passes bring the
\* store to what the source prints ("the loser is only DEFERRED"), unless
\* passes keep crashing (a commit of nothing looks like a crash: it is not).
Converges ==
  <>[][\A p \in Pass : Fail(p) => Write(p)]_vars =>
    <>[](\A per \in Period : source[per] # Nil => Stored(per) = {source[per]})

=============================================================================
