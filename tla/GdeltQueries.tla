---------------------------- MODULE GdeltQueries ----------------------------
(***************************************************************************)
(* The GDELT collector (app/news/sources/gdelt.py): the configured queries *)
(* one after the other, every request behind one throttle the whole        *)
(* process shares, a story dropped when an earlier query of the pass had   *)
(* it already.                                                             *)
(***************************************************************************)
EXTENDS NewsSource

CONSTANTS
  Queries,      \* enabled news_queries rows
  Url,          \* canonical URLs
  Requester,    \* overlapping calls of /internal/news/collect
  Gap,          \* min_interval_seconds between two requests, in beats
  MaxAttempts   \* MAX_ATTEMPTS_PER_QUERY

ASSUME GdeltAssumption ==
  {Queries, Gap, MaxAttempts} \subseteq Nat \ {0}

VARIABLES
  quiet,      \* beats since the last stamped request, up to Gap
  holder,     \* the call holding the throttle's lock, if any
  gdeltSource, \* the news_sources row
  gpc,        \* where each call is
  query,      \* the query it runs
  nap,        \* what is left of its sleep
  tries,      \* requests made for that query
  hits,       \* the stories of the answer
  seen,       \* seen_canonical
  failed,     \* queries_failed
  gStored     \* news_articles of the source

gdeltLocals == <<query, nap, tries, hits, seen, failed>>
gdeltVars == <<quiet, holder, gdeltSource, gpc, gdeltLocals, gStored>>

GdeltPC == {"idle", "due", "asking", "sleeping", "requesting", "answered",
            "storing", "next", "ending", "throttled"}

GdeltInit ==
  /\ quiet = Gap
  /\ holder = {}
  /\ gdeltSource = NewSource
  /\ gpc = [r \in Requester |-> "idle"]
  /\ query = [r \in Requester |-> 1]
  /\ nap = [r \in Requester |-> 0]
  /\ tries = [r \in Requester |-> 0]
  /\ hits = [r \in Requester |-> {}]
  /\ seen = [r \in Requester |-> {}]
  /\ failed = [r \in Requester |-> 0]
  /\ gStored = {}

At(r, label) == gpc' = [gpc EXCEPT ![r] = label]

PassEnds(r) ==
  /\ At(r, "idle")
  /\ query' = [query EXCEPT ![r] = 1]
  /\ nap' = [nap EXCEPT ![r] = 0]
  /\ tries' = [tries EXCEPT ![r] = 0]
  /\ hits' = [hits EXCEPT ![r] = {}]
  /\ seen' = [seen EXCEPT ![r] = {}]
  /\ failed' = [failed EXCEPT ![r] = 0]

AttemptGdelt(r) ==
  /\ gpc[r] = "idle"
  /\ ShouldAttempt(gdeltSource)
  /\ At(r, "due")
  /\ UNCHANGED <<quiet, holder, gdeltSource, gdeltLocals, gStored>>

GateGdelt(r) ==
  /\ gpc[r] = "due"
  /\ At(r, IF PollDue(gdeltSource) THEN "asking" ELSE "idle")
  /\ UNCHANGED <<quiet, holder, gdeltSource, gdeltLocals, gStored>>

-----------------------------------------------------------------------------
(* _RequestThrottle.wait                                                   *)

\* Mutant: the sleep is not under the lock.
TakeLock_Free(r) ==
  /\ gpc[r] = "asking"
  /\ nap' = [nap EXCEPT ![r] = Gap - quiet]
  /\ At(r, "sleeping")
  /\ UNCHANGED <<quiet, holder, gdeltSource, query, tries, hits, seen, failed, gStored>>

\* What remains of the interval is worked out once, and slept with the lock
\* held.
TakeLock(r) ==
  /\ gpc[r] = "asking"
  /\ holder = {}
  /\ holder' = {r}
  /\ nap' = [nap EXCEPT ![r] = Gap - quiet]
  /\ At(r, "sleeping")
  /\ UNCHANGED <<quiet, gdeltSource, query, tries, hits, seen, failed, gStored>>

\* The moment is stamped, and the lock released, before the request is made.
Stamp(r) ==
  /\ gpc[r] = "sleeping"
  /\ nap[r] = 0
  /\ quiet' = 0
  /\ holder' = {}
  /\ tries' = [tries EXCEPT ![r] = @ + 1]
  /\ At(r, "requesting")
  /\ UNCHANGED <<gdeltSource, query, nap, hits, seen, failed, gStored>>

-----------------------------------------------------------------------------
(* _run_query                                                              *)

\* The next query, or the end of the pass.
Advance(r) ==
  /\ query' = [query EXCEPT ![r] = @ + 1]
  /\ tries' = [tries EXCEPT ![r] = 0]
  /\ At(r, IF query[r] = Queries THEN "ending" ELSE "asking")

\* A network error or one of RETRY_STATUSES: once more, behind the throttle.
Retry(r) ==
  /\ gpc[r] = "requesting"
  /\ tries[r] < MaxAttempts
  /\ At(r, "asking")
  /\ UNCHANGED <<quiet, holder, gdeltSource, gdeltLocals, gStored>>

\* The last attempt failed, or the status is neither good nor retried.
QueryFails(r) ==
  /\ gpc[r] = "requesting"
  /\ failed' = [failed EXCEPT ![r] = @ + 1]
  /\ Advance(r)
  /\ UNCHANGED <<quiet, holder, gdeltSource, nap, hits, seen, gStored>>

\* THROTTLE_STATUSES: the host asked us to stop, for the whole pass.
Throttled(r) ==
  /\ gpc[r] = "requesting"
  /\ At(r, "throttled")
  /\ UNCHANGED <<quiet, holder, gdeltSource, gdeltLocals, gStored>>

\* An answer; stories an earlier query of the pass had are dropped.
Answer(r) ==
  /\ gpc[r] = "requesting"
  /\ \E found \in SUBSET Url :
       /\ hits' = [hits EXCEPT ![r] = found \ seen[r]]
       /\ seen' = [seen EXCEPT ![r] = @ \cup found]
  /\ At(r, "storing")
  /\ UNCHANGED <<quiet, holder, gdeltSource, query, nap, tries, failed, gStored>>

\* store_raw_payload, and store_articles with the attempt's row.
StoreHits(r) ==
  /\ gpc[r] = "storing"
  /\ gStored' = gStored \cup hits[r]
  /\ hits' = [hits EXCEPT ![r] = {}]
  /\ Advance(r)
  /\ UNCHANGED <<quiet, holder, gdeltSource, nap, seen, failed>>

\* The parser or the store raises: _record_crash ends the pass.
QueryRaises(r) ==
  /\ gpc[r] = "storing"
  /\ gdeltSource' = PolledFailed(gdeltSource, gdeltSource.failures)
  /\ PassEnds(r)
  /\ UNCHANGED <<quiet, holder, gStored>>

\* _finish: not ok when every query failed, or when the host throttled us.
FinishGdelt(r) ==
  /\ gpc[r] \in {"ending", "throttled"}
  /\ gdeltSource' = IF gpc[r] = "throttled" \/ failed[r] >= Queries
                      THEN PolledFailed(gdeltSource, gdeltSource.failures)
                      ELSE PolledOk(gdeltSource)
  /\ PassEnds(r)
  /\ UNCHANGED <<quiet, holder, gStored>>

CollectGdelt(r) ==
  \/ AttemptGdelt(r)
  \/ GateGdelt(r)
  \/ TakeLock(r)
  \/ Stamp(r)
  \/ Retry(r)
  \/ QueryFails(r)
  \/ Throttled(r)
  \/ Answer(r)
  \/ StoreHits(r)
  \/ QueryRaises(r)
  \/ FinishGdelt(r)

-----------------------------------------------------------------------------

\* A beat of the monotonic clock.
Beat ==
  /\ quiet < Gap
  /\ quiet' = quiet + 1
  /\ nap' = [r \in Requester |-> IF nap[r] > 0 THEN nap[r] - 1 ELSE 0]
  /\ UNCHANGED <<holder, gdeltSource, gpc, query, tries, hits, seen, failed, gStored>>

GdeltTick ==
  /\ Aged(gdeltSource) # gdeltSource
  /\ gdeltSource' = Aged(gdeltSource)
  /\ UNCHANGED <<quiet, holder, gpc, gdeltLocals, gStored>>

GdeltNext ==
  \/ \E r \in Requester : CollectGdelt(r)
  \/ Beat
  \/ GdeltTick

GdeltSpec == GdeltInit /\ [][GdeltNext]_gdeltVars

-----------------------------------------------------------------------------

\* Every variable keeps to its type, and only the lock's holder sleeps.
GdeltTypeOK ==
  /\ quiet \in 0..Gap
  /\ holder \subseteq Requester
  /\ gdeltSource \in Source
  /\ gpc \in [Requester -> GdeltPC]
  /\ query \in [Requester -> 1..Queries + 1]
  /\ nap \in [Requester -> 0..Gap]
  /\ tries \in [Requester -> 0..MaxAttempts]
  /\ failed \in [Requester -> 0..Queries]
  /\ \A r \in Requester : gpc[r] = "sleeping" => holder = {r}

\* Two requests are never stamped closer than the host's interval, whether
\* they are two queries of a pass, a retry, or the work of two overlapping
\* calls (_RequestThrottle: "all share one budget, because the host sees one
\* client").
RequestsSpaced ==
  [][\A r \in Requester :
       gpc[r] = "sleeping" /\ gpc'[r] = "requesting" => quiet >= Gap]_gdeltVars

=============================================================================
