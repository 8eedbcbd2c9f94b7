------------------------------ MODULE FedPress ------------------------------
(***************************************************************************)
(* The Federal Reserve's press feed, which two jobs store in the same      *)
(* table: run_news_ingest (app/jobs/news.py), which keeps a version row    *)
(* per wording, and the collector of run_news_collection                   *)
(* (app/jobs/news_collect.py, app/news/sources/fed.py), which keeps the    *)
(* bodies it received and never rewrites an article.                       *)
(***************************************************************************)
EXTENDS NewsSource

CONSTANTS
  Article,     \* canonical URLs
  Wording,     \* title and summary, as content_hash tells them apart
  Absent,      \* not in the feed, or not stored
  Ingest,      \* calls of /internal/news/ingest
  Collect,     \* calls of /internal/news/collect
  MaxEdits,    \* bound on what the Fed publishes and edits
  MaxFedKills  \* bound on the restarts that end a call half-way

ASSUME FedAssumption ==
  /\ Absent \notin Wording
  /\ Ingest \cap Collect = {}
  /\ {MaxEdits, MaxFedKills} \subseteq Nat

VARIABLES
  feed,      \* the wording the feed prints for each article
  stored,    \* news_articles: wording and n_versions (duplicate_of is left out)
  versions,  \* news_article_versions
  payloads,  \* wordings held by the stored bodies of news_raw_payloads
  source,    \* the news_sources row
  fpc,       \* where each call is
  began,     \* age of an ingest's start, the stamp it writes; 0 once not needed
  body,      \* the feed as a call received it
  view,      \* the articles an ingest's transaction read
  counted,   \* consecutive_failures as a failing collector read it
  edits, fedKills

fedLocals == <<began, body, view, counted>>
fedVars == <<feed, stored, versions, payloads, source, fpc, fedLocals, edits,
             fedKills>>

NoFeed == [art \in Article |-> Absent]

NotStored == [wording |-> Absent, n |-> 0]

Stored == [wording : Wording \cup {Absent}, n : Nat]

Version == [article : Article, n : Nat, wording : Wording]

FedPC == {"idle", "due", "fetching", "received", "writing", "failing", "parsed"}

FedInit ==
  /\ feed = NoFeed
  /\ stored = [art \in Article |-> NotStored]
  /\ versions = {}
  /\ payloads = {}
  /\ source = NewSource
  /\ fpc = [c \in Ingest \cup Collect |-> "idle"]
  /\ began = [c \in Ingest \cup Collect |-> 0]
  /\ body = [c \in Ingest \cup Collect |-> NoFeed]
  /\ view = [c \in Ingest \cup Collect |-> [art \in Article |-> NotStored]]
  /\ counted = [c \in Ingest \cup Collect |-> 0]
  /\ edits = 0
  /\ fedKills = 0

Goto(c, label) == fpc' = [fpc EXCEPT ![c] = label]

\* The call is over, and with it everything it held.
Over(c) ==
  /\ Goto(c, "idle")
  /\ began' = [began EXCEPT ![c] = 0]
  /\ body' = [body EXCEPT ![c] = NoFeed]
  /\ view' = [view EXCEPT ![c] = [art \in Article |-> NotStored]]
  /\ counted' = [counted EXCEPT ![c] = 0]

Printed(c) == {art \in Article : body[c][art] # Absent}

-----------------------------------------------------------------------------
(* run_news_ingest                                                         *)

\* _load_sources and poll_due: the row as it was when the pass began, the
\* breaker not consulted.
LoadSources(c) ==
  /\ fpc[c] = "idle"
  /\ PollDue(source)
  /\ Goto(c, "due")
  /\ began' = [began EXCEPT ![c] = 0]
  /\ UNCHANGED <<feed, stored, versions, payloads, source, body, view, counted,
                 edits, fedKills>>

\* _mark_polled: before the fetch, with the stamp of the pass's start.
IngestMarks(c) ==
  /\ fpc[c] = "due"
  /\ source' = [source EXCEPT !.polled = began[c]]
  /\ Goto(c, "fetching")
  /\ UNCHANGED <<feed, stored, versions, payloads, fedLocals, edits, fedKills>>

\* fetch_articles: the feed's items (an empty feed has none to ingest).
Receive(c) ==
  /\ fpc[c] = "fetching"
  /\ body' = [body EXCEPT ![c] = feed]
  /\ began' = [began EXCEPT ![c] = 0]
  /\ Goto(c, "received")
  /\ UNCHANGED <<feed, stored, versions, payloads, source, view, counted, edits,
                 fedKills>>

\* _record_failure: the counter is incremented in the database.
IngestFetchFails(c) ==
  /\ fpc[c] = "fetching"
  /\ source' = [source EXCEPT !.error = began[c], !.failures = Bumped(@)]
  /\ Over(c)
  /\ UNCHANGED <<feed, stored, versions, payloads, edits, fedKills>>

\* _record_success, and then the transaction's reads of what is held.
IngestReads(c) ==
  /\ fpc[c] = "received"
  /\ source' = [source EXCEPT !.failures = 0]
  /\ view' = [view EXCEPT ![c] = stored]
  /\ Goto(c, "writing")
  /\ UNCHANGED <<feed, stored, versions, payloads, began, body, counted, edits,
                 fedKills>>

New(c) == {art \in Printed(c) : view[c][art].n = 0}

Edited(c) == {art \in Printed(c) : /\ view[c][art].n > 0
                                   /\ view[c][art].wording # body[c][art]}

\* A version row per new article and per changed wording.
Appended(c) ==
  {[article |-> art, n |-> view[c][art].n + 1, wording |-> body[c][art]] :
     art \in New(c) \cup Edited(c)}

\* The row _ingest_record leaves: inserted as version 1, or overwritten.
Ingested(c, art) == [wording |-> body[c][art], n |-> view[c][art].n + 1]

\* news_articles_unique and news_article_versions_unique: what the pass is
\* about to insert has been inserted since it looked.
Collides(c) ==
  \/ \E art \in New(c) : stored[art].n > 0
  \/ \E v \in Appended(c), w \in versions : v.article = w.article /\ v.n = w.n

\* _ingest_record over the items, in one transaction; a collision rolls the
\* source's batch back, and the pass goes on.
IngestCommits(c) ==
  /\ fpc[c] = "writing"
  /\ \/ /\ Collides(c)
        /\ UNCHANGED <<stored, versions>>
     \/ /\ ~Collides(c)
        /\ stored' = [art \in Article |->
             IF art \in New(c) \cup Edited(c) THEN Ingested(c, art) ELSE stored[art]]
        /\ versions' = versions \cup Appended(c)
  /\ Over(c)
  /\ UNCHANGED <<feed, payloads, source, edits, fedKills>>

IngestStep(c) ==
  \/ LoadSources(c)
  \/ IngestMarks(c)
  \/ Receive(c)
  \/ IngestFetchFails(c)
  \/ IngestReads(c)
  \/ IngestCommits(c)

-----------------------------------------------------------------------------
(* run_news_collection and fed.collect                                     *)

\* approved_sources and should_attempt: the breaker, then the cadence.
Attempt(c) ==
  /\ fpc[c] = "idle"
  /\ ShouldAttempt(source)
  /\ Goto(c, "due")
  /\ UNCHANGED <<feed, stored, versions, payloads, source, fedLocals, edits,
                 fedKills>>

\* load_source and poll_gate: the row is read once more.
Gate(c) ==
  /\ fpc[c] = "due"
  /\ Goto(c, IF PollDue(source) THEN "fetching" ELSE "idle")
  /\ UNCHANGED <<feed, stored, versions, payloads, source, fedLocals, edits,
                 fedKills>>

\* fetch_error or http_status: record_failure reads the counter ...
CollectFetchFails(c) ==
  /\ fpc[c] = "fetching"
  /\ counted' = [counted EXCEPT ![c] = source.failures]
  /\ Goto(c, "failing")
  /\ UNCHANGED <<feed, stored, versions, payloads, source, began, body, view,
                 edits, fedKills>>

\* ... and writes it back one higher.
RecordFailure(c) ==
  /\ fpc[c] = "failing"
  /\ source' = PolledFailed(source, counted[c])
  /\ Over(c)
  /\ UNCHANGED <<feed, stored, versions, payloads, edits, fedKills>>

\* store_raw_payload: committed on its own, before anything is parsed.
StoreBody(c) ==
  /\ fpc[c] = "received"
  /\ payloads' = payloads \cup {<<art, body[c][art]>> : art \in Printed(c)}
  /\ Goto(c, "parsed")
  /\ UNCHANGED <<feed, stored, versions, source, fedLocals, edits, fedKills>>

\* store_articles inserts what is not held (n_versions defaults to 1, with no
\* version row) and leaves the rest alone; record_attempt and mark_polled are
\* in the same transaction, and a feed with no item counts as a failure.
StoreArticles(c) ==
  /\ fpc[c] = "parsed"
  /\ LET fresh == {art \in Printed(c) : stored[art].n = 0}
     IN /\ stored' = [art \in Article |->
             IF art \in fresh
               THEN [wording |-> body[c][art], n |-> 1]
               ELSE stored[art]]
  /\ source' = IF Printed(c) = {} THEN PolledFailed(source, source.failures)
                                  ELSE PolledOk(source)
  /\ Over(c)
  /\ UNCHANGED <<feed, versions, payloads, edits, fedKills>>

\* _record_crash: an exception the collector did not handle (from store or
\* parser) is recorded as an error by the pass, and rolls the step back.
CollectRaises(c) ==
  /\ fpc[c] \in {"received", "parsed"}
  /\ source' = PolledFailed(source, source.failures)
  /\ Over(c)
  /\ UNCHANGED <<feed, stored, versions, payloads, edits, fedKills>>

CollectStep(c) ==
  \/ Attempt(c)
  \/ Gate(c)
  \/ Receive(c)
  \/ CollectFetchFails(c)
  \/ RecordFailure(c)
  \/ StoreBody(c)
  \/ StoreArticles(c)
  \/ CollectRaises(c)

-----------------------------------------------------------------------------

\* The Fed publishes a release, rewords one, or drops it from the window.
Publishes ==
  /\ edits < MaxEdits
  /\ edits' = edits + 1
  /\ \E art \in Article, w \in Wording \cup {Absent} :
       /\ w # feed[art]
       /\ feed' = [feed EXCEPT ![art] = w]
  /\ UNCHANGED <<stored, versions, payloads, source, fpc, fedLocals, fedKills>>

\* The service is restarted: an open transaction is rolled back.
FedKilled ==
  /\ fedKills < MaxFedKills
  /\ fedKills' = fedKills + 1
  /\ \E c \in Ingest \cup Collect : fpc[c] # "idle" /\ Over(c)
  /\ UNCHANGED <<feed, stored, versions, payloads, source, edits>>

\* Time passes; the stamps of the row and of the running passes grow older.
FedTick ==
  /\ source' = Aged(source)
  /\ began' = [c \in Ingest \cup Collect |->
                 IF c \in Ingest /\ fpc[c] \in {"due", "fetching"} THEN Older(began[c]) ELSE 0]
  /\ <<source', began'>> # <<source, began>>
  /\ UNCHANGED <<feed, stored, versions, payloads, fpc, body, view, counted,
                 edits, fedKills>>

FedNext ==
  \/ \E c \in Ingest : IngestStep(c)
  \/ \E c \in Collect : CollectStep(c)
  \/ Publishes
  \/ FedKilled
  \/ FedTick

FedSpec == FedInit /\ [][FedNext]_fedVars

-----------------------------------------------------------------------------

\* Every variable keeps to its type.
FedTypeOK ==
  /\ feed \in [Article -> Wording \cup {Absent}]
  /\ stored \in [Article -> Stored]
  /\ versions \subseteq Version
  /\ payloads \subseteq Article \X Wording
  /\ source \in Source
  /\ fpc \in [Ingest \cup Collect -> FedPC]
  /\ began \in [Ingest \cup Collect -> Age]
  /\ body \in [Ingest \cup Collect -> [Article -> Wording \cup {Absent}]]
  /\ view \in [Ingest \cup Collect -> [Article -> Stored]]
  /\ counted \in [Ingest \cup Collect -> 0..MaxFailures]

\* A source that keeps failing keeps being retried: the cooldown is capped
\* and neither a skipped pass nor another job's failures hold the breaker
\* open for good (cooldown_seconds: "an uncapped exponential turns a
\* week-long outage into a source that never retries again").
NeverAbandoned == []<>(\E c \in Ingest \cup Collect : fpc[c] = "fetching")

=============================================================================
