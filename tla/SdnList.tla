------------------------------ MODULE SdnList -------------------------------
(***************************************************************************)
(* The OFAC SDN list (app/news/sources/ofac.py): a document with no change *)
(* feed.  A pass stores the document it received and reports, as articles, *)
(* what changed against the last document stored before it.                *)
(***************************************************************************)
EXTENDS NewsSource, Sequences

CONSTANTS
  Entry,         \* uids
  State,         \* what the compared fields of an entry may say
  NotListed,     \* the entry is not on the list
  Collector,     \* calls of /internal/news/collect
  MaxListings,   \* bound on the editions OFAC publishes
  MaxReceived,   \* bound on the documents received
  MaxSdnKills    \* bound on the restarts that end a call half-way

ASSUME SdnAssumption ==
  /\ NotListed \notin State
  /\ {MaxListings, MaxReceived, MaxSdnKills} \subseteq Nat

Entries == [Entry -> State \cup {NotListed}]

Listed(entries) == {u \in Entry : entries[u] # NotListed}

\* A document: its entries, told apart from an earlier one with the same
\* entries by the publication date it carries.
Document == [edition : 0..MaxListings, entries : Entries]

VARIABLES
  sdn,        \* the document OFAC publishes
  snapshots,  \* news_raw_payloads: the stored documents, by fetched_at
  reported,   \* news_articles: one urn per (uid, change, digest)
  sdnSource,  \* the news_sources row
  spc,        \* where each call is
  document,   \* the document a call received, with its place in time
  baseline,   \* the document it compares with, none when it has no place
  sdnKills,
  received,   \* documents received so far, the clock of fetched_at
  orphans,    \* (ghost) stored documents whose call was killed before reporting
  crossed     \* (ghost) those stored around another call's baseline

sdnVars == <<sdn, snapshots, reported, sdnSource, spc, document, baseline,
             sdnKills, received, orphans, crossed>>

Nothing == [u \in Entry |-> NotListed]

NoDocument == [edition |-> 0, entries |-> Nothing, at |-> 0]

SdnPC == {"idle", "due", "fetching", "received", "compared", "stored", "reported"}

SdnInit ==
  /\ sdn \in [edition : {0}, entries : Entries]
  /\ Listed(sdn.entries) # {}
  /\ snapshots = {}
  /\ reported = {}
  /\ sdnSource = NewSource
  /\ spc = [c \in Collector |-> "idle"]
  /\ document = [c \in Collector |-> NoDocument]
  /\ baseline = [c \in Collector |-> NoDocument]
  /\ sdnKills = 0
  /\ received = 0
  /\ orphans = {}
  /\ crossed = {}

Step(c, label) == spc' = [spc EXCEPT ![c] = label]

Return(c) ==
  /\ Step(c, "idle")
  /\ document' = [document EXCEPT ![c] = NoDocument]
  /\ baseline' = [baseline EXCEPT ![c] = NoDocument]

-----------------------------------------------------------------------------

AttemptSdn(c) ==
  /\ spc[c] = "idle"
  /\ ShouldAttempt(sdnSource)
  /\ Step(c, "due")
  /\ UNCHANGED <<sdn, snapshots, reported, sdnSource, document, baseline,
                 sdnKills, received, orphans, crossed>>

GateSdn(c) ==
  /\ spc[c] = "due"
  /\ Step(c, IF PollDue(sdnSource) THEN "fetching" ELSE "idle")
  /\ UNCHANGED <<sdn, snapshots, reported, sdnSource, document, baseline,
                 sdnKills, received, orphans, crossed>>

\* fetch_error, http_status, no_entries_parsed, payload_too_large: recorded,
\* and nothing of the document is kept.
FetchSdnFails(c) ==
  /\ spc[c] = "fetching"
  /\ sdnSource' = PolledFailed(sdnSource, sdnSource.failures)
  /\ Return(c)
  /\ UNCHANGED <<sdn, snapshots, reported, sdnKills, received, orphans, crossed>>

\* A document with entries; received_at orders it among all that arrive.
FetchSdn(c) ==
  /\ spc[c] = "fetching"
  /\ received < MaxReceived
  /\ received' = received + 1
  /\ document' = [document EXCEPT ![c] =
       [edition |-> sdn.edition, entries |-> sdn.entries, at |-> received']]
  /\ Step(c, "received")
  /\ UNCHANGED <<sdn, snapshots, reported, sdnSource, baseline, sdnKills, orphans, crossed>>

\* Mutant: the baseline is the first document ever stored.
Latest_First ==
  IF snapshots = {} THEN NoDocument
  ELSE CHOOSE s \in snapshots : \A t \in snapshots : s.at <= t.at

\* latest_raw_payload.
Latest ==
  IF snapshots = {} THEN NoDocument
  ELSE CHOOSE s \in snapshots : \A t \in snapshots : t.at <= s.at

SameBody(d, e) == d.edition = e.edition /\ d.entries = e.entries

\* snapshot_unchanged: the attempt is logged and nothing else.
UnchangedList(c) ==
  /\ spc[c] = "received"
  /\ snapshots # {} /\ SameBody(document[c], Latest)
  /\ sdnSource' = PolledOk(sdnSource)
  /\ Return(c)
  /\ UNCHANGED <<sdn, snapshots, reported, sdnKills, received, orphans, crossed>>

\* The baseline is read, in a transaction of its own.
ReadBaseline(c) ==
  /\ spc[c] = "received"
  /\ ~(snapshots # {} /\ SameBody(document[c], Latest))
  /\ baseline' = [baseline EXCEPT ![c] = Latest]
  /\ Step(c, "compared")
  /\ UNCHANGED <<sdn, snapshots, reported, sdnSource, document, sdnKills,
                 received, orphans, crossed>>

\* store_raw_payload, committed before the changes are.
StoreSnapshot(c) ==
  /\ spc[c] = "compared"
  /\ snapshots' = snapshots \cup {document[c]}
  /\ crossed' = crossed \cup {s.at : s \in {t \in snapshots : t.at > document[c].at}}
                       \cup IF Latest = baseline[c] /\ baseline[c].at < document[c].at THEN {}
                            ELSE {document[c].at}
  /\ Step(c, "stored")
  /\ UNCHANGED <<sdn, reported, sdnSource, document, baseline, sdnKills,
                 received, orphans>>

\* diff_snapshots: one change per uid.
Changes(before, after) ==
  {[uid |-> u,
    change |-> IF before.entries[u] = NotListed THEN "added"
               ELSE IF after.entries[u] = NotListed THEN "removed" ELSE "modified"] :
     u \in {v \in Entry : before.entries[v] # after.entries[v]}}

\* build_articles: the dedupe key holds the digest of the new document.
Articles(before, after) ==
  {[uid |-> ch.uid, change |-> ch.change, digest |-> <<after.edition, after.entries>>] :
     ch \in Changes(before, after)}

\* Mutant: a first document reports every entry as added.
ReportedBy_NoBaseline(c) == Articles(baseline[c], document[c])

\* A first document is a baseline, and reports nothing.
ReportedBy(c) ==
  IF baseline[c] = NoDocument THEN {} ELSE Articles(baseline[c], document[c])

\* store_articles, in a second transaction: a key already held is ignored.
ReportChanges(c) ==
  /\ spc[c] = "stored"
  /\ reported' = reported \cup ReportedBy(c)
  /\ Step(c, "reported")
  /\ UNCHANGED <<sdn, snapshots, sdnSource, document, baseline, sdnKills,
                 received, orphans, crossed>>

\* _finish_ok.
FinishSdn(c) ==
  /\ spc[c] = "reported"
  /\ sdnSource' = PolledOk(sdnSource)
  /\ Return(c)
  /\ UNCHANGED <<sdn, snapshots, reported, sdnKills, received, orphans, crossed>>

CollectSdn(c) ==
  \/ AttemptSdn(c)
  \/ GateSdn(c)
  \/ FetchSdnFails(c)
  \/ FetchSdn(c)
  \/ UnchangedList(c)
  \/ ReadBaseline(c)
  \/ StoreSnapshot(c)
  \/ ReportChanges(c)
  \/ FinishSdn(c)

-----------------------------------------------------------------------------

\* OFAC publishes an edition, never an empty one; it may list what the one
\* before did.
Lists ==
  /\ sdn.edition < MaxListings
  /\ \E entries \in {l \in Entries : Listed(l) # {}} :
       sdn' = [edition |-> sdn.edition + 1, entries |-> entries]
  /\ UNCHANGED <<snapshots, reported, sdnSource, spc, document, baseline,
                 sdnKills, received, orphans, crossed>>

\* The service is restarted under a call.
SdnKilled(c) ==
  /\ spc[c] # "idle"
  /\ sdnKills < MaxSdnKills
  /\ sdnKills' = sdnKills + 1
  /\ orphans' = IF spc[c] = "stored" THEN orphans \cup {document[c].at} ELSE orphans
  /\ Return(c)
  /\ UNCHANGED <<sdn, snapshots, reported, sdnSource, received, crossed>>

SdnTick ==
  /\ Aged(sdnSource) # sdnSource
  /\ sdnSource' = Aged(sdnSource)
  /\ UNCHANGED <<sdn, snapshots, reported, spc, document, baseline, sdnKills,
                 received, orphans, crossed>>

SdnNext ==
  \/ \E c \in Collector : CollectSdn(c) \/ SdnKilled(c)
  \/ Lists
  \/ SdnTick

SdnSpec == SdnInit /\ [][SdnNext]_sdnVars

-----------------------------------------------------------------------------

\* Every variable keeps to its type.
SdnTypeOK ==
  /\ sdn \in Document
  /\ \A s \in snapshots : Listed(s.entries) # {}
  /\ sdnSource \in Source
  /\ spc \in [Collector -> SdnPC]

Before(s) == {t \in snapshots : t.at < s.at}

\* The document stored before s, whichever call stored it.
Preceding(s) == CHOOSE t \in Before(s) : \A u \in Before(s) : u.at <= t.at

Busy(s) == \E c \in Collector : spc[c] = "stored" /\ document[c].at = s.at

\* Every change reported is one between two documents that are both stored,
\* from the earlier to the later, unless overlapping calls crossed: then a
\* document may be compared with one received after it, and its news is what
\* the later one undid (ofac.py: emitting "every entry was added" on day one
\* "would manufacture thousands of events that did not happen").
ReportedHappened ==
  \A r \in reported : \E s, t \in snapshots :
    /\ r.digest = <<t.edition, t.entries>>
    /\ [uid |-> r.uid, change |-> r.change] \in Changes(s, t)
    /\ s.at < t.at \/ t.at \in crossed

\* Every change is told: what a document changed against the one stored
\* before it is reported, unless its own call was killed between its two
\* transactions (the loss is then for good, the next pass comparing with the
\* orphan) or overlapping calls read one baseline (ofac.py: "the only way to
\* learn what changed is to keep the previous document and compare").
ChangesReported ==
  \A s \in snapshots :
    \/ Before(s) = {}
    \/ Busy(s)
    \/ s.at \in orphans \cup crossed
    \/ Articles(Preceding(s), s) \subseteq reported

=============================================================================
