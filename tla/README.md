# Verification project for tala-pala

TLA+ models of the parts of tala-pala where correctness depends on the order of
steps: the economic store and the documents ingested into it, the price
collection, the TSETMC archives, the news collectors, the model and forecast
lifecycle, the indicators derived from it, and the scheduler lock around the
jobs. TLC checks them on small instances; TLAPS proves every safety and action
property of the passing runs for every value of the constants. `PROJECT.json`
maps each definition to the source lines it models. Paths below are relative to
the repository; `py/` abbreviates `prediction-python/app/` and `go/`
abbreviates `backend-go/internal/`.

## 1. Inventory

The system is a Go API (`backend-go`), a Python prediction service
(`prediction-python`), PostgreSQL, Redis and a web frontend. The Go scheduler
calls the service's job endpoints over HTTP; the jobs read and write the tables
the Go API serves. `scripts/tsetmc_fetch.py` runs on a machine that can reach
TSETMC and posts what it downloads to the service.

| component | state | operations | hard behaviour |
|---|---|---|---|
| vintage store `py/economic/store.py` | `economic_observations` | `ensure_series`, `record_observation`, `point_in_time` | several statements at READ COMMITTED; clock skew; revisions |
| polled ingest `py/jobs/economic.py` | none of its own | fetch, stamp, write one series | overlapping passes; stamp taken before the commit; refusal in the middle |
| SCI ingest `py/economic/sci.py` | rows with `published_at` | stale check, write | check and write in different transactions |
| CBI ingest `py/economic/cbi.py`, `cbi_history.py` | rows with an edition, `source_documents` | website run, post by path, history post | an edition stepped over is refused for ever; reconstructed stamps; two sources of one series |
| price gate `py/jobs/collect.py`, `py/core/validation.py` | `raw_observations`, `prices`, `suspect_freeze_alerts` | `run_collect`, `_store`, `_suspect_state` | lagging tickers; levels that must eventually be believed; throttled warnings |
| TGJU closes `py/jobs/tgju_daily.py`, `tgju_backfill.py` | closes, register, note, splice | daily pass, deep backfill | short pages, restated tables, live rows landing late, lost updates of the register |
| TSETMC archives `py/equities`, `py/bourse` | bars, actions, index values, closes, flows, session files | ingest of posted files | two copies of every history that disagree; overlapping ingests; trimmed payloads |
| scheduler and client `go/scheduler`, `go/internalclient` | Redis lock per job | `runWithLock`, `Post`, `TriggerJob` | timeouts against a lock's expiry; crashes; retries; unlocked manual runs |
| model registry `py/models/training.py`, `py/jobs/cleanup.py` | `model_versions`, artifacts | tournament, activate, load, prune | overlapping trainings; a pruned artifact still wanted; selection and holdout kept apart |
| evaluation `py/jobs/evaluate.py` | pending predictions, settings | grade a batch, learn | rows that never leave the head of a limited queue; a kill between two commits |
| trend alignment `py/jobs/trend_alignment.py` | state, events, performance | read, decide, write, replay | overlapping passes write back what they read; candles that change late |
| signals `py/signals`, `py/jobs/signals.py` | newest signal of a symbol | assemble, score, publish | a capped, rounded and clipped score |
| news collection `py/news/sources`, `py/jobs/news*.py` | articles, versions, raw payloads, `news_sources` | poll, store, report | breaker counters of overlapping calls; a document committed before its news |
| safe fetch `py/news/safefetch.py` | one fetch | redirects, retries, capped read, parse | credentials across redirects and retries |
| news consolidation and intelligence `py/news/consolidate.py`, `intelligence.py` | stories, snapshots | group, score, compare | grouping that depends on order; thresholds |
| provider registry `py/providers/registry.py` | breaker per provider | allow, success, failure | half-open probes of overlapping runs |
| alerts `go/alerts` | alerts, `last_triggered_at` | list, evaluate, fire | edits between the list and the per-alert transaction |
| users `go/admin/users.go`, `go/auth` | users, tokens | register, update, delete, login | last-admin check and write apart |
| issue recorder `go/issues` | bounded queue | record, drain, close | full queue; record after close |
| features, statistical models, read APIs, frontend | rows | arithmetic, parsing, queries | floating point and I/O, little concurrent state |

Interactions: the scheduler's `collect` job runs the price gate and the daily
passes; `economic` polls through the store; workbooks are posted to SCI and CBI,
which write through the same store. Training writes the versions prediction
loads, prediction writes the rows evaluation grades, evaluation writes the
settings the next prediction reads. A manual trigger (`go/admin/handlers.go`)
starts the same handlers without the scheduler's lock, so every job may overlap
itself. That is why the models allow overlapping passes wherever the code takes
no lock of its own.

## 2. Modules

| module | models |
|---|---|
| `EconomicStore` | one series' rows and the write transaction |
| `EconomicIngest`, `SciIngest` (extend it) | the poll; posted workbooks and the stale check |
| `CbiEditions` | CBI's website run, posts by path, the edition guard and stamps |
| `CbiHistory` | the history of CBI's time-series viewer beside the editions |
| `PriceGate` | `run_collect` for one symbol |
| `TgjuHistory` | the daily pass and the deep backfill of one instrument |
| `Restatement` | the rules for a payload that restates stored rows |
| `EquityBars`, `IndexHistory`, `FundCloses`, `ShareFetch` (extend it) | the four TSETMC archives |
| `NewsSource` | courtesy interval and circuit breaker of a source |
| `FedPress`, `SdnList`, `GdeltQueries` (extend it) | the collectors |
| `SafeFetch` | one fetch, and the depth scan |
| `Stories`, `Pressure` | consolidation of articles; snapshots and deltas |
| `ModelRegistry`, `Selection`, `Maturity` | versions; the tournament; forecasts and their outcomes |
| `TrendAlignment`, `Signals` | the alignment job with its replay; the signal pass |
| `JobLock`, `ExclusiveJob` | the scheduler's lock and calls; what they promise |
| `MC*` | instances for TLC |
| `EconomicStoreProofs`, `EconomicIngestProofs`, `JobLockProofs`, `FeedProofs`, `PriceProofs`, `ArchiveProofs`, `ForecastProofs` | theorems of the modules above |
| `NaturalSets` | lemmas on least, greatest and ranked members, for the proofs |

### EconomicStore, EconomicIngest, SciIngest

A *pass* is one caller's transaction on one series. Each SQL statement is an
action: `EnsureSeries` (the upsert), `SelectCurrent` and the bounds query of
`record_observation` (`Unchanged`, `Refuse` or `Number` according to its
result), `Insert`, `Commit`. A statement sees `View(p)`: committed rows and the
pass's own. PostgreSQL's `INSERT .. ON CONFLICT DO UPDATE` locks the conflicting
row even when its `WHERE` is false, so `EnsureSeries` takes `lock` until the end
of the transaction; every caller of `record_observation` calls `ensure_series`
in the same transaction first. A value is one model value standing for number
and method together, since `record_observation` compares both. Periods of a
payload are recorded in any order.

`EconomicIngest` adds the client: `Fetch` reads the source with projection
flags from the clock before the fetch, `Stamp` takes `available_at` when the
payload is in hand, `Write` runs the transaction, `Fail` is a crash anywhere.
`Publish` (external) changes what the source prints. With `Skewed` the clock may
jump to any instant. `SciIngest` adds `Post`, the check on its own connection
(`RefuseStale`, `Accept`) and the same write (`WriteWorkbook`), which may break
off anywhere (`PostFails`), for one of a workbook's series.
`allow_older`, a deliberate override, is left out there; `CbiEditions` has it.

### CbiEditions, CbiHistory

Editions are ingested oldest first, each in its own transaction, by a run that
holds the service's run lock; `PostPath` is the handler that takes a file and no
lock of the run. Every edition restates last Esfand, whose vintages are `prints`.
A run reads its list once, from `Since(mode, from)`: the newest edition stored or,
in a backfill, the `backfill_from` asked for when that is newer. `RunStops` is the
rule that a failed edition ends the run. `jumped` is a ghost: editions that were on
no list of the run that passed them, because a post by path stepped over them, a
backfill started after them or their Excel file came later; the guard then refuses
them. The guard compares with the newest stored edition only, and an older edition
the bank saves again is not fetched again; both are as in the code.

`CbiHistory` models a post of the viewer's saved answer. A payload states figures
for some quarters of each series: gaps and shorter ranges parse. Months that no
Excel edition can carry are written, the others are compared with the stored
editions, in one transaction whose rows others see at its commit. Two payloads
with gaps may leave a series whose months come from both, by design; `commits` (a
ghost) is the order the posts committed in, which says whose figure each month has
to be.

### PriceGate

Time is counted in ticks, one collect run per tick. In a run the providers are
asked in priority order. `Reject`, `Accept`, `Promote`, `Relevel` and `Hold` are
the arms of the loop body of `run_collect`, each with everything it stores;
`Skip` is a provider without a quote (breaker open, failed fetch, nothing for
this symbol), and `Peer` is the recording of quotes of a symbol already
satisfied, which `_measure_dispersion` makes. `Classify`, `MadOutlier`,
`Streak`, `Sustained`, `SinceLastLevelReset` and `Fresh` translate the functions
of the same names. Values are integers and percentages are exact, where the code
uses floating point. Rows with the same `observed_at` come in any order, as
`ORDER BY observed_at` leaves it. A provider states one value per instant and
its ticker does not run backwards. Left out: the oscillating symbols, which skip
the jump and MAD tests, the funds' time slot, and overlapping collect runs.

### TgjuHistory

A UTC day is three ticks, cut at 20:30 UTC (Tehran's next date) and at 23:00
(where a close is stamped). The daily pass fetches a page (`full` or the newest
rows), judges its bars, and in one transaction reads the register, writes what
`MayWrite` allows and rewrites register and note; the backfill does the same for
what lies before its cutoff and records the splice. `Observe` stores a live row
and may do so late; `Publish` and `Restate` (external) move the table.

### The TSETMC archives

TSETMC's CDN serves two copies of a history which need not agree, and a stored row
is never overwritten: `Restatement` holds the rules by which a payload is then
accepted or refused. `Running` there is a running total, a recursive function, which
both the factors of `EquityBars` and the decades of `IndexHistory` are. In
`EquityBars` prices are logarithms, so that factors add up; an ingest reads the
stored bars, derives the corporate actions over its own view, and commits. In
`IndexHistory` a value is a decade and a level, the decade being what `scale_exp`
corrects. `FundCloses` chains a close to its neighbours as stored. `ShareFetch` has
both sides: the script reads the service's state, downloads, trims and posts; the
handlers commit file by file and go on after a lost answer. A row
`parse_session_row` refuses (`Misstated`) is skipped while its file is recorded as
ingested; the ghost `skipped` holds those rows. Ghosts (`blind`, `crossing`,
`crossed`, `chained`) mark what two overlapping calls wrote over each other, which
the code does not protect against; the properties say what holds outside of that.

### News

`NewsSource` is the row every pass consults: interval, failure count and cooldown,
kept as ages. `FedPress` has both jobs that store the Federal Reserve's feed, each
reading the counter it later writes. `SdnList` stores a document and reports what
changed against the one before, in two transactions. `GdeltQueries` puts all
requests of the process behind one throttle, whose holder sleeps with the lock
held. `SafeFetch` walks redirects by hand: what a server answers, and what DNS
says at each look-up, is chosen freely. `Stories` and `Pressure` model library
code that no job of the repository calls yet; their inputs are batches of articles
and windows of events. The likeness of two headlines is any function of the two in
that order, since `SequenceMatcher` is not symmetric, and an empty headline is like
none; entity sets are compared by their Jaccard overlap. In `Pressure`, `Capture`
stores a snapshot and `Compare` the deltas, which are refused when the two
snapshots were made by different calculation versions (`Upgrade` changes the
version). `Read(way, d, e)` is the hypothesis a dimension reads in an event; the
property evaluates the whole scoring with every hypothesis turned round.

### Models, forecasts and indicators

`ModelRegistry` follows the versions of one symbol and horizon: a training writes
its artifact, then in one transaction deactivates the rows it finds and activates
its own; the cleanup reads the active rows in one step and unlinks in later ones;
`Restart` kills whatever runs. `Selection` is the tournament: an outcome of a fold
(better, worse, equal to naive, failed) is chosen, and the split, the embargo,
the choice of the ensemble's members and the gates are the code's; the ensemble's
own outcome is chosen fold by fold, as `combine` runs on each.

`Maturity` represents a price by the instant it was observed, because its properties
are about which observation grades a forecast. After grading, an evaluation computes
the calibration, updates its setting or, when there is none, inserts it (an insert
that another evaluation's came before is an error that ends the evaluation); then it
fits the meta-gate on the rows there are by then and stores that in the same way.
`GivesGate` has the refusals of `fit_meta_gate`: too few calls, calls of one kind
only, and, in the constant `Settles`, features that do not vary or an optimizer that
does not converge.

In `TrendAlignment` the verdict is any function of the whole series of closes a
stack was given, since an exponential average starts on the first of them. Both reads of a
pass go through `LoadCandles`, which takes the newest buckets of a bounded span: `Load(c, 0,
now)` for the live decision, the days of the longest window more for the replay. A
pass loads, decides, writes in one transaction, then loads again as of its own
instant and replays its past, on the intraday basis from the intraday candles only.
Because the two loads begin at different candles, the replay's verdict on an hour may
differ from what the live pass said at that hour; `py/models/trend_backtest.py`
shares the engine with the live pass, not the seed of its averages. What the replay
does promise is that no bar is decided with what was quoted after it closed.

`Signals` counts scores in quarters of a point so that both halvings of the scorer
are exact; a board is what the tables offer for one symbol. A forecast is a sequence
of horizons, each with its weight and move; `Expected` (the weighted move) and
`Agreement` (how far they point one way) are computed from the same moves.

### JobLock and ExclusiveJob

A *run* is one cron goroutine of one job, on a replica. `rem` counts down its
context and then, from the end of the call (`Finish`), the five seconds its release
has (`Grace`); `ttl` counts down the lock. `SetNX`, `Missed`, `Release` and
`ReleaseFails` are `runWithLock`; `Missed` includes a `SET NX` that set the lock and
whose answer was lost; `Deliver`, `Undelivered`, `Answer` and `Abandon` are `Post`, whose
only retry is after an error that proves the request was not delivered. A run
that gives up leaves its handler behind in `orphans`. `Crash(i)` kills a replica,
whose successor has another instance ID and cannot release the lock.
`TriggerJob` starts a handler without a lock, by design. Time (`Tick`) does not pass
a run whose context has ended: a call returns at the end of its context, and a
release at the end of its own. The context is created before `SET NX`, so the lock
outlives the call. It need not outlive the release: when the call took the whole
timeout, the lock can expire before the release's `Eval` runs, another goroutine of
the same replica can take it, and the script then deletes that run's lock, because
the instance ID is the process's and not the run's (`scheduler.go:206-226`). The
ghost `bare` holds the runs whose lock was deleted so; `architecture.md`'s "Only one
scheduler instance runs a job at a time" is checked outside of it.

`ExclusiveJob` is the promise without the mechanism: a run enters when every other
that is not exposed is out of its call, has its request delivered at most once,
finishes and leaves; and only a run that leaves can expose another. `JobLock`
implements it under the mapping `StageOf`, with `exposed <- bare`, which forgets the
lock, its expiry, the clocks and the handlers.

## 3. Runs

Subsystems that share no variable are checked in one run: `focus`, chosen
initially, says which of them a behaviour is about, and the others stay as they
began. The states of a run are the sum of theirs, not the product.

| run | about | properties |
|---|---|---|
| `economic_store` | 2 passes, a jumping clock | `VintageMonotone`, `NoSpuriousRevision` |
| `economic_ingest` | 2 passes, no skew | `StableCutoff`, `Converges` |
| `feeds` | SCI, CBI editions and history, Fed, OFAC, GDELT, one fetch | see below |
| `prices` | the live gate; TGJU's closes | see below |
| `archives` | bars, index, shares, funds | see below |
| `forecast` | registry, tournament, trend, signals, stories, pressure | see below |
| `jobs` | a job's lock; maturity | see below |

**feeds.** `EditionOrder`: an older workbook never becomes the newest vintage, for
workbooks posted one at a time. `NoneLockedOut`: up to the newest edition stored,
every edition offered is stored, unless it was on no list of the run or post that
passed it.
`StampInOrder`: a reconstructed stamp precedes neither the file nor a stored print.
`PostsAreWhole`, `OneSourcePerMonth`: each month of the viewer's history is the
figure of the last committed post that states it, all of a post's months or none,
and no month is written by both sources. `ReportedHappened`,
`ChangesReported`: what is reported of the sanctions list is a difference of two
stored documents, and every difference is reported, except for calls killed
between their two transactions and calls that crossed. `RequestsSpaced`: no two
requests to GDELT closer than its interval. `SourceNeverAbandoned`: a source that
keeps failing is asked again and again. `CredentialsStayHome`: headers go to the
host they were meant for only. `DepthIsNesting`: the depth scan agrees with the
definition of nesting.

**prices.** `StepsAreDecidedInOrder`: while prices arrive in order, no large step
that neither another source confirmed nor its own repeated. `NoTrapdoor`: no quote
is held back whose source has sustained its level over the span with nothing else
accepted. `WarnedFirst`: a steady level that began with the freeze is accepted on
repetition only after a warning, with the market open throughout.
`SeenMeansRead`: no bar of TGJU's table is jumped over. `MixedOnlyByLateRow`: a
history close and a live row share a day only when the row came after the day.
`LoneCloseNeverStored`: the daily pass stores a close only if its page prints one
that is not far above it and one that is not far below it.

**archives.** `NoUnmadeStep`: the funds' series has no step that no price made.
`FactorsChainBars`: stored factors chain stored bars. `ValidatedIsOnScale`: a
validated index is on the exchange's decade in every row. `NoForwardStep`: a new
value never meets the store with a step its own copy does not show. `OwedIsAsked`:
a row some session owes a share is asked for again, unless the session's file stated
it in a way that cannot be stored. `CleanRunStoresAll`: a run
without a failure leaves nothing it downloaded missing.

**forecast.** `ActiveHasArtifact`, `NeverUnservable`: the active version can be
loaded, and a horizon once served stays served. `ConfirmedOutOfSample`: a winner
is served on evidence it was not chosen by. `AlertedOnce`: an entry into an alignment
notifies once, however many evaluators run. `ReplaySeesNoFuture`: what the replay
says of a past bar does not change with what was quoted after the bar closed.
`ForecastMonotone`: a forecast no worse in its move, agreement and confidence never
earns a lower score. (A greater move alone may: where one horizon's move changes its
sign the agreement is lost, which can cost more than the move gains.)
`StoriesCountOnce`: a source's updates are one story, and a copy of an older article
does not count as independent. `EvenHanded`: had every hypothesis pointed the other
way, relief would be reported where alarm is, with the same confidence and on the
same events.

**jobs.** `ImplementsExclusiveJob`: two replicas and three goroutines run a job one
at a time and have it delivered at most once, but for the run whose lock a late
release of its own replica deletes. `LockIsFreed`: no lock is held for ever.
`OutcomeAfterForecast`, `DueAreGraded`, `CalibrationConverges`: a forecast is graded
by a later observation, all that fell due are graded (with the queue within its
limit), and the stored calibration ends up as the table's, and so does the stored
gate when the rows it is fitted on give one.

**Bounds.** Two passes, ingests, collectors or evaluators reach every interleaving
of two calls; the proofs cover any number where there is one. Two values suffice
where values are only compared for equality. Store: three instants allow a stamp
before, at and after another. `prices`: the thresholds keep the code's order
(`AlertAfter < SustainMin`, span shorter than history); 100, 103, 130 give an
agreeing pair and a jump, 900 is outside the sanity range; four ticks hold a
sustained run, its acceptance and one quote before it; the market opens at the
second tick so that closed and open instants both occur; four days and a page of two
rows let the daily pass miss more than it can see. `archives`: three sessions have a
middle one to be filled in last; copies differ in at most one session (two for the
index); two posts of each file overlap in every way. One row of the second share's
may be misstated. `feeds`: four editions of which the first and the third are
offered at the start, so that one appears in between and one at the end, with one
restated save and one kill, put a failure before, at and after the newest stored
one; the payloads of the history overlap, have gaps and stop short; one redirect and
two tries compose. `forecast`: three trainings give an active, a superseded and a
running version while the cleanup works; one warm-up candle and one of slack, which
make the live load shorter than the replay's; two calculation versions; series
lengths of 2, 6 and 9 points give too few folds, folds without a holdout and a full
split. `jobs` has two goroutines on one replica because cron does not skip a job
that is still running, and one tick for the release, in which the lock can expire;
two horizons, one of them daily, two forecasts and two evaluators, with windows of
one row and a gate of two, so that a later row pushes an earlier one out and two
rows are enough for a fit. All but `economic_store`, `economic_ingest` and `jobs`
end when their bounds are reached, so deadlock is not checked there.

**Fairness.** `Converges`: a pass starts again after it ends (the cron) and a
running pass takes its next step; strong fairness on `Write` because a pass waits
for a row lock that others take and release, which PostgreSQL grants in turn.
Crashes have no fairness, and the property assumes that they stop. A handler is
never assumed to finish. `LockIsFreed`: time passes, and a goroutine that can go
on goes on. `SourceNeverAbandoned`: the scheduler calls the collection again and
again, a call begun goes on to its end unless the service restarts, and time
passes; fetches are free to fail for ever. `CalibrationConverges`: one of the two
evaluators is the cron's, which calls the evaluation again and again and takes its
next step; the other, called by hand, is owed nothing and may stop anywhere; kills
are finitely many.

## 4. What the runs found

1. **SCI workbooks posted together** (`sci_overlap`, `py/economic/sci.py:476`).
   The newest publication date is read before the transaction. Both posts pass;
   the newer commits first, and the older one's values become the newest vintage.
2. **A shift below 15%** (`price_gate_retrap`, `py/jobs/collect.py:224`). After a
   flat window the MAD test alone holds a 10% shift. Once accepted by
   repetition it leaves no step beyond 15%, the window is not reset, and the
   next quote at the accepted level is held again.
3. **Orphaned handlers** (`job_lock_orphan`, `go/scheduler/scheduler.go:220`). A
   call that times out releases the lock while its handler works on; the comment
   in `go/internalclient/client.go` says that the lock is still held.
4. **A queue with a limit** (`maturity_queue`, `py/jobs/evaluate.py:206`). The
   oldest 500 pending forecasts are looked at: with more due than that, one that has
   its observation is not graded. Ones that no observation can grade stay pending,
   so enough of them keep newer, gradable ones out of the queue.
5. **The gate sees the holdout** (`selection_gate`, `py/models/training.py:885`).
   `sel_folds` is read and never set, so the degenerate-share gate counts all
   folds, where the comment says selection folds only. For the same reason the
   two fold counts stored with a version (lines 1123-1124) are zero.

Also shown: the `STATUS_RACED` arm of `record_observation` is not reachable through
its callers (`NeverRacedHolds`), because `ensure_series` serialises them.
`StableCutoff` holds only for *settled* cutoffs: `available_at` is taken before the
commit, so a read at a cutoff some open transaction has already been stamped with
may change when that transaction commits. The exceptions in the properties
(`jumped`, `orphans`, `crossed`, `crossing`, `blind`, `skipped`, `bare`, `late`) are
reachable: each names an overlap, a kill or an input the code does not protect
against. Three of them deserve a reader's attention: a late release can take the
lock of another run of its replica (`bare`), a `backfill_from` past editions not
stored locks those out (`jumped`), and an invalid row of a session file is not asked
for again (`skipped`, `py/bourse/shares.py:527-533`).

Proofs found where a comment says more than the code does:

* `py/core/validation.py:60` ("the warning always precedes an automatic
  acceptance") is true of a level that began with the freeze. It is not when a
  fallback delivered during the freeze and then died: repetition opens only once
  the 40 rows looked at (`collect.py:95`) have slid past the last delivered price,
  and the level is frozen and sustained at once. Nor is it when the rows agree with
  the candidate and not with each other, nor while the market is closed.
* `validation.py:44` speaks of observations "that all agree with each other";
  `suspect_streak` compares each with the candidate only, and agreement within 3%
  is not transitive, so a drifting source can accumulate a run.
* `_since_last_level_reset` concludes from prices alone that a large step is a
  shift "this system decided to accept". Prices of one instant, and a row older
  than one collected before it, step without any decision: hence `InOrder`.
* `scripts/tsetmc_fetch.py:656` says that a run with a later floor leaves no stretch
  missing for good. If it lies past a share's newest stored row, the trimming at its
  end (line 679) drops the rows in between, which are then inside the stored span,
  and no later run asks for them. `CleanRunStoresAll` is about one floor.

## 5. Proofs

Every invariant and action property of the passing runs is a theorem of its
specification, for any constants that satisfy the named assumptions: any number
of passes, calls, documents, sessions, trainings or candidates, and any thresholds.
None is inductive as it stands. Each proof states an invariant that is, shows
that `Init` implies it and that every action keeps it, one step per action, and
concludes. The part added to the property is what the code relies on without
saying so:

| theorem for | what the invariant adds |
|---|---|
| `VintageMonotone`, `NoSpuriousRevision` (`StoreInv`) | exactly the holder of the row lock is inside its transaction, so its view stands still; what it read as current is the last vintage of that view; what it is about to insert extends it to a good set of rows. `NeverRacedHolds` follows |
| `StableCutoff` | with `Skewed = FALSE`: rows of a transaction carry its stamp, and only rows available by the cutoff decide the answer |
| `EditionOrder` (`SciInv`) | `Stages`: a post past the check carries an edition no older than what is stored, and stages vintages above every committed row of their periods |
| `NoneLockedOut` (`CbiInv`) | `OldestFirst`: what the run's list holds before an edition it still has to do is stored or still to be done |
| `StampInOrder` (`Dated`) | no print is stamped in the future |
| `PostsAreWhole` (`HistoryInv`) | `PostWrites`: a post under way has, for each series it has come to, the stored rows with its own figures over them; `OneWriter`: the first series' row keeps all posts but one from writing, so the rows it read stay the stored ones |
| `OneSourcePerMonth` | ingested editions are at least the first Excel one |
| `ReportedHappened`, `ChangesReported` (`SdnInv`) | `BaselineIsLast`: a call that has stored and not yet reported compares with the document stored just before, unless calls crossed |
| `RequestsSpaced` (`ThrottleInv`) | `SleepsOut`: only the holder of the throttle sleeps, for at least what is left of the interval |
| `CredentialsStayHome` (`FetchInv`) | `HopIsSafe`: the next hop is approved before it is asked, and headers are still held only for the first host |
| `FetchIsBounded` | `SentSoFar`: requests sent, and the redirects this attempt has left, fit into the attempts begun |
| `DepthIsNesting` (`DepthInv`) | only the scan says "too deep"; `Scanned`: after each character the two flags and the depth are what the definition says of the text so far |
| `NoTrapdoor`, `StepsAreDecidedInOrder`, `WarnedFirst` (`GateInv`) | `GateShape`: one row per source and instant, one quote per source and run, every price and held quote has its raw row; `Warned`: a streak that is long enough was warned of when its last row was held |
| `SeenMeansRead` (`SeenInv`) | the page is the table without a hole, and reaches back to the newest bar seen before |
| `MixedOnlyByLateRow` (`MixedInv`) | a day a job has judged was over and free then |
| `LoneCloseNeverStored` (`LoneInv`) | what is about to be written passed the rule on this page |
| `NoUnmadeStep` (`FundInv`) | `AloneChains`: an ingest that has been alone since it judged finds the store it judged by |
| `OwedIsAsked` (`ShareInv`) | a universe call is newer than the session calls open beside it; a share without its row joined after the file or the call, or the file misstates it |
| `CleanRunStoresAll` (`CleanInv`) | what is stored, and what is stored once a run's files are, reaches the floor without a hole |
| `NoForwardStep` (`IndexInv`), `ValidatedIsOnScale` (`ScaleInv`) | a payload is one copy's; a post that is alone has read the store as it is, and is newer than each of its rows |
| `FactorsChainBars` (`EquityInv`) | stored actions are those derived from the stored bars and alternatives |
| `ActiveHasArtifact`, `NeverUnservable` (`RegistryInv`) | a training about to store its row has just written its artifact; what the cleanup found old enough and will not keep is not active |
| `OutcomeAfterForecast` (`MaturityInv`), `DueAreGraded` (`GradingInv`) | a queued forecast had fallen due; all that has to be graded is still queued |
| `AlertedOnce` (`AlertsAreEvents`) | a notification is of a recorded event, and events are unique |
| `ReplaySeesNoFuture` (`ReplayInv`) | a pass knows the instant it read at; the rest is about the operators: two series that agree up to an instant have the same completed candles then (`LegReadsThePast`), load the same buckets and choose the same basis (`AlikeLoaded`, `ReplayAlike`) |
| `ForecastMonotone` (`ScoreOfInputs`) | a stored score is the score of the inputs stored with it |
| `ConfirmedOutOfSample` (`TournamentInv`) | a walk's folds are folds of the series; the embargo keeps selection and holdout a horizon apart |
| `StoriesCountOnce` (`StoryInv`) | no item of a source is in two groups: the identity claim comes first in `MatchOrder`, so an update joins its own group whatever else it resembles; `InOrder`: the articles of a story are placed oldest first, so what is a copy of another came after it |
| `EvenHanded` (`PressureInv`) | stored scores can be compared, and the deltas are those of the last two snapshots; mirrored hypotheses leave every weight as it is, turn the sums round and keep the confidence and the sides (`SpeaksMirrored`, `SumsMirrored`, `ConfidenceMirrored`, `ScoreMirrored`), and the threshold is symmetric |
| `ImplementsExclusiveJob` (`Refinement`) | `LockCoversRun`: a run that calls and is not in `bare` owns the lock, whose ttl is at least what is left of its context, so it cannot expire under the call; `OwnHandler`: a run has a handler exactly while it waits. Every step of `JobLock` then maps to a step of `ExclusiveJob` or leaves all stages alone; `SetNX` maps to `Enter`, whose guard speaks of all the other runs, and `Release` to `Leave`, which exposes at most a run of its own replica. `MutualExclusion` and `DeliveredOnce` follow |

**Hypotheses.** Some theorems hold under a condition on the environment, which the
run's instance satisfies:

* `EditionOrder`: no two posts at work at once (`[]OneAtATime`). Without it the run
  `sci_overlap` finds the violation.
* `DueAreGraded`: at no time are more forecasts due than the query takes. Without it
  `maturity_queue` finds the violation.
* `ForecastMonotone`: the alignment weighs at most 18 points (the default is 10).
  A heavy one can reverse the order of two readings: at 30 points TLC finds a
  forecast no worse in anything that scores lower.
* `CleanRunStoresAll`: every run uses the same floor, a past day (section 4).
* `ValidatedIsOnScale`: the copies print on two adjoining decades. The correction
  knows steps of one decade only.

The exceptions inside the properties (`jumped`, `crossed`, `crossing`, `blind`,
`skipped`, `bare`, `late`, `chained`) are the ones of section 4.

**Lemmas.** `NaturalSets` has the facts about least, greatest and ranked members
that stand for `min`, `max`, `ORDER BY .. LIMIT 1` and sort-and-index. What the
recursive functions compute (`Running`, the price orders behind `NewestFirst`,
`Copy`, `SumFunction`, `Recency`, the depth scan) is proved by a least
counterexample: the set of lengths at which the claim fails has no least member.
`EconomicStoreProofs` holds the lemmas on sets of rows, and one step per action.

**Only model-checked.** Liveness, which is out of the prover's reach: `Converges`,
`LockIsFreed`, `SourceNeverAbandoned`, `CalibrationConverges`; and the violations,
which are counterexamples.

Assumptions worth knowing: `GateAssumption` requires the history limit to cover
the sustain span in ticks. The code reads 40 rows for 90 minutes, so a cadence
faster than 2.25 minutes could never sustain a level; the default cron is ten
minutes. `LockAssumption` requires a timeout of at least one tick.

## 6. Not modelled

Provider adapters and their breaker, features, statistical models, the classifier's
word lists, read APIs and the frontend: I/O, floating point, data or stateless
queries. Of the modelled components the layouts of files and pages, reports, logs
and health rows are left out; `PROJECT.json` says for each what else. Overlapping
collect runs, the funds' slot, and the projection flag across New Year are not
covered by a property. The Go side's alerts, users and issue recorder are planned.

## 7. Plan

1. `UserAdmin`: first-admin bootstrap under its table lock, registration, update
   and delete with the other-admin check, roles in tokens against the database.
2. `Alerts` and `IssueRecorder`: snapshots that go stale, cooldown, bounded queue.
3. Provider breaker and overlapping runs in `PriceGate`.
4. Further proofs: the safety that the liveness properties rest on (a lock that is
   held has a run or an expiry ahead of it; a source that waits has a bounded
   cooldown; a calibration that differs from the table's has been asked for), and
   the counts of GDELT's retries and of the FOMC counter.
