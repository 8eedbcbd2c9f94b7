--------------------------- MODULE TrendAlignment ---------------------------
(* The trend-alignment job (jobs/trend_alignment.py) over the pure engine    *)
(* of models/trend_alignment.py and the replay of models/trend_backtest.py.  *)
(*                                                                            *)
(* One symbol.  Time is counted in hours.  A candle is known by its close.   *)
(* The verdict of a moving-average stack is a function of the closes that    *)
(* were loaded, all of them: an exponential average starts on the first.     *)
(* A pass loads the candles as of its own instant, decides, and in one       *)
(* transaction compares with the stored row, records an entry into a full    *)
(* alignment, notifies, and rewrites the row; then it loads more of the past *)
(* and replays it in a second, best-effort part.                             *)
EXTENDS Integers, Sequences, FiniteSets, FiniteSetsExt

CONSTANTS Width,        \* hours in a candle of each timeframe
          Verdict(_),   \* what the averages of a series of closes say of its last
          Slow,         \* candles the slow moving average needs
          Warm,         \* and the candles it is warmed up on (WARMUP_FACTOR)
          BucketSlack,  \* BUCKET_SLACK
          ScanSlack,    \* SCAN_SLACK
          StaleBuckets, \* TrendConfig.stale_buckets
          MinBuckets,   \* INTRADAY_MIN_BUCKETS_PER_DAY
          WindowDays,   \* the reported windows, in days
          Prices,       \* what may be quoted
          Histories,    \* what may have been collected before the first hour
          FirstHour, LastHour,
          Pass, MaxPasses, MaxLate,
          Absent        \* no candle, no row, no value

Timeframe == {"1h", "4h", "1d"}

ASSUME TrendAssumption ==
  /\ Width \in [Timeframe -> Nat \ {0}] /\ Width["1h"] = 1
  /\ {Slow, Warm, BucketSlack, ScanSlack, StaleBuckets, MinBuckets, FirstHour, LastHour,
      MaxPasses, MaxLate} \subseteq Nat
  /\ Slow > 0 /\ FirstHour <= LastHour
  /\ WindowDays \subseteq Nat \ {0}
  /\ Absent \notin Prices

VARIABLES hour,     \* utcnow(), in whole hours
          close,    \* prices: hour -> its last good tick, or Absent
          stored,   \* the trend_alignment_states row
          events,   \* trend_alignment_events
          alerted,  \* alert_events written for them, in order
          record,   \* trend_alignment_performance: window -> row
          pass,     \* each pass: its step and what it holds
          passes,
          late      \* closes changed after their hour was over

trendVars == <<hour, close, stored, events, alerted, record, pass, passes, late>>

Full == {"full_bullish", "full_bearish"}

-----------------------------------------------------------------------------
(* The engine                                                                *)

\* Starts of the candles of a timeframe: a bucket nobody quoted has none.
Candles(tf, c) ==
  {h - (h % Width[tf]) : h \in {x \in DOMAIN c : c[x] # Absent}}

\* What the candle that starts at b closed on: its last hour.
CloseOf(tf, c, b) ==
  c[Max({h \in DOMAIN c : b <= h /\ h < b + Width[tf] /\ c[h] # Absent})]

Completed_Forming(tf, c, now) == {b \in Candles(tf, c) : b <= now}

Completed(tf, c, now) == {b \in Candles(tf, c) : b + Width[tf] <= now}

\* evaluate_timeframe: the verdict on the closes of the completed candles and
\* the close time of the newest, and no verdict on a stale or a short series.
Leg(tf, c, now) ==
  LET done == Completed(tf, c, now)
      last == Max(done)
      ends == last + Width[tf]
  IN  IF done = {} THEN [trend |-> "unavailable", ends |-> Absent]
      ELSE [ends |-> ends,
            trend |-> IF \/ now - ends > StaleBuckets * Width[tf]
                         \/ Cardinality(done) < Slow
                      THEN "unavailable" ELSE Verdict([b \in done |-> CloseOf(tf, c, b)])]

\* The daily leg reads the daily candles, the other two the hourly ones.
Series(loaded, tf) == IF tf = "1d" THEN loaded.daily ELSE loaded.hourly

Aligned(loaded, now) ==
  LET trend(tf) == Leg(tf, Series(loaded, tf), now).trend
  IN  CASE \A tf \in Timeframe : trend(tf) = "bullish" -> "full_bullish"
        [] \A tf \in Timeframe : trend(tf) = "bearish" -> "full_bearish"
        [] OTHER -> "not_aligned"

CandleIdentity(loaded, now) == [tf \in Timeframe |-> Leg(tf, Series(loaded, tf), now).ends]

EvaluateAlignment(loaded, now) ==
  [alignment |-> Aligned(loaded, now), identity |-> CandleIdentity(loaded, now), at |-> now]

-----------------------------------------------------------------------------
(* The candles a pass loads                                                  *)

Day == Width["1d"]
DayOf(h) == h - (h % Day)

\* _load_candles: the newest `limit` buckets of what was quoted in the span
\* scanned.
LoadCandles(tf, c, limit, now) ==
  LET seen == [h \in DOMAIN c |->
                 IF now - ScanSlack * limit * Width[tf] <= h /\ h <= now THEN c[h] ELSE Absent]
      buckets == Candles(tf, seen)
      newest == {b \in buckets : Cardinality({x \in buckets : x > b}) < limit}
  IN  [h \in DOMAIN c |-> IF h - (h % Width[tf]) \in newest THEN seen[h] ELSE Absent]

\* _bucket_limits, and _backtest_bucket_limits with the days of the longest
\* window more.
Load(c, days, now) ==
  LET warm == Warm + BucketSlack
  IN  [hourly |-> LoadCandles("1h", c, warm * Width["4h"] + days * Day, now),
       daily |-> LoadCandles("1d", c, warm + days, now)]

-----------------------------------------------------------------------------
(* The replay                                                                *)

\* Start of the newest unbroken run of intraday days, today left out.
IntradaySince(c, now) ==
  LET buckets(d) == Cardinality({h \in Completed("1h", c, now) : DayOf(h) = d})
      days == {DayOf(h) : h \in Completed("1h", c, now)} \ {d \in 0 .. now : d >= DayOf(now)}
      run == {d \in days : \A x \in days : x >= d => buckets(x) >= MinBuckets}
  IN  IF run = {} THEN Absent ELSE Min(run)

From(c, since) == [h \in DOMAIN c |-> IF h >= since THEN c[h] ELSE Absent]

\* The full alignment is replayed only where all three legs are warmed up at
\* the window's first bar.
ChooseBasis(loaded, start, since) ==
  IF /\ since # Absent
     /\ since <= start
     /\ \A tf \in {"1h", "4h"} :
          Cardinality(Completed(tf, From(loaded.hourly, since), start)) >= Warm
     /\ Cardinality(Completed("1d", loaded.daily, start)) >= Warm
  THEN "full_mtf" ELSE "daily_only"

State(verdict) ==
  CASE verdict \in {"full_bullish", "bullish"} -> "bullish"
    [] verdict \in {"full_bearish", "bearish"} -> "bearish"
    [] OTHER -> "unaligned"

\* Each bar is decided as of its own close.
BarState(loaded, basis, at) ==
  IF basis = "daily_only" THEN State(Leg("1d", loaded.daily, at).trend)
  ELSE State(Aligned(loaded, at))

\* The bars of a window, by the instant each closed, on the intraday basis from
\* the intraday candles only.  A bar with nothing quoted exactly one day later
\* has no forward return.
Replay(loaded, days, now) ==
  LET since == IntradaySince(loaded.hourly, now)
      start == now - days * Day
      basis == ChooseBasis(loaded, start, since)
      tf == IF basis = "full_mtf" THEN "1h" ELSE "1d"
      used == IF basis = "full_mtf" THEN [loaded EXCEPT !.hourly = From(@, since)] ELSE loaded
      series == {b + Width[tf] : b \in Completed(tf, Series(used, tf), now)}
  IN  [basis |-> basis,
       bars |-> [at \in {x \in series : x > start} |->
                   [state |-> BarState(used, basis, at), measured |-> at + Day \in series]]]

\* The bars that begin a run of bars in one state.
Episodes(bars, v) ==
  LET earlier(at) == {x \in DOMAIN bars : x < at}
  IN  Cardinality({at \in DOMAIN bars :
                     /\ bars[at].state = v
                     /\ earlier(at) = {} \/ bars[Max(earlier(at))].state # v})

\* measure_window, one row: counts over the measured bars, episodes over all of
\* them.
MeasureWindow(loaded, days, now) ==
  LET run == Replay(loaded, days, now)
      bars(v) == Cardinality({at \in DOMAIN run.bars :
                                run.bars[at].measured /\ run.bars[at].state = v})
  IN  [basis |-> run.basis, at |-> now, replayed |-> run.bars,
       bullish |-> bars("bullish"), bearish |-> bars("bearish"),
       unaligned |-> bars("unaligned"),
       rises |-> Episodes(run.bars, "bullish"), falls |-> Episodes(run.bars, "bearish")]

-----------------------------------------------------------------------------
(* A pass                                                                    *)

Idle == [pc |-> "idle", result |-> Absent, forming |-> FALSE, was |-> Absent, rows |-> Absent]

TrendInit ==
  /\ hour = FirstHour
  /\ \E past \in Histories :
       close = [h \in 0 .. LastHour |-> IF h < FirstHour THEN past[h] ELSE Absent]
  /\ stored = Absent
  /\ events = {} /\ alerted = <<>>
  /\ record = [d \in WindowDays |-> Absent]
  /\ pass = [p \in Pass |-> Idle]
  /\ passes = 0 /\ late = 0

\* The candles are read in a transaction of their own, closed at `now`: of the
\* hour that is not over, the ticks up to that instant.
EvaluateCandles(p) ==
  /\ pass[p].pc = "idle"
  /\ passes < MaxPasses
  /\ passes' = passes + 1
  /\ pass' = [pass EXCEPT ![p] = [Idle EXCEPT !.pc = "evaluated",
                                              !.result = EvaluateAlignment(Load(close, 0, hour), hour),
                                              !.forming = close[hour] # Absent]]
  /\ UNCHANGED <<hour, close, stored, events, alerted, record, late>>

\* The stored row is read without a lock.
ReadStored(p) ==
  /\ pass[p].pc = "evaluated"
  /\ pass' = [pass EXCEPT ![p].pc = "decided", ![p].was = stored]
  /\ UNCHANGED <<hour, close, stored, events, alerted, record, passes, late>>

Alignment(row) == IF row = Absent THEN Absent ELSE row.alignment

Event(result) == [alignment |-> result.alignment, identity |-> result.identity]

\* An entry: a full alignment other than the stored one.
Enters(p) ==
  /\ pass[p].result.alignment \in Full
  /\ Alignment(pass[p].was) # pass[p].result.alignment

Inserts_Unasked(p) == Enters(p)

\* INSERT ... ON CONFLICT DO NOTHING on (alignment, candle triple).
Inserts(p) == Enters(p) /\ Event(pass[p].result) \notin events

\* last_bullish_alert_at and last_bearish_alert_at: carried over but for a
\* notification of this pass.
Stamp(v, old, result, notified) ==
  IF notified /\ result.alignment = v THEN result.at ELSE old

NoRow == [alignment |-> Absent, previous |-> Absent, version |-> 0,
          bullish |-> Absent, bearish |-> Absent]

\* The row as it is after this result, built from the row that was read.
UpdatedState(was, result, notified) ==
  LET old == IF was = Absent THEN NoRow ELSE was
      changed == old.alignment # result.alignment
  IN  [alignment |-> result.alignment,
       previous |-> IF changed THEN old.alignment ELSE old.previous,
       version |-> old.version + (IF changed THEN 1 ELSE 0),
       bullish |-> Stamp("full_bullish", old.bullish, result, notified),
       bearish |-> Stamp("full_bearish", old.bearish, result, notified),
       at |-> result.at]

\* The rest of the transaction.  Subscribers may be none, and writing to them
\* may fail inside its savepoint: the event and the row are written anyway.
CommitState(p) ==
  \E notified \in BOOLEAN :
    /\ pass[p].pc = "decided"
    /\ notified => Inserts(p)
    /\ events' = IF Inserts(p) THEN events \cup {Event(pass[p].result)} ELSE events
    /\ alerted' = IF notified THEN Append(alerted, pass[p].result) ELSE alerted
    /\ stored' = UpdatedState(pass[p].was, pass[p].result, notified)
    /\ pass' = [pass EXCEPT ![p].pc = "committed", ![p].was = Absent]
    /\ UNCHANGED <<hour, close, record, passes, late>>

\* The closes as a later read as of the instant of the pass finds them: its own
\* hour has none when its first tick came after that instant.
AsOf(p, c) ==
  [h \in DOMAIN c |-> IF h = pass[p].result.at /\ ~pass[p].forming THEN Absent ELSE c[h]]

Measure(p, c) ==
  LET at == pass[p].result.at
  IN  [d \in WindowDays |-> MeasureWindow(Load(AsOf(p, c), Max(WindowDays), at), d, at)]

\* The track record is measured on a fresh read as of the same instant ...
LoadHistory(p) ==
  /\ pass[p].pc = "committed"
  /\ pass' = [pass EXCEPT ![p].pc = "measured", ![p].rows = Measure(p, close)]
  /\ UNCHANGED <<hour, close, stored, events, alerted, record, passes, late>>

\* ... and replaces every window's row.
StorePerformance(p) ==
  /\ pass[p].pc = "measured"
  /\ record' = pass[p].rows
  /\ pass' = [pass EXCEPT ![p] = Idle]
  /\ UNCHANGED <<hour, close, stored, events, alerted, passes, late>>

\* An error before the commit loses this evaluation, one after it only the
\* track record; so does a kill.
PassFails(p) ==
  /\ pass[p].pc # "idle"
  /\ pass' = [pass EXCEPT ![p] = Idle]
  /\ UNCHANGED <<hour, close, stored, events, alerted, record, passes, late>>

RunTrend(p) ==
  \/ EvaluateCandles(p) \/ ReadStored(p) \/ CommitState(p)
  \/ LoadHistory(p) \/ StorePerformance(p) \/ PassFails(p)

-----------------------------------------------------------------------------
(* Prices and time                                                           *)

\* A good tick of the current hour, which is then that hour's close.
Quote(v) ==
  /\ hour < LastHour
  /\ close[hour] # v
  /\ close' = [close EXCEPT ![hour] = v]
  /\ UNCHANGED <<hour, stored, events, alerted, record, pass, passes, late>>

\* A tick that arrives after its hour, or whose quality is changed later,
\* changes a closed candle.
QuoteLate(h, v) ==
  /\ late < MaxLate /\ h < hour /\ h >= FirstHour
  /\ close[h] # v
  /\ close' = [close EXCEPT ![h] = v]
  /\ late' = late + 1
  /\ UNCHANGED <<hour, stored, events, alerted, record, pass, passes>>

NextHour ==
  /\ hour < LastHour
  /\ hour' = hour + 1
  /\ UNCHANGED <<close, stored, events, alerted, record, pass, passes, late>>

TrendNext ==
  \/ \E p \in Pass : RunTrend(p)
  \/ \E v \in Prices : Quote(v)
  \/ \E h \in 0 .. LastHour, v \in Prices \cup {Absent} : QuoteLate(h, v)
  \/ NextHour

TrendSpec == TrendInit /\ [][TrendNext]_trendVars

-----------------------------------------------------------------------------
(* Properties                                                                *)

\* The three closed candles an entry rests on notify nobody twice, however
\* many evaluators run at once and whatever they read (jobs/trend_alignment.py
\* _insert_event, "one event per (symbol, direction, closed-candle triple)").
AlertedOnce ==
  \A i, j \in DOMAIN alerted :
    Event(alerted[i]) = Event(alerted[j]) => i = j

\* The closes with every quote from an hour on replaced by another price.
Revised(c, at, v) == [h \in DOMAIN c |-> IF h >= at /\ c[h] # Absent THEN v ELSE c[h]]

\* The replay says of a past bar what it would say whatever was quoted after the
\* bar closed, in the candles still open at that instant too: no bar of a track
\* record is decided with knowledge it could not have had
\* (models/trend_backtest.py, "Why the replay cannot look ahead").
ReplaySeesNoFuture ==
  [][\A p \in Pass : pass[p].pc = "committed" /\ pass'[p].pc = "measured" =>
       \A d \in WindowDays, v \in Prices :
         \A at \in DOMAIN pass'[p].rows[d].replayed :
           pass'[p].rows[d].replayed[at].state =
             Measure(p, Revised(close, at, v))[d].replayed[at].state]_trendVars

=============================================================================
