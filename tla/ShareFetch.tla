----------------------------- MODULE ShareFetch -----------------------------
(***************************************************************************)
(* The whole-market fetch: scripts/tsetmc_fetch.py on a machine that can   *)
(* reach TSETMC, and the handlers of /internal/bourse/shares/ingest it     *)
(* posts to (bourse/shares.py, bourse/ingest.py).  Money flows are trimmed *)
(* before they are shipped and session files are asked for once, so what a *)
(* run leaves out must be what some later run asks for.                    *)
(*                                                                         *)
(* A day is three ticks: trading, closed, and settled (after 15:00 Tehran).*)
(* A call whose answer is lost goes on in the service while the run        *)
(* carries on.                                                             *)
(***************************************************************************)
EXTENDS Restatement

CONSTANTS
  Share,
  Seeded,      \* the shares migration 0030 put into market_shares
  LastDay,     \* bound on the calendar: days 1 to LastDay
  StartDay,    \* the day the behaviour begins, in trading hours
  Histories,   \* the days a share may have traded
  Misstated,   \* the rows, <<share, day>>, a day file may state as no row can be
  Floors,      \* what --flows-since may be; the least is the server's floor
  FlowOverlap, \* FLOW_OVERLAP_ROWS
  DayOverlap,  \* DAY_OVERLAP
  MinShares,   \* SESSION_MIN_SHARES
  GuardMin,    \* DELIST_GUARD_MIN
  TradedSessions, \* TRADED_LISTING_SESSIONS
  RunTicks,    \* ticks between a run's downloads and its last call
  Runner,      \* runs that may be under way together
  MaxRuns      \* bound on the runs ever started

ASSUME ShareAssumption ==
  /\ {LastDay, StartDay, FlowOverlap, MinShares, GuardMin, TradedSessions, MaxRuns}
       \subseteq Nat \ {0}
  /\ {DayOverlap, RunTicks} \subseteq Nat
  /\ Histories \subseteq SUBSET (1..LastDay)
  /\ Floors \subseteq 1..LastDay /\ Floors # {}
  /\ Misstated \subseteq Share \X (1..LastDay)
  /\ Seeded \subseteq Share /\ StartDay <= LastDay

VARIABLES
  time,     \* ticks; day d runs from 3d to 3d + 2
  trades,   \* the days each share traded
  lacks,    \* the days one of TSETMC's copies lacks
  roster,   \* equity_instruments
  firstSeen,     \* market_shares.first_seen_at, 0 for a share that is not in it
  onlist,   \* market_shares.listed
  flows,    \* equity_client_flows
  sess,     \* market_share_sessions
  counted,  \* the coverage columns of the sessions, as the rows they count
  files,    \* market_session_files: ingested_at, and rows_shares
  skipped,  \* the sessions whose file stated a row of the share that cannot be stored
  stamp,    \* the newest call's started_at
  started,  \* runs ever started
  crossed,  \* a sessions call read the universe while a universe call was open
  rpc, known, box, clean,  \* each run: the state it read, its files, no failure
  ucall, scall             \* each run's calls in the service

shareWorld == <<time, trades, lacks>>
shareStore == <<roster, firstSeen, onlist, flows, sess, counted, files, skipped>>
runVars == <<rpc, known, box, clean>>
shareVars == <<shareWorld, shareStore, stamp, started, crossed, runVars, ucall, scall>>

TradeDay == 1..LastDay
NoFile == [at |-> 0, rows |-> 0]
NoKnown == [floor |-> 0, flows |-> [s \in Share |-> {}], files |-> {}, recheck |-> {},
            roster |-> {}, listed |-> {}]
NoBox == [at |-> 0, watch |-> {}, flows |-> [s \in Share |-> {}], days |-> {},
          due |-> [s \in Share |-> {}]]
NoUniverse == [at |-> 0, watch |-> {}]
NoSessions == [at |-> 0, time |-> 0, universe |-> {}, todo |-> {}, affected |-> {}]

ShareTypeOK ==
  /\ time \in (3 * StartDay)..(3 * LastDay + 2)
  /\ roster \subseteq Share /\ onlist \subseteq Share
  /\ \A s \in Share : flows[s] \cup sess[s] \cup counted[s] \cup skipped[s] \subseteq TradeDay
  /\ \A s \in Share : flows[s] # {} \/ sess[s] # {} => firstSeen[s] # 0
  /\ \A d \in TradeDay : files[d].at \in 0..stamp
  /\ rpc \in [Runner -> {"idle", "stated", "fetched", "universe"}]

ShareInit ==
  /\ time = 3 * StartDay
  /\ trades \in [Share -> Histories]
  /\ \A s \in Seeded : trades[s] = TradeDay
  /\ lacks = {StartDay - 1}
  /\ roster = {}
  /\ firstSeen = [s \in Share |-> IF s \in Seeded THEN 1 ELSE 0]
  /\ onlist = {}
  /\ flows = [s \in Share |-> {}]
  /\ sess = [s \in Share |-> {}]
  /\ counted = [s \in Share |-> {}]
  /\ files = [d \in TradeDay |-> NoFile]
  /\ skipped = [s \in Share |-> {}]
  /\ stamp = 1 /\ started = 0 /\ crossed = FALSE
  /\ rpc = [r \in Runner |-> "idle"]
  /\ known = [r \in Runner |-> NoKnown]
  /\ box = [r \in Runner |-> NoBox]
  /\ clean = [r \in Runner |-> TRUE]
  /\ ucall = [r \in Runner |-> NoUniverse]
  /\ scall = [r \in Runner |-> NoSessions]

\* settled_cutoff: today's session counts from 15:00 Tehran on.
IsSettled(d, t) == d < t \div 3 \/ (d = t \div 3 /\ t % 3 = 2)

Ingested == {d \in TradeDay : files[d].at # 0}

-----------------------------------------------------------------------------
(* The run                                                                  *)

\* _incomplete_session_dates: some share first seen after the file was
\* ingested has a flow row that day and no session row.
Incomplete ==
  {d \in Ingested : \E s \in Share : firstSeen[s] > files[d].at /\ d \in flows[s] \ sess[s]}

\* share_state, read over ssh; --flows-since may move the floor.
ReadState(r) ==
  /\ rpc[r] = "idle"
  /\ started < MaxRuns
  /\ started' = started + 1
  /\ \E f \in Floors :
       known' = [known EXCEPT ![r] =
         [floor |-> f, flows |-> flows, files |-> Ingested, recheck |-> Incomplete,
          roster |-> roster, listed |-> onlist]]
  /\ rpc' = [rpc EXCEPT ![r] = "stated"]
  /\ clean' = [clean EXCEPT ![r] = TRUE]
  /\ UNCHANGED <<shareWorld, shareStore, stamp, crossed, box, ucall, scall>>

\* A share's rows as one copy states them: every trading day so far.
Rows(s, missing) == {d \in trades[s] : d <= time \div 3} \ missing

\* A roster share ships whole, another from the floor on.
FloorOf(r, s) == IF s \in known[r].roster THEN 1 ELSE known[r].floor

\* Mutant: what is older than the oldest stored row is never shipped.
Trim_NewerOnly(r, s, rows) ==
  LET held == known[r].flows[s]
      newer == {d \in rows : held = {} \/ d > Max(held)}
  IN {d \in newer : d >= FloorOf(r, s)}

\* trim_client_types: what is newer or older than the stored rows, and an
\* overlap of the newest of them; nothing when there is nothing new.
Trim(r, s, rows) ==
  LET held == known[r].flows[s]
      newer == {d \in rows : held = {} \/ d > Max(held)}
      older == {d \in rows : held # {} /\ d < Min(held) /\ d >= FloorOf(r, s)}
      overlap == IF held = {} THEN {}
                 ELSE NewestOf({d \in rows : d <= Max(held)}, FlowOverlap)
  IN IF newer \cup older = {} THEN {}
     ELSE {d \in newer \cup older \cup overlap : d >= FloorOf(r, s)}

\* The shares asked for: the watch's, or without one those the server lists;
\* the roster's; and those that traded lately.
Asked(r, watch) ==
  (IF watch # {} THEN watch ELSE known[r].listed)
    \cup known[r].roster
    \cup {s \in Share : known[r].flows[s] # {}}

\* market_sessions: the settled days from the floor on that enough of the
\* downloaded shares traded on.
MarketSessions(r, got, missing) ==
  {d \in TradeDay :
     /\ known[r].floor <= d /\ IsSettled(d, time)
     /\ Cardinality({s \in got : d \in Rows(s, missing)}) >= MinShares}

\* day_files_to_fetch: those the server lacks, those it asks for again, and an
\* overlap of the newest it has.
DayFilesToFetch(r, sessions) ==
  (sessions \ known[r].files) \cup known[r].recheck
    \cup NewestOf(known[r].files, DayOverlap)

\* download_share_flows, of the shares asked for.
DownloadShareFlows(r, got, missing) ==
  [s \in Share |-> IF s \in got THEN Trim(r, s, Rows(s, missing)) ELSE {}]

\* The downloads.  The watch may be partial or fail, and the histories come
\* from either copy.  A history or a day file that fails is one that its
\* ingest, below, fails on.
Fetch(r) ==
  /\ rpc[r] = "stated"
  /\ \E watch \in SUBSET Share, missing \in {{}, lacks} :
       LET got == Asked(r, watch)
       IN /\ box' = [box EXCEPT ![r] =
               [at |-> time, watch |-> watch,
                flows |-> DownloadShareFlows(r, got, missing),
                days |-> DayFilesToFetch(r, MarketSessions(r, got, missing)),
                due |-> [s \in Share |->
                           IF s \in got
                           THEN {d \in Rows(s, missing) : IsSettled(d, time)} ELSE {}]]]
          /\ clean' = [clean EXCEPT ![r] =
               watch # {} /\ \A s \in got : Rows(s, missing) = {} => known[r].flows[s] = {}]
  /\ rpc' = [rpc EXCEPT ![r] = "fetched"]
  /\ UNCHANGED <<shareWorld, shareStore, stamp, started, crossed, known, ucall, scall>>

\* The universe call, first: it stamps what it will insert.
PostUniverse(r) ==
  /\ rpc[r] = "fetched" /\ ucall[r] = NoUniverse
  /\ rpc' = [rpc EXCEPT ![r] = "universe"]
  /\ IF box[r].watch = {}
     THEN UNCHANGED <<stamp, ucall>>
     ELSE /\ stamp' = stamp + 1
          /\ ucall' = [ucall EXCEPT ![r] = [at |-> stamp + 1, watch |-> box[r].watch]]
  /\ UNCHANGED <<shareWorld, shareStore, started, crossed, known, box, clean, scall>>

\* The next share's file of the flow chunks, a transaction of its own.  It is
\* refused for a share the universe does not carry, and what is not settled
\* when its call starts is left out; it may also fail.
IngestFlows(r) ==
  /\ rpc[r] = "universe"
  /\ \E s \in Share :
       /\ box[r].flows[s] # {}
       /\ \/ /\ firstSeen[s] # 0
             /\ flows' = [flows EXCEPT ![s] =
                            @ \cup {d \in box[r].flows[s] : IsSettled(d, time)}]
             /\ clean' = [clean EXCEPT ![r] = @ /\ ucall[r] = NoUniverse]
          \/ /\ clean' = [clean EXCEPT ![r] = FALSE]
             /\ UNCHANGED flows
       /\ box' = [box EXCEPT ![r].flows[s] = {}]
  /\ UNCHANGED <<shareWorld, roster, firstSeen, onlist, sess, counted, files, skipped, stamp,
                 started, crossed, rpc, known, ucall, scall>>

\* Mutant: the shares are the ones the run began with.
Universe_Stale(r) == {s \in Share : known[r].flows[s] # {} \/ s \in Seeded}

\* The shares market_shares carries when the sessions call starts.
Universe(r) == {s \in Share : firstSeen[s] # 0}

\* The sessions call: its stamp is taken, then the universe is read.
PostSessions(r) ==
  /\ rpc[r] = "universe" /\ scall[r] = NoSessions
  /\ \A s \in Share : box[r].flows[s] = {}
  /\ rpc' = [rpc EXCEPT ![r] = "idle"]
  /\ stamp' = stamp + 1
  /\ scall' = [scall EXCEPT ![r] =
       [at |-> stamp + 1, time |-> time, universe |-> Universe(r),
        todo |-> box[r].days, affected |-> {}]]
  /\ crossed' = (crossed \/ \E q \in Runner : ucall[q] # NoUniverse)
  /\ known' = [known EXCEPT ![r] = NoKnown]
  /\ box' = [box EXCEPT ![r] = NoBox]
  /\ UNCHANGED <<shareWorld, shareStore, started, clean, ucall>>

-----------------------------------------------------------------------------
(* The service                                                              *)

\* _recently_traded
RecentlyTraded == {s \in Share : sess[s] \cap NewestOf(Ingested, TradedSessions) # {}}

\* ingest_universe commits: what the watch lists is inserted or listed again,
\* what it does not list is delisted unless it traded lately, and a watch that
\* would delist most of the market is refused.  The call may also fail.
CommitUniverse(r) ==
  /\ ucall[r] # NoUniverse
  /\ ucall' = [ucall EXCEPT ![r] = NoUniverse]
  /\ LET watch == ucall[r].watch
         gone == (onlist \ watch) \ RecentlyTraded
         guard == Cardinality(gone) >= GuardMin
                    /\ 2 * Cardinality(gone) > Cardinality(onlist)
     IN \/ /\ ~guard
           /\ firstSeen' = [s \in Share |->
                IF s \in watch /\ firstSeen[s] = 0 THEN ucall[r].at ELSE firstSeen[s]]
           /\ onlist' = (onlist \ gone) \cup watch
                          \cup {s \in RecentlyTraded : firstSeen[s] # 0}
           /\ UNCHANGED clean
        \/ /\ UNCHANGED <<firstSeen, onlist>>
           /\ clean' = [clean EXCEPT ![r] = FALSE]
  /\ UNCHANGED <<shareWorld, roster, flows, sess, counted, files, skipped, stamp, started,
                 crossed, rpc, known, box, scall>>

\* ingest_day_file, for the next file of the chunk: it lists every share that
\* traded, and those of the call's universe are stored, except the rows that
\* parse_session_row refuses (a first session states no reference price).  The
\* record's stamp moves when rows went in, when the copy counts other rows or
\* other shares than the record, or when some share joined since.
IngestDay(r) ==
  /\ scall[r].todo # {}
  /\ LET d == Min(scall[r].todo)
         rows == {s \in scall[r].universe : d \in trades[s]}
     IN \/ \E invalid \in SUBSET {s \in rows : <<s, d>> \in Misstated}, recounted \in BOOLEAN :
             LET read == rows \ invalid
                 new == {s \in read : d \notin sess[s]}
                 moves == \/ files[d].at = 0 \/ recounted
                          \/ new # {} \/ files[d].rows # Cardinality(read)
                          \/ \E s \in Share : firstSeen[s] > files[d].at
             IN /\ IsSettled(d, scall[r].time)
                /\ sess' = [s \in Share |-> IF s \in new THEN sess[s] \cup {d} ELSE sess[s]]
                /\ skipped' = [s \in Share |->
                     IF s \in invalid THEN skipped[s] \cup {d} ELSE skipped[s]]
                /\ files' = IF moves
                            THEN [files EXCEPT ![d] = [at |-> scall[r].at,
                                                       rows |-> Cardinality(read)]]
                            ELSE files
                /\ scall' = [scall EXCEPT ![r].todo = @ \ {d}, ![r].affected = @ \cup new]
        \/ /\ scall' = [scall EXCEPT ![r].todo = @ \ {d}]  \* the item fails
           /\ UNCHANGED <<sess, files, skipped>>
  /\ UNCHANGED <<shareWorld, roster, firstSeen, onlist, flows, counted, stamp, started,
                 crossed, runVars, ucall>>

\* refresh_session_coverage, from the table.
EndSessions(r) ==
  /\ scall[r] # NoSessions /\ scall[r].todo = {}
  /\ counted' = [s \in Share |-> IF s \in scall[r].affected THEN sess[s] ELSE counted[s]]
  /\ scall' = [scall EXCEPT ![r] = NoSessions]
  /\ UNCHANGED <<shareWorld, roster, firstSeen, onlist, flows, sess, files, skipped, stamp,
                 started, crossed, runVars, ucall>>

-----------------------------------------------------------------------------
(* The world                                                                *)

\* A seeded share joins the roster, and is owed its whole history.
JoinRoster(s) ==
  /\ s \in Seeded \ roster
  /\ roster' = roster \cup {s}
  /\ UNCHANGED <<shareWorld, firstSeen, onlist, flows, sess, counted, files, skipped, stamp,
                 started, crossed, runVars, ucall, scall>>

\* Time passes; a run's calls follow its downloads within RunTicks.
ShareTick ==
  /\ time < 3 * LastDay + 2
  /\ \A r \in Runner : rpc[r] \in {"fetched", "universe"} => time < box[r].at + RunTicks
  /\ time' = time + 1
  /\ UNCHANGED <<trades, lacks, shareStore, stamp, started, crossed, runVars,
                 ucall, scall>>

ShareNext ==
  \/ ShareTick
  \/ \E s \in Share : JoinRoster(s)
  \/ \E r \in Runner :
       \/ ReadState(r) \/ Fetch(r) \/ PostUniverse(r) \/ IngestFlows(r) \/ PostSessions(r)
       \/ CommitUniverse(r) \/ IngestDay(r) \/ EndSessions(r)

ShareSpec == ShareInit /\ [][ShareNext]_shareVars

-----------------------------------------------------------------------------
(* Properties.                                                              *)

\* A run none of whose items failed leaves nothing it downloaded missing, in
\* whatever state earlier, partial or overlapping runs left the store: what the
\* trimming leaves out is stored already.  A session one copy lacks may stay
\* missing, since it is not asked for again once newer ones are stored.  It
\* holds while every run is given the same floor.
CleanRunStoresAll ==
  [][\A r \in Runner : rpc[r] = "universe" /\ rpc'[r] = "idle" /\ clean[r] =>
       \A s \in Share : \A d \in box[r].due[s] :
         d >= FloorOf(r, s) => d \in flows[s] \cup lacks]_shareVars

\* A share with a flow row of an ingested session and no row of the session
\* has its file asked for again, whichever call failed, whenever the share
\* joined and whatever a file recounts: no row is owed for good.  Except where
\* the file stated a row that cannot be stored, which is skipped while the file
\* counts as ingested, and when a sessions call began while a universe call was
\* still open.
OwedIsAsked ==
  crossed \/ \A s \in Share : \A d \in Ingested :
    firstSeen[s] # 0 /\ d \in flows[s] \ (sess[s] \cup skipped[s]) => d \in Incomplete

=============================================================================
