--------------------------- MODULE ForecastProofs ---------------------------
(***************************************************************************)
(* The model and forecast lifecycle and the readings of the news, for any  *)
(* number of trainings, horizons, forecasts, evaluations, overlapping      *)
(* passes, articles and events.                                            *)
(***************************************************************************)
EXTENDS ModelRegistry, Maturity, TrendAlignment, Selection, Signals,
        Stories, Pressure, FiniteSetTheorems, NaturalSets, TLAPS

-----------------------------------------------------------------------------
(* Versions and their artifacts                                            *)

\* A training that has not written its artifact has none, one that is storing
\* its row has written it since the last tick, and one that has not started
\* is new.
ArtifactOfStage ==
  \A i \in Training :
    /\ i > started => tpc[i] = "new"
    /\ tpc[i] \in {"new", "evaluating"} => ~file[i]
    /\ tpc[i] \in Storing => file[i] /\ fileAge[i] = 0

\* The cleanup's candidates belong to trainings past their activation, and
\* those it will not keep are not active.
CandidatesAreSettled ==
  \A i \in old :
    /\ tpc[i] \in {"closing", "done"}
    /\ i \notin keep => row[i] # "active"

RegistryInv ==
  RegistryTypeOK /\ ArtifactOfStage /\ CandidatesAreSettled /\ ActiveHasArtifact

\* The first state.
LEMMA RegistryInitHolds == RegistryInit => RegistryInv
BY RegistryAssumption
DEF RegistryInit, RegistryInv, RegistryTypeOK, ArtifactOfStage, CandidatesAreSettled,
    ActiveHasArtifact, Active, Training, Storing, AtWork

\* A step of a training.
LEMMA TrainKeeps ==
  ASSUME RegistryInv, NEW i \in Training, Train(i)
  PROVE  RegistryInv'
<1> USE RegistryAssumption
    DEF RegistryInv, RegistryTypeOK, Training, AtWork, Storing, cleanVars
<1>1. CASE StartTraining(i)
  <2>5. tpc' \in [1..MaxTrainings -> {"new", "done"} \cup AtWork] /\ started' \in 0..MaxTrainings
    BY <1>1 DEF StartTraining
  <2>6. running' \subseteq Training
    BY <1>1 DEF StartTraining
  <2>1. RegistryTypeOK'
    BY <1>1, <2>5, <2>6 DEF StartTraining
  <2>2. ArtifactOfStage'
    BY <1>1 DEF StartTraining, ArtifactOfStage
  <2>3. CandidatesAreSettled'
    BY <1>1 DEF StartTraining, CandidatesAreSettled, ArtifactOfStage
  <2>4. ActiveHasArtifact'
    BY <1>1 DEF StartTraining, ActiveHasArtifact, Active, CandidatesAreSettled
  <2> QED
    BY <2>1, <2>2, <2>3, <2>4
<1>2. CASE NothingToTrain(i)
  BY <1>2 DEF NothingToTrain, ArtifactOfStage, CandidatesAreSettled, ActiveHasArtifact, Active
<1>3. CASE DumpArtifact(i)
  <2>5. tpc' \in [1..MaxTrainings -> {"new", "done"} \cup AtWork]
    BY <1>3 DEF DumpArtifact
  <2>6. file' \in [1..MaxTrainings -> BOOLEAN]
    BY <1>3 DEF DumpArtifact
  <2>7. fileAge' \in [1..MaxTrainings -> 0..(ArtifactAge + 1)]
    BY <1>3 DEF DumpArtifact
  <2>1. RegistryTypeOK'
    BY <1>3, <2>5, <2>6, <2>7 DEF DumpArtifact
  <2>2. ArtifactOfStage'
    BY <1>3 DEF DumpArtifact, ArtifactOfStage
  <2>3. CandidatesAreSettled'
    BY <1>3 DEF DumpArtifact, CandidatesAreSettled, ArtifactOfStage
  <2>4. ActiveHasArtifact'
    BY <1>3 DEF DumpArtifact, ActiveHasArtifact, Active, CandidatesAreSettled
  <2> QED
    BY <2>1, <2>2, <2>3, <2>4
<1>4. CASE Deactivate(i)
  BY <1>4 DEF Deactivate, Rows, ArtifactOfStage, CandidatesAreSettled, ActiveHasArtifact, Active
<1>5. CASE Deactivated(i)
  BY <1>5 DEF Deactivated, ArtifactOfStage, CandidatesAreSettled, ActiveHasArtifact, Active
<1>6. CASE Activate(i)
  <2>5. tpc' \in [1..MaxTrainings -> {"new", "done"} \cup AtWork]
    BY <1>6 DEF Activate
  <2>6. \A j \in 1..MaxTrainings :
          /\ row'[j] = IF j = i THEN "active"
                       ELSE IF j \in seen[i] /\ row[j] = "active" THEN "inactive" ELSE row[j]
          /\ j # i => tpc'[j] = tpc[j]
    BY <1>6 DEF Activate, Committed
  <2>7. /\ tpc[i] = "updated" /\ tpc'[i] = "closing"
        /\ row' \in [1..MaxTrainings -> {"none", "active", "inactive"}]
        /\ UNCHANGED <<started, seen, file, running, age, fileAge, cleanVars>>
    BY <1>6 DEF Activate, Committed
  <2>1. RegistryTypeOK'
    BY <2>5, <2>7
  <2>2. ArtifactOfStage'
    BY <2>6, <2>7 DEF ArtifactOfStage
  <2>3. CandidatesAreSettled'
    BY <2>6, <2>7 DEF CandidatesAreSettled, ArtifactOfStage
  <2>4. ActiveHasArtifact'
    <3>1. file[i]
      BY <2>7 DEF ArtifactOfStage
    <3>2. \A j \in 1..MaxTrainings : row'[j] = "active" => j = i \/ row[j] = "active"
      BY <2>6
    <3> QED
      BY <2>7, <3>1, <3>2 DEF ActiveHasArtifact, Active
  <2> QED
    BY <2>1, <2>2, <2>3, <2>4
<1>7. CASE TrainingFails(i)
  BY <1>7 DEF TrainingFails, ArtifactOfStage, CandidatesAreSettled, ActiveHasArtifact, Active
<1>8. CASE CloseRun(i)
  BY <1>8 DEF CloseRun, ArtifactOfStage, CandidatesAreSettled, ActiveHasArtifact, Active
<1> QED
  BY <1>1, <1>2, <1>3, <1>4, <1>5, <1>6, <1>7, <1>8 DEF Train

\* A step of the cleanup.
LEMMA CleanKeeps ==
  ASSUME RegistryInv, Clean
  PROVE  RegistryInv'
<1> USE RegistryAssumption
    DEF RegistryInv, RegistryTypeOK, Training, AtWork, Storing, trainVars
<1>1. CASE StartCleanup
  <2>1. RegistryTypeOK'
    BY <1>1 DEF StartCleanup, Old, Active
  <2>2. ArtifactOfStage'
    BY <1>1 DEF StartCleanup, ArtifactOfStage, Old, Active
  <2>3. CandidatesAreSettled'
    <3>1. keep' = Active /\ old' = Old /\ tpc' = tpc /\ row' = row
      BY <1>1 DEF StartCleanup
    <3>2. ASSUME NEW i \in Old PROVE tpc[i] \in {"closing", "done"}
      <4>1. i \in Training /\ file[i] /\ fileAge[i] # 0
        BY DEF Old
      <4>2. tpc[i] \notin {"new", "evaluating"} /\ tpc[i] \notin Storing
        BY <4>1 DEF ArtifactOfStage
      <4> QED
        BY <4>1, <4>2
    <3> QED
      BY <3>1, <3>2 DEF CandidatesAreSettled, Active, Old
  <2>4. ActiveHasArtifact'
    BY <1>1 DEF StartCleanup, ActiveHasArtifact, Active, CandidatesAreSettled
  <2> QED
    BY <2>1, <2>2, <2>3, <2>4
<1>2. CASE \E i \in Training : Unlink(i)
  <2>1. RegistryTypeOK'
    BY <1>2 DEF Unlink
  <2>2. ArtifactOfStage'
    <3>1. PICK i \in Training : Unlink(i)
      BY <1>2
    <3>2. tpc[i] \in {"closing", "done"}
      BY <3>1 DEF Unlink, CandidatesAreSettled
    <3>3. \A j \in Training \ {i} : file'[j] = file[j]
      BY <3>1 DEF Unlink
    <3> QED
      BY <3>1, <3>2, <3>3 DEF Unlink, ArtifactOfStage
  <2>3. CandidatesAreSettled'
    BY <1>2 DEF Unlink, CandidatesAreSettled, ArtifactOfStage
  <2>4. ActiveHasArtifact'
    BY <1>2 DEF Unlink, ActiveHasArtifact, Active, CandidatesAreSettled
  <2> QED
    BY <2>1, <2>2, <2>3, <2>4
<1>3. CASE \E i \in Training : UnlinkFails(i)
  <2>1. RegistryTypeOK'
    BY <1>3 DEF UnlinkFails
  <2>2. ArtifactOfStage'
    BY <1>3 DEF UnlinkFails, ArtifactOfStage
  <2>3. CandidatesAreSettled'
    BY <1>3 DEF UnlinkFails, CandidatesAreSettled, ArtifactOfStage
  <2>4. ActiveHasArtifact'
    BY <1>3 DEF UnlinkFails, ActiveHasArtifact, Active, CandidatesAreSettled
  <2> QED
    BY <2>1, <2>2, <2>3, <2>4
<1>4. CASE EndPrune
  BY <1>4 DEF EndPrune, ArtifactOfStage, CandidatesAreSettled, ActiveHasArtifact, Active
<1>5. CASE DeleteVersions
  <2>1. RegistryTypeOK'
    BY <1>5 DEF DeleteVersions, Expired
  <2>2. ArtifactOfStage'
    BY <1>5 DEF DeleteVersions, Expired, ArtifactOfStage
  <2>3. CandidatesAreSettled'
    BY <1>5 DEF DeleteVersions, Expired, CandidatesAreSettled, ArtifactOfStage
  <2>4. ActiveHasArtifact'
    BY <1>5 DEF DeleteVersions, Expired, ActiveHasArtifact, Active, CandidatesAreSettled
  <2> QED
    BY <2>1, <2>2, <2>3, <2>4
<1> QED
  BY <1>1, <1>2, <1>3, <1>4, <1>5 DEF Clean

\* Every step keeps the invariant.
LEMMA RegistryNextKeeps ==
  ASSUME RegistryInv, [RegistryNext]_registryVars
  PROVE  RegistryInv'
<1> USE RegistryAssumption
<1>1. CASE Restart
  <2>1. RegistryTypeOK'
    BY <1>1 DEF Restart, RegistryInv, RegistryTypeOK, Training, AtWork, Storing
  <2>2. ArtifactOfStage'
    BY <1>1 DEF Restart, RegistryInv, RegistryTypeOK, Training, AtWork, Storing, ArtifactOfStage
  <2>3. CandidatesAreSettled'
    BY <1>1 DEF Restart, RegistryInv, RegistryTypeOK, Training, AtWork, Storing, CandidatesAreSettled, ArtifactOfStage
  <2>4. ActiveHasArtifact'
    BY <1>1 DEF Restart, RegistryInv, RegistryTypeOK, Training, AtWork, Storing, ActiveHasArtifact, Active, CandidatesAreSettled
  <2> QED
    BY <2>1, <2>2, <2>3, <2>4 DEF RegistryInv
<1>2. CASE Tick
  <2> USE DEF Tick, RegistryInv, RegistryTypeOK, Training, AtWork, Storing, cleanVars
  <2>5. age' \in [Training -> 0..(VersionAge + 1)]
    BY <1>2
  <2>6. fileAge' \in [Training -> 0..(ArtifactAge + 1)]
    BY <1>2
  <2>1. RegistryTypeOK'
    BY <1>2, <2>5, <2>6
  <2>2. ArtifactOfStage'
    BY <1>2 DEF ArtifactOfStage
  <2> QED
    BY <1>2, <2>1, <2>2 DEF CandidatesAreSettled, ActiveHasArtifact, Active
<1>3. CASE UNCHANGED registryVars
  BY <1>3 DEF registryVars, trainVars, cleanVars, RegistryInv, RegistryTypeOK, Training,
     ArtifactOfStage, CandidatesAreSettled, ActiveHasArtifact, Active
<1> QED
  BY <1>1, <1>2, <1>3, TrainKeeps, CleanKeeps DEF RegistryNext

\* No interleaving of trainings, pruning, retention and restarts leaves an
\* active version without its artifact, for any number of trainings and any
\* retention ages (cleanup.py: "referenced paths are always kept").
THEOREM ActiveHasArtifactHolds == RegistrySpec => []ActiveHasArtifact
<1>1. RegistryInv => ActiveHasArtifact
  BY DEF RegistryInv
<1> QED
  BY <1>1, RegistryInitHolds, RegistryNextKeeps, PTL DEF RegistrySpec

-----------------------------------------------------------------------------
(* Serving                                                                 *)

\* A set of trainings that is not empty has a newest member.
LEMMA NewestOf ==
  ASSUME NEW S \in SUBSET Training, S # {}
  PROVE  \E i \in S : \A j \in S : j <= i
<1>1. MaxTrainings \in Nat /\ S \in SUBSET (0..MaxTrainings)
  BY RegistryAssumption DEF Training
<1> QED
  BY <1>1, Greatest

\* A step leaves some version active where one was.
LEMMA StepKeepsActive ==
  ASSUME RegistryTypeOK, [RegistryNext]_registryVars, Active # {}
  PROVE  Active' # {}
<1>1. CASE row' = row
  BY <1>1 DEF Active
<1>2. CASE \E i \in Training : Activate(i)
  BY <1>2 DEF Activate, Committed, Active
<1>3. CASE DeleteVersions
  <2>1. PICK k \in Training : row[k] = "active"
    BY DEF Active
  <2>2. row'[k] = "active"
    BY <1>3, <2>1 DEF DeleteVersions, Expired
  <2> QED
    BY <2>2 DEF Active
<1> QED
  BY <1>1, <1>2, <1>3 DEF RegistryNext, Train, Clean, Restart, Tick, StartTraining,
     NothingToTrain, DumpArtifact, Deactivate, Deactivated, TrainingFails, CloseRun,
     StartCleanup, Unlink, UnlinkFails, EndPrune, registryVars, trainVars

\* A horizon that has a version to serve keeps one, whatever fails, overlaps or
\* is deleted, for any number of trainings (train_all deactivates and activates
\* in one transaction).
THEOREM NeverUnservableHolds == RegistrySpec => NeverUnservable
<1>1. ASSUME RegistryInv, [RegistryNext]_registryVars, Serving # {}
      PROVE  Serving' # {}
  <2>1. Active' # {}
    BY <1>1, StepKeepsActive DEF RegistryInv, Serving
  <2>2. Active' \in SUBSET Training
    BY DEF Active
  <2> QED
    BY <2>1, <2>2, NewestOf DEF Serving
<1> QED
  BY <1>1, RegistryInitHolds, RegistryNextKeeps, PTL DEF RegistrySpec, NeverUnservable

-----------------------------------------------------------------------------
(* Trend alerts                                                            *)

\* The notifications are a sequence, and each is one of the recorded events.
AlertsAreEvents ==
  /\ alerted \in Seq({alerted[i] : i \in DOMAIN alerted})
  /\ \A i \in DOMAIN alerted : Event(alerted[i]) \in events

\* An entry that is inserted was not notified before.
LEMMA CommitAlertsOnce ==
  ASSUME AlertsAreEvents, AlertedOnce, NEW p \in Pass, CommitState(p)
  PROVE  AlertsAreEvents' /\ AlertedOnce'
<1> DEFINE e == pass[p].result
<1>1. PICK notified \in BOOLEAN :
        /\ notified => Inserts(p)
        /\ events' = IF Inserts(p) THEN events \cup {Event(e)} ELSE events
        /\ alerted' = IF notified THEN Append(alerted, e) ELSE alerted
  BY DEF CommitState
<1>2. CASE ~notified
  BY <1>1, <1>2 DEF AlertsAreEvents, AlertedOnce
<1>3. CASE notified
  <2> DEFINE S == {alerted[i] : i \in DOMAIN alerted} \cup {e}
  <2> HIDE DEF e
  <2>1. Event(e) \notin events /\ events' = events \cup {Event(e)}
    BY <1>1, <1>3 DEF Inserts, e
  <2>2. alerted \in Seq(S)
    BY DEF AlertsAreEvents
  <2>3. /\ alerted' \in Seq(S)
        /\ DOMAIN alerted = 1..Len(alerted)
        /\ DOMAIN alerted' = 1..Len(alerted) + 1
        /\ Len(alerted) \in Nat
        /\ \A i \in DOMAIN alerted : alerted'[i] = alerted[i]
        /\ alerted'[Len(alerted) + 1] = e
    BY <1>1, <1>3, <2>2
  <2>4. \A i \in DOMAIN alerted' : Event(alerted'[i]) \in events'
    BY <2>1, <2>3 DEF AlertsAreEvents
  <2>5. alerted' \in Seq({alerted'[i] : i \in DOMAIN alerted'})
    BY <2>3
  <2>6. AlertedOnce'
    <3> SUFFICES ASSUME NEW i \in DOMAIN alerted', NEW j \in DOMAIN alerted',
                        Event(alerted'[i]) = Event(alerted'[j])
                 PROVE  i = j
      BY DEF AlertedOnce
    <3>1. CASE i \in DOMAIN alerted /\ j \in DOMAIN alerted
      BY <2>3, <3>1 DEF AlertedOnce
    <3>2. \A k \in DOMAIN alerted : Event(alerted'[k]) # Event(e)
      BY <2>1, <2>3 DEF AlertsAreEvents
    <3> QED
      BY <2>3, <3>1, <3>2
  <2> QED
    BY <2>4, <2>5, <2>6 DEF AlertsAreEvents
<1> QED
  BY <1>2, <1>3

\* Three closed candles notify nobody twice, for any number of overlapping
\* passes and any history of prices (jobs/trend_alignment.py _insert_event).
THEOREM AlertedOnceHolds == TrendSpec => []AlertedOnce
<1>1. TrendInit => AlertsAreEvents /\ AlertedOnce
  BY DEF TrendInit, AlertsAreEvents, AlertedOnce
<1>2. ASSUME AlertsAreEvents, AlertedOnce, [TrendNext]_trendVars
      PROVE  (AlertsAreEvents /\ AlertedOnce)'
  <2>1. CASE alerted' = alerted /\ events' = events
    BY <1>2, <2>1 DEF AlertsAreEvents, AlertedOnce
  <2>2. CASE \E p \in Pass : CommitState(p)
    BY <1>2, <2>2, CommitAlertsOnce
  <2> QED
    BY <1>2, <2>1, <2>2 DEF TrendNext, RunTrend, EvaluateCandles, ReadStored, LoadHistory,
       StorePerformance, PassFails, Quote, QuoteLate, NextHour, trendVars
<1> QED
  BY <1>1, <1>2, PTL DEF TrendSpec

-----------------------------------------------------------------------------
(* The replay of the trend                                                 *)

\* The closes, hour by hour.
Closes(c) == DOMAIN c = 0 .. LastHour

\* The candle an hour lies in.
LEMMA CandleOf ==
  ASSUME NEW W \in Nat \ {0}, NEW h \in Nat
  PROVE  h - (h % W) \in 0..h /\ h < h - (h % W) + W
OBVIOUS

\* The bounds of the trend's world.
LEMMA TrendBounds ==
  /\ LastHour \in Nat /\ FirstHour \in Nat /\ FirstHour <= LastHour /\ Slow \in Nat /\ Slow > 0
  /\ \A tf \in Timeframe : Width[tf] \in Nat \ {0}
  /\ Width["1d"] \in Nat \ {0} /\ StaleBuckets \in Nat
<1>1. LastHour \in Nat /\ FirstHour \in Nat /\ FirstHour <= LastHour
  BY TrendAssumption
<1>2. Slow \in Nat /\ Slow > 0 /\ StaleBuckets \in Nat
  BY TrendAssumption
<1>3. Width \in [Timeframe -> Nat \ {0}]
  BY TrendAssumption
<1>4. "1d" \in Timeframe
  BY DEF Timeframe
<1> QED
  BY <1>1, <1>2, <1>3, <1>4

\* A completed candle, and the hours quoted in it.
LEMMA CompletedIs ==
  ASSUME NEW c, Closes(c), NEW tf \in Timeframe, NEW t \in Int, NEW b
  PROVE  /\ b \in Completed(tf, c, t) <=>
              /\ \E h \in 0 .. LastHour : c[h] # Absent /\ b = h - (h % Width[tf])
              /\ b + Width[tf] <= t
         /\ b \in Completed(tf, c, t) =>
              /\ b \in 0 .. LastHour
              /\ \E h \in 0 .. LastHour : /\ c[h] # Absent /\ b = h - (h % Width[tf])
                                          /\ b <= h /\ h < b + Width[tf] /\ h < t
<1>1. b \in Completed(tf, c, t) <=>
        /\ \E h \in 0 .. LastHour : c[h] # Absent /\ b = h - (h % Width[tf])
        /\ b + Width[tf] <= t
  BY DEF Completed, Candles, Closes
<1>2. ASSUME NEW h \in 0 .. LastHour, b = h - (h % Width[tf])
      PROVE  b \in 0 .. LastHour /\ b <= h /\ h < b + Width[tf]
  BY <1>2, CandleOf, TrendBounds
<1>3. ASSUME b \in Completed(tf, c, t)
      PROVE  /\ b \in 0 .. LastHour
             /\ \E h \in 0 .. LastHour : /\ c[h] # Absent /\ b = h - (h % Width[tf])
                                         /\ b <= h /\ h < b + Width[tf] /\ h < t
  <2>1. PICK h \in 0 .. LastHour : c[h] # Absent /\ b = h - (h % Width[tf])
    BY <1>1, <1>3
  <2>2. b \in 0 .. LastHour /\ b <= h /\ h < b + Width[tf] /\ b + Width[tf] <= t
    BY <1>1, <1>2, <1>3, <2>1
  <2>3. h < t
    BY <2>2, TrendBounds
  <2> QED
    BY <2>1, <2>2, <2>3
<1> QED
  BY <1>1, <1>3

\* The hours of the candle that starts at b.
HoursOf(tf, c, b) == {h \in DOMAIN c : b <= h /\ h < b + Width[tf] /\ c[h] # Absent}

\* What a completed candle closed on is one of its hours.
LEMMA ClosedOn ==
  ASSUME NEW c, Closes(c), NEW tf \in Timeframe, NEW t \in Int, NEW b \in Completed(tf, c, t)
  PROVE  /\ HoursOf(tf, c, b) # {} /\ HoursOf(tf, c, b) \in SUBSET (0 .. LastHour)
         /\ Max(HoursOf(tf, c, b)) \in HoursOf(tf, c, b)
         /\ \A h \in HoursOf(tf, c, b) : h <= Max(HoursOf(tf, c, b)) /\ h < t
         /\ CloseOf(tf, c, b) = c[Max(HoursOf(tf, c, b))]
<1>1. HoursOf(tf, c, b) # {} /\ HoursOf(tf, c, b) \in SUBSET (0 .. LastHour)
  <2>1. PICK h \in 0 .. LastHour : c[h] # Absent /\ b <= h /\ h < b + Width[tf]
    BY CompletedIs
  <2>2. h \in HoursOf(tf, c, b)
    BY <2>1 DEF HoursOf, Closes
  <2> QED
    BY <2>2 DEF HoursOf, Closes
<1>2. /\ Max(HoursOf(tf, c, b)) \in HoursOf(tf, c, b)
      /\ \A h \in HoursOf(tf, c, b) : h <= Max(HoursOf(tf, c, b))
  BY <1>1, MaxIs, TrendBounds
<1>3. b + Width[tf] <= t /\ b \in Nat
  BY CompletedIs
<1>4. \A h \in HoursOf(tf, c, b) : h < t
  BY <1>1, <1>3, TrendBounds DEF HoursOf
<1>5. CloseOf(tf, c, b) = c[Max(HoursOf(tf, c, b))]
  BY DEF CloseOf, HoursOf
<1> QED
  BY <1>1, <1>2, <1>4, <1>5

\* Two sets of closes with the same hours quoted, the same before an instant.
Alike(c, d, t) ==
  /\ Closes(c) /\ Closes(d)
  /\ \A h \in 0 .. LastHour : /\ c[h] = Absent <=> d[h] = Absent
                              /\ h < t => c[h] = d[h]

\* They have the same candles.
LEMMA AlikeCandles ==
  ASSUME NEW c, NEW d, NEW t, Alike(c, d, t)
  PROVE  \A tf, s : /\ Candles(tf, c) = Candles(tf, d)
                    /\ Completed(tf, c, s) = Completed(tf, d, s)
<1>1. {x \in DOMAIN c : c[x] # Absent} = {x \in DOMAIN d : d[x] # Absent}
  BY DEF Alike, Closes
<1>2. \A tf : Candles(tf, c) = Candles(tf, d)
  BY <1>1 DEF Candles
<1> QED
  BY <1>2 DEF Completed

\* A leg reads nothing that is quoted from its instant on.
LEMMA LegReadsThePast ==
  ASSUME NEW c, NEW d, NEW t \in Int, Alike(c, d, t), NEW tf \in Timeframe
  PROVE  Leg(tf, c, t) = Leg(tf, d, t)
<1>1. Completed(tf, c, t) = Completed(tf, d, t) /\ Closes(c) /\ Closes(d)
  BY AlikeCandles DEF Alike
<1>2. ASSUME NEW b \in Completed(tf, c, t) PROVE CloseOf(tf, c, b) = CloseOf(tf, d, b)
  <2>1. b \in Completed(tf, d, t)
    BY <1>1
  <2>2. HoursOf(tf, c, b) = HoursOf(tf, d, b)
    BY DEF HoursOf, Alike, Closes
  <2>3. Max(HoursOf(tf, c, b)) \in 0 .. LastHour /\ Max(HoursOf(tf, c, b)) < t
    BY <1>1, ClosedOn
  <2> QED
    BY <1>1, <2>1, <2>2, <2>3, ClosedOn DEF Alike
<1>3. [b \in Completed(tf, c, t) |-> CloseOf(tf, c, b)]
        = [b \in Completed(tf, d, t) |-> CloseOf(tf, d, b)]
  BY <1>1, <1>2
<1> QED
  BY <1>1, <1>3 DEF Leg

\* What is left of them since an hour is alike, ...
LEMMA AlikeSince ==
  ASSUME NEW c, NEW d, NEW t, Alike(c, d, t), NEW since
  PROVE  Alike(From(c, since), From(d, since), t)
BY DEF Alike, From, Closes

\* ... what is loaded of them, ...
LEMMA AlikeLoaded ==
  ASSUME NEW c, NEW d, NEW t, Alike(c, d, t), NEW tf, NEW limit, NEW n
  PROVE  Alike(LoadCandles(tf, c, limit, n), LoadCandles(tf, d, limit, n), t)
<1> DEFINE scan(x) == [h \in DOMAIN x |->
                         IF n - ScanSlack * limit * Width[tf] <= h /\ h <= n THEN x[h] ELSE Absent]
           newest(x) == {b \in Candles(tf, scan(x)) :
                           Cardinality({y \in Candles(tf, scan(x)) : y > b}) < limit}
<1>1. Alike(scan(c), scan(d), t)
  BY DEF Alike, Closes
<1>2. LoadCandles(tf, c, limit, n) = [h \in DOMAIN c |-> IF h - (h % Width[tf]) \in newest(c)
                                                         THEN scan(c)[h] ELSE Absent]
  BY DEF LoadCandles
<1>3. LoadCandles(tf, d, limit, n) = [h \in DOMAIN d |-> IF h - (h % Width[tf]) \in newest(d)
                                                         THEN scan(d)[h] ELSE Absent]
  BY DEF LoadCandles
<1>4. DOMAIN c = 0 .. LastHour /\ DOMAIN d = 0 .. LastHour
  BY DEF Alike, Closes
<1> HIDE DEF scan
<1>5. newest(c) = newest(d)
  <2>1. Candles(tf, scan(c)) = Candles(tf, scan(d))
    BY <1>1, AlikeCandles
  <2> QED
    BY <2>1
<1> HIDE DEF newest
<1> QED
  BY <1>1, <1>2, <1>3, <1>4, <1>5 DEF Alike, Closes

\* ... and what a read as of a pass's instant finds.
LEMMA AlikeAsOf ==
  ASSUME NEW c, NEW d, NEW t, Alike(c, d, t), NEW p
  PROVE  Alike(AsOf(p, c), AsOf(p, d), t)
BY DEF Alike, AsOf, Closes

\* The loaded candles of two such sets.
LoadedAlike(l, m, t) ==
  /\ l = [hourly |-> l.hourly, daily |-> l.daily] /\ m = [hourly |-> m.hourly, daily |-> m.daily]
  /\ Alike(l.hourly, m.hourly, t) /\ Alike(l.daily, m.daily, t)

\* A bar that closed before they part is decided alike.
LEMMA BarSeesNoFuture ==
  ASSUME NEW l, NEW m, NEW t \in Int, LoadedAlike(l, m, t), NEW basis
  PROVE  BarState(l, basis, t) = BarState(m, basis, t)
<1>1. \A tf \in Timeframe : Leg(tf, Series(l, tf), t) = Leg(tf, Series(m, tf), t)
  BY LegReadsThePast DEF LoadedAlike, Series
<1>2. Leg("1d", l.daily, t) = Leg("1d", m.daily, t)
  BY LegReadsThePast DEF LoadedAlike, Timeframe
<1>3. Aligned(l, t) = Aligned(m, t)
  BY <1>1 DEF Aligned, Timeframe
<1> QED
  BY <1>2, <1>3 DEF BarState

\* The window is replayed on the same basis over the same bars, and a bar that
\* closed before the loaded candles part has the same state.
LEMMA ReplayAlike ==
  ASSUME NEW l, NEW m, NEW t, LoadedAlike(l, m, t), NEW days, NEW n,
         NEW run, run = Replay(l, days, n), NEW other, other = Replay(m, days, n)
  PROVE  /\ DOMAIN run.bars = DOMAIN other.bars
         /\ t \in Int /\ t \in DOMAIN run.bars => run.bars[t].state = other.bars[t].state
<1> DEFINE since(x) == IntradaySince(x.hourly, n)
           start == n - days * Day
           basis(x) == ChooseBasis(x, start, since(x))
           tf(x) == IF basis(x) = "full_mtf" THEN "1h" ELSE "1d"
           used(x) == IF basis(x) = "full_mtf" THEN [x EXCEPT !.hourly = From(@, since(x))] ELSE x
           series(x) == {b + Width[tf(x)] : b \in Completed(tf(x), Series(used(x), tf(x)), n)}
<1>1. since(l) = since(m)
  <2>1. Completed("1h", l.hourly, n) = Completed("1h", m.hourly, n)
    BY AlikeCandles DEF LoadedAlike
  <2> QED
    BY <2>1 DEF IntradaySince
<1>2. basis(l) = basis(m)
  <2>1. \A x, s : Completed(x, From(l.hourly, since(l)), s) = Completed(x, From(m.hourly, since(l)), s)
    BY AlikeSince, AlikeCandles DEF LoadedAlike
  <2>2. \A s : Completed("1d", l.daily, s) = Completed("1d", m.daily, s)
    BY AlikeCandles DEF LoadedAlike
  <2> HIDE DEF since, start
  <2> QED
    BY <1>1, <2>1, <2>2 DEF ChooseBasis
<1>3. LoadedAlike(used(l), used(m), t)
  <2>1. CASE basis(l) = "full_mtf"
    <3>1. /\ used(l) = [hourly |-> From(l.hourly, since(l)), daily |-> l.daily]
          /\ used(m) = [hourly |-> From(m.hourly, since(m)), daily |-> m.daily]
      <4> HIDE DEF basis, since
      <4> QED
        BY <1>2, <2>1 DEF LoadedAlike
    <3>2. Alike(From(l.hourly, since(l)), From(m.hourly, since(m)), t)
      BY <1>1, AlikeSince DEF LoadedAlike
    <3> HIDE DEF used, since
    <3> QED
      BY <3>1, <3>2 DEF LoadedAlike
  <2>2. CASE basis(l) # "full_mtf"
    <3>1. used(l) = l /\ used(m) = m
      BY <1>2, <2>2
    <3> QED
      BY <3>1
  <2> QED
    BY <2>1, <2>2
<1>4. /\ run.bars = [at \in {x \in series(l) : x > start} |->
                       [state |-> BarState(used(l), basis(l), at), measured |-> at + Day \in series(l)]]
      /\ other.bars = [at \in {x \in series(m) : x > start} |->
                         [state |-> BarState(used(m), basis(m), at), measured |-> at + Day \in series(m)]]
  BY DEF Replay
<1>5. series(l) = series(m)
  <2>1. tf(l) = tf(m)
    BY <1>2
  <2>2. Completed(tf(l), Series(used(l), tf(l)), n) = Completed(tf(l), Series(used(m), tf(l)), n)
    <3> HIDE DEF used, tf
    <3> QED
      BY <1>3, AlikeCandles DEF LoadedAlike, Series
  <2> HIDE DEF used, tf
  <2> QED
    BY <2>1, <2>2
<1>6. t \in Int => BarState(used(l), basis(l), t) = BarState(used(m), basis(m), t)
  <2> HIDE DEF used, basis
  <2> QED
    BY <1>2, <1>3, BarSeesNoFuture
<1> HIDE DEF since, start, basis, tf, used, series
<1>7. DOMAIN run.bars = DOMAIN other.bars
  BY <1>4, <1>5
<1>8. ASSUME t \in Int, t \in DOMAIN run.bars PROVE run.bars[t].state = other.bars[t].state
  <2>1. run.bars[t].state = BarState(used(l), basis(l), t)
    BY <1>4, <1>8
  <2>2. other.bars[t].state = BarState(used(m), basis(m), t)
    BY <1>4, <1>7, <1>8
  <2> QED
    BY <1>6, <1>8, <2>1, <2>2
<1> QED
  BY <1>7, <1>8

\* A replayed bar closed at a whole hour.
LEMMA BarIsAnHour ==
  ASSUME NEW l, Closes(l.hourly), Closes(l.daily), NEW days, NEW n \in Int,
         NEW at \in DOMAIN Replay(l, days, n).bars
  PROVE  at \in Int
<1> DEFINE since == IntradaySince(l.hourly, n)
           basis == ChooseBasis(l, n - days * Day, since)
           tf == IF basis = "full_mtf" THEN "1h" ELSE "1d"
           used == IF basis = "full_mtf" THEN [l EXCEPT !.hourly = From(@, since)] ELSE l
<1>1. at \in {b + Width[tf] : b \in Completed(tf, Series(used, tf), n)}
  BY DEF Replay
<1>2. Closes(Series(used, tf))
  <2>1. Closes(From(l.hourly, since))
    BY DEF Closes, From
  <2>2. CASE basis = "full_mtf"
    <3>1. tf = "1h" /\ Series(used, tf) = used.hourly
      BY <2>2 DEF Series
    <3>2. used.hourly = From(l.hourly, since) \/ used.hourly = l.hourly
      <4> HIDE DEF since, basis
      <4> QED
        BY <2>2
    <3> QED
      BY <2>1, <3>1, <3>2
  <2>3. CASE basis # "full_mtf"
    BY <2>3 DEF Series
  <2> QED
    BY <2>2, <2>3
<1>3. tf \in Timeframe
  BY DEF Timeframe
<1> HIDE DEF tf, used
<1>4. PICK b \in Completed(tf, Series(used, tf), n) : at = b + Width[tf]
  BY <1>1
<1>5. b \in 0 .. LastHour
  BY <1>2, <1>3, CompletedIs
<1> QED
  BY <1>3, <1>4, <1>5, TrendBounds

\* The closes have an hour each, and a pass that has read its candles knows
\* when it did.
ReplayInv ==
  /\ Closes(close) /\ hour \in 0 .. LastHour /\ DOMAIN pass = Pass
  /\ \A p \in Pass : pass[p].pc # "idle" => pass[p].result.at \in 0 .. LastHour

\* A step of one pass.
LEMMA RunKeepsReplay ==
  ASSUME ReplayInv, NEW p \in Pass, RunTrend(p)
  PROVE  ReplayInv'
<1>1. hour' = hour /\ close' = close
  BY DEF RunTrend, EvaluateCandles, ReadStored, CommitState, LoadHistory, StorePerformance, PassFails
<1>2. CASE EvaluateCandles(p)
  <2> DEFINE new == [Idle EXCEPT !.pc = "evaluated",
                                 !.result = EvaluateAlignment(Load(close, 0, hour), hour),
                                 !.forming = close[hour] # Absent]
  <2>1. pass' = [pass EXCEPT ![p] = new]
    BY <1>2 DEF EvaluateCandles
  <2>2. new.result.at = hour
    BY DEF Idle, EvaluateAlignment
  <2> HIDE DEF new
  <2> QED
    BY <1>1, <2>1, <2>2 DEF ReplayInv
<1>3. CASE ~EvaluateCandles(p)
  <2>1. DOMAIN pass' = Pass /\ \A q \in Pass \ {p} : pass'[q] = pass[q]
    BY <1>3 DEF RunTrend, ReadStored, CommitState, LoadHistory, StorePerformance, PassFails, ReplayInv
  <2>2. pass'[p].pc # "idle" => pass[p].pc # "idle" /\ pass'[p].result = pass[p].result
    <3>1. CASE ReadStored(p)
      BY <3>1 DEF ReadStored, ReplayInv
    <3>2. CASE CommitState(p)
      <4>1. pass' = [pass EXCEPT ![p].pc = "committed", ![p].was = Absent] /\ pass[p].pc = "decided"
        BY <3>2 DEF CommitState
      <4> QED
        BY <4>1 DEF ReplayInv
    <3>3. CASE LoadHistory(p)
      BY <3>3 DEF LoadHistory, ReplayInv
    <3>4. CASE StorePerformance(p) \/ PassFails(p)
      BY <3>4 DEF StorePerformance, PassFails, ReplayInv, Idle
    <3> QED
      BY <1>3, <3>1, <3>2, <3>3, <3>4 DEF RunTrend
  <2> QED
    BY <1>1, <2>1, <2>2 DEF ReplayInv
<1> QED
  BY <1>2, <1>3

\* Time and prices.
LEMMA WorldKeepsReplay ==
  ASSUME ReplayInv, UNCHANGED pass,
         \/ NextHour \/ \E v \in Prices : Quote(v)
         \/ \E h \in 0 .. LastHour, v \in Prices \cup {Absent} : QuoteLate(h, v)
  PROVE  ReplayInv'
<1>1. CASE NextHour
  BY <1>1, TrendBounds DEF NextHour, ReplayInv
<1>2. ASSUME NEW v, Quote(v) PROVE ReplayInv'
  BY <1>2 DEF Quote, ReplayInv, Closes
<1>3. ASSUME NEW g, NEW v, QuoteLate(g, v) PROVE ReplayInv'
  BY <1>3 DEF QuoteLate, ReplayInv, Closes
<1> QED
  BY <1>1, <1>2, <1>3

\* A bar of a track record is decided as it would be whatever was quoted after
\* it closed, for any candle widths, any verdict on a series of closes, any
\* lengths of the history loaded, any prices, late ones included, and any
\* overlapping passes (models/trend_backtest.py replay).
THEOREM ReplaySeesNoFutureHolds == TrendSpec => ReplaySeesNoFuture
<1>1. TrendInit => ReplayInv
  BY TrendBounds DEF TrendInit, ReplayInv, Closes, Idle
<1>2. ReplayInv /\ [TrendNext]_trendVars => ReplayInv'
  <2>1. ASSUME ReplayInv, UNCHANGED trendVars PROVE ReplayInv'
    BY <2>1 DEF trendVars, ReplayInv
  <2>2. \A v, h : Quote(v) \/ QuoteLate(h, v) \/ NextHour => UNCHANGED pass
    BY DEF Quote, QuoteLate, NextHour
  <2> QED
    BY <2>1, <2>2, RunKeepsReplay, WorldKeepsReplay DEF TrendNext
<1>3. ASSUME ReplayInv, [TrendNext]_trendVars
      PROVE  [\A p \in Pass : pass[p].pc = "committed" /\ pass'[p].pc = "measured" =>
                \A d \in WindowDays, v \in Prices :
                  \A at \in DOMAIN pass'[p].rows[d].replayed :
                    pass'[p].rows[d].replayed[at].state =
                      Measure(p, Revised(close, at, v))[d].replayed[at].state]_trendVars
  <2> SUFFICES ASSUME NEW p \in Pass, pass[p].pc = "committed", pass'[p].pc = "measured",
                      NEW d \in WindowDays, NEW v \in Prices,
                      NEW at \in DOMAIN pass'[p].rows[d].replayed
               PROVE  pass'[p].rows[d].replayed[at].state =
                        Measure(p, Revised(close, at, v))[d].replayed[at].state
    OBVIOUS
  <2>1. LoadHistory(p)
    <3>1. pass' # pass
      OBVIOUS
    <3>2. \A q \in Pass : RunTrend(q) /\ q # p => pass'[p] = pass[p]
      BY <1>3 DEF RunTrend, EvaluateCandles, ReadStored, CommitState, LoadHistory,
         StorePerformance, PassFails, ReplayInv
    <3>3. RunTrend(p)
      BY <1>3, <3>1, <3>2 DEF TrendNext, Quote, QuoteLate, NextHour, trendVars
    <3>4. ~StorePerformance(p) /\ ~PassFails(p)
      BY <1>3 DEF StorePerformance, PassFails, Idle, ReplayInv
    <3> QED
      BY <3>3, <3>4 DEF RunTrend, EvaluateCandles, ReadStored, CommitState
  <2> DEFINE n == pass[p].result.at
             loaded(c) == Load(AsOf(p, c), Max(WindowDays), n)
  <2>2. pass'[p].rows = Measure(p, close)
    BY <1>3, <2>1 DEF LoadHistory, ReplayInv
  <2>3. n \in Int /\ Closes(close)
    BY <1>3 DEF ReplayInv
  <2>4. ASSUME NEW c PROVE Measure(p, c)[d].replayed = Replay(loaded(c), d, n).bars
    <3>1. Measure(p, c) = [x \in WindowDays |-> MeasureWindow(loaded(c), x, n)]
      BY DEF Measure
    <3> HIDE DEF loaded, n
    <3>2. Measure(p, c)[d] = MeasureWindow(loaded(c), d, n)
      BY <3>1
    <3> QED
      BY <3>2 DEF MeasureWindow
  <2>5. at \in DOMAIN Replay(loaded(close), d, n).bars
    BY <2>2, <2>4
  <2>6. LoadedAlike(loaded(close), loaded(Revised(close, at, v)), at)
    <3>1. at \in Int
      <4>1. Closes(AsOf(p, close))
        BY <2>3 DEF AsOf, Closes
      <4>2. Closes(loaded(close).hourly) /\ Closes(loaded(close).daily)
        BY <4>1 DEF Load, LoadCandles, Closes
      <4> HIDE DEF loaded, n
      <4> QED
        BY <2>3, <2>5, <4>2, BarIsAnHour
    <3>2. Alike(close, Revised(close, at, v), at)
      BY <2>3, <3>1, TrendAssumption DEF Alike, Revised, Closes
    <3>3. Alike(AsOf(p, close), AsOf(p, Revised(close, at, v)), at)
      BY <3>2, AlikeAsOf
    <3> QED
      BY <3>3, AlikeLoaded DEF LoadedAlike, Load
  <2>7. at \in Int
    <3>1. Closes(loaded(close).hourly) /\ Closes(loaded(close).daily)
      BY <2>6 DEF LoadedAlike, Alike
    <3> HIDE DEF loaded, n
    <3> QED
      BY <2>3, <2>5, <3>1, BarIsAnHour
  <2> HIDE DEF loaded, n
  <2> QED
    BY <2>2, <2>4, <2>5, <2>6, <2>7, ReplayAlike
<1> QED
  BY <1>1, <1>2, <1>3, PTL DEF TrendSpec, ReplaySeesNoFuture

-----------------------------------------------------------------------------
(* Forecasts and their outcomes                                            *)

\* Every queue and window is a set of rows, and the clock is past what has
\* been stored.
MaturityTyped ==
  /\ MaturityTypeOK
  /\ queue \in [Evaluator -> SUBSET Prediction]
  /\ 0 \in prices
  /\ \A p \in preds : p.at < p.target /\ p.at <= now
  /\ \A e \in Evaluator : asOf[e] <= now /\ known[e] \subseteq prices

\* A row waiting to be graded had fallen due, and the table's row under its
\* key, while there is one, is the row that was read.
QueuedWereDue ==
  \A e \in Evaluator : epc[e] = "grading" =>
    \A p \in queue[e] :
      /\ p.at < p.target /\ p.target <= asOf[e]
      /\ \A q \in preds : Key(q) = Key(p) => q.target = p.target

MaturityInv == MaturityTyped /\ QueuedWereDue /\ OutcomeAfterForecast

\* The stages of an evaluation.
Stages ==
  {"idle", "grading", "learning", "storing", "inserting", "refitting", "publishing", "creating"}

\* The bounds, one by one.
LEMMA MaturityBounds ==
  /\ MaxTime \in Nat /\ MaxPreds \in Nat /\ QueueLimit \in Nat /\ MaxKills \in Nat
  /\ Steps \in [Horizon -> Nat \ {0}] /\ Tolerance \in [Horizon -> Nat]
  /\ Nil \notin Nat
<1>1. MaxTime \in Nat
  BY MaturityAssumption
<1>2. MaxPreds \in Nat /\ QueueLimit \in Nat /\ MaxKills \in Nat
  BY MaturityAssumption
<1> QED
  BY <1>1, <1>2, MaturityAssumption

\* The nearest observation lies in the window.
LEMMA NearestInWindow ==
  ASSUME NEW p \in Prediction, NEW P \in SUBSET (0..MaxTime), Window(p, P) # {}
  PROVE  Nearest(p, P) \in Window(p, P)
<1> USE MaturityBounds
<1> DEFINE W == Window(p, P)
           G == {n \in Nat : \E t \in W : Gap(p, t) = n}
<1>1. W \subseteq 0..MaxTime /\ W \subseteq Nat
  <2>1. W \subseteq P
    BY DEF Window
  <2>2. W \subseteq 0..MaxTime
    BY <2>1
  <2>3. 0..MaxTime \subseteq Nat
    OBVIOUS
  <2> QED
    BY <2>2, <2>3
<1>2. \A t \in W : Gap(p, t) \in Nat
  BY <1>1 DEF Gap, Prediction
<1> HIDE DEF W
<1>3. PICK g \in G : \A n \in G : g <= n
  <2>1. PICK t \in W : TRUE
    BY DEF W
  <2>2. Gap(p, t) \in G
    BY <1>2, <2>1
  <2> HIDE DEF G
  <2>3. G # {}
    BY <2>2
  <2>4. G \subseteq Nat
    BY DEF G
  <2> QED
    BY <2>3, <2>4, Least
<1> DEFINE N == {t \in W : Gap(p, t) = g}
<1>4. PICK u \in N : \A t \in N : u <= t
  <2>1. N # {}
    BY <1>3
  <2>2. N \subseteq Nat
    BY <1>1
  <2> HIDE DEF N
  <2> QED
    BY <2>1, <2>2, Least
<1>5. u \in W /\ \A t \in W : Gap(p, u) < Gap(p, t) \/ (Gap(p, u) = Gap(p, t) /\ u <= t)
  <2>1. u \in W /\ Gap(p, u) = g
    OBVIOUS
  <2> SUFFICES ASSUME NEW t \in W
               PROVE  Gap(p, u) < Gap(p, t) \/ (Gap(p, u) = Gap(p, t) /\ u <= t)
    BY <2>1
  <2>2. Gap(p, t) \in G /\ Gap(p, t) \in Nat
    BY <1>2
  <2>3. g <= Gap(p, t) /\ g \in Nat
    BY <1>3, <2>2
  <2>4. Gap(p, t) = g => u <= t
    BY <1>4
  <2> QED
    BY <2>1, <2>2, <2>3, <2>4
<1> QED
  BY <1>5 DEF W, Nearest

\* What the provers need of it.
LEMMA GradedBy ==
  ASSUME NEW p \in Prediction, NEW P \in SUBSET (0..MaxTime), Window(p, P) # {}
  PROVE  /\ Nearest(p, P) \in 0..MaxTime
         /\ Nearest(p, P) # Nil
         /\ Nearest(p, P) > p.at
         /\ Gap(p, Nearest(p, P)) <= Tolerance[p.h]
<1> USE MaturityBounds
<1>1. Nearest(p, P) \in Window(p, P)
  BY NearestInWindow
<1>2. Tolerance[p.h] \in Nat /\ p.target \in Nat /\ p.at \in Nat
  BY DEF Prediction
<1>3. Nearest(p, P) \in P
  BY <1>1 DEF Window
<1>4. Nearest(p, P) \in 0..MaxTime /\ Nearest(p, P) \in Nat
  <2>1. Nearest(p, P) \in 0..MaxTime
    BY <1>3
  <2>2. 0..MaxTime \subseteq Nat
    OBVIOUS
  <2> QED
    BY <2>1, <2>2
<1>5. /\ p.target - Tolerance[p.h] < Nearest(p, P)
      /\ p.at < Nearest(p, P)
      /\ Nearest(p, P) <= p.target + Tolerance[p.h]
  BY <1>1 DEF Window
<1>6. Gap(p, Nearest(p, P)) <= Tolerance[p.h]
  BY <1>2, <1>4, <1>5 DEF Gap
<1> QED
  BY <1>2, <1>4, <1>5, <1>6

\* A row of the table after a row of the queue was graded is one of the rows
\* before, graded by the nearest observation if it is the one.
LEMMA GradedRows ==
  ASSUME MaturityInv, NEW p \in Prediction, Window(p, prices) # {}, NEW r \in Graded(p)
  PROVE  /\ r \in Prediction
         /\ \E q \in preds :
              /\ Key(r) = Key(q) /\ r.h = q.h /\ r.at = q.at /\ r.target = q.target
              /\ \/ Key(q) # Key(p) /\ r = q
                 \/ /\ Key(q) = Key(p) /\ q.h = p.h /\ q.at = p.at
                    /\ r = [q EXCEPT !.actual = Nearest(p, prices)]
                    /\ r.actual = Nearest(p, prices)
<1> USE MaturityBounds
<1>1. PICK q \in preds :
        r = IF Key(q) = Key(p) THEN [q EXCEPT !.actual = Nearest(p, prices)] ELSE q
  BY DEF Graded
<1>2. q \in Prediction /\ prices \in SUBSET (0..MaxTime)
  BY DEF MaturityInv, MaturityTyped, MaturityTypeOK
<1>3. Nearest(p, prices) \in 0..MaxTime
  BY <1>2, GradedBy
<1>4. CASE Key(q) # Key(p)
  BY <1>1, <1>2, <1>4
<1>5. CASE Key(q) = Key(p)
  <2>1. q.h = p.h /\ q.at = p.at
    BY <1>5 DEF Key
  <2> HIDE DEF Nearest
  <2> DEFINE n == Nearest(p, prices)
  <2>2. r = [q EXCEPT !.actual = n] /\ n \in 0..MaxTime
    BY <1>1, <1>3, <1>5
  <2> HIDE DEF n
  <2>3. /\ r \in Prediction /\ r.h = q.h /\ r.at = q.at /\ r.target = q.target /\ r.actual = n
    BY <1>2, <2>2 DEF Prediction
  <2>4. Key(r) = Key(q)
    BY <2>3 DEF Key
  <2> QED
    BY <1>5, <2>1, <2>2, <2>3, <2>4 DEF n
<1> QED
  BY <1>4, <1>5

\* A forecast falls due after it was made.
LEMMA TargetIsLater ==
  ASSUME MaturityTyped, NEW h \in Horizon
  PROVE  Target(h) \in Nat /\ Target(h) > now
<1> USE MaturityBounds
<1>1. now \in Nat /\ Steps[h] \in Nat /\ Steps[h] > 0
  BY DEF MaturityTyped, MaturityTypeOK
<1>2. Max(prices) \in Nat
  <2>1. prices \in SUBSET (0..MaxTime) /\ prices # {}
    BY DEF MaturityTyped, MaturityTypeOK
  <2>2. Max(prices) \in prices
    BY <2>1, MaxIs
  <2>3. 0..MaxTime \subseteq Nat
    OBVIOUS
  <2> QED
    BY <2>1, <2>2, <2>3
<1> HIDE DEF Max
<1> QED
  BY <1>1, <1>2 DEF Target

\* A new row cannot be one that waits in a queue: those were made earlier.
LEMMA PredictKeeps ==
  ASSUME MaturityInv, NEW h \in Horizon, Predict(h)
  PROVE  MaturityInv'
<1> USE MaturityBounds DEF evalVars
<1> DEFINE r == [h |-> h, at |-> now, target |-> Target(h), actual |-> Nil]
<1>1. /\ preds' = preds \cup {r} /\ made' = made + 1 /\ made < MaxPreds
      /\ <<h, now>> \notin Keys(preds)
      /\ UNCHANGED <<now, prices, kills, learned, gate, epc, asOf, queue, known>>
  BY DEF Predict
<1>2. Target(h) \in Nat /\ Target(h) > now
  BY TargetIsLater DEF MaturityInv
<1>3. now \in 0..MaxTime /\ now \in Nat
  BY DEF MaturityInv, MaturityTyped, MaturityTypeOK
<1>4. r \in Prediction /\ r.at = now /\ r.target > now /\ r.actual = Nil /\ Key(r) = <<h, now>>
  <2> HIDE DEF Target
  <2> QED
    BY <1>2, <1>3 DEF Prediction, Key
<1> HIDE DEF r
<1>5. \A q \in preds : Key(q) # Key(r)
  BY <1>1, <1>4 DEF Keys
<1>6. MaturityTypeOK'
  <2>1. preds' \subseteq Prediction
    BY <1>1, <1>4 DEF MaturityInv, MaturityTyped, MaturityTypeOK
  <2>2. \A p, q \in preds' : Key(p) = Key(q) => p = q
    BY <1>1, <1>5 DEF MaturityInv, MaturityTyped, MaturityTypeOK
  <2>3. made' \in 0..MaxPreds
    BY <1>1 DEF MaturityInv, MaturityTyped, MaturityTypeOK
  <2> QED
    BY <1>1, <2>1, <2>2, <2>3 DEF MaturityInv, MaturityTyped, MaturityTypeOK, Key
<1>7. MaturityTyped'
  BY <1>1, <1>3, <1>4, <1>6 DEF MaturityInv, MaturityTyped
<1>8. QueuedWereDue'
  <2> SUFFICES ASSUME NEW e \in Evaluator, epc[e] = "grading", NEW p \in queue[e],
                      NEW q \in preds', Key(q) = Key(p)
               PROVE  q.target = p.target
    BY <1>1 DEF MaturityInv, QueuedWereDue, Key
  <2>1. p.at < p.target /\ p.target <= asOf[e] /\ asOf[e] <= now
    BY DEF MaturityInv, QueuedWereDue, MaturityTyped
  <2>2. p \in Prediction /\ asOf[e] \in Nat
    BY DEF MaturityInv, MaturityTyped, MaturityTypeOK
  <2>3. p.at \in Nat /\ p.target \in Nat
    BY <2>2 DEF Prediction
  <2>4. p.at # now
    BY <1>3, <2>1, <2>2, <2>3
  <2>5. q # r
    BY <1>4, <2>4 DEF Key
  <2> QED
    BY <1>1, <2>5 DEF MaturityInv, QueuedWereDue
<1>9. OutcomeAfterForecast'
  BY <1>1, <1>4 DEF MaturityInv, OutcomeAfterForecast, Matured, Gap
<1> QED
  BY <1>7, <1>8, <1>9 DEF MaturityInv

\* One row of a queue is graded by an observation made after the forecast.
LEMMA GradeKeeps ==
  ASSUME MaturityInv, NEW e \in Evaluator, Grade(e)
  PROVE  MaturityInv'
<1> USE MaturityBounds
<1>1. PICK p \in queue[e] :
        /\ queue' = [queue EXCEPT ![e] = @ \ {p}]
        /\ preds' = IF Window(p, prices) = {} THEN preds ELSE Graded(p)
  BY DEF Grade
<1>2. epc[e] = "grading" /\ UNCHANGED <<now, prices, made, kills, epc, asOf, known>>
  BY DEF Grade
<1>3. p \in Prediction /\ prices \in SUBSET (0..MaxTime)
  BY DEF MaturityInv, MaturityTyped, MaturityTypeOK
<1>4. /\ queue' \in [Evaluator -> SUBSET Prediction]
      /\ \A f \in Evaluator : queue'[f] \subseteq queue[f]
  BY <1>1 DEF MaturityInv, MaturityTyped
<1>5. CASE preds' = preds
  <2>1. MaturityTypeOK'
    BY <1>2, <1>4, <1>5 DEF MaturityInv, MaturityTyped, MaturityTypeOK, Key
  <2>2. MaturityTyped'
    BY <1>2, <1>4, <1>5, <2>1 DEF MaturityInv, MaturityTyped
  <2>3. QueuedWereDue'
    BY <1>2, <1>4, <1>5 DEF MaturityInv, QueuedWereDue, Key
  <2>4. OutcomeAfterForecast'
    BY <1>5 DEF MaturityInv, OutcomeAfterForecast, Matured, Gap
  <2> QED
    BY <2>2, <2>3, <2>4 DEF MaturityInv
<1>6. CASE preds' = Graded(p) /\ Window(p, prices) # {}
  <2> DEFINE Comes(r, q) ==
        /\ Key(r) = Key(q) /\ r.h = q.h /\ r.at = q.at /\ r.target = q.target
        /\ \/ Key(q) # Key(p) /\ r = q
           \/ /\ Key(q) = Key(p) /\ q.h = p.h /\ q.at = p.at
              /\ r = [q EXCEPT !.actual = Nearest(p, prices)]
              /\ r.actual = Nearest(p, prices)
  <2>1. \A r \in preds' : r \in Prediction /\ \E q \in preds : Comes(r, q)
    BY <1>3, <1>6, GradedRows
  <2>2. MaturityTypeOK'
    <3>1. preds' \subseteq Prediction
      BY <2>1
    <3>2. \A r, s \in preds' : Key(r) = Key(s) => r = s
      <4> SUFFICES ASSUME NEW r \in preds', NEW s \in preds', Key(r) = Key(s) PROVE r = s
        OBVIOUS
      <4>1. PICK q \in preds : Comes(r, q)
        BY <2>1
      <4>2. PICK t \in preds : Comes(s, t)
        BY <2>1
      <4>3. q = t
        BY <4>1, <4>2 DEF MaturityInv, MaturityTyped, MaturityTypeOK
      <4> QED
        BY <4>1, <4>2, <4>3
    <3> QED
      BY <1>2, <1>4, <3>1, <3>2 DEF MaturityInv, MaturityTyped, MaturityTypeOK, Key
  <2>3. \A r \in preds' : r.at < r.target /\ r.at <= now
    BY <2>1 DEF MaturityInv, MaturityTyped
  <2>4. MaturityTyped'
    BY <1>2, <1>4, <2>2, <2>3 DEF MaturityInv, MaturityTyped
  <2>5. QueuedWereDue'
    <3> SUFFICES ASSUME NEW f \in Evaluator, epc[f] = "grading", NEW s \in queue'[f]
                 PROVE  /\ s.at < s.target /\ s.target <= asOf[f]
                        /\ \A r \in preds' : Key(r) = Key(s) => r.target = s.target
      BY <1>2 DEF QueuedWereDue, Key
    <3>1. s \in queue[f]
      BY <1>4
    <3>2. s.at < s.target /\ s.target <= asOf[f]
      BY <3>1 DEF MaturityInv, QueuedWereDue
    <3>3. ASSUME NEW r \in preds', Key(r) = Key(s) PROVE r.target = s.target
      <4>1. PICK q \in preds : Comes(r, q)
        BY <2>1
      <4> QED
        BY <3>1, <3>3, <4>1 DEF MaturityInv, QueuedWereDue
    <3> QED
      BY <3>2, <3>3
  <2>6. OutcomeAfterForecast'
    <3> SUFFICES ASSUME NEW r \in preds', r.actual # Nil
                 PROVE  r.actual > r.at /\ Gap(r, r.actual) <= Tolerance[r.h]
      BY DEF OutcomeAfterForecast, Matured, Gap
    <3>1. PICK q \in preds : Comes(r, q)
      BY <2>1
    <3>2. CASE r = q
      BY <3>2 DEF MaturityInv, OutcomeAfterForecast, Matured
    <3>3. CASE Key(q) = Key(p) /\ r.actual = Nearest(p, prices)
      <4>1. q.target = p.target
        BY <1>2, <3>3 DEF MaturityInv, QueuedWereDue
      <4>2. r.at = p.at /\ r.h = p.h /\ r.target = p.target
        BY <3>1, <3>3, <4>1 DEF Key
      <4>3. Gap(r, r.actual) = Gap(p, Nearest(p, prices))
        BY <3>3, <4>2 DEF Gap
      <4>4. Nearest(p, prices) > p.at /\ Gap(p, Nearest(p, prices)) <= Tolerance[p.h]
        BY <1>3, <1>6, GradedBy
      <4> QED
        BY <3>3, <4>2, <4>3, <4>4
    <3> QED
      BY <3>1, <3>2, <3>3
  <2> QED
    BY <2>4, <2>5, <2>6 DEF MaturityInv
<1> QED
  BY <1>1, <1>5, <1>6

\* An evaluation starts with rows of the table that are due.
LEMMA StartKeeps ==
  ASSUME MaturityInv, NEW e \in Evaluator, StartEvaluate(e)
  PROVE  MaturityInv'
<1> USE MaturityBounds
<1>1. PICK Q \in Oldest(Due(now), QueueLimit) : queue' = [queue EXCEPT ![e] = Q]
  BY DEF StartEvaluate
<1>2. Q \subseteq Due(now)
  BY DEF Oldest, kSubset
<1>3. Q \subseteq preds /\ \A p \in Q : p.target <= now
  BY <1>2 DEF Due
<1>4. /\ epc' = [epc EXCEPT ![e] = "grading"] /\ asOf' = [asOf EXCEPT ![e] = now]
      /\ known' = [known EXCEPT ![e] = prices]
      /\ UNCHANGED <<now, prices, preds, made, kills>>
  BY DEF StartEvaluate
<1>5. MaturityTyped /\ MaturityTypeOK
  BY DEF MaturityInv, MaturityTyped
<1>6. MaturityTypeOK'
  <2>1. epc' \in [Evaluator -> Stages]
    BY <1>4, <1>5 DEF MaturityTypeOK, Stages
  <2>2. asOf' \in [Evaluator -> 0..MaxTime] /\ known' \in [Evaluator -> SUBSET (0..MaxTime)]
    BY <1>4, <1>5 DEF MaturityTypeOK
  <2>3. \A f \in Evaluator : queue'[f] \subseteq Prediction
    BY <1>1, <1>3, <1>5 DEF MaturityTypeOK, MaturityTyped
  <2> QED
    BY <1>4, <1>5, <2>1, <2>2, <2>3 DEF MaturityTypeOK, Key, Stages
<1>7. queue' \in [Evaluator -> SUBSET Prediction]
  BY <1>1, <1>3, <1>5 DEF MaturityTyped, MaturityTypeOK
<1>8. \A f \in Evaluator : asOf'[f] <= now /\ known'[f] \subseteq prices
  BY <1>4, <1>5 DEF MaturityTyped, MaturityTypeOK
<1>9. MaturityTyped'
  BY <1>4, <1>5, <1>6, <1>7, <1>8 DEF MaturityTyped
<1>10. QueuedWereDue'
  <2> SUFFICES ASSUME NEW f \in Evaluator, epc'[f] = "grading", NEW p \in queue'[f]
               PROVE  /\ p.at < p.target /\ p.target <= asOf'[f]
                      /\ \A q \in preds : Key(q) = Key(p) => q.target = p.target
    BY <1>4 DEF QueuedWereDue, Key
  <2>1. CASE f = e
    <3>1. p \in Q /\ asOf'[f] = now
      BY <1>1, <1>4, <1>5, <2>1 DEF MaturityTyped, MaturityTypeOK
    <3> QED
      BY <1>3, <1>5, <3>1 DEF MaturityTyped, MaturityTypeOK
  <2>2. CASE f # e
    <3>1. p \in queue[f] /\ epc[f] = "grading" /\ asOf'[f] = asOf[f]
      BY <1>1, <1>4, <1>5, <2>2 DEF MaturityTyped, MaturityTypeOK
    <3> QED
      BY <3>1 DEF MaturityInv, QueuedWereDue
  <2> QED
    BY <2>1, <2>2
<1>11. OutcomeAfterForecast'
  BY <1>4 DEF MaturityInv, OutcomeAfterForecast, Matured, Gap
<1> QED
  BY <1>9, <1>10, <1>11 DEF MaturityInv

Later == Stages \ {"grading", "learning"}

\* What a step of an evaluation does after its grading: it goes on to one of
\* the stages P with other rows, or it ends.
LateStep(e, P) ==
  /\ UNCHANGED <<now, prices, preds, made>>
  /\ kills' \in 0..MaxKills
  /\ \E pc \in P, Q \in SUBSET Prediction :
       epc' = [epc EXCEPT ![e] = pc] /\ queue' = [queue EXCEPT ![e] = Q]
  /\ \/ asOf' = asOf /\ known' = known
     \/ asOf' = [asOf EXCEPT ![e] = 0] /\ known' = [known EXCEPT ![e] = {}]

\* Going on, and ending, are such steps.
LEMMA LateSteps ==
  ASSUME NEW e \in Evaluator, UNCHANGED <<now, prices, preds, made>>, kills' \in 0..MaxKills
  PROVE  /\ \A pc \in Later, Q \in SUBSET Prediction : Goto(e, pc, Q) => LateStep(e, Later)
         /\ Ended(e) => LateStep(e, Later)
<1>1. "idle" \in Later /\ {} \in SUBSET Prediction
  BY DEF Later, Stages
<1> QED
  BY <1>1 DEF Goto, Ended, LateStep

\* What an evaluation does once it has read the outcomes.
Learned(e) ==
  \/ Learn(e) \/ StoreCalibration(e) \/ InsertCalibration(e)
  \/ FitGate(e) \/ StoreGate(e) \/ InsertGate(e) \/ Killed(e)

\* All of it is such steps.
LEMMA LearnedIsLate ==
  ASSUME MaturityTyped, NEW e \in Evaluator, Learned(e)
  PROVE  LateStep(e, Later)
<1> USE MaturityBounds
<1>1. /\ queue[e] \in SUBSET Prediction /\ {} \in SUBSET Prediction
      /\ preds \in SUBSET Prediction /\ kills \in 0..MaxKills
  BY DEF MaturityTyped, MaturityTypeOK
<1>2. {"storing", "inserting", "refitting", "publishing", "creating"} \subseteq Later
  BY DEF Later, Stages
<1>3. CASE Learn(e)
  <2>1. PICK C \in Calibrations : Goto(e, "storing", C)
    BY <1>3 DEF Learn
  <2>2. C \in SUBSET Prediction
    BY <1>1 DEF Calibrations, Matured
  <2> QED
    BY <1>1, <1>2, <1>3, <2>1, <2>2, LateSteps DEF Learn
<1>4. CASE StoreCalibration(e)
  BY <1>1, <1>2, <1>4, LateSteps DEF StoreCalibration
<1>5. CASE InsertCalibration(e)
  BY <1>1, <1>2, <1>5, LateSteps DEF InsertCalibration
<1>6. CASE FitGate(e)
  <2>1. PICK G \in GateWindows : IF GivesGate(G) THEN Goto(e, "publishing", G) ELSE Ended(e)
    BY <1>6 DEF FitGate
  <2>2. G \in SUBSET Prediction
    BY <1>1 DEF GateWindows, Newest, kSubset, Matured
  <2> QED
    BY <1>1, <1>2, <1>6, <2>1, <2>2, LateSteps DEF FitGate
<1>7. CASE StoreGate(e)
  BY <1>1, <1>2, <1>7, LateSteps DEF StoreGate
<1>8. CASE InsertGate(e)
  BY <1>1, <1>8, LateSteps DEF InsertGate
<1>9. CASE Killed(e)
  <2>1. kills' \in 0..MaxKills
    BY <1>1, <1>9 DEF Killed
  <2> QED
    BY <1>9, <2>1, LateSteps DEF Killed
<1> QED
  BY <1>3, <1>4, <1>5, <1>6, <1>7, <1>8, <1>9 DEF Learned

\* A step of an evaluation after its grading.
LEMMA LaterStagesKeep ==
  ASSUME MaturityInv, NEW e \in Evaluator, EndGrading(e) \/ Learned(e)
  PROVE  MaturityInv'
<1> USE MaturityBounds
<1>1. MaturityTyped /\ MaturityTypeOK
  BY DEF MaturityInv, MaturityTyped
<1>2. LateStep(e, Later \cup {"learning"})
  <2>1. CASE EndGrading(e)
    <3>1. kills' \in 0..MaxKills /\ {} \in SUBSET Prediction
      BY <1>1, <2>1 DEF EndGrading, MaturityTypeOK
    <3>2. queue' = [queue EXCEPT ![e] = {}]
      BY <1>1, <2>1 DEF EndGrading, MaturityTyped
    <3> QED
      BY <2>1, <3>1, <3>2 DEF EndGrading, LateStep
  <2>2. CASE Learned(e)
    BY <1>1, <2>2, LearnedIsLate DEF LateStep
  <2> QED
    BY <2>1, <2>2
<1>3. PICK pc \in Later \cup {"learning"}, Q \in SUBSET Prediction :
        epc' = [epc EXCEPT ![e] = pc] /\ queue' = [queue EXCEPT ![e] = Q]
  BY <1>2 DEF LateStep
<1>4. UNCHANGED <<now, prices, preds, made>> /\ kills' \in 0..MaxKills
  BY <1>2 DEF LateStep
<1>5. /\ epc' \in [Evaluator -> Stages] /\ epc'[e] # "grading"
      /\ queue' \in [Evaluator -> SUBSET Prediction]
      /\ \A f \in Evaluator \ {e} : epc'[f] = epc[f] /\ queue'[f] = queue[f]
  BY <1>1, <1>3 DEF MaturityTyped, MaturityTypeOK, Later, Stages
<1>6. /\ asOf' \in [Evaluator -> 0..MaxTime] /\ known' \in [Evaluator -> SUBSET (0..MaxTime)]
      /\ \A f \in Evaluator : asOf'[f] <= now /\ known'[f] \subseteq prices
      /\ \A f \in Evaluator \ {e} : asOf'[f] = asOf[f]
  BY <1>1, <1>2 DEF LateStep, MaturityTyped, MaturityTypeOK
<1>7. MaturityTypeOK'
  BY <1>1, <1>4, <1>5, <1>6 DEF MaturityTypeOK, Key, Stages
<1>8. MaturityTyped'
  BY <1>1, <1>4, <1>5, <1>6, <1>7 DEF MaturityTyped
<1>9. QueuedWereDue'
  BY <1>4, <1>5, <1>6 DEF MaturityInv, QueuedWereDue, Key
<1>10. OutcomeAfterForecast'
  BY <1>4 DEF MaturityInv, OutcomeAfterForecast, Matured, Gap
<1> QED
  BY <1>8, <1>9, <1>10 DEF MaturityInv

\* Every step preserves the invariant.
LEMMA MaturityNextKeeps ==
  MaturityInv /\ [MaturityNext]_maturityVars => MaturityInv'
<1> SUFFICES ASSUME MaturityInv, [MaturityNext]_maturityVars PROVE MaturityInv'
  OBVIOUS
<1> USE MaturityBounds DEF evalVars
<1>1. MaturityTyped /\ MaturityTypeOK
  BY DEF MaturityInv, MaturityTyped
<1>2. ASSUME NEW t \in 0..MaxTime, Observe(t) PROVE MaturityInv'
  <2>1. MaturityTypeOK'
    BY <1>1, <1>2 DEF Observe, MaturityTypeOK, Key
  <2>2. MaturityTyped'
    BY <1>1, <1>2, <2>1 DEF Observe, MaturityTyped
  <2> QED
    BY <1>2, <2>2 DEF Observe, MaturityInv, QueuedWereDue, Key, OutcomeAfterForecast,
       Matured, Gap
<1>3. CASE Retain
  <2>1. preds' \subseteq preds
    BY <1>3 DEF Retain
  <2>2. MaturityTypeOK'
    BY <1>1, <1>3, <2>1 DEF Retain, MaturityTypeOK, Key
  <2>3. MaturityTyped'
    BY <1>1, <1>3, <2>1, <2>2 DEF Retain, MaturityTyped
  <2>4. QueuedWereDue'
    BY <1>3, <2>1 DEF Retain, MaturityInv, QueuedWereDue, Key
  <2> QED
    BY <2>1, <2>3, <2>4 DEF MaturityInv, OutcomeAfterForecast, Matured, Gap
<1>4. CASE Elapse
  <2>1. now \in Nat /\ now' = now + 1 /\ now' \in 0..MaxTime
    BY <1>1, <1>4 DEF Elapse, MaturityTypeOK
  <2>2. MaturityTypeOK'
    BY <1>1, <1>4, <2>1 DEF Elapse, MaturityTypeOK, Key
  <2>3. \A p \in preds : p.at \in Nat
    BY <1>1 DEF MaturityTypeOK, Prediction
  <2>4. \A p \in preds : p.at <= now'
    BY <1>1, <2>1, <2>3 DEF MaturityTyped
  <2>5. \A e \in Evaluator : asOf[e] <= now'
    BY <1>1, <2>1 DEF MaturityTyped, MaturityTypeOK
  <2>6. MaturityTyped'
    BY <1>1, <1>4, <2>2, <2>4, <2>5 DEF Elapse, MaturityTyped
  <2> QED
    BY <1>4, <2>6 DEF Elapse, MaturityInv, QueuedWereDue, Key, OutcomeAfterForecast,
       Matured, Gap
<1>5. CASE UNCHANGED maturityVars
  BY <1>1, <1>5 DEF maturityVars, MaturityInv, MaturityTyped, MaturityTypeOK, QueuedWereDue,
     Key, OutcomeAfterForecast, Matured, Gap
<1> QED
  BY <1>2, <1>3, <1>4, <1>5, PredictKeeps, StartKeeps, GradeKeeps, LaterStagesKeep
  DEF MaturityNext, Evaluate, Learned

\* The table starts empty.
LEMMA MaturityInitHolds == MaturityInit => MaturityInv
BY MaturityBounds
DEF MaturityInit, MaturityInv, MaturityTyped, MaturityTypeOK, QueuedWereDue,
    OutcomeAfterForecast, Matured

\* No forecast is graded by a price it could have been made from, nor by one
\* outside its horizon's tolerance, for any set of horizons and tolerances, any
\* number of overlapping evaluations, and whatever is backfilled, deleted or
\* killed meanwhile (jobs/evaluate.py _nearest_price).
THEOREM OutcomeAfterForecastHolds == MaturitySpec => []OutcomeAfterForecast
<1>1. MaturityInv => OutcomeAfterForecast
  BY DEF MaturityInv
<1> QED
  BY <1>1, MaturityInitHolds, MaturityNextKeeps, PTL DEF MaturitySpec

\* While a pass grades, the rows it has to grade are all still in its queue:
\* it took every row that was due.
DueAreQueued ==
  \A e \in Evaluator : epc[e] = "grading" =>
    \A p \in preds :
      p.actual = Nil /\ p.target <= asOf[e] /\ Window(p, known[e]) # {} => p \in queue[e]

GradingInv == IsFiniteSet(preds) /\ DueAreQueued /\ DueAreGraded

\* A window only grows with the prices.
LEMMA WindowGrows ==
  ASSUME NEW p, NEW P, NEW Q, P \subseteq Q, Window(p, P) # {}
  PROVE  Window(p, Q) # {}
BY DEF Window

\* A queue no larger than the limit holds every row that is due.
LEMMA StartTakesAll ==
  ASSUME MaturityInv, GradingInv, Cardinality(Due(now)) <= QueueLimit,
         NEW Q \in Oldest(Due(now), QueueLimit)
  PROVE  Q = Due(now)
<1>1. IsFiniteSet(Due(now))
  BY FS_Subset DEF GradingInv, Due
<1>2. Cardinality(Due(now)) \in Nat
  BY <1>1, FS_CardinalityType
<1>3. Q \in SUBSET Due(now)
  BY DEF Oldest, kSubset
<1>4. Cardinality(Q) = Cardinality(Due(now))
  BY <1>2, MaturityBounds DEF Oldest, kSubset
<1> QED
  BY <1>1, <1>3, <1>4, FS_Subset

\* Grading a row leaves the table as large as it was.
LEMMA GradedIsFinite ==
  ASSUME IsFiniteSet(preds), NEW p
  PROVE  IsFiniteSet(Graded(p))
<1> DEFINE f == [q \in preds |->
      IF Key(q) = Key(p) THEN [q EXCEPT !.actual = Nearest(p, prices)] ELSE q]
<1>1. f \in Surjection(preds, Graded(p))
  BY DEF Surjection, Graded
<1> QED
  BY <1>1, FS_Surjection

\* A pass that grades, or leaves pending, one row of its queue.
LEMMA GradeKeepsDue ==
  ASSUME MaturityInv, GradingInv, NEW e \in Evaluator, Grade(e)
  PROVE  GradingInv'
<1>1. PICK p \in queue[e] :
        /\ queue' = [queue EXCEPT ![e] = @ \ {p}]
        /\ preds' = IF Window(p, prices) = {} THEN preds ELSE Graded(p)
  BY DEF Grade
<1>2. epc[e] = "grading" /\ UNCHANGED <<now, prices, epc, asOf, known>>
  BY DEF Grade
<1>3. p \in Prediction /\ prices \in SUBSET (0..MaxTime) /\ queue \in [Evaluator -> SUBSET Prediction]
  BY DEF MaturityInv, MaturityTyped, MaturityTypeOK
<1>4. IsFiniteSet(preds')
  BY <1>1, GradedIsFinite DEF GradingInv
<1>5. ASSUME NEW r \in preds'
      PROVE  /\ r \in Prediction
             /\ \/ r \in preds /\ (Window(p, prices) # {} => Key(r) # Key(p))
                \/ r.actual # Nil
  <2>1. CASE Window(p, prices) = {}
    BY <1>1, <2>1 DEF MaturityInv, MaturityTyped, MaturityTypeOK
  <2>2. CASE Window(p, prices) # {}
    <3>1. r \in Graded(p)
      BY <1>1, <2>2
    <3>2. Nearest(p, prices) # Nil
      BY <1>3, <2>2, GradedBy
    <3> QED
      BY <1>3, <2>2, <3>1, <3>2, GradedRows
  <2> QED
    BY <2>1, <2>2
<1>6. DueAreQueued'
  <2> SUFFICES ASSUME NEW f \in Evaluator, epc[f] = "grading", NEW r \in preds',
                      r.actual = Nil, r.target <= asOf[f], Window(r, known[f]) # {}
               PROVE  r \in queue'[f]
    BY <1>2 DEF DueAreQueued, Window
  <2>1. r \in preds
    BY <1>5
  <2>2. r \in queue[f]
    BY <2>1 DEF GradingInv, DueAreQueued
  <2>3. Window(r, prices) # {}
    BY WindowGrows DEF MaturityInv, MaturityTyped
  <2>4. r # p
    BY <1>5, <2>3
  <2> QED
    BY <1>1, <1>3, <2>2, <2>4
<1>7. DueAreGraded'
  <2> SUFFICES ASSUME NEW f \in Evaluator, epc[f] = "learning", NEW r \in preds',
                      r.target <= asOf[f], Window(r, known[f]) # {}
               PROVE  r.actual # Nil
    BY <1>2 DEF DueAreGraded, Window
  <2> QED
    BY <1>5 DEF GradingInv, DueAreGraded
<1> QED
  BY <1>4, <1>6, <1>7 DEF GradingInv

\* Every step, when no more rows are due than the pending query takes.
LEMMA GradingNextKeeps ==
  MaturityInv /\ GradingInv /\ Cardinality(Due(now)) <= QueueLimit
    /\ [MaturityNext]_maturityVars => GradingInv'
<1> SUFFICES ASSUME MaturityInv, GradingInv, Cardinality(Due(now)) <= QueueLimit,
                    [MaturityNext]_maturityVars
             PROVE  GradingInv'
  OBVIOUS
<1> USE DEF evalVars
<1>1. MaturityTyped /\ MaturityTypeOK
  BY DEF MaturityInv, MaturityTyped
<1>2. CASE /\ UNCHANGED <<preds, epc, asOf, queue, known>>
  BY <1>2 DEF GradingInv, DueAreQueued, DueAreGraded, Window
<1>3. ASSUME NEW h \in Horizon, Predict(h) PROVE GradingInv'
  <2> DEFINE r == [h |-> h, at |-> now, target |-> Target(h), actual |-> Nil]
  <2>1. preds' = preds \cup {r} /\ UNCHANGED <<epc, asOf, queue, known>>
    BY <1>3 DEF Predict
  <2>2. r.target \in Nat /\ r.target > now
    BY <1>1, TargetIsLater
  <2> HIDE DEF r
  <2>3. IsFiniteSet(preds')
    BY <2>1, FS_AddElement DEF GradingInv
  <2>4. \A e \in Evaluator : ~(r.target <= asOf[e])
    BY <1>1, <2>2, MaturityBounds DEF MaturityTyped, MaturityTypeOK
  <2>5. DueAreQueued'
    BY <2>1, <2>4 DEF GradingInv, DueAreQueued, Window
  <2>6. DueAreGraded'
    BY <2>1, <2>4 DEF GradingInv, DueAreGraded, Window
  <2> QED
    BY <2>3, <2>5, <2>6 DEF GradingInv
<1>4. CASE Retain
  <2>1. preds' \subseteq preds /\ UNCHANGED <<epc, asOf, queue, known>>
    BY <1>4 DEF Retain
  <2>2. IsFiniteSet(preds')
    BY <2>1, FS_Subset DEF GradingInv
  <2> QED
    BY <2>1, <2>2 DEF GradingInv, DueAreQueued, DueAreGraded, Window
<1>5. ASSUME NEW e \in Evaluator, StartEvaluate(e) PROVE GradingInv'
  <2>1. PICK Q \in Oldest(Due(now), QueueLimit) : queue' = [queue EXCEPT ![e] = Q]
    BY <1>5 DEF StartEvaluate
  <2>2. Q = Due(now)
    BY StartTakesAll
  <2>3. /\ preds' = preds
        /\ epc' = [epc EXCEPT ![e] = "grading"] /\ asOf' = [asOf EXCEPT ![e] = now]
        /\ known' = [known EXCEPT ![e] = prices]
    BY <1>5 DEF StartEvaluate
  <2>4. /\ queue'[e] = Due(now) /\ epc'[e] = "grading" /\ asOf'[e] = now
        /\ \A f \in Evaluator \ {e} :
             queue'[f] = queue[f] /\ epc'[f] = epc[f] /\ asOf'[f] = asOf[f] /\ known'[f] = known[f]
    BY <1>1, <2>1, <2>2, <2>3 DEF MaturityTyped, MaturityTypeOK
  <2>5. DueAreQueued'
    <3> SUFFICES ASSUME NEW f \in Evaluator, epc'[f] = "grading", NEW p \in preds,
                        p.actual = Nil, p.target <= asOf'[f], Window(p, known'[f]) # {}
                 PROVE  p \in queue'[f]
      BY <2>3 DEF DueAreQueued, Window
    <3> QED
      BY <2>4 DEF GradingInv, DueAreQueued, Due
  <2>6. DueAreGraded'
    <3> SUFFICES ASSUME NEW f \in Evaluator, epc'[f] = "learning", NEW p \in preds,
                        p.target <= asOf'[f], Window(p, known'[f]) # {}
                 PROVE  p.actual # Nil
      BY <2>3 DEF DueAreGraded, Window
    <3> QED
      BY <2>4 DEF GradingInv, DueAreGraded
  <2> QED
    BY <2>3, <2>5, <2>6 DEF GradingInv
<1>6. ASSUME NEW e \in Evaluator, EndGrading(e) PROVE GradingInv'
  <2>1. /\ UNCHANGED <<preds, asOf, known, queue>> /\ queue[e] = {} /\ epc[e] = "grading"
        /\ epc' = [epc EXCEPT ![e] = "learning"]
    BY <1>6 DEF EndGrading
  <2>2. /\ epc'[e] = "learning"
        /\ \A f \in Evaluator \ {e} : epc'[f] = epc[f] /\ queue'[f] = queue[f]
    BY <1>1, <2>1 DEF MaturityTyped, MaturityTypeOK
  <2>3. DueAreQueued'
    BY <2>1, <2>2 DEF GradingInv, DueAreQueued, Window
  <2>4. DueAreGraded'
    BY <2>1, <2>2 DEF GradingInv, DueAreQueued, DueAreGraded, Window
  <2> QED
    BY <2>1, <2>3, <2>4 DEF GradingInv
<1>7. ASSUME NEW e \in Evaluator, Learned(e) PROVE GradingInv'
  <2>1. LateStep(e, Later)
    BY <1>1, <1>7, LearnedIsLate
  <2>2. /\ preds' = preds /\ epc'[e] \notin {"grading", "learning"}
        /\ \A f \in Evaluator \ {e} :
             /\ queue'[f] = queue[f] /\ epc'[f] = epc[f]
             /\ asOf'[f] = asOf[f] /\ known'[f] = known[f]
    BY <1>1, <2>1 DEF LateStep, Later, MaturityTyped, MaturityTypeOK
  <2>3. DueAreQueued'
    BY <2>2 DEF GradingInv, DueAreQueued, Window
  <2>4. DueAreGraded'
    BY <2>2 DEF GradingInv, DueAreGraded, Window
  <2> QED
    BY <2>2, <2>3, <2>4 DEF GradingInv
<1>8. CASE \E t \in 0..MaxTime : Observe(t)
  BY <1>2, <1>8 DEF Observe
<1>9. CASE Elapse \/ UNCHANGED maturityVars
  BY <1>2, <1>9 DEF Elapse, maturityVars
<1> QED
  BY <1>3, <1>4, <1>5, <1>6, <1>7, <1>8, <1>9, GradeKeepsDue
  DEF MaturityNext, Evaluate, Learned

\* While no more forecasts are due than the pending query takes (LIMIT 500), a
\* pass that has finished grading has graded every forecast that was due, and
\* could be graded, when it started: for any horizons, any number of passes, and
\* whatever backfills, deletions and kills interleave (run_evaluate).
THEOREM DueAreGradedHolds ==
  MaturitySpec /\ [](Cardinality(Due(now)) <= QueueLimit) => []DueAreGraded
<1>1. MaturityInit => GradingInv
  BY FS_EmptySet DEF MaturityInit, GradingInv, DueAreQueued, DueAreGraded
<1>2. GradingInv => DueAreGraded
  BY DEF GradingInv
<1> QED
  BY <1>1, <1>2, MaturityInitHolds, MaturityNextKeeps, GradingNextKeeps, PTL DEF MaturitySpec

-----------------------------------------------------------------------------
(* The score of a signal                                                   *)

\* Rounding to even and clipping keep the order of scores.
LEMMA FinalKeepsOrder ==
  ASSUME NEW x \in Int, NEW y \in Int, x <= y
  PROVE  FinalScore(x) \in 0..100 /\ FinalScore(x) <= FinalScore(y)
<1> DEFINE lowX == x \div 4
           lowY == y \div 4
           restX == x % 4
           restY == y % 4
<1>1. /\ lowX \in Int /\ restX \in 0..3 /\ x = (4 * lowX) + restX
      /\ lowY \in Int /\ restY \in 0..3 /\ y = (4 * lowY) + restY
  OBVIOUS
<1>2. /\ Rounded(x) = IF restX > 2 \/ (restX = 2 /\ lowX % 2 = 1) THEN lowX + 1 ELSE lowX
      /\ Rounded(y) = IF restY > 2 \/ (restY = 2 /\ lowY % 2 = 1) THEN lowY + 1 ELSE lowY
  BY DEF Rounded
<1> HIDE DEF lowX, lowY, restX, restY
<1>3. lowX <= lowY /\ (lowX = lowY => restX <= restY)
  BY <1>1
<1>4. Rounded(x) \in Int /\ Rounded(y) \in Int /\ Rounded(x) <= Rounded(y)
  BY <1>1, <1>2, <1>3
<1> QED
  BY <1>4 DEF FinalScore

BandLow(n) == Band(n)[1]
BandHigh(n) == Band(n)[2]

\* The edges of a band are scores.
LEMMA BandsAreScores ==
  \A m \in 0..100 : /\ BandLow(m) \in 0..100 /\ BandHigh(m) \in 0..100
                    /\ m <= 59 => BandLow(m) <= 41
                    /\ m >= 41 => BandHigh(m) >= 59
BY DEF Band, BandLow, BandHigh

\* They are ordered as the scores are.
LEMMA BandsKeepOrder ==
  \A m, n \in 0..100 : m <= n => BandLow(m) <= BandLow(n) /\ BandHigh(m) <= BandHigh(n)
BY DEF Band, BandLow, BandHigh

\* The middle band in quarters of a point.
LEMMA MiddleBand == FinalScore(164) = 41 /\ FinalScore(236) = 59
<1>1. 164 \div 4 = 41 /\ 164 % 4 = 0 /\ 236 \div 4 = 59 /\ 236 % 4 = 0
  OBVIOUS
<1>2. Rounded(164) = 41 /\ Rounded(236) = 59
  BY <1>1 DEF Rounded
<1> QED
  BY <1>2 DEF FinalScore

\* A bullish alignment, weighing w, and its cap.
LEMMA BullishKeepsOrder ==
  ASSUME NEW x \in Int, NEW y \in Int, x <= y, NEW w \in 0..72
  PROVE  LET up(q) == IF Away(q + w) > Away(q) THEN HoldWithinBand(q, q + w) ELSE q + w
         IN  up(x) \in Int /\ up(x) <= up(y)
<1> DEFINE capX == 4 * BandHigh(FinalScore(x))
           capY == 4 * BandHigh(FinalScore(y))
           up(q) == IF Away(q + w) > Away(q) THEN HoldWithinBand(q, q + w) ELSE q + w
<1>0. FinalScore(x) \in 0..100 /\ FinalScore(y) \in 0..100 /\ FinalScore(x) <= FinalScore(y)
  BY FinalKeepsOrder
<1>1. capX \in Int /\ capY \in Int /\ capX <= capY
  <2>1. /\ BandHigh(FinalScore(x)) \in 0..100 /\ BandHigh(FinalScore(y)) \in 0..100
        /\ BandHigh(FinalScore(x)) <= BandHigh(FinalScore(y))
    BY <1>0, BandsAreScores, BandsKeepOrder
  <2> QED
    BY <2>1
<1>2. y >= 164 => capY >= 236
  <2> SUFFICES ASSUME y >= 164 PROVE capY >= 236
    OBVIOUS
  <2>1. FinalScore(y) >= 41
    BY FinalKeepsOrder, MiddleBand
  <2>2. BandHigh(FinalScore(y)) >= 59 /\ BandHigh(FinalScore(y)) \in 0..100
    BY <1>0, <2>1, BandsAreScores
  <2> QED
    BY <2>2
<1>3. /\ Away(x + w) > Away(x) <=> w > 0 /\ 2 * x + w > 400
      /\ Away(y + w) > Away(y) <=> w > 0 /\ 2 * y + w > 400
  BY DEF Away, Points
<1>4. w > 0 => /\ HoldWithinBand(x, x + w) = IF x + w <= capX THEN x + w ELSE capX
               /\ HoldWithinBand(y, y + w) = IF y + w <= capY THEN y + w ELSE capY
  BY <1>1, OfTwo DEF HoldWithinBand, Points, BandHigh
<1> HIDE DEF capX, capY
<1>5. up(x) = IF w > 0 /\ 2 * x + w > 400 THEN (IF x + w <= capX THEN x + w ELSE capX) ELSE x + w
  BY <1>3, <1>4
<1>6. up(y) = IF w > 0 /\ 2 * y + w > 400 THEN (IF y + w <= capY THEN y + w ELSE capY) ELSE y + w
  BY <1>3, <1>4
<1> HIDE DEF up
<1>7. up(x) \in Int /\ up(x) <= up(y)
  BY <1>1, <1>2, <1>5, <1>6
<1> QED
  BY <1>7 DEF up

\* A bearish one.
LEMMA BearishKeepsOrder ==
  ASSUME NEW x \in Int, NEW y \in Int, x <= y, NEW w \in 0..72
  PROVE  LET down(q) == IF Away(q - w) > Away(q) THEN HoldWithinBand(q, q - w) ELSE q - w
         IN  down(x) \in Int /\ down(x) <= down(y)
<1> DEFINE capX == 4 * BandLow(FinalScore(x))
           capY == 4 * BandLow(FinalScore(y))
           down(q) == IF Away(q - w) > Away(q) THEN HoldWithinBand(q, q - w) ELSE q - w
<1>0. FinalScore(x) \in 0..100 /\ FinalScore(y) \in 0..100 /\ FinalScore(x) <= FinalScore(y)
  BY FinalKeepsOrder
<1>1. capX \in Int /\ capY \in Int /\ capX <= capY
  <2>1. /\ BandLow(FinalScore(x)) \in 0..100 /\ BandLow(FinalScore(y)) \in 0..100
        /\ BandLow(FinalScore(x)) <= BandLow(FinalScore(y))
    BY <1>0, BandsAreScores, BandsKeepOrder
  <2> QED
    BY <2>1
<1>2. x <= 236 => capX <= 164
  <2> SUFFICES ASSUME x <= 236 PROVE capX <= 164
    OBVIOUS
  <2>1. FinalScore(x) <= 59
    BY FinalKeepsOrder, MiddleBand
  <2>2. BandLow(FinalScore(x)) <= 41 /\ BandLow(FinalScore(x)) \in 0..100
    BY <1>0, <2>1, BandsAreScores
  <2> QED
    BY <2>2
<1>3. /\ Away(x - w) > Away(x) <=> w > 0 /\ 2 * x - w < 400
      /\ Away(y - w) > Away(y) <=> w > 0 /\ 2 * y - w < 400
  BY DEF Away, Points
<1>4. w > 0 => /\ HoldWithinBand(x, x - w) = IF x - w <= capX THEN capX ELSE x - w
               /\ HoldWithinBand(y, y - w) = IF y - w <= capY THEN capY ELSE y - w
  <2>1. ~(x - w > x) /\ ~(y - w > y) /\ x - w \in Int /\ y - w \in Int
    OBVIOUS
  <2>2. HoldWithinBand(x, x - w) = Max({x - w, capX}) /\ HoldWithinBand(y, y - w) = Max({y - w, capY})
    BY <2>1 DEF HoldWithinBand, Points, BandLow
  <2> QED
    BY <1>1, <2>1, <2>2, OfTwo
<1> HIDE DEF capX, capY
<1>5. down(x) = IF w > 0 /\ 2 * x - w < 400 THEN (IF x - w <= capX THEN capX ELSE x - w) ELSE x - w
  BY <1>3, <1>4
<1>6. down(y) = IF w > 0 /\ 2 * y - w < 400 THEN (IF y - w <= capY THEN capY ELSE y - w) ELSE y - w
  BY <1>3, <1>4
<1> HIDE DEF down
<1>7. down(x) \in Int /\ down(x) <= down(y)
  BY <1>1, <1>2, <1>5, <1>6
<1> QED
  BY <1>7 DEF down

\* The alignment keeps the order of the scores it is added to.
LEMMA AlignKeepsOrder ==
  ASSUME TrendWeight <= 18, NEW b \in Readings, NEW c \in Readings,
         c.align = b.align, c.sma = b.sma, NEW x \in Int, NEW y \in Int, x <= y
  PROVE  AlignTo(x, b) \in Int /\ AlignTo(x, b) <= AlignTo(y, c)
<1> DEFINE sign == IF b.align = "full_bullish" THEN 1 ELSE -1
           w == (IF Worth(b.sma) * sign > 0 THEN 2 ELSE 4) * TrendWeight
<1>1. w \in 0..72
  BY SignalsAssumption
<1>2. CASE b.align \notin {"full_bullish", "full_bearish"}
  BY <1>2 DEF AlignTo
<1>3. CASE b.align = "full_bullish"
  <2>1. /\ AlignTo(x, b) = IF Away(x + w) > Away(x) THEN HoldWithinBand(x, x + w) ELSE x + w
        /\ AlignTo(y, c) = IF Away(y + w) > Away(y) THEN HoldWithinBand(y, y + w) ELSE y + w
    BY <1>1, <1>3 DEF AlignTo
  <2> HIDE DEF w
  <2> QED
    BY <1>1, <2>1, BullishKeepsOrder
<1>4. CASE b.align = "full_bearish"
  <2>0. \A z \in Int : z + sign * (IF Worth(b.sma) * sign > 0 THEN 2 ELSE 4) * TrendWeight = z - w
    BY <1>4, SignalsAssumption
  <2>1. /\ AlignTo(x, b) = IF Away(x - w) > Away(x) THEN HoldWithinBand(x, x - w) ELSE x - w
        /\ AlignTo(y, c) = IF Away(y - w) > Away(y) THEN HoldWithinBand(y, y - w) ELSE y - w
    BY <1>4, <2>0 DEF AlignTo
  <2> HIDE DEF w
  <2> QED
    BY <1>1, <2>1, BearishKeepsOrder
<1> QED
  BY <1>2, <1>3, <1>4

\* The cost of a round trip is a number of percents, quoted or assumed.
LEMMA CostIsNumber ==
  ASSUME NEW quotes \in Seq(Int)
  PROVE  ResolveCost(quotes).pct \in Nat
<1> DEFINE usable == {i \in DOMAIN quotes : i <= ScanLimit /\ quotes[i] \in SanePct}
<1>1. usable \subseteq Nat
  OBVIOUS
<1>2. CASE usable = {}
  BY <1>2, SignalsAssumption DEF ResolveCost
<1>3. CASE usable # {}
  <2>1. Min(usable) \in usable
    BY <1>1, <1>3, MinIs
  <2>2. quotes[Min(usable)] \in Nat
    BY <2>1, SignalsAssumption
  <2> QED
    BY <1>3, <2>2 DEF ResolveCost
<1> QED
  BY <1>2, <1>3

\* The edge over the cost, clipped.
LEMMA EdgeKeepsOrder ==
  ASSUME NEW x \in Int, NEW y \in Int, x <= y, NEW cost \in Nat
  PROVE  /\ Clip(8 * Edge(x, cost), 100) \in Int /\ Clip(8 * Edge(y, cost), 100) \in Int
         /\ Clip(8 * Edge(x, cost), 100) <= Clip(8 * Edge(y, cost), 100)
<1>1. Edge(x, cost) \in Int /\ Edge(y, cost) \in Int /\ Edge(x, cost) <= Edge(y, cost)
  BY DEF Edge
<1> QED
  BY <1>1 DEF Clip

\* The readings with another forecast.
LEMMA OtherForecast ==
  ASSUME NEW b \in Readings, NEW f \in ForecastRead
  PROVE  LET c == [b EXCEPT !.forecast = f]
         IN  /\ c \in Readings /\ c.forecast # None /\ c.forecast = f
             /\ c.align = b.align /\ c.sma = b.sma /\ c.rsi = b.rsi /\ c.momentum = b.momentum
             /\ c.premium = b.premium /\ c.regime = b.regime /\ c.flow = b.flow
             /\ c.quotes = b.quotes /\ c.fresh = b.fresh
<1>1. [b EXCEPT !.forecast = f] \in Readings
  BY DEF Readings
<1>2. f # None
  BY BoardsAssumption
<1> QED
  BY <1>1, <1>2 DEF Readings

\* What the other factors are worth.
LEMMA WorthIsNumber == \A n \in Readable : Worth(n) \in Int
BY DEF Readable, Worth, Points

\* A forecast that is no worse never scores lower.
LEMMA ScoreKeepsOrder ==
  ASSUME TrendWeight <= 18, NEW b \in Readings, b.forecast # None,
         NEW f \in ForecastRead, NoWorse(f, b.forecast)
  PROVE  Scored([b EXCEPT !.forecast = f]) >= Scored(b)
<1> DEFINE c == [b EXCEPT !.forecast = f]
           cost == ResolveCost(b.quotes).pct
           trend(r) == Points(50) + ForecastPoints(r) + Worth(r.sma)
<1>1. /\ c \in Readings /\ c.forecast # None /\ c.forecast = f
      /\ c.align = b.align /\ c.sma = b.sma /\ c.rsi = b.rsi /\ c.momentum = b.momentum
      /\ c.premium = b.premium /\ c.regime = b.regime /\ c.flow = b.flow
      /\ c.quotes = b.quotes /\ c.fresh = b.fresh
  BY OtherForecast
<1> HIDE DEF c
<1>2. /\ b.forecast \in ForecastRead /\ b.quotes \in Seq(Int) /\ b.fresh \in BOOLEAN
      /\ {b.sma, b.rsi, b.momentum, b.premium, b.regime, b.flow} \subseteq Readable
  BY DEF Readings
<1>3. cost \in Nat
  BY <1>2, CostIsNumber
<1> HIDE DEF cost
<1>4. ForecastPoints(b) \in Int /\ ForecastPoints(c) \in Int /\ ForecastPoints(b) <= ForecastPoints(c)
  <2> DEFINE mb == Expected(b.forecast.horizons)
             mc == Expected(f.horizons)
             ab == Agreement(b.forecast.horizons)
             ac == Agreement(f.horizons)
             eb == Clip(8 * Edge(mb, cost), 100)
             ec == Clip(8 * Edge(mc, cost), 100)
             sb == b.forecast.sure
             sc == f.sure
  <2>1. /\ mb \in Int /\ mc \in Int /\ ab \in Int /\ ac \in Int /\ sb \in Int /\ sc \in Int
        /\ mb <= mc /\ ab <= ac /\ sb <= sc
    BY <1>2 DEF ForecastRead, NoWorse
  <2>2. ForecastPoints(b) = eb + 4 * sb + ab
    BY DEF ForecastPoints, Points, cost
  <2>3. ForecastPoints(c) = ec + 4 * sc + ac
    BY <1>1 DEF ForecastPoints, Points, cost
  <2> HIDE DEF mb, mc, ab, ac, sb, sc
  <2>4. eb \in Int /\ ec \in Int /\ eb <= ec
    BY <1>3, <2>1, EdgeKeepsOrder
  <2> HIDE DEF eb, ec
  <2> QED
    BY <2>1, <2>2, <2>3, <2>4
<1>51. Worth(b.sma) \in Int /\ Worth(c.sma) = Worth(b.sma)
  BY <1>1, <1>2, WorthIsNumber
<1>5. trend(b) \in Int /\ trend(c) \in Int /\ trend(b) <= trend(c)
  BY <1>4, <1>51 DEF Points
<1> HIDE DEF trend
<1>6. /\ AlignTo(trend(b), b) \in Int /\ AlignTo(trend(c), c) \in Int
      /\ AlignTo(trend(b), b) <= AlignTo(trend(c), c)
  BY <1>1, <1>5, AlignKeepsOrder
<1>7. Slower(b) \in Int /\ Slower(c) = Slower(b)
  <2>1. /\ Worth(b.rsi) \in Int /\ Worth(b.momentum) \in Int /\ Worth(b.premium) \in Int
        /\ Worth(b.regime) \in Int /\ Worth(b.flow) \in Int
    BY <1>2, WorthIsNumber
  <2> QED
    BY <1>1, <2>1 DEF Slower
<1>8. FinalScore(AlignTo(trend(b), b) + Slower(b)) <= FinalScore(AlignTo(trend(c), c) + Slower(c))
  <2>1. /\ AlignTo(trend(b), b) + Slower(b) \in Int /\ AlignTo(trend(c), c) + Slower(c) \in Int
        /\ AlignTo(trend(b), b) + Slower(b) <= AlignTo(trend(c), c) + Slower(c)
    BY <1>6, <1>7
  <2> QED
    BY <2>1, FinalKeepsOrder
<1>9. \A r \in Readings : r.forecast # None =>
        Scored(r) = IF r.fresh THEN FinalScore(AlignTo(trend(r), r) + Slower(r)) ELSE 50
  BY DEF Scored, Discounted, trend
<1>10. FinalScore(AlignTo(trend(b), b) + Slower(b)) \in Int /\ FinalScore(AlignTo(trend(c), c) + Slower(c)) \in Int
  <2>1. /\ AlignTo(trend(b), b) + Slower(b) \in Int /\ AlignTo(trend(c), c) + Slower(c) \in Int
        /\ AlignTo(trend(b), b) + Slower(b) <= AlignTo(trend(b), b) + Slower(b)
        /\ AlignTo(trend(c), c) + Slower(c) <= AlignTo(trend(c), c) + Slower(c)
    BY <1>6, <1>7
  <2>2. \A k \in 0..100 : k \in Int
    OBVIOUS
  <2> QED
    BY <2>1, <2>2, FinalKeepsOrder
<1>11. Scored(c) >= Scored(b)
  BY <1>1, <1>2, <1>8, <1>9, <1>10
<1> QED
  BY <1>11 DEF c

\* A stored row carries the score of the inputs stored with it.
ScoreOfInputs ==
  /\ DOMAIN signals = Asset
  /\ \A s \in Asset : signals[s] # None =>
       signals[s].inputs \in Readings /\ signals[s].score = Scored(signals[s].inputs)

\* What is assembled from a board is readings again.
LEMMA InputsAreReadings ==
  ASSUME NEW s \in Asset, NEW b \in Readings
  PROVE  Inputs(s, b) \in Readings
<1> DEFINE kept(f, v) == IF f \in Carried(s, b) THEN v ELSE None
<1>1. Inputs(s, b) = [b EXCEPT !.forecast = kept("forecast", b.forecast), !.sma = kept("sma", b.sma),
                               !.align = kept("align", b.align), !.rsi = kept("rsi", b.rsi),
                               !.momentum = kept("momentum", b.momentum),
                               !.premium = kept("premium", b.premium),
                               !.regime = kept("regime", b.regime), !.flow = kept("flow", b.flow)]
  BY DEF Inputs, Readings
<1>2. \A f, v : kept(f, v) \in {v, None}
  OBVIOUS
<1> HIDE DEF kept
<1>3. \A v \in Readable : \A f : kept(f, v) \in Readable
  BY <1>2 DEF Readable
<1>4. /\ kept("forecast", b.forecast) \in ForecastRead \cup {None}
      /\ kept("align", b.align) \in {"full_bullish", "full_bearish", "not_aligned", None}
  BY <1>2 DEF Readings
<1>5. /\ kept("sma", b.sma) \in Readable /\ kept("rsi", b.rsi) \in Readable
      /\ kept("momentum", b.momentum) \in Readable /\ kept("premium", b.premium) \in Readable
      /\ kept("regime", b.regime) \in Readable /\ kept("flow", b.flow) \in Readable
  BY <1>3 DEF Readings
<1>6. Inputs(s, b) = [forecast |-> kept("forecast", b.forecast), align |-> kept("align", b.align),
                      sma |-> kept("sma", b.sma), rsi |-> kept("rsi", b.rsi),
                      momentum |-> kept("momentum", b.momentum),
                      premium |-> kept("premium", b.premium), regime |-> kept("regime", b.regime),
                      flow |-> kept("flow", b.flow), quotes |-> b.quotes, applies |-> b.applies,
                      bars |-> b.bars, fresh |-> b.fresh]
  BY <1>1 DEF Readings
<1>7. b.quotes \in Seq(Int) /\ b.applies \in SUBSET STRING /\ b.bars \in Nat /\ b.fresh \in BOOLEAN
  BY DEF Readings
<1> QED
  BY <1>4, <1>5, <1>6, <1>7 DEF Readings

\* The score a symbol is stored with never falls when its forecast is no worse in
\* its expected move, the agreement of its horizons and its confidence, whatever
\* the other factors are and through the alignment's cap, the rounding and the
\* clipping of compute_signal; for an alignment weight of at most 18 points.
THEOREM ForecastMonotoneHolds ==
  ASSUME TrendWeight <= 18
  PROVE  SignalsSpec => []ForecastMonotone
<1>1. SignalsInit => ScoreOfInputs
  BY DEF SignalsInit, ScoreOfInputs
<1>2. ScoreOfInputs /\ [SignalsNext]_signalVars => ScoreOfInputs'
  <2> SUFFICES ASSUME ScoreOfInputs, [SignalsNext]_signalVars PROVE ScoreOfInputs'
    OBVIOUS
  <2>1. ASSUME NEW s \in Asset, NEW b \in Boards[s], PublishSignal(s, b) PROVE ScoreOfInputs'
    <3>1. Inputs(s, b) \in Readings
      BY InputsAreReadings, BoardsAssumption
    <3>2. /\ signals' = [signals EXCEPT ![s] =
               [inputs |-> Inputs(s, b), score |-> Scored(Inputs(s, b)),
                signal |-> ScoreToSignal(Scored(Inputs(s, b)))]]
      BY <2>1 DEF PublishSignal
    <3> QED
      BY <3>1, <3>2 DEF ScoreOfInputs
  <2>2. CASE UNCHANGED signals
    BY <2>2 DEF ScoreOfInputs
  <2>3. /\ \A s \in Asset : SignalFails(s) => UNCHANGED signals
        /\ \A s \in Asset : \A b \in Boards[s] : WithholdSignal(s, b) => UNCHANGED signals
        /\ EndSignals => UNCHANGED signals
        /\ SignalsKilled => UNCHANGED signals
        /\ \A requested : StartSignals(requested) => UNCHANGED signals
        /\ UNCHANGED signalVars => UNCHANGED signals
    <3>1. \A s \in Asset : SignalFails(s) => UNCHANGED signals
      BY DEF SignalFails
    <3>2. \A s \in Asset : \A b \in Boards[s] : WithholdSignal(s, b) => UNCHANGED signals
      BY DEF WithholdSignal
    <3>3. EndSignals => UNCHANGED signals
      BY DEF EndSignals
    <3>4. SignalsKilled => UNCHANGED signals
      BY DEF SignalsKilled
    <3>5. \A requested : StartSignals(requested) => UNCHANGED signals
      BY DEF StartSignals
    <3>6. UNCHANGED signalVars => UNCHANGED signals
      BY DEF signalVars
    <3> QED
      BY <3>1, <3>2, <3>3, <3>4, <3>5, <3>6
  <2>4. UNCHANGED signals \/ \E s \in Asset : \E b \in Boards[s] : PublishSignal(s, b)
    BY <2>3 DEF SignalsNext
  <2> QED
    BY <2>1, <2>2, <2>4
<1>3. ScoreOfInputs => ForecastMonotone
  BY ScoreKeepsOrder, BoardsAssumption DEF ScoreOfInputs, ForecastMonotone, SignalRows
<1> QED
  BY <1>1, <1>2, <1>3, PTL DEF SignalsSpec

-----------------------------------------------------------------------------
(* The tournament's split                                                  *)

\* Points that lie on one grid, after s and up to h, take up their number of
\* steps of it.
LEMMA Spaced ==
  ASSUME NEW st \in Nat \ {0}, NEW b \in Int, NEW s \in Int, NEW h \in Int, s <= h,
         NEW B \in SUBSET Int, (s - b) % st = 0,
         \A j \in B : s < j /\ j <= h /\ (j - b) % st = 0
  PROVE  IsFiniteSet(B) /\ Cardinality(B) * st <= h - s
<1> DEFINE K == (h - s) \div st
           f == [j \in B |-> (j - s) \div st]
<1>1. K \in Nat /\ K * st <= h - s
  OBVIOUS
<1>2. ASSUME NEW j \in B
      PROVE  f[j] \in 1..K /\ j = s + (st * f[j])
  <2>1. j - b = st * ((j - b) \div st) /\ s - b = st * ((s - b) \div st)
    BY <1>2
  <2> DEFINE m == (j - b) \div st
             n == (s - b) \div st
  <2>2. m \in Int /\ n \in Int /\ j - s = st * (m - n)
    BY <2>1
  <2>3. (j - s) \div st = m - n
    <3> HIDE DEF m, n
    <3> QED
      BY <2>2
  <2>4. m - n >= 1
    <3> HIDE DEF m, n
    <3> QED
      BY <1>2, <2>2
  <2>5. m - n <= K
    <3>1. st * (m - n) <= h - s
      BY <1>2, <2>2
    <3> HIDE DEF m, n
    <3> QED
      BY <2>2, <3>1
  <2> HIDE DEF m, n
  <2> QED
    BY <2>2, <2>3, <2>4, <2>5
<1>3. f \in Injection(B, 1..K)
  BY <1>2 DEF Injection, IsInjective
<1>4. IsFiniteSet(1..K) /\ Cardinality(1..K) = K
  <2>1. K \in Nat
    BY <1>1
  <2> HIDE DEF K
  <2>2. IsFiniteSet(1..K) /\ Cardinality(1..K) = IF 1 > K THEN 0 ELSE K - 1 + 1
    BY <2>1, FS_Interval
  <2> QED
    BY <2>1, <2>2
<1>5. IsFiniteSet(B) /\ Cardinality(B) <= K
  <2> HIDE DEF f, K
  <2> QED
    BY <1>3, <1>4, FS_Injection
<1>6. Cardinality(B) \in Nat
  BY <1>5, FS_CardinalityType
<1>7. Cardinality(B) * st <= K * st
  <2> HIDE DEF K
  <2> QED
    BY <1>1, <1>5, <1>6
<1> QED
  <2> HIDE DEF K
  <2> QED
    BY <1>1, <1>5, <1>6, <1>7

\* Of a set of folds, one of the first m comes before one of the last n, with
\* the others between them.
LEMMA Between ==
  ASSUME NEW F \in SUBSET Int, IsFiniteSet(F), NEW m \in Int, NEW n \in Int,
         NEW s \in FirstOf(F, m), NEW h \in LastOf(F, n), m + n <= Cardinality(F),
         NEW M, M = {j \in F : s < j /\ j <= h}
  PROVE  s < h /\ Cardinality(M) >= Cardinality(F) - m - n + 1
<1> DEFINE L == {j \in F : j < s}
           U == {j \in F : j > h}
           LS == {j \in F : j <= s}
<1>1. /\ s \in F /\ h \in F /\ s \in Int /\ h \in Int
      /\ Cardinality(L) < m /\ Cardinality(U) < n
  BY DEF FirstOf, LastOf
<1>2. /\ IsFiniteSet(L) /\ IsFiniteSet(U) /\ IsFiniteSet(M) /\ IsFiniteSet(LS)
      /\ Cardinality(L) \in Nat /\ Cardinality(U) \in Nat /\ Cardinality(M) \in Nat
      /\ Cardinality(LS) \in Nat /\ Cardinality(F) \in Nat
  BY FS_Subset, FS_CardinalityType
<1>3. Cardinality(LS) = Cardinality(L) + 1
  <2>1. \A j \in F : j <= s <=> (j < s \/ j = s)
    BY <1>1
  <2>2. LS = L \cup {s}
    BY <1>1, <2>1
  <2>3. s \notin L
    BY <1>1
  <2> HIDE DEF L, LS
  <2> QED
    BY <1>2, <2>2, <2>3, FS_AddElement
<1>4. s < h
  <2> SUFFICES ASSUME h <= s PROVE FALSE
    BY <1>1
  <2>0. \A j \in F : j <= s \/ j > h
    BY <1>1
  <2>1. F = LS \cup U
    BY <2>0
  <2>2. Cardinality(F) <= Cardinality(LS) + Cardinality(U)
    <3> HIDE DEF LS, U
    <3>1. Cardinality(LS \cup U) = Cardinality(LS) + Cardinality(U) - Cardinality(LS \cap U)
      BY <1>2, FS_Union
    <3>2. Cardinality(LS \cap U) \in Nat
      BY <1>2, FS_Subset, FS_CardinalityType
    <3> QED
      BY <1>2, <2>1, <3>1, <3>2
  <2> HIDE DEF L, U, LS
  <2> QED
    BY <1>1, <1>2, <1>3, <2>2
<1>5. Cardinality(F) = Cardinality(LS) + Cardinality(M) + Cardinality(U)
  <2>0. \A j \in F : /\ j <= s \/ (s < j /\ j <= h) \/ j > h
                    /\ ~(j <= s /\ s < j) /\ ~(j <= h /\ j > h) /\ ~(j <= s /\ j > h)
    BY <1>1, <1>4
  <2>1. F = (LS \cup M) \cup U /\ LS \cap M = {} /\ (LS \cup M) \cap U = {}
    BY <2>0
  <2> HIDE DEF LS, U
  <2>2. /\ IsFiniteSet(LS \cup M)
        /\ Cardinality(LS \cup M) = Cardinality(LS) + Cardinality(M) - Cardinality(LS \cap M)
    BY <1>2, FS_Union
  <2>3. Cardinality((LS \cup M) \cup U) =
          Cardinality(LS \cup M) + Cardinality(U) - Cardinality((LS \cup M) \cap U)
    BY <1>2, <2>2, FS_Union
  <2>4. Cardinality(LS \cap M) = 0 /\ Cardinality((LS \cup M) \cap U) = 0
    BY <2>1, FS_EmptySet
  <2> QED
    BY <1>2, <2>1, <2>2, <2>3, <2>4
<1> HIDE DEF L, U, LS
<1>6. Cardinality(M) >= Cardinality(F) - m - n + 1
  BY <1>1, <1>2, <1>3, <1>5
<1> QED
  BY <1>4, <1>6

\* The folds' spacing is a positive number.
LEMMA FoldStepIsPositive ==
  ASSUME length \in Nat, ahead \in Nat
  PROVE  FoldStep \in Nat \ {0}
<1> DEFINE span == length - 1 - ahead - (MinTrain - 1)
<1>1. span \in Int /\ MaxFolds \in Nat \ {0}
  BY SelectionAssumption
<1>2. CASE span < 0
  BY <1>2, SelectionAssumption DEF FoldStep
<1>3. CASE span >= 0
  <2> DEFINE k == (span \div MaxFolds) + 1
  <2>1. k \in Nat
    BY <1>1, <1>3
  <2>2. FoldStep = Max({1, k})
    BY <1>3, SelectionAssumption DEF FoldStep
  <2> HIDE DEF k
  <2>3. Max({1, k}) \in Nat \ {0}
    <3>0. 1 \in Int /\ k \in Int
      BY <2>1
    <3>1. Max({1, k}) = IF 1 <= k THEN k ELSE 1
      BY <3>0, OfTwo
    <3> QED
      BY <2>1, <3>1
  <2> QED
    BY <2>2, <2>3
<1> QED
  BY <1>1, <1>2, <1>3

\* split_folds' embargo: with all the folds it asks for, no value the selection
\* is scored against lies after the holdout's first `now`.
LEMMA EmbargoSeparates ==
  ASSUME length \in Nat, ahead \in Nat \ {0}, NEW F \in SUBSET FoldIndices,
         HoldFolds(F) # {}, ~(EmbargoOf(F) < EmbargoWanted),
         NEW s \in SelFolds(F), NEW h \in HoldFolds(F)
  PROVE  s + ahead <= h
<1> DEFINE n == Cardinality(F)
           H == HoldoutSize(F)
           E == EmbargoWanted
           M == {j \in F : s < j /\ j <= h}
<1>1. FoldStep \in Nat \ {0}
  BY FoldStepIsPositive
<1>2. /\ F \subseteq Int /\ MinTrain \in Nat
      /\ \A j \in F : (j - (MinTrain - 1)) % FoldStep = 0
  BY <1>1, SelectionAssumption DEF FoldIndices
<1>3. IsFiniteSet(F) /\ n \in Nat
  <2>1. F \subseteq (MinTrain - 1)..(length - 1 - ahead) /\ MinTrain - 1 \in Int /\ length - 1 - ahead \in Int
    BY SelectionAssumption DEF FoldIndices
  <2> QED
    BY <2>1, FS_Interval, FS_Subset, FS_CardinalityType
<1>4. H \in Nat /\ E \in Int /\ (E + 1) * FoldStep >= ahead /\ E >= 0
  <2>1. H \in Nat
    <3> DEFINE share == (n * HoldoutPct) \div 100
    <3>1. share \in Nat /\ HoldoutMin \in Nat
      <4>1. n \in Nat /\ HoldoutPct \in Nat /\ HoldoutMin \in Nat
        BY <1>3, SelectionAssumption
      <4> HIDE DEF n
      <4>2. n * HoldoutPct \in Nat
        BY <4>1
      <4>3. (n * HoldoutPct) \div 100 \in Nat
        BY <4>2
      <4> QED
        BY <4>1, <4>3
    <3>2. H = Max({HoldoutMin, share})
      BY DEF HoldoutSize
    <3> HIDE DEF share, H
    <3>. HoldoutMin \in Int /\ share \in Int
      BY <3>1
    <3>3. Max({HoldoutMin, share}) = IF HoldoutMin <= share THEN share ELSE HoldoutMin
      BY OfTwo
    <3> QED
      BY <3>1, <3>2, <3>3
  <2>2. E + 1 = (ahead + FoldStep - 1) \div FoldStep
    BY <1>1 DEF EmbargoWanted
  <2>3. /\ ((ahead + FoldStep - 1) \div FoldStep) * FoldStep >= ahead
        /\ (ahead + FoldStep - 1) \div FoldStep >= 1
    BY <1>1
  <2>4. E \in Int
    BY <1>1 DEF EmbargoWanted
  <2> HIDE DEF E
  <2> QED
    BY <2>1, <2>2, <2>3, <2>4
<1>5. EmbargoOf(F) = E
  <2> DEFINE rest == n - H - HoldoutMin
             room == Max({0, rest})
  <2>1. rest \in Int
    <3>1. HoldoutMin \in Int
      BY SelectionAssumption
    <3> HIDE DEF n, H
    <3> QED
      BY <1>3, <1>4, <3>1
  <2>2. room \in Int
    <3> HIDE DEF rest
    <3>0. 0 \in Int
      OBVIOUS
    <3>1. Max({0, rest}) = IF 0 <= rest THEN rest ELSE 0
      BY <2>1, <3>0, OfTwo
    <3> QED
      BY <2>1, <3>1
  <2>3. EmbargoOf(F) = Min({E, room})
    BY DEF EmbargoOf
  <2> HIDE DEF room
  <2>4. Min({E, room}) = IF E <= room THEN E ELSE room
    BY <1>4, <2>2, OfTwo
  <2> QED
    BY <1>4, <2>2, <2>3, <2>4
<1>6. Splits(F) /\ s \in FirstOf(F, n - H - E) /\ h \in LastOf(F, H)
  BY <1>5 DEF HoldFolds, SelFolds, SelectionSize
<1> HIDE DEF n, H, E
<1>7. s < h /\ Cardinality(M) >= n - (n - H - E) - H + 1
  <2> DEFINE m == n - H - E
  <2>1. m \in Int /\ m + H <= n /\ s \in FirstOf(F, m)
    BY <1>3, <1>4, <1>6
  <2> HIDE DEF m
  <2>2. s < h /\ Cardinality(M) >= Cardinality(F) - m - H + 1
    <3>1. H \in Int /\ m + H <= Cardinality(F) /\ h \in LastOf(F, H) /\ F \in SUBSET Int
      BY <1>2, <1>4, <1>6, <2>1 DEF n
    <3>2. M = {j \in F : s < j /\ j <= h}
      OBVIOUS
    <3> HIDE DEF M
    <3> QED
      BY <1>3, <2>1, <3>1, <3>2, Between
  <2> QED
    BY <2>2 DEF m, n
<1>8. IsFiniteSet(M) /\ Cardinality(M) * FoldStep <= h - s /\ s \in Int /\ h \in Int
  <2> DEFINE b == MinTrain - 1
  <2>1. s \in F /\ h \in F
    BY <1>6 DEF FirstOf, LastOf
  <2>2. /\ b \in Int /\ s \in Int /\ h \in Int
        /\ (s - b) % FoldStep = 0
    BY <1>2, <2>1
  <2>3. s <= h
    BY <1>7, <2>2
  <2>4. M \in SUBSET Int
    BY <1>2
  <2>5. \A j \in M : s < j /\ j <= h /\ (j - b) % FoldStep = 0
    BY <1>2
  <2> HIDE DEF M, b
  <2> QED
    BY <1>1, <2>2, <2>3, <2>4, <2>5, Spaced
<1>9. Cardinality(M) >= E + 1 /\ Cardinality(M) \in Nat
  BY <1>3, <1>4, <1>7, <1>8, FS_CardinalityType
<1>10. Cardinality(M) * FoldStep >= (E + 1) * FoldStep
  <2> HIDE DEF M
  <2> QED
    BY <1>1, <1>4, <1>9
<1> HIDE DEF M
<1> QED
  BY <1>1, <1>4, <1>8, <1>9, <1>10

\* A winner's evidence: what ConfirmedOutOfSample says of it.
OutOfSample(c) ==
  /\ Hold(c) # {}
  /\ Material(c, Hold(c), "naive", Hold("naive"))
  /\ \/ EmbargoOf(FoldsOf(c)) < EmbargoWanted
     \/ \A s \in Sel(c), h \in Hold(c) : s + ahead <= h

\* It is a fact of the series and the walks alone.
LEMMA EvidenceStands ==
  ASSUME NEW c, UNCHANGED <<length, ahead, walks>>
  PROVE  OutOfSample(c)' = OutOfSample(c)
<1>1. FoldStep' = FoldStep
  BY DEF FoldStep
<1>2. FoldIndices' = FoldIndices
  BY <1>1 DEF FoldIndices
<1>3. FoldsOf(c)' = FoldsOf(c) /\ FoldsOf("naive")' = FoldsOf("naive")
  BY <1>2 DEF FoldsOf
<1>4. EmbargoWanted' = EmbargoWanted
  BY <1>1 DEF EmbargoWanted
<1>5. EmbargoOf(FoldsOf(c))' = EmbargoOf(FoldsOf(c))
  BY <1>3, <1>4 DEF EmbargoOf
<1>6. Hold(c)' = Hold(c) /\ Hold("naive")' = Hold("naive")
  BY <1>3, <1>4, <1>5 DEF Hold, HoldFolds, Splits, SelectionSize, EmbargoOf
<1>7. Sel(c)' = Sel(c)
  BY <1>3, <1>4, <1>5 DEF Sel, SelFolds, Splits, SelectionSize, EmbargoOf
<1>8. /\ ErrorSum(c, Hold(c))' = ErrorSum(c, Hold(c))
      /\ ErrorSum("naive", Hold("naive"))' = ErrorSum("naive", Hold("naive"))
  BY <1>6 DEF ErrorSum, FoldError
<1>9. Material(c, Hold(c), "naive", Hold("naive"))' = Material(c, Hold(c), "naive", Hold("naive"))
  BY <1>6, <1>8 DEF Material
<1> QED
  BY <1>4, <1>5, <1>6, <1>7, <1>9 DEF OutOfSample

\* Who may have entered, over which folds; and the winner's evidence.
TournamentInv ==
  /\ length \in Lengths \cap Nat /\ ahead \in Nat \ {0} /\ walked \in 0..Len(Candidates)
  /\ \A c \in Entered : (\E k \in DOMAIN Candidates : c = Candidates[k]) \/ c = "ensemble"
  /\ \A c \in Entered : DOMAIN walks[c] \subseteq FoldIndices
  /\ stage # "ended" => winner = Undecided
  /\ \A c \in {winner} \ {Undecided, "naive"} : OutOfSample(c)

\* The best candidate is one that entered, or naive.
LEMMA BestEntered ==
  ASSUME TournamentInv, Best # "naive"
  PROVE  Best \in Entered
<1> DEFINE least == {c \in Entered : /\ BeatsNaive(c)
                                     /\ \A d \in Entered : ~Below(d, Sel(d), c, Sel(c))}
           places == {k \in DOMAIN Order : Order[k] \in least}
<1>1. least # {} /\ Best = Order[Min(places)] /\ least \subseteq Entered
  BY DEF Best
<1> HIDE DEF least
<1>2. Candidates \in Seq(STRING) /\ Len(Candidates) \in Nat
      /\ DOMAIN Candidates = 1..Len(Candidates)
  BY SelectionAssumption
<1>3. /\ DOMAIN Order = 1..(Len(Candidates) + 1)
      /\ \A k \in 1..Len(Candidates) : Order[k] = Candidates[k]
      /\ Order[Len(Candidates) + 1] = "ensemble"
  BY <1>2 DEF Order
<1>4. places \in SUBSET Nat /\ places # {}
  <2>1. PICK c \in least : TRUE
    BY <1>1
  <2>2. (\E k \in DOMAIN Candidates : c = Candidates[k]) \/ c = "ensemble"
    BY <1>1, <2>1 DEF TournamentInv
  <2>3. \E k \in DOMAIN Order : Order[k] = c
    BY <1>2, <1>3, <2>2
  <2> QED
    BY <1>3, <2>1, <2>3
<1>5. Min(places) \in places
  <2> HIDE DEF places
  <2> QED
    BY <1>4, MinIs
<1> QED
  BY <1>1, <1>5

\* Every step of the tournament keeps the invariant.
LEMMA SelectionNextKeeps ==
  ASSUME TournamentInv, [SelectionNext]_selectionVars
  PROVE  TournamentInv'
<1> USE DEF Entered
<1>1. CASE walks' = walks /\ winner' = winner /\ UNCHANGED <<length, ahead, walked>>
           /\ (stage' # "ended" => stage # "ended")
  <2>1. FoldIndices' = FoldIndices
    BY <1>1 DEF FoldIndices, FoldStep
  <2>2. \A c \in {winner} : OutOfSample(c)' = OutOfSample(c)
    BY <1>1, EvidenceStands
  <2> QED
    BY <1>1, <2>1, <2>2 DEF TournamentInv
<1>2. ASSUME winner = Undecided, winner' = Undecided, UNCHANGED <<length, ahead>>,
             walked' \in 0..Len(Candidates),
             \A c \in DOMAIN walks' : (\E k \in DOMAIN Candidates : c = Candidates[k]) \/ c = "ensemble",
             \A c \in DOMAIN walks' : DOMAIN walks'[c] \subseteq FoldIndices
      PROVE  TournamentInv'
  <2>1. FoldIndices' = FoldIndices
    BY <1>2 DEF FoldIndices, FoldStep
  <2> QED
    BY <1>2, <2>1 DEF TournamentInv
<1>3. CASE NoTournament
  BY <1>1, <1>3 DEF NoTournament
<1>4. CASE WalkForward
  <2>1. Len(Candidates) \in Nat /\ DOMAIN Candidates = 1..Len(Candidates)
    BY SelectionAssumption
  <2>2. walked' \in 1..Len(Candidates)
    BY <1>4, <2>1 DEF WalkForward, TournamentInv
  <2>3. PICK w \in Walks(FoldIndices) :
          walks' = IF DOMAIN w = {} THEN walks
                   ELSE [c \in Entered \cup {Candidates[walked']} |->
                           IF c = Candidates[walked'] THEN w ELSE walks[c]]
    BY <1>4 DEF WalkForward
  <2>4. DOMAIN w \subseteq FoldIndices
    <3>1. length \in Lengths /\ length \in Nat /\ ahead \in Nat /\ MinTrain \in Nat \ {0}
      BY SelectionAssumption DEF TournamentInv
    <3>2. (MinTrain - 1)..(length - 1 - ahead) \subseteq 0..length
      BY <3>1
    <3>3. FoldIndices \in SUBSET (0..length)
      BY <3>2 DEF FoldIndices
    <3>4. \A v \in Walks(FoldIndices) : DOMAIN v \subseteq FoldIndices
      BY <3>1, <3>3, WalksAssumption
    <3> QED
      BY <2>3, <3>4
  <2>5. ASSUME NEW c \in DOMAIN walks'
        PROVE  /\ (\E k \in DOMAIN Candidates : c = Candidates[k]) \/ c = "ensemble"
               /\ DOMAIN walks'[c] \subseteq FoldIndices
    <3>1. CASE DOMAIN w = {}
      BY <2>3, <2>5, <3>1 DEF TournamentInv
    <3>2. CASE DOMAIN w # {} /\ c = Candidates[walked']
      BY <2>1, <2>2, <2>3, <2>4, <3>2
    <3>3. CASE DOMAIN w # {} /\ c # Candidates[walked']
      BY <2>3, <2>5, <3>3 DEF TournamentInv
    <3> QED
      BY <3>1, <3>2, <3>3
  <2>6. /\ winner = Undecided /\ winner' = Undecided /\ UNCHANGED <<length, ahead>>
        /\ walked' \in 0..Len(Candidates)
    BY <1>4, <2>1, <2>2 DEF WalkForward, TournamentInv
  <2> QED
    BY <1>2, <2>5, <2>6
<1>5. CASE AddEnsemble
  <2>1. ASSUME NEW c \in DOMAIN walks'
        PROVE  /\ (\E k \in DOMAIN Candidates : c = Candidates[k]) \/ c = "ensemble"
               /\ DOMAIN walks'[c] \subseteq FoldIndices
    <3>1. CASE walks' = walks
      BY <2>1, <3>1 DEF TournamentInv
    <3>2. CASE \E kept \in SUBSET Entered :
                 LET common == {i \in FoldIndices : \A d \in kept : i \in FoldsOf(d)}
                 IN  \E mean \in Walks(common) :
                       /\ DOMAIN mean = common
                       /\ walks' = [d \in Entered \cup {"ensemble"} |->
                                     IF d = "ensemble" THEN mean ELSE walks[d]]
      BY <2>1, <3>2 DEF TournamentInv, Entered
    <3> QED
      BY <1>5, <3>1, <3>2 DEF AddEnsemble
  <2> QED
    BY <1>2, <1>5, <2>1 DEF AddEnsemble, TournamentInv
<1>6. CASE SelectWinner
  <2>0. UNCHANGED <<length, ahead, walks>> /\ stage' = "ended" /\ UNCHANGED walked
        /\ winner = Undecided
    BY <1>6 DEF SelectWinner, TournamentInv
  <2>1. FoldIndices' = FoldIndices
    BY <2>0 DEF FoldIndices, FoldStep
  <2>2. ASSUME NEW c \in {winner'} \ {Undecided, "naive"}
        PROVE  OutOfSample(c)'
    <3>1. Best # "naive" /\ c = Best /\ ReasonsFor(c) = {}
      BY <1>6, <2>2 DEF SelectWinner
    <3>2. Hold(c) # {} /\ Material(c, Hold(c), "naive", Hold("naive"))
      BY <3>1 DEF ReasonsFor
    <3>3. FoldsOf(c) \subseteq FoldIndices
      BY <3>1, BestEntered DEF FoldsOf, TournamentInv
    <3>4. EmbargoOf(FoldsOf(c)) < EmbargoWanted
          \/ \A s \in Sel(c), h \in Hold(c) : s + ahead <= h
      BY <3>2, <3>3, EmbargoSeparates DEF Sel, Hold, TournamentInv
    <3> QED
      BY <2>0, <3>2, <3>4, EvidenceStands DEF OutOfSample
  <2> QED
    BY <2>0, <2>1, <2>2 DEF TournamentInv
<1>7. CASE UNCHANGED selectionVars
  BY <1>1, <1>7 DEF selectionVars
<1> QED
  BY <1>3, <1>4, <1>5, <1>6, <1>7 DEF SelectionNext

\* A model is served only on folds it was not chosen by: whatever the length of
\* the series, the horizon, the candidates and their outcomes, split_folds'
\* embargo of ceil(horizon / step) - 1 folds keeps every value the selection was
\* scored against out of the holdout, unless it had to be cut.
THEOREM ConfirmedOutOfSampleHolds == SelectionSpec => []ConfirmedOutOfSample
<1>1. SelectionInit => TournamentInv
  <2> SUFFICES ASSUME SelectionInit PROVE TournamentInv
    OBVIOUS
  <2>1. length \in Lengths \cap Nat /\ ahead \in Nat \ {0} /\ Len(Candidates) \in Nat
    BY SelectionAssumption DEF SelectionInit
  <2>2. DOMAIN walks = {} /\ walked = 0 /\ winner = Undecided
    BY DEF SelectionInit
  <2> QED
    BY <2>1, <2>2 DEF TournamentInv, Entered
<1>2. TournamentInv => ConfirmedOutOfSample
  BY DEF TournamentInv, ConfirmedOutOfSample, OutOfSample
<1> QED
  BY <1>1, <1>2, SelectionNextKeeps, PTL DEF SelectionSpec

-----------------------------------------------------------------------------
(* The stories.                                                             *)

SameItem(x, y) == x.item # "" /\ x.source = y.source /\ x.item = y.item

\* The first rule of the order is the source's own identity claim, and an edge
\* is the place of a rule in the order.
LEMMA EdgesAre ==
  ASSUME NEW x, NEW y
  PROVE  /\ Matches("source_item", x, y) <=> SameItem(x, y)
         /\ Edges(x, y) \in SUBSET (1..6)
         /\ 1 \in Edges(x, y) <=> SameItem(x, y)
<1>1. Matches("source_item", x, y) <=> SameItem(x, y)
  BY DEF Matches, SameItem
<1>2. DOMAIN MatchOrder = 1..6 /\ MatchOrder[1] = "source_item"
  BY DEF MatchOrder
<1>3. 1 \in Edges(x, y) <=> Matches("source_item", x, y)
  BY <1>2 DEF Edges
<1>4. Edges(x, y) \in SUBSET (1..6)
  BY <1>2 DEF Edges
<1> QED
  BY <1>1, <1>3, <1>4

\* A group is a sequence of the batch's articles.
StoryShape ==
  /\ batch \in Batches
  /\ groups \in Seq(Seq([article : batch, match : Nat]))

\* The strongest match of x with a group it is linked to.
LEMMA StrongestIs ==
  ASSUME StoryShape, NEW x, NEW g \in Linked(x)
  PROVE  /\ g \in DOMAIN groups /\ Strongest(x, g) \in 1..6
         /\ Strongest(x, g) = 1 <=> \E k \in DOMAIN groups[g] : SameItem(x, groups[g][k].article)
<1> DEFINE L == {j \in DOMAIN groups[g] : Edges(x, groups[g][j].article) # {}}
           B == {BestEdge(x, groups[g][k].article) : k \in L}
<1>1. g \in DOMAIN groups /\ L # {}
  BY DEF Linked
<1>2. ASSUME NEW k \in L
      PROVE  /\ BestEdge(x, groups[g][k].article) \in Edges(x, groups[g][k].article)
             /\ \A e \in Edges(x, groups[g][k].article) : BestEdge(x, groups[g][k].article) <= e
  <2> DEFINE E == Edges(x, groups[g][k].article)
  <2>1. E \in SUBSET Nat /\ E # {}
    BY EdgesAre
  <2> HIDE DEF E
  <2>2. Min(E) \in E /\ \A e \in E : Min(E) <= e
    BY <2>1, MinIs
  <2> QED
    BY <2>2 DEF BestEdge, E
<1>3. B \in SUBSET (1..6) /\ B # {}
  BY <1>1, <1>2, EdgesAre
<1>4. Strongest(x, g) = Min(B)
  BY DEF Strongest
<1>5. 1 \in B <=> \E k \in DOMAIN groups[g] : SameItem(x, groups[g][k].article)
  <2>1. ASSUME NEW k \in L, BestEdge(x, groups[g][k].article) = 1
        PROVE  SameItem(x, groups[g][k].article)
    BY <1>2, <2>1, EdgesAre
  <2>2. ASSUME NEW k \in DOMAIN groups[g], SameItem(x, groups[g][k].article)
        PROVE  k \in L /\ BestEdge(x, groups[g][k].article) = 1
    <3>1. 1 \in Edges(x, groups[g][k].article)
      BY <2>2, EdgesAre
    <3>2. k \in L
      BY <3>1
    <3>3. BestEdge(x, groups[g][k].article) <= 1 /\ BestEdge(x, groups[g][k].article) \in 1..6
      BY <1>2, <3>1, <3>2, EdgesAre
    <3> QED
      BY <3>2, <3>3
  <2> QED
    BY <2>1, <2>2
<1> HIDE DEF B, L
<1>6. B \in SUBSET Nat
  BY <1>3
<1>7. Min(B) \in B /\ \A b \in B : Min(B) <= b
  BY <1>3, <1>6, MinIs
<1>8. Min(B) \in 1..6 /\ (Min(B) = 1 <=> 1 \in B)
  <2>1. Min(B) \in 1..6
    BY <1>3, <1>7
  <2>2. 1 \in B => Min(B) <= 1
    BY <1>7
  <2> QED
    BY <1>7, <2>1, <2>2
<1> QED
  BY <1>1, <1>4, <1>5, <1>8

\* The group joined is linked by a match none of the others beats.
LEMMA JoinedIs ==
  ASSUME StoryShape, NEW x, Linked(x) # {}
  PROVE  /\ JoinedGroup(x) \in Linked(x)
         /\ \A h \in Linked(x) : Strongest(x, JoinedGroup(x)) <= Strongest(x, h)
<1> DEFINE S == {Strongest(x, h) : h \in Linked(x)}
           J == {g \in Linked(x) : \A h \in Linked(x) : Strongest(x, g) <= Strongest(x, h)}
<1>1. S \in SUBSET Nat /\ S # {}
  BY StrongestIs
<1>2. PICK s \in S : \A t \in S : s <= t
  BY <1>1, Least
<1>3. J # {}
  BY <1>2
<1>4. J \in SUBSET Nat
  <2>1. DOMAIN groups = 1..Len(groups) /\ Len(groups) \in Nat
    BY DEF StoryShape
  <2>2. J \subseteq DOMAIN groups
    BY DEF Linked
  <2> HIDE DEF J
  <2> QED
    BY <2>1, <2>2
<1>5. JoinedGroup(x) = Min(J)
  BY DEF JoinedGroup
<1> HIDE DEF J
<1>6. Min(J) \in J
  BY <1>3, <1>4, MinIs
<1> QED
  BY <1>5, <1>6 DEF J

\* No item of a source is in two groups.
OneStory ==
  \A g, h \in DOMAIN groups : \A k \in DOMAIN groups[g], l \in DOMAIN groups[h] :
    SameItem(groups[g][k].article, groups[h][l].article) => g = h

\* The articles are placed in the order of the sort, and so is each story.
InOrder ==
  /\ \A y \in placed, x \in batch \ placed : OlderArticle(y, x)
  /\ \A g \in DOMAIN groups : \A k \in DOMAIN groups[g] :
       /\ groups[g][k].article \in placed
       /\ \A i \in DOMAIN groups[g] :
            i < k => OlderArticle(groups[g][i].article, groups[g][k].article)

StoryInv == StoryShape /\ OneStory /\ InOrder

\* What a sequence is.
LEMMA SeqOf ==
  ASSUME NEW S, NEW s \in Seq(S)
  PROVE  /\ Len(s) \in Nat /\ DOMAIN s = 1..Len(s)
         /\ \A i \in DOMAIN s : s[i] \in S
OBVIOUS

\* One element more.
LEMMA AppendIs ==
  ASSUME NEW S, NEW s \in Seq(S), NEW e \in S
  PROVE  /\ Append(s, e) \in Seq(S)
         /\ DOMAIN Append(s, e) = 1..(Len(s) + 1)
         /\ \A i \in DOMAIN Append(s, e) : i \in DOMAIN s \/ i = Len(s) + 1
         /\ \A i \in DOMAIN s : i \in DOMAIN Append(s, e) /\ Append(s, e)[i] = s[i]
         /\ Append(s, e)[Len(s) + 1] = e
OBVIOUS

\* What joins a group is its last member.
LEMMA JoinsLast ==
  ASSUME StoryInv, NEW x \in batch,
         groups' = IF Linked(x) = {} THEN Append(groups, <<[article |-> x, match |-> 0]>>)
                   ELSE LET g == JoinedGroup(x)
                        IN  [groups EXCEPT ![g] =
                               Append(@, [article |-> x, match |-> Strongest(x, g)])],
         NEW g \in DOMAIN groups', NEW k \in DOMAIN groups'[g]
  PROVE  \/ /\ groups'[g][k].article = x
            /\ \A i \in DOMAIN groups'[g] :
                 i < k => g \in DOMAIN groups /\ i \in DOMAIN groups[g] /\ groups'[g][i] = groups[g][i]
         \/ /\ g \in DOMAIN groups /\ k \in DOMAIN groups[g] /\ groups'[g][k] = groups[g][k]
            /\ \A i \in DOMAIN groups'[g] :
                 i < k => i \in DOMAIN groups[g] /\ groups'[g][i] = groups[g][i]
<1>1. /\ groups \in Seq(Seq([article : batch, match : Nat])) /\ Len(groups) \in Nat
      /\ DOMAIN groups = 1..Len(groups)
  BY SeqOf DEF StoryInv, StoryShape
<1>2. \A h \in DOMAIN groups : /\ groups[h] \in Seq([article : batch, match : Nat])
                               /\ Len(groups[h]) \in Nat /\ DOMAIN groups[h] = 1..Len(groups[h])
  BY <1>1, SeqOf
<1>3. CASE Linked(x) = {}
  <2> DEFINE n == <<[article |-> x, match |-> 0]>>
  <2>1. /\ groups' = Append(groups, n) /\ n \in Seq([article : batch, match : Nat])
        /\ DOMAIN n = {1} /\ n[1].article = x
    BY <1>3
  <2> HIDE DEF n
  <2>2. /\ \A h \in DOMAIN groups' : h \in DOMAIN groups \/ h = Len(groups) + 1
        /\ \A h \in DOMAIN groups : groups'[h] = groups[h]
        /\ groups'[Len(groups) + 1] = n
    <3> DEFINE T == Seq([article : batch, match : Nat])
    <3>1. groups \in Seq(T)
      BY <1>1
    <3>2. n \in T
      BY <2>1
    <3> HIDE DEF T
    <3> QED
      BY <2>1, <3>1, <3>2, AppendIs
  <2>3. CASE g \in DOMAIN groups
    BY <2>2, <2>3
  <2>4. CASE g = Len(groups) + 1
    BY <2>1, <2>2, <2>4
  <2> QED
    BY <2>2, <2>3, <2>4
<1>4. CASE Linked(x) # {}
  <2>1. PICK j : j = JoinedGroup(x)
    OBVIOUS
  <2>2. PICK m : m = [article |-> x, match |-> Strongest(x, j)]
    OBVIOUS
  <2>3. groups' = [groups EXCEPT ![j] = Append(groups[j], m)] /\ m.article = x
    BY <1>4, <2>1, <2>2
  <2>4. m \in [article : batch, match : Nat]
    BY <1>4, <2>1, <2>2, JoinedIs, StrongestIs DEF StoryInv
  <2>5. CASE g = j
    <3>1. groups'[g] = Append(groups[g], m) /\ g \in DOMAIN groups
      BY <2>3, <2>5
    <3>2. /\ \A i \in DOMAIN groups'[g] : i \in DOMAIN groups[g] \/ i = Len(groups[g]) + 1
          /\ \A i \in DOMAIN groups[g] : groups'[g][i] = groups[g][i]
          /\ groups'[g][Len(groups[g]) + 1] = m
      BY <1>2, <2>4, <3>1, AppendIs
    <3>3. m.article = x
      BY <2>3
    <3>4. DOMAIN groups[g] = 1..Len(groups[g]) /\ Len(groups[g]) \in Nat
      BY <1>2, <3>1
    <3>5. CASE k = Len(groups[g]) + 1
      <4>1. groups'[g][k].article = x
        BY <3>2, <3>3, <3>5
      <4>2. \A i \in DOMAIN groups'[g] :
              i < k => i \in DOMAIN groups[g] /\ groups'[g][i] = groups[g][i]
        BY <3>2, <3>4, <3>5
      <4> QED
        BY <3>1, <4>1, <4>2
    <3>6. CASE k \in DOMAIN groups[g]
      <4>1. \A i \in DOMAIN groups'[g] :
              i < k => i \in DOMAIN groups[g] /\ groups'[g][i] = groups[g][i]
        BY <3>2, <3>4, <3>6
      <4> QED
        BY <3>1, <3>2, <3>6, <4>1
    <3> QED
      BY <3>2, <3>5, <3>6
  <2>6. CASE g # j
    BY <1>2, <2>3, <2>6
  <2> QED
    BY <2>5, <2>6
<1> QED
  BY <1>3, <1>4

\* An article placed is the oldest of those that are left.
LEMMA PlaceKeepsOrder ==
  ASSUME StoryInv, Place
  PROVE  InOrder'
<1>1. PICK x \in batch \ placed :
        /\ \A y \in batch \ placed : y = x \/ OlderArticle(x, y)
        /\ placed' = placed \cup {x} /\ batch' = batch
        /\ groups' = IF Linked(x) = {} THEN Append(groups, <<[article |-> x, match |-> 0]>>)
                     ELSE LET g == JoinedGroup(x)
                          IN  [groups EXCEPT ![g] =
                                 Append(@, [article |-> x, match |-> Strongest(x, g)])]
  BY DEF Place
<1>2. ASSUME NEW y \in placed', NEW z \in batch' \ placed' PROVE OlderArticle(y, z)
  BY <1>1, <1>2 DEF StoryInv, InOrder
<1>3. ASSUME NEW g \in DOMAIN groups', NEW k \in DOMAIN groups'[g]
      PROVE  /\ groups'[g][k].article \in placed'
             /\ \A i \in DOMAIN groups'[g] :
                  i < k => OlderArticle(groups'[g][i].article, groups'[g][k].article)
  <2>1. \/ /\ groups'[g][k].article = x
           /\ \A i \in DOMAIN groups'[g] :
                i < k => g \in DOMAIN groups /\ i \in DOMAIN groups[g] /\ groups'[g][i] = groups[g][i]
        \/ /\ g \in DOMAIN groups /\ k \in DOMAIN groups[g] /\ groups'[g][k] = groups[g][k]
           /\ \A i \in DOMAIN groups'[g] :
                i < k => i \in DOMAIN groups[g] /\ groups'[g][i] = groups[g][i]
    BY <1>1, <1>3, JoinsLast
  <2> QED
    BY <1>1, <2>1 DEF StoryInv, InOrder
<1> QED
  BY <1>2, <1>3 DEF InOrder, OlderArticle, StoryTime

\* An article placed.
LEMMA PlaceKeepsOne ==
  ASSUME StoryInv, Place
  PROVE  StoryShape' /\ OneStory'
<1>1. PICK x \in batch :
        /\ groups' = IF Linked(x) = {} THEN Append(groups, <<[article |-> x, match |-> 0]>>)
                     ELSE LET g == JoinedGroup(x)
                          IN  [groups EXCEPT ![g] =
                                 Append(@, [article |-> x, match |-> Strongest(x, g)])]
        /\ batch' = batch
  BY DEF Place
<1>2. /\ groups \in Seq(Seq([article : batch, match : Nat])) /\ Len(groups) \in Nat
      /\ DOMAIN groups = 1..Len(groups)
      /\ \A g \in DOMAIN groups : /\ groups[g] \in Seq([article : batch, match : Nat])
                                  /\ Len(groups[g]) \in Nat /\ DOMAIN groups[g] = 1..Len(groups[g])
  <2>1. groups \in Seq(Seq([article : batch, match : Nat]))
    BY DEF StoryInv, StoryShape
  <2>2. /\ Len(groups) \in Nat /\ DOMAIN groups = 1..Len(groups)
        /\ \A g \in DOMAIN groups : groups[g] \in Seq([article : batch, match : Nat])
    BY <2>1, SeqOf
  <2>3. \A g \in DOMAIN groups : Len(groups[g]) \in Nat /\ DOMAIN groups[g] = 1..Len(groups[g])
    BY <2>2, SeqOf
  <2> QED
    BY <2>1, <2>2, <2>3
<1>3. CASE Linked(x) = {}
  <2> DEFINE n == <<[article |-> x, match |-> 0]>>
  <2>1. groups' = Append(groups, n) /\ n \in Seq([article : batch, match : Nat]) /\ Len(n) = 1
    BY <1>1, <1>3
  <2>2. n[1].article = x
    OBVIOUS
  <2> HIDE DEF n
  <2>3. /\ groups' \in Seq(Seq([article : batch, match : Nat]))
        /\ \A g \in DOMAIN groups' : g \in DOMAIN groups \/ g = Len(groups) + 1
        /\ \A g \in DOMAIN groups : groups'[g] = groups[g]
        /\ groups'[Len(groups) + 1] = n /\ DOMAIN n = {1}
    <3>1. DOMAIN n = {1}
      BY <2>1
    <3> QED
      BY <1>2, <2>1, <3>1, AppendIs
  <2>4. ASSUME NEW g \in DOMAIN groups, NEW k \in DOMAIN groups[g]
        PROVE  ~SameItem(x, groups[g][k].article)
    BY <1>3, EdgesAre DEF Linked
  <2>5. ASSUME NEW g \in DOMAIN groups', NEW h \in DOMAIN groups',
               NEW k \in DOMAIN groups'[g], NEW l \in DOMAIN groups'[h],
               SameItem(groups'[g][k].article, groups'[h][l].article)
        PROVE  g = h
    <3>1. /\ g \in DOMAIN groups \/ g = Len(groups) + 1
          /\ h \in DOMAIN groups \/ h = Len(groups) + 1
      BY <2>3
    <3>2. CASE g \in DOMAIN groups /\ h \in DOMAIN groups
      BY <2>3, <2>5, <3>2 DEF StoryInv, OneStory
    <3>3. CASE g \in DOMAIN groups /\ h = Len(groups) + 1
      <4>1. SameItem(groups[g][k].article, x) /\ k \in DOMAIN groups[g]
        BY <2>2, <2>3, <2>5, <3>3
      <4>2. SameItem(x, groups[g][k].article)
        BY <4>1 DEF SameItem
      <4> QED
        BY <2>4, <3>3, <4>1, <4>2
    <3>4. CASE g = Len(groups) + 1 /\ h \in DOMAIN groups
      <4>1. SameItem(x, groups[h][l].article) /\ l \in DOMAIN groups[h]
        BY <2>2, <2>3, <2>5, <3>4
      <4> QED
        BY <2>4, <3>4, <4>1
    <3> QED
      BY <3>1, <3>2, <3>3, <3>4
  <2>6. OneStory'
    BY <2>5 DEF OneStory
  <2> QED
    BY <1>1, <2>3, <2>6 DEF StoryInv, StoryShape
<1>4. CASE Linked(x) # {}
  <2>1. PICK j : j = JoinedGroup(x)
    OBVIOUS
  <2>2. PICK s : s = Strongest(x, j)
    OBVIOUS
  <2>3. j \in Linked(x) /\ j \in DOMAIN groups /\ s \in 1..6 /\ \A h \in Linked(x) : s <= Strongest(x, h)
    BY <1>4, <2>1, <2>2, JoinedIs, StrongestIs DEF StoryInv
  <2> DEFINE m == [article |-> x, match |-> s]
  <2>4. groups' = [groups EXCEPT ![j] = Append(groups[j], m)]
    BY <1>1, <1>4, <2>1, <2>2
  <2>5. m \in [article : batch, match : Nat] /\ m.article = x
    BY <2>3
  <2> HIDE DEF m
  <2>6. /\ Append(groups[j], m) \in Seq([article : batch, match : Nat])
        /\ \A k \in DOMAIN Append(groups[j], m) :
             k \in DOMAIN groups[j] \/ (k = Len(groups[j]) + 1 /\ Append(groups[j], m)[k] = m)
        /\ \A k \in DOMAIN groups[j] : Append(groups[j], m)[k] = groups[j][k]
    <3>1. groups[j] \in Seq([article : batch, match : Nat])
      BY <1>2, <2>3
    <3> QED
      BY <2>5, <3>1, AppendIs
  <2>7. /\ groups' \in Seq(Seq([article : batch, match : Nat]))
        /\ DOMAIN groups' = DOMAIN groups
        /\ groups'[j] = Append(groups[j], m)
        /\ \A g \in DOMAIN groups \ {j} : groups'[g] = groups[g]
    BY <1>2, <2>3, <2>4, <2>6
  <2>8. ASSUME NEW h \in DOMAIN groups, NEW l \in DOMAIN groups[h], SameItem(x, groups[h][l].article)
        PROVE  h = j
    <3>1. h \in Linked(x)
      BY <2>8, EdgesAre DEF Linked
    <3>2. Strongest(x, h) = 1
      BY <2>8, <3>1, StrongestIs DEF StoryInv
    <3>3. s = 1
      BY <2>3, <3>1, <3>2
    <3>4. PICK k \in DOMAIN groups[j] : SameItem(x, groups[j][k].article)
      BY <2>2, <2>3, <3>3, StrongestIs DEF StoryInv
    <3>5. SameItem(groups[j][k].article, groups[h][l].article)
      BY <2>8, <3>4 DEF SameItem
    <3> QED
      BY <2>3, <3>5 DEF StoryInv, OneStory
  <2>9. ASSUME NEW g \in DOMAIN groups, NEW k \in DOMAIN groups'[g]
        PROVE  \/ k \in DOMAIN groups[g] /\ groups'[g][k].article = groups[g][k].article
               \/ g = j /\ groups'[g][k].article = x
    <3>1. CASE g = j
      <4>1. k \in DOMAIN Append(groups[j], m)
        BY <2>7, <3>1
      <4> QED
        BY <2>5, <2>6, <2>7, <3>1, <4>1
    <3>2. CASE g # j
      BY <2>7, <3>2
    <3> QED
      BY <3>1, <3>2
  <2>10. ASSUME NEW g \in DOMAIN groups, NEW h \in DOMAIN groups,
                NEW k \in DOMAIN groups'[g], NEW l \in DOMAIN groups'[h],
                SameItem(groups'[g][k].article, groups'[h][l].article)
         PROVE  g = h
    <3>1. CASE g = j /\ groups'[g][k].article = x
      <4>1. h = j \/ (l \in DOMAIN groups[h] /\ SameItem(x, groups[h][l].article))
        BY <2>9, <2>10, <3>1
      <4> QED
        BY <2>8, <3>1, <4>1
    <3>2. CASE h = j /\ groups'[h][l].article = x
      <4>1. g = j \/ (k \in DOMAIN groups[g] /\ SameItem(groups[g][k].article, x))
        BY <2>9, <2>10, <3>2
      <4>2. g = j \/ (k \in DOMAIN groups[g] /\ SameItem(x, groups[g][k].article))
        BY <4>1 DEF SameItem
      <4> QED
        BY <2>8, <3>2, <4>2
    <3>3. CASE /\ k \in DOMAIN groups[g] /\ groups'[g][k].article = groups[g][k].article
               /\ l \in DOMAIN groups[h] /\ groups'[h][l].article = groups[h][l].article
      BY <2>10, <3>3 DEF StoryInv, OneStory
    <3> QED
      BY <2>9, <3>1, <3>2, <3>3
  <2>11. OneStory'
    BY <2>7, <2>10 DEF OneStory
  <2> QED
    BY <1>1, <2>7, <2>11 DEF StoryInv, StoryShape
<1> QED
  BY <1>3, <1>4

-----------------------------------------------------------------------------
(* The originals of a story.                                                *)

\* The members up to the m-th that copy an earlier one.
CopyUpTo(g, m, f) ==
  f = [j \in 1..m |->
        \/ \E i \in 1 .. j - 1 : g[i].article.text = g[j].article.text
        \/ \E i \in 1 .. j - 1 :
             /\ ~f[i]
             /\ Similarity(g[j].article.title, g[i].article.title) >= SameHeadline]

\* There is such a function.
LEMMA CopyExists ==
  ASSUME NEW g, NEW n \in Nat
  PROVE  \E f : CopyUpTo(g, n, f)
<1> DEFINE Same(j) == \E i \in 1 .. j - 1 : g[i].article.text = g[j].article.text
           Near(i, j) == Similarity(g[j].article.title, g[i].article.title) >= SameHeadline
           Fits(m, f) == f = [j \in 1..m |-> Same(j) \/ \E i \in 1 .. j - 1 : ~f[i] /\ Near(i, j)]
<1>1. ASSUME NEW m, NEW f PROVE Fits(m, f) <=> CopyUpTo(g, m, f)
  BY DEF CopyUpTo
<1> HIDE DEF Same, Near
<1> DEFINE T == {m \in Nat : ~\E f : Fits(m, f)}
<1>2. T = {}
  <2> SUFFICES ASSUME T # {} PROVE FALSE
    OBVIOUS
  <2>0. T \in SUBSET Nat
    OBVIOUS
  <2> HIDE DEF T
  <2>1. PICK m \in T : \A k \in T : m <= k
    BY <2>0, Least
  <2>2. m \in Nat /\ ~\E f : Fits(m, f)
    BY DEF T
  <2>3. m # 0
    <3> DEFINE z == [j \in 1..0 |-> TRUE]
    <3>1. Fits(0, z)
      OBVIOUS
    <3> QED
      BY <2>2, <3>1
  <2>4. m - 1 \in Nat /\ m - 1 \notin T
    BY <2>0, <2>1, <2>2, <2>3
  <2>5. PICK f : Fits(m - 1, f)
    BY <2>4 DEF T
  <2> DEFINE h == [j \in 1..m |-> Same(j) \/ \E i \in 1 .. j - 1 : ~f[i] /\ Near(i, j)]
  <2>6. \A j \in 1..(m - 1) : f[j] = (Same(j) \/ \E i \in 1 .. j - 1 : ~f[i] /\ Near(i, j))
    BY <2>5
  <2>7. \A j \in 1..(m - 1) : j \in 1..m /\ h[j] = f[j]
    BY <2>2, <2>6
  <2>8. \A j \in 1..m : h[j] = (Same(j) \/ \E i \in 1 .. j - 1 : ~h[i] /\ Near(i, j))
    <3> SUFFICES ASSUME NEW j \in 1..m
                 PROVE  h[j] = (Same(j) \/ \E i \in 1 .. j - 1 : ~h[i] /\ Near(i, j))
      OBVIOUS
    <3>1. h[j] = (Same(j) \/ \E i \in 1 .. j - 1 : ~f[i] /\ Near(i, j))
      OBVIOUS
    <3>2. \A i \in 1 .. j - 1 : i \in 1..(m - 1)
      BY <2>2
    <3>3. \A i \in 1 .. j - 1 : h[i] = f[i]
      BY <2>7, <3>2
    <3> HIDE DEF h
    <3> QED
      BY <3>1, <3>3
  <2>9. Fits(m, h)
    BY <2>8
  <2> QED
    BY <2>2, <2>9
<1>3. PICK f : Fits(n, f)
  BY <1>2
<1> QED
  BY <1>1, <1>3

\* A member that is no copy has neither the text of an earlier one nor the
\* headline of an earlier one that is no copy.
LEMMA OriginalIsNew ==
  ASSUME NEW S, NEW g \in Seq(S), NEW j \in DOMAIN g, ~Verbatim(g, j), NEW i \in 1 .. j - 1
  PROVE  /\ g[i].article.text # g[j].article.text
         /\ ~Verbatim(g, i) => ~(Similarity(g[j].article.title, g[i].article.title) >= SameHeadline)
<1>1. Len(g) \in Nat /\ DOMAIN g = 1..Len(g)
  BY SeqOf
<1>2. PICK f : f = CHOOSE c : CopyUpTo(g, Len(g), c)
  OBVIOUS
<1>3. CopyUpTo(g, Len(g), f)
  BY <1>1, <1>2, CopyExists
<1>4. \A k \in DOMAIN g : Verbatim(g, k) <=> f[k]
  BY <1>1, <1>2 DEF Verbatim, CopyUpTo
<1>5. i \in DOMAIN g /\ j \in 1..Len(g)
  BY <1>1
<1>6. f[j] = (\/ \E k \in 1 .. j - 1 : g[k].article.text = g[j].article.text
              \/ \E k \in 1 .. j - 1 :
                   /\ ~f[k]
                   /\ Similarity(g[j].article.title, g[k].article.title) >= SameHeadline)
  BY <1>3, <1>5 DEF CopyUpTo
<1>7. ~f[j] /\ (Verbatim(g, i) <=> f[i])
  BY <1>4, <1>5
<1> QED
  BY <1>6, <1>7

\* An article has a publication time or none, a fetch time and an id.
Dated(S) ==
  \A x \in S : x.published \in Int \cup {NoTime} /\ x.available \in Int /\ x.id \in Int

\* Of two articles at most one is the older.
LEMMA OlderIsOneWay ==
  ASSUME NEW S, Dated(S), NEW x \in S, NEW y \in S, OlderArticle(x, y)
  PROVE  ~OlderArticle(y, x)
<1>1. /\ StoryTime(x) \in Int /\ StoryTime(y) \in Int
      /\ x.available \in Int /\ y.available \in Int /\ x.id \in Int /\ y.id \in Int
  BY DEF Dated, StoryTime
<1> QED
  BY <1>1 DEF OlderArticle

\* The members of a story are in the order of the sort.
Sorted(g) ==
  \A k \in DOMAIN g : \A i \in DOMAIN g : i < k => OlderArticle(g[i].article, g[k].article)

\* No original of a story is a copy of an older one.
LEMMA OriginalsDiffer ==
  ASSUME NEW S, NEW g \in Seq([article : S, match : Nat]), Dated(S), Sorted(g),
         NEW x \in Originals(g), NEW y \in Originals(g), OlderArticle(y, x)
  PROVE  ~Copies(x, y)
<1>1. PICK j \in DOMAIN g : ~Verbatim(g, j) /\ x = g[j].article
  BY DEF Originals
<1>2. PICK i \in DOMAIN g : ~Verbatim(g, i) /\ y = g[i].article
  BY DEF Originals
<1>3. Len(g) \in Nat /\ DOMAIN g = 1..Len(g) /\ x \in S /\ y \in S
  <2>1. /\ Len(g) \in Nat /\ DOMAIN g = 1..Len(g)
        /\ \A k \in DOMAIN g : g[k] \in [article : S, match : Nat]
    BY SeqOf
  <2>2. \A k \in DOMAIN g : g[k].article \in S
    BY <2>1
  <2> QED
    BY <1>1, <1>2, <2>1, <2>2
<1>4. ~OlderArticle(x, y)
  BY <1>3, OlderIsOneWay
<1>5. x # y
  BY <1>4
<1>6. i < j
  BY <1>1, <1>2, <1>3, <1>4, <1>5 DEF Sorted
<1>7. i \in 1 .. j - 1
  BY <1>3, <1>6
<1> QED
  BY <1>1, <1>2, <1>7, OriginalIsNew DEF Copies

\* The values of a function on a finite set are no more than its arguments.
LEMMA ImageIs ==
  ASSUME NEW K, IsFiniteSet(K), NEW f, DOMAIN f = K
  PROVE  /\ IsFiniteSet({f[k] : k \in K})
         /\ Cardinality({f[k] : k \in K}) <= Cardinality(K)
<1> DEFINE T == {f[k] : k \in K}
           h == [k \in K |-> f[k]]
<1>1. h \in Surjection(K, T)
  BY DEF Surjection
<1> QED
  BY <1>1, FS_Surjection

\* A story counts no more sources than it has originals.
LEMMA CountedOnce ==
  ASSUME NEW S, NEW g \in Seq([article : S, match : Nat]), Dated(S), Sorted(g)
  PROVE  StoryEvent(g).independent <=
           Cardinality({x \in Originals(g) :
                          \A y \in Originals(g) : OlderArticle(y, x) => ~Copies(x, y)})
<1>1. {x \in Originals(g) : \A y \in Originals(g) : OlderArticle(y, x) => ~Copies(x, y)}
        = Originals(g)
  BY OriginalsDiffer
<1>2. IsFiniteSet(Originals(g))
  <2> DEFINE K == {j \in DOMAIN g : ~Verbatim(g, j)}
  <2>1. IsFiniteSet(DOMAIN g)
    BY SeqOf, FS_Interval
  <2>2. IsFiniteSet(K)
    BY <2>1, FS_Subset
  <2> HIDE DEF K
  <2>3. IsFiniteSet({g[k].article : k \in K})
    <3> DEFINE f == [k \in K |-> g[k].article]
    <3>1. IsFiniteSet({f[k] : k \in K})
      BY <2>2, ImageIs
    <3>2. {f[k] : k \in K} = {g[k].article : k \in K}
      OBVIOUS
    <3> QED
      BY <3>1, <3>2
  <2> QED
    BY <2>3 DEF Originals, K
<1>3. Cardinality({x.source : x \in Originals(g)}) <= Cardinality(Originals(g))
  <2> DEFINE O == Originals(g)
             f == [x \in O |-> x.source]
  <2> HIDE DEF O
  <2>1. Cardinality({f[x] : x \in O}) <= Cardinality(O)
    BY <1>2, ImageIs DEF O
  <2>2. {f[x] : x \in O} = {x.source : x \in O}
    OBVIOUS
  <2> QED
    BY <2>1, <2>2 DEF O
<1>4. StoryEvent(g).independent = Cardinality({x.source : x \in Originals(g)})
  BY DEF StoryEvent
<1> QED
  BY <1>1, <1>3, <1>4

\* A source's item is told once, and nothing a story counts as independent is a
\* copy of an older one, for any batch, any headlines, any likeness of them, in
\* whichever order they are read, and any windows and thresholds (consolidate,
\* _independence).
THEOREM StoriesCountOnceHolds == StoriesSpec => []StoriesCountOnce
<1>1. StoriesInit => StoryInv
  BY DEF StoriesInit, StoryInv, StoryShape, OneStory, InOrder
<1>2. StoryInv /\ [StoriesNext]_storyVars => StoryInv'
  <2>1. ASSUME StoryInv, Place PROVE StoryInv'
    BY <2>1, PlaceKeepsOne, PlaceKeepsOrder DEF StoryInv
  <2>2. ASSUME StoryInv, UNCHANGED storyVars PROVE StoryInv'
    BY <2>2 DEF StoryInv, StoryShape, OneStory, InOrder, OlderArticle, StoryTime, storyVars
  <2> QED
    BY <2>1, <2>2 DEF StoriesNext
<1>3. StoryInv => StoriesCountOnce
  <2> SUFFICES ASSUME StoryInv, NEW g \in DOMAIN groups
               PROVE  /\ \A h \in DOMAIN groups \ {g} :
                           \A k \in DOMAIN groups[g], l \in DOMAIN groups[h] :
                             ~Matches("source_item", groups[g][k].article, groups[h][l].article)
                      /\ StoryEvent(groups[g]).independent <=
                           Cardinality({x \in Originals(groups[g]) :
                             \A y \in Originals(groups[g]) : OlderArticle(y, x) => ~Copies(x, y)})
    BY DEF StoriesCountOnce
  <2>1. \A h \in DOMAIN groups \ {g} :
          \A k \in DOMAIN groups[g], l \in DOMAIN groups[h] :
            ~Matches("source_item", groups[g][k].article, groups[h][l].article)
    BY EdgesAre DEF StoryInv, OneStory
  <2>2. groups[g] \in Seq([article : batch, match : Nat])
    BY SeqOf DEF StoryInv, StoryShape
  <2>3. Dated(batch) /\ Sorted(groups[g])
    BY StoriesAssumption DEF StoryInv, StoryShape, Dated, InOrder, Sorted
  <2> QED
    BY <2>1, <2>2, <2>3, CountedOnce
<1> QED
  BY <1>1, <1>2, <1>3, PTL DEF StoriesSpec

-----------------------------------------------------------------------------
(* The pressure snapshots.                                                  *)

\* The sums over the parts of E with at most n elements, one element taken out
\* of each after the other.
SumsUpTo(E, w, n, it) ==
  it = [s \in {t \in SUBSET E : Cardinality(t) <= n} |->
          IF s = {} THEN 0
          ELSE LET x == CHOOSE x \in s : TRUE IN w[x] + it[s \ {x}]]

\* A part of E without one of its elements.
LEMMA OneLess ==
  ASSUME NEW E, IsFiniteSet(E), NEW s \in SUBSET E, s # {}
  PROVE  LET x == CHOOSE x \in s : TRUE
         IN  /\ x \in s /\ s \ {x} \in SUBSET E
             /\ Cardinality(s) \in Nat /\ Cardinality(s) # 0
             /\ Cardinality(s \ {x}) = Cardinality(s) - 1
<1> DEFINE x == CHOOSE x \in s : TRUE
<1>1. x \in s
  OBVIOUS
<1> HIDE DEF x
<1>2. IsFiniteSet(s)
  BY FS_Subset
<1>3. Cardinality(s) \in Nat /\ Cardinality(s) # 0 /\ Cardinality(s \ {x}) = Cardinality(s) - 1
  BY <1>1, <1>2, FS_CardinalityType, FS_EmptySet, FS_RemoveElement
<1>4. s \ {x} \in SUBSET E
  OBVIOUS
<1> QED
  BY <1>1, <1>3, <1>4 DEF x

\* There are such sums.
LEMMA SumsExist ==
  ASSUME NEW E, IsFiniteSet(E), NEW w, NEW n \in Nat
  PROVE  \E it : SumsUpTo(E, w, n, it)
<1> DEFINE P(m) == {t \in SUBSET E : Cardinality(t) <= m}
           pick(s) == CHOOSE x \in s : TRUE
           Fits(m, f) == f = [s \in P(m) |-> IF s = {} THEN 0 ELSE w[pick(s)] + f[s \ {pick(s)}]]
<1>1. ASSUME NEW m, NEW f PROVE Fits(m, f) <=> SumsUpTo(E, w, m, f)
  BY DEF SumsUpTo
<1>2. ASSUME NEW s \in SUBSET E, s # {}
      PROVE  /\ s \ {pick(s)} \in SUBSET E /\ Cardinality(s) \in Nat /\ Cardinality(s) # 0
             /\ Cardinality(s \ {pick(s)}) = Cardinality(s) - 1
  BY <1>2, OneLess
<1> HIDE DEF pick
<1> DEFINE T == {m \in Nat : ~\E f : Fits(m, f)}
<1>3. T = {}
  <2> SUFFICES ASSUME T # {} PROVE FALSE
    OBVIOUS
  <2>0. T \in SUBSET Nat
    OBVIOUS
  <2> HIDE DEF T
  <2>1. PICK m \in T : \A k \in T : m <= k
    BY <2>0, Least
  <2>2. m \in Nat /\ ~\E f : Fits(m, f)
    BY DEF T
  <2>3. ASSUME NEW f, m # 0 => Fits(m - 1, f) PROVE FALSE
    <3> DEFINE g == [s \in P(m) |-> IF s = {} THEN 0 ELSE w[pick(s)] + f[s \ {pick(s)}]]
    <3>1. ASSUME NEW s \in P(m), s # {}
          PROVE  /\ s \ {pick(s)} \in P(m) /\ m # 0
                 /\ s \ {pick(s)} \in P(m - 1)
      BY <1>2, <2>2, <3>1
    <3>2. ASSUME NEW t \in P(m - 1), m # 0 PROVE t \in P(m) /\ g[t] = f[t]
      <4>1. t \in P(m)
        <5>1. Cardinality(t) \in Nat
          BY FS_Subset, FS_CardinalityType
        <5> QED
          BY <2>2, <5>1
      <4>2. f[t] = IF t = {} THEN 0 ELSE w[pick(t)] + f[t \ {pick(t)}]
        BY <2>3, <3>2
      <4> QED
        BY <4>1, <4>2
    <3>3. \A s \in P(m) : g[s] = IF s = {} THEN 0 ELSE w[pick(s)] + g[s \ {pick(s)}]
      <4> SUFFICES ASSUME NEW s \in P(m)
                   PROVE  g[s] = IF s = {} THEN 0 ELSE w[pick(s)] + g[s \ {pick(s)}]
        OBVIOUS
      <4>1. g[s] = IF s = {} THEN 0 ELSE w[pick(s)] + f[s \ {pick(s)}]
        OBVIOUS
      <4>2. s # {} => g[s \ {pick(s)}] = f[s \ {pick(s)}]
        BY <3>1, <3>2
      <4> HIDE DEF g
      <4> QED
        BY <4>1, <4>2
    <3>4. Fits(m, g)
      BY <3>3
    <3> QED
      BY <2>2, <3>4
  <2>4. m # 0 => m - 1 \in Nat /\ m - 1 \notin T
    BY <2>0, <2>1, <2>2
  <2>5. m # 0 => \E f : Fits(m - 1, f)
    BY <2>4 DEF T
  <2> HIDE DEF Fits
  <2> QED
    BY <2>3, <2>5
<1>4. \E f : Fits(n, f)
  BY <1>3
<1> QED
  BY <1>1, <1>4

\* Sets of parts of a finite set that hold the empty part, and every part that
\* is one element more than a part they hold, hold every part.
LEMMA ByOneElement ==
  ASSUME NEW E, IsFiniteSet(E), NEW G, {} \in G,
         \A s \in SUBSET E : s # {} /\ s \ {CHOOSE x \in s : TRUE} \in G => s \in G
  PROVE  \A s \in SUBSET E : s \in G
<1> DEFINE T == {Cardinality(s) : s \in {t \in SUBSET E : t \notin G}}
           pick(s) == CHOOSE x \in s : TRUE
<1>1. T = {}
  <2> SUFFICES ASSUME T # {} PROVE FALSE
    OBVIOUS
  <2>1. T \in SUBSET Nat
    BY FS_Subset, FS_CardinalityType
  <2>2. PICK m \in T : \A k \in T : m <= k
    BY <2>1, Least
  <2>3. PICK s \in SUBSET E : s \notin G /\ Cardinality(s) = m
    OBVIOUS
  <2>4. s # {}
    BY <2>3
  <2>5. /\ s \ {pick(s)} \in SUBSET E /\ Cardinality(s) \in Nat /\ Cardinality(s) # 0
        /\ Cardinality(s \ {pick(s)}) = Cardinality(s) - 1
    BY <2>4, OneLess
  <2>6. s \ {pick(s)} \notin G
    BY <2>3, <2>4
  <2> HIDE DEF pick
  <2>7. Cardinality(s \ {pick(s)}) \in T
    BY <2>5, <2>6
  <2>8. m <= Cardinality(s \ {pick(s)})
    BY <2>2, <2>7
  <2> QED
    BY <2>3, <2>5, <2>8
<1> QED
  BY <1>1

\* The sums over the parts of E, one element taken out of each after the other.
SumsUp(E, w, it) ==
  /\ SumFunction(w) = it[E]
  /\ \A s \in SUBSET E :
       it[s] = IF s = {} THEN 0 ELSE LET x == CHOOSE x \in s : TRUE IN w[x] + it[s \ {x}]

\* A sum is built up over the parts of its domain.
LEMMA SumSteps ==
  ASSUME NEW E, IsFiniteSet(E), NEW w, DOMAIN w = E
  PROVE  \E it : SumsUp(E, w, it)
<1> DEFINE P == {t \in SUBSET E : Cardinality(t) <= Cardinality(E)}
<1>1. Cardinality(E) \in Nat
  BY FS_CardinalityType
<1>2. P = SUBSET E
  BY FS_Subset
<1>3. PICK it : it = CHOOSE f : SumsUpTo(E, w, Cardinality(E), f)
  OBVIOUS
<1>4. SumsUpTo(E, w, Cardinality(E), it)
  BY <1>1, <1>3, SumsExist
<1>5. SumFunction(w) = it[E]
  <2>1. SumFunction(w) = (CHOOSE f : f = [s \in SUBSET E |->
                            IF s = {} THEN 0
                            ELSE LET x == CHOOSE x \in s : TRUE IN w[x] + f[s \ {x}]])[E]
    BY DEF SumFunction, SumFunctionOnSet, FoldFunctionOnSet, MapThenFoldSet
  <2> QED
    BY <1>2, <1>3, <2>1 DEF SumsUpTo
<1>6. \A s \in SUBSET E :
        it[s] = IF s = {} THEN 0 ELSE LET x == CHOOSE x \in s : TRUE IN w[x] + it[s \ {x}]
  BY <1>2, <1>4 DEF SumsUpTo
<1> QED
  BY <1>5, <1>6 DEF SumsUp

\* A sum of integers is one, and a sum of their opposites is its opposite.
LEMMA SumOpposite ==
  ASSUME NEW E, IsFiniteSet(E), NEW w \in [E -> Int], NEW v \in [E -> Int],
         \A x \in E : v[x] = -w[x]
  PROVE  SumFunction(w) \in Int /\ SumFunction(v) = -SumFunction(w)
<1> DEFINE pick(s) == CHOOSE x \in s : TRUE
<1>1. PICK it : SumsUp(E, w, it)
  <2>1. DOMAIN w = E
    OBVIOUS
  <2> QED
    BY <2>1, SumSteps
<1>2. PICK ot : SumsUp(E, v, ot)
  <2>1. DOMAIN v = E
    OBVIOUS
  <2> QED
    BY <2>1, SumSteps
<1> DEFINE G == {s \in SUBSET E : it[s] \in Int /\ ot[s] = -it[s]}
<1>3. {} \in G
  <2>1. it[{}] = 0 /\ ot[{}] = 0
    BY <1>1, <1>2 DEF SumsUp
  <2> QED
    BY <2>1
<1>4. ASSUME NEW s \in SUBSET E, s # {}, s \ {pick(s)} \in G PROVE s \in G
  <2>1. pick(s) \in E
    BY <1>4, OneLess
  <2>2. it[s] = w[pick(s)] + it[s \ {pick(s)}] /\ ot[s] = v[pick(s)] + ot[s \ {pick(s)}]
    BY <1>1, <1>2, <1>4 DEF SumsUp
  <2> HIDE DEF pick
  <2>3. PICK a \in Int, b \in Int : /\ a = w[pick(s)] /\ b = it[s \ {pick(s)}]
                                    /\ v[pick(s)] = -a /\ ot[s \ {pick(s)}] = -b
    BY <1>4, <2>1
  <2> QED
    BY <2>2, <2>3
<1>5. \A s \in SUBSET E : s # {} /\ s \ {CHOOSE x \in s : TRUE} \in G => s \in G
  BY <1>4
<1> HIDE DEF G
<1>6. \A s \in SUBSET E : s \in G
  BY <1>3, <1>5, ByOneElement
<1>7. it[E] \in Int /\ ot[E] = -it[E]
  BY <1>6 DEF G
<1> QED
  BY <1>1, <1>2, <1>7 DEF SumsUp

\* A sum of integers is one.
LEMMA SumIsInt ==
  ASSUME NEW E, IsFiniteSet(E), NEW w \in [E -> Int]
  PROVE  SumFunction(w) \in Int
<1> DEFINE v == [x \in E |-> -w[x]]
<1>1. v \in [E -> Int] /\ \A x \in E : v[x] = -w[x]
  OBVIOUS
<1> HIDE DEF v
<1> QED
  BY <1>1, SumOpposite

\* A power of two, for every age.
LEMMA RecencyIsNat ==
  ASSUME NEW n \in 0..FullAge
  PROVE  Recency[n] \in Nat
<1> DEFINE Fits(m, f) == f = [left \in 0..m |-> IF left = 0 THEN 1 ELSE 2 * f[left - 1]]
           T == {m \in Nat : ~\E f : Fits(m, f)}
<1>1. FullAge \in Nat
  BY PressureAssumption
<1>2. T = {}
  <2> SUFFICES ASSUME T # {} PROVE FALSE
    OBVIOUS
  <2>0. T \in SUBSET Nat
    OBVIOUS
  <2> HIDE DEF T
  <2>1. PICK m \in T : \A k \in T : m <= k
    BY <2>0, Least
  <2>2. m \in Nat /\ ~\E f : Fits(m, f)
    BY DEF T
  <2>3. m # 0
    <3> DEFINE z == [left \in 0..0 |-> 1]
    <3>1. Fits(0, z)
      OBVIOUS
    <3> QED
      BY <2>2, <3>1
  <2>4. m - 1 \in Nat /\ m - 1 \notin T
    BY <2>0, <2>1, <2>2, <2>3
  <2>5. PICK f : Fits(m - 1, f)
    BY <2>4 DEF T
  <2> DEFINE g == [left \in 0..m |-> IF left = m THEN 2 * f[m - 1] ELSE f[left]]
  <2>6. \A k \in 0..m : g[k] = IF k = 0 THEN 1 ELSE 2 * g[k - 1]
    <3> SUFFICES ASSUME NEW k \in 0..m PROVE g[k] = IF k = 0 THEN 1 ELSE 2 * g[k - 1]
      OBVIOUS
    <3>1. CASE k = m
      <4>1. m - 1 \in 0..m /\ m - 1 # m
        BY <2>2, <2>3
      <4> QED
        BY <2>3, <3>1, <4>1
    <3>2. CASE k # m
      <4>1. k \in 0..(m - 1) /\ (k # 0 => k - 1 \in 0..m /\ k - 1 # m)
        BY <2>2, <3>2
      <4>2. f[k] = IF k = 0 THEN 1 ELSE 2 * f[k - 1]
        BY <2>5, <4>1
      <4>3. g[k] = f[k] /\ (k # 0 => g[k - 1] = f[k - 1])
        BY <3>2, <4>1
      <4> QED
        BY <4>2, <4>3
    <3> QED
      BY <3>1, <3>2
  <2>7. Fits(m, g)
    BY <2>6
  <2> QED
    BY <2>2, <2>7
<1>3. Fits(FullAge, Recency)
  <2>1. \E f : Fits(FullAge, f)
    BY <1>1, <1>2
  <2>2. Recency = CHOOSE f : Fits(FullAge, f)
    BY DEF Recency
  <2> HIDE DEF Fits
  <2> QED
    BY <2>1, <2>2
<1>4. \A k \in 0..FullAge : Recency[k] = IF k = 0 THEN 1 ELSE 2 * Recency[k - 1]
  BY <1>3
<1> DEFINE B == {k \in 0..FullAge : Recency[k] \notin Nat}
<1>5. B = {}
  <2> SUFFICES ASSUME B # {} PROVE FALSE
    OBVIOUS
  <2>0. B \in SUBSET Nat
    BY <1>1
  <2> HIDE DEF B
  <2>1. PICK m \in B : \A k \in B : m <= k
    BY <2>0, Least
  <2>2. m \in 0..FullAge /\ Recency[m] \notin Nat
    BY DEF B
  <2>3. m # 0
    BY <1>4, <2>2
  <2>4. m - 1 \in 0..FullAge /\ m - 1 \notin B
    BY <1>1, <2>0, <2>1, <2>2, <2>3
  <2>5. Recency[m - 1] \in Nat
    BY <2>4 DEF B
  <2> QED
    BY <1>4, <2>2, <2>3, <2>5
<1> QED
  BY <1>5

\* A window: events and their ages.
WindowIsAged(W) == DOMAIN W \subseteq EventPool /\ \A e \in DOMAIN W : W[e] \in 0..FullAge

\* What a dimension reads in an event in the world as it is and in the mirrored
\* one: scores of opposite signs, with the same confidence.
LEMMA ReadMirrored ==
  ASSUME NEW d \in Dimension, NEW e \in EventPool
  PROVE  /\ Read(1, d, e) = Unread <=> Reads(d, e) = Unread
         /\ Read(-1, d, e) = Unread <=> Reads(d, e) = Unread
         /\ Read(1, d, e).confidence = Read(-1, d, e).confidence
         /\ Reads(d, e) # Unread => /\ Read(1, d, e).score \in Int
                                    /\ Read(-1, d, e).score = -Read(1, d, e).score
                                    /\ Read(1, d, e).confidence \in Nat
<1>1. CASE Reads(d, e) = Unread
  BY <1>1 DEF Read
<1>2. CASE Reads(d, e) # Unread
  <2>1. PICK r \in [score : Int, confidence : Nat] : r = Reads(d, e)
    BY <1>2, PressureAssumption
  <2>2. r.score \in Int /\ r.confidence \in Nat
    BY <2>1
  <2>3. Read(1, d, e) = [score |-> 1 * r.score, confidence |-> r.confidence]
    BY <1>2, <2>1 DEF Read
  <2>4. Read(-1, d, e) = [score |-> (-1) * r.score, confidence |-> r.confidence]
    BY <1>2, <2>1 DEF Read
  <2>5. 1 * r.score = r.score /\ (-1) * r.score = -r.score /\ -r.score \in Int
    BY <2>2
  <2>6. /\ Read(1, d, e) \in [score : Int, confidence : Nat]
        /\ Read(-1, d, e) \in [score : Int, confidence : Nat]
    BY <2>2, <2>3, <2>4, <2>5
  <2>7. Read(1, d, e) # Unread /\ Read(-1, d, e) # Unread
    BY <2>6, PressureAssumption
  <2> QED
    BY <1>2, <2>2, <2>3, <2>4, <2>5, <2>7
<1> QED
  BY <1>1, <1>2

\* The same events speak in the two worlds, each with the same weight, a whole
\* number.
LEMMA SpeaksMirrored ==
  ASSUME NEW W, WindowIsAged(W), NEW d \in Dimension
  PROVE  /\ Speaks(-1, d, W) = Speaks(1, d, W)
         /\ Speaks(1, d, W) \subseteq EventPool /\ IsFiniteSet(Speaks(1, d, W))
         /\ \A e \in Speaks(1, d, W) :
              /\ Weight(-1, d, e, W[e]) = Weight(1, d, e, W[e])
              /\ Weight(1, d, e, W[e]) \in Int
              /\ Read(1, d, e).score \in Int /\ Read(-1, d, e).score = -Read(1, d, e).score
<1>1. \A e \in DOMAIN W : e \in EventPool
  BY DEF WindowIsAged
<1>2. \A e \in DOMAIN W : Weight(-1, d, e, W[e]) = Weight(1, d, e, W[e])
  BY <1>1, ReadMirrored DEF Weight
<1>3. Speaks(-1, d, W) = Speaks(1, d, W)
  BY <1>1, <1>2, ReadMirrored DEF Speaks
<1>4. Speaks(1, d, W) \subseteq EventPool /\ IsFiniteSet(Speaks(1, d, W))
  <2>1. Speaks(1, d, W) \subseteq EventPool
    BY <1>1 DEF Speaks
  <2> QED
    BY <2>1, PressureAssumption, FS_Subset
<1>5. ASSUME NEW e \in Speaks(1, d, W)
      PROVE  /\ Weight(1, d, e, W[e]) \in Int
             /\ Read(1, d, e).score \in Int /\ Read(-1, d, e).score = -Read(1, d, e).score
  <2>1. e \in DOMAIN W /\ e \in EventPool /\ Read(1, d, e) # Unread
    BY <1>1 DEF Speaks
  <2>2. /\ Read(1, d, e).score \in Int /\ Read(-1, d, e).score = -Read(1, d, e).score
        /\ Read(1, d, e).confidence \in Nat
    BY <2>1, ReadMirrored
  <2>3. FullAge - W[e] \in 0..FullAge
    <3>1. W[e] \in 0..FullAge
      BY <2>1 DEF WindowIsAged
    <3> QED
      BY <3>1, PressureAssumption
  <2>4. Recency[FullAge - W[e]] \in Nat /\ Corroboration(e.sources) \in Nat
    BY <2>3, RecencyIsNat DEF Corroboration
  <2>5. PICK c \in Nat, k \in Nat, r \in Nat :
          /\ c = Read(1, d, e).confidence /\ k = Corroboration(e.sources)
          /\ r = Recency[FullAge - W[e]]
    BY <2>2, <2>4
  <2>6. (c * k) * r \in Int
    BY <2>5
  <2>7. Weight(1, d, e, W[e]) = (c * k) * r
    BY <2>5 DEF Weight
  <2> QED
    BY <2>2, <2>6, <2>7
<1> QED
  BY <1>1, <1>2, <1>3, <1>4, <1>5 DEF Speaks

\* The sums a score is made of: the weighted scores turn round in the mirrored
\* world, the weights and the scores' magnitudes do not.
LEMMA SumsMirrored ==
  ASSUME NEW W, WindowIsAged(W), NEW d \in Dimension
  PROVE  /\ TotalWeight(1, d, W) \in Int /\ TotalWeight(-1, d, W) = TotalWeight(1, d, W)
         /\ Weighted(1, d, W) \in Int /\ Weighted(-1, d, W) = -Weighted(1, d, W)
         /\ Strength(1, d, W) \in Int /\ Strength(-1, d, W) = Strength(1, d, W)
<1> DEFINE S == Speaks(1, d, W)
           w == [e \in S |-> Weight(1, d, e, W[e])]
           v(way) == [e \in S |-> Read(way, d, e).score * Weight(1, d, e, W[e])]
           m(way) == [e \in S |-> Magnitude(Read(way, d, e).score) * Weight(1, d, e, W[e])]
<1>1. /\ S \subseteq EventPool /\ IsFiniteSet(S) /\ Speaks(-1, d, W) = S
      /\ \A e \in S : Weight(-1, d, e, W[e]) = Weight(1, d, e, W[e])
  BY SpeaksMirrored
<1>2. ASSUME NEW e \in S
      PROVE  /\ Weight(1, d, e, W[e]) \in Int
             /\ Read(1, d, e).score * Weight(1, d, e, W[e]) \in Int
             /\ Read(-1, d, e).score * Weight(1, d, e, W[e])
                  = -(Read(1, d, e).score * Weight(1, d, e, W[e]))
             /\ Magnitude(Read(1, d, e).score) * Weight(1, d, e, W[e]) \in Int
             /\ Magnitude(Read(-1, d, e).score) = Magnitude(Read(1, d, e).score)
  <2>1. PICK a \in Int, b \in Int : /\ a = Read(1, d, e).score /\ b = Weight(1, d, e, W[e])
                                    /\ Read(-1, d, e).score = -a
    BY SpeaksMirrored
  <2>2. a * b \in Int /\ (-a) * b = -(a * b)
    BY <2>1
  <2>3. Magnitude(a) \in Int /\ Magnitude(-a) = Magnitude(a)
    BY <2>1 DEF Magnitude
  <2>4. \A i \in Int : i * b \in Int
    BY <2>1
  <2> QED
    BY <2>1, <2>2, <2>3, <2>4
<1>3. /\ TotalWeight(1, d, W) = SumFunction(w) /\ TotalWeight(-1, d, W) = SumFunction(w)
  <2>1. [e \in Speaks(-1, d, W) |-> Weight(-1, d, e, W[e])] = w
    BY <1>1
  <2> QED
    BY <2>1 DEF TotalWeight
<1>4. Weighted(1, d, W) = SumFunction(v(1)) /\ Weighted(-1, d, W) = SumFunction(v(-1))
  <2>1. [e \in Speaks(-1, d, W) |-> Read(-1, d, e).score * Weight(-1, d, e, W[e])] = v(-1)
    BY <1>1
  <2> QED
    BY <2>1 DEF Weighted
<1>5. Strength(1, d, W) = SumFunction(m(1)) /\ Strength(-1, d, W) = SumFunction(m(1))
  <2>1. [e \in Speaks(-1, d, W) |-> Magnitude(Read(-1, d, e).score) * Weight(-1, d, e, W[e])] = m(1)
    BY <1>1, <1>2
  <2> QED
    BY <2>1 DEF Strength
<1>6. w \in [S -> Int] /\ m(1) \in [S -> Int] /\ v(1) \in [S -> Int]
  BY <1>2
<1>7. v(-1) \in [S -> Int] /\ \A e \in S : v(-1)[e] = -v(1)[e]
  <2>1. ASSUME NEW e \in S PROVE v(-1)[e] = -v(1)[e] /\ -v(1)[e] \in Int
    BY <1>2
  <2> QED
    BY <2>1
<1> HIDE DEF S, w, v, m
<1>8. SumFunction(w) \in Int /\ SumFunction(m(1)) \in Int
  BY <1>1, <1>6, SumIsInt
<1>9. SumFunction(v(1)) \in Int /\ SumFunction(v(-1)) = -SumFunction(v(1))
  BY <1>1, <1>6, <1>7, SumOpposite
<1> QED
  BY <1>3, <1>4, <1>5, <1>8, <1>9

\* A score's confidence, a pair of whole numbers, is the same in the two worlds.
LEMMA ConfidenceMirrored ==
  ASSUME NEW W, WindowIsAged(W), NEW d \in Dimension
  PROVE  /\ Confidence(-1, d, W) = Confidence(1, d, W)
         /\ Confidence(1, d, W) \in Int \X Int
<1>1. PICK t \in Int, s \in Int, n \in Int :
        /\ TotalWeight(1, d, W) = t /\ TotalWeight(-1, d, W) = t
        /\ Strength(1, d, W) = s /\ Strength(-1, d, W) = s
        /\ Weighted(1, d, W) = n /\ Weighted(-1, d, W) = -n
  BY SumsMirrored
<1>2. Magnitude(-n) = Magnitude(n) /\ Magnitude(n) \in Int
  BY DEF Magnitude
<1>3. PICK f \in Int : f = FullWeight
  BY PressureAssumption
<1>4. Min({t, f}) \in Int
  <2>1. \E x \in {t, f} : \A y \in {t, f} : x <= y
    BY t <= f \/ f <= t
  <2> QED
    BY <2>1 DEF Min
<1> DEFINE a == IF s = 0 THEN 1 ELSE Magnitude(n)
           o == IF s = 0 THEN 1 ELSE s
           total == Min({t, f})
           answer == IF 4 * a * total > 3 * o * f THEN <<3, 4>> ELSE <<a * total, o * f>>
<1>5. Confidence(1, d, W) = answer /\ Confidence(-1, d, W) = answer
  BY <1>1, <1>2, <1>3 DEF Confidence
<1>6. a * total \in Int /\ o * f \in Int
  <2>1. a \in Int /\ o \in Int
    BY <1>2
  <2> HIDE DEF a, o
  <2>2. \A i, j \in Int : i * j \in Int
    OBVIOUS
  <2> QED
    BY <1>4, <2>1, <2>2
<1> HIDE DEF a, o, total
<1> QED
  BY <1>5, <1>6

\* The scores of the two worlds: both there or neither, as far from zero on
\* either side, on the same evidence; each a whole number over a positive one.
LEMMA ScoreMirrored ==
  ASSUME NEW W, WindowIsAged(W), NEW d \in Dimension,
         NEW a, a = ScoreDimension(1, d, W), NEW b, b = ScoreDimension(-1, d, W)
  PROVE  /\ a = Null <=> b = Null
         /\ a # Null => /\ a.num \in Int /\ a.den \in Nat \ {0}
                        /\ b.num = -a.num /\ b.den = a.den
         /\ StandsAlike(a, b)
<1> DEFINE S == Speaks(1, d, W)
           n == Weighted(1, d, W)
           for(way, i) == {e \in S : Sign(Read(way, d, e).score) = Sign(i)}
           against(way, i) == {e \in S : Sign(Read(way, d, e).score) * Sign(i) = -1}
           score(way, i) == [num |-> i, den |-> TotalWeight(1, d, W),
                             confidence |-> Confidence(1, d, W),
                             supporting |-> for(way, i), conflicting |-> against(way, i)]
<1>1. /\ TotalWeight(1, d, W) \in Int /\ TotalWeight(-1, d, W) = TotalWeight(1, d, W)
      /\ n \in Int /\ Weighted(-1, d, W) = -n
      /\ Confidence(-1, d, W) = Confidence(1, d, W) /\ Confidence(1, d, W) \in Int \X Int
      /\ Speaks(-1, d, W) = S /\ S \subseteq EventPool
  BY SumsMirrored, ConfidenceMirrored, SpeaksMirrored
<1>2. \A e \in S : Read(1, d, e).score \in Int /\ Read(-1, d, e).score = -Read(1, d, e).score
  BY SpeaksMirrored
<1>3. Measured(-1, d, W) <=> Measured(1, d, W)
  BY <1>1 DEF Measured
<1>4. CASE ~Measured(1, d, W)
  BY <1>3, <1>4 DEF ScoreDimension, StandsAlike
<1>5. CASE Measured(1, d, W)
  <2>1. a = score(1, n) /\ b = score(-1, -n)
    BY <1>1, <1>3, <1>5 DEF ScoreDimension
  <2>2. TotalWeight(1, d, W) \in Nat \ {0}
    <3>1. TotalWeight(1, d, W) >= MinWeight /\ MinWeight \in Nat \ {0}
      BY <1>5, PressureAssumption DEF Measured
    <3> QED
      BY <1>1, <3>1
  <2>3. for(-1, -n) = for(1, n) /\ against(-1, -n) = against(1, n)
    <3>1. \A i \in Int : /\ Sign(i) \in {-1, 0, 1} /\ Sign(-i) = -Sign(i)
      BY DEF Sign
    <3>2. ASSUME NEW e \in S
          PROVE  /\ Sign(Read(-1, d, e).score) = Sign(-n) <=> Sign(Read(1, d, e).score) = Sign(n)
                 /\ Sign(Read(-1, d, e).score) * Sign(-n) = -1
                      <=> Sign(Read(1, d, e).score) * Sign(n) = -1
      <4>1. PICK p \in {-1, 0, 1}, q \in {-1, 0, 1} :
              /\ p = Sign(Read(1, d, e).score) /\ q = Sign(n)
              /\ -p = Sign(Read(-1, d, e).score) /\ -q = Sign(-n)
        BY <1>1, <1>2, <3>1
      <4>2. (-p) * (-q) = p * q
        BY <4>1
      <4>3. -p = -q <=> p = q
        BY <4>1
      <4> QED
        BY <4>1, <4>2, <4>3
    <3> QED
      BY <3>2
  <2>4. score(1, n) # Null /\ score(-1, -n) # Null
    <3>1. \A way : for(way, n) \subseteq EventPool /\ against(way, n) \subseteq EventPool
      BY <1>1
    <3>2. \A i \in {n, -n} : -n \in Int /\ for(-1, -n) \subseteq EventPool /\ against(-1, -n) \subseteq EventPool
      BY <1>1
    <3> HIDE DEF for, against, n
    <3>3. /\ score(1, n) \in [num : Int, den : Int, confidence : Int \X Int,
                              supporting : SUBSET EventPool, conflicting : SUBSET EventPool]
          /\ score(-1, -n) \in [num : Int, den : Int, confidence : Int \X Int,
                                supporting : SUBSET EventPool, conflicting : SUBSET EventPool]
      BY <1>1, <3>1, <3>2
    <3> QED
      BY <3>3, PressureAssumption
  <2> HIDE DEF for, against, n
  <2> QED
    BY <1>1, <2>1, <2>2, <2>3, <2>4 DEF StandsAlike
<1> QED
  BY <1>4, <1>5

\* The difference of two scores turns round in the mirrored world, and only one
\* of two scores is the threshold above the other.
LEMMA RisesMirrored ==
  ASSUME NEW a, NEW b, NEW c, NEW e,
         a.num \in Int, b.num \in Int, a.den \in Nat \ {0}, b.den \in Nat \ {0},
         c.num = -a.num, e.num = -b.num, c.den = a.den, e.den = b.den
  PROVE  /\ Rises(c, e) <=> Rises(b, a)
         /\ ~(Rises(a, b) /\ Rises(b, a))
<1>1. StepNum \in Nat \ {0} /\ StepDen \in Nat \ {0}
  BY PressureAssumption
<1>2. PICK m \in Int, n \in Int, p \in Nat \ {0}, q \in Nat \ {0} :
        m = a.num /\ n = b.num /\ p = a.den /\ q = b.den
  OBVIOUS
<1> DEFINE x == m * q
           y == n * p
           r == StepNum * p * q
<1>3. x \in Int /\ y \in Int /\ (-m) * q = -x /\ (-n) * p = -y
  <2>1. ASSUME NEW i \in Int, NEW j \in Int PROVE i * j \in Int /\ (-i) * j = -(i * j)
    OBVIOUS
  <2> QED
    BY <1>2, <2>1
<1>4. r \in Nat \ {0} /\ StepNum * q * p = r
  <2>1. ASSUME NEW i \in Nat \ {0}, NEW j \in Nat \ {0} PROVE i * j \in Nat \ {0} /\ i * j = j * i
    OBVIOUS
  <2>2. StepNum * p \in Nat \ {0} /\ StepNum * p * q \in Nat \ {0}
    BY <1>1, <1>2, <2>1
  <2>3. StepNum * q * p = StepNum * p * q
    BY <1>1, <1>2
  <2> QED
    BY <2>2, <2>3
<1>5. Rises(a, b) <=> (x - y) * StepDen >= r
  BY <1>2 DEF Rises
<1>6. Rises(b, a) <=> (y - x) * StepDen >= r
  BY <1>2, <1>4 DEF Rises
<1>7. Rises(c, e) <=> ((-x) - (-y)) * StepDen >= r
  BY <1>2, <1>3 DEF Rises
<1> HIDE DEF x, y, r
<1>8. (-x) - (-y) = y - x
  BY <1>3
<1>9. (y - x) * StepDen = -((x - y) * StepDen) /\ (x - y) * StepDen \in Int
  BY <1>1, <1>3
<1>10. ~((x - y) * StepDen >= r /\ (y - x) * StepDen >= r)
  BY <1>4, <1>9
<1> QED
  BY <1>5, <1>6, <1>7, <1>8, <1>10

\* A change and what it is in the mirrored world.
LEMMA ChangeMirrored ==
  ASSUME NEW V, WindowIsAged(V), NEW W, WindowIsAged(W), NEW d \in Dimension
  PROVE  Change(ScoreDimension(1, d, V), ScoreDimension(1, d, W))
           = Opposite[Change(ScoreDimension(-1, d, V), ScoreDimension(-1, d, W))]
<1>1. PICK a, b, c, e : /\ a = ScoreDimension(1, d, V) /\ c = ScoreDimension(-1, d, V)
                        /\ b = ScoreDimension(1, d, W) /\ e = ScoreDimension(-1, d, W)
  OBVIOUS
<1>2. /\ a = Null <=> c = Null
      /\ a # Null => /\ a.num \in Int /\ a.den \in Nat \ {0}
                     /\ c.num = -a.num /\ c.den = a.den
  BY <1>1, ScoreMirrored
<1>3. /\ b = Null <=> e = Null
      /\ b # Null => /\ b.num \in Int /\ b.den \in Nat \ {0}
                     /\ e.num = -b.num /\ e.den = b.den
  BY <1>1, ScoreMirrored
<1>4. Change(a, b) = Opposite[Change(c, e)]
  <2>1. CASE Null \in {a, b}
    BY <1>2, <1>3, <2>1 DEF Change, Opposite
  <2>2. CASE Null \notin {a, b}
    <3>1. /\ Rises(c, e) <=> Rises(b, a)
          /\ Rises(e, c) <=> Rises(a, b)
          /\ ~(Rises(a, b) /\ Rises(b, a))
      BY <1>2, <1>3, <2>2, RisesMirrored
    <3>2. Change(a, b) = IF Rises(b, a) THEN "escalation"
                         ELSE IF Rises(a, b) THEN "deescalation" ELSE "none"
      BY <2>2 DEF Change
    <3>3. Change(c, e) = IF Rises(a, b) THEN "escalation"
                         ELSE IF Rises(b, a) THEN "deescalation" ELSE "none"
      BY <1>2, <1>3, <2>2, <3>1 DEF Change
    <3> QED
      BY <3>1, <3>2, <3>3 DEF Opposite
  <2> QED
    BY <2>1, <2>2
<1> QED
  BY <1>1, <1>4

\* A stored snapshot is what its window says.
Stands(s) ==
  /\ WindowIsAged(s.window)
  /\ \A d \in Dimension : s.scores[d] = ScoreDimension(1, d, s.window)

\* The window's ages, the stored snapshots, and the deltas that compare them.
PressureInv ==
  /\ WindowIsAged(ages)
  /\ latest # Null => Stands(latest)
  /\ previous # Null =>
       /\ Stands(previous) /\ Stands(latest)
       /\ deltas # Null => deltas = ComputeDelta(previous, latest)

\* The window keeps its shape as news arrive.
LEMMA ArrivalKeepsWindow ==
  ASSUME WindowIsAged(ages), NewsArrives
  PROVE  WindowIsAged(ages')
<1>1. PICK new \in SUBSET (EventPool \ DOMAIN ages) :
        ages' = [e \in {x \in DOMAIN ages : ages[x] < FullAge} \cup new |->
                   IF e \in new THEN 0 ELSE ages[e] + 1]
  BY DEF NewsArrives
<1>2. FullAge \in Nat
  BY PressureAssumption
<1>3. DOMAIN ages' \subseteq EventPool
  BY <1>1 DEF WindowIsAged
<1>4. ASSUME NEW e \in DOMAIN ages' PROVE ages'[e] \in 0..FullAge
  <2>1. CASE e \in new
    BY <1>1, <1>2, <2>1
  <2>2. CASE e \notin new
    <3>1. e \in DOMAIN ages /\ ages[e] < FullAge /\ ages'[e] = ages[e] + 1
      BY <1>1, <2>2
    <3>2. ages[e] \in 0..FullAge
      BY <3>1 DEF WindowIsAged
    <3> QED
      BY <1>2, <3>1, <3>2
  <2> QED
    BY <2>1, <2>2
<1> QED
  BY <1>3, <1>4 DEF WindowIsAged

\* Were every hypothesis to point the other way, the comparison of the two last
\* snapshots would report relief exactly where it reports alarm, on the same
\* evidence and with the same confidence, for any events, dimensions, weights,
\* ages and threshold (_score_dimension, compute_delta).
THEOREM EvenHandedHolds == PressureSpec => []EvenHanded
<1>1. PressureInit => PressureInv
  <2> SUFFICES ASSUME PressureInit PROVE PressureInv
    OBVIOUS
  <2>1. ages = <<>> /\ previous = Null /\ latest = Null
    BY DEF PressureInit
  <2>2. DOMAIN ages = {}
    BY <2>1
  <2> QED
    BY <2>1, <2>2 DEF PressureInv, WindowIsAged
<1>2. PressureInv /\ [PressureNext]_pressureVars => PressureInv'
  <2> SUFFICES ASSUME PressureInv, [PressureNext]_pressureVars PROVE PressureInv'
    OBVIOUS
  <2>1. CASE NewsArrives
    <3>1. WindowIsAged(ages')
      BY <2>1, ArrivalKeepsWindow DEF PressureInv
    <3>2. UNCHANGED <<previous, latest, deltas>>
      BY <2>1 DEF NewsArrives
    <3> QED
      BY <3>1, <3>2 DEF PressureInv
  <2>2. CASE Capture
    <3>1. PICK health \in Health :
            /\ latest' = BuildSnapshot(ages, health)
            /\ previous' = latest /\ deltas' = Null /\ ages' = ages
      BY <2>2 DEF Capture
    <3>2. /\ latest'.window = ages
          /\ \A d \in Dimension : latest'.scores[d] = ScoreDimension(1, d, ages)
      BY <3>1 DEF BuildSnapshot
    <3>3. Stands(latest')
      BY <3>2 DEF Stands, PressureInv
    <3> QED
      BY <3>1, <3>3 DEF PressureInv
  <2>3. CASE Compare
    <3>1. /\ deltas' = ComputeDelta(previous, latest)
          /\ UNCHANGED <<ages, previous, latest>>
      BY <2>3 DEF Compare
    <3> QED
      BY <3>1 DEF PressureInv
  <2>4. CASE Upgrade
    BY <2>4 DEF PressureInv, Upgrade
  <2>5. CASE UNCHANGED pressureVars
    BY <2>5 DEF PressureInv, pressureVars
  <2> QED
    BY <2>1, <2>2, <2>3, <2>4, <2>5 DEF PressureNext
<1>3. PressureInv => EvenHanded
  <2> SUFFICES ASSUME PressureInv, previous # Null, deltas # Null, NEW d \in Dimension
               PROVE  /\ deltas.moved[d] =
                           Opposite[Change(ScoreDimension(-1, d, previous.window),
                                           ScoreDimension(-1, d, latest.window))]
                      /\ StandsAlike(latest.scores[d], ScoreDimension(-1, d, latest.window))
    BY DEF EvenHanded
  <2>1. /\ WindowIsAged(previous.window) /\ WindowIsAged(latest.window)
        /\ previous.scores[d] = ScoreDimension(1, d, previous.window)
        /\ latest.scores[d] = ScoreDimension(1, d, latest.window)
        /\ deltas = ComputeDelta(previous, latest)
    BY DEF PressureInv, Stands
  <2>2. deltas.moved[d] = Change(previous.scores[d], latest.scores[d])
    BY <2>1 DEF ComputeDelta
  <2> QED
    BY <2>1, <2>2, ChangeMirrored, ScoreMirrored
<1> QED
  BY <1>1, <1>2, <1>3, PTL DEF PressureSpec

=============================================================================
