--------------------------- MODULE ModelRegistry ---------------------------
(***************************************************************************)
(* The trained versions of ONE symbol and horizon: their rows in           *)
(* model_versions, their artifacts on disk and their training_runs rows,   *)
(* under overlapping trainings (models/training.py, train_all), the        *)
(* artifact pruning (jobs/cleanup.py) and the retention                    *)
(* (core/retention.py).                                                    *)
(*                                                                         *)
(* Trainings are numbered in the order they start, which is the order of   *)
(* trained_at.  Ages are counted in ticks and stop at the first age that   *)
(* no rule tells apart any more.                                           *)
(***************************************************************************)
EXTENDS Integers, FiniteSets

CONSTANTS
  MaxTrainings,  \* bound on the trainings ever started
  ReapAge,       \* a 'running' row older than this is taken for dead
  ArtifactAge,   \* ARTIFACT_RETENTION_DAYS
  VersionAge     \* model_version_retention_days

ASSUME RegistryAssumption ==
  /\ MaxTrainings \in Nat \ {0}
  /\ ReapAge \in Nat
  /\ ArtifactAge \in Nat
  /\ VersionAge \in Nat

VARIABLES
  started,  \* trainings started so far
  tpc,      \* where each training is
  seen,     \* the version rows its UPDATE found
  row,      \* its row in model_versions: none, inactive or active
  file,     \* whether its artifact is on disk
  running,  \* the trainings whose training_runs row says 'running'
  age,      \* ticks since it started (trained_at), up to VersionAge + 1
  fileAge,  \* ticks since its artifact was written, up to ArtifactAge + 1
  cpc,      \* where the cleanup is
  keep,     \* the versions the cleanup found active
  old       \* the artifacts older than the cleanup's cutoff

trainVars == <<started, tpc, seen, row, file, running, age, fileAge>>
cleanVars == <<cpc, keep, old>>
registryVars == <<trainVars, cleanVars>>

Training == 1..MaxTrainings

Rows == {i \in Training : row[i] # "none"}
Active == {i \in Training : row[i] = "active"}
Storing == {"dumped", "updating", "updated"}
AtWork == {"evaluating", "closing"} \cup Storing

RegistryTypeOK ==
  /\ started \in 0..MaxTrainings
  /\ tpc \in [Training -> {"new", "done"} \cup AtWork]
  /\ seen \in [Training -> SUBSET Training]
  /\ row \in [Training -> {"none", "inactive", "active"}]
  /\ file \in [Training -> BOOLEAN]
  /\ running \subseteq Training
  /\ age \in [Training -> 0..(VersionAge + 1)]
  /\ fileAge \in [Training -> 0..(ArtifactAge + 1)]
  /\ cpc \in {"idle", "pruning", "retaining"}
  /\ keep \subseteq Training
  /\ old \subseteq Training

RegistryInit ==
  /\ started = 0
  /\ tpc = [i \in Training |-> "new"]
  /\ seen = [i \in Training |-> {}]
  /\ row = [i \in Training |-> "none"]
  /\ file = [i \in Training |-> FALSE]
  /\ running = {}
  /\ age = [i \in Training |-> 0]
  /\ fileAge = [i \in Training |-> 0]
  /\ cpc = "idle" /\ keep = {} /\ old = {}

-----------------------------------------------------------------------------
(* train_all                                                                *)

\* The stranded rows are closed and the run's own row is inserted, in one
\* transaction.
StartTraining(i) ==
  /\ i = started + 1
  /\ started' = i
  /\ tpc' = [tpc EXCEPT ![i] = "evaluating"]
  /\ running' = {i} \cup {j \in running : age[j] <= ReapAge}
  /\ UNCHANGED <<seen, row, file, age, fileAge, cleanVars>>

\* The horizon is disabled or no candidate produced folds: nothing to store.
NothingToTrain(i) ==
  /\ tpc[i] = "evaluating"
  /\ tpc' = [tpc EXCEPT ![i] = "closing"]
  /\ UNCHANGED <<started, seen, row, file, running, age, fileAge, cleanVars>>

\* The candidates are evaluated, a winner is chosen and joblib.dump writes it.
DumpArtifact(i) ==
  /\ tpc[i] = "evaluating"
  /\ tpc' = [tpc EXCEPT ![i] = "dumped"]
  /\ file' = [file EXCEPT ![i] = TRUE]
  /\ fileAge' = [fileAge EXCEPT ![i] = 0]
  /\ UNCHANGED <<started, seen, row, running, age, cleanVars>>

\* UPDATE ... SET is_active = FALSE: the statement's snapshot is taken.
Deactivate(i) ==
  /\ tpc[i] = "dumped"
  /\ tpc' = [tpc EXCEPT ![i] = "updating"]
  /\ seen' = [seen EXCEPT ![i] = Rows]
  /\ UNCHANGED <<started, row, file, running, age, fileAge, cleanVars>>

\* Rows another open transaction has updated.
Locked(j) == \E i \in Training : tpc[i] = "updated" /\ j \in seen[i]

\* Mutant: the UPDATE is committed on its own, before the winner's row.
Deactivated_Alone(i) ==
  /\ tpc[i] = "updating"
  /\ \A j \in seen[i] : ~Locked(j)
  /\ tpc' = [tpc EXCEPT ![i] = "updated"]
  /\ row' = [j \in Training |->
               IF j \in seen[i] /\ row[j] = "active" THEN "inactive" ELSE row[j]]
  /\ UNCHANGED <<started, seen, file, running, age, fileAge, cleanVars>>

\* It waits for the rows it found, and for no others.
Deactivated(i) ==
  /\ tpc[i] = "updating"
  /\ \A j \in seen[i] : ~Locked(j)
  /\ tpc' = [tpc EXCEPT ![i] = "updated"]
  /\ UNCHANGED <<started, seen, row, file, running, age, fileAge, cleanVars>>

\* The rows after the commit: what was found is inactive, the winner active.
Committed(i) ==
  [j \in Training |->
     IF j = i THEN "active"
     ELSE IF j \in seen[i] /\ row[j] = "active" THEN "inactive"
     ELSE row[j]]

\* The candidates' rows are inserted, the winner is activated, and the
\* transaction commits.
Activate(i) ==
  /\ tpc[i] = "updated"
  /\ tpc' = [tpc EXCEPT ![i] = "closing"]
  /\ row' = Committed(i)
  /\ UNCHANGED <<started, seen, file, running, age, fileAge, cleanVars>>

\* An exception here rolls the transaction back, one at another symbol or
\* horizon does not: the run is closed as failed, whatever its row says by now.
TrainingFails(i) ==
  /\ tpc[i] \in AtWork
  /\ tpc' = [tpc EXCEPT ![i] = "done"]
  /\ seen' = [seen EXCEPT ![i] = IF row[i] = "none" THEN {} ELSE @]
  /\ running' = running \ {i}
  /\ UNCHANGED <<started, row, file, age, fileAge, cleanVars>>

\* The final UPDATE of the run row, unconditional.
CloseRun(i) ==
  /\ tpc[i] = "closing"
  /\ tpc' = [tpc EXCEPT ![i] = "done"]
  /\ running' = running \ {i}
  /\ UNCHANGED <<started, seen, row, file, age, fileAge, cleanVars>>

Train(i) ==
  \/ StartTraining(i) \/ NothingToTrain(i) \/ DumpArtifact(i)
  \/ Deactivate(i) \/ Deactivated(i) \/ Activate(i)
  \/ TrainingFails(i) \/ CloseRun(i)

-----------------------------------------------------------------------------
(* run_cleanup: prune_model_artifacts, then run_retention                   *)

\* Mutant: every artifact that is not kept is taken, however young.
Old_Any == {i \in Training : file[i]}

\* The artifacts whose mtime is before the cutoff.
Old == {i \in Training : file[i] /\ fileAge[i] > ArtifactAge}

\* The active versions are read, then the cutoff is taken.
StartCleanup ==
  /\ cpc = "idle"
  /\ cpc' = "pruning"
  /\ keep' = Active
  /\ old' = Old
  /\ UNCHANGED trainVars

\* The walk comes to an artifact that is neither kept nor young.
Unlink(i) ==
  /\ cpc = "pruning"
  /\ i \in old \ keep
  /\ file' = [file EXCEPT ![i] = FALSE]
  /\ old' = old \ {i}
  /\ UNCHANGED <<started, tpc, seen, row, running, age, fileAge, cpc, keep>>

\* The unlink raises OSError: logged and skipped.
UnlinkFails(i) ==
  /\ cpc = "pruning"
  /\ i \in old \ keep
  /\ old' = old \ {i}
  /\ UNCHANGED <<trainVars, cpc, keep>>

EndPrune ==
  /\ cpc = "pruning"
  /\ old \subseteq keep
  /\ cpc' = "retaining"
  /\ keep' = {} /\ old' = {}
  /\ UNCHANGED trainVars

\* NOT is_active AND trained_at < cutoff.
Expired(i) == row[i] = "inactive" /\ age[i] > VersionAge

\* A row another transaction has updated is waited for.
DeleteVersions ==
  /\ cpc = "retaining"
  /\ \A i \in Training : Expired(i) => ~Locked(i)
  /\ \/ row' = [i \in Training |-> IF Expired(i) THEN "none" ELSE row[i]]
     \/ UNCHANGED row
  /\ cpc' = "idle"
  /\ UNCHANGED <<started, tpc, seen, file, running, age, fileAge, keep, old>>

Clean ==
  \/ StartCleanup \/ EndPrune \/ DeleteVersions
  \/ \E i \in Training : Unlink(i) \/ UnlinkFails(i)

-----------------------------------------------------------------------------

\* _load_active: the active row trained last.
Serving == {i \in Active : \A j \in Active : j <= i}

\* The service is killed: open transactions roll back, rows and files stay.
Restart ==
  /\ \/ \E i \in Training : tpc[i] \in AtWork
     \/ cpc # "idle"
  /\ tpc' = [i \in Training |-> IF tpc[i] \in AtWork THEN "done" ELSE tpc[i]]
  /\ seen' = [i \in Training |-> IF row[i] = "none" THEN {} ELSE seen[i]]
  /\ cpc' = "idle" /\ keep' = {} /\ old' = {}
  /\ UNCHANGED <<started, row, file, running, age, fileAge>>

\* Time passes; an age stops where every rule is past.  A tick is hours, and
\* nothing but the transaction lies between the dump and the commit.
Tick ==
  /\ \A i \in Training : tpc[i] \notin Storing
  /\ age' = [i \in Training |->
               IF i <= started /\ age[i] <= VersionAge THEN age[i] + 1 ELSE age[i]]
  /\ fileAge' = [i \in Training |->
                   IF file[i] /\ fileAge[i] <= ArtifactAge THEN fileAge[i] + 1
                   ELSE fileAge[i]]
  /\ UNCHANGED <<started, tpc, seen, row, file, running, cleanVars>>

RegistryNext ==
  \/ \E i \in Training : Train(i)
  \/ Clean \/ Restart \/ Tick

RegistrySpec == RegistryInit /\ [][RegistryNext]_registryVars

-----------------------------------------------------------------------------
(* Properties.                                                              *)

\* The version every reader is given can be loaded: no interleaving of a
\* training, the pruning and a crash leaves an active row whose artifact was
\* unlinked (cleanup.py: "referenced paths are always kept").
ActiveHasArtifact == \A i \in Active : file[i]

\* From its first version on, a horizon is never without an active one: no
\* failed, killed or overlapping training and no retention takes the last away
\* (train_all deactivates and activates in one transaction).
NeverUnservable == [][Serving # {} => Serving' # {}]_registryVars

=============================================================================
