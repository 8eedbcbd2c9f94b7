--------------------------- MODULE JobLockProofs ---------------------------
(***************************************************************************)
(* What JobLock's lock guarantees, for every number of replicas and runs   *)
(* and every timeout.                                                      *)
(***************************************************************************)
EXTENDS JobLock, FiniteSetTheorems, TLAPS

\* The inductive invariant: types, the lock covers the run that calls unless
\* it was deleted under it, and a run has a handler exactly while it waits.
Inv == TypeOK /\ LockCoversRun /\ OneRunAtATime /\ OwnHandler

\* The initial state satisfies the invariant: no run is anywhere.
LEMMA InitHolds == Init => Inv
  BY LockAssumption
  DEF Init, Inv, TypeOK, LockCoversRun, OneRunAtATime, OwnHandler, Active, Calling

\* Handlers of a replica that crashes are finitely many.
LEMMA OrphansAreCounted ==
  ASSUME NEW S \in SUBSET Run
  PROVE  Cardinality(S) \in Nat
  BY LockAssumption, FS_Subset, FS_CardinalityType

\* A free lock means that every run that calls lost its own: a SET NX that
\* succeeds finds no covered run.
LEMMA FreeLockCoversNone ==
  ASSUME LockCoversRun, lock = Nobody
  PROVE  \A s \in Run : pc[s] \in Calling => s \in bare
  BY LockAssumption DEF LockCoversRun, Lock

\* SET NX: the run that enters is the only covered one.
LEMMA SetNXKeeps ==
  ASSUME Inv, NEW r \in Run, SetNX(r)
  PROVE  Inv'
<1>1. \A s \in Run : pc[s] \in Calling => s \in bare
  BY FreeLockCoversNone DEF Inv, SetNX
<1>2. /\ lock' = [owner |-> Home[r], ttl |-> Timeout]
      /\ lock' \in Lock /\ lock'.owner = Home[r] /\ lock'.ttl = Timeout
  BY LockAssumption DEF SetNX, LockTTL, Lock
<1>3. /\ pc' = [pc EXCEPT ![r] = "send"] /\ pc[r] = "setnx"
      /\ rem' = rem /\ attempt' = attempt /\ mine' = mine /\ bare' = bare
      /\ orphans' = orphans /\ manual' = manual
  BY DEF SetNX, MoveTo
<1>4. TypeOK'
  BY <1>2, <1>3 DEF Inv, TypeOK, Active, Calling
<1>5. LockCoversRun'
  <2>1. rem[r] <= Timeout
    BY <1>3 DEF Inv, TypeOK
  <2> QED
    BY <1>1, <1>2, <1>3, <2>1 DEF Inv, TypeOK, LockCoversRun, Active, Calling
<1>6. OneRunAtATime'
  BY <1>1, <1>3 DEF Inv, TypeOK, OneRunAtATime, Active, Calling
<1>7. OwnHandler'
  BY <1>3 DEF Inv, TypeOK, OwnHandler
<1> QED
  BY <1>4, <1>5, <1>6, <1>7 DEF Inv

\* A SET NX that is given up enters nowhere; a lock it left is a free lock's
\* successor and covers nobody.
LEMMA MissedKeeps ==
  ASSUME Inv, NEW r \in Run, Missed(r)
  PROVE  Inv'
<1>1. /\ pc' = [pc EXCEPT ![r] = "idle"] /\ rem' = [rem EXCEPT ![r] = 0]
      /\ attempt' = attempt /\ mine' = mine /\ bare' = bare
      /\ orphans' = orphans /\ manual' = manual /\ pc[r] = "setnx"
  BY DEF Missed, Return, MoveTo
<1>2. lock' \in Lock \cup {Nobody}
  BY LockAssumption DEF Missed, LockTTL, Lock, Inv, TypeOK
<1>3. TypeOK'
  BY <1>1, <1>2, LockAssumption DEF Inv, TypeOK, Active, Calling
<1>4. LockCoversRun'
  <2>1. CASE lock' = lock
    BY <1>1, <2>1 DEF Inv, TypeOK, LockCoversRun, Calling
  <2>2. CASE lock = Nobody
    <3>0. LockCoversRun
      BY DEF Inv
    <3>1. \A s \in Run : pc[s] \in Calling => s \in bare
      BY <2>2, <3>0, FreeLockCoversNone
    <3> QED
      BY <1>1, <3>1 DEF Inv, TypeOK, LockCoversRun, Calling
  <2> QED
    BY <2>1, <2>2 DEF Missed
<1>5. OneRunAtATime' /\ OwnHandler'
  BY <1>1 DEF Inv, TypeOK, OneRunAtATime, OwnHandler, Calling
<1> QED
  BY <1>3, <1>4, <1>5 DEF Inv

\* A release that deletes a lock leaves every run that calls without one.
LEMMA ReleaseKeeps ==
  ASSUME Inv, NEW r \in Run, Release(r)
  PROVE  Inv'
<1>1. /\ pc' = [pc EXCEPT ![r] = "idle"] /\ rem' = [rem EXCEPT ![r] = 0]
      /\ attempt' = attempt /\ mine' = mine
      /\ orphans' = orphans /\ manual' = manual /\ pc[r] = "release"
  BY DEF Release, Return, MoveTo
<1>2. \/ lock' = lock /\ bare' = bare
      \/ lock' = Nobody /\ bare' = {s \in Run : pc[s] \in Calling}
  BY DEF Release
<1>3. TypeOK'
  BY <1>1, <1>2, LockAssumption DEF Inv, TypeOK, Active, Calling
<1>4. LockCoversRun' /\ OneRunAtATime'
  BY <1>1, <1>2 DEF Inv, TypeOK, LockCoversRun, OneRunAtATime, Calling
<1>5. OwnHandler'
  BY <1>1 DEF Inv, TypeOK, OwnHandler
<1> QED
  BY <1>3, <1>4, <1>5 DEF Inv

\* The other steps of a run leave the lock alone.
LEMMA StepKeeps ==
  ASSUME Inv, NEW r \in Run, Fire(r) \/ Step(r)
  PROVE  Inv'
<1> USE LockAssumption
        DEF Inv, TypeOK, LockCoversRun, OneRunAtATime, OwnHandler, Active, Calling, MoveTo
<1>1. CASE Fire(r)
  BY <1>1 DEF Fire
<1>2. CASE SetNX(r)
  BY <1>2, SetNXKeeps
<1>3. CASE Missed(r)
  BY <1>3, MissedKeeps
<1>4. CASE Deliver(r)
  BY <1>4 DEF Deliver
<1>5. CASE Undelivered(r)
  BY <1>5 DEF Undelivered, Finish
<1>6. CASE Answer(r)
  BY <1>6 DEF Answer, Finish
<1>7. CASE Abandon(r)
  BY <1>7 DEF Abandon, Finish
<1>8. CASE Release(r)
  BY <1>8, ReleaseKeeps
<1>9. CASE ReleaseFails(r)
  BY <1>9 DEF ReleaseFails, Return
<1> QED
  BY <1>1, <1>2, <1>3, <1>4, <1>5, <1>6, <1>7, <1>8, <1>9 DEF Step

\* A crash ends every run of the replica, so nobody who calls loses the lock.
LEMMA CrashKeeps ==
  ASSUME Inv, NEW i \in Replica, Crash(i)
  PROVE  Inv'
<1> DEFINE dead == {r \in Run : Home[r] = i}
<1>1. /\ pc' = [r \in Run |-> IF r \in dead THEN "idle" ELSE pc[r]]
      /\ mine' = [r \in Run |-> IF r \in dead THEN 0 ELSE mine[r]]
      /\ orphans' = orphans + Cardinality({r \in dead : mine[r] > 0})
      /\ rem' = [r \in Run |-> IF r \in dead THEN 0 ELSE rem[r]]
      /\ attempt' = [r \in Run |-> IF r \in dead THEN 1 ELSE attempt[r]]
      /\ bare' = bare \ dead /\ manual' = manual
  BY DEF Crash
<1>2. lock' \in Lock \cup {Nobody}
  BY DEF Crash, Inv, TypeOK, Lock
<1>3. \A s \in Run : pc'[s] \in Calling => /\ pc[s] \in Calling /\ Home[s] # i
                                           /\ rem'[s] = rem[s] /\ (s \in bare' <=> s \in bare)
  BY <1>1 DEF Inv, TypeOK, Calling
<1>4. TypeOK'
  <2>1. orphans' \in Nat
    BY <1>1, OrphansAreCounted DEF Inv, TypeOK
  <2>2. rem' \in [Run -> Nat] /\ attempt' \in [Run -> 1..2] /\ mine' \in [Run -> Nat]
    BY <1>1 DEF Inv, TypeOK
  <2>3. \A s \in Run : rem'[s] <= IF pc'[s] = "release" THEN Grace ELSE Timeout
    BY <1>1, LockAssumption DEF Inv, TypeOK
  <2> QED
    BY <1>1, <1>2, <2>1, <2>2, <2>3 DEF Inv, TypeOK, Active, Calling
<1>5. LockCoversRun'
  <2>1. ASSUME NEW s \in Run, pc'[s] \in Calling, s \notin bare'
        PROVE  lock' = lock /\ lock \in Lock /\ lock.owner = Home[s] /\ rem'[s] <= lock.ttl
    <3>1. lock \in Lock /\ lock.owner = Home[s] /\ rem[s] <= lock.ttl
      BY <1>3, <2>1 DEF Inv, LockCoversRun
    <3> QED
      BY <1>3, <2>1, <3>1 DEF Crash
  <2> QED
    BY <2>1 DEF LockCoversRun
<1>6. OneRunAtATime'
  BY <1>3 DEF Inv, OneRunAtATime
<1>7. OwnHandler'
  BY <1>1 DEF Inv, TypeOK, OwnHandler
<1> QED
  BY <1>4, <1>5, <1>6, <1>7 DEF Inv

\* Time runs out for the context of a run that calls before it does for its
\* lock, so the lock cannot expire under it; under a release it can.
LEMMA TickKeeps ==
  ASSUME Inv, Tick
  PROVE  Inv'
<1>1. pc' = pc /\ mine' = mine /\ bare' = bare /\ attempt' = attempt
      /\ orphans' = orphans /\ manual' = manual
  BY DEF Tick
<1>2. lock' \in Lock \cup {Nobody}
  BY LockAssumption DEF Inv, TypeOK, Tick, Aged, Lock
<1>3. ASSUME NEW s \in Run, pc[s] \in Calling, s \notin bare
      PROVE  lock' \in Lock /\ lock'.owner = Home[s] /\ rem'[s] <= lock'.ttl
  <2>1. /\ rem[s] \in Nat /\ rem[s] > 0 /\ rem[s] <= lock.ttl
        /\ lock \in Lock /\ lock.owner = Home[s]
    BY <1>3 DEF Inv, TypeOK, Tick, LockCoversRun, Active, Calling
  <2>2. lock # Nobody /\ lock.ttl > 0 /\ lock.ttl \in 0..Timeout
    BY <2>1, LockAssumption DEF Lock
  <2>3. lock' = [lock EXCEPT !.ttl = @ - 1]
    BY <2>2 DEF Tick, Aged
  <2>4. rem'[s] = rem[s] - 1
    BY <1>3, <2>1 DEF Tick
  <2> QED
    BY <2>1, <2>2, <2>3, <2>4, LockAssumption DEF Lock
<1>4. TypeOK'
  <2>1. rem' \in [Run -> Nat] /\ \A s \in Run : rem'[s] <= rem[s]
    BY DEF Inv, TypeOK, Tick
  <2>2. \A s \in Run : rem'[s] <= IF pc'[s] = "release" THEN Grace ELSE Timeout
    BY <1>1, <2>1, LockAssumption DEF Inv, TypeOK
  <2> QED
    BY <1>1, <1>2, <2>1, <2>2 DEF Inv, TypeOK
<1>5. LockCoversRun'
  BY <1>1, <1>3 DEF LockCoversRun
<1> QED
  BY <1>1, <1>4, <1>5 DEF Inv, OneRunAtATime, OwnHandler

\* A restart of the service fails the calls that wait and touches no lock.
LEMMA RestartKeeps ==
  ASSUME Inv, ServiceRestart
  PROVE  Inv'
<1>1. /\ lock' = lock /\ mine' = [r \in Run |-> 0] /\ orphans' = 0 /\ manual' = 0
      /\ pc' = [r \in Run |-> IF pc[r] = "wait" THEN "release" ELSE pc[r]]
      /\ rem' = [r \in Run |-> IF pc[r] = "wait" THEN Grace ELSE rem[r]]
      /\ attempt' = [r \in Run |-> IF pc[r] = "wait" THEN 1 ELSE attempt[r]]
      /\ bare' = bare \ {r \in Run : pc[r] = "wait"}
  BY DEF ServiceRestart
<1>2. \A s \in Run : pc'[s] \in Calling => /\ pc[s] = "send" /\ rem'[s] = rem[s]
                                           /\ (s \in bare' <=> s \in bare)
  BY <1>1 DEF Inv, TypeOK, Calling
<1>3. TypeOK'
  BY <1>1, LockAssumption DEF Inv, TypeOK, Active, Calling
<1>4. LockCoversRun' /\ OneRunAtATime'
  BY <1>1, <1>2 DEF Inv, LockCoversRun, OneRunAtATime, Calling
<1>5. OwnHandler'
  BY <1>1 DEF Inv, TypeOK, OwnHandler
<1> QED
  BY <1>3, <1>4, <1>5 DEF Inv

\* Every step of the system keeps the invariant.
LEMMA NextKeeps ==
  ASSUME Inv, [Next]_vars
  PROVE  Inv'
<1> USE DEF Inv, TypeOK, LockCoversRun, OneRunAtATime, OwnHandler
<1>1. CASE OrphanEnds
  BY <1>1 DEF OrphanEnds
<1>2. CASE TriggerJob
  BY <1>2 DEF TriggerJob
<1>3. CASE TriggerEnds
  BY <1>3 DEF TriggerEnds
<1>4. CASE UNCHANGED vars
  BY <1>4 DEF vars
<1> QED
  BY <1>1, <1>2, <1>3, <1>4, StepKeeps, CrashKeeps, TickKeeps, RestartKeeps DEF Next

\* The invariant holds in every state of every behaviour.
THEOREM Invariance == Spec => []Inv
<1>1. Init => Inv
  BY InitHolds
<1>2. Inv /\ [Next]_vars => Inv'
  BY NextKeeps
<1> QED
  BY <1>1, <1>2, PTL DEF Spec

\* Type correctness of the lock, the runs and the handlers.
THEOREM TypeCorrect == Spec => []TypeOK
  BY Invariance, PTL DEF Inv

\* runWithLock excludes a second run of the job, for every number of replicas
\* and overlapping cron goroutines and every timeout of the job and of the
\* release, but for a run whose lock a late release of its replica deleted.
THEOREM MutualExclusion == Spec => []OneRunAtATime
  BY Invariance, PTL DEF Inv

\* Post's retry never starts a second handler for a run.
THEOREM DeliveredOnce == Spec => []OneDelivery
<1>1. Inv => OneDelivery
  BY DEF Inv, OwnHandler, OneDelivery
<1> QED
  BY <1>1, Invariance, PTL


\* The stage of every run, which ExclusiveJob's variable stands for.
Stages == [r \in Run |-> StageOf(r)]

\* ExclusiveJob sees a run at work exactly while it calls.
LEMMA AtWorkIsCalling ==
  ASSUME TypeOK, NEW r \in Run
  PROVE  /\ StageOf(r) \in {"entered", "called"} <=> pc[r] \in Calling
         /\ StageOf(r) = "out" <=> pc[r] \in {"idle", "setnx"}
         /\ StageOf(r) = "entered" <=> pc[r] = "send"
         /\ StageOf(r) = "called" <=> pc[r] = "wait"
         /\ StageOf(r) = "finished" <=> pc[r] = "release"
  BY DEF TypeOK, StageOf, Active, Calling

\* Moving one run moves its stage and no other.
LEMMA OneStageMoves ==
  ASSUME TypeOK, NEW r \in Run, NEW l, pc' = [pc EXCEPT ![r] = l],
         NEW st, st = IF l \in {"idle", "setnx"} THEN "out"
                      ELSE IF l = "send" THEN "entered"
                      ELSE IF l = "wait" THEN "called" ELSE "finished"
  PROVE  Stages' = [Stages EXCEPT ![r] = st]
  BY DEF TypeOK, Stages, StageOf

\* A run that finishes its call, as ExclusiveJob sees it.
LEMMA FinishMaps ==
  ASSUME TypeOK, NEW r \in Run, pc[r] \in Calling, Finish(r)
  PROVE  Exclusive!Finish(r)
<1>1. Stages' = [Stages EXCEPT ![r] = "finished"]
  <2>1. pc' = [pc EXCEPT ![r] = "release"]
    BY DEF Finish, MoveTo
  <2> QED
    BY <2>1 DEF TypeOK, Stages, StageOf, Calling, Active
<1>2. r \in Exclusive!AtWork
  BY AtWorkIsCalling DEF Exclusive!AtWork
<1> QED
  BY <1>1, <1>2 DEF Exclusive!Finish, Finish, Stages

\* A release deletes its own lock or that of a run of its replica: the one
\* covered run, if any, is at home there.
LEMMA ReleaseMaps ==
  ASSUME Inv, NEW r \in Run, Release(r)
  PROVE  Exclusive!Leave(r)
<1>1. Stages' = [Stages EXCEPT ![r] = "out"]
  BY OneStageMoves DEF Release, Return, MoveTo, Inv
<1>2. StageOf(r) = "finished"
  BY AtWorkIsCalling DEF Inv, Release
<1>3. Exclusive!AtWork = {s \in Run : pc[s] \in Calling}
  BY AtWorkIsCalling DEF Exclusive!AtWork, Inv
<1>4. CASE bare' = bare
  BY <1>1, <1>2, <1>4 DEF Exclusive!Leave, Stages
<1>5. CASE bare' # bare
  <2>1. lock.owner = Home[r] /\ bare' = {s \in Run : pc[s] \in Calling}
    BY <1>5 DEF Release
  <2>2. \A s \in Exclusive!AtWork \ bare : Home[s] = Home[r]
    BY <1>3, <2>1 DEF Inv, LockCoversRun
  <2> QED
    BY <1>1, <1>2, <1>3, <2>1, <2>2 DEF Exclusive!Leave, Stages
<1> QED
  BY <1>4, <1>5

\* A step of one run maps to the step of ExclusiveJob it is named for, or to
\* none; a free lock means that whoever is at work is exposed.
LEMMA RunStepMaps ==
  ASSUME Inv, NEW r \in Run, Fire(r) \/ Step(r)
  PROVE  [Exclusive!Next]_<<Stages, bare>>
<1> USE DEF Exclusive!Next
<1>t. TypeOK
  BY DEF Inv
<1>1. CASE Fire(r)
  <2>1. Stages' = Stages
    BY <1>t, <1>1 DEF Fire, MoveTo, Stages, StageOf, TypeOK
  <2> QED
    BY <1>1, <2>1 DEF Fire
<1>2. CASE SetNX(r)
  <2>1. Exclusive!AtWork \subseteq bare
    BY <1>t, <1>2, FreeLockCoversNone, AtWorkIsCalling
    DEF Inv, SetNX, Exclusive!AtWork
  <2>2. Stages' = [Stages EXCEPT ![r] = "entered"]
    BY <1>t, <1>2, OneStageMoves DEF SetNX, MoveTo
  <2>3. StageOf(r) = "out"
    BY <1>t, <1>2, AtWorkIsCalling DEF SetNX
  <2>4. Exclusive!Enter(r)
    BY <1>2, <2>1, <2>2, <2>3 DEF Exclusive!Enter, SetNX, Stages
  <2> QED
    BY <2>4
<1>3. CASE Missed(r)
  <2>1. Stages' = Stages
    BY <1>t, <1>3 DEF Missed, Return, MoveTo, Stages, StageOf, TypeOK
  <2> QED
    BY <1>3, <2>1 DEF Missed
<1>4. CASE Deliver(r)
  <2>1. Stages' = [Stages EXCEPT ![r] = "called"]
    BY <1>t, <1>4, OneStageMoves DEF Deliver, MoveTo
  <2>2. StageOf(r) = "entered"
    BY <1>t, <1>4, AtWorkIsCalling DEF Deliver
  <2>3. Exclusive!Call(r)
    BY <1>4, <2>1, <2>2 DEF Deliver, Exclusive!Call, Stages
  <2> QED
    BY <2>3
<1>5. CASE Undelivered(r)
  <2>1. CASE pc' = pc /\ bare' = bare
    BY <2>1 DEF StageOf, Stages
  <2>2. CASE Finish(r)
    BY <1>t, <1>5, <2>2, FinishMaps DEF Undelivered, Calling
  <2> QED
    BY <1>5, <2>1, <2>2 DEF Undelivered
<1>6. CASE Answer(r)
  BY <1>t, <1>6, FinishMaps DEF Answer, Calling
<1>7. CASE Abandon(r)
  BY <1>t, <1>7, FinishMaps DEF Abandon
<1>8. CASE Release(r)
  BY <1>8, ReleaseMaps
<1>9. CASE ReleaseFails(r)
  <2>1. Stages' = [Stages EXCEPT ![r] = "out"]
    BY <1>t, <1>9, OneStageMoves DEF ReleaseFails, Return, MoveTo
  <2>2. StageOf(r) = "finished"
    BY <1>t, <1>9, AtWorkIsCalling DEF ReleaseFails
  <2>3. Exclusive!Leave(r)
    BY <1>9, <2>1, <2>2 DEF ReleaseFails, Exclusive!Leave, Stages
  <2> QED
    BY <2>3
<1> QED
  BY <1>1, <1>2, <1>3, <1>4, <1>5, <1>6, <1>7, <1>8, <1>9 DEF Step

\* A crash ends every run of a replica, a restart of the service every call.
LEMMA FailuresMap ==
  ASSUME Inv
  PROVE  /\ \A i \in Replica : Crash(i) => Exclusive!Die(i)
         /\ ServiceRestart => Exclusive!Outage
<1>1. ASSUME NEW i \in Replica, Crash(i)
      PROVE  Exclusive!Die(i)
  <2>1. /\ pc' = [s \in Run |-> IF Home[s] = i THEN "idle" ELSE pc[s]]
        /\ bare' = bare \ {s \in Run : Home[s] = i}
    BY <1>1 DEF Crash
  <2>2. \A s \in Run : StageOf(s)' = IF Home[s] = i THEN "out" ELSE StageOf(s)
    BY <2>1 DEF StageOf
  <2>3. bare' = {s \in bare : Home[s] # i}
    BY <2>1 DEF Inv, TypeOK
  <2> QED
    BY <2>2, <2>3 DEF Exclusive!Die
<1>2. ASSUME ServiceRestart
      PROVE  Exclusive!Outage
  <2>1. /\ pc' = [s \in Run |-> IF pc[s] = "wait" THEN "release" ELSE pc[s]]
        /\ bare' = bare \ {s \in Run : pc[s] = "wait"}
    BY <1>2 DEF ServiceRestart
  <2>2. \A s \in Run : StageOf(s)' = IF StageOf(s) = "called" THEN "finished" ELSE StageOf(s)
    BY <2>1 DEF StageOf
  <2>3. bare' = {s \in bare : StageOf(s) # "called"}
    BY <2>1, AtWorkIsCalling DEF Inv, TypeOK
  <2>4. bare \subseteq Run
    BY DEF Inv, TypeOK
  <2> QED
    BY <2>2, <2>3, <2>4 DEF Exclusive!Outage
<1> QED
  BY <1>1, <1>2

\* Every step of the system is a step of ExclusiveJob or leaves it alone.
LEMMA NextMaps ==
  ASSUME Inv, [Next]_vars
  PROVE  [Exclusive!Next]_<<Stages, bare>>
<1>1. CASE pc' = pc /\ bare' = bare
  BY <1>1 DEF Stages, StageOf
<1>2. CASE OrphanEnds \/ TriggerJob \/ TriggerEnds \/ Tick \/ UNCHANGED vars
  BY <1>1, <1>2 DEF OrphanEnds, TriggerJob, TriggerEnds, Tick, vars
<1>3. CASE (\E i \in Replica : Crash(i)) \/ ServiceRestart
  BY <1>3, FailuresMap DEF Exclusive!Next
<1> QED
  BY <1>2, <1>3, RunStepMaps DEF Next

\* runWithLock implements ExclusiveJob for every number of replicas and runs
\* and every timeout: an expiring lock, lost answers, failed and late releases
\* and the crashes of either service let no two runs in beside each other and
\* no run call twice, except beside a run that a late release of its own
\* replica exposed.
THEOREM Refinement == Spec => ImplementsExclusiveJob
<1>1. Init => Exclusive!Init
  BY DEF Init, Exclusive!Init, StageOf
<1>2. Inv /\ [Next]_vars => [Exclusive!Next]_<<Stages, bare>>
  BY NextMaps
<1> QED
  BY <1>1, <1>2, Invariance, PTL
  DEF Spec, ImplementsExclusiveJob, Exclusive!Spec, Exclusive!vars, Stages

=============================================================================
