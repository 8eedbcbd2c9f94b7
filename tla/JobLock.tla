------------------------------ MODULE JobLock ------------------------------
(***************************************************************************)
(* The scheduler's lock on ONE job                                         *)
(* (backend-go/internal/scheduler/scheduler.go, runWithLock), the call it  *)
(* protects (internal/internalclient, Post) and the Python handler that    *)
(* does the work (external), with an admin's unlocked trigger beside it    *)
(* (internal/admin/handlers.go, TriggerJob).                               *)
(*                                                                         *)
(* Timers count down: rem is what is left of a run's context (once it      *)
(* releases, of the release's own), ttl what is left of the lock.  The     *)
(* context is created before SET NX, so it ends strictly before the lock   *)
(* does; a lock with ttl 0 is still there.  The release has its time after *)
(* that, so the lock may expire under it and be set again by another run,  *)
(* of the same replica too: the release would delete that one's lock.      *)
(***************************************************************************)
EXTENDS Integers, FiniteSets

CONSTANTS
  Replica,      \* API processes
  Run,          \* cron goroutines of the job; cron does not skip running jobs
  Home,         \* Home[r]: the replica run r belongs to
  Timeout,      \* the job's timeout, in ticks
  Grace,        \* the release's own timeout ("5*time.Second"), in ticks
  MaxHandlers,  \* bound on the handlers at work at once
  Nobody

ASSUME LockAssumption ==
  /\ IsFiniteSet(Run)
  /\ Home \in [Run -> Replica]
  /\ Timeout \in Nat \ {0}
  /\ Grace \in Nat
  /\ MaxHandlers \in Nat
  /\ Nobody \notin Replica
  /\ Nobody \notin [owner : Replica \cup {Nobody}, ttl : 0..Timeout]

VARIABLES
  lock,      \* lock:job:<name>: the instanceID that set it and its ttl
  pc,        \* where each run is
  rem,       \* what is left of each run's context, or of its release's
  attempt,   \* which attempt of Post the run is making
  mine,      \* handlers at work whose run still waits for them
  orphans,   \* handlers at work whose run has gone
  manual,    \* handlers at work for an admin's trigger
  bare       \* ghost: the runs still calling whose lock a release deleted

vars == <<lock, pc, rem, attempt, mine, orphans, manual, bare>>

\* owner Nobody: a process that no longer exists.
Lock == [owner : Replica \cup {Nobody}, ttl : 0..Timeout]

Calling == {"send", "wait"}
Active == Calling \cup {"release"}

TypeOK ==
  /\ lock \in Lock \cup {Nobody}
  /\ pc \in [Run -> {"idle", "setnx"} \cup Active]
  /\ rem \in [Run -> Nat]
  /\ \A r \in Run : rem[r] <= IF pc[r] = "release" THEN Grace ELSE Timeout
  /\ attempt \in [Run -> 1..2]
  /\ mine \in [Run -> Nat]
  /\ orphans \in Nat
  /\ manual \in Nat
  /\ bare \subseteq {r \in Run : pc[r] \in Calling}

Init ==
  /\ lock = Nobody
  /\ pc = [r \in Run |-> "idle"]
  /\ rem = [r \in Run |-> 0]
  /\ attempt = [r \in Run |-> 1]
  /\ mine = [r \in Run |-> 0]
  /\ orphans = 0
  /\ manual = 0
  /\ bare = {}

-----------------------------------------------------------------------------
(* runWithLock                                                              *)

MoveTo(r, label) == pc' = [pc EXCEPT ![r] = label]

\* Post returned, and the deferred release begins with a context of its own.
Finish(r) ==
  /\ MoveTo(r, "release")
  /\ rem' = [rem EXCEPT ![r] = Grace]
  /\ attempt' = [attempt EXCEPT ![r] = 1]
  /\ bare' = bare \ {r}

\* runWithLock returned: the run has no timer.
Return(r) ==
  /\ MoveTo(r, "idle")
  /\ rem' = [rem EXCEPT ![r] = 0]

\* The cron fires: the run's context starts to run out.
Fire(r) ==
  /\ pc[r] = "idle"
  /\ MoveTo(r, "setnx")
  /\ rem' = [rem EXCEPT ![r] = Timeout]
  /\ UNCHANGED <<lock, attempt, mine, orphans, manual, bare>>

\* Mutant: a lock shorter than the job.
LockTTL_Short == Timeout - 1

\* "The lock TTL equals the job timeout".
LockTTL == Timeout

\* SET NX PX succeeds.
SetNX(r) ==
  /\ pc[r] = "setnx"
  /\ rem[r] > 0
  /\ lock = Nobody
  /\ lock' = [owner |-> Home[r], ttl |-> LockTTL]
  /\ MoveTo(r, "send")
  /\ UNCHANGED <<rem, attempt, mine, orphans, manual, bare>>

\* noteMissedRun: the lock is held, or Redis or the context fails, and then
\* SET NX may have set the lock and only its answer been lost.
Missed(r) ==
  /\ pc[r] = "setnx"
  /\ Return(r)
  /\ \/ UNCHANGED lock
     \/ lock = Nobody /\ lock' = [owner |-> Home[r], ttl |-> LockTTL]
  /\ UNCHANGED <<attempt, mine, orphans, manual, bare>>

\* The release script deletes the lock if it holds this process's instanceID,
\* which every run of the process sets: this run's lock, or after it expired
\* the lock another run of the replica has set since.
Release(r) ==
  /\ pc[r] = "release"
  /\ LET Deletes == lock # Nobody /\ lock.owner = Home[r] IN
       /\ lock' = IF Deletes THEN Nobody ELSE lock
       /\ bare' = IF Deletes THEN {s \in Run : pc[s] \in Calling} ELSE bare
  /\ Return(r)
  /\ UNCHANGED <<attempt, mine, orphans, manual>>

\* The script fails: a warning, and the lock is left to its ttl.
ReleaseFails(r) ==
  /\ pc[r] = "release"
  /\ Return(r)
  /\ UNCHANGED <<lock, attempt, mine, orphans, manual, bare>>

-----------------------------------------------------------------------------
(* Post                                                                     *)

\* The handlers at work (a run that waits has one).
AtWork == orphans + manual + Cardinality({r \in Run : mine[r] > 0})

\* The request reaches the service, and a handler starts.
Deliver(r) ==
  /\ pc[r] = "send"
  /\ rem[r] > 0
  /\ AtWork < MaxHandlers
  /\ mine' = [mine EXCEPT ![r] = @ + 1]
  /\ MoveTo(r, "wait")
  /\ UNCHANGED <<lock, rem, attempt, orphans, manual, bare>>

\* Connection setup fails: one more attempt, then the error is returned.
Undelivered(r) ==
  /\ pc[r] = "send"
  /\ \/ attempt[r] = 1 /\ attempt' = [attempt EXCEPT ![r] = 2] /\ UNCHANGED <<pc, rem, bare>>
     \/ attempt[r] = 2 /\ Finish(r)
  /\ UNCHANGED <<lock, mine, orphans, manual>>

\* The handler answers, with whatever status.
Answer(r) ==
  /\ pc[r] = "wait"
  /\ mine[r] > 0
  /\ mine' = [mine EXCEPT ![r] = @ - 1]
  /\ Finish(r)
  /\ UNCHANGED <<lock, orphans, manual>>

\* The call's timeout, the context's end or a connection broken in the
\* middle: the run gives up, the handler works on.
Abandon(r) ==
  /\ pc[r] \in Calling
  /\ Finish(r)
  /\ orphans' = orphans + mine[r]
  /\ mine' = [mine EXCEPT ![r] = 0]
  /\ UNCHANGED <<lock, manual>>

-----------------------------------------------------------------------------
(* The handlers (external), an admin's trigger, crashes and time.           *)

OrphanEnds ==
  /\ orphans > 0
  /\ orphans' = orphans - 1
  /\ UNCHANGED <<lock, pc, rem, attempt, mine, manual, bare>>

\* TriggerJob calls the service without any lock.
TriggerJob ==
  /\ AtWork < MaxHandlers
  /\ manual' = manual + 1
  /\ UNCHANGED <<lock, pc, rem, attempt, mine, orphans, bare>>

TriggerEnds ==
  /\ manual > 0
  /\ manual' = manual - 1
  /\ UNCHANGED <<lock, pc, rem, attempt, mine, orphans, bare>>

\* The prediction service restarts: every handler dies, every call fails.
ServiceRestart ==
  /\ AtWork > 0
  /\ mine' = [r \in Run |-> 0]
  /\ orphans' = 0
  /\ manual' = 0
  /\ LET waiting == {r \in Run : pc[r] = "wait"} IN
       /\ pc' = [r \in Run |-> IF r \in waiting THEN "release" ELSE pc[r]]
       /\ rem' = [r \in Run |-> IF r \in waiting THEN Grace ELSE rem[r]]
       /\ attempt' = [r \in Run |-> IF r \in waiting THEN 1 ELSE attempt[r]]
       /\ bare' = bare \ waiting
  /\ UNCHANGED lock

\* An API process dies and comes back with a new instanceID.
Crash(i) ==
  /\ \E r \in Run : Home[r] = i /\ pc[r] # "idle"
  /\ LET dead == {r \in Run : Home[r] = i} IN
       /\ pc' = [r \in Run |-> IF r \in dead THEN "idle" ELSE pc[r]]
       /\ mine' = [r \in Run |-> IF r \in dead THEN 0 ELSE mine[r]]
       /\ orphans' = orphans + Cardinality({r \in dead : mine[r] > 0})
       /\ rem' = [r \in Run |-> IF r \in dead THEN 0 ELSE rem[r]]
       /\ attempt' = [r \in Run |-> IF r \in dead THEN 1 ELSE attempt[r]]
       /\ bare' = bare \ dead
  /\ lock' = IF lock # Nobody /\ lock.owner = i THEN [lock EXCEPT !.owner = Nobody] ELSE lock
  /\ UNCHANGED manual

\* Mutant: SET NX without an expiry.
Aged_Never(l) == l

\* The lock a tick later: Redis drops it when its expiry has passed.
Aged(l) == IF l = Nobody THEN Nobody
           ELSE IF l.ttl = 0 THEN Nobody
           ELSE [l EXCEPT !.ttl = @ - 1]

\* Time passes.  The call returns when its context ends, and so does the
\* release.
Tick ==
  /\ \A r \in Run : pc[r] \in Active => rem[r] > 0
  /\ rem' = [r \in Run |-> IF rem[r] = 0 THEN 0 ELSE rem[r] - 1]
  /\ lock' = Aged(lock)
  /\ UNCHANGED <<pc, attempt, mine, orphans, manual, bare>>

\* The steps of a run once it has fired.
Step(r) ==
  \/ SetNX(r) \/ Missed(r)
  \/ Deliver(r) \/ Undelivered(r) \/ Answer(r) \/ Abandon(r)
  \/ Release(r) \/ ReleaseFails(r)

Next ==
  \/ \E r \in Run : Fire(r) \/ Step(r)
  \/ \E i \in Replica : Crash(i)
  \/ OrphanEnds \/ TriggerJob \/ TriggerEnds \/ ServiceRestart
  \/ Tick

Spec == Init /\ [][Next]_vars

\* Time does not stop, and a goroutine that can go on goes on (at the latest
\* when its context ends).  Nothing makes a handler finish or a cron fire.
Fairness == WF_vars(Tick) /\ \A r \in Run : WF_vars(Step(r))

FairSpec == Spec /\ Fairness

-----------------------------------------------------------------------------
(* Properties.                                                              *)

\* Two runs of the job never call the service at once, on whatever replicas
\* and whatever crashed, failed, expired or timed out (architecture.md: "Only
\* one scheduler instance runs a job at a time"), but for a run whose lock a
\* late release of its own replica deleted under it.
OneRunAtATime ==
  \A r, s \in Run :
     pc[r] \in Calling /\ pc[s] \in Calling /\ {r, s} \cap bare = {} => r = s

\* How far a run is, as ExclusiveJob sees it.
StageOf(r) ==
  IF pc[r] \in {"idle", "setnx"} THEN "out"
  ELSE IF pc[r] = "send" THEN "entered"
  ELSE IF pc[r] = "wait" THEN "called" ELSE "finished"

Exclusive == INSTANCE ExclusiveJob
  WITH stage <- [r \in Run |-> StageOf(r)], exposed <- bare

\* The lock implements ExclusiveJob: whatever crashes, fails, expires or is
\* retried, a run enters only when no other is at work, has its request
\* delivered at most once, and can lose its protection in one way only, to a
\* run of its own replica that leaves late (scheduler.go, the deferred Eval
\* with the process's instanceID).
ImplementsExclusiveJob == Exclusive!Spec

\* The retry of a call never puts a second handler beside the first
\* (internalclient: "A second attempt would therefore be a second CONCURRENT
\* run of the same job").
OneDelivery == \A r \in Run : mine[r] <= 1

\* A run that calls owns the lock, for at least as long as its context lasts,
\* unless it was deleted under it.  The inductive invariant behind
\* OneRunAtATime.
LockCoversRun ==
  \A r \in Run : pc[r] \in Calling /\ r \notin bare =>
    /\ lock \in Lock
    /\ lock.owner = Home[r]
    /\ rem[r] <= lock.ttl

\* A run that waits has its handler; no other run has one.
OwnHandler == \A r \in Run : mine[r] = IF pc[r] = "wait" THEN 1 ELSE 0

\* A lock left behind by a killed run does not stop the job for good.
LockIsFreed == lock # Nobody ~> lock = Nobody

\* A handler a scheduled run started is covered by the job's lock until it
\* ends (internalclient: "after a timeout on collect/train/evaluate the job is
\* still running, still holding the same Redis lock").
HandlerIsLocked == orphans > 0 \/ (\E r \in Run : mine[r] > 0) => lock # Nobody

=============================================================================
