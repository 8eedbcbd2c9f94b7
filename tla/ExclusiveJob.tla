---------------------------- MODULE ExclusiveJob ----------------------------
(***************************************************************************)
(* What the scheduler promises about one job (docs/architecture.md: "Only  *)
(* one scheduler instance runs a job at a time"; internalclient: a second  *)
(* attempt "would therefore be a second CONCURRENT run of the same job"):  *)
(* a run enters only when no other is at work, calls the service at most   *)
(* once, and leaves.  The promise has one gap: a run that leaves late may  *)
(* expose the run of its own replica that has entered since, and others    *)
(* may then enter beside that one.  JobLock implements it with a lock that *)
(* expires.                                                                *)
(***************************************************************************)
CONSTANTS Replica, Run, Home

VARIABLES
  stage,     \* how far each run is
  exposed    \* runs at work that nothing keeps others out for any more

vars == <<stage, exposed>>

AtWork == {r \in Run : stage[r] \in {"entered", "called"}}

Init ==
  /\ stage = [r \in Run |-> "out"]
  /\ exposed = {}

Enter(r) ==
  /\ stage[r] = "out"
  /\ AtWork \subseteq exposed
  /\ stage' = [stage EXCEPT ![r] = "entered"]
  /\ UNCHANGED exposed

\* The one request that may start a handler.
Call(r) ==
  /\ stage[r] = "entered"
  /\ stage' = [stage EXCEPT ![r] = "called"]
  /\ UNCHANGED exposed

\* An answer, an error or the end of the run's time.
Finish(r) ==
  /\ r \in AtWork
  /\ stage' = [stage EXCEPT ![r] = "finished"]
  /\ exposed' = exposed \ {r}

\* The service restarts: every call fails.
Outage ==
  /\ stage' = [r \in Run |-> IF stage[r] = "called" THEN "finished" ELSE stage[r]]
  /\ exposed' = {r \in exposed : stage[r] # "called"}

\* The run returns.  Whom it exposes has entered on its own replica.
Leave(r) ==
  /\ stage[r] = "finished"
  /\ stage' = [stage EXCEPT ![r] = "out"]
  /\ \/ UNCHANGED exposed
     \/ /\ exposed' = AtWork
        /\ \A s \in AtWork \ exposed : Home[s] = Home[r]

\* The process dies, and its runs with it.
Die(i) ==
  /\ stage' = [r \in Run |-> IF Home[r] = i THEN "out" ELSE stage[r]]
  /\ exposed' = {r \in exposed : Home[r] # i}

Next ==
  \/ \E r \in Run : Enter(r) \/ Call(r) \/ Finish(r) \/ Leave(r)
  \/ \E i \in Replica : Die(i)
  \/ Outage

Spec == Init /\ [][Next]_vars

=============================================================================
