------------------------------- MODULE MCJobs -------------------------------
(* A job's lock, and what the evaluation job does with the forecasts, on     *)
(* small instances.  They share no variable: a behaviour is about one, and   *)
(* the other stays as it began.                                              *)
EXTENDS MCJobLock, Maturity

CONSTANTS hourly, daily, e1, e2

VARIABLE focus

MCSteps == [h \in Horizon |-> IF h = daily THEN 2 ELSE 1]
MCTolerance == [h \in Horizon |-> IF h = daily THEN 2 ELSE 1]

\* A forecast graded at its target was right, one graded later was not, and one
\* graded earlier made no call; rows of one horizon have a feature too few.
MCCallOf(p) == IF p.actual = p.target THEN "hit" ELSE IF p.actual > p.target THEN "miss" ELSE "none"
MCSettles(calls) == Cardinality({p.h : p \in calls}) > 1

jobVars == <<vars, maturityVars, focus>>

JobsInit ==
  /\ focus \in {"lock", "maturity"}
  /\ Init /\ MaturityInit

JobsNext ==
  /\ UNCHANGED focus
  /\ \/ focus = "lock" /\ Next /\ UNCHANGED maturityVars
     \/ focus = "maturity" /\ MaturityNext /\ UNCHANGED vars

JobsSpec == JobsInit /\ [][JobsNext]_jobVars

\* The cron calls the evaluation every hour, and its handler goes on to the end
\* unless the service is killed; one called by hand is owed nothing.
FairJobsSpec ==
  /\ JobsSpec
  /\ Fairness
  /\ WF_jobVars(focus = "maturity" /\ Evaluate(e1) /\ UNCHANGED <<vars, focus>>)

=============================================================================
