----------------------------- MODULE MCJobLock -----------------------------
(* Two replicas; the cron may fire twice on the first of them.              *)
EXTENDS JobLock, TLC

CONSTANTS a, b, a1, a2, b1

MCHome == a1 :> a @@ a2 :> a @@ b1 :> b

=============================================================================
