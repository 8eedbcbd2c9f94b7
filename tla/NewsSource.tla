----------------------------- MODULE NewsSource -----------------------------
(***************************************************************************)
(* A row of news_sources: the courtesy interval and the circuit breaker    *)
(* every news pass consults before it polls (app/news/registry.py and      *)
(* app/news/sources/__init__.py).  Stamps are kept as ages, in ticks, and  *)
(* stop growing where no decision can tell them apart any more.            *)
(***************************************************************************)
EXTENDS Naturals, FiniteSetsExt

CONSTANTS
  Interval,      \* min_interval_seconds
  Trip,          \* CIRCUIT_TRIP_FAILURES
  BaseCooldown,  \* CIRCUIT_BASE_COOLDOWN_S
  MaxCooldown,   \* CIRCUIT_MAX_COOLDOWN_S
  MaxFailures    \* bound on the failure counter, past the capped cooldown

ASSUME SourceAssumption ==
  /\ {Interval, Trip, BaseCooldown, MaxCooldown, MaxFailures} \subseteq Nat
  /\ Trip <= MaxFailures
  /\ Interval <= MaxCooldown

Age == 0..MaxCooldown

Source == [polled : Age, error : Age, failures : 0..MaxFailures]

\* Never polled, never failed: as good as long ago.
NewSource == [polled |-> MaxCooldown, error |-> MaxCooldown, failures |-> 0]

Older(n) == Min({n + 1, MaxCooldown})

Aged(s) == [s EXCEPT !.polled = Older(@), !.error = Older(@)]

Cooldown(failures) == Min({BaseCooldown * 2^(failures - Trip), MaxCooldown})

\* Mutant: the breaker closes on a success only.
CircuitOpen_Latched(s) == s.failures >= Trip

CircuitOpen(s) == s.failures >= Trip /\ s.error < Cooldown(s.failures)

\* poll_gate and poll_due: the courtesy interval alone.
PollDue(s) == s.polled >= Interval

ShouldAttempt(s) == ~CircuitOpen(s) /\ PollDue(s)

Bumped(n) == Min({n + 1, MaxFailures})

\* mark_polled(ok=True), which record_attempt's success amounts to.
PolledOk(s) == [s EXCEPT !.polled = 0, !.failures = 0]

\* mark_polled(ok=False), counting from the failures it had read.
PolledFailed(s, counted) ==
  [s EXCEPT !.polled = 0, !.error = 0, !.failures = Bumped(counted)]

=============================================================================
