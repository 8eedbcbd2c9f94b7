----------------------------- MODULE EquityBars -----------------------------
(***************************************************************************)
(* The daily bars of ONE share, the corporate actions read from them and   *)
(* the verdict on the adjusted series (equities/ingest.py, ingest_payload; *)
(* equities/adjust.py), under overlapping ingests of payloads served by    *)
(* two copies of TSETMC's history that need not agree.                     *)
(*                                                                         *)
(* Prices are logarithms: a ratio is a difference and a cumulative factor  *)
(* a sum.                                                                  *)
(***************************************************************************)
EXTENDS Restatement

CONSTANTS
  Sessions,      \* trading days 1 to Sessions
  Prices,        \* (logarithms of) prices
  Ingester,      \* handlers of /internal/equities/bars
  MaxIngests,    \* bound on the ingests ever started
  MaxDiffer,     \* bound on the sessions the copies disagree about
  MaxSession,    \* MAX_SESSION_RETURN
  MaxReopening,  \* MAX_REOPENING_RETURN
  Missing        \* no bar

ASSUME EquityAssumption ==
  /\ {Sessions, MaxIngests, MaxDiffer} \subseteq Nat \ {0}
  /\ Prices \subseteq Int
  /\ {MaxSession, MaxReopening} \subseteq Nat

VARIABLES
  copies,   \* what each CDN copy says of each session
  halted,   \* the sessions on which nothing traded
  listed,   \* sessions published so far
  bars,     \* equity_bars
  alts,     \* equity_bar_alternatives
  actions,  \* corporate_actions
  verdict,  \* equity_adjustments.status
  blind,    \* two ingests have derived actions with rows of both uncommitted
  ingests,  \* ingests started
  ipc, pay, snap, mine  \* each ingest: its payload, the bars it read, its rows

marketVars == <<copies, halted, listed>>
equityVars == <<marketVars, bars, alts, actions, verdict, blind,
                ingests, ipc, pay, snap, mine>>

Session == 1..Sessions
Bar == [close : Prices, ref : Prices]
NoBars == [d \in Session |-> Missing]
HeldIn(B) == {d \in Session : B[d] # Missing}
Traded(d) == d \notin halted

EquityTypeOK ==
  /\ copies \in [{1, 2} -> [Session -> Bar \cup {Missing}]]
  /\ halted \subseteq Session
  /\ listed \in 0..Sessions
  /\ bars \in [Session -> Bar \cup {Missing}]
  /\ \A a \in alts : a.day \in HeldIn(bars) /\ [close |-> a.close, ref |-> a.ref] \in Bar
  /\ \A a, b \in actions : a.day = b.day => a = b
  /\ verdict \in {"none", "validated", "refused"}
  /\ ipc \in [Ingester -> {"idle", "read", "derived"}]

\* One copy is the exchange's own record, complete; the other may lack a
\* session and state a close or a reference differently.  Only differences of
\* prices matter, and the first reference is never read.
EquityInit ==
  /\ copies \in [{1, 2} -> [Session -> Bar \cup {Missing}]]
  /\ HeldIn(copies[1]) = Session
  /\ copies[1][1] = [close |-> 0, ref |-> 0]
  /\ copies[2][1] # Missing => copies[2][1].ref = 0
  /\ Cardinality({d \in Session : copies[1][d] # copies[2][d]}) <= MaxDiffer
  /\ halted \in {{}, {2}}
  /\ listed = 2
  /\ bars = NoBars
  /\ alts = {} /\ actions = {} /\ verdict = "none"
  /\ blind = FALSE
  /\ ingests = 0
  /\ ipc = [i \in Ingester |-> "idle"]
  /\ pay = [i \in Ingester |-> NoBars]
  /\ snap = [i \in Ingester |-> NoBars]
  /\ mine = [i \in Ingester |-> [bars |-> NoBars, alts |-> {}, actions |-> {}, old |-> {}]]

-----------------------------------------------------------------------------
(* adjust.py                                                                *)

\* chained_by_a_copy: some statement served of d closes where some statement
\* served of e opens.
ChainedByACopy(B, A, d, e) ==
  LET closes == {B[d].close} \cup {a.close : a \in {x \in A : x.day = d}}
      refs == {B[e].ref} \cup {a.ref : a \in {x \in A : x.day = e}}
  IN Traded(d) /\ Traded(e) /\ closes \cap refs # {}

\* The action a session implies with the one before it: none, or its ratio.
Ratio(B, A, d, e) ==
  IF B[e].ref # B[d].close
  THEN IF ChainedByACopy(B, A, d, e) THEN 0 ELSE B[e].ref - B[d].close
  ELSE IF Traded(e) THEN 0 ELSE B[e].close - B[e].ref

\* The sessions with an earlier one, and that one.
Pairs(B) == {p \in HeldIn(B) \X HeldIn(B) : p[1] < p[2] /\ p[1] = Before(HeldIn(B), p[2])}

\* What a session implies with the one before it.
Implied(B, A, d) ==
  IF d \in HeldIn(B) /\ {e \in HeldIn(B) : e < d} # {}
  THEN Ratio(B, A, Before(HeldIn(B), d), d) ELSE 0

\* chain_factors, from the newest session back: the sum of the newest n ratios.
Chained(B, A) == Running(Sessions, [n \in Session |-> Implied(B, A, Sessions + 1 - n)])

\* detect_actions: each action with its ratio, and the sum of it and every
\* later one.
Detect(B, A) ==
  LET chained == Chained(B, A) IN
  {[day |-> p[2], prev |-> p[1], ratio |-> Implied(B, A, p[2]),
    factor |-> chained[Sessions + 1 - p[2]]] : p \in {q \in Pairs(B) : Implied(B, A, q[2]) # 0}}

\* apply_factors: the factor of the first action strictly after the day.
Factor(K, d) ==
  LET after == {a \in K : a.day > d} IN
  IF after = {} THEN 0 ELSE (CHOOSE a \in after : \A b \in after : a.day <= b.day).factor

Adjusted(B, K, d) == B[d].close + Factor(K, d)

Abs(n) == IF n < 0 THEN -n ELSE n

\* The traded span: the placeholders before the first trade are left out.
Span(B) == {d \in HeldIn(B) : \E e \in HeldIn(B) : e <= d /\ Traded(e)}

\* session_moves and validate: a move between two traded sessions is held to
\* the session's limit, one across a halt to the reopening's.
Violations(B, K) ==
  {p \in Pairs(B) :
     /\ p[1] \in Span(B)
     /\ Abs(Adjusted(B, K, p[2]) - Adjusted(B, K, p[1]))
          > (IF Traded(p[1]) /\ Traded(p[2]) THEN MaxSession ELSE MaxReopening)}

Status(B, K) == IF Violations(B, K) = {} THEN "validated" ELSE "refused"

-----------------------------------------------------------------------------
(* ingest_payload                                                           *)

\* A payload is a copy's whole history, as far as it is published.
Payload(c) == [d \in Session |-> IF d <= listed THEN copies[c][d] ELSE Missing]

\* The transaction reads the stored bars.  A payload no bar of which traded is
\* refused before it.
ReadBars(i) ==
  /\ ipc[i] = "idle"
  /\ ingests < MaxIngests
  /\ ingests' = ingests + 1
  /\ \E c \in {1, 2} :
       /\ Span(Payload(c)) # {}
       /\ pay' = [pay EXCEPT ![i] = Payload(c)]
  /\ snap' = [snap EXCEPT ![i] = bars]
  /\ ipc' = [ipc EXCEPT ![i] = "read"]
  /\ UNCHANGED <<marketVars, bars, alts, actions, verdict, blind, mine>>

Pending(i) == HeldIn(pay[i]) \ HeldIn(snap[i])
Compared(i) == HeldIn(pay[i]) \cap HeldIn(snap[i])
Restated(i) == {d \in Compared(i) : pay[i][d] # snap[i][d]}

\* A new session whose reference is the payload's own close of a stored bar
\* that the store holds differently.
BadJoin(i) ==
  \E d \in JoinsOntoRestated(HeldIn(snap[i]), Pending(i), Restated(i)) :
    LET b == Before(HeldIn(snap[i]) \cup Pending(i), d) IN
    pay[i][b].close # snap[i][b].close /\ pay[i][d].ref = pay[i][b].close

\* Some other series, or a bad join: nothing is written.
RefuseBars(i) ==
  /\ ipc[i] = "read"
  /\ OtherSeries(Compared(i), Restated(i)) \/ BadJoin(i)
  /\ ipc' = [ipc EXCEPT ![i] = "idle"]
  /\ pay' = [pay EXCEPT ![i] = NoBars]
  /\ snap' = [snap EXCEPT ![i] = NoBars]
  /\ UNCHANGED <<marketVars, bars, alts, actions, verdict, blind, ingests, mine>>

\* The rows of the other open transactions.
Uncommitted(i) == UNION {HeldIn(mine[j].bars) : j \in Ingester \ {i}}

\* _write_bars: what the copy says of the bars it restates is kept beside them.
Alternatives(i) ==
  {[day |-> d, close |-> pay[i][d].close, ref |-> pay[i][d].ref] : d \in Restated(i)}

\* The stored bars with the rows R of a payload.
With(B, P, R) == [d \in Session |-> IF d \in R /\ B[d] = Missing THEN P[d] ELSE B[d]]

\* The new bars are inserted, unless another ingest's are there by now; one
\* that is still uncommitted is waited for.  The actions are then derived over
\* every bar this transaction can see.
DeriveActions(i) ==
  /\ ipc[i] = "read"
  /\ ~OtherSeries(Compared(i), Restated(i)) /\ ~BadJoin(i)
  /\ Pending(i) \cap Uncommitted(i) = {}
  /\ LET B == With(bars, pay[i], Pending(i))
         A == alts \cup Alternatives(i)
     IN mine' = [mine EXCEPT ![i] =
          [bars |-> [d \in Session |-> IF bars[d] = Missing THEN B[d] ELSE Missing],
           alts |-> Alternatives(i),
           actions |-> Detect(B, A),
           old |-> actions]]
  /\ blind' = (blind \/ \E j \in Ingester \ {i} : ipc[j] = "derived")
  /\ ipc' = [ipc EXCEPT ![i] = "derived"]
  /\ UNCHANGED <<marketVars, bars, alts, actions, verdict, ingests, pay, snap>>

\* Mutant: an action that is no longer detected stays.
Replaced_Kept(i) ==
  mine[i].actions \cup
    {a \in actions : \A b \in mine[i].actions : a.day # b.day}

\* _write_actions: the actions it read are retired, superseded or refactored
\* into the ones detected; one it did not see stays.
Replaced(i) ==
  mine[i].actions \cup
    {a \in actions \ mine[i].old : \A b \in mine[i].actions : a.day # b.day}

\* _write_verdict, over the bars the transaction sees.
BarsVerdict(i) == Status(With(bars, mine[i].bars, Session), mine[i].actions)

\* The transaction commits.
CommitBars(i) ==
  /\ ipc[i] = "derived"
  /\ bars' = With(bars, mine[i].bars, Session)
  /\ alts' = alts \cup mine[i].alts
  /\ actions' = Replaced(i)
  /\ verdict' = BarsVerdict(i)
  /\ ipc' = [ipc EXCEPT ![i] = "idle"]
  /\ pay' = [pay EXCEPT ![i] = NoBars]
  /\ snap' = [snap EXCEPT ![i] = NoBars]
  /\ mine' = [mine EXCEPT ![i] = [bars |-> NoBars, alts |-> {}, actions |-> {}, old |-> {}]]
  /\ UNCHANGED <<marketVars, blind, ingests>>

\* A session closes and both copies publish it.
NextSession ==
  /\ listed < Sessions
  /\ listed' = listed + 1
  /\ UNCHANGED <<copies, halted, bars, alts, actions, verdict, blind,
                 ingests, ipc, pay, snap, mine>>

EquityNext ==
  \/ NextSession
  \/ \E i \in Ingester : ReadBars(i) \/ RefuseBars(i) \/ DeriveActions(i) \/ CommitBars(i)

EquitySpec == EquityInit /\ [][EquityNext]_equityVars

-----------------------------------------------------------------------------
(* Properties.                                                              *)

\* The stored factors chain the stored bars, whichever copies served them and
\* in whatever order sessions were filled in: across every uncontested pair the
\* adjusted close before meets the exchange's own reference after.  Two ingests
\* that derived over each other's uncommitted rows are the exception.
FactorsChainBars ==
  blind \/ \A p \in Pairs(bars) :
    LET d == p[1]  e == p[2]
        meets == IF bars[e].ref = bars[d].close /\ ~Traded(e)
                 THEN bars[e].close ELSE bars[e].ref
    IN \/ bars[e].ref # bars[d].close /\ ChainedByACopy(bars, alts, d, e)
       \/ bars[d].close + Factor(actions, d) = meets + Factor(actions, e)

=============================================================================
