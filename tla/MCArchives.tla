------------------------------ MODULE MCArchives ------------------------------
(* The four archives filled from TSETMC, on small instances.  They share    *)
(* no variable: a behaviour is about one of them, and the others stay in    *)
(* one initial state.                                                       *)
EXTENDS EquityBars, IndexHistory, ShareFetch, FundCloses, TLC

CONSTANTS i1, i2, s1, s2, r1

VARIABLE focus

Quote(c, r, t) == [close |-> c, ref |-> r, traded |-> t]

\* The exchange's own list: every reference is the close before it, unless
\* the fund's unit was split before the third session.
OwnLists ==
  {<<Quote(10, 10, TRUE), Quote(c, 10, TRUE), Quote(20, r, TRUE)>> :
     c \in {10, 20}, r \in {10, 20}}
  \cup {<<Quote(10, 10, TRUE), Quote(c, 10, FALSE), Quote(10, c, TRUE)>> : c \in {10, 20}}

\* The other copy lacks a session, states one close differently, by rounding
\* or by more, or restates a close and the reference that follows it.
OtherLists(own) ==
  {[own EXCEPT ![d] = q] : d \in FundDay, q \in {NoClose, Quote(11, 10, TRUE)}}
  \cup {[own EXCEPT ![d].close = 20] : d \in {1, 2}}
  \cup {[own EXCEPT ![d].close = 20, ![d + 1].ref = 20] : d \in {1, 2}}

MCMisstated == {<<s2, 2>>}

MCFundLists ==
  UNION {{[c \in {1, 2} |-> IF c = 1 THEN own ELSE other] : other \in OtherLists(own)} :
           own \in OwnLists}

vars == <<equityVars, indexVars, shareVars, fundVars, focus>>

Init ==
  /\ focus \in {"equity", "index", "shares", "funds"}
  /\ EquityInit
  /\ focus # "equity" => halted = {} /\ \A c \in {1, 2}, d \in Session :
                                          copies[c][d] = [close |-> 0, ref |-> 0]
  /\ IndexInit
  /\ focus # "index" => prints[2] = prints[1]
  /\ ShareInit
  /\ FundInit
  /\ focus # "funds" => lists = CHOOSE l \in FundLists : TRUE

Next ==
  /\ UNCHANGED focus
  /\ \/ focus = "equity" /\ EquityNext /\ UNCHANGED <<indexVars, shareVars, fundVars>>
     \/ focus = "index" /\ IndexNext /\ UNCHANGED <<equityVars, shareVars, fundVars>>
     \/ focus = "shares" /\ ShareNext /\ UNCHANGED <<equityVars, indexVars, fundVars>>
     \/ focus = "funds" /\ FundNext /\ UNCHANGED <<equityVars, indexVars, shareVars>>

Spec == Init /\ [][Next]_vars

=============================================================================
