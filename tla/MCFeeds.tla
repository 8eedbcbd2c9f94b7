------------------------------ MODULE MCFeeds -------------------------------
(* The documents and news the service reads from outside, on small          *)
(* instances.  The feeds share no variable: a behaviour is about one of     *)
(* them, and the others stay as they began.                                 *)
EXTENDS MCSciIngest, CbiEditions, FedPress, SdnList, GdeltQueries,
        SafeFetch, CbiHistory, TLC

CONSTANTS
  art1, u, v, i1, c1, c2, x, y, on,
  home, mirror, elsewhere,   \* two approved hosts and one that is not
  h1, h2                     \* two posts of CBI's history

VARIABLE focus

-----------------------------------------------------------------------------
(* Every document of five characters.                                       *)

MCDocuments ==
  {text \in [1 .. 5 -> Char \ {"other"}] :
     \A n \in 1 .. 5 : text[n] = "escape" => InString(text, n)}

\* A plain chunk, and one that inflates past the ratio but not past the cap.
MCChunks == {<<1, 1>>, <<1, 5>>}

-----------------------------------------------------------------------------
(* The quarters around the first Excel edition, Tir 1399.                   *)

MCQuarters == {<<1397, 9>>, <<1397, 12>>, <<1398, 3>>, <<1398, 6>>}
MCFirstExcel == <<1399, 4>>
MCSeriesOrder == <<"CBI_BASE_MONEY", "CBI_LIQUIDITY">>
MCEditions == {<<1399, 4>>, <<1399, 12>>}

MCPayload(base, liquidity, sound, agrees) ==
  [figure |-> ("CBI_BASE_MONEY" :> base @@ "CBI_LIQUIDITY" :> liquidity),
   sound |-> sound, agrees |-> [c \in {"CBI_BASE_MONEY", "CBI_LIQUIDITY"} |-> agrees]]

\* Two answers of the viewer that differ in one series, one that stops short
\* and revises, one with a gap, one in another unit, one of another series and
\* one without a figure of a series.
MCPayloads ==
  LET Every(n) == [q \in MCQuarters |-> n]
      Short(n) == <<1397, 9>> :> n
      Gappy(n) == <<1398, 3>> :> n @@ <<1398, 6>> :> n
  IN  {MCPayload(Every(1), Every(1), TRUE, TRUE), MCPayload(Every(1), Every(2), TRUE, TRUE),
       MCPayload(Short(2), Short(2), TRUE, TRUE), MCPayload(Gappy(3), Every(3), TRUE, TRUE),
       MCPayload(Every(9), Every(9), FALSE, FALSE), MCPayload(Every(8), Every(8), TRUE, FALSE),
       MCPayload(Every(1), <<>>, TRUE, TRUE)}

-----------------------------------------------------------------------------

economicVars == <<sciVars, cbiVars, historyVars>>
pressVars == <<fedVars, sdnVars, gdeltVars>>

vars == <<economicVars, pressVars, fetchVars, focus>>

Init ==
  /\ focus \in {"sci", "cbi", "fed", "sdn", "gdelt", "fetch", "history"}
  /\ SciInit
  /\ CbiInit
  /\ focus # "cbi" => \A e \in Published : site[e].method = "old"
  /\ FedInit
  /\ SdnInit
  /\ Listed(sdn.entries) = {x}
  /\ GdeltInit
  /\ start \in IF focus = "fetch" THEN [to : Target, creds : BOOLEAN]
              ELSE {[to |-> [host |-> home, sound |-> TRUE], creds |-> FALSE]}
  /\ FetchInit
  /\ HistoryInit

Next ==
  /\ UNCHANGED focus
  /\ \/ focus = "sci" /\ SciNext /\ UNCHANGED <<cbiVars, historyVars, pressVars, fetchVars>>
     \/ focus = "cbi" /\ CbiNext /\ UNCHANGED <<sciVars, historyVars, pressVars, fetchVars>>
     \/ focus = "fed" /\ FedNext /\ UNCHANGED <<economicVars, sdnVars, gdeltVars, fetchVars>>
     \/ focus = "sdn" /\ SdnNext /\ UNCHANGED <<economicVars, fedVars, gdeltVars, fetchVars>>
     \/ focus = "gdelt" /\ GdeltNext /\ UNCHANGED <<economicVars, fedVars, sdnVars, fetchVars>>
     \/ focus = "fetch" /\ FetchNext /\ UNCHANGED <<economicVars, pressVars>>
     \/ focus = "history" /\ HistoryNext /\ UNCHANGED <<sciVars, cbiVars, pressVars, fetchVars>>

Spec == Init /\ [][Next]_vars

Fed(A) == focus = "fed" /\ A /\ UNCHANGED <<focus, economicVars, sdnVars, gdeltVars, fetchVars>>

\* The scheduler calls the collection again and again, a call goes on to its
\* end unless the service is restarted, and time passes.
FairSpec ==
  /\ Spec
  /\ \A c \in Collect : WF_vars(Fed(CollectStep(c)))
  /\ \A c \in Ingest : WF_vars(Fed(fpc[c] # "idle" /\ IngestStep(c)))
  /\ WF_vars(Fed(FedTick))

\* A source that keeps failing keeps being retried (FedPress!NeverAbandoned,
\* for the behaviours that are about the press feed).
SourceNeverAbandoned == focus = "fed" => NeverAbandoned

=============================================================================
