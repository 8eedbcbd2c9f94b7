----------------------------- MODULE SafeFetch -----------------------------
(* news/safefetch.py: one fetch of a source's URL.  Redirects are walked by  *)
(* hand, every target is checked before it is asked, transient answers are   *)
(* tried again, the body is read under caps, and what came back is parsed    *)
(* under limits.                                                             *)
(*                                                                            *)
(* A URL is its host and whether the rest of it is acceptable (https, no     *)
(* user info, an allowed port, no IP literal).  What DNS answers is chosen   *)
(* at every look-up.                                                         *)
EXTENDS Integers, Sequences, FiniteSets

CONSTANTS
  Host,         \* host names
  Approved,     \* those the source's allowlist matches
  MaxRedirects, \* max_redirects
  MaxTries,     \* max_attempts
  WireCap,      \* max_bytes
  DecodedCap,   \* max_decompressed_bytes
  RatioFloor,   \* compression_ratio_floor_bytes
  RatioCap,     \* max_compression_ratio
  Chunks,       \* <<wire bytes, decoded bytes>> of a chunk
  MaxDepth,     \* max_depth
  Documents     \* what a body may hold: sequences of Char

\* json's characters, as the depth scan tells them apart.
Char == {"quote", "escape", "open", "close", "other"}

ASSUME SafeFetchAssumption ==
  /\ Approved \subseteq Host
  /\ {MaxRedirects, WireCap, DecodedCap, RatioFloor, RatioCap, MaxDepth} \subseteq Nat
  /\ MaxTries \in Nat \ {0}
  /\ Documents \subseteq Seq(Char)

VARIABLES
  fetchStep,  \* "idle", "ask", "read", "parse" or "ended"
  start,      \* the URL asked for, and whether the caller's headers hold credentials
  target,     \* current
  origin,     \* origin_host
  carries,    \* request_headers still hold credentials
  hops,       \* len(chain) - 1
  attempts,   \* attempts begun
  got,        \* wire and decoded bytes of the body so far
  asked,      \* every request sent: its host and whether it carried credentials
  parsed,     \* what the parser was given
  result      \* how the fetch ended

fetchVars == <<fetchStep, start, target, origin, carries, hops, attempts, got, asked, parsed, result>>

Target == [host : Host, sound : BOOLEAN]
NoBody == [wire |-> 0, decoded |-> 0]

-----------------------------------------------------------------------------
(* Targets                                                                   *)

\* _host_allowed: an exact entry, or one under a dotted entry.
HostAllowed(h) == h \in Approved

\* _classify_address: only a global address is a destination.
Public(address) == address = "global"

\* validate_target, for what the resolver answered.
ValidTarget(t, addresses) ==
  /\ t.sound
  /\ HostAllowed(t.host)
  /\ addresses # {} /\ \A address \in addresses : Public(address)

Answers == SUBSET {"global", "private"}

FetchInit ==
  /\ fetchStep = "idle"
  /\ start \in [to : Target, creds : BOOLEAN]
  /\ target = start.to /\ origin = start.to.host
  /\ carries = FALSE /\ hops = 0 /\ attempts = 0 /\ got = NoBody
  /\ asked = <<>> /\ parsed = <<>> /\ result = "none"

Ends(how) == fetchStep' = "ended" /\ result' = how

\* The top of _attempt: the caller's headers again, the first URL again.
BeginAttempt ==
  /\ attempts' = attempts + 1
  /\ target' = start.to /\ origin' = start.to.host
  /\ carries' = start.creds
  /\ hops' = 0 /\ got' = NoBody
  /\ \E addresses \in Answers :
       IF ValidTarget(start.to, addresses) THEN fetchStep' = "ask" /\ UNCHANGED result
       ELSE Ends("blocked")

Fetch ==
  /\ fetchStep = "idle" /\ BeginAttempt
  /\ UNCHANGED <<start, asked, parsed>>

\* fetch's except clauses: a timeout, a transport failure and a retryable
\* status leave the attempt, and all others the fetch.
TryAgain ==
  \/ attempts < MaxTries /\ BeginAttempt
  \/ /\ attempts = MaxTries /\ Ends("gave up")
     /\ UNCHANGED <<target, origin, carries, hops, attempts, got>>

-----------------------------------------------------------------------------
(* Requests                                                                  *)

\* client.stream: the request of the current hop leaves.
Sent == asked' = Append(asked, [host |-> target.host, creds |-> carries])

StripsHeaders_Never(h) == FALSE

\* _strip_credential_headers, when the hop crosses to another host.
StripsHeaders(h) == h # origin

\* A redirect, with a Location or without one.
AnswerRedirect ==
  /\ fetchStep = "ask" /\ Sent
  /\ \/ Ends("http error") /\ UNCHANGED <<target, origin, carries, hops>>
     \/ \E t \in Target, addresses \in Answers :
          IF hops < MaxRedirects /\ ValidTarget(t, addresses)
          THEN /\ target' = t /\ origin' = t.host /\ hops' = hops + 1
               /\ carries' = (carries /\ ~StripsHeaders(t.host))
               /\ UNCHANGED <<fetchStep, result>>
          ELSE Ends("blocked") /\ UNCHANGED <<target, origin, carries, hops>>
  /\ UNCHANGED <<start, attempts, got, parsed>>

\* 401, 403, 407 and 451, and the other 4xx but 429.
AnswerRefused ==
  /\ fetchStep = "ask" /\ Sent
  /\ Ends("http error")
  /\ UNCHANGED <<start, target, origin, carries, hops, attempts, got, parsed>>

\* 429, a 5xx, a timeout or a transport failure, before or during the body.
AnswerTransient ==
  /\ \/ fetchStep = "ask" /\ Sent
     \/ fetchStep = "read" /\ UNCHANGED asked
  /\ TryAgain
  /\ UNCHANGED <<start, parsed>>

\* 304: no body to read and nothing to parse.
AnswerUnchanged ==
  /\ fetchStep = "ask" /\ Sent
  /\ Ends("unchanged")
  /\ UNCHANGED <<start, target, origin, carries, hops, attempts, got, parsed>>

\* A 2xx whose content type and declared length are acceptable, or not.
AnswerBody ==
  /\ fetchStep = "ask" /\ Sent
  /\ \/ fetchStep' = "read" /\ UNCHANGED result
     \/ Ends("blocked")
     \/ Ends("too large")
  /\ UNCHANGED <<start, target, origin, carries, hops, attempts, got, parsed>>

\* The caps of _read_capped.
OverCap(b) ==
  \/ b.wire > WireCap
  \/ b.decoded > DecodedCap
  \/ b.decoded > RatioFloor /\ b.wire > 0 /\ b.decoded > RatioCap * b.wire

ReadChunk ==
  /\ fetchStep = "read"
  /\ \E chunk \in Chunks :
       /\ got' = [wire |-> got.wire + chunk[1], decoded |-> got.decoded + chunk[2]]
       /\ IF OverCap(got') THEN Ends("too large") ELSE UNCHANGED <<fetchStep, result>>
  /\ UNCHANGED <<start, target, origin, carries, hops, attempts, asked, parsed>>

\* _declared_charset and _decode_strictly.
EndBody ==
  /\ fetchStep = "read"
  /\ \/ fetchStep' = "parse" /\ UNCHANGED result
     \/ Ends("blocked")
  /\ UNCHANGED <<start, target, origin, carries, hops, attempts, got, asked, parsed>>

-----------------------------------------------------------------------------
(* Parsers                                                                   *)

ScanChar_NoEscape(s, c) ==
  IF s.inString
  THEN [s EXCEPT !.inString = c # "quote"]
  ELSE CASE c = "quote" -> [s EXCEPT !.inString = TRUE]
         [] c = "open"  -> [s EXCEPT !.depth = s.depth + 1, !.deep = s.deep \/ s.depth + 1 > MaxDepth]
         [] c = "close" -> [s EXCEPT !.depth = s.depth - 1]
         [] OTHER -> s

\* One character of _json_depth_ok.
ScanChar(s, c) ==
  IF s.inString
  THEN IF s.escaped THEN [s EXCEPT !.escaped = FALSE]
       ELSE [s EXCEPT !.escaped = c = "escape", !.inString = c # "quote"]
  ELSE CASE c = "quote" -> [s EXCEPT !.inString = TRUE]
         [] c = "open"  -> [s EXCEPT !.depth = s.depth + 1, !.deep = s.deep \/ s.depth + 1 > MaxDepth]
         [] c = "close" -> [s EXCEPT !.depth = s.depth - 1]
         [] OTHER -> s

\* _json_depth_ok.
JsonDepthOk(text) ==
  LET Scan[n \in 0 .. Len(text)] ==
        IF n = 0 THEN [inString |-> FALSE, escaped |-> FALSE, depth |-> 0, deep |-> FALSE]
        ELSE ScanChar(Scan[n - 1], text[n])
  IN  ~Scan[Len(text)].deep

\* parse_json_safely: too deep, not JSON (or a NaN), or parsed.
ParseJson ==
  /\ fetchStep = "parse"
  /\ \E text \in Documents :
       /\ parsed' = text
       /\ IF JsonDepthOk(text) THEN Ends("parsed") \/ Ends("parse error") ELSE Ends("too deep")
  /\ UNCHANGED <<start, target, origin, carries, hops, attempts, got, asked>>

\* parse_xml_safely: a DTD in the prolog, a document that is no XML, or parsed.
ParseXml ==
  /\ fetchStep = "parse"
  /\ Ends("blocked") \/ Ends("parse error") \/ Ends("parsed")
  /\ UNCHANGED <<start, target, origin, carries, hops, attempts, got, asked, parsed>>

FetchNext ==
  \/ Fetch \/ AnswerRedirect \/ AnswerRefused \/ AnswerTransient \/ AnswerUnchanged
  \/ AnswerBody \/ ReadChunk \/ EndBody \/ ParseJson \/ ParseXml

FetchSpec == FetchInit /\ [][FetchNext]_fetchVars

-----------------------------------------------------------------------------
(* Properties                                                                *)

\* Whatever a source's servers redirect to, and however often the fetch is
\* tried again, the caller's credentials are sent to nobody but the host they
\* were meant for, and only approved hosts are asked at all (_attempt revalidates
\* each hop and drops the headers where a redirect crosses).
CredentialsStayHome ==
  \A i \in DOMAIN asked :
    /\ asked[i].host \in Approved
    /\ asked[i].creds => asked[i].host = start.to.host

\* In a string at position n: after an odd number of quotes that are not
\* escaped, one being escaped when the backslashes before it are odd in number.
EscapesBefore(text, n) ==
  Cardinality({k \in 1 .. n - 1 : \A j \in k .. n - 1 : text[j] = "escape"})
InString(text, n) ==
  Cardinality({k \in 1 .. n - 1 : text[k] = "quote" /\ EscapesBefore(text, k) % 2 = 0}) % 2 = 1

Brackets(text, n, c) == Cardinality({k \in 1 .. n : text[k] = c /\ ~InString(text, k)})
Nesting(text, n) == Brackets(text, n, "open") - Brackets(text, n, "close")

\* A document whose backslashes are all inside strings, as in any JSON text, is
\* refused for its nesting exactly when its brackets outside strings nest
\* deeper than the limit (_json_depth_ok against that definition).
DepthIsNesting ==
  fetchStep = "ended" /\ (\A n \in DOMAIN parsed : parsed[n] = "escape" => InString(parsed, n)) =>
    (result = "too deep" <=> \E n \in DOMAIN parsed : Nesting(parsed, n) > MaxDepth)

=============================================================================
