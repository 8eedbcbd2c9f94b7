----------------------------- MODULE FeedProofs -----------------------------
(***************************************************************************)
(* The feeds, for any number of queries, editions, documents, posts and    *)
(* overlapping calls.                                                      *)
(***************************************************************************)
EXTENDS GdeltQueries, CbiEditions, CbiHistory, SdnList, SafeFetch, NaturalSets

-----------------------------------------------------------------------------
(* GDELT: one throttle for all calls                                       *)

\* The lock's holder sleeps for at least what is left of the interval since
\* the last stamp, and nobody else sleeps.
SleepsOut ==
  \A r \in Requester : gpc[r] = "sleeping" => holder = {r} /\ nap[r] + quiet >= Gap

ThrottleInv ==
  /\ quiet \in 0..Gap
  /\ nap \in [Requester -> 0..Gap]
  /\ gpc \in [Requester -> GdeltPC]
  /\ SleepsOut

\* A step of one call.
LEMMA CollectKeepsThrottle ==
  ASSUME ThrottleInv, NEW r \in Requester, CollectGdelt(r)
  PROVE  ThrottleInv' /\ (\A q \in Requester :
           gpc[q] = "sleeping" /\ gpc'[q] = "requesting" => quiet >= Gap)
<1> USE DEF ThrottleInv, At
<1>0. Gap \in Nat
  BY GdeltAssumption
<1>1. CASE TakeLock(r)
  <2>1. /\ holder = {} /\ holder' = {r} /\ quiet' = quiet
        /\ gpc' = [gpc EXCEPT ![r] = "sleeping"] /\ nap' = [nap EXCEPT ![r] = Gap - quiet]
    BY <1>1 DEF TakeLock
  <2>2. \A q \in Requester : gpc[q] # "sleeping"
    BY <2>1 DEF SleepsOut
  <2>3. gpc' \in [Requester -> GdeltPC] /\ nap' \in [Requester -> 0..Gap]
    BY <1>0, <2>1 DEF GdeltPC
  <2>4. \A q \in Requester : gpc'[q] = "sleeping" => q = r
    BY <2>1, <2>2
  <2>5. nap'[r] + quiet' >= Gap
    BY <1>0, <2>1
  <2> QED
    BY <2>1, <2>2, <2>3, <2>4, <2>5 DEF SleepsOut
<1>2. CASE Stamp(r)
  <2>1. /\ gpc[r] = "sleeping" /\ nap[r] = 0 /\ quiet' = 0 /\ nap' = nap
        /\ gpc' = [gpc EXCEPT ![r] = "requesting"]
    BY <1>2 DEF Stamp
  <2>2. quiet >= Gap
    BY <1>0, <2>1 DEF SleepsOut
  <2>3. \A q \in Requester : gpc[q] = "sleeping" => q = r
    BY <2>1 DEF SleepsOut
  <2>4. \A q \in Requester : gpc'[q] # "sleeping"
    BY <2>1, <2>3
  <2>5. gpc' \in [Requester -> GdeltPC]
    BY <2>1 DEF GdeltPC
  <2> QED
    BY <1>0, <2>1, <2>2, <2>4, <2>5 DEF SleepsOut
<1>3. CASE ~TakeLock(r) /\ ~Stamp(r)
  <2>1. /\ gpc[r] # "sleeping" /\ quiet' = quiet /\ holder' = holder
        /\ \E label \in GdeltPC \ {"sleeping"} : gpc' = [gpc EXCEPT ![r] = label]
        /\ nap' = nap \/ nap' = [nap EXCEPT ![r] = 0]
    BY <1>3
    DEF CollectGdelt, AttemptGdelt, GateGdelt, Retry, QueryFails, Throttled, Answer, StoreHits,
        QueryRaises, FinishGdelt, PassEnds, Advance, gdeltLocals, GdeltPC
  <2>2. gpc' \in [Requester -> GdeltPC] /\ nap' \in [Requester -> 0..Gap]
    BY <1>0, <2>1
  <2>3. \A q \in Requester :
          /\ gpc'[q] = "sleeping" => gpc[q] = "sleeping" /\ nap'[q] = nap[q]
          /\ gpc[q] = "sleeping" => gpc'[q] = gpc[q]
    BY <2>1
  <2> QED
    BY <2>1, <2>2, <2>3 DEF SleepsOut
<1> QED
  BY <1>1, <1>2, <1>3

\* Two requests are never closer than the interval, for any number of
\* overlapping calls, queries and retries (_RequestThrottle.wait).
THEOREM RequestsSpacedHolds == GdeltSpec => RequestsSpaced
<1>0. Gap \in Nat
  BY GdeltAssumption
<1>1. GdeltInit => ThrottleInv
  BY <1>0 DEF GdeltInit, ThrottleInv, SleepsOut, GdeltPC
<1>2. ASSUME ThrottleInv, [GdeltNext]_gdeltVars
      PROVE  ThrottleInv' /\ (\A r \in Requester :
               gpc[r] = "sleeping" /\ gpc'[r] = "requesting" => quiet >= Gap)
  <2>1. CASE Beat
    <3>1. /\ quiet < Gap /\ quiet' = quiet + 1 /\ gpc' = gpc /\ holder' = holder
          /\ nap' = [r \in Requester |-> IF nap[r] > 0 THEN nap[r] - 1 ELSE 0]
      BY <2>1 DEF Beat
    <3>2. quiet' \in 0..Gap /\ nap' \in [Requester -> 0..Gap]
      BY <1>0, <1>2, <3>1 DEF ThrottleInv
    <3>3. SleepsOut'
      <4> SUFFICES ASSUME NEW r \in Requester, gpc[r] = "sleeping"
                   PROVE  holder = {r} /\ nap'[r] + quiet' >= Gap
        BY <3>1 DEF SleepsOut
      <4> QED
        BY <1>0, <1>2, <3>1 DEF ThrottleInv, SleepsOut
    <3> QED
      BY <1>2, <3>1, <3>2, <3>3 DEF ThrottleInv
  <2>2. CASE GdeltTick \/ UNCHANGED gdeltVars
    BY <1>2, <2>2 DEF GdeltTick, gdeltVars, gdeltLocals, ThrottleInv, SleepsOut
  <2> QED
    BY <1>2, <2>1, <2>2, CollectKeepsThrottle DEF GdeltNext
<1>3. ThrottleInv /\ [GdeltNext]_gdeltVars => ThrottleInv'
  BY <1>2
<1>4. ThrottleInv /\ [GdeltNext]_gdeltVars
        => [\A r \in Requester :
              gpc[r] = "sleeping" /\ gpc'[r] = "requesting" => quiet >= Gap]_gdeltVars
  BY <1>2
<1> QED
  BY <1>1, <1>3, <1>4, PTL DEF GdeltSpec, RequestsSpaced

-----------------------------------------------------------------------------
(* CBI editions                                                            *)

Mode == {"none", "latest", "backfill"}

\* The website's files are where their month says, the stored editions and the
\* ones a run has to do are on the website, and the run's download is the
\* oldest of those.
CbiShape ==
  /\ day \in Nat
  /\ site \in [Editions -> Workbook \cup {NoFile}]
  /\ Available # {}
  /\ \A e \in Available : site[e].edition = e /\ site[e].saved <= day
  /\ documents \subseteq Available
  /\ run \in [mode : Mode, list : SUBSET Available, links : SUBSET Available]
  /\ run.links \subseteq run.list
  /\ download # NoFile =>
       /\ download \in Workbook /\ download.edition \in run.links /\ download.saved <= day
       /\ \A l \in run.links : download.edition <= l

\* What the run's list holds before an edition it has to do is stored or is to
\* be done first.
OldestFirst ==
  \A l \in run.links : \A e \in run.list : e < l => e \in run.links \cup documents

CbiInv == CbiShape /\ OldestFirst /\ NoneLockedOut

\* The constants, one by one.
LEMMA CbiBounds == LastEdition \in Nat /\ MaxDay \in Nat /\ Editions \subseteq Nat
  /\ Editions \subseteq 0..LastEdition
BY CbiAssumption DEF Editions

\* The newest edition stored.
LEMMA NewestIs ==
  ASSUME NEW D \in SUBSET Editions
  PROVE  /\ Max({0} \cup D) \in {0} \cup D
         /\ Max({0} \cup D) \in Nat
         /\ \A e \in D : e <= Max({0} \cup D)
<1>1. {0} \cup D \in SUBSET (0..LastEdition) /\ {0} \cup D # {}
  BY CbiBounds DEF Editions
<1>2. \A e \in {0} \cup D : e \in Nat
  BY CbiBounds
<1> HIDE DEF Max
<1> QED
  BY <1>1, <1>2, MaxIs, CbiBounds

\* Every available edition has a workbook.
LEMMA AvailableHasWorkbook ==
  ASSUME CbiShape, NEW e \in Available
  PROVE  e \in Editions /\ site[e] \in Workbook /\ e \in Nat
BY CbiBounds DEF CbiShape, Available

\* An edition that is stored keeps the others from being locked out: when it is
\* the newest, what precedes it is stored or was stepped over.
LEMMA WriteKeepsNone ==
  ASSUME CbiShape, NoneLockedOut, NEW d \in Available, NEW J, jumped \subseteq J,
         \A e \in Available : e < d /\ NewestEdition <= d => e \in documents \cup J
  PROVE  \A e \in Available : e < Max({0} \cup (documents \cup {d})) => e \in documents \cup {d} \cup J
<1> DEFINE n == Max({0} \cup documents)
           m == Max({0} \cup (documents \cup {d}))
<1>1. documents \in SUBSET Editions /\ documents \cup {d} \in SUBSET Editions
  BY DEF CbiShape, Available
<1>2. n \in Nat /\ \A e \in documents : e <= n
  BY <1>1, NewestIs
<1>3. m \in {0} \cup (documents \cup {d}) /\ m \in Nat
  BY <1>1, NewestIs
<1>4. n = NewestEdition
  BY DEF NewestEdition
<1> HIDE DEF n, m
<1> SUFFICES ASSUME NEW e \in Available, e < m PROVE e \in documents \cup {d} \cup J
  BY DEF m
<1>5. e \in Nat /\ d \in Nat
  BY AvailableHasWorkbook
<1>6. CASE e < n
  BY <1>4, <1>6 DEF NoneLockedOut
<1>7. CASE ~(e < n)
  <2>1. m \notin documents /\ m # 0
    BY <1>2, <1>3, <1>5, <1>7
  <2>2. m = d /\ n <= d
    BY <1>2, <1>3, <1>5, <1>7, <2>1
  <2> QED
    BY <1>4, <2>2
<1> QED
  BY <1>6, <1>7

\* The run stores its download, and steps over what was not on its list.
LEMMA IngestKeeps ==
  ASSUME CbiInv, IngestEdition
  PROVE  CbiInv'
<1> DEFINE d == download.edition
           J == jumped \cup (NotIngested(d) \ run.list)
<1>1. /\ documents' = documents \cup {d} /\ run' = [run EXCEPT !.links = @ \ {d}]
      /\ UNCHANGED <<day, site>> /\ download' = NoFile /\ jumped' = J
      /\ download # NoFile /\ ~StaleEdition(download)
  BY DEF IngestEdition, WriteEdition, Refuses
<1>2. d \in run.links /\ run.links \subseteq Available /\ \A l \in run.links : d <= l
  BY <1>1 DEF CbiInv, CbiShape
<1>3. d \in Available /\ d \in Nat
  BY <1>2, AvailableHasWorkbook DEF CbiInv
<1>4. Available' = Available
  BY <1>1 DEF Available
<1>5. /\ run' \in [mode : Mode, list : SUBSET Available, links : SUBSET Available]
      /\ run'.links = run.links \ {d} /\ run'.list = run.list
  BY <1>1 DEF CbiInv, CbiShape
<1>6. CbiShape'
  BY <1>1, <1>3, <1>4, <1>5 DEF CbiInv, CbiShape
<1>7. OldestFirst'
  BY <1>1, <1>5 DEF CbiInv, OldestFirst
<1>8. \A e \in Available : e < d => e \in documents \cup J
  <2> SUFFICES ASSUME NEW e \in Available, e < d, e \in run.list
               PROVE  e \in documents \cup J
    BY DEF NotIngested
  <2>1. e \notin run.links
    <3>1. e \in Nat
      BY AvailableHasWorkbook DEF CbiInv
    <3> QED
      BY <1>2, <1>3, <3>1
  <2> QED
    BY <1>2, <2>1 DEF CbiInv, OldestFirst
<1>9. jumped \subseteq J
  OBVIOUS
<1> HIDE DEF d, J
<1>10. NoneLockedOut'
  <2>1. \A e \in Available :
          e < Max({0} \cup (documents \cup {d})) => e \in documents \cup {d} \cup J
    BY <1>3, <1>8, <1>9, WriteKeepsNone DEF CbiInv
  <2> QED
    BY <1>1, <1>4, <2>1 DEF NoneLockedOut, NewestEdition
<1> QED
  BY <1>6, <1>7, <1>10 DEF CbiInv

\* A post by path says which editions it stepped over.
LEMMA PostKeeps ==
  ASSUME CbiInv, NEW e \in Available, NEW allow_older, PostPath(site[e], allow_older)
  PROVE  CbiInv'
<1> DEFINE J == jumped \cup NotIngested(e)
<1>1. site[e].edition = e /\ e \in Nat /\ e \in Editions
  BY AvailableHasWorkbook DEF CbiInv, CbiShape
<1>2. /\ documents' = documents \cup {e} /\ run = NoRun /\ jumped' = J
      /\ UNCHANGED <<day, site, run, download>>
  BY <1>1 DEF PostPath, WriteEdition
<1>3. Available' = Available /\ run'.links = {} /\ run'.list = {}
  BY <1>2 DEF Available, NoRun
<1>4. CbiShape'
  BY <1>2, <1>3 DEF CbiInv, CbiShape
<1>5. OldestFirst'
  BY <1>3 DEF OldestFirst
<1>6. jumped \subseteq J /\ \A f \in Available : f < e => f \in documents \cup J
  BY DEF NotIngested
<1> HIDE DEF J
<1>7. NoneLockedOut'
  <2>1. \A f \in Available :
          f < Max({0} \cup (documents \cup {e})) => f \in documents \cup {e} \cup J
    BY <1>6, WriteKeepsNone DEF CbiInv
  <2> QED
    BY <1>2, <1>3, <2>1 DEF NoneLockedOut, NewestEdition
<1> QED
  BY <1>4, <1>5, <1>7 DEF CbiInv

\* What the bank adds behind the newest edition stored came late.
LEMMA BankKeeps ==
  ASSUME CbiInv, BankSaves
  PROVE  CbiInv'
<1>1. PICK w \in Workbook :
        /\ w.saved = day
        /\ site' = [site EXCEPT ![w.edition] = w]
        /\ jumped' = IF w.edition \notin Available /\ w.edition < NewestEdition
                     THEN jumped \cup {w.edition} ELSE jumped
  BY DEF BankSaves
<1>2. UNCHANGED <<day, documents, run, download>>
  BY DEF BankSaves
<1>3. w.edition \in Editions /\ w \in Workbook /\ w # NoFile
  BY NoFileAssumption DEF Workbook
<1>4. Available' = Available \cup {w.edition}
  BY <1>1, <1>3 DEF Available, CbiInv, CbiShape
<1>5. CbiShape'
  <2>1. site' \in [Editions -> Workbook \cup {NoFile}]
    BY <1>1, <1>3 DEF CbiInv, CbiShape
  <2>2. \A e \in Available' : site'[e].edition = e /\ site'[e].saved <= day
    <3> SUFFICES ASSUME NEW e \in Available' PROVE site'[e].edition = e /\ site'[e].saved <= day
      OBVIOUS
    <3>1. CASE e = w.edition
      BY <1>1, <1>3, <3>1 DEF CbiInv, CbiShape
    <3>2. CASE e # w.edition
      BY <1>1, <1>3, <1>4, <3>2 DEF CbiInv, CbiShape, Available
    <3> QED
      BY <3>1, <3>2
  <2>3. /\ run' \in [mode : Mode, list : SUBSET Available', links : SUBSET Available']
        /\ run'.links \subseteq run'.list
        /\ documents' \subseteq Available' /\ Available' # {}
    BY <1>2, <1>4 DEF CbiInv, CbiShape
  <2> QED
    BY <1>2, <2>1, <2>2, <2>3 DEF CbiInv, CbiShape
<1>6. OldestFirst'
  BY <1>2 DEF CbiInv, OldestFirst
<1>7. NoneLockedOut'
  <2>1. NewestEdition' = NewestEdition
    BY <1>2 DEF NewestEdition
  <2> QED
    BY <1>1, <1>2, <1>4, <2>1 DEF CbiInv, NoneLockedOut
<1> QED
  BY <1>5, <1>6, <1>7 DEF CbiInv

\* Every step.
LEMMA CbiNextKeeps == CbiInv /\ [CbiNext]_cbiVars => CbiInv'
<1> SUFFICES ASSUME CbiInv, [CbiNext]_cbiVars PROVE CbiInv'
  OBVIOUS
<1>1. CASE UNCHANGED <<site, documents, jumped>> /\ day' = day + 1 /\ UNCHANGED <<run, download>>
  <2>1. Available' = Available /\ NewestEdition' = NewestEdition
    BY <1>1 DEF Available, NewestEdition
  <2>2. \A e \in Available : site[e].saved \in Nat
    BY AvailableHasWorkbook, CbiBounds DEF CbiInv, Workbook
  <2>3. download # NoFile => download.saved \in Nat
    BY CbiBounds DEF CbiInv, CbiShape, Workbook
  <2>4. CbiShape'
    BY <1>1, <2>1, <2>2, <2>3 DEF CbiInv, CbiShape
  <2> QED
    BY <1>1, <2>1, <2>4 DEF CbiInv, OldestFirst, NoneLockedOut
<1>2. ASSUME NEW mode \in {"latest", "backfill"}, NEW from \in Editions, StartRun(mode, from)
      PROVE  CbiInv'
  <2> DEFINE L == {e \in Available : e >= Since(mode, from)}
  <2>1. /\ run = NoRun /\ UNCHANGED <<day, site, documents, download, jumped>>
        /\ run' = [mode |-> mode, list |-> L, links |-> L]
    BY <1>2 DEF StartRun
  <2> HIDE DEF L
  <2>2. Available' = Available /\ NewestEdition' = NewestEdition
    BY <2>1 DEF Available, NewestEdition
  <2>3. download = NoFile
    BY <2>1 DEF CbiInv, CbiShape, NoRun
  <2>4. L \subseteq Available
    BY DEF L
  <2>5. CbiShape'
    BY <2>1, <2>2, <2>3, <2>4 DEF CbiInv, CbiShape, Mode
  <2>6. OldestFirst'
    BY <2>1 DEF OldestFirst
  <2> QED
    BY <2>1, <2>2, <2>5, <2>6 DEF CbiInv, NoneLockedOut
<1>3. CASE Download
  <2>1. /\ run.links # {} /\ download' = site[NextLink]
        /\ UNCHANGED <<day, site, documents, run, jumped>>
    BY <1>3 DEF Download
  <2>2. Available' = Available /\ NewestEdition' = NewestEdition
    BY <2>1 DEF Available, NewestEdition
  <2>3. run.links \in SUBSET Available /\ run.links \in SUBSET Nat
    BY AvailableHasWorkbook DEF CbiInv, CbiShape
  <2>4. NextLink \in run.links /\ \A l \in run.links : NextLink <= l
    BY <2>1, <2>3, MinIs DEF NextLink
  <2> HIDE DEF NextLink
  <2>5. /\ site[NextLink] \in Workbook /\ site[NextLink].edition = NextLink
        /\ site[NextLink].saved <= day
    BY <2>3, <2>4, AvailableHasWorkbook DEF CbiInv, CbiShape
  <2>6. CbiShape'
    BY <2>1, <2>2, <2>4, <2>5 DEF CbiInv, CbiShape
  <2> QED
    BY <2>1, <2>2, <2>6 DEF CbiInv, OldestFirst, NoneLockedOut
<1>4. CASE run' = NoRun /\ UNCHANGED <<day, site, documents, jumped>>
           /\ (download' = NoFile \/ (download' = download /\ run.links = {}))
  <2>1. Available' = Available /\ NewestEdition' = NewestEdition
    BY <1>4 DEF Available, NewestEdition
  <2>2. download' = NoFile
    BY <1>4 DEF CbiInv, CbiShape
  <2>3. CbiShape'
    BY <1>4, <2>1, <2>2 DEF CbiInv, CbiShape, NoRun, Mode
  <2> QED
    BY <1>4, <2>1, <2>3 DEF CbiInv, OldestFirst, NoneLockedOut, NoRun
<1>5. CASE UNCHANGED cbiVars
  BY <1>5 DEF cbiVars, CbiInv, CbiShape, OldestFirst, NoneLockedOut, Available, NewestEdition
<1> QED
  BY <1>1, <1>2, <1>3, <1>4, <1>5, IngestKeeps, PostKeeps, BankKeeps
  DEF CbiNext, NextDay, RunStops, RunEnds, CbiKilled

\* The website starts with sound files, and nothing is stored.
LEMMA CbiInitHolds == CbiInit => CbiInv
<1> SUFFICES ASSUME CbiInit PROVE CbiInv
  OBVIOUS
<1>1. PICK w \in [Published -> {v \in Workbook : v.saved = 0 /\ v.sound}] :
        /\ \A e \in Published : w[e].edition = e
        /\ site = [e \in Editions |-> IF e \in Published THEN w[e] ELSE NoFile]
  BY DEF CbiInit
<1>2. Published \subseteq Editions /\ Published # {}
  BY CbiAssumption DEF Editions
<1>3. \A e \in Published : w[e] \in Workbook /\ w[e].saved = 0 /\ w[e] # NoFile
  BY NoFileAssumption
<1>4. Available = Published
  BY <1>1, <1>2, <1>3 DEF Available
<1>5. site \in [Editions -> Workbook \cup {NoFile}]
  BY <1>1, <1>3
<1>6. day = 1 /\ documents = {} /\ run = NoRun /\ download = NoFile
  BY DEF CbiInit
<1>7. \A e \in Available : site[e].edition = e /\ site[e].saved <= day
  BY <1>1, <1>2, <1>3, <1>4, <1>6
<1>8. /\ run \in [mode : Mode, list : SUBSET Available, links : SUBSET Available]
      /\ run.links = {} /\ run.list = {}
  BY <1>6 DEF NoRun, Mode
<1>9. CbiShape
  BY <1>2, <1>4, <1>5, <1>6, <1>7, <1>8 DEF CbiShape
<1>10. NewestEdition = 0
  <2>1. {} \in SUBSET Editions
    OBVIOUS
  <2> QED
    BY <1>6, <2>1, NewestIs DEF NewestEdition
<1>11. NoneLockedOut
  BY <1>9, <1>10, AvailableHasWorkbook DEF NoneLockedOut
<1> QED
  BY <1>8, <1>9, <1>11 DEF CbiInv, OldestFirst

\* No edition a run had on its list is locked out, for any number of editions,
\* runs, starting points, failures, restarts and files replaced or published
\* late (cbi.py _run, ingest_cbi_monetary).
THEOREM NoneLockedOutHolds == CbiSpec => []NoneLockedOut
<1>1. CbiInv => NoneLockedOut
  BY DEF CbiInv
<1> QED
  BY <1>1, CbiInitHolds, CbiNextKeeps, PTL DEF CbiSpec

Vintage == [figure : Figures, method : {"old", "revised"}, saved : 0..MaxDay, avail : Nat,
          edition : Editions]

\* No print is stamped in the future.
Dated ==
  /\ prints \in Seq(Vintage)
  /\ \A i \in DOMAIN prints : prints[i].avail <= day
  /\ StampInOrder

\* A stamp is a number.
LEMMA StampsAreNumbers ==
  ASSUME Dated, NEW i \in DOMAIN prints
  PROVE  prints[i].avail \in Nat
<1>1. prints[i] \in Vintage
  BY DEF Dated
<1> QED
  BY <1>1 DEF Vintage

\* The stamp of a workbook: not before it was saved, not before any stored
\* print, not after today.
LEMMA StampIsLate ==
  ASSUME CbiShape, Dated, NEW w \in Workbook, w.saved <= day, NEW mode
  PROVE  /\ StampOf(w, mode) \in Nat
         /\ w.saved <= StampOf(w, mode)
         /\ StampOf(w, mode) <= day
         /\ \A i \in DOMAIN prints : prints[i].avail <= StampOf(w, mode)
<1>1. day \in Nat /\ w.saved \in Nat
  BY CbiBounds DEF CbiShape, Workbook
<1>2. CASE mode # "backfill"
  BY <1>1, <1>2 DEF StampOf, Dated
<1>3. CASE mode = "backfill"
  <2> DEFINE S == {0} \cup {prints[i].avail : i \in DOMAIN prints}
             m == IF w.saved + 1 <= Floor THEN Floor ELSE w.saved + 1
  <2>1. \A i \in DOMAIN prints : prints[i].avail \in Nat
    BY StampsAreNumbers
  <2>2. S \in SUBSET (0..day) /\ S # {}
    BY <1>1, <2>1 DEF Dated
  <2>3. \A i \in DOMAIN prints : prints[i].avail \in S
    OBVIOUS
  <2> HIDE DEF S
  <2>4. Floor = Max(S)
    BY DEF Floor, S
  <2>5. Floor \in S /\ \A j \in S : j <= Floor
    BY <1>1, <2>2, <2>4, MaxIs
  <2>6. Floor \in Nat /\ Floor <= day
    BY <1>1, <2>2, <2>5
  <2> HIDE DEF Floor
  <2>7. Max({w.saved + 1, Floor}) = m
    <3>1. w.saved + 1 \in Int /\ Floor \in Int
      BY <1>1, <2>6
    <3>2. Max({w.saved + 1, Floor}) = IF w.saved + 1 <= Floor THEN Floor ELSE w.saved + 1
      BY <3>1, OfTwo, Zenon
    <3> QED
      BY <3>2
  <2>8. m \in Nat /\ Floor <= m /\ w.saved < m
    BY <1>1, <2>6
  <2> HIDE DEF m
  <2>9. Min({m, day}) = IF m <= day THEN m ELSE day
    BY <1>1, <2>8, OfTwo
  <2>10. StampOf(w, mode) = IF m <= day THEN m ELSE day
    BY <1>3, <2>7, <2>9 DEF StampOf, BackfillAvailableAt
  <2>11. \A i \in DOMAIN prints : prints[i].avail <= Floor
    BY <2>3, <2>5
  <2> QED
    BY <1>1, <2>1, <2>6, <2>8, <2>10, <2>11
<1> QED
  BY <1>2, <1>3

\* A workbook that is written keeps the prints dated in order.
LEMMA WriteKeepsDated ==
  ASSUME CbiShape, Dated, NEW w \in Workbook, w.saved <= day, NEW mode,
         WriteEdition(w, mode), day' = day
  PROVE  Dated'
<1>1. CASE prints' = prints
  BY <1>1 DEF Dated, StampInOrder
<1>2. CASE prints' # prints
  <2> DEFINE p == [figure |-> w.figure, method |-> w.method, saved |-> w.saved,
                   avail |-> StampOf(w, mode), edition |-> w.edition]
             n == Len(prints) + 1
  <2>1. prints' = Append(prints, p)
    BY <1>2 DEF WriteEdition
  <2>2. /\ StampOf(w, mode) \in Nat /\ w.saved <= StampOf(w, mode) /\ StampOf(w, mode) <= day
        /\ \A i \in DOMAIN prints : prints[i].avail <= StampOf(w, mode)
    BY StampIsLate
  <2> HIDE DEF StampOf
  <2>3. p \in Vintage /\ p.saved <= p.avail /\ p.avail <= day
        /\ \A i \in DOMAIN prints : prints[i].avail <= p.avail
    BY <2>2 DEF Vintage, Workbook
  <2> HIDE DEF p
  <2>4. prints \in Seq(Vintage)
    BY DEF Dated
  <2>5. prints' \in Seq(Vintage)
    BY <2>1, <2>3, <2>4
  <2>6. /\ DOMAIN prints = 1..Len(prints) /\ Len(prints) \in Nat /\ DOMAIN prints' = 1..n
        /\ \A i \in DOMAIN prints : prints'[i] = prints[i]
        /\ prints'[n] = p
    BY <2>1, <2>3, <2>4
  <2>7. \A i \in DOMAIN prints' : i \in DOMAIN prints \/ i = n
    BY <2>6
  <2>8. \A i \in DOMAIN prints' : prints'[i].avail <= day' /\ prints'[i].avail >= prints'[i].saved
    <3>1. p.avail >= p.saved
      BY <2>3 DEF Vintage
    <3> QED
      BY <2>3, <2>6, <2>7, <3>1 DEF Dated, StampInOrder
  <2>9. \A i, j \in DOMAIN prints' : i < j => prints'[i].avail <= prints'[j].avail
    <3> SUFFICES ASSUME NEW i \in DOMAIN prints', NEW j \in DOMAIN prints', i < j
                 PROVE  prints'[i].avail <= prints'[j].avail
      OBVIOUS
    <3>1. i \in DOMAIN prints
      BY <2>6
    <3>2. CASE j = n
      BY <2>3, <2>6, <3>1, <3>2
    <3>3. CASE j \in DOMAIN prints
      BY <2>6, <3>1, <3>3 DEF Dated, StampInOrder
    <3> QED
      BY <2>7, <3>2, <3>3
  <2> QED
    BY <2>5, <2>8, <2>9 DEF Dated, StampInOrder
<1> QED
  BY <1>1, <1>2

\* Stamps keep their order and never precede the file, for any number of
\* editions, runs and posts (backfill_available_at).
THEOREM StampInOrderHolds == CbiSpec => []StampInOrder
<1>1. CbiInit => Dated
  BY DEF CbiInit, Dated, StampInOrder
<1>2. CbiInv /\ Dated /\ [CbiNext]_cbiVars => Dated'
  <2> SUFFICES ASSUME CbiInv, Dated, [CbiNext]_cbiVars PROVE Dated'
    OBVIOUS
  <2>1. CASE prints' = prints /\ day' = day
    BY <2>1 DEF Dated, StampInOrder
  <2>2. CASE NextDay
    <3>1. prints' = prints /\ day' = day + 1 /\ day \in Nat
      BY <2>2 DEF NextDay, CbiInv, CbiShape
    <3>2. \A i \in DOMAIN prints : prints[i].avail \in Nat
      BY StampsAreNumbers
    <3> QED
      BY <3>1, <3>2 DEF Dated, StampInOrder
  <2>3. CASE IngestEdition
    BY <2>3, WriteKeepsDated DEF IngestEdition, CbiInv, CbiShape
  <2>4. ASSUME NEW e \in Available, NEW allow_older, PostPath(site[e], allow_older) PROVE Dated'
    <3>1. site[e] \in Workbook /\ site[e].saved <= day
      BY AvailableHasWorkbook DEF CbiInv, CbiShape
    <3> QED
      BY <2>4, <3>1, WriteKeepsDated DEF PostPath, CbiInv
  <2> QED
    BY <2>1, <2>2, <2>3, <2>4
    DEF CbiNext, StartRun, Download, RunStops, RunEnds, BankSaves, CbiKilled, cbiVars
<1>3. Dated => StampInOrder
  BY DEF Dated
<1> QED
  BY <1>1, <1>2, <1>3, CbiInitHolds, CbiNextKeeps, PTL DEF CbiSpec

-----------------------------------------------------------------------------
(* CBI's history and its editions                                          *)

\* A month any Excel edition can print is one excel_can_carry names: the three
\* editions it looks at stand for all of them.
LEMMA CanCarryIsComplete ==
  ASSUME NEW e \in Int \X (1..12), NEW p \in Int \X (1..12),
         AtLeast(e, FirstExcel), p \in Columns(e)
  PROVE  ExcelCanCarry(p)
<1>1. PICK y \in Int, m \in 1..12 : e = <<y, m>>
  OBVIOUS
<1>2. PICK fy \in Int, fm \in 1..12 : FirstExcel = <<fy, fm>>
  BY CbiHistoryAssumption
<1>3. y > fy \/ (y = fy /\ m >= fm)
  BY <1>1, <1>2 DEF AtLeast
<1>4. CASE p = e
  BY <1>4 DEF ExcelCanCarry, Candidates
<1>5. CASE p = <<y - 1, m>>
  <2>1. e \in Candidates(p)
    BY <1>1, <1>5 DEF Candidates
  <2> QED
    BY <2>1 DEF ExcelCanCarry
<1>6. CASE p = <<y - 1, 12>>
  <2>1. <<y, 12>> \in Candidates(p)
    BY <1>6 DEF Candidates
  <2>2. AtLeast(<<y, 12>>, FirstExcel)
    BY <1>2, <1>3 DEF AtLeast
  <2>3. p \in Columns(<<y, 12>>)
    BY <1>6 DEF Columns
  <2> QED
    BY <2>1, <2>2, <2>3 DEF ExcelCanCarry
<1>7. CASE p = <<y - 2, 12>> /\ m = 12
  <2>1. e \in Candidates(p)
    BY <1>1, <1>7 DEF Candidates
  <2> QED
    BY <2>1 DEF ExcelCanCarry
<1>8. p = e \/ p = <<y - 1, m>> \/ p = <<y - 1, 12>> \/ (p = <<y - 2, 12>> /\ m = 12)
  BY <1>1 DEF Columns
<1> QED
  BY <1>4, <1>5, <1>6, <1>7, <1>8

\* The rows of one series: figures of payloads, for quarters.
Figure == UNION {UNION {{payload.figure[code][m] : m \in DOMAIN payload.figure[code]} :
                        code \in DOMAIN payload.figure} : payload \in Payloads}
Row == [value : Figure, avail : Nat]
Rows == UNION {[D -> Row] : D \in SUBSET Quarters}

WholePayload == {payload \in Payloads : Whole(payload)}

Post == [at : Nat, payload : Payloads \cup {NoPayload}, started : Nat,
         rows : Seq(Rows), dry : BOOLEAN]

\* A post under way has, for each series it has come to, the stored rows with
\* its own figures over them.
PostWrites(h, s) ==
  /\ s.at \in 1..Len(SeriesOrder) + 1
  /\ s.payload \in WholePayload
  /\ Len(s.rows) = s.at - 1
  /\ \A k \in 1..s.at - 1 :
       s.rows[k] = Observed(h[SeriesOrder[k]], s.payload.figure[SeriesOrder[k]], s.started)

\* The first series' row keeps all posts but one from writing at all.
OneWriter ==
  \A p, q \in Poster : hpost[p].at > 1 /\ hpost[q].at > 1 => p = q

HistoryInv ==
  /\ hposts \in Nat
  /\ ingested \subseteq {e \in ExcelEditions : AtLeast(e, FirstExcel)}
  /\ history \in [Codes -> Rows]
  /\ commits \in Seq(WholePayload)
  /\ hpost \in [Poster -> Post]
  /\ \A p \in Poster : hpost[p].at > 0 => PostWrites(history, hpost[p])
  /\ OneWriter
  /\ PostsAreWhole

\* A series' figures of a payload that parses.
LEMMA FiguresAre ==
  ASSUME NEW payload \in WholePayload, NEW code \in Codes, NEW m \in Written(payload.figure[code])
  PROVE  m \in Quarters /\ ~ExcelCanCarry(m) /\ payload.figure[code][m] \in Figure
<1>1. m \in DOMAIN payload.figure[code] /\ ~ExcelCanCarry(m)
  BY DEF Written
<1>2. payload \in Payloads /\ code \in DOMAIN payload.figure
  BY DEF WholePayload, Whole
<1>3. m \in Quarters
  BY <1>1, <1>2, CbiHistoryAssumption
<1>4. payload.figure[code][m] \in Figure
  BY <1>1, <1>2 DEF Figure
<1> QED
  BY <1>1, <1>3, <1>4

\* The figures of a payload over the stored rows are rows again.
LEMMA ObservedIsRows ==
  ASSUME NEW r \in Rows, NEW payload \in WholePayload, NEW code \in Codes, NEW avail \in Nat
  PROVE  Observed(r, payload.figure[code], avail) \in Rows
<1> DEFINE f == payload.figure[code]
           W == Written(f)
<1>1. PICK D \in SUBSET Quarters : r \in [D -> Row]
  BY DEF Rows
<1>2. \A m \in W : m \in Quarters /\ f[m] \in Figure
  BY FiguresAre
<1> HIDE DEF f, W
<1>3. \A m \in W : [value |-> f[m], avail |-> avail] \in Row
  BY <1>2 DEF Row
<1>4. Observed(r, f, avail) \in [D \cup W -> Row]
  BY <1>1, <1>3 DEF Observed, W
<1>5. D \cup W \in SUBSET Quarters
  BY <1>2
<1>6. Observed(r, f, avail) \in Rows
  BY <1>4, <1>5 DEF Rows
<1> QED
  BY <1>6 DEF f

\* Nothing the invariant speaks of moves.
LEMMA HistoryRests ==
  ASSUME HistoryInv, UNCHANGED <<history, hpost, commits>>, hposts' \in Nat,
         ingested' \subseteq {e \in ExcelEditions : AtLeast(e, FirstExcel)}
  PROVE  HistoryInv'
BY DEF HistoryInv, PostWrites, OneWriter, PostsAreWhole, Stating

\* A post that ends without a commit.
LEMMA PostLeaves ==
  ASSUME HistoryInv, NEW p \in Poster, hpost' = [hpost EXCEPT ![p] = NoPost],
         UNCHANGED <<history, commits, hposts, ingested>>
  PROVE  HistoryInv'
<1>1. NoPost \in Post /\ NoPost.at = 0
  BY DEF NoPost, Post
<1>2. hpost' \in [Poster -> Post]
  BY <1>1 DEF HistoryInv
<1>3. \A q \in Poster : hpost'[q].at > 0 => q # p /\ hpost'[q] = hpost[q]
  BY <1>1 DEF HistoryInv
<1>4. \A q \in Poster : hpost'[q].at > 0 => PostWrites(history', hpost'[q])
  BY <1>3 DEF HistoryInv, PostWrites
<1>5. \A q \in Poster : hpost'[q].at \in Nat
  BY <1>2 DEF Post
<1>6. OneWriter'
  BY <1>3, <1>5 DEF HistoryInv, OneWriter
<1> QED
  BY <1>2, <1>4, <1>6 DEF HistoryInv, PostsAreWhole, Stating

\* A post begins.
LEMMA PostBegins ==
  ASSUME HistoryInv, NEW p \in Poster, PostHistory(p)
  PROVE  HistoryInv'
<1>1. PICK payload \in Payloads, dry \in BOOLEAN :
        /\ Parses(payload)
        /\ hpost' = [hpost EXCEPT ![p] = [at |-> 1, payload |-> payload, started |-> hposts',
                                          rows |-> <<>>, dry |-> dry]]
  BY DEF PostHistory
<1>2. hposts' \in Nat /\ UNCHANGED <<ingested, history, commits>>
  BY DEF PostHistory, HistoryInv
<1> DEFINE s == [at |-> 1, payload |-> payload, started |-> hposts', rows |-> <<>>, dry |-> dry]
<1>3. Len(SeriesOrder) \in Nat
  BY CbiHistoryAssumption
<1>4. s \in Post /\ s.at = 1
  BY <1>2 DEF Post
<1>5. /\ s.at \in 1..Len(SeriesOrder) + 1 /\ s.payload \in WholePayload
      /\ Len(s.rows) = 0
  BY <1>1, <1>3 DEF Parses, WholePayload
<1>6. hpost' = [hpost EXCEPT ![p] = s]
  BY <1>1
<1> HIDE DEF s
<1>7. hpost' \in [Poster -> Post]
  BY <1>4, <1>6 DEF HistoryInv
<1>8. PostWrites(history', s)
  BY <1>4, <1>5 DEF PostWrites
<1>9. \A q \in Poster : hpost'[q].at > 0 => PostWrites(history', hpost'[q])
  BY <1>2, <1>6, <1>8 DEF HistoryInv, PostWrites
<1>10. OneWriter'
  BY <1>4, <1>6 DEF HistoryInv, OneWriter
<1> QED
  BY <1>2, <1>7, <1>9, <1>10 DEF HistoryInv, PostsAreWhole, Stating

\* A post's next series: it comes to the first one only when no other post has.
LEMMA WriteSeriesKeeps ==
  ASSUME HistoryInv, NEW p \in Poster, WriteSeries(p)
  PROVE  HistoryInv'
<1> DEFINE s == hpost[p]
           code == SeriesOrder[s.at]
           row == Observed(history[code], s.payload.figure[code], s.started)
           rows == Append(s.rows, row)
           t == [s EXCEPT !.at = s.at + 1, !.rows = rows]
<1>1. /\ s.at \in DOMAIN SeriesOrder /\ UNCHANGED <<history, hposts, commits, ingested>>
      /\ \/ hpost' = [hpost EXCEPT ![p] = NoPost]
         \/ hpost' = [hpost EXCEPT ![p].at = s.at + 1, ![p].rows = rows]
  BY DEF WriteSeries, SeenByOthers
<1>2. hpost \in [Poster -> Post] /\ s \in Post /\ history \in [Codes -> Rows]
  BY DEF HistoryInv
<1>3. SeriesOrder \in Seq(Codes) /\ Len(SeriesOrder) \in Nat
  BY CbiHistoryAssumption
<1>4. code \in Codes /\ s.at \in 1..Len(SeriesOrder)
  BY <1>1, <1>3
<1>5. PostWrites(history, s)
  BY <1>4 DEF HistoryInv
<1>6. row \in Rows
  BY <1>2, <1>4, <1>5, ObservedIsRows DEF PostWrites, Post
<1>7. CASE hpost' = [hpost EXCEPT ![p] = NoPost]
  BY <1>1, <1>7, PostLeaves
<1>8. CASE hpost' = [hpost EXCEPT ![p].at = s.at + 1, ![p].rows = rows]
  <2>1. hpost' = [hpost EXCEPT ![p] = t]
    BY <1>2, <1>8
  <2>2. s.rows \in Seq(Rows) /\ Len(s.rows) = s.at - 1
    BY <1>2, <1>5 DEF PostWrites, Post
  <2>3. rows \in Seq(Rows) /\ Len(rows) = s.at /\ rows[s.at] = row
        /\ \A k \in 1..s.at - 1 : rows[k] = s.rows[k]
    <3> HIDE DEF row
    <3>1. s.at \in Nat
      BY <1>4
    <3> HIDE DEF s
    <3> QED
      BY <1>6, <2>2, <3>1
  <2>4. t \in Post /\ t.at = s.at + 1 /\ t.rows = rows /\ t.payload = s.payload
        /\ t.started = s.started
    <3>1. s.at + 1 \in Nat /\ s \in Post /\ rows \in Seq(Rows)
      BY <1>2, <1>4, <2>3
    <3>2. t = [s EXCEPT !.at = s.at + 1, !.rows = rows]
      OBVIOUS
    <3> HIDE DEF s, rows, t
    <3> QED
      BY <3>1, <3>2 DEF Post
  <2> HIDE DEF t
  <2>5. \A k \in 1..s.at :
          rows[k] = Observed(history[SeriesOrder[k]], s.payload.figure[SeriesOrder[k]], s.started)
    <3> HIDE DEF rows
    <3> SUFFICES ASSUME NEW k \in 1..s.at
                 PROVE  rows[k] = Observed(history[SeriesOrder[k]],
                                           s.payload.figure[SeriesOrder[k]], s.started)
      OBVIOUS
    <3>1. CASE k = s.at
      BY <2>3, <3>1
    <3>2. CASE k # s.at
      <4>1. k \in 1..s.at - 1
        BY <1>4, <3>2
      <4> QED
        BY <1>5, <2>3, <4>1 DEF PostWrites
    <3> QED
      BY <3>1, <3>2
  <2> HIDE DEF rows
  <2>6. PostWrites(history', t)
    <3>1. t.at \in 1..Len(SeriesOrder) + 1 /\ t.at - 1 = s.at
      BY <1>4, <2>4
    <3> QED
      BY <1>1, <1>5, <2>3, <2>4, <2>5, <3>1 DEF PostWrites
  <2>7. hpost' \in [Poster -> Post]
    BY <1>2, <2>1, <2>4
  <2>8. \A q \in Poster : hpost'[q].at > 0 => PostWrites(history', hpost'[q])
    BY <1>1, <1>2, <2>1, <2>6 DEF HistoryInv, PostWrites
  <2>9. \A q \in Poster \ {p} : ~(hpost[q].at > 1)
    <3> SUFFICES ASSUME NEW q \in Poster \ {p}, hpost[q].at > 1 PROVE FALSE
      OBVIOUS
    <3>1. s.at > 1 => FALSE
      BY DEF HistoryInv, OneWriter
    <3>2. s.at = 1
      BY <1>4, <3>1
    <3>3. SeriesOrder[1] = code /\ 1 \in DOMAIN SeriesOrder
      BY <1>1, <3>2
    <3>4. Holds(q, code)
      BY <3>3 DEF Holds
    <3> QED
      BY <3>4 DEF WriteSeries
  <2>10. OneWriter'
    BY <1>2, <2>1, <2>9 DEF OneWriter
  <2> QED
    BY <1>1, <2>7, <2>8, <2>10 DEF HistoryInv, PostsAreWhole, Stating
<1> QED
  BY <1>1, <1>7, <1>8

\* One payload more: it is the last to state what it states, and leaves the
\* rest as it was.
LEMMA CommitIsWhole ==
  ASSUME PostsAreWhole, commits \in Seq(WholePayload), history \in [Codes -> Rows],
         NEW payload \in WholePayload, NEW avail,
         commits' = Append(commits, payload), DOMAIN history' = Codes,
         \A c \in Codes : history'[c] = Observed(history[c], payload.figure[c], avail)
  PROVE  PostsAreWhole'
<1> DEFINE n == Len(commits)
<1>1. n \in Nat /\ DOMAIN commits = 1..n /\ DOMAIN commits' = 1..n + 1
      /\ commits'[n + 1] = payload /\ \A k \in 1..n : commits'[k] = commits[k]
  OBVIOUS
<1> HIDE DEF n
<1> SUFFICES ASSUME NEW code \in Codes
             PROVE  /\ \A m \in DOMAIN history'[code] : Stating(code, m)' # {}
                    /\ \A m \in Quarters : \A k \in Stating(code, m)' :
                         (\A j \in Stating(code, m)' : j <= k)
                           => /\ m \in DOMAIN history'[code]
                              /\ history'[code][m].value = commits'[k].figure[code][m]
  BY DEF PostsAreWhole
<1> DEFINE f == payload.figure[code]
           W == Written(f)
<1>2. \A m : Stating(code, m)' = Stating(code, m) \cup (IF m \in W THEN {n + 1} ELSE {})
  <2>1. \A m : Stating(code, m)' = {k \in 1..n + 1 : m \in Written(commits'[k].figure[code])}
    BY <1>1 DEF Stating, Written, ExcelCanCarry
  <2>2. \A m : Stating(code, m) = {k \in 1..n : m \in Written(commits[k].figure[code])}
    BY <1>1 DEF Stating
  <2> QED
    BY <1>1, <2>1, <2>2
<1>3. history'[code] = Observed(history[code], f, avail)
  OBVIOUS
<1> HIDE DEF f
<1>4. DOMAIN history'[code] = DOMAIN history[code] \cup W
  BY <1>3 DEF Observed
<1>5. \A m \in W : history'[code][m].value = f[m]
  BY <1>3 DEF Observed
<1>6. \A m \in DOMAIN history[code] \ W : history'[code][m] = history[code][m]
  BY <1>3 DEF Observed
<1> HIDE DEF W
<1>7. \A m \in DOMAIN history'[code] : Stating(code, m)' # {}
  <2>1. \A m \in DOMAIN history[code] : Stating(code, m) # {}
    BY DEF PostsAreWhole
  <2> QED
    BY <1>2, <1>4, <2>1
<1>8. ASSUME NEW m \in Quarters, NEW k \in Stating(code, m)', \A j \in Stating(code, m)' : j <= k
      PROVE  /\ m \in DOMAIN history'[code]
             /\ history'[code][m].value = commits'[k].figure[code][m]
  <2>1. \A j \in Stating(code, m) : j \in 1..n
    BY <1>1 DEF Stating
  <2>2. CASE m \in W
    <3>1. n + 1 <= k /\ k \in 1..n + 1
      BY <1>1, <1>2, <1>8, <2>1, <2>2
    <3>2. k = n + 1
      BY <1>1, <3>1
    <3> QED
      BY <1>1, <1>4, <1>5, <2>2, <3>2 DEF f
  <2>3. CASE m \notin W
    <3>1. k \in Stating(code, m) /\ \A j \in Stating(code, m) : j <= k
      BY <1>2, <1>8, <2>3
    <3>2. m \in DOMAIN history[code] /\ history[code][m].value = commits[k].figure[code][m]
      BY <3>1 DEF PostsAreWhole
    <3>3. commits'[k] = commits[k]
      BY <1>1, <2>1, <3>1
    <3> QED
      BY <1>4, <1>6, <2>3, <3>2, <3>3
  <2> QED
    BY <2>2, <2>3
<1> QED
  BY <1>7, <1>8

\* The commit.
LEMMA EndPostKeeps ==
  ASSUME HistoryInv, NEW p \in Poster, EndPost(p)
  PROVE  HistoryInv'
<1> DEFINE s == hpost[p]
           Place(c) == CHOOSE k \in DOMAIN SeriesOrder : SeriesOrder[k] = c
<1>1. hpost' = [hpost EXCEPT ![p] = NoPost] /\ UNCHANGED <<hposts, ingested>>
      /\ s.at = Len(SeriesOrder) + 1
  BY DEF EndPost
<1>2. CASE s.dry
  BY <1>1, <1>2, PostLeaves DEF EndPost
<1>3. CASE ~s.dry
  <2>1. /\ history' = [c \in Codes |-> s.rows[Place(c)]]
        /\ commits' = Append(commits, s.payload)
    BY <1>3 DEF EndPost
  <2>2. SeriesOrder \in Seq(Codes) /\ Len(SeriesOrder) \in Nat
    BY CbiHistoryAssumption
  <2>3. PostWrites(history, s) /\ s \in Post
    BY <1>1, <2>2 DEF HistoryInv
  <2>4. ASSUME NEW c \in Codes
        PROVE  /\ history'[c] = Observed(history[c], s.payload.figure[c], s.started)
               /\ history'[c] \in Rows
    <3>1. \E k \in DOMAIN SeriesOrder : SeriesOrder[k] = c
      BY DEF Codes
    <3>2. Place(c) \in DOMAIN SeriesOrder /\ SeriesOrder[Place(c)] = c
      BY <3>1
    <3>3. Place(c) \in 1..Len(SeriesOrder)
      BY <2>2, <3>2
    <3>4. history'[c] = s.rows[Place(c)]
      BY <2>1
    <3> HIDE DEF Place
    <3>5. Place(c) \in 1..s.at - 1
      BY <1>1, <2>2, <3>3
    <3>6. history'[c] = Observed(history[c], s.payload.figure[c], s.started)
      BY <2>3, <3>2, <3>4, <3>5 DEF PostWrites
    <3>7. history[c] \in Rows /\ s.payload \in WholePayload /\ s.started \in Nat
      BY <2>3 DEF HistoryInv, PostWrites, Post
    <3> QED
      BY <3>6, <3>7, ObservedIsRows
  <2>5. history' \in [Codes -> Rows]
    <3>1. history' = [c \in Codes |-> history'[c]]
      BY <2>1
    <3> QED
      BY <2>4, <3>1
  <2>6. commits' \in Seq(WholePayload)
    BY <2>1, <2>3 DEF HistoryInv, PostWrites
  <2>7. PostsAreWhole'
    <3>1. PostsAreWhole /\ commits \in Seq(WholePayload) /\ history \in [Codes -> Rows]
      BY DEF HistoryInv
    <3>2. s.payload \in WholePayload
      BY <2>3 DEF PostWrites
    <3>3. DOMAIN history' = Codes
      BY <2>5
    <3>4. commits' = Append(commits, s.payload)
      BY <2>1
    <3>5. \A c \in Codes : history'[c] = Observed(history[c], s.payload.figure[c], s.started)
      BY <2>4
    <3> HIDE DEF s
    <3> QED
      BY <3>1, <3>2, <3>3, <3>4, <3>5, CommitIsWhole
  <2>8. NoPost \in Post /\ NoPost.at = 0
    BY DEF NoPost, Post
  <2>9. hpost' \in [Poster -> Post]
    BY <1>1, <2>8 DEF HistoryInv
  <2>10. \A q \in Poster : hpost'[q].at > 0 => q # p /\ hpost'[q] = hpost[q]
    BY <1>1, <2>8 DEF HistoryInv
  <2>11. \A q \in Poster : hpost'[q].at > 0 => PostWrites(history', hpost'[q])
    <3> SUFFICES ASSUME NEW q \in Poster, hpost'[q].at > 0 PROVE PostWrites(history', hpost[q])
                                                             /\ hpost'[q] = hpost[q]
      OBVIOUS
    <3>1. q # p /\ hpost'[q] = hpost[q] /\ PostWrites(history, hpost[q]) /\ hpost[q] \in Post
      BY <2>10 DEF HistoryInv
    <3>2. hpost[q].at = 1
      <4>1. hpost[q].at \in Nat /\ hpost[q].at > 0 /\ hpost[q].at <= Len(SeriesOrder) + 1
        BY <2>2, <3>1 DEF PostWrites, Post
      <4>2. hpost[q].at > 1 => ~(s.at > 1)
        BY <3>1 DEF HistoryInv, OneWriter
      <4> QED
        BY <1>1, <2>2, <4>1, <4>2
    <3>3. hpost'[q].at = 1 /\ Len(hpost'[q].rows) = 0 /\ hpost'[q].payload \in WholePayload
          /\ hpost'[q].at \in 1..Len(SeriesOrder) + 1
      BY <2>2, <3>1, <3>2 DEF PostWrites
    <3> QED
      BY <3>1, <3>3 DEF PostWrites
  <2>12. OneWriter'
    BY <2>8, <2>10, <1>1 DEF HistoryInv, OneWriter, Post
  <2> QED
    BY <1>1, <2>5, <2>6, <2>7, <2>9, <2>11, <2>12 DEF HistoryInv
<1> QED
  BY <1>2, <1>3

\* Nothing is stored or posted yet.
LEMMA HistoryInitHolds == HistoryInit => HistoryInv
<1> SUFFICES ASSUME HistoryInit PROVE HistoryInv
  OBVIOUS
<1>1. NoPost \in Post /\ NoPost.at = 0
  BY DEF NoPost, Post
<1>2. <<>> \in Rows
  <2>1. <<>> \in [{} -> Row]
    OBVIOUS
  <2> QED
    BY <2>1 DEF Rows
<1>3. \A code, m : Stating(code, m) = {}
  BY DEF HistoryInit, Stating
<1>4. PostsAreWhole
  BY <1>3 DEF HistoryInit, PostsAreWhole
<1> QED
  BY <1>1, <1>2, <1>4 DEF HistoryInit, HistoryInv, OneWriter

\* Every step.
LEMMA HistoryNextKeeps == HistoryInv /\ [HistoryNext]_historyVars => HistoryInv'
<1> SUFFICES ASSUME HistoryInv, [HistoryNext]_historyVars PROVE HistoryInv'
  OBVIOUS
<1>1. ASSUME NEW p \in Poster, PostRefused(p) PROVE HistoryInv'
  BY <1>1, HistoryRests DEF PostRefused, HistoryInv
<1>2. ASSUME NEW p \in Poster, PostKilled(p) PROVE HistoryInv'
  BY <1>2, PostLeaves DEF PostKilled
<1>3. CASE StoreEdition
  BY <1>3, HistoryRests DEF StoreEdition, HistoryInv
<1>4. CASE UNCHANGED historyVars
  BY <1>4, HistoryRests DEF historyVars, HistoryInv
<1> QED
  BY <1>1, <1>2, <1>3, <1>4, PostBegins, WriteSeriesKeeps, EndPostKeeps DEF HistoryNext

\* Every post counts as a whole or not at all, for any series, payloads with
\* any gaps and any overlapping posts (cbi_history.py ingest_cbi_history).
THEOREM PostsAreWholeHolds == HistorySpec => []PostsAreWhole
<1>1. HistoryInv => PostsAreWhole
  BY DEF HistoryInv
<1> QED
  BY <1>1, HistoryInitHolds, HistoryNextKeeps, PTL DEF HistorySpec

\* The two sources never store one month, for any first edition, any quarters
\* and any payloads (cbi_history.py excel_can_carry).
THEOREM OneSourcePerMonthHolds == HistorySpec => []OneSourcePerMonth
<1>1. HistoryInv => OneSourcePerMonth
  <2> SUFFICES ASSUME HistoryInv, NEW code \in Codes, NEW e \in ingested,
                      NEW m \in Columns(e), m \in DOMAIN history[code]
               PROVE  FALSE
    BY DEF OneSourcePerMonth
  <2>1. PICK k \in DOMAIN commits : m \in Written(commits[k].figure[code])
    BY DEF HistoryInv, PostsAreWhole, Stating
  <2>2. commits[k] \in WholePayload
    BY DEF HistoryInv
  <2>3. m \in Quarters /\ ~ExcelCanCarry(m)
    BY <2>1, <2>2, FiguresAre
  <2>4. e \in Int \X (1..12) /\ m \in Int \X (1..12) /\ AtLeast(e, FirstExcel)
    BY <2>3, CbiHistoryAssumption DEF HistoryInv
  <2> QED
    BY <2>3, <2>4, CanCarryIsComplete
<1> QED
  BY <1>1, HistoryInitHolds, HistoryNextKeeps, PTL DEF HistorySpec

-----------------------------------------------------------------------------
(* The sanctions list                                                      *)

Received == [edition : Nat, entries : Entries, at : Nat]
Holding == {"received", "compared", "stored", "reported"}

\* Every document has a place of its own in time.
SdnShape ==
  /\ received \in 0..MaxReceived
  /\ sdn \in [edition : Nat, entries : Entries]
  /\ spc \in [Collector -> SdnPC]
  /\ document \in [Collector -> Received] /\ baseline \in [Collector -> Received]
  /\ snapshots \subseteq Received
  /\ \A s \in snapshots : s.at \in 1..received
  /\ \A s, t \in snapshots : s.at = t.at => s = t
  /\ \A c \in Collector : spc[c] \in Holding => document[c].at \in 1..received
  /\ \A c \in Collector : spc[c] \in {"received", "compared"} =>
       \A s \in snapshots : s.at # document[c].at
  /\ \A c, d \in Collector :
       spc[c] \in Holding /\ spc[d] \in Holding /\ document[c].at = document[d].at => c = d

\* b is the stored document before s.
Precedes(b, s) == b \in Before(s) /\ \A u \in Before(s) : u.at <= b.at

\* A call that has stored its document and not yet reported compares it with
\* the one stored before it, unless calls crossed.
BaselineIsLast ==
  \A c \in Collector :
    /\ spc[c] = "compared" => baseline[c] \in snapshots \cup {NoDocument}
    /\ spc[c] = "stored" =>
         /\ document[c] \in snapshots
         /\ \/ baseline[c] = NoDocument /\ (Before(document[c]) = {} \/ document[c].at \in crossed)
            \/ /\ baseline[c] \in snapshots
               /\ document[c].at \in crossed \/ Precedes(baseline[c], document[c])

SdnInv == SdnShape /\ BaselineIsLast /\ ReportedHappened /\ ChangesReported

\* The places in time are numbers.
LEMMA Places == ASSUME SdnShape PROVE
  /\ MaxReceived \in Nat /\ received \in Nat
  /\ \A s \in snapshots : s.at \in Nat /\ s.at >= 1 /\ s.at <= received
  /\ \A c \in Collector : document[c].at \in Nat
<1>1. MaxReceived \in Nat
  BY SdnAssumption
<1>2. \A s \in snapshots : s.at \in 1..received
  BY DEF SdnShape
<1>3. \A c \in Collector : document[c].at \in Nat
  BY DEF SdnShape, Received
<1>4. received \in Nat
  BY <1>1 DEF SdnShape
<1> QED
  BY <1>1, <1>2, <1>3, <1>4

\* latest_raw_payload finds the last document, when there is one.
LEMMA LatestIs ==
  ASSUME SdnShape
  PROVE  \/ snapshots = {} /\ Latest = NoDocument
         \/ Latest \in snapshots /\ \A t \in snapshots : t.at <= Latest.at
<1>1. CASE snapshots = {}
  BY <1>1 DEF Latest
<1>2. CASE snapshots # {}
  <2> DEFINE T == {n \in Nat : \E s \in snapshots : s.at = n}
  <2>1. T \in SUBSET (0..received) /\ T # {}
    BY <1>2, Places
  <2>2. PICK n \in T : \A m \in T : m <= n
    BY <2>1, Greatest, Places
  <2>3. PICK s \in snapshots : s.at = n
    BY <2>2
  <2>4. \A t \in snapshots : t.at \in T
    BY Places
  <2>5. \A t \in snapshots : t.at <= s.at
    BY <2>2, <2>3, <2>4
  <2> QED
    BY <1>2, <2>5 DEF Latest
<1> QED
  BY <1>1, <1>2

\* The document before s is the one preceding it.
LEMMA PrecedingIs ==
  ASSUME SdnShape, NEW s \in snapshots, NEW b, Precedes(b, s)
  PROVE  Preceding(s) = b
<1>1. \A t \in Before(s) : (\A u \in Before(s) : u.at <= t.at) => t = b
  <2> SUFFICES ASSUME NEW t \in Before(s), \A u \in Before(s) : u.at <= t.at PROVE t = b
    OBVIOUS
  <2>1. t \in snapshots /\ b \in snapshots /\ b \in Before(s)
    BY DEF Before, Precedes
  <2>2. t.at = b.at
    BY <2>1, Places DEF Precedes
  <2> QED
    BY <2>1, <2>2 DEF SdnShape
<1>2. b \in Before(s) /\ \A u \in Before(s) : u.at <= b.at
  BY DEF Precedes
<1> QED
  BY <1>1, <1>2 DEF Preceding

\* A step that stores and reports nothing.
LEMMA QuietSdnKeeps ==
  ASSUME SdnInv, SdnShape', UNCHANGED <<snapshots, reported, crossed>>, orphans \subseteq orphans',
         \A c \in Collector :
           /\ spc'[c] = "compared" => spc[c] = "compared" /\ baseline'[c] = baseline[c]
           /\ spc'[c] = "stored" => /\ spc[c] = "stored" /\ baseline'[c] = baseline[c]
                                    /\ document'[c] = document[c]
           /\ spc[c] = "stored" => \/ spc'[c] = "stored" /\ document'[c] = document[c]
                                   \/ document[c].at \in orphans'
  PROVE  SdnInv'
<1>1. \A s : Before(s)' = Before(s) /\ Preceding(s)' = Preceding(s)
  BY DEF Before, Preceding
<1>2. BaselineIsLast'
  BY <1>1 DEF SdnInv, BaselineIsLast, Precedes, Before
<1>3. ReportedHappened'
  BY DEF SdnInv, ReportedHappened
<1>4. ASSUME NEW s \in snapshots, Busy(s) PROVE Busy(s)' \/ s.at \in orphans'
  <2>1. PICK c \in Collector : spc[c] = "stored" /\ document[c].at = s.at
    BY <1>4 DEF Busy
  <2> QED
    BY <2>1 DEF Busy
<1>5. ChangesReported'
  <2> SUFFICES ASSUME NEW s \in snapshots
               PROVE  \/ Before(s) = {} \/ Busy(s)' \/ s.at \in orphans' \cup crossed
                      \/ Articles(Preceding(s), s) \subseteq reported
    BY <1>1 DEF ChangesReported
  <2> QED
    BY <1>4 DEF SdnInv, ChangesReported
<1> QED
  BY <1>2, <1>3, <1>5 DEF SdnInv

\* Every step of a call leaves every document its own place in time.
LEMMA CollectKeepsShape ==
  ASSUME SdnShape, NEW c \in Collector, CollectSdn(c) \/ SdnKilled(c)
  PROVE  SdnShape'
<1> USE DEF Step
<1>0. /\ received \in 0..MaxReceived /\ MaxReceived \in Nat /\ received \in Nat
      /\ spc \in [Collector -> SdnPC]
      /\ document \in [Collector -> Received] /\ baseline \in [Collector -> Received]
      /\ snapshots \subseteq Received
  BY Places DEF SdnShape
<1>1. NoDocument \in Received
  BY DEF NoDocument, Received, Nothing, Entries
<1>2. CASE AttemptSdn(c) \/ GateSdn(c)
  <2>1. /\ \E label \in {"due", "fetching", "idle"} : spc' = [spc EXCEPT ![c] = label]
        /\ UNCHANGED <<sdn, received, document, baseline, snapshots>>
    BY <1>2 DEF AttemptSdn, GateSdn
  <2>2. spc' \in [Collector -> SdnPC] /\ spc'[c] \notin Holding
        /\ \A d \in Collector \ {c} : spc'[d] = spc[d]
    BY <1>0, <2>1 DEF SdnPC, Holding
  <2> QED
    BY <2>1, <2>2 DEF SdnShape, Holding
<1>3. CASE Return(c) /\ UNCHANGED <<sdn, received, snapshots>>
  <2>1. /\ spc' = [spc EXCEPT ![c] = "idle"] /\ document' = [document EXCEPT ![c] = NoDocument]
        /\ baseline' = [baseline EXCEPT ![c] = NoDocument]
    BY <1>3 DEF Return
  <2>2. spc' \in [Collector -> SdnPC] /\ spc'[c] \notin Holding
        /\ \A d \in Collector \ {c} : spc'[d] = spc[d] /\ document'[d] = document[d]
    BY <1>0, <2>1 DEF SdnPC, Holding
  <2>3. document' \in [Collector -> Received] /\ baseline' \in [Collector -> Received]
    BY <1>0, <1>1, <2>1
  <2> QED
    BY <1>3, <2>2, <2>3 DEF SdnShape, Holding
<1>4. CASE FetchSdn(c)
  <2> DEFINE d == [edition |-> sdn.edition, entries |-> sdn.entries, at |-> received + 1]
  <2>1. /\ received' = received + 1 /\ received < MaxReceived
        /\ document' = [document EXCEPT ![c] = d] /\ spc' = [spc EXCEPT ![c] = "received"]
        /\ UNCHANGED <<sdn, snapshots, baseline>>
    BY <1>4 DEF FetchSdn
  <2>2. d \in Received /\ d.at = received + 1
    BY <1>0 DEF SdnShape, Received
  <2> HIDE DEF d
  <2>3. document' \in [Collector -> Received] /\ spc' \in [Collector -> SdnPC]
    BY <1>0, <2>1, <2>2 DEF SdnPC
  <2>4. /\ document'[c].at = received + 1
        /\ \A e \in Collector \ {c} : spc'[e] = spc[e] /\ document'[e] = document[e]
    BY <1>0, <2>1, <2>2
  <2>5. \A s \in snapshots : s.at \in 1..received' /\ s.at # received + 1
    BY <2>1, Places
  <2>6. \A e \in Collector \ {c} : spc[e] \in Holding =>
          document[e].at \in 1..received' /\ document[e].at # received + 1
    BY <1>0, <2>1 DEF SdnShape
  <2>7. received' \in 0..MaxReceived /\ received + 1 \in 1..received'
    BY <1>0, <2>1
  <2>8. \A e \in Collector : spc'[e] \in Holding => document'[e].at \in 1..received'
    BY <2>4, <2>6, <2>7
  <2>9. \A e \in Collector : spc'[e] \in {"received", "compared"} =>
          \A s \in snapshots : s.at # document'[e].at
    BY <2>4, <2>5 DEF SdnShape
  <2>10. \A e, f \in Collector :
           spc'[e] \in Holding /\ spc'[f] \in Holding /\ document'[e].at = document'[f].at => e = f
    BY <2>4, <2>6 DEF SdnShape
  <2> QED
    BY <2>1, <2>3, <2>5, <2>7, <2>8, <2>9, <2>10, <1>0 DEF SdnShape
<1>5. CASE ReadBaseline(c)
  <2>1. /\ baseline' = [baseline EXCEPT ![c] = Latest] /\ spc' = [spc EXCEPT ![c] = "compared"]
        /\ spc[c] = "received" /\ UNCHANGED <<sdn, snapshots, document, received>>
    BY <1>5 DEF ReadBaseline
  <2>2. Latest \in Received
    BY <1>0, <1>1, LatestIs
  <2>3. baseline' \in [Collector -> Received] /\ spc' \in [Collector -> SdnPC]
    BY <1>0, <2>1, <2>2 DEF SdnPC
  <2>4. \A d \in Collector : (spc'[d] \in Holding => spc[d] \in Holding) /\
          (spc'[d] \in {"received", "compared"} => spc[d] \in {"received", "compared"})
    BY <1>0, <2>1 DEF Holding
  <2> QED
    BY <2>1, <2>3, <2>4 DEF SdnShape
<1>6. CASE StoreSnapshot(c)
  <2>1. /\ snapshots' = snapshots \cup {document[c]} /\ spc' = [spc EXCEPT ![c] = "stored"]
        /\ spc[c] = "compared" /\ UNCHANGED <<sdn, document, baseline, received>>
    BY <1>6 DEF StoreSnapshot
  <2>2. spc' \in [Collector -> SdnPC]
    BY <1>0, <2>1 DEF SdnPC
  <2>3. \A d \in Collector : (spc'[d] \in Holding => spc[d] \in Holding) /\
          (spc'[d] \in {"received", "compared"} => spc[d] \in {"received", "compared"} /\ d # c)
    BY <1>0, <2>1 DEF Holding
  <2>4. document[c] \in Received /\ document[c].at \in 1..received
        /\ \A s \in snapshots : s.at # document[c].at
    BY <1>0, <2>1 DEF SdnShape, Holding
  <2>5. \A d \in Collector : spc'[d] \in {"received", "compared"} =>
          \A s \in snapshots' : s.at # document[d].at
    BY <2>1, <2>3 DEF SdnShape, Holding
  <2>6. \A s, t \in snapshots' : s.at = t.at => s = t
    BY <2>1, <2>4 DEF SdnShape
  <2> QED
    BY <2>1, <2>2, <2>3, <2>4, <2>5, <2>6 DEF SdnShape
<1>7. CASE ReportChanges(c)
  <2>1. /\ spc' = [spc EXCEPT ![c] = "reported"] /\ spc[c] = "stored"
        /\ UNCHANGED <<sdn, snapshots, document, baseline, received>>
    BY <1>7 DEF ReportChanges
  <2>2. spc' \in [Collector -> SdnPC]
    BY <1>0, <2>1 DEF SdnPC
  <2>3. \A d \in Collector : (spc'[d] \in Holding => spc[d] \in Holding) /\
          (spc'[d] \in {"received", "compared"} => spc[d] = spc'[d])
    BY <1>0, <2>1 DEF Holding
  <2> QED
    BY <2>1, <2>2, <2>3 DEF SdnShape
<1> QED
  BY <1>2, <1>3, <1>4, <1>5, <1>6, <1>7
  DEF CollectSdn, FetchSdnFails, UnchangedList, FinishSdn, SdnKilled

\* The snapshot is stored: it is that call's to report, and what it came before
\* has been crossed.
LEMMA StoreSnapshotKeeps ==
  ASSUME SdnInv, SdnShape', NEW c \in Collector, StoreSnapshot(c)
  PROVE  SdnInv'
<1> DEFINE d == document[c]
<1>1. /\ snapshots' = snapshots \cup {d} /\ spc' = [spc EXCEPT ![c] = "stored"]
      /\ spc[c] = "compared" /\ UNCHANGED <<reported, document, baseline, orphans>>
      /\ crossed' = crossed \cup {s.at : s \in {t \in snapshots : t.at > d.at}}
                       \cup IF Latest = baseline[c] /\ baseline[c].at < d.at THEN {} ELSE {d.at}
  BY DEF StoreSnapshot, Step
<1>2. SdnShape /\ spc \in [Collector -> SdnPC] /\ d.at \in Nat
  BY Places DEF SdnInv, SdnShape
<1>3. /\ spc'[c] = "stored" /\ \A e \in Collector \ {c} : spc'[e] = spc[e]
  BY <1>1, <1>2
<1>4. \A s \in snapshots : s.at # d.at /\ s.at \in Nat
  BY <1>1, <1>2, Places DEF SdnShape
<1>5. crossed \subseteq crossed' /\ \A s \in snapshots : s.at > d.at => s.at \in crossed'
  BY <1>1
<1>6. Latest # baseline[c] \/ ~(baseline[c].at < d.at) => d.at \in crossed'
  BY <1>1
<1> HIDE DEF d
<1>7. \A s \in snapshots : s.at \in crossed' \/ Before(s)' = Before(s)
  BY <1>1, <1>2, <1>4, <1>5 DEF Before
<1>8. d' = d /\ Before(d)' = Before(d)
  <2>1. d' = d
    BY <1>1 DEF d
  <2> QED
    BY <1>1, <1>2, <2>1 DEF Before
<1>9. BaselineIsLast'
  <2> SUFFICES ASSUME NEW e \in Collector
      PROVE  /\ spc'[e] = "compared" => baseline[e] \in snapshots' \cup {NoDocument}
             /\ spc'[e] = "stored" =>
                  /\ document[e] \in snapshots'
                  /\ \/ /\ baseline[e] = NoDocument
                        /\ Before(document[e])' = {} \/ document[e].at \in crossed'
                     \/ /\ baseline[e] \in snapshots'
                        /\ document[e].at \in crossed' \/ Precedes(baseline[e], document[e])'
    BY <1>1 DEF BaselineIsLast, Precedes, Before
  <2>1. CASE e # c
    <3>1. spc'[e] = spc[e]
      BY <1>3, <2>1
    <3>2. CASE spc[e] = "stored"
      <4>1. document[e] \in snapshots
        BY <3>2 DEF SdnInv, BaselineIsLast
      <4>2. document[e].at \in crossed' \/ Before(document[e])' = Before(document[e])
        BY <1>1, <1>7, <4>1 DEF Before
      <4>3. Precedes(baseline[e], document[e]) /\ Before(document[e])' = Before(document[e])
            => Precedes(baseline[e], document[e])'
        BY <1>1 DEF Precedes
      <4> QED
        BY <1>1, <1>5, <3>1, <3>2, <4>1, <4>2, <4>3 DEF SdnInv, BaselineIsLast
    <3> QED
      BY <1>1, <3>1, <3>2 DEF SdnInv, BaselineIsLast
  <2>2. CASE e = c
    <3>1. baseline[c] \in snapshots \cup {NoDocument}
      BY <1>1 DEF SdnInv, BaselineIsLast
    <3>2. document[c] = d /\ d \in snapshots'
      BY <1>1 DEF d
    <3>3. CASE d.at \in crossed'
      BY <1>1, <1>3, <2>2, <3>1, <3>2, <3>3
    <3>4. CASE d.at \notin crossed'
      <4>1. Latest = baseline[c] /\ baseline[c].at < d.at
        BY <1>6, <3>4
      <4>2. CASE snapshots = {} /\ Latest = NoDocument
        <5>1. Before(d)' = {}
          BY <1>8, <4>2 DEF Before
        <5> QED
          BY <1>1, <1>3, <2>2, <3>2, <4>1, <4>2, <5>1 DEF d
      <4>3. CASE Latest \in snapshots /\ \A t \in snapshots : t.at <= Latest.at
        <5>1. Precedes(baseline[c], d)
          BY <4>1, <4>3 DEF Precedes, Before
        <5>2. Precedes(baseline[c], d)'
          BY <1>1, <1>8, <5>1, <3>2 DEF Precedes, d
        <5> QED
          BY <1>1, <1>3, <2>2, <3>2, <4>1, <4>3, <5>2 DEF d
      <4> QED
        BY <1>2, <4>2, <4>3, LatestIs
    <3> QED
      BY <3>3, <3>4
  <2> QED
    BY <2>1, <2>2
<1>10. ReportedHappened'
  BY <1>1, <1>5 DEF SdnInv, ReportedHappened
<1>11. ChangesReported'
  <2> SUFFICES ASSUME NEW s \in snapshots'
      PROVE  \/ Before(s)' = {} \/ Busy(s)' \/ s.at \in orphans \cup crossed'
             \/ Articles(Preceding(s)', s) \subseteq reported
    BY <1>1 DEF ChangesReported
  <2>1. CASE s = d
    BY <1>1, <1>3, <2>1 DEF Busy, d
  <2>2. CASE s \in snapshots /\ s.at \in crossed'
    BY <2>2
  <2>3. CASE s \in snapshots /\ Before(s)' = Before(s)
    <3>1. Preceding(s)' = Preceding(s)
      BY <2>3 DEF Preceding
    <3>2. Busy(s) => Busy(s)'
      BY <1>1, <1>3 DEF Busy
    <3> QED
      BY <1>5, <2>3, <3>1, <3>2 DEF SdnInv, ChangesReported
  <2> QED
    BY <1>1, <1>7, <2>1, <2>2, <2>3
<1> QED
  BY <1>9, <1>10, <1>11 DEF SdnInv

\* The changes are reported: they are those against the document before.
LEMMA ReportChangesKeeps ==
  ASSUME SdnInv, SdnShape', NEW c \in Collector, ReportChanges(c)
  PROVE  SdnInv'
<1> DEFINE d == document[c]
           b == baseline[c]
<1>1. /\ spc' = [spc EXCEPT ![c] = "reported"] /\ spc[c] = "stored"
      /\ reported' = reported \cup ReportedBy(c)
      /\ UNCHANGED <<snapshots, document, baseline, orphans, crossed>>
  BY DEF ReportChanges, Step
<1>2. SdnShape /\ spc \in [Collector -> SdnPC]
  BY DEF SdnInv, SdnShape
<1>3. spc'[c] = "reported" /\ \A e \in Collector \ {c} : spc'[e] = spc[e]
  BY <1>1, <1>2
<1>4. \A s : Before(s)' = Before(s) /\ Preceding(s)' = Preceding(s)
  BY <1>1 DEF Before, Preceding
<1>5. /\ d \in snapshots
      /\ \/ b = NoDocument /\ (Before(d) = {} \/ d.at \in crossed)
         \/ b \in snapshots /\ (d.at \in crossed \/ Precedes(b, d))
  BY <1>1 DEF SdnInv, BaselineIsLast
<1>6. b \in snapshots => b # NoDocument
  BY <1>2, Places DEF NoDocument
<1>7. ReportedBy(c) = IF b = NoDocument THEN {} ELSE Articles(b, d)
  BY DEF ReportedBy
<1> HIDE DEF b, d
<1>8. BaselineIsLast'
  BY <1>1, <1>3, <1>4 DEF SdnInv, BaselineIsLast, Precedes, Before
<1>9. ReportedHappened'
  <2> SUFFICES ASSUME NEW r \in reported'
      PROVE  \E s, t \in snapshots : /\ r.digest = <<t.edition, t.entries>>
                                     /\ [uid |-> r.uid, change |-> r.change] \in Changes(s, t)
                                     /\ s.at < t.at \/ t.at \in crossed
    BY <1>1 DEF ReportedHappened
  <2>1. CASE r \in reported
    BY <2>1 DEF SdnInv, ReportedHappened
  <2>2. CASE r \in ReportedBy(c)
    <3>1. b # NoDocument /\ r \in Articles(b, d)
      BY <1>7, <2>2
    <3>2. b \in snapshots /\ d \in snapshots /\ (d.at \in crossed \/ b.at < d.at)
      BY <1>5, <3>1 DEF Precedes, Before
    <3>3. PICK ch \in Changes(b, d) :
            r = [uid |-> ch.uid, change |-> ch.change, digest |-> <<d.edition, d.entries>>]
      BY <3>1 DEF Articles
    <3>4. [uid |-> r.uid, change |-> r.change] = ch
      BY <3>3 DEF Changes
    <3>5. r.digest = <<d.edition, d.entries>>
      BY <3>3
    <3> QED
      BY <3>2, <3>4, <3>5
  <2> QED
    BY <1>1, <2>1, <2>2
<1>10. ChangesReported'
  <2> SUFFICES ASSUME NEW s \in snapshots
      PROVE  \/ Before(s) = {} \/ Busy(s)' \/ s.at \in orphans \cup crossed
             \/ Articles(Preceding(s), s) \subseteq reported'
    BY <1>1, <1>4 DEF ChangesReported
  <2>1. CASE s.at = d.at
    <3>1. s = d
      BY <1>2, <1>5, <2>1 DEF SdnShape
    <3>2. CASE b \in snapshots /\ Precedes(b, d)
      <4>1. Preceding(d) = b
        BY <1>2, <1>5, <3>2, PrecedingIs
      <4> QED
        BY <1>1, <1>6, <1>7, <3>1, <3>2, <4>1
    <3> QED
      BY <1>5, <3>1, <3>2
  <2>2. CASE s.at # d.at
    <3>1. Busy(s) => Busy(s)'
      BY <1>1, <1>3, <2>2 DEF Busy, d
    <3> QED
      BY <1>1, <3>1 DEF SdnInv, ChangesReported
  <2> QED
    BY <2>1, <2>2
<1> QED
  BY <1>8, <1>9, <1>10 DEF SdnInv

\* Every step.
LEMMA SdnNextKeeps == SdnInv /\ [SdnNext]_sdnVars => SdnInv'
<1> SUFFICES ASSUME SdnInv, [SdnNext]_sdnVars PROVE SdnInv'
  OBVIOUS
<1>0. SdnShape /\ spc \in [Collector -> SdnPC] /\ document \in [Collector -> Received]
      /\ baseline \in [Collector -> Received]
  BY DEF SdnInv, SdnShape
<1>1. ASSUME NEW c \in Collector, ReadBaseline(c) PROVE SdnInv'
  <2>1. /\ baseline' = [baseline EXCEPT ![c] = Latest] /\ spc' = [spc EXCEPT ![c] = "compared"]
        /\ spc[c] = "received" /\ UNCHANGED <<snapshots, reported, document, orphans, crossed>>
    BY <1>1 DEF ReadBaseline, Step
  <2>2. SdnShape'
    BY <1>0, <1>1, CollectKeepsShape DEF CollectSdn
  <2>3. Latest \in snapshots \cup {NoDocument}
    BY <1>0, LatestIs
  <2>4. \A e \in Collector \ {c} : spc'[e] = spc[e] /\ baseline'[e] = baseline[e]
    BY <1>0, <2>1
  <2>5. spc'[c] = "compared" /\ baseline'[c] = Latest
    BY <1>0, <2>1
  <2>6. \A s : Before(s)' = Before(s) /\ Preceding(s)' = Preceding(s)
    BY <2>1 DEF Before, Preceding
  <2>7. BaselineIsLast'
    BY <2>1, <2>3, <2>4, <2>5, <2>6 DEF SdnInv, BaselineIsLast, Precedes, Before
  <2>8. ReportedHappened'
    BY <2>1 DEF SdnInv, ReportedHappened
  <2>9. \A s : Busy(s) => Busy(s)'
    BY <2>1, <2>4 DEF Busy
  <2>10. ChangesReported'
    BY <2>1, <2>6, <2>9 DEF SdnInv, ChangesReported
  <2> QED
    BY <2>2, <2>7, <2>8, <2>10 DEF SdnInv
<1>2. ASSUME NEW c \in Collector,
             \/ AttemptSdn(c) \/ GateSdn(c) \/ FetchSdnFails(c) \/ FetchSdn(c)
             \/ UnchangedList(c) \/ FinishSdn(c) \/ SdnKilled(c)
      PROVE  SdnInv'
  <2>1. SdnShape'
    BY <1>0, <1>2, CollectKeepsShape DEF CollectSdn
  <2>2. UNCHANGED <<snapshots, reported, crossed>> /\ orphans \subseteq orphans'
    BY <1>2 DEF AttemptSdn, GateSdn, FetchSdnFails, FetchSdn, UnchangedList, FinishSdn, SdnKilled
  <2>3. spc'[c] \notin {"compared", "stored"}
    BY <1>0, <1>2 DEF AttemptSdn, GateSdn, FetchSdnFails, FetchSdn, UnchangedList, FinishSdn,
       SdnKilled, Return, Step
  <2>4. spc[c] = "stored" => document[c].at \in orphans'
    BY <1>2 DEF AttemptSdn, GateSdn, FetchSdnFails, FetchSdn, UnchangedList, FinishSdn, SdnKilled
  <2>5. \A e \in Collector \ {c} :
          spc'[e] = spc[e] /\ document'[e] = document[e] /\ baseline'[e] = baseline[e]
    BY <1>0, <1>2 DEF AttemptSdn, GateSdn, FetchSdnFails, FetchSdn, UnchangedList, FinishSdn,
       SdnKilled, Return, Step
  <2> QED
    BY <2>1, <2>2, <2>3, <2>4, <2>5, QuietSdnKeeps
<1>3. CASE Lists \/ SdnTick \/ UNCHANGED sdnVars
  <2>1. UNCHANGED <<snapshots, reported, spc, document, baseline, received, orphans, crossed>>
    BY <1>3 DEF Lists, SdnTick, sdnVars
  <2>2. sdn' \in [edition : Nat, entries : Entries]
    BY <1>0, <1>3 DEF Lists, SdnTick, sdnVars, SdnShape
  <2>3. SdnShape'
    BY <1>0, <2>1, <2>2 DEF SdnShape
  <2> QED
    BY <2>1, <2>3, QuietSdnKeeps
<1>4. ASSUME NEW c \in Collector, StoreSnapshot(c) \/ ReportChanges(c) PROVE SdnInv'
  <2>1. SdnShape'
    BY <1>0, <1>4, CollectKeepsShape DEF CollectSdn
  <2> QED
    BY <1>4, <2>1, StoreSnapshotKeeps, ReportChangesKeeps
<1> QED
  BY <1>1, <1>2, <1>3, <1>4 DEF SdnNext, CollectSdn

\* Nothing is stored at first.
LEMMA SdnInitHolds == SdnInit => SdnInv
<1> SUFFICES ASSUME SdnInit PROVE SdnInv
  OBVIOUS
<1>1. NoDocument \in Received
  BY DEF NoDocument, Received, Nothing, Entries
<1>2. SdnShape
  BY <1>1, SdnAssumption DEF SdnInit, SdnShape, SdnPC, Holding
<1> QED
  BY <1>2 DEF SdnInit, SdnInv, BaselineIsLast, ReportedHappened, ChangesReported

\* What is reported happened, for any number of entries, documents, overlapping
\* calls and restarts.
THEOREM ReportedHappenedHolds == SdnSpec => []ReportedHappened
<1>1. SdnInv => ReportedHappened
  BY DEF SdnInv
<1> QED
  BY <1>1, SdnInitHolds, SdnNextKeeps, PTL DEF SdnSpec

\* And what happened is reported, but for a call killed between its two
\* transactions and for calls that crossed.
THEOREM ChangesReportedHolds == SdnSpec => []ChangesReported
<1>1. SdnInv => ChangesReported
  BY DEF SdnInv
<1> QED
  BY <1>1, SdnInitHolds, SdnNextKeeps, PTL DEF SdnSpec

-----------------------------------------------------------------------------
(* The safe fetch: redirects, retries and credentials                      *)


Request == [host : Host, creds : BOOLEAN]

\* What the requests and the next hop are made of.
FetchTyped ==
  /\ start \in [to : Target, creds : BOOLEAN]
  /\ target \in Target
  /\ carries \in BOOLEAN
  /\ asked \in Seq(Request)

\* The next hop: approved before it is asked, known to the strip by its host,
\* and given credentials only where they started from.
HopIsSafe ==
  /\ origin = target.host
  /\ fetchStep = "ask" => target.host \in Approved
  /\ carries => target.host = start.to.host

FetchInv == FetchTyped /\ HopIsSafe /\ CredentialsStayHome

\* A fetch begins with its own URL, nothing sent and no credentials taken up.
LEMMA FetchInitHolds == FetchInit => FetchInv
<1> SUFFICES ASSUME FetchInit PROVE FetchInv
  OBVIOUS
<1>1. start \in [to : Target, creds : BOOLEAN] /\ target = start.to /\ target \in Target
  BY DEF FetchInit
<1>2. asked \in Seq(Request) /\ DOMAIN asked = {}
  BY DEF FetchInit
<1> QED
  BY <1>1, <1>2 DEF FetchInit, FetchInv, FetchTyped, HopIsSafe, CredentialsStayHome

\* Sending the request of a safe hop keeps the requests safe.
LEMMA SentIsSafe ==
  ASSUME FetchInv, fetchStep = "ask", Sent, start' = start
  PROVE  asked' \in Seq(Request) /\ CredentialsStayHome'
<1> DEFINE q == [host |-> target.host, creds |-> carries]
<1>1. q \in Request /\ asked' = Append(asked, q)
  BY DEF FetchInv, FetchTyped, Sent, Target, Request
<1>2. asked' \in Seq(Request)
  BY <1>1 DEF FetchInv, FetchTyped
<1>3. \A i \in DOMAIN asked' : asked'[i] = q \/ (i \in DOMAIN asked /\ asked'[i] = asked[i])
  BY <1>1 DEF FetchInv, FetchTyped
<1>4. q.host \in Approved /\ (q.creds => q.host = start.to.host)
  BY DEF FetchInv, HopIsSafe
<1> QED
  BY <1>2, <1>3, <1>4 DEF FetchInv, CredentialsStayHome

\* A new attempt starts over from the caller's URL and headers.
LEMMA AttemptIsSafe ==
  ASSUME FetchInv, BeginAttempt, start' = start
  PROVE  target' \in Target /\ carries' \in BOOLEAN /\ HopIsSafe'
<1>1. target' = start.to /\ origin' = start.to.host /\ carries' = start.creds
  BY DEF BeginAttempt
<1>2. fetchStep' = "ask" => start.to.host \in Approved
  BY DEF BeginAttempt, ValidTarget, HostAllowed, Ends
<1> QED
  BY <1>1, <1>2 DEF FetchInv, FetchTyped, HopIsSafe

\* An attempt that does not begin leaves the hop and ends the fetch.
LEMMA EndIsSafe ==
  ASSUME FetchInv, fetchStep' # "ask", start' = start,
         target' = target, origin' = origin, carries' = carries
  PROVE  target' \in Target /\ carries' \in BOOLEAN /\ HopIsSafe'
  BY DEF FetchInv, FetchTyped, HopIsSafe

\* A redirect is followed only to an approved host, and without credentials
\* when that is another one.
LEMMA RedirectIsSafe ==
  ASSUME FetchInv, AnswerRedirect
  PROVE  target' \in Target /\ carries' \in BOOLEAN /\ HopIsSafe'
<1>1. start' = start
  BY DEF AnswerRedirect
<1>2. CASE fetchStep' = "ended" /\ target' = target /\ origin' = origin /\ carries' = carries
  BY <1>1, <1>2, EndIsSafe
<1>3. CASE \E t \in Target, addresses \in Answers :
             /\ ValidTarget(t, addresses)
             /\ target' = t /\ origin' = t.host
             /\ carries' = (carries /\ ~StripsHeaders(t.host))
             /\ fetchStep' = fetchStep
  <2>1. PICK t \in Target, addresses \in Answers :
             /\ ValidTarget(t, addresses)
             /\ target' = t /\ origin' = t.host
             /\ carries' = (carries /\ ~StripsHeaders(t.host))
             /\ fetchStep' = fetchStep
    BY <1>3
  <2>2. t.host \in Approved
    BY <2>1 DEF ValidTarget, HostAllowed
  <2>3. carries' \in BOOLEAN /\ (carries' => t.host = start.to.host)
    BY <2>1 DEF FetchInv, FetchTyped, HopIsSafe, StripsHeaders
  <2> QED
    BY <1>1, <2>1, <2>2, <2>3 DEF HopIsSafe
<1> QED
  BY <1>2, <1>3 DEF AnswerRedirect, Ends

\* Every step of a fetch keeps the invariant.
LEMMA FetchNextKeeps ==
  ASSUME FetchInv, [FetchNext]_fetchVars
  PROVE  FetchInv'
<1>1. CASE Fetch
  <2>1. start' = start /\ asked' = asked
    BY <1>1 DEF Fetch
  <2>2. target' \in Target /\ carries' \in BOOLEAN /\ HopIsSafe'
    BY <1>1, <2>1, AttemptIsSafe DEF Fetch
  <2> QED
    BY <2>1, <2>2 DEF FetchInv, FetchTyped, CredentialsStayHome
<1>2. CASE AnswerRedirect
  <2>1. asked' \in Seq(Request) /\ CredentialsStayHome' /\ start' = start
    BY <1>2, SentIsSafe DEF AnswerRedirect
  <2> QED
    BY <1>2, <2>1, RedirectIsSafe DEF FetchInv, FetchTyped
<1>3. CASE AnswerRefused \/ AnswerUnchanged \/ AnswerBody
  <2>1. /\ start' = start /\ target' = target /\ origin' = origin /\ carries' = carries
        /\ fetchStep' # "ask" /\ fetchStep = "ask" /\ Sent
    BY <1>3 DEF AnswerRefused, AnswerUnchanged, AnswerBody, Ends
  <2> QED
    BY <2>1, SentIsSafe, EndIsSafe DEF FetchInv, FetchTyped
<1>4. CASE AnswerTransient
  <2>1. start' = start /\ TryAgain
    BY <1>4 DEF AnswerTransient
  <2>2. asked' \in Seq(Request) /\ CredentialsStayHome'
    <3>1. CASE fetchStep = "ask" /\ Sent
      BY <3>1, <2>1, SentIsSafe
    <3>2. CASE asked' = asked
      BY <3>2, <2>1 DEF FetchInv, FetchTyped, CredentialsStayHome
    <3> QED
      BY <1>4, <3>1, <3>2 DEF AnswerTransient
  <2>3. target' \in Target /\ carries' \in BOOLEAN /\ HopIsSafe'
    BY <2>1, AttemptIsSafe, EndIsSafe DEF TryAgain, Ends
  <2> QED
    BY <2>1, <2>2, <2>3 DEF FetchInv, FetchTyped
<1>5. CASE ReadChunk \/ EndBody \/ ParseJson \/ ParseXml
  <2>1. /\ start' = start /\ target' = target /\ origin' = origin /\ carries' = carries
        /\ asked' = asked /\ fetchStep' # "ask"
    BY <1>5 DEF ReadChunk, EndBody, ParseJson, ParseXml, Ends
  <2> QED
    BY <2>1, EndIsSafe DEF FetchInv, FetchTyped, CredentialsStayHome
<1>6. CASE UNCHANGED fetchVars
  BY <1>6 DEF FetchInv, FetchTyped, HopIsSafe, CredentialsStayHome, fetchVars
<1> QED
  BY <1>1, <1>2, <1>3, <1>4, <1>5, <1>6 DEF FetchNext

\* Whatever the servers answer and however often the fetch is retried,
\* credentials reach only the host they were meant for, and no host that the
\* allowlist does not match is ever asked.
THEOREM CredentialsKept == FetchSpec => []CredentialsStayHome
<1>1. FetchInit => FetchInv
  BY FetchInitHolds
<1>2. FetchInv /\ [FetchNext]_fetchVars => FetchInv'
  BY FetchNextKeeps
<1>3. FetchInv => CredentialsStayHome
  BY DEF FetchInv
<1> QED
  BY <1>1, <1>2, <1>3, PTL DEF FetchSpec

-----------------------------------------------------------------------------
(* The bound on what one fetch sends.                                        *)

\* Retries start the chain of redirects over, so the two limits multiply: a
\* fetch sends at most MaxTries * (MaxRedirects + 1) requests.
RequestsBounded == Len(asked) <= MaxTries * (MaxRedirects + 1)

\* What a fetch has sent leaves room, in what its attempts may send, for the
\* redirects this attempt has left and for the hop about to be asked.
SentSoFar ==
  /\ asked \in Seq(Request)
  /\ attempts \in 0 .. MaxTries
  /\ hops \in 0 .. MaxRedirects
  /\ fetchStep = "idle" => attempts = 0
  /\ attempts = 0 => Len(asked) = 0
  /\ fetchStep = "ask" => attempts > 0
  /\ attempts > 0 =>
       Len(asked) + (MaxRedirects - hops) + (IF fetchStep = "ask" THEN 1 ELSE 0)
         <= attempts * (MaxRedirects + 1)

\* The factors of the bound.
LEMMA Limits == MaxRedirects \in Nat /\ MaxTries \in Nat \ {0}
  BY SafeFetchAssumption

\* More attempts make no smaller a bound, and one more makes it one chain
\* larger.
LEMMA AttemptsCount ==
  ASSUME NEW n \in Nat, n <= MaxTries
  PROVE  /\ n * (MaxRedirects + 1) \in Nat
         /\ n * (MaxRedirects + 1) <= MaxTries * (MaxRedirects + 1)
         /\ (n + 1) * (MaxRedirects + 1) = n * (MaxRedirects + 1) + (MaxRedirects + 1)
<1> DEFINE K == MaxRedirects + 1
<1>1. K \in Nat /\ MaxTries - n \in Nat /\ MaxTries \in Nat
  BY Limits
<1> HIDE DEF K
<1>2. (MaxTries - n) * K \in Nat /\ n * K \in Nat
  BY <1>1
<1>3. MaxTries * K = (MaxTries - n) * K + n * K
  BY <1>1
<1>4. (n + 1) * K = n * K + K
  BY <1>1
<1>5. n * K <= MaxTries * K
  BY <1>2, <1>3
<1> QED
  BY <1>2, <1>4, <1>5 DEF K

\* A new attempt has a chain of requests of its own.
LEMMA AttemptCounts ==
  ASSUME SentSoFar, BeginAttempt, attempts < MaxTries, asked' \in Seq(Request),
         Len(asked') <= attempts * (MaxRedirects + 1)
  PROVE  SentSoFar'
<1>1. /\ attempts \in Nat /\ attempts' = attempts + 1 /\ hops' = 0
      /\ fetchStep' \in {"ask", "ended"}
  BY Limits DEF SentSoFar, BeginAttempt, Ends
<1>2. /\ attempts * (MaxRedirects + 1) \in Nat
      /\ attempts' * (MaxRedirects + 1) = attempts * (MaxRedirects + 1) + (MaxRedirects + 1)
  BY <1>1, AttemptsCount, Limits
<1>3. Len(asked') + (MaxRedirects - hops') + (IF fetchStep' = "ask" THEN 1 ELSE 0)
        <= attempts' * (MaxRedirects + 1)
  BY <1>1, <1>2, Limits
<1>4. attempts' \in 0 .. MaxTries /\ attempts' > 0 /\ hops' \in 0 .. MaxRedirects
  BY <1>1, Limits
<1> QED
  BY <1>1, <1>3, <1>4 DEF SentSoFar

\* Sending adds one request.
LEMMA SentAddsOne ==
  ASSUME SentSoFar, FetchTyped, Sent
  PROVE  asked' \in Seq(Request) /\ Len(asked') = Len(asked) + 1
<1>1. [host |-> target.host, creds |-> carries] \in Request
  BY DEF FetchTyped, Target, Request
<1> QED
  BY <1>1 DEF SentSoFar, Sent

\* The count is inductive.
LEMMA SentKeeps ==
  ASSUME SentSoFar, FetchTyped, [FetchNext]_fetchVars
  PROVE  SentSoFar'
<1> DEFINE bound == attempts * (MaxRedirects + 1)
<1>a. /\ asked \in Seq(Request) /\ Len(asked) \in Nat
      /\ attempts \in Nat /\ attempts <= MaxTries /\ hops \in 0 .. MaxRedirects
  BY Limits DEF SentSoFar
<1>b. bound \in Nat
  BY <1>a, AttemptsCount
<1>c. attempts > 0 =>
        Len(asked) + (MaxRedirects - hops) + (IF fetchStep = "ask" THEN 1 ELSE 0) <= bound
  BY DEF SentSoFar
<1>1. CASE Fetch
  <2>1. BeginAttempt /\ attempts = 0 /\ asked' = asked /\ Len(asked) = 0
    BY <1>1 DEF Fetch, SentSoFar
  <2> QED
    BY <2>1, <1>a, AttemptCounts, Limits
<1>2. CASE AnswerRedirect
  <2>1. /\ attempts > 0 /\ attempts' = attempts /\ fetchStep = "ask"
        /\ asked' \in Seq(Request) /\ Len(asked') = Len(asked) + 1
    BY <1>2, SentAddsOne DEF AnswerRedirect, SentSoFar
  <2>2. \/ fetchStep' = "ended" /\ hops' = hops
        \/ fetchStep' = "ask" /\ hops < MaxRedirects /\ hops' = hops + 1
    BY <1>2 DEF AnswerRedirect, Ends
  <2>3. Len(asked') + (MaxRedirects - hops') + (IF fetchStep' = "ask" THEN 1 ELSE 0) <= bound
    BY <2>1, <2>2, <1>a, <1>b, <1>c, Limits
  <2> QED
    BY <2>1, <2>2, <2>3, <1>a, Limits DEF SentSoFar
<1>3. CASE AnswerRefused \/ AnswerUnchanged \/ AnswerBody
  <2>1. /\ attempts > 0 /\ attempts' = attempts /\ hops' = hops /\ fetchStep = "ask"
        /\ asked' \in Seq(Request) /\ Len(asked') = Len(asked) + 1
        /\ fetchStep' \notin {"ask", "idle"}
    BY <1>3, SentAddsOne DEF AnswerRefused, AnswerUnchanged, AnswerBody, SentSoFar, Ends
  <2>2. Len(asked') + (MaxRedirects - hops') + (IF fetchStep' = "ask" THEN 1 ELSE 0) <= bound
    BY <2>1, <1>a, <1>b, <1>c, Limits
  <2> QED
    BY <2>1, <2>2, <1>a DEF SentSoFar
<1>4. CASE AnswerTransient
  <2>1. asked' \in Seq(Request) /\ Len(asked') \in Nat /\ Len(asked') <= bound
    <3>1. CASE fetchStep = "ask" /\ Sent
      <4>1. attempts > 0 /\ asked' \in Seq(Request) /\ Len(asked') = Len(asked) + 1
        BY <3>1, SentAddsOne DEF SentSoFar
      <4> QED
        BY <3>1, <4>1, <1>a, <1>b, <1>c, Limits
    <3>2. CASE asked' = asked
      <4>1. attempts = 0 => Len(asked) = 0
        BY DEF SentSoFar
      <4> QED
        BY <3>2, <4>1, <1>a, <1>b, <1>c, Limits
    <3> QED
      BY <1>4, <3>1, <3>2 DEF AnswerTransient
  <2>2. CASE attempts < MaxTries /\ BeginAttempt
    BY <2>1, <2>2, AttemptCounts
  <2>3. CASE attempts = MaxTries /\ fetchStep' = "ended" /\ hops' = hops /\ attempts' = attempts
    <3>1. attempts > 0
      BY <2>3, <1>a, Limits
    <3>2. Len(asked') + (MaxRedirects - hops') <= bound
      <4>1. CASE fetchStep = "ask" /\ Sent
        <5>1. Len(asked') = Len(asked) + 1
          BY <4>1, SentAddsOne
        <5> QED
          BY <2>3, <3>1, <4>1, <5>1, <1>a, <1>b, <1>c, Limits
      <4>2. CASE fetchStep = "read" /\ asked' = asked
        BY <2>3, <3>1, <4>2, <1>a, <1>b, <1>c, Limits
      <4> QED
        BY <1>4, <4>1, <4>2 DEF AnswerTransient
    <3>3. /\ attempts' > 0 /\ attempts' \in 0 .. MaxTries /\ hops' \in 0 .. MaxRedirects
          /\ attempts' * (MaxRedirects + 1) = bound
      BY <2>3, <3>1, <1>a
    <3>4. Len(asked') + (MaxRedirects - hops') + (IF fetchStep' = "ask" THEN 1 ELSE 0) <= bound
      BY <2>1, <2>3, <3>2, <3>3, Limits
    <3> HIDE DEF bound
    <3> QED
      BY <2>1, <2>3, <3>3, <3>4 DEF SentSoFar
  <2> QED
    BY <1>4, <2>2, <2>3 DEF AnswerTransient, TryAgain, Ends
<1>5. CASE ReadChunk \/ EndBody \/ ParseJson \/ ParseXml \/ UNCHANGED fetchVars
  <2>1. /\ attempts' = attempts /\ hops' = hops /\ asked' = asked
        /\ fetchStep' = fetchStep \/ fetchStep' \in {"read", "parse", "ended"}
    BY <1>5 DEF ReadChunk, EndBody, ParseJson, ParseXml, Ends, fetchVars
  <2> QED
    BY <2>1, <1>a, <1>b, Limits DEF SentSoFar
<1> QED
  BY <1>1, <1>2, <1>3, <1>4, <1>5 DEF FetchNext

\* However the servers redirect and fail, one fetch sends no more requests
\* than its two limits allow together.
THEOREM FetchIsBounded == FetchSpec => []RequestsBounded
<1>1. FetchInit => FetchInv /\ SentSoFar
  <2>1. FetchInit => SentSoFar
    BY Limits DEF FetchInit, SentSoFar
  <2> QED
    BY <2>1, FetchInitHolds
<1>2. FetchInv /\ SentSoFar /\ [FetchNext]_fetchVars => (FetchInv /\ SentSoFar)'
  BY FetchNextKeeps, SentKeeps DEF FetchInv
<1>3. SentSoFar => RequestsBounded
  <2> SUFFICES ASSUME SentSoFar PROVE RequestsBounded
    OBVIOUS
  <2>1. attempts \in Nat /\ attempts <= MaxTries /\ Len(asked) \in Nat /\ hops \in 0 .. MaxRedirects
    BY Limits DEF SentSoFar
  <2>2. /\ attempts * (MaxRedirects + 1) \in Nat
        /\ attempts * (MaxRedirects + 1) <= MaxTries * (MaxRedirects + 1)
    BY <2>1, AttemptsCount
  <2>3. MaxTries * (MaxRedirects + 1) \in Nat
    BY Limits
  <2>4. Len(asked) <= attempts * (MaxRedirects + 1)
    BY <2>1, <2>2, Limits DEF SentSoFar
  <2> QED
    BY <2>1, <2>2, <2>3, <2>4 DEF RequestsBounded
<1> QED
  BY <1>1, <1>2, <1>3, PTL DEF FetchSpec

-----------------------------------------------------------------------------
(* The depth scan.                                                          *)

\* The members of X among the first n naturals.
UpTo(n, X) == {k \in 1..n : k \in X}

\* They are counted one by one.
LEMMA CountStep ==
  ASSUME NEW n \in Nat \ {0}, NEW X
  PROVE  /\ Cardinality(UpTo(n, X)) \in Nat /\ Cardinality(UpTo(n - 1, X)) \in Nat
         /\ Cardinality(UpTo(n, X)) = Cardinality(UpTo(n - 1, X)) + (IF n \in X THEN 1 ELSE 0)
         /\ Cardinality(UpTo(0, X)) = 0
<1>1. IsFiniteSet(UpTo(n - 1, X)) /\ Cardinality(UpTo(n - 1, X)) \in Nat
  <2>1. IsFiniteSet(1..(n - 1))
    <3>1. 1 \in Int /\ n - 1 \in Int
      OBVIOUS
    <3> QED
      BY <3>1, FS_Interval
  <2>2. UpTo(n - 1, X) \subseteq 1..(n - 1)
    BY DEF UpTo
  <2> QED
    BY <2>1, <2>2, FS_Subset, FS_CardinalityType
<1>2. n \notin UpTo(n - 1, X) /\ UpTo(0, X) = {}
  BY DEF UpTo
<1>3. UpTo(n, X) = IF n \in X THEN UpTo(n - 1, X) \cup {n} ELSE UpTo(n - 1, X)
  BY DEF UpTo
<1>4. Cardinality(UpTo(n - 1, X) \cup {n}) = Cardinality(UpTo(n - 1, X)) + 1
  BY <1>1, <1>2, FS_AddElement
<1>5. Cardinality(UpTo(0, X)) = 0
  BY <1>2, FS_EmptySet
<1> QED
  BY <1>1, <1>3, <1>4, <1>5

\* The run of backslashes before a position.
LEMMA EscapesStep ==
  ASSUME NEW text, NEW n \in Nat \ {0}
  PROVE  /\ EscapesBefore(text, n) \in Nat /\ EscapesBefore(text, 1) = 0
         /\ EscapesBefore(text, n + 1) =
              IF text[n] = "escape" THEN EscapesBefore(text, n) + 1 ELSE 0
<1> DEFINE R(m) == {k \in 1 .. m - 1 : \A j \in k .. m - 1 : text[j] = "escape"}
<1>1. IsFiniteSet(R(n)) /\ Cardinality(R(n)) \in Nat
  <2>1. IsFiniteSet(1..(n - 1))
    <3>1. 1 \in Int /\ n - 1 \in Int
      OBVIOUS
    <3> QED
      BY <3>1, FS_Interval
  <2>2. R(n) \subseteq 1..(n - 1)
    OBVIOUS
  <2> QED
    BY <2>1, <2>2, FS_Subset, FS_CardinalityType
<1>2. R(1) = {}
  OBVIOUS
<1>3. n \notin R(n)
  OBVIOUS
<1>4. CASE text[n] = "escape"
  <2>1. R(n + 1) = R(n) \cup {n}
    <3>1. ASSUME NEW k \in R(n + 1) PROVE k \in R(n) \cup {n}
      <4>1. k \in 1..n /\ \A j \in k..n : text[j] = "escape"
        OBVIOUS
      <4>2. k # n => k \in 1..(n - 1)
        BY <4>1
      <4>3. \A j \in k..(n - 1) : j \in k..n
        BY <4>1
      <4> QED
        BY <4>1, <4>2, <4>3
    <3>2. ASSUME NEW k \in R(n) PROVE k \in R(n + 1)
      <4>1. k \in 1..(n - 1) /\ \A j \in k..(n - 1) : text[j] = "escape"
        OBVIOUS
      <4>2. \A j \in k..n : j = n \/ j \in k..(n - 1)
        BY <4>1
      <4>3. k \in 1..((n + 1) - 1) /\ (n + 1) - 1 = n
        BY <4>1
      <4> QED
        BY <1>4, <4>1, <4>2, <4>3
    <3>3. n \in R(n + 1)
      <4>1. \A j \in n..n : j = n
        OBVIOUS
      <4>2. n \in 1..((n + 1) - 1) /\ (n + 1) - 1 = n
        OBVIOUS
      <4> QED
        BY <1>4, <4>1, <4>2
    <3> QED
      BY <3>1, <3>2, <3>3
  <2> HIDE DEF R
  <2>2. Cardinality(R(n + 1)) = Cardinality(R(n)) + 1
    BY <1>1, <1>3, <2>1, FS_AddElement
  <2> QED
    BY <1>1, <1>2, <1>4, <2>2, FS_EmptySet DEF EscapesBefore, R
<1>5. CASE text[n] # "escape"
  <2>1. R(n + 1) = {}
    <3> SUFFICES ASSUME NEW k \in R(n + 1) PROVE FALSE
      OBVIOUS
    <3>1. k \in 1..n /\ \A j \in k..n : text[j] = "escape"
      OBVIOUS
    <3>2. n \in k..n
      BY <3>1
    <3> QED
      BY <1>5, <3>1, <3>2
  <2> QED
    BY <1>1, <1>2, <1>5, <2>1, FS_EmptySet DEF EscapesBefore
<1> QED
  BY <1>4, <1>5

\* A quote that is not escaped opens or closes a string.
LEMMA InStringStep ==
  ASSUME NEW text, NEW n \in Nat \ {0}
  PROVE  /\ ~InString(text, 1)
         /\ InString(text, n + 1) <=>
              (InString(text, n) <=> ~(text[n] = "quote" /\ EscapesBefore(text, n) % 2 = 0))
<1>0. PICK X : X = {k \in Nat : text[k] = "quote" /\ EscapesBefore(text, k) % 2 = 0}
  OBVIOUS
<1>1. ASSUME NEW m \in Nat \ {0}
      PROVE  InString(text, m) <=> Cardinality(UpTo(m - 1, X)) % 2 = 1
  <2>1. \A k \in 1..(m - 1) : k \in Nat
    BY <1>1
  <2>2. {k \in 1 .. m - 1 : text[k] = "quote" /\ EscapesBefore(text, k) % 2 = 0} = UpTo(m - 1, X)
    BY <1>0, <2>1 DEF UpTo
  <2> QED
    BY <2>2 DEF InString
<1>2. /\ Cardinality(UpTo(n, X)) \in Nat /\ Cardinality(UpTo(n - 1, X)) \in Nat
      /\ Cardinality(UpTo(n, X)) = Cardinality(UpTo(n - 1, X)) + (IF n \in X THEN 1 ELSE 0)
      /\ Cardinality(UpTo(0, X)) = 0
  BY CountStep
<1>3. n \in X <=> text[n] = "quote" /\ EscapesBefore(text, n) % 2 = 0
  BY <1>0
<1>4. InString(text, n) <=> Cardinality(UpTo(n - 1, X)) % 2 = 1
  BY <1>1
<1>5. InString(text, n + 1) <=> Cardinality(UpTo(n, X)) % 2 = 1
  <2>1. n + 1 \in Nat \ {0} /\ (n + 1) - 1 = n
    OBVIOUS
  <2>2. InString(text, n + 1) <=> Cardinality(UpTo((n + 1) - 1, X)) % 2 = 1
    BY <1>1, <2>1
  <2> QED
    BY <2>1, <2>2
<1>6. ~InString(text, 1)
  <2>1. 1 \in Nat \ {0} /\ 1 - 1 = 0
    OBVIOUS
  <2>2. InString(text, 1) <=> Cardinality(UpTo(1 - 1, X)) % 2 = 1
    BY <1>1, <2>1
  <2> QED
    BY <1>2, <2>1, <2>2
<1>7. Cardinality(UpTo(n, X)) % 2 = 1 <=> (Cardinality(UpTo(n - 1, X)) % 2 = 1 <=> n \notin X)
  <2>1. \A c \in Nat : (c + 1) % 2 = 1 <=> c % 2 # 1
    OBVIOUS
  <2>2. PICK c \in Nat : c = Cardinality(UpTo(n - 1, X))
    BY <1>2
  <2> QED
    BY <1>2, <2>1, <2>2
<1> QED
  BY <1>3, <1>4, <1>5, <1>6, <1>7

\* Brackets of one kind outside strings, counted one by one.
LEMMA BracketsStep ==
  ASSUME NEW text, NEW n \in Nat \ {0}, NEW c
  PROVE  /\ Brackets(text, n, c) \in Nat /\ Brackets(text, n - 1, c) \in Nat
         /\ Brackets(text, n, c) =
              Brackets(text, n - 1, c) + (IF text[n] = c /\ ~InString(text, n) THEN 1 ELSE 0)
         /\ Brackets(text, 0, c) = 0
<1>0. PICK X : X = {k \in Nat : text[k] = c /\ ~InString(text, k)}
  OBVIOUS
<1>1. ASSUME NEW m \in Nat PROVE Brackets(text, m, c) = Cardinality(UpTo(m, X))
  <2>1. \A k \in 1..m : k \in Nat
    BY <1>1
  <2>2. {k \in 1 .. m : text[k] = c /\ ~InString(text, k)} = UpTo(m, X)
    BY <1>0, <2>1 DEF UpTo
  <2> QED
    BY <2>2 DEF Brackets
<1>2. /\ Cardinality(UpTo(n, X)) \in Nat /\ Cardinality(UpTo(n - 1, X)) \in Nat
      /\ Cardinality(UpTo(n, X)) = Cardinality(UpTo(n - 1, X)) + (IF n \in X THEN 1 ELSE 0)
      /\ Cardinality(UpTo(0, X)) = 0
  BY CountStep
<1>3. n \in X <=> text[n] = c /\ ~InString(text, n)
  BY <1>0
<1>4. /\ Brackets(text, n, c) = Cardinality(UpTo(n, X))
      /\ Brackets(text, n - 1, c) = Cardinality(UpTo(n - 1, X))
      /\ Brackets(text, 0, c) = Cardinality(UpTo(0, X))
  <2>1. n \in Nat /\ n - 1 \in Nat /\ 0 \in Nat
    OBVIOUS
  <2> QED
    BY <1>1, <2>1
<1> QED
  BY <1>2, <1>3, <1>4

\* So the nesting moves by one at such a bracket, and nowhere else.
LEMMA NestingStep ==
  ASSUME NEW text, NEW n \in Nat \ {0}
  PROVE  /\ Nesting(text, n) \in Int /\ Nesting(text, n - 1) \in Int /\ Nesting(text, 0) = 0
         /\ InString(text, n) \/ text[n] \notin {"open", "close"} =>
              Nesting(text, n) = Nesting(text, n - 1)
         /\ ~InString(text, n) /\ text[n] = "open" => Nesting(text, n) = Nesting(text, n - 1) + 1
         /\ ~InString(text, n) /\ text[n] = "close" => Nesting(text, n) = Nesting(text, n - 1) - 1
<1>1. /\ Brackets(text, n, "open") \in Nat /\ Brackets(text, n - 1, "open") \in Nat
      /\ Brackets(text, n, "open") = Brackets(text, n - 1, "open") +
           (IF text[n] = "open" /\ ~InString(text, n) THEN 1 ELSE 0)
      /\ Brackets(text, 0, "open") = 0
  BY BracketsStep
<1>2. /\ Brackets(text, n, "close") \in Nat /\ Brackets(text, n - 1, "close") \in Nat
      /\ Brackets(text, n, "close") = Brackets(text, n - 1, "close") +
           (IF text[n] = "close" /\ ~InString(text, n) THEN 1 ELSE 0)
      /\ Brackets(text, 0, "close") = 0
  BY BracketsStep
<1> QED
  BY <1>1, <1>2 DEF Nesting

\* What the scan knows after n characters of a document whose backslashes are
\* all inside strings.
Scanned(text, n, s) ==
  /\ s \in [inString : BOOLEAN, escaped : BOOLEAN, depth : Int, deep : BOOLEAN]
  /\ s.inString <=> InString(text, n + 1)
  /\ s.escaped <=> EscapesBefore(text, n + 1) % 2 = 1
  /\ ~s.inString => EscapesBefore(text, n + 1) = 0
  /\ s.depth = Nesting(text, n)
  /\ s.deep <=> \E m \in 1..n : Nesting(text, m) > MaxDepth

\* One character more.
LEMMA ScanStep ==
  ASSUME NEW text \in Seq(Char), NEW n \in 1..Len(text),
         \A k \in DOMAIN text : text[k] = "escape" => InString(text, k),
         NEW s, Scanned(text, n - 1, s)
  PROVE  Scanned(text, n, ScanChar(s, text[n]))
<1> DEFINE c == text[n]
           r == ScanChar(s, c)
<1>1. n \in Nat \ {0} /\ n \in DOMAIN text /\ c \in Char /\ (n - 1) + 1 = n
  OBVIOUS
<1>2. /\ s \in [inString : BOOLEAN, escaped : BOOLEAN, depth : Int, deep : BOOLEAN]
      /\ s.inString <=> InString(text, n)
      /\ s.escaped <=> EscapesBefore(text, n) % 2 = 1
      /\ ~s.inString => EscapesBefore(text, n) = 0
      /\ s.depth = Nesting(text, n - 1)
      /\ s.deep <=> \E m \in 1..(n - 1) : Nesting(text, m) > MaxDepth
  BY <1>1 DEF Scanned
<1>3. c = "escape" => s.inString
  BY <1>1, <1>2
<1>4. /\ EscapesBefore(text, n) \in Nat
      /\ EscapesBefore(text, n + 1) = IF c = "escape" THEN EscapesBefore(text, n) + 1 ELSE 0
  BY <1>1, EscapesStep
<1>5. InString(text, n + 1) <=>
        (s.inString <=> ~(c = "quote" /\ EscapesBefore(text, n) % 2 = 0))
  BY <1>1, <1>2, InStringStep
<1>6. /\ Nesting(text, n) \in Int /\ Nesting(text, n - 1) \in Int
      /\ s.inString \/ c \notin {"open", "close"} => Nesting(text, n) = Nesting(text, n - 1)
      /\ ~s.inString /\ c = "open" => Nesting(text, n) = Nesting(text, n - 1) + 1
      /\ ~s.inString /\ c = "close" => Nesting(text, n) = Nesting(text, n - 1) - 1
  <2>1. /\ Nesting(text, n) \in Int /\ Nesting(text, n - 1) \in Int
        /\ InString(text, n) \/ text[n] \notin {"open", "close"} =>
             Nesting(text, n) = Nesting(text, n - 1)
        /\ ~InString(text, n) /\ text[n] = "open" => Nesting(text, n) = Nesting(text, n - 1) + 1
        /\ ~InString(text, n) /\ text[n] = "close" => Nesting(text, n) = Nesting(text, n - 1) - 1
    BY <1>1, NestingStep
  <2> QED
    BY <1>2, <2>1
<1>7. /\ r \in [inString : BOOLEAN, escaped : BOOLEAN, depth : Int, deep : BOOLEAN]
      /\ r.inString <=> \/ s.inString /\ (s.escaped \/ c # "quote")
                        \/ ~s.inString /\ c = "quote"
      /\ r.escaped <=> IF s.inString THEN ~s.escaped /\ c = "escape" ELSE s.escaped
      /\ r.depth = IF s.inString \/ c \notin {"open", "close"} THEN s.depth
                   ELSE IF c = "open" THEN s.depth + 1 ELSE s.depth - 1
      /\ r.deep <=> s.deep \/ (~s.inString /\ c = "open" /\ s.depth + 1 > MaxDepth)
  <2>1. CASE s.inString /\ s.escaped
    BY <1>2, <2>1 DEF ScanChar
  <2>2. CASE s.inString /\ ~s.escaped
    BY <1>2, <2>2 DEF ScanChar
  <2>3. CASE ~s.inString /\ c = "quote"
    BY <1>2, <2>3 DEF ScanChar
  <2>4. CASE ~s.inString /\ c = "open"
    <3>1. r = [s EXCEPT !.depth = s.depth + 1, !.deep = s.deep \/ s.depth + 1 > MaxDepth]
      BY <2>4 DEF ScanChar
    <3>2. PICK d \in BOOLEAN : d <=> s.deep \/ s.depth + 1 > MaxDepth
      OBVIOUS
    <3>3. r = [s EXCEPT !.depth = s.depth + 1, !.deep = d]
      BY <3>1, <3>2
    <3> HIDE DEF r
    <3>4. /\ r.inString = s.inString /\ r.escaped = s.escaped
          /\ r.depth = s.depth + 1 /\ r.deep = d
      BY <1>2, <3>3
    <3>5. r \in [inString : BOOLEAN, escaped : BOOLEAN, depth : Int, deep : BOOLEAN]
      <4>1. s \in [inString : BOOLEAN, escaped : BOOLEAN, depth : Int, deep : BOOLEAN]
        BY <1>2
      <4>2. s.depth + 1 \in Int
        BY <4>1
      <4>3. d \in BOOLEAN
        BY <3>2
      <4> QED
        BY <3>3, <4>1, <4>2, <4>3
    <3> QED
      BY <2>4, <3>2, <3>4, <3>5
  <2>5. CASE ~s.inString /\ c = "close"
    BY <1>2, <2>5 DEF ScanChar
  <2>6. CASE ~s.inString /\ c \notin {"quote", "open", "close"}
    BY <1>2, <2>6 DEF ScanChar
  <2> QED
    BY <2>1, <2>2, <2>3, <2>4, <2>5, <2>6
<1> HIDE DEF c, r
<1>8. \A e \in Nat : (e % 2 = 0 <=> e % 2 # 1) /\ ((e + 1) % 2 = 1 <=> e % 2 # 1) /\ 0 % 2 = 0
  OBVIOUS
<1>9. r.inString <=> InString(text, n + 1)
  <2>1. EscapesBefore(text, n) % 2 = 0 <=> ~s.escaped
    BY <1>2, <1>4, <1>8
  <2>2. ~s.inString => EscapesBefore(text, n) % 2 = 0
    BY <1>2, <1>8
  <2> QED
    BY <1>5, <1>7, <2>1, <2>2
<1>10. r.escaped <=> EscapesBefore(text, n + 1) % 2 = 1
  <2>1. CASE c = "escape"
    BY <1>2, <1>3, <1>4, <1>7, <1>8, <2>1
  <2>2. CASE c # "escape"
    <3>1. EscapesBefore(text, n + 1) % 2 # 1
      BY <1>4, <1>8, <2>2
    <3>2. s.inString \/ ~s.escaped
      BY <1>2, <1>8
    <3> QED
      BY <1>7, <2>2, <3>1, <3>2
  <2> QED
    BY <2>1, <2>2
<1>11. ~r.inString => EscapesBefore(text, n + 1) = 0
  BY <1>3, <1>4, <1>7
<1>12. r.depth = Nesting(text, n)
  BY <1>2, <1>6, <1>7
<1>13. r.deep <=> \E m \in 1..n : Nesting(text, m) > MaxDepth
  <2>1. MaxDepth \in Nat
    BY SafeFetchAssumption
  <2>2. \A m \in 1..n : m = n \/ m \in 1..(n - 1)
    BY <1>1
  <2>3. \A m \in 1..(n - 1) : m \in 1..n
    BY <1>1
  <2>4. n \in 1..n
    BY <1>1
  <2>5. Nesting(text, n) > MaxDepth => s.deep \/ (~s.inString /\ c = "open" /\ s.depth + 1 > MaxDepth)
    <3>1. CASE ~s.inString /\ c = "open"
      BY <1>2, <1>6, <3>1
    <3>2. CASE s.inString \/ c # "open"
      <4> SUFFICES ASSUME Nesting(text, n) > MaxDepth PROVE s.deep
        BY <3>2
      <4>1. Nesting(text, n - 1) > MaxDepth
        BY <1>6, <2>1, <3>2
      <4>2. n - 1 # 0
        <5>1. Nesting(text, 0) = 0
          BY <1>1, NestingStep
        <5> QED
          BY <2>1, <4>1, <5>1
      <4>3. n - 1 \in 1..(n - 1)
        BY <1>1, <4>2
      <4> QED
        BY <1>2, <4>1, <4>3
    <3> QED
      BY <3>1, <3>2
  <2>6. ~s.inString /\ c = "open" /\ s.depth + 1 > MaxDepth => Nesting(text, n) > MaxDepth
    BY <1>2, <1>6
  <2> QED
    BY <1>2, <1>7, <2>2, <2>3, <2>4, <2>5, <2>6
<1> QED
  BY <1>7, <1>9, <1>10, <1>11, <1>12, <1>13 DEF Scanned, c, r

\* f is the scan of the first m characters.
Scans(text, m, f) ==
  f = [n \in 0..m |-> IF n = 0 THEN [inString |-> FALSE, escaped |-> FALSE, depth |-> 0, deep |-> FALSE]
                      ELSE ScanChar(f[n - 1], text[n])]

\* There is one for every document, built up character by character.
LEMMA ScanExists ==
  ASSUME NEW text, NEW n \in Nat
  PROVE  \E f : Scans(text, n, f)
<1> DEFINE T == {m \in Nat : ~\E f : Scans(text, m, f)}
<1>1. T = {}
  <2> SUFFICES ASSUME T # {} PROVE FALSE
    OBVIOUS
  <2>0. T \in SUBSET Nat
    OBVIOUS
  <2> HIDE DEF T
  <2>1. PICK m \in T : \A k \in T : m <= k
    BY <2>0, Least
  <2>2. m \in Nat /\ ~\E f : Scans(text, m, f)
    BY DEF T
  <2>3. m # 0
    <3> DEFINE z == [k \in 0..0 |->
                       [inString |-> FALSE, escaped |-> FALSE, depth |-> 0, deep |-> FALSE]]
    <3>1. Scans(text, 0, z)
      BY DEF Scans
    <3> QED
      BY <2>2, <3>1
  <2>4. m - 1 \in Nat /\ m - 1 \notin T
    BY <2>0, <2>1, <2>2, <2>3
  <2>5. PICK f : Scans(text, m - 1, f)
    BY <2>4 DEF T
  <2> DEFINE g == [k \in 0..m |-> IF k = m THEN ScanChar(f[m - 1], text[m]) ELSE f[k]]
  <2>6. ASSUME NEW k \in 0..m
        PROVE  g[k] = IF k = 0
                      THEN [inString |-> FALSE, escaped |-> FALSE, depth |-> 0, deep |-> FALSE]
                      ELSE ScanChar(g[k - 1], text[k])
    <3>1. CASE k = m
      <4>1. m - 1 \in 0..m /\ m - 1 # m
        BY <2>2, <2>3
      <4> QED
        BY <2>3, <3>1, <4>1
    <3>2. CASE k # m
      <4>1. k \in 0..(m - 1) /\ (k # 0 => k - 1 \in 0..m /\ k - 1 # m)
        BY <2>2, <3>2
      <4>2. f[k] = IF k = 0
                   THEN [inString |-> FALSE, escaped |-> FALSE, depth |-> 0, deep |-> FALSE]
                   ELSE ScanChar(f[k - 1], text[k])
        BY <2>5, <4>1 DEF Scans
      <4>3. g[k] = f[k] /\ (k # 0 => g[k - 1] = f[k - 1])
        BY <3>2, <4>1
      <4> QED
        BY <4>2, <4>3
    <3> QED
      BY <3>1, <3>2
  <2>7. Scans(text, m, g)
    BY <2>6 DEF Scans
  <2> QED
    BY <2>2, <2>7
<1> QED
  BY <1>1

\* So a document is found too deep exactly when its brackets nest too deep.
LEMMA DepthScanned ==
  ASSUME NEW text \in Seq(Char),
         \A k \in DOMAIN text : text[k] = "escape" => InString(text, k)
  PROVE  ~JsonDepthOk(text) <=> \E n \in DOMAIN text : Nesting(text, n) > MaxDepth
<1>1. Len(text) \in Nat /\ DOMAIN text = 1..Len(text)
  OBVIOUS
<1>2. PICK f : Scans(text, Len(text), f) /\ (JsonDepthOk(text) <=> ~f[Len(text)].deep)
  <2> DEFINE h == CHOOSE f : Scans(text, Len(text), f)
  <2>1. Scans(text, Len(text), h)
    BY <1>1, ScanExists
  <2>2. JsonDepthOk(text) <=> ~h[Len(text)].deep
    BY DEF JsonDepthOk, Scans
  <2> QED
    BY <2>1, <2>2
<1>3. /\ f[0] = [inString |-> FALSE, escaped |-> FALSE, depth |-> 0, deep |-> FALSE]
      /\ \A n \in 1..Len(text) : f[n] = ScanChar(f[n - 1], text[n])
  <2>1. 0 \in 0..Len(text) /\ \A n \in 1..Len(text) : n \in 0..Len(text) /\ n # 0
    BY <1>1
  <2> QED
    BY <1>2, <2>1 DEF Scans
<1> DEFINE T == {n \in 0..Len(text) : ~Scanned(text, n, f[n])}
<1>4. T = {}
  <2> SUFFICES ASSUME T # {} PROVE FALSE
    OBVIOUS
  <2>0. T \in SUBSET Nat
    BY <1>1
  <2>1. PICK m \in T : \A k \in T : m <= k
    <3> HIDE DEF T
    <3> QED
      BY <2>0, Least
  <2>2. m \in 0..Len(text) /\ ~Scanned(text, m, f[m])
    OBVIOUS
  <2>3. m # 0
    <3>1. /\ ~InString(text, 1) /\ EscapesBefore(text, 1) = 0 /\ Nesting(text, 0) = 0
      <4>1. 1 \in Nat \ {0}
        OBVIOUS
      <4> QED
        BY <4>1, InStringStep, EscapesStep, NestingStep
    <3>2. 0 + 1 = 1 /\ 0 % 2 # 1 /\ ~\E k \in 1..0 : TRUE
      OBVIOUS
    <3>3. Scanned(text, 0, f[0])
      <4>1. /\ f[0].inString = FALSE /\ f[0].escaped = FALSE /\ f[0].depth = 0 /\ f[0].deep = FALSE
            /\ f[0] \in [inString : BOOLEAN, escaped : BOOLEAN, depth : Int, deep : BOOLEAN]
        BY <1>3
      <4> QED
        BY <3>1, <3>2, <4>1 DEF Scanned
    <3> QED
      BY <2>2, <3>3
  <2>4. m \in 1..Len(text) /\ m - 1 \in 0..Len(text) /\ ~(m <= m - 1)
    BY <1>1, <2>2, <2>3
  <2>5. Scanned(text, m - 1, f[m - 1])
    BY <2>1, <2>4
  <2>6. Scanned(text, m, ScanChar(f[m - 1], text[m]))
    BY <2>4, <2>5, ScanStep
  <2> QED
    BY <1>3, <2>2, <2>4, <2>6
<1>5. Scanned(text, Len(text), f[Len(text)])
  <2>1. Len(text) \in 0..Len(text)
    BY <1>1
  <2> QED
    BY <1>4, <2>1
<1> QED
  BY <1>1, <1>2, <1>5 DEF Scanned

-----------------------------------------------------------------------------

\* Only the JSON parser says "too deep", and it says so by the scan of what it
\* was given.
DepthInv ==
  \/ parsed = <<>> /\ result # "too deep"
  \/ /\ parsed \in Documents /\ fetchStep = "ended"
     /\ result = "too deep" <=> ~JsonDepthOk(parsed)

\* A document whose backslashes are all inside strings is refused for its
\* nesting exactly when its brackets outside strings nest deeper than the limit:
\* _json_depth_ok's single pass with its two flags agrees with the definition of
\* nesting, for every document and every limit.
THEOREM DepthIsNestingHolds == FetchSpec => []DepthIsNesting
<1>1. FetchInit => DepthInv
  BY DEF FetchInit, DepthInv
<1>2. DepthInv /\ [FetchNext]_fetchVars => DepthInv'
  <2> SUFFICES ASSUME DepthInv, [FetchNext]_fetchVars PROVE DepthInv'
    OBVIOUS
  <2>1. ASSUME fetchStep # "ended", UNCHANGED parsed, UNCHANGED result \/ result' # "too deep"
        PROVE  DepthInv'
    BY <2>1 DEF DepthInv
  <2> USE DEF Ends
  <2>2. CASE Fetch
    BY <2>1, <2>2 DEF Fetch, BeginAttempt
  <2>3. CASE AnswerRedirect
    BY <2>1, <2>3 DEF AnswerRedirect
  <2>4. CASE AnswerRefused
    BY <2>1, <2>4 DEF AnswerRefused
  <2>5. CASE AnswerTransient
    BY <2>1, <2>5 DEF AnswerTransient, TryAgain, BeginAttempt
  <2>6. CASE AnswerUnchanged
    BY <2>1, <2>6 DEF AnswerUnchanged
  <2>7. CASE AnswerBody
    BY <2>1, <2>7 DEF AnswerBody
  <2>8. CASE ReadChunk
    BY <2>1, <2>8 DEF ReadChunk
  <2>9. CASE EndBody
    BY <2>1, <2>9 DEF EndBody
  <2>10. CASE ParseJson
    <3>1. PICK text \in Documents :
            /\ parsed' = text /\ fetchStep' = "ended"
            /\ IF JsonDepthOk(text) THEN result' = "parsed" \/ result' = "parse error"
               ELSE result' = "too deep"
      BY <2>10 DEF ParseJson
    <3> QED
      BY <3>1 DEF DepthInv
  <2>11. CASE ParseXml
    BY <2>1, <2>11 DEF ParseXml
  <2>12. CASE UNCHANGED fetchVars
    BY <2>12 DEF DepthInv, fetchVars
  <2> QED
    BY <2>2, <2>3, <2>4, <2>5, <2>6, <2>7, <2>8, <2>9, <2>10, <2>11, <2>12 DEF FetchNext
<1>3. DepthInv => DepthIsNesting
  <2> SUFFICES ASSUME DepthInv, fetchStep = "ended",
                      \A n \in DOMAIN parsed : parsed[n] = "escape" => InString(parsed, n)
               PROVE  result = "too deep" <=> \E n \in DOMAIN parsed : Nesting(parsed, n) > MaxDepth
    BY DEF DepthIsNesting
  <2>1. CASE parsed = <<>> /\ result # "too deep"
    <3>1. DOMAIN parsed = {}
      <4>1. DOMAIN <<>> = {}
        OBVIOUS
      <4> QED
        BY <2>1, <4>1
    <3> QED
      BY <2>1, <3>1
  <2>2. CASE parsed \in Documents /\ (result = "too deep" <=> ~JsonDepthOk(parsed))
    <3>1. parsed \in Seq(Char)
      BY <2>2, SafeFetchAssumption
    <3> QED
      BY <2>2, <3>1, DepthScanned
  <2> QED
    BY <2>1, <2>2 DEF DepthInv
<1> QED
  BY <1>1, <1>2, <1>3, PTL DEF FetchSpec

=============================================================================
