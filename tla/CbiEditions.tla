---------------------------- MODULE CbiEditions -----------------------------
(***************************************************************************)
(* The Central Bank of Iran's monthly editions (app/economic/cbi.py):      *)
(* workbooks found on the bank's website and ingested oldest first, each   *)
(* in a transaction of its own, under one lock for the service.  Every     *)
(* edition prints its own month and restates an older one, last Esfand,    *)
(* whose vintages are followed here; the own months are present exactly    *)
(* for the editions stored.                                                *)
(***************************************************************************)
EXTENDS Naturals, Sequences, FiniteSetsExt

CONSTANTS
  LastEdition,   \* editions are 1..LastEdition, in the order of their months
  Published,     \* the editions on the website to begin with
  Figures,       \* what an edition may print for Esfand
  NoFile,
  AllowOlder,    \* the values of allow_older in a post by path; {} for no post
  MaxDay,        \* bound on the days
  MaxSaves,      \* bound on the files the bank saves after the first ones
  MaxPrints,     \* bound on the stored prints of Esfand
  MaxCbiKills    \* bound on the restarts

ASSUME CbiAssumption ==
  /\ Published \subseteq 1..LastEdition /\ Published # {}
  /\ AllowOlder \subseteq BOOLEAN
  /\ {LastEdition, MaxDay, MaxSaves, MaxPrints, MaxCbiKills} \subseteq Nat

Editions == 1..LastEdition

\* A workbook, as the parser reads it: when it was last saved, the figure and
\* the method of Esfand, and whether all of its checks pass.
Workbook == [edition : Editions, saved : 0..MaxDay, figure : Figures,
             method : {"old", "revised"}, sound : BOOLEAN]

ASSUME NoFileAssumption == NoFile \notin Workbook

VARIABLES
  day,
  site,      \* the workbook behind each edition's Excel link
  documents, \* source_documents: the editions ingested
  prints,    \* economic_observations of Esfand, by vintage
  run,       \* the website run under _RUN_LOCK: its mode, the list of editions
             \* it read and those of them still to do
  download,  \* the workbook it has downloaded
  saves, cbiKills,
  jumped     \* (ghost) editions that were never to be ingested in their turn

cbiVars == <<day, site, documents, prints, run, download, saves,
             cbiKills, jumped>>

NoRun == [mode |-> "none", list |-> {}, links |-> {}]

CbiInit ==
  /\ day = 1
  /\ \E w \in [Published -> {v \in Workbook : v.saved = 0 /\ v.sound}] :
       /\ \A e \in Published : w[e].edition = e
       /\ site = [e \in Editions |-> IF e \in Published THEN w[e] ELSE NoFile]
  /\ documents = {}
  /\ prints = <<>>
  /\ run = NoRun
  /\ download = NoFile
  /\ saves = 0
  /\ cbiKills = 0
  /\ jumped = {}

Available == {e \in Editions : site[e] # NoFile}

\* newest_stored_edition; 0 when there is none.
NewestEdition == Max({0} \cup documents)

-----------------------------------------------------------------------------
(* ingest_edition_file                                                     *)

\* newest_edition_available_at: the newest stamp from any edition.
Floor == Max({0} \cup {prints[i].avail : i \in DOMAIN prints})

\* Mutant: the reconstruction is not moved up to what is stored already.
BackfillAvailableAt_NoFloor(w) == Min({w.saved + 1, day})

\* backfill_available_at: a day after it was saved, later when an edition
\* before it is already stamped later, never after today.
BackfillAvailableAt(w) == Min({Max({w.saved + 1, Floor}), day})

StampOf(w, mode) == IF mode = "backfill" THEN BackfillAvailableAt(w) ELSE day

StaleEdition(w) == w.edition < NewestEdition

Current == prints[Len(prints)]

SamePrint(w) ==
  /\ prints # <<>>
  /\ Current.figure = w.figure
  /\ Current.method = w.method

\* The method of the print being revised, and whether the workbook behind it
\* was saved later than the incoming one (_saved_before).
Unrevises(w) ==
  /\ prints # <<>>
  /\ ~SamePrint(w)
  /\ Current.method = "revised"
  /\ w.method = "old"
  /\ w.saved >= Current.saved

\* _write_edition raises, and the transaction takes everything with it.
Refuses(w, replay) ==
  \/ ~w.sound
  \/ ~replay /\ (StaleEdition(w) \/ Unrevises(w))

\* The document is archived and Esfand's print recorded, when it is news.
WriteEdition(w, mode) ==
  /\ documents' = documents \cup {w.edition}
  /\ prints' = IF SamePrint(w) THEN prints
               ELSE Append(prints, [figure |-> w.figure, method |-> w.method,
                                    saved |-> w.saved, avail |-> StampOf(w, mode),
                                    edition |-> w.edition])

-----------------------------------------------------------------------------
(* ingest_cbi_monetary                                                     *)

\* Where the run starts: at the newest edition stored, a backfill at the one
\* asked for when that is newer.
Since(mode, from) ==
  IF mode = "latest" THEN NewestEdition ELSE Max({NewestEdition, from})

\* fetch_latest refuses to be the first population.  The website's list is
\* read once.
StartRun(mode, from) ==
  /\ run = NoRun
  /\ mode = "latest" => documents # {}
  /\ LET list == {e \in Available : e >= Since(mode, from)} IN
       run' = [mode |-> mode, list |-> list, links |-> list]
  /\ UNCHANGED <<day, site, documents, prints, download, saves,
                 cbiKills, jumped>>

NextLink == Min(run.links)

Download ==
  /\ run # NoRun
  /\ run.links # {}
  /\ download = NoFile
  /\ download' = site[NextLink]
  /\ UNCHANGED <<day, site, documents, prints, run, saves, cbiKills, jumped>>

\* Mutant: an edition that fails is left out and the run goes on.
RunStops_Skips ==
  /\ run # NoRun
  /\ run.links # {}
  /\ download # NoFile => Refuses(download, FALSE)
  /\ download' = NoFile
  /\ run' = [run EXCEPT !.links = @ \ {NextLink}]
  /\ UNCHANGED <<day, site, documents, prints, saves, cbiKills, jumped>>

\* _run: cbi.ir did not answer, or the workbook is refused; the run ends there.
RunStops ==
  /\ run # NoRun
  /\ run.links # {}
  /\ download # NoFile => Refuses(download, FALSE)
  /\ download' = NoFile
  /\ run' = NoRun
  /\ UNCHANGED <<day, site, documents, prints, saves, cbiKills, jumped>>

\* Editions older than e the website offers by now and nobody stored.
NotIngested(e) == {f \in Available \ documents : f < e}

\* The edition commits on its own.  Those the run had not on its list, as it
\* started after them or before they had an Excel file, are stepped over.
IngestEdition ==
  /\ download # NoFile
  /\ ~Refuses(download, FALSE)
  /\ Len(prints) < MaxPrints
  /\ WriteEdition(download, run.mode)
  /\ run' = [run EXCEPT !.links = @ \ {download.edition}]
  /\ download' = NoFile
  /\ jumped' = jumped \cup (NotIngested(download.edition) \ run.list)
  /\ UNCHANGED <<day, site, saves, cbiKills>>

RunEnds ==
  /\ run # NoRun
  /\ run.links = {}
  /\ run' = NoRun
  /\ UNCHANGED <<day, site, documents, prints, download, saves,
                 cbiKills, jumped>>

\* One workbook on disk, taken when no run is in progress.
PostPath(w, allow_older) ==
  /\ run = NoRun
  /\ ~Refuses(w, allow_older)
  /\ Len(prints) < MaxPrints
  /\ WriteEdition(w, "path")
  /\ jumped' = jumped \cup NotIngested(w.edition)
  /\ UNCHANGED <<day, site, run, download, saves, cbiKills>>

-----------------------------------------------------------------------------

\* The bank publishes the next edition, gives an older one its Excel file or
\* replaces one in place.
BankSaves ==
  /\ saves < MaxSaves
  /\ saves' = saves + 1
  /\ \E w \in Workbook :
       /\ w.saved = day
       /\ w.edition <= Max(Available) + 1
       /\ site' = [site EXCEPT ![w.edition] = w]
       /\ jumped' = IF w.edition \notin Available /\ w.edition < NewestEdition
                    THEN jumped \cup {w.edition} ELSE jumped
  /\ UNCHANGED <<day, documents, prints, run, download, cbiKills>>

CbiKilled ==
  /\ run # NoRun
  /\ cbiKills < MaxCbiKills
  /\ cbiKills' = cbiKills + 1
  /\ run' = NoRun
  /\ download' = NoFile
  /\ UNCHANGED <<day, site, documents, prints, saves, jumped>>

NextDay ==
  /\ day < MaxDay
  /\ day' = day + 1
  /\ UNCHANGED <<site, documents, prints, run, download, saves,
                 cbiKills, jumped>>

CbiNext ==
  \/ \E mode \in {"latest", "backfill"}, from \in Editions : StartRun(mode, from)
  \/ Download
  \/ RunStops
  \/ IngestEdition
  \/ RunEnds
  \/ \E e \in Available, allow_older \in AllowOlder : PostPath(site[e], allow_older)
  \/ BankSaves
  \/ CbiKilled
  \/ NextDay

CbiSpec == CbiInit /\ [][CbiNext]_cbiVars

-----------------------------------------------------------------------------

\* Every variable keeps to its type.
CbiTypeOK ==
  /\ day \in 1..MaxDay
  /\ site \in [Editions -> Workbook \cup {NoFile}]
  /\ documents \subseteq Editions
  /\ download \in Workbook \cup {NoFile}
  /\ run.links \subseteq run.list /\ run.list \subseteq Editions

\* No edition is locked out by what goes wrong: up to the newest one stored,
\* every edition the website offers is stored too, whatever failed, was refused,
\* retried or restarted in between (_run: "carrying on to a NEWER edition would
\* make the failed one older than an edition already stored and lock it out for
\* good"), but for those that were never on the list of the run that passed
\* them: a post by path stepped over them, a backfill_from started after them,
\* or their Excel file came later.
NoneLockedOut ==
  \A e \in Available : e < NewestEdition => e \in documents \cup jumped

\* A reconstructed stamp neither precedes the file it is about nor a print
\* already stored: the store's refusal of a backdated vintage never stops a
\* backfill, and no reader sees a figure before the bank had saved it.
StampInOrder ==
  /\ \A i, j \in DOMAIN prints : i < j => prints[i].avail <= prints[j].avail
  /\ \A i \in DOMAIN prints : prints[i].avail >= prints[i].saved

=============================================================================
