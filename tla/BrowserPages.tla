----------------------------- MODULE BrowserPages ----------------------------
(***************************************************************************)
(* The pages of the site.  One of them is open; it keeps its state in      *)
(* variables of its own script, and shares nothing with the others but     *)
(* the backend.                                                            *)
(***************************************************************************)
EXTENDS Naturals, Sequences

CONSTANTS
    MaxPolls, MaxClicks, MaxFails,
    Jobs, NoJob, MaxStarts, MaxChecks, MaxMissed, MaxLoads,
    Selections, Zips, Csvs, Unreadable, NoCsv, MaxChoices, MaxSearches,
    Images, NoImage, MaxAnalyses, MaxMoves,
    MaxPending, MaxArchives, MaxDeletes, MaxLosses

ASSUME PagesAssumption ==
    /\ NoJob \notin Jobs /\ NoCsv \notin Csvs /\ NoImage \notin Images
    /\ Unreadable \subseteq Csvs /\ Zips \subseteq Selections
    /\ MaxPolls \in Nat \ {0}   \* a page that is loaded asks
    /\ {MaxClicks, MaxFails, MaxStarts, MaxChecks, MaxMissed, MaxLoads, MaxChoices, MaxSearches,
        MaxAnalyses, MaxMoves, MaxPending, MaxArchives, MaxDeletes, MaxLosses} \subseteq Nat

\* The names of images and tables, as module ManifestMatching has them
IsName(name) == name = [dir |-> name.dir, stem |-> name.stem, ext |-> name.ext]
ASSUME NamesAssumption ==
    /\ \A selection \in Selections :
          /\ selection \in Seq({selection[i] : i \in DOMAIN selection})
          /\ \A i \in DOMAIN selection : IsName(selection[i])
    /\ \A table \in Csvs : \A name \in table : IsName(name)

VARIABLES
    open,   \* the page that is open
    gallery, polls, activePoll, click, screen, overtaken, together, clicks, fails,
    report, uploads, checks, timer, remembered, downloads, canStart, abortShown, clicked,
    settled, late, crossing, missed, failures, loads,
    images, csv, rows, parses, searches, canSearch, results, mixed, overlap, choices,
    image, opening, drawing, box, commonGallery, focus, enabled, analyses, modal,
    replaced, moves,
    files, lastFile, items, pending, listings, deletes, crossed, lost

ofImport == <<gallery, polls, activePoll, click, screen, overtaken, together, clicks, fails>>
ofExport == <<report, uploads, checks, timer, remembered, downloads, canStart, abortShown,
              clicked, settled, late, crossing, missed, failures, loads>>
ofMany == <<images, csv, rows, parses, searches, canSearch, results, mixed, overlap, choices>>
ofSolo == <<image, opening, drawing, box, commonGallery, focus, enabled, analyses, modal,
            replaced, moves>>
ofFiles == <<files, lastFile, items, pending, listings, deletes, crossed, lost>>
vars == <<open, ofImport, ofExport, ofMany, ofSolo, ofFiles>>

Import == INSTANCE ImportPage
Export == INSTANCE ExportPage
Many == INSTANCE ManyPage
Solo == INSTANCE SoloPage
Files == INSTANCE ReplenishmentPage

Init ==
    /\ open \in {"import", "export", "many", "solo", "files"}
    /\ Import!Init /\ Export!Init /\ Many!Init /\ Solo!Init /\ Files!Init
    \* what the backend holds matters to the open page only
    /\ open # "import" => gallery.state = "ready"
    /\ open # "files" => files = {}

Next ==
    \/ /\ open = "import"
       /\ Import!Next
       /\ UNCHANGED <<open, ofExport, ofMany, ofSolo, ofFiles>>
    \/ /\ open = "export"
       /\ Export!Next
       /\ UNCHANGED <<open, ofImport, ofMany, ofSolo, ofFiles>>
    \/ /\ open = "many"
       /\ Many!Next
       /\ UNCHANGED <<open, ofImport, ofExport, ofSolo, ofFiles>>
    \/ /\ open = "solo"
       /\ Solo!Next
       /\ UNCHANGED <<open, ofImport, ofExport, ofMany, ofFiles>>
    \/ /\ open = "files"
       /\ Files!Next
       /\ UNCHANGED <<open, ofImport, ofExport, ofMany, ofSolo>>

Spec == Init /\ [][Next]_vars

------------------------------------------------------------------------------
(* Properties.  Each is stated and explained in the module of its page.     *)

\* The types of the open page (the others are in their initial state).
TypeOK ==
    CASE open = "import" -> Import!TypeOK
      [] open = "export" -> Export!TypeOK
      [] open = "many" -> Many!TypeOK
      [] open = "solo" -> Solo!TypeOK
      [] open = "files" -> Files!TypeOK

\* While the gallery page says that photos are being indexed it asks on, once per
\* period, and when nothing is under way it is right about the gallery.
PollingRight == Import!BuildingFollowed /\ Import!OneTimer /\ Import!QuietTruth

\* The files the export page offers are those of a completed job, and during an
\* upload it offers none of an older job.
DownloadsRight == Export!DownloadsOfCompleted /\ Export!NoOldDownloads

\* The export page does not lose an unfinished job, which keeps the slot, and an
\* upload that it calls failed does not run.
JobsHeld == Export!JobsHeld /\ Export!FailedNotRunning

\* A job that is polled is polled on, whatever checks fail.
PollsOn == Export!PollsOn

\* The batch page and the backend read the table in the input the same way.
MatchAgrees == Many!MatchAgrees

\* A card of the batch page shows the answer to the image beside it, and the
\* cards are those of the last search that was sent.
CardsRight == Many!CardsRight /\ Many!CardsOfLastSearch

\* One image is searched with a box that was drawn on it, its result is shown
\* beside it, and the search button is never left disabled.
SearchShown == Solo!BoxOnImage /\ Solo!ButtonBack /\ Solo!ResultBesideImage

\* The list of files shows what the backend holds, each file once.
ListTruth == Files!ListTruth
==============================================================================
