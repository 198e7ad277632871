------------------------------- MODULE ManyPage ------------------------------
(***************************************************************************)
(* The batch page and the batch search behind it.  A table is parsed in    *)
(* the background while its file stays in the input; the images are        *)
(* matched with the parsed rows, and sent with the file; the backend       *)
(* matches again, embeds one image after the other, has the valid ones     *)
(* ranked together, and the page pairs the answers with its files.  A ZIP  *)
(* is sent as it is: the page cannot see its images, and takes their names *)
(* from the answer.                                                        *)
(***************************************************************************)
EXTENDS ManifestMatching, FiniteSets

CONSTANTS
    Selections,     \* images a user may choose: sequences of names
    Zips,           \* those of them that are the images in one ZIP
    Csvs,           \* tables a user may choose: sets of names
    Unreadable,     \* those the page cannot parse
    NoCsv,
    MaxChoices,     \* bound: choices of files
    MaxSearches     \* bound: clicks on the search button

VARIABLES
    images,     \* the chosen images
    csv,        \* the file in the input
    rows,       \* the table whose rows the page holds
    parses,     \* tables being read
    searches,   \* the submit handlers, by click
    canSearch,  \* the button is enabled
    results,    \* what is shown: the search, and file and answer of each card
    mixed,      \* rows of another file than that in the input were in use
    overlap,    \* a search was sent while another one was under way
    choices

vars == <<images, csv, rows, parses, searches, canSearch, results, mixed, overlap, choices>>

Searches == 1..MaxSearches
Elements(s) == {s[i] : i \in DOMAIN s}
New == [at |-> "new", images |-> <<>>, checked |-> NoCsv, manifest |-> NoCsv, reply |-> <<>>]
NoResults == [search |-> 0, cards |-> <<>>]

\* A box is told by its table and its row
Box(table, row) == <<table, row>>

\* An entry of a reply: an answer, or an error
Failed == <<>>

Init ==
    /\ images = <<>> /\ csv = NoCsv /\ rows = NoCsv
    /\ parses = {}
    /\ searches = [s \in Searches |-> New]
    /\ canSearch = TRUE
    /\ results = NoResults
    /\ mixed = FALSE /\ overlap = FALSE
    /\ choices = 0

Inputs == <<images, csv, rows, parses, mixed, choices>>
Chooses == choices < MaxChoices /\ choices' = choices + 1

------------------------------------------------------------------------------
(* The inputs *)

ChooseImages ==
    /\ Chooses
    /\ images' \in Selections
    /\ UNCHANGED <<csv, rows, parses, mixed, searches, canSearch, results, overlap>>

\* The rows are dropped at once, and come when the file was read
ChooseCsv ==
    /\ Chooses
    /\ csv' \in Csvs \cup {NoCsv}
    /\ rows' = NoCsv
    /\ parses' = parses \cup ({csv'} \ {NoCsv})
    /\ UNCHANGED <<images, mixed, searches, canSearch, results, overlap>>

\* A table that was chosen before the one in the input may be read after it
Parsed(c) ==
    /\ c \in parses
    /\ parses' = parses \ {c}
    /\ rows' = IF c \in Unreadable THEN rows ELSE c
    /\ mixed' = (mixed \/ (rows' # NoCsv /\ c # csv))
    /\ UNCHANGED <<images, csv, searches, canSearch, results, overlap, choices>>

------------------------------------------------------------------------------
(* The submit handler *)

UnderWay(s) == searches[s].at \in {"sent", "answered", "refused"}
Goes(s, at) == searches' = [searches EXCEPT ![s].at = at]

\* The gallery is asked for first; the button stays enabled meanwhile
Click(s) ==
    /\ canSearch
    /\ searches[s].at = "new" /\ \A t \in 1..(s - 1) : searches[t].at # "new"
    /\ Goes(s, "loading")
    /\ UNCHANGED <<Inputs, canSearch, results, overlap>>

\* The page matches the files; it leaves a ZIP to the backend
Complete ==
    /\ images # <<>> /\ rows # NoCsv
    /\ images \in Zips \/ PageAccepts(Elements(images), rows)

Send(s) ==
    /\ searches[s].at = "loading"
    /\ Complete
    /\ searches' = [searches EXCEPT ![s] =
           [New EXCEPT !.at = "sent", !.images = images, !.checked = rows, !.manifest = csv]]
    /\ canSearch' = FALSE
    /\ results' = NoResults
    /\ overlap' = (overlap \/ \E t \in Searches : UnderWay(t))
    /\ UNCHANGED Inputs

\* No gallery to search, nothing chosen, or no row for an image
NotSent(s) ==
    /\ searches[s].at = "loading"
    /\ Goes(s, "done")
    /\ UNCHANGED <<Inputs, canSearch, results, overlap>>

------------------------------------------------------------------------------
(* search_archive *)

\* Mutant: the answers are laid beside the images that were embedded or not
PositionAsAnswered(n, valid, i) == i

\* valid_positions: the answer to the i-th image of n, of which only valid ones
\* were ranked
Position(n, valid, i) == Cardinality({k \in 1..i : k \in valid})

\* Mutant: an image that failed has no entry
ReplyOfValid(names, table, valid) ==
    LET Nth(k) == CHOOSE i \in valid : Cardinality({m \in valid : m <= i}) = k
    IN [k \in 1..Cardinality(valid) |->
           <<[image |-> names[Nth(k)],
              box |-> Box(table, RowOf(ServerCandidates(names[Nth(k)], table)))]>>]

Reply(names, table, valid) ==
    LET Query(i) == <<[image |-> names[i],
                       box |-> Box(table, RowOf(ServerCandidates(names[i], table)))]>>
        Nth(k) == CHOOSE i \in valid : Cardinality({m \in valid : m <= i}) = k
        ranked == [k \in 1..Cardinality(valid) |-> Query(Nth(k))]
    IN [i \in DOMAIN names |->
           IF i \in valid /\ Position(names, valid, i) \in DOMAIN ranked
               THEN ranked[Position(names, valid, i)] ELSE Failed]

\* Images that cannot be opened, boxes outside of them and failed embeddings
\* become entries of the answer
Serve(s) ==
    /\ searches[s].at = "sent"
    /\ searches[s].manifest # NoCsv
    /\ ServerAccepts(Elements(searches[s].images), searches[s].manifest)
    /\ \E valid \in SUBSET DOMAIN searches[s].images :
        searches' = [searches EXCEPT
            ![s].at = "answered",
            ![s].reply = Reply(searches[s].images, searches[s].manifest, valid)]
    /\ UNCHANGED <<Inputs, canSearch, results, overlap>>

\* No table, no single row, no answer of the ML service, or a lost answer
Refuse(s) ==
    /\ searches[s].at \in {"sent", "answered"}
    /\ Goes(s, "refused")
    /\ UNCHANGED <<Inputs, canSearch, results, overlap>>

\* What the cards are headed with: the files, or the names the backend found in
\* the ZIP
Files(s) == searches[s].images

\* renderResults: a card for each entry of the answer, beside the file there
Cards(s) ==
    [i \in DOMAIN searches[s].reply |-> [file |-> Files(s)[i], answer |-> searches[s].reply[i]]]

Show(s) ==
    /\ searches[s].at = "answered"
    /\ Files(s) \in Zips \/ Len(searches[s].reply) = Len(Files(s))
    /\ results' = [search |-> s, cards |-> Cards(s)]
    /\ canSearch' = TRUE
    /\ Goes(s, "done")
    /\ UNCHANGED <<Inputs, overlap>>

ShowRefusal(s) ==
    /\ searches[s].at = "refused"
    /\ canSearch' = TRUE
    /\ Goes(s, "done")
    /\ UNCHANGED <<Inputs, results, overlap>>

------------------------------------------------------------------------------
Next ==
    \/ ChooseImages
    \/ ChooseCsv
    \/ \E c \in Csvs : Parsed(c)
    \/ \E s \in Searches :
        Click(s) \/ Send(s) \/ NotSent(s) \/ Serve(s) \/ Refuse(s) \/ Show(s) \/ ShowRefusal(s)

Spec == Init /\ [][Next]_vars

------------------------------------------------------------------------------
(* Properties *)

TypeOK ==
    /\ images \in Selections \cup {<<>>}
    /\ {csv, rows} \subseteq Csvs \cup {NoCsv} /\ parses \subseteq Csvs
    /\ \A s \in Searches :
        /\ searches[s].at \in {"new", "loading", "sent", "answered", "refused", "done"}
        /\ searches[s].images \in Selections \cup {<<>>}
        /\ {searches[s].checked, searches[s].manifest} \subseteq Csvs \cup {NoCsv}
        /\ Len(searches[s].reply) \in {0, Len(searches[s].images)}
    /\ {canSearch, mixed, overlap} \subseteq BOOLEAN
    /\ results.search \in 0..MaxSearches
    /\ choices \in 0..MaxChoices

\* Page and backend read the table in the input the same way.
MatchAgrees == csv # NoCsv => Agree(Elements(images), csv)

\* A card shows the answer to the image beside it, searched in the box that the
\* table on the page has for it, whichever images of the batch failed, unless the
\* rows of an older table came after those of the table in the input.
CardsRight ==
    \A i \in DOMAIN results.cards :
        LET card == results.cards[i]
            table == searches[results.search].checked
        IN card.answer # Failed =>
            /\ card.answer[1].image = card.file
            /\ mixed \/ card.answer[1].box = Box(table, RowOf(PageCandidates(card.file, table)))

\* The cards are those of the last search that was sent, unless one was sent
\* while another one was under way.
CardsOfLastSearch ==
    results.search # 0 /\ ~ overlap =>
        \A s \in (results.search + 1)..MaxSearches : searches[s].at \in {"new", "loading", "done"}
==============================================================================
