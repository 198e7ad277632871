--------------------------- MODULE OrganizerExport ---------------------------
(***************************************************************************)
(* The organizer importer: it inspects a gallery and a query split, embeds *)
(* their images batch by batch, exports the submission and describes what  *)
(* it did.  Nothing is locked and nothing is undone: the source may change *)
(* while it is read, the process may stop between any two files, and the   *)
(* output folder is then refused.                                          *)
(*                                                                         *)
(* An input: its kind (a ZIP, a directory, or components: images of each   *)
(* split from any number of ZIPs, folders and files), the two CSV files    *)
(* (rows in order; bom: the file begins with a byte order mark; spaced:    *)
(* ids written with blanks around them), the image files of each split,    *)
(* the options, and how the records of the gallery score for a query: by   *)
(* the raw cosine, and in the cohort.                                      *)
(***************************************************************************)
EXTENDS Ranking

CONSTANTS
    Inputs,       \* what the importer may be called with
    Ids,          \* image ids
    MinGallery,   \* gallery records an export needs (10)
    Batch,        \* images embedded at a time
    MaxChanges,   \* bound: changes of a file of the source while the importer runs
    MaxRuns       \* bound: times it is called with this output folder

ASSUME BatchAssumption == Batch \in Nat \ {0}
ASSUME MinAssumption == MinGallery \in Nat /\ MinGallery >= TopK
ASSUME BoundsAssumption == MaxChanges \in Nat /\ MaxRuns \in Nat

VARIABLES
    input,      \* the call
    content,    \* what each part of the source, an image or a CSV, shows: a version
    held,       \* what it showed when a CSV was inspected, or an archive of images opened
    run, pc,
    split,      \* the split at work
    vectors,    \* its embeddings so far: ids and what their images showed
    output,     \* files of the output folder, and the run that wrote each
    csv, npz,   \* what these files say
    submission, \* answers of the export, and the scope its manifest tells
    digest,     \* input_sha256: every part that went into it, and what it showed
    changes

vars == <<input, content, held, run, pc, split, vectors, output, csv, npz, submission,
          digest, changes>>

------------------------------------------------------------------------------
Splits == {"gallery", "query"}
CsvOf == [gallery |-> "test_gallery.csv", query |-> "test_query.csv"]
NpzOf == [gallery |-> "test_gallery.npz", query |-> "test_query.npz"]
Csvs == {CsvOf[s] : s \in Splits}
Files == Csvs \cup {NpzOf[s] : s \in Splits}
           \cup {"submission", "import_manifest.json"}
Parts == Ids \cup Csvs
Texts == [bom : BOOLEAN, spaced : SUBSET Ids, ids : Seq(Ids), shows : Nat]
NotWritten == 0
NoText == [bom |-> FALSE, spaced |-> {}, ids |-> <<>>, shows |-> 0]
NoSubmission == [rows |-> <<>>, ranking |-> "none", scope |-> "none"]

\* An id is 32 hexadecimal digits
ASSUME IdsAssumption == Ids \cap Csvs = {}

\* Whatever the options and the files are
ASSUME InputsAssumption ==
    \A x \in Inputs :
        /\ x.csv \in [Splits -> [bom : BOOLEAN, spaced : SUBSET Ids, ids : Seq(Ids), badBox : BOOLEAN]]
        /\ x.images \in [Splits -> Seq(Ids)]
        /\ x.limit \in Nat
        /\ x.raw \in [Ids -> Int] /\ x.scores \in [Ids -> Int]

NoRepeat(s) == Cardinality(Elements(s)) = Len(s)

\* What is read of parts: the old ones as they are held, the others as they are now
Seen(parts, old) ==
    [i \in DOMAIN parts |->
        [id |-> parts[i], shows |-> IF parts[i] \in old THEN held[parts[i]] ELSE content[parts[i]]]]

Init ==
    /\ input \in Inputs
    /\ content = [x \in Parts |-> 0] /\ held = content
    /\ run = 0 /\ pc = "idle" /\ split = "gallery"
    /\ vectors = <<>>
    /\ output = [f \in Files |-> NotWritten]
    /\ csv = [s \in Splits |-> NoText]
    /\ npz = [s \in Splits |-> <<>>]
    /\ submission = NoSubmission
    /\ digest = <<>>
    /\ changes = 0

Writes(f) == output' = [output EXCEPT ![f] = run]
Source == <<input, content, held, changes>>
Result == <<output, csv, npz, submission, digest>>

------------------------------------------------------------------------------
(* read_records and inspect_archive                                          *)

\* Component sources bring images for each split, a ZIP or a directory brings
\* them together
ImagesOf(s) == input.images[IF input.kind = "components" THEN s ELSE "gallery"]

\* Rows without a JPEG
Missing(s) == Elements(input.csv[s].ids) \ Elements(ImagesOf(s))

\* An image or an id that appears twice is refused, so is an empty box, and a
\* missing JPEG unless partial components are allowed
Readable(s) ==
    /\ NoRepeat(ImagesOf(s))
    /\ NoRepeat(input.csv[s].ids)
    /\ ~input.csv[s].badBox
    /\ Missing(s) # {} => input.partial
    /\ Missing(s) # Elements(input.csv[s].ids)

Records(s) == Keep(input.csv[s].ids, Elements(ImagesOf(s)))

Partial == \E s \in Splits : Missing(s) # {}

Inspected ==
    /\ input.partial => input.kind = "components"
    /\ \A s \in Splits : Readable(s)
    /\ Elements(Records("gallery")) \cap Elements(Records("query")) = {}

\* limit_per_split, and the number of records an export needs
Chosen(s) == Prefix(Records(s), input.limit)
Enough == Len(Chosen("gallery")) >= MinGallery /\ Len(Chosen("query")) >= 1

\* Mutant: a partial CSV is copied as it came
RawText(s) == [bom |-> input.csv[s].bom, spaced |-> input.csv[s].spaced, ids |-> input.csv[s].ids,
               shows |-> held[CsvOf[s]]]

\* The CSV of the split as it is written.  A limited run writes clean rows; a
\* partial one writes the rows it kept again, without the byte order mark but
\* with their ids as they were; otherwise the bytes are copied.
CsvText(s) ==
    [bom |-> input.csv[s].bom /\ Missing(s) = {} /\ input.limit = 0,
     spaced |-> IF input.limit > 0 THEN {} ELSE input.csv[s].spaced \ Missing(s),
     ids |-> Chosen(s),
     shows |-> held[CsvOf[s]]]

------------------------------------------------------------------------------
(* build                                                                     *)

Working == pc \notin {"idle", "failed", "completed"}
EmptyFolder == \A f \in Files : output[f] = NotWritten

Start ==
    /\ ~Working /\ run < MaxRuns
    /\ run' = run + 1
    /\ IF EmptyFolder /\ Inspected /\ Enough
          THEN pc' = "open" /\ held' = content
          ELSE pc' = "failed" /\ UNCHANGED held
    /\ UNCHANGED <<split, vectors, Result, input, content, changes>>

\* open_source, after the encoder was loaded: the CSVs are those inspected, the
\* archives of images stay open from now on
Open ==
    /\ pc = "open"
    /\ held' = [x \in Parts |-> IF x \in Csvs THEN held[x] ELSE content[x]]
    /\ pc' = "csv" /\ split' = "gallery"
    /\ UNCHANGED <<run, vectors, Result, input, content, changes>>

WriteCsv ==
    /\ pc = "csv"
    /\ csv' = [csv EXCEPT ![split] = CsvText(split)]
    /\ Writes(CsvOf[split])
    /\ vectors' = <<>>
    /\ pc' = "embed"
    /\ UNCHANGED <<run, split, npz, submission, digest, Source>>

\* Mutant: the batch does not move on
FirstBatch == Prefix(Chosen(split), Batch)

NextBatch == Prefix(SubSeq(Chosen(split), Len(vectors) + 1, Len(Chosen(split))), Batch)

\* encode_split: the images of a batch are opened and embedded.  An open archive
\* goes on showing what it held when another file takes its place, and what is
\* there now when it is written over; a file of a folder is opened by its name.
EncodeBatch ==
    /\ pc = "embed"
    /\ Len(vectors) < Len(Chosen(split))
    /\ \E old \in SUBSET Elements(NextBatch) :
          /\ input.kind = "directory" => old = {}
          /\ vectors' = vectors \o Seen(NextBatch, old)
    /\ UNCHANGED <<run, pc, split, Result, Source>>

SaveNpz ==
    /\ pc = "embed"
    /\ Len(vectors) = Len(Chosen(split))
    /\ npz' = [npz EXCEPT ![split] = vectors]
    /\ Writes(NpzOf[split])
    /\ IF split = "gallery" THEN pc' = "csv" /\ split' = "query"
                            ELSE pc' = "export" /\ UNCHANGED split
    /\ UNCHANGED <<run, vectors, csv, submission, digest, Source>>

\* _read_ids opens the file as plain text and strips nothing, and the ids of
\* the NPZ must be those of the CSV
ReadBack(s) ==
    /\ ~csv[s].bom
    /\ csv[s].spaced = {}
    /\ csv[s].ids = [i \in DOMAIN npz[s] |-> npz[s][i].id]

SingleQuery == Len(npz["query"]) = 1

\* The scores of the gallery that was embedded, in its order
Vector(scores) == [r \in DOMAIN npz["gallery"] |-> scores[npz["gallery"][r].id]]
Raw == Vector(input.raw)

\* expand_transductive: every image and query moves towards its neighbours, so the
\* scores in the cohort are any
Cohort == Vector(input.scores)

RankedBy == IF SingleQuery THEN Raw ELSE Cohort

\* What search_batch of the ML service answers to one of the same queries: it
\* leaves a single query to search
ServiceAnswer(topk) ==
    IF SingleQuery THEN SearchAnswer(Raw, topk) ELSE BatchAnswer(Raw, Cohort, topk)

\* The policy may raise on the cosines of the candidates
Judged == PolicyAnswers(Sorted(Cosines(Raw, Best(RankedBy, TopK))))

\* export: every query is ranked and judged, the files are read back and
\* compared, and the manifest is written
Export ==
    /\ pc = "export"
    /\ IF Judged /\ \A s \in Splits : ReadBack(s)
          THEN /\ submission' =
                    [rows |-> [q \in DOMAIN npz["query"] |-> ExportRow(Raw, RankedBy)],
                     ranking |-> IF SingleQuery THEN "exact_cosine" ELSE "cohort",
                     scope |-> "untold"]
               /\ Writes("submission")
               /\ pc' = "hash"
          ELSE pc' = "failed" /\ UNCHANGED <<output, submission>>
    /\ UNCHANGED <<run, split, vectors, csv, npz, digest, Source>>

ChosenOf(s) == <<CsvOf[s]>> \o Chosen(s)

\* Mutant: the loop over the splits ends after the gallery
HashedOfGallery == IF input.kind = "zip" THEN ImagesOf("gallery") \o <<CsvOf["gallery"], CsvOf["query"]>>
                   ELSE ChosenOf("gallery")

\* A ZIP is hashed as one file, with every member it has, of a record or not;
\* of any other input, each CSV and the members of the chosen records
Hashed == IF input.kind = "zip" THEN ImagesOf("gallery") \o <<CsvOf["gallery"], CsvOf["query"]>>
          ELSE ChosenOf("gallery") \o ChosenOf("query")

\* input_sha256 opens the source again; of a directory it takes the CSVs that
\* were inspected
HashInput ==
    /\ pc = "hash"
    /\ digest' = Seen(Hashed, IF input.kind = "directory" THEN Csvs ELSE {})
    /\ pc' = "manifest"
    /\ UNCHANGED <<run, split, vectors, output, csv, npz, submission, Source>>

Scope == IF input.limit > 0 THEN "smoke" ELSE IF Partial THEN "partial" ELSE "full"

\* Mutant: the scope is left to the report
LeaveScope ==
    /\ pc = "manifest"
    /\ pc' = "report"
    /\ UNCHANGED <<run, split, vectors, Result, Source>>

\* The manifest of the submission is written again, with its scope
TellScope ==
    /\ pc = "manifest"
    /\ submission' = [submission EXCEPT !.scope = Scope]
    /\ pc' = "report"
    /\ UNCHANGED <<run, split, vectors, output, csv, npz, digest, Source>>

WriteReport ==
    /\ pc = "report"
    /\ Writes("import_manifest.json")
    /\ pc' = "completed"
    /\ UNCHANGED <<run, split, vectors, csv, npz, submission, digest, Source>>

------------------------------------------------------------------------------
\* An image that is not a JPEG, a full disk, a stopped process
Stop ==
    /\ Working
    /\ pc' = "failed"
    /\ UNCHANGED <<run, split, vectors, Result, Source>>

\* Somebody replaces an image or a CSV of the source, the one with the same rows
SourceChanges ==
    /\ Working /\ changes < MaxChanges
    /\ \E x \in Elements(Hashed) : content' = [content EXCEPT ![x] = @ + 1]
    /\ changes' = changes + 1
    /\ UNCHANGED <<input, held, run, pc, split, vectors, Result>>

Next ==
    \/ Start \/ Open \/ WriteCsv \/ EncodeBatch \/ SaveNpz
    \/ Export \/ HashInput \/ TellScope \/ WriteReport
    \/ Stop \/ SourceChanges

Spec == Init /\ [][Next]_vars

------------------------------------------------------------------------------
(* Properties.                                                               *)

Reading == [id : Parts, shows : 0 .. MaxChanges]

TypeOK ==
    /\ content \in [Parts -> 0 .. MaxChanges] /\ held \in [Parts -> 0 .. MaxChanges]
    /\ run \in 0 .. MaxRuns
    /\ pc \in {"idle", "open", "csv", "embed", "export", "hash", "manifest", "report",
               "completed", "failed"}
    /\ split \in Splits
    /\ vectors \in Seq(Reading)
    /\ pc = "embed" => Len(vectors) <= Len(Chosen(split))
    /\ output \in [Files -> 0 .. MaxRuns]
    /\ npz \in [Splits -> Seq(Reading)]
    /\ digest \in Seq(Reading)
    /\ changes \in 0 .. MaxChanges

OneRun ==
    \A f, g \in Files : output[f] # NotWritten /\ output[g] # NotWritten => output[f] = output[g]

\* The files of an output folder come from one run, whatever runs were stopped or
\* tried again; and a folder with import_manifest.json is complete: both splits
\* hold a vector of every chosen record at its row, every query has an answer, and
\* the manifest of the submission tells a smoke or a partial run from a full one.
ReportTruthful ==
    /\ OneRun
    /\ output["import_manifest.json"] # NotWritten =>
        /\ \A f \in Files : output[f] = output["import_manifest.json"]
        /\ \A s \in Splits : Len(npz[s]) = Len(Chosen(s))
                              /\ \A i \in DOMAIN npz[s] : npz[s][i].id = Chosen(s)[i]
        /\ Len(submission.rows) = Len(Chosen("query"))
        /\ submission.scope = Scope

\* What went into the files of the folder
Used(s) == Elements(npz[s]) \cup {[id |-> CsvOf[s], shows |-> csv[s].shows]}

\* input_sha256 covers each CSV and each image the files of the folder were made
\* from: as they were if the source did not change, and never as they were before.
\* That of a ZIP covers the rest of the archive too, any other covers nothing else,
\* and that of a directory takes the CSVs as they were whatever happened to them.
DigestOfEmbedded ==
    output["import_manifest.json"] # NotWritten =>
        /\ \A s \in Splits : \A u \in Used(s) : \E d \in Elements(digest) :
              /\ d.id = u.id
              /\ d.shows >= u.shows
              /\ changes = 0 \/ (input.kind = "directory" /\ u.id \in Csvs) => d.shows = u.shows
        /\ input.kind # "zip" =>
              \A d \in Elements(digest) : \E s \in Splits : \E u \in Used(s) : u.id = d.id

\* What inspection accepts is exported after all the embedding, unless the
\* policy raises, or a CSV is copied with its byte order mark or with blanks
\* around an id: inspection reads past both, the export does not.
InspectedExports ==
    [][pc = "export" /\ Export /\ pc' = "failed" =>
          \/ ~Judged
          \/ \E s \in Splits : /\ input.limit = 0
                              /\ \/ input.csv[s].bom /\ Missing(s) = {}
                                 \/ input.csv[s].spaced \ Missing(s) # {}]_vars

\* The export and the ML service give one answer: the rows of a submission are
\* those of search_batch in the same cohort, and a client that sees fewer
\* candidates sees the accepted ones among them.
AnswersAgree ==
    output["submission"] # NotWritten =>
      \A q \in DOMAIN submission.rows : \A topk \in DOMAIN npz["gallery"] :
        LET row == submission.rows[q]
            answer == ServiceAnswer(topk)
        IN  /\ Prefix(answer.ranked, TopK) = Prefix(row.ranked, topk)
            /\ answer.accepted = Keep(row.accepted, Elements(answer.ranked))

\* Refusal goes by the raw cosine whatever ranked the candidates: nothing
\* below the threshold is accepted, and nothing better than an accepted one
\* among the ranked is refused.
RefusalByCosine ==
    output["submission"] # NotWritten =>
      \A q \in DOMAIN submission.rows :
        LET row == submission.rows[q]
        IN  \A a \in Elements(row.accepted) :
               /\ Raw[a] >= Threshold
               /\ \A b \in Elements(row.ranked) : Raw[b] > Raw[a] => b \in Elements(row.accepted)
==============================================================================
