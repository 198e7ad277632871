# Verification of the vehicle re-identification service

The repository is a prototype of a vehicle re-identification service. A user uploads a gallery
of vehicle photographs, draws a box around a vehicle in a query photograph, and gets the gallery
images that show the same vehicle. Two processes do the work: the **backend** (FastAPI, serves the
pages, stores uploads) and the **ML service** (FastAPI, holds the encoder, builds galleries, ranks
queries, runs export jobs for the jury). They share the gallery folder and talk HTTP; they share no
lock. Scripts in the browser poll, upload and search; a launcher starts both processes.

This directory holds TLA+ modules translated from that code, TLC configurations that check them on
small instances, and TLAPS proofs for all instances. `PROJECT.json` maps every definition to the
lines it stands for, lists the hazards of the code, and names for every property of a run a mutant
of the code that breaks it.

    tlc -workers 2 -config ImportSafety.cfg MCGalleryImport
    tlapm GalleryImport_proofs.tla

## 1. Inventory

| Component | Source | State it keeps | Operations | Module |
|---|---|---|---|---|
| Gallery store | `backend/app/gallery_store.py`, `main.py` 318-374 | `meta.json` (state, images, pending, generation, job), `images/`, `_write_lock` | create, upload, retry, `fail_import`, read | `GalleryImport` |
| Gallery build call | `backend/app/ml_gateway.py`, `main.py` 309-314 | an in-memory background task per accepted import | call the ML service, mark the import failed | `GalleryImport` |
| Gallery builder | `backend/app/ml/runtime.py` 132-180 | `gallery_NNNN.npz`, `meta.json`, SQLite | embed, save an archive, publish, replace in SQLite | `GalleryImport` |
| Gallery database | `backend/app/ml/gallery_db.py` | `gallery_meta`, `gallery_items` per namespace | `replace` (one transaction), `load` (two SELECTs) | `GallerySearch` |
| Gallery search | `runtime.py` 94-130, 182-296, `api.py` 138-177 | `_gallery_cache`, `_gallery_cache_lock` | search, search_batch | `GallerySearch` |
| Search endpoints | `main.py` 164-306 | none between requests | single search, batch search | `GallerySearch`, `ManyPage` |
| Gallery migration | `backend/ml/migrate_galleries.py` | the gallery folder | re-embed with a new encoder, services stopped | `GallerySearch` |
| Jury export jobs | `backend/app/ml/judge_export_api.py` | the slot `active`, `part_upload_lock`, per job `status.json`, parts, output, a thread | upload, components, start, abort, report, download | `JudgeExport`, `JobLedger` |
| Export gateway, page | `judge_export_routes.py`, `judge_export.js` | the page remembers one job id | relay, upload, poll, abort | `ExportPage` |
| Importer, exporter | `backend/ml/import_organizer_archive.py`, `export_test_hybrid.py` | output folder | inspect, embed, export, digest, report | `OrganizerExport` |
| Ranking, refusal | `runtime.py`, `export_test_hybrid.py`, `boosting.py` | none | order, judge, cut | `Ranking` |
| Replenishment files | `main.py` 515-833, `models.py` | rows of SQLite and files beside them | upload, archive, pair, list with migration, rename, delete | `Replenishment` |
| Manifest and batch matching | `gallery_store.py` 276-312, `many.js` | none | pair names with rows, align answers | `ManifestMatching`, `ManyPage` |
| Pages | `frontend/*.js` | selection, poll timers, requests under way | polling, searching, rendering | `BrowserPages` and the page modules |
| Runtime loader | `api.py` 35-67 | one `MLRuntime` | load once | `Launcher` |
| Launcher, preflight | `quick_start.py`, `artifact_preflight.py` | two child processes | check, start, wait, watch, stop | `Launcher` |
| Identification requests | `main.py`, `models.py` | rows of one table | CRUD | - |
| Gallery images, crops | `main.py` 376-409 | `crops/`, `_crop_lock` | serve an image or a crop | - |
| Encoder, preprocessing | `backend/app/ml` | `_inference_lock` | numerical | - |
| Tools, training, vendored backbone, deployment | `backend/ml`, `repro`, `backend/third_party`, Docker files | files | offline | - |

**Interactions.** Backend and builder both rewrite the whole `meta.json` (atomically, but with a
content read earlier). Builder and search share the archives, SQLite and the metadata; only
searches take the cache lock. The backend resolves ranked ids against `meta.json`, which the
builder may have switched meanwhile. The migration writes archives and metadata, not SQLite. The
export thread runs the importer and exporter as a library call; the export page talks to its jobs
through the gateway, which keeps nothing. A page shares nothing with another page but the backend.
The launcher starts the ML service, waits until its `/ready` has loaded the model, and then starts
the backend.

**What is hard.** Metadata that is stale when it is written back; a background task that exists in
memory only; a call that is given up while its callee works on; two files and a database that must
agree at every point where a process can die; two reads that are not one; locks held on error
paths; a resource (the export slot) that somebody must give back; a file and a row written one
after the other; row ids that SQLite gives away again; answers that arrive in another order than
the questions; timers that are cleared while the request they started is not; one rule written two
or three times in different languages; an interrupt in the middle of a cleanup.

**What makes each part correct.**

- Gallery import: published images are never lost, labels are unique, the archive matches the
  metadata, an import ends and a failed one can be retried.
- Search: everything published when the search was asked is ranked, everything ranked can be shown,
  vectors of two encoders are never compared, every search ends.
- Export jobs: one unfinished job at a time, of an input that no longer changes; only finished
  output is handed out; the slot is given back; a reported end is final.
- Export itself: the files of a folder come from one run, the digest is of what was embedded, and
  submission and service give one answer.
- Replenishment: a row has its file, a deleted file stays deleted, a listing is complete and shows
  nothing that was gone, a migration repeats no file.
- Pages: what a page shows, offers, polls and sends belongs together, whatever order answers take.
- Launcher: one model is loaded, "ready" is true, nothing is left running.

## 2. Modules

| Module | What it is |
|---|---|
| `GalleryImport` | import protocol between the backend and the builder, restarts and given-up calls included |
| `AppendOnlyGallery` | abstract specification of a gallery; `GalleryImport` refines it (`KeepsPromise`) |
| `GallerySearch` | searches against imports, restarts, an encoder switch and the migration |
| `JudgeExport` | export jobs of the ML service |
| `JobLedger` | abstract specification of those jobs as `get_job` reports them; `JudgeExport` refines it (`KeepsLedger`), `ExportPage` is composed with it |
| `Ranking` | ranking and refusal of one query, in the three places the code has it |
| `OrganizerExport` | one run of importer and exporter, file by file, over `Ranking` |
| `Replenishment` | requests on the uploaded files, commit by commit |
| `ImportPage`, `ExportPage`, `ManyPage`, `SoloPage`, `ReplenishmentPage` | the five pages with state |
| `ManifestMatching` | the rule that pairs image names with table rows, as page and backend have it |
| `BrowserPages` | composes the pages: one of them is open |
| `Launcher` | launcher, its checks, the two processes and the runtime loader |
| `MC*` | instances for TLC |
| `*_proofs` | theorems: `GalleryImport`, `GalleryOneWriter`, `GallerySearch`, `JudgeExport`, `OrganizerExport`, `Replenishment`, `BrowserPages`, `Launcher` |

Operators commented `Mutant:` are plausible bugs of the operator defined after them. No
specification uses them; replacing the operator by its mutant makes the property named with it in
`PROJECT.json` fail, which shows that the property depends on that line of the code. Variables
commented as history are not in the code; they remember what a property speaks of.

### GalleryImport

*State.* `meta` is `meta.json`; `stored` the files in `images/`; `archives` the NPZ files by number,
each complete or torn; `database` the gallery's vectors in SQLite; `op` the backend operation that
holds `_write_lock`, with the metadata it read; `tasks` the background tasks; `builds` the runs of
`build_gallery`, each with the metadata it read at its start. An embedding is a function of the
stored row, so a row stands for its vector. A uuid is a fresh number.

*Actions.* `CommitBegin`/`CommitWrite` are `_commit_import` before and at its write, with the
endpoint's scheduling of the task; `RetryBegin`/`RetryWrite` and `FailBegin`/`FailWrite` likewise.
The split is where the other process can write. `WriteRaises` ends any of them at its write: a
request fails, and a `fail_import` that raises ends its background task with it. `CallBuild`, `CallRefused`, `CallAnswersError`,
`CallAnswersOk` and `CallGivesUp` are the background task. `BuildBegin`, `BuildRefused`, `Embed`,
`ChooseGeneration`, `OpenArchive`, `SaveArchive`, `Publish`, `ReplaceDatabase` and `BuildFails` are
`build_gallery`, one step per write another process can see. `BackendRestart` and `ServiceRestart`
keep the files and lose the memory.

*Abstract specification.* `AppendOnlyGallery`: a growing sequence of images with distinct labels;
one import at a time appends its whole batch or fails and leaves the batch to retry.

### GallerySearch

*State.* What `GalleryImport` establishes is used here: a gallery is append-only with distinct
labels, so a version of it is its *length*, and a set of vectors a length and an encoder version.
`meta`, `archives`, `database` are the files; `replaces` the builds that published and have yet to
replace the rows in SQLite; `cache` and `holder` are `_gallery_cache` and the owner of its lock;
`search` has one record per open search; `migrating` is the archive a running migration saved.

*Actions.* `Publish`, `ReplaceDatabase` and `ReplaceFails` are the imports as a search sees them.
A search goes through `Ask` (backend checks; a batch reads its images here), `ReadGallery` (ML reads
`meta.json`, before the lock), `CacheHit` or `CacheMiss`, `LoadHeader` and `LoadRows` (the two
SELECTs of `load`), `CopyArchive` (SQLite does not have what the metadata describes), and `Answer`
(the backend resolves the ids). `SearchFails` is any other error. `SwitchEncoder`, `MigrateSave`,
`MigrateSwitch`, `MigrationDies` and `StartServices` are the documented change of the model bundle.

### JudgeExport and JobLedger

*State.* `active` is the slot; `status` the state in each job's `status.json`; `parts` its component
files; `incoming` the files being received under `part_upload_lock`; `request` the handler that
creates, rejects, starts or aborts a job, between its steps; `thread` is `run_job`; `output` what
the build left; `reading` and `told` are `get_job` between its two reads and its last answer.

*Actions.* One per step another thread can see: the async handlers interleave only where they
await (while a file is received), the job thread and the synchronous handlers everywhere. Every
action that writes `status.json` has a disjunct in which the write raises (`WriteRaises`), with the
error path the code takes then. `ServiceRestart` loses slot, lock, requests and threads.

*Abstract specification.* `JobLedger`: a job opens when no other is unfinished, is received or
collected, waits, runs, and ends once. `Reported` maps `status` and `active` to it the way `get_job`
does: an unfinished job that does not hold the slot is `interrupted`.

### OrganizerExport and Ranking

*State.* `output` says which run wrote each file of the folder; `csv`, `npz`, `submission`, `digest`
what is in it; `vectors` the embeddings of the split under way; `content` what each image and each
CSV of the source shows now, `held` what it showed when a CSV was inspected or an archive of images
opened. An input is its kind (a ZIP, a directory, components), the form of its CSVs (byte order mark,
padded ids, empty box), its images, `--partial`, the limit, and the scores of a query.

*Actions.* `Start` (inspection included), `Open` (archives of images stay open from here), `WriteCsv`, `EncodeBatch`, `SaveNpz`, `Export`,
`HashInput`, `TellScope`, `WriteReport`: one per file. `Stop` ends a run anywhere; a later `Start`
finds its files. `SourceChanges` replaces an image or a CSV of the source; an archive that was open
may go on showing the old ones. `Hashed` is what goes into `input_sha256`: of a ZIP the whole file with
every member it has, of any other input its CSVs and the members of the chosen records, a directory's
CSVs as they were inspected. `Ranking` has the stable order,
the refusal of cosines in descending order, and the three users of them: `ExportRow`, `BatchAnswer`
and `SearchAnswer`. The booster is any function of the sorted cosines: the code does not rely on its
trees being monotone, it checks what they answer and raises (`PolicyAnswers`), which ends the export.
The scores in the cohort are any too.

### Replenishment

*State.* `disk` the files, `pairs` the rows of the older table, `rows` those of the newer one with
their ids, `req` what each request has read and done. A name is fresh, ids are SQLite's: the largest
in use plus one. History: `deleted`, `removed`, `lost`, and `due` and `late` of a request.

*Actions.* `CreateFile`, `CreateArchive`, `CreatePair` with `WriteFile` and `CommitWrite`: the files
one by one, then the rows. The async handlers run alone on the loop from their last await (`LoopFree`);
the others run in threads and interleave at each commit. A listing is `ListFiles`, `ReadKnown`,
`ReadItems`, `CommitMigration`, `SelectRows`, then `CheckFile` for each row (the `is_file()` of
`main.py` 615, between two of which a delete may go through) and `Answer`; a delete `DeleteFile`,
`CommitDelete`, `Unlink`; a rename `RenameFile`, `CommitRename`. `Raise` ends a request anywhere,
`BackendRestart` all.

### BrowserPages

One page is open (`open`); its module says what its script does, one action per handler or
continuation after an `await`, and the other pages stay in their initial state.

- `ImportPage` (`gallery.js`): polls with their requests and timers, the buttons that upload or
  retry, what the screen says; beside it the gallery, which changes when a build ends.
- `ExportPage` (`judge_export.js`): uploads, checks with requests and timers, what is remembered and
  offered; beside it the service as `JobLedger` describes it, restarts included. Any answer may be
  missed, after the service acted or before. An abort is a request of its own: that of a failed upload
  (`Aborts`), whose answer the page does not look at, and that of the button (`AbortClicked`,
  `AbortArrives`, `AbortAnswered`, `AbortLost`), which reads the remembered job before the request
  and forgets after the answer (`clicked` is what is between). The service may answer either, or the
  end of an upload, with an error because it cannot write the state (`unstopped`); the upload is then
  over for the page while its job keeps the slot (`left`). While a part is received an abort waits for
  `part_upload_lock`.
- `ManyPage` (`many.js`): selection, table, its parsing, searches. A selection is files or one ZIP
  (`Zips`), which the page does not match and whose cards take their names from the answer; `Serve` is `search_archive` with
  the images that fail, the cohort and the positions of the answers. Names are folders, stem and
  extension; `ManifestMatching` has the two implementations that pair them with rows.
- `SoloPage` (`solo.js`): the image, the box while it is drawn, the gallery asked on focus, searches
  and the result that is shown.
- `ReplenishmentPage` (`replenishment.js`): the list as objects, changed by uploads and deletes in
  place and replaced by listings.

### Launcher

*State.* `stage` of `main`, `proc` the two processes, `known` those the launcher holds, `setting`
the faults of the artifacts and the environment (one of them is an accelerator that is too small: the
check loads on the processor by default, the service on what there is), `database` the default gallery that launcher and
service see, `request` and `runtime` the requests of a cold service at `_load_runtime`.

*Actions.* `Verify`, `Install`, `Check`, `Ports`, then for each service `Start`, `Take` (the
assignment after `Popen`), `Ask`/`Answered`/`Unanswered`/`WaitFails`, `Watch`, and `Stops`/`Stop` of
the cleanup. `Interrupt` is Ctrl+C at any step. `Client`, `Enter`, `Loaded`, `LoadFails`, `Passes`,
`Raises` are requests to the ML service, `Binds`, `Dies`, `Foreign` what else happens to ports.

## 3. Runs

Deadlock is not checked in any run: bounded instances stop when their requests are used up, and the
real services are idle when nobody asks.

| Run | Checks | Shows |
|---|---|---|
| `ImportSafety` | `ArchiveMatchesImages`, `DatabaseIsPublished`, `AppendOnly`, `ArchivesKept`, `KeepsPromise`, `ImportEnds` | with a restart of either process at any step the archive matches the metadata, nothing is lost, the protocol implements `AppendOnlyGallery`, and an import whose task survives leaves `building`; any write of the backend may raise |
| `ImportTimeouts` | `UniqueLabels` | labels stay unique even after a given-up call, when stale metadata is written back |
| `ImportLost` (violation) | `AppendOnly` | an abandoned build removes images published by the retry |
| `SearchSafety` | `SingleResolves`, `NothingMissing`, `SameEncoder`, `BatchResolves`, `SearchEnds` | see section 1; across imports, a restart, an encoder switch and its migration; no error path keeps the cache lock |
| `SearchTorn` (violation) | `NeverTorn` | an import between the two SELECTs refuses the search |
| `SearchMigrated` (violation) | `MigratedIsSearchable` | a migrated gallery is refused, because SQLite keeps the vectors of the former encoder |
| `JobSafety` | `DownloadsComplete`, `PartsFrozen`, `SlotFreed`, `KeepsLedger` | see section 1; with a write that raises and a restart |
| `JobInterrupted` (violation) | `InterruptedNotCompleted` | a completed job is reported as interrupted, and the page stops polling |
| `Replenishment` | `FilesKept`, `NoStrayFile`, `ListsTruthful`, `MigratesOnce` | see section 1; with a request that raises, or a restart, between any two writes, and deletes between the looks of a listing |
| `OrganizerExport` | `TypeOK`, `ReportTruthful`, `DigestOfEmbedded`, `AnswersAgree`, `RefusalByCosine`, `InspectedExports` | every form of input and all scores of a small gallery; a stop, a second run, an image or a CSV that changes |
| `BrowserPages` | `TypeOK`, `PollingRight`, `DownloadsRight`, `JobsHeld`, `PollsOn`, `MatchAgrees`, `CardsRight`, `SearchShown`, `ListTruth` | each page with its answers, timers and clicks in any order |
| `Launcher` | `OneModel`, `ReadyTruth`, `PreflightTruth`, `CleanExit`, `EndsTogether` | faulty artifacts, two databases, two devices, cold requests, services that die, taken ports, Ctrl+C at any step |

The violation runs are disagreements with what the repository's documents, comments or tests say;
`PROJECT.json` quotes the lines under "findings".

**Conditions in properties.** Where the code breaks the plain form of a property in a way nobody
promised otherwise, the property names the cause, and a variable remembers it: `ImportEnds` excepts
imports whose task a restart or a raising `fail_import` took away (`Stranded`), `BatchResolves` an
import during the batch, `SlotFreed` a write that raised, `NoStrayFile` a row whose id was given away
again (`lost`), `MigratesOnce` a migration that another one overtook (`late`), `DigestOfEmbedded`
asks for equal versions only of a source that did not change (`changes`), `PollingRight` polls begun
beside a request under way and answers that were overtaken (`together`, `overtaken`),
`DownloadsRight` an upload begun beside a check (`late`), `JobsHeld` missed answers, uploads begun
beside another one, a job or an abort on its way, and ends that the service could not write
(`missed`, `crossing`, `left`), `CardsRight` rows of an older table and two searches at a time
(`mixed`, `overlap`), `SearchShown` an image opened during a search (`replaced`), `ListTruth`
listings beside a change and lost answers (`crossed`, `lost`), `CleanExit` an interrupt in the
cleanup or a start and a slow kill (`hard`), `ReadyTruth` a foreign program on a port,
`PreflightTruth` a check that is switched off, two databases, or an accelerator the service takes by
itself (`setting`). Each of these causes occurs in the run: without the exception TLC shows the
property violated (section 5). `ListsTruthful` has no exception: it speaks of what a listing finds
when it looks at a file, since a delete that goes through between that and the answer is shown.

**Bounds.**

- *Import*: three labels, five kinds of upload (one image, two images, two that share a label with
  another upload, a repeated label, none), gallery minimum 2 instead of 10, three accepted requests,
  one restart. Three requests are an import, one that fails or is overtaken, and a retry; the
  minimum lets one upload be too small and two be enough. `ImportTimeouts` has one given-up call,
  which is enough for a stale writer to meet a retry.
- *Search*: two searches open at a time, a minimum of 2 images and at most 3 (4 in the violation
  runs), which gives two published generations of a searchable gallery, and a third with
  a migration; two encoders; one restart or failed migration. `MaxReplaces = 1` says that a published
  build reaches SQLite, or fails, before the next one is published; see section 5.
- *Export jobs*: two jobs, since the slot has two possible owners at most in any conflict; a part
  the build needs and an extra one; one write that raises; one restart.
- *Replenishment*: two requests at a time, one pair and one single upload, three row ids (a pair has
  two files, so that an id is given away again and a second migration adds a row twice), one request
  that raises or one restart. Requests are interchangeable (symmetry). This is the largest run: six
  and a half million states.
- *Organizer export*: a gallery of four with all raw scores 0..2, so that ties, an order of the
  cohort unlike that of the cosines and every verdict occur; three candidates judged of which one
  needs no booster, instead of ten and three; batches of three, so that a split takes two batches;
  two runs and one change of the source.
- *Pages*: three polls, two clicks and a failed request; two uploads of two jobs with two checks,
  one missed answer, one load and one request of the abort button at a time (a further click would
  send the same abort again); two selections of files, two ZIPs and three tables (one unreadable) with three
  choices and two searches; two images, two searches and five moves; one upload, one archive and two
  deletes with a lost answer. Two of each is what a race needs; the third poll is
  that of the load of the page, beside those of two clicks.
- *Launcher*: three requests, two interrupts (one that starts the cleanup and one that meets it),
  a load that fails by chance, one foreign program; services may exit at any step.

**Fairness.** Weak fairness of what runs on its own: the backend's operation under the lock and
each background task, each step of `build_gallery`, of an open search, of an export handler that
waits for no client, of `run_job`, and of the launcher itself. A search that waits for the cache
lock is only weakly fair; because the number of searches is bounded the lock cannot be taken from it
for ever. Clients, users, restarts, errors and timeouts are promised nothing: a client may never
retry, start or abort. For `EndsTogether` the launcher alone must go on: its loop looks at both
processes, and its waits are bounded.

## 4. Proofs

All theorems hold for every value of the constants, within the named assumptions only
(`*Assumption` in the modules: bounds are naturals, the value standing for nobody is not somebody,
uploads are sequences of labels, pairs and uploads are finitely many, needed parts are parts, names
are folders, stem and extension, selections are sequences of names; the ranked candidates are at
least one and no more than an export's smallest gallery, a batch has an image, an input is CSVs and
images in sequences with a whole score for each id).

- `GalleryImport_proofs`: `TypeCorrect`, `LabelsStayUnique`, `FailuresAreRetriable`, with restarts
  and any number of given-up calls. `UniqueLabels` is not inductive: a copy of the metadata read
  earlier may be written later, by either process. `CopiesInv` says that the metadata, the copy of
  the backend's operation and the copy of every build each have distinct labels, and that a copy in
  an operation that will mark the import failed has a batch. Each writer then preserves it without
  knowing who wrote in between.
- `GalleryOneWriter_proofs`: `ArchiveAlwaysMatches`, `DatabaseAlwaysPublished`, `GalleryOnlyGrows`,
  `ArchivesAreKept` and the refinement `ImportKeepsPromise`, under the assumption `MaxGiveUps = 0`.
  They fail without it (`ImportLost`). `OneWriterInv` says that only the build of the job in
  `meta.json` writes, that every copy that will be written back equals the file, and that a number
  chosen for a new archive is free; from this each write is a step of `AppendOnlyGallery` or leaves
  it unchanged.
- `GallerySearch_proofs`: `TypeCorrect`; `SinglesResolve` by `BoundedInv` (no vectors anywhere are
  more than the published images, and published images only grow), from which `BatchesResolve`
  follows for a batch that knows all that is published when it is answered; `OneEncoder` by
  `OfEncoderInv` (what is in memory is of the installed encoder, since a switch stops the services);
  `NoneMissing` by `CoveredInv` under `MaxReplaces <= 1` (each step of a search holds at least what
  the previous one promised, down to the rows of SQLite).
- `JudgeExport_proofs`: `TypeCorrect` (whoever works on a job works for the owner of the slot),
  `OneBuildRuns`, `DownloadsAreComplete`, `StatusIsOwned`, `PartsAreFrozen`. `PhaseInv` relates the
  phase of a handler or of the thread to `status.json` and to the output; it is needed because
  a handler looks at the slot and the status once and relies on them later. `JobsKeepLedger` is the
  refinement of `JobLedger`: `ThreadInv` adds that what the thread works on is queued or running, so
  that each write and each release of the slot is one step of the ledger, or none.
- `OrganizerExport_proofs`: `TypeSafe`, `ReportIsTruthful`, `DigestIsOfEmbedded`,
  `RefusesByCosine`, `AnswersDoAgree`, `InspectedDoExport`, from one invariant `IInv`. Its parts say
  which files are there at each step and that the run at work wrote them (`Folder`), that the vectors
  of a split are a beginning of its chosen records (`Embedded`), that no image or CSV shows less than
  what was seen of it (`Seeing`), and what the export, the digest and the manifest were made of
  (`Exported`, `Digested`, `Told`). The answers rest on lemmas about the operators of `Ranking`, for
  a gallery of any size: `OrderDescends` (a stable order has every position once, best first),
  `KeepOfFirst` (keeping accepted candidates and showing fewer of them commute). `Order` is a choice
  by rank, so that its lemmas are counting; where an induction is needed, it is over the least
  counterexample of a set of naturals, which the prover can do, other than the induction theorems of
  the library.
- `Replenishment_proofs`: `TypeCorrect`; `FilesAreKept` and `NoStrayFiles` by `WriterInv` (the files
  a writer brings are its own) and `StrayInv` (every file has a row, a pair or a request); `ListsAreTruthful`
  by `ListInv` (what was due is on disk and known, step by step), `RemovedInv` (names are used once,
  so a removed file does not come back, whichever of the looks of a listing it is); `PairsMigrateOnce`
  by `OnceInv` (a migration that was not overtaken knows every row of a pair). For any number of
  requests at a time, failures and restarts.
- `BrowserPages_proofs`: `TablesReadAlike` (a property of two operators: candidates of page and
  backend differ only where a bare name meets a longer row); `SearchesAreShown` by `SoloInv`;
  `DownloadsAreRight` by `DownInv` and `PollsGoOn` from the steps of a check; `JobsAreHeld` by
  `HeldInv` (each upload opened its own job, what the ledger says of that job follows where the
  upload is, and the only unfinished job is that of the upload under way, the one remembered, or one that
  an upload left), `OneInSlot` and `ClickAlone` (an abort of the button that was obeyed leaves no job to
  be forgotten, until an upload crosses its answer);
  `PollsAreRight` by `PollInv` (what is not right on the screen has a poll under way that will
  correct it). `CardsAreRight` by `ManyInv`: an answer is of the names and rows that were searched
  (`AnswersRight`), the page holds the rows of the chosen table unless an older one was parsed late (`RowsOfTable`),
  and the cards are of the only search (`CardsOfSearch`); `RepliesAreBeside` is the fact it needs of
  the service, that the n-th reply stands beside the n-th image that was readable. `ListIsTrue` by
  `FilesInv`: while no listing ran beside a change and no answer was lost, a listing is alone, and
  without one the list has each stored file once, but for what uploads and deletes under way have yet
  to add and remove (`Accounted`).
  `PagesAreTyped` by `PagesInv`, all of these together with the counts that the bounds of the types
  need. For any number of polls, jobs, uploads, images, names, rows and failures.
- `Launcher_proofs`: `TypeCorrect`, `OneModelLoaded`, `ExitsCleanly` by `StageInv` (the processes
  that run are those the launcher will stop), `ReadyIsTrue` and `ChecksAreTrue` by `ServiceInv`
  (a service that answered ready has loaded, a service that was started was checked).

*Proved and not in a run*: the type invariants of import, search, jobs, replenishment and launcher,
`OneBuild`, `StatusOwned` and `FailedCanRetry`, which are lemmas of what the runs check.

*Model-checked only*: the liveness properties (`ImportEnds`, `SearchEnds`, `SlotFreed`,
`EndsTogether`), since fairness and ENABLED are beyond the prover; and what the violation runs show.
Every invariant and every other action property of a passing run is proved.

## 5. What the code does that its documents do not say

Beyond the four findings of the violation runs, modelling showed:

- *Import.* A restart of the backend leaves the gallery in `building` for ever: the task was in
  memory, and nothing picks the import up. When `fail_import` itself cannot write (the full disk that
  failed the build is enough), its exception ends the task, and the gallery stays in `building` without
  a restart too. A given-up build that fails after it wrote progress does
  the same. An abandoned build and the build of the retry choose the same archive number, since the
  file is created after the number was looked up.
- *Search.* With two published builds on their way to SQLite (`MaxReplaces = 2`) a search caches the
  older rows as the newest generation; the window is a few milliseconds after the switch of the
  metadata, but the code does not close it. A batch resolves its candidates with the images it read
  when it was asked: after an import in between it ranks images that it cannot show.
- *Export jobs.* The first write of `run_job`, and the write in the except clauses of `upload`, hold
  the export slot until a restart when they raise (`RunBegins`, `Reject`). A component job whose
  client never learns its id, or never comes back, keeps the slot too: nothing ends `collecting`.
- *Export.* A CSV that is copied as it is keeps its byte order mark and the blanks around its ids;
  inspection reads past both, the export does not, and refuses after hours of embedding. The digest
  in `import_manifest.json` is of what the source shows after the embedding, and for a ZIP it changes
  with members and bytes that were never read.
- *Replenishment.* Two first listings at a time migrate the older pairs twice, and every file is
  shown twice. SQLite gives the id of a deleted last row away again: the second of two deletes, or
  a rename, of that row hits the next upload. A request that ends between its file and its commit
  leaves a file that no row points at. A listing may be answered with a file whose delete was answered
  before, when it had looked at the file earlier.
- *Pages.* A retry or an upload beside a poll under way makes polls multiply, and an older answer may
  stay on the screen. An upload clears the waiting timer of a check but not the check under way,
  whose answer then offers the files of the older job. Starting a component upload beside a running
  job makes the page forget that job. The abort button forgets, after its answer, whatever job is
  remembered by then: one that was accepted meanwhile is lost to the page. An abort after a failed
  upload that the service answers with an error is not noticed; the job goes on collecting, keeps the
  slot until a restart, and is forgotten. A table chosen later may be overtaken by the rows of an
  earlier one. A result is shown beside the image that was opened during the search. A delete whose
  item a listing has replaced removes the last item of the list (`splice(-1, 1)`). The batch page
  accepts some tables that the backend refuses, never the other way round.
- *Launcher.* Without `LCT_ML_DEVICE` the check of the launcher loads the model on the processor, the
  service on an accelerator if there is one, so that the first may pass and the second fail. A second Ctrl+C during the cleanup, or one between `Popen` and its assignment, leaves
  a service running, and an interrupt in a cleanup after an error ends with exit code 0. A program
  that takes a port after the check answers for the service that could not bind.

## 6. Not modelled, and why

- *Contents*: image and archive parsing, columns and number formats of tables, vectors, thresholds
  of the trees, texts and progress counts. The properties do not depend on them. Upload validation
  appears as the condition that decides whether a batch is accepted.
- *Arithmetic of the ranking*: AQE and the boosted trees are numerical; `Ranking` takes any scores
  and any booster, with the check of its answers that the code makes.
- *The default gallery*: loaded once at start and never changed by the services; `Launcher` has it
  as far as it decides whether the service starts.
- *Identification requests and `/api/upload`*: each handler is one transaction on one row, that of
  `/api/upload` after one file under a fresh name; no handler relies on another one's state, and the
  order of file and row is that of `Replenishment`.
- *Gallery images and crops*: a crop is a function of a file that never changes, made under a lock.
- *Pages without state*: `home.js`, `app.js`, `candidate_gallery.js` and `export.js` render.
- *A change of the runtime's key*: `_load_runtime` would load again for other environment variables,
  which no code of the service changes.
- *Several workers of one service*: the deployment starts one process of each, and the code's locks
  are of that process.
- *Failing to start a thread* in `start_components`: out of memory, after which the process is
  restarted.
- *Encoder, training, audits, command line tools, vendored backbone, deployment files*: numerical,
  sequential, offline, or not of this repository.

## 7. State of the plan

Done, in this order: `AppendOnlyGallery` and `GalleryImport`; `GallerySearch` on its result;
`JudgeExport` with `JobLedger`; `Replenishment`; `Ranking` and `OrganizerExport`; the pages with
`ManifestMatching`; `Launcher`; proofs of each. What is left is worth doing
when the code changes: an abstract search that ranks one published version between question and
answer, refined by `GallerySearch` once batches under `exact_cosine` read one version for all their
queries (`runtime.py` 252), and an import that is picked up after a restart, which would remove
`Stranded` from `ImportEnds`.
