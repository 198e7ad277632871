---------------------------- MODULE GalleryImport ----------------------------
(***************************************************************************)
(* The import of images into one user gallery (the UI has exactly one, the *)
(* common gallery).  Two processes share the gallery folder and no lock:   *)
(*                                                                         *)
(*   - the backend accepts an upload, moves the files into images/, and    *)
(*     rewrites meta.json under a lock of its own process; an in-memory    *)
(*     background task then asks the ML service for the embeddings and     *)
(*     marks the import failed when that call raises;                      *)
(*   - the ML service reads meta.json once, embeds the pending images one  *)
(*     by one (rewriting meta.json after each), writes a new archive file  *)
(*     gallery_NNNN.npz, switches meta.json to it and copies the vectors   *)
(*     into SQLite.                                                        *)
(*                                                                         *)
(* Every write of meta.json replaces the whole file atomically, with the   *)
(* content the writer read some steps earlier.                             *)
(***************************************************************************)
EXTENDS Naturals, Sequences, SequencesExt

CONSTANTS
    Ids,          \* gallery ids (labels) an upload can carry
    Batches,      \* the uploads a client can try: sequences of ids
    MinImages,    \* images a gallery needs to be searched (10 in the code)
    MaxRequests,  \* bound: accepted uploads and retries
    MaxCrashes,   \* bound: restarts of the backend and of the ML service
    MaxGiveUps    \* bound: build calls the backend abandons while ML works on

ASSUME BatchesAssumption == Batches \subseteq Seq(Ids)
ASSUME MinImagesAssumption == MinImages \in Nat \ {0}
ASSUME BoundsAssumption ==
    MaxRequests \in Nat /\ MaxCrashes \in Nat /\ MaxGiveUps \in Nat

VARIABLES
    meta,      \* meta.json
    stored,    \* rows whose file is in images/
    archives,  \* gallery_NNNN.npz, by generation number
    database,  \* vectors of the gallery's namespace in SQLite, <<>> for none
    op,        \* the backend operation that holds _write_lock
    tasks,     \* background tasks _finish_gallery_import, by job
    builds,    \* runs of build_gallery in the ML service, by job
    requests,  \* how many job ids and image keys have been drawn
    crashes, giveUps

vars == <<meta, stored, archives, database, op, tasks, builds,
          requests, crashes, giveUps>>

------------------------------------------------------------------------------
(* Data *)

\* uuid4 is modelled by a fresh number per accepted request: it names the
\* request's job and, together with the id, the stored file of a row.
Jobs == 1 .. MaxRequests
NoJob == 0

\* One image: its label and the key of its stored file.  The embedding is a
\* function of the stored file and bbox, so a row stands for its vector too.
Row == [id : Ids, request : Jobs]

States == {"collecting", "building", "ready", "failed"}

\* meta.json.  gallery_file and generation are always assigned together, so
\* `generation` stands for both; 0 is "no archive yet".
Meta == [state : States, images : Seq(Row), pending : Seq(Row),
         generation : Nat, processed : Nat, job : Jobs \cup {NoJob}]

InitialMeta == [state |-> "collecting", images |-> <<>>, pending |-> <<>>,
                generation |-> 0, processed |-> 0, job |-> NoJob]

Archive == [complete : BOOLEAN, rows : Seq(Row)]

IdsOf(rows) == {rows[i].id : i \in DOMAIN rows}

DistinctLabels(rows) == IsInjective([i \in DOMAIN rows |-> rows[i].id])

Idle == [kind |-> "idle", request |-> NoJob, snap |-> InitialMeta, batch |-> <<>>]

Running == {"requested", "embed", "open", "save", "publish", "replace"}

NoBuild == [pc |-> "none", snap |-> InitialMeta, rows |-> <<>>, offset |-> 0,
            generation |-> 0]

\* public_gallery: what a client is told, and what search_matches requires
SearchReady(m) == m.generation # 0 /\ Len(m.images) >= MinImages

\* Mutant: the next number, although a crash may have left an archive there
NextGenerationUnchecked(gen) == gen + 1

\* the archive number build_gallery chooses: the first free one after gen
NextGeneration(gen) ==
    CHOOSE g \in (gen + 1) .. (gen + 1 + Len(archives)) :
        /\ g \notin DOMAIN archives
        /\ \A h \in (gen + 1) .. (g - 1) : h \in DOMAIN archives

Init ==
    /\ meta = InitialMeta
    /\ stored = {}
    /\ archives = <<>>
    /\ database = <<>>
    /\ op = Idle
    /\ tasks = [j \in Jobs |-> "none"]
    /\ builds = [j \in Jobs |-> NoBuild]
    /\ requests = 0
    /\ crashes = 0
    /\ giveUps = 0

------------------------------------------------------------------------------
(* Backend: operations under _write_lock.  Each reads meta.json, works on    *)
(* the copy and writes it back; the ML service may write in between.         *)

\* The checks of _uploaded_images that decide whether a batch is accepted
ValidUpload(batch) == batch # <<>> /\ IsInjective(batch)

\* The rows an accepted upload adds, with their fresh image keys
NewRows(batch) == [i \in DOMAIN batch |-> [id |-> batch[i], request |-> requests + 1]]

\* Mutant: the ids of the failed batch are compared instead of the gallery's
NewLabelsOfBatch(rows) == IdsOf(rows) \cap IdsOf(meta.pending) = {}

\* ... and of _commit_import
NewLabels(rows) == IdsOf(rows) \cap IdsOf(meta.images) = {}

\* Mutant of CommitBegin: a running import is not refused
CommitWhileBuilding(batch) ==
    LET rows == NewRows(batch)
    IN  /\ op = Idle
        /\ requests < MaxRequests
        /\ ValidUpload(batch)
        /\ NewLabels(rows)
        /\ requests' = requests + 1
        /\ stored' = stored \cup ToSet(rows)
        /\ op' = [kind |-> "commit", request |-> requests + 1,
                  snap |-> meta, batch |-> rows]
        /\ UNCHANGED <<meta, archives, database, tasks, builds, crashes, giveUps>>

\* _commit_import up to its meta.json write: refuse a running import and a
\* known id, then move the files into images/ under fresh keys.
CommitBegin(batch) ==
    LET rows == NewRows(batch)
    IN  /\ op = Idle
        /\ requests < MaxRequests
        /\ ValidUpload(batch)
        /\ meta.state # "building"
        /\ NewLabels(rows)
        /\ requests' = requests + 1
        /\ stored' = stored \cup ToSet(rows)
        /\ op' = [kind |-> "commit", request |-> requests + 1,
                  snap |-> meta, batch |-> rows]
        /\ UNCHANGED <<meta, archives, database, tasks, builds, crashes, giveUps>>

\* The write of _commit_import or retry_import, and the background task the
\* endpoint adds for the new job.
StartImport(pending) ==
    /\ meta' = [op.snap EXCEPT !.state = "building", !.pending = pending,
                               !.processed = 0, !.job = op.request]
    /\ tasks' = [tasks EXCEPT ![op.request] = "scheduled"]
    /\ op' = Idle
    /\ UNCHANGED <<stored, archives, database, builds, requests, crashes, giveUps>>

CommitWrite == op.kind = "commit" /\ StartImport(op.batch)

RetryBegin ==
    /\ op = Idle
    /\ requests < MaxRequests
    /\ meta.state = "failed" /\ meta.pending # <<>>
    /\ requests' = requests + 1
    /\ op' = [kind |-> "retry", request |-> requests + 1,
              snap |-> meta, batch |-> <<>>]
    /\ UNCHANGED <<meta, stored, archives, database, tasks, builds, crashes, giveUps>>

RetryWrite == op.kind = "retry" /\ StartImport(op.snap.pending)

OwnsGallery(j) == meta.job = j

\* fail_import: nothing to do when another job owns the gallery by now
FailBegin(j) ==
    /\ op = Idle
    /\ tasks[j] = "failing"
    /\ tasks' = [tasks EXCEPT ![j] = "ended"]
    /\ op' = IF OwnsGallery(j)
             THEN [kind |-> "fail", request |-> j, snap |-> meta, batch |-> <<>>]
             ELSE Idle
    /\ UNCHANGED <<meta, stored, archives, database, builds, requests, crashes, giveUps>>

\* Mutant: a failed import is discarded instead of kept for a retry
FailWriteDiscards ==
    /\ op.kind = "fail"
    /\ meta' = [op.snap EXCEPT !.state = "failed", !.pending = <<>>, !.job = NoJob]
    /\ op' = Idle
    /\ UNCHANGED <<stored, archives, database, tasks, builds, requests, crashes, giveUps>>

FailWrite ==
    /\ op.kind = "fail"
    /\ meta' = [op.snap EXCEPT !.state = "failed"]
    /\ op' = Idle
    /\ UNCHANGED <<stored, archives, database, tasks, builds, requests, crashes, giveUps>>

\* _write_json raises, on a full disk: meta.json stays as it was and the lock is
\* given back.  A client sees a failed request, files already moved stay; a
\* fail_import that raises ends the background task, which nothing catches.
WriteRaises ==
    /\ op # Idle
    /\ op' = Idle
    /\ tasks' = IF op.kind = "fail" THEN [tasks EXCEPT ![op.request] = "lost"] ELSE tasks
    /\ UNCHANGED <<meta, stored, archives, database, builds, requests, crashes, giveUps>>

------------------------------------------------------------------------------
(* Backend: the background task of a job, _finish_gallery_import *)

\* POST /internal/galleries/{id}/build reaches the ML service
CallBuild(j) ==
    /\ tasks[j] = "scheduled"
    /\ tasks' = [tasks EXCEPT ![j] = "calling"]
    /\ builds' = [builds EXCEPT ![j].pc = "requested"]
    /\ UNCHANGED <<meta, stored, archives, database, op, requests, crashes, giveUps>>

\* Mutant: the exception of the call is only logged
TaskSwallows(j) ==
    /\ tasks' = [tasks EXCEPT ![j] = "ended"]
    /\ UNCHANGED <<meta, stored, archives, database, op, builds, requests, crashes>>

TaskFails(j) ==
    /\ tasks' = [tasks EXCEPT ![j] = "failing"]
    /\ UNCHANGED <<meta, stored, archives, database, op, builds, requests, crashes>>

\* the connection is refused, or the service answers 503 before it is loaded
CallRefused(j) == tasks[j] = "scheduled" /\ TaskFails(j) /\ UNCHANGED giveUps

\* raise_for_status, or the connection broken by a restart of the ML service
CallAnswersError(j) ==
    /\ tasks[j] = "calling"
    /\ builds[j].pc \in {"error", "lost"}
    /\ TaskFails(j)
    /\ UNCHANGED giveUps

CallAnswersOk(j) ==
    /\ tasks[j] = "calling"
    /\ builds[j].pc = "done"
    /\ tasks' = [tasks EXCEPT ![j] = "ended"]
    /\ UNCHANGED <<meta, stored, archives, database, op, builds, requests, crashes, giveUps>>

\* The read timeout (one hour) or a broken connection, while the ML service
\* keeps working: its handler runs in a thread nobody cancels.
CallGivesUp(j) ==
    /\ tasks[j] = "calling"
    /\ builds[j].pc \in Running
    /\ giveUps < MaxGiveUps
    /\ giveUps' = giveUps + 1
    /\ TaskFails(j)

------------------------------------------------------------------------------
(* ML service: build_gallery of a job *)

Build(j, from, to) ==
    /\ builds[j].pc = from
    /\ builds' = [builds EXCEPT ![j].pc = to]

ActiveJob(j) == OwnsGallery(j) /\ meta.state = "building" /\ meta.pending # <<>>

\* _read_gallery refuses a torn file
ArchiveReadable == meta.generation # 0 => archives[meta.generation].complete

\* Mutant: the vectors of the old archive are not carried over
CurrentRowsForgotten == <<>>

CurrentRows == IF meta.generation = 0 THEN <<>> ELSE archives[meta.generation].rows

\* Read meta.json and the vectors of the current archive
BuildBegin(j) ==
    /\ builds[j].pc = "requested"
    /\ ActiveJob(j) /\ ArchiveReadable
    /\ builds' = [builds EXCEPT ![j] = [NoBuild EXCEPT !.pc = "embed", !.snap = meta,
                                                      !.rows = CurrentRows]]
    /\ UNCHANGED <<meta, stored, archives, database, op, tasks, requests, crashes, giveUps>>

BuildRefused(j) ==
    /\ ~(ActiveJob(j) /\ ArchiveReadable)
    /\ Build(j, "requested", "error")
    /\ UNCHANGED <<meta, stored, archives, database, op, tasks, requests, crashes, giveUps>>

\* A build after it embedded one more pending image
Embedded(b) ==
    [b EXCEPT !.snap = [b.snap EXCEPT !.processed = b.offset + 1],
              !.offset = b.offset + 1,
              !.rows = Append(b.rows, b.snap.pending[b.offset + 1])]

\* Embed the next pending image and publish the progress: the whole of the
\* metadata read by BuildBegin is written again.
Embed(j) ==
    LET b == builds[j]
    IN  /\ b.pc = "embed"
        /\ b.offset < Len(b.snap.pending)
        /\ b.snap.pending[b.offset + 1] \in stored
        /\ builds' = [builds EXCEPT ![j] = Embedded(b)]
        /\ meta' = Embedded(b).snap
        /\ UNCHANGED <<stored, archives, database, op, tasks, requests, crashes, giveUps>>

\* Duplicate ids fail the build (BuildFails); otherwise look for a free generation number
ChooseGeneration(j) ==
    LET b == builds[j]
    IN  /\ b.pc = "embed"
        /\ b.offset = Len(b.snap.pending)
        /\ DistinctLabels(b.rows)
        /\ builds' = [builds EXCEPT ![j].pc = "open",
                        ![j].generation = NextGeneration(b.snap.generation)]
        /\ UNCHANGED <<meta, stored, archives, database, op, tasks, requests, crashes, giveUps>>

PutArchive(g, archive) ==
    archives' = IF g \in DOMAIN archives THEN [archives EXCEPT ![g] = archive]
                ELSE Append(archives, archive)

\* numpy.savez_compressed creates (or truncates) the file, then fills it
OpenArchive(j) ==
    /\ Build(j, "open", "save")
    /\ PutArchive(builds[j].generation, [complete |-> FALSE, rows |-> <<>>])
    /\ UNCHANGED <<meta, stored, database, op, tasks, requests, crashes, giveUps>>

\* Mutant: SQLite is replaced as soon as the archive is saved
SaveAndReplace(j) ==
    /\ Build(j, "save", "publish")
    /\ PutArchive(builds[j].generation, [complete |-> TRUE, rows |-> builds[j].rows])
    /\ database' = builds[j].rows
    /\ UNCHANGED <<meta, stored, op, tasks, requests, crashes, giveUps>>

SaveArchive(j) ==
    /\ Build(j, "save", "publish")
    /\ PutArchive(builds[j].generation, [complete |-> TRUE, rows |-> builds[j].rows])
    /\ UNCHANGED <<meta, stored, database, op, tasks, requests, crashes, giveUps>>

\* The metadata a finished build publishes
Published(b) ==
    [state |-> IF Len(b.rows) >= MinImages THEN "ready" ELSE "collecting",
     images |-> b.snap.images \o b.snap.pending, pending |-> <<>>,
     generation |-> b.generation, processed |-> 0, job |-> NoJob]

\* The metadata switch
Publish(j) ==
    LET published == Published(builds[j])
    IN  /\ builds[j].pc = "publish"
        /\ meta' = published
        /\ builds' = [builds EXCEPT ![j].pc = "replace", ![j].snap = published]
        /\ UNCHANGED <<stored, archives, database, op, tasks, requests, crashes, giveUps>>

ReplaceDatabase(j) ==
    /\ Build(j, "replace", "done")
    /\ database' = builds[j].rows
    /\ UNCHANGED <<meta, stored, archives, op, tasks, requests, crashes, giveUps>>

\* An unreadable image, a failed inference, a full disk, a locked database
BuildFails(j) ==
    /\ builds[j].pc \in Running
    /\ builds' = [builds EXCEPT ![j].pc = "error"]
    /\ UNCHANGED <<meta, stored, archives, database, op, tasks, requests, crashes, giveUps>>

------------------------------------------------------------------------------
(* Restarts: files survive, everything in memory is gone *)

\* The background task of j is under way, in its call or in fail_import
InTask(j) ==
    \/ tasks[j] \in {"scheduled", "calling", "failing"}
    \/ op.kind = "fail" /\ op.request = j

BackendRestart ==
    /\ crashes < MaxCrashes
    /\ crashes' = crashes + 1
    /\ op' = Idle
    /\ tasks' = [j \in Jobs |-> IF InTask(j) THEN "lost" ELSE tasks[j]]
    /\ UNCHANGED <<meta, stored, archives, database, builds, requests, giveUps>>

ServiceRestart ==
    /\ crashes < MaxCrashes
    /\ crashes' = crashes + 1
    /\ builds' = [j \in Jobs |-> IF builds[j].pc \in Running \/ tasks[j] = "calling"
                                 THEN [builds[j] EXCEPT !.pc = "lost"] ELSE builds[j]]
    /\ UNCHANGED <<meta, stored, archives, database, op, tasks, requests, giveUps>>

------------------------------------------------------------------------------
BackendStep(j) ==
    \/ CallBuild(j) \/ CallRefused(j) \/ CallAnswersError(j) \/ CallAnswersOk(j)
    \/ FailBegin(j)

LockStep == CommitWrite \/ RetryWrite \/ FailWrite

ServiceStep(j) ==
    \/ BuildBegin(j) \/ BuildRefused(j) \/ Embed(j) \/ ChooseGeneration(j) \/ OpenArchive(j)
    \/ SaveArchive(j) \/ Publish(j) \/ ReplaceDatabase(j)

Next ==
    \/ \E batch \in Batches : CommitBegin(batch)
    \/ RetryBegin
    \/ LockStep
    \/ WriteRaises
    \/ \E j \in Jobs : BackendStep(j) \/ CallGivesUp(j) \/ ServiceStep(j) \/ BuildFails(j)
    \/ BackendRestart
    \/ ServiceRestart

Spec == Init /\ [][Next]_vars

\* Both processes keep running their threads; clients need not come back,
\* and neither failures nor timeouts are promised.
Fairness ==
    /\ WF_vars(LockStep)
    /\ \A j \in Jobs : WF_vars(BackendStep(j)) /\ WF_vars(ServiceStep(j))

FairSpec == Spec /\ Fairness

------------------------------------------------------------------------------
(* Properties *)

BuildPhases == Running \cup {"none", "done", "error", "lost"}

OpState == [kind : {"idle", "commit", "retry", "fail"}, request : Jobs \cup {NoJob},
            snap : Meta, batch : Seq(Row)]

BuildState == [pc : BuildPhases, snap : Meta, rows : Seq(Row), offset : Nat,
               generation : Nat]

\* Type invariant of the files, the backend's memory and the service's memory.
TypeOK ==
    /\ meta \in Meta
    /\ stored \subseteq Row
    /\ archives \in Seq(Archive)
    /\ database \in Seq(Row)
    /\ op \in OpState
    /\ tasks \in [Jobs -> {"none", "scheduled", "calling", "failing", "ended", "lost"}]
    /\ builds \in [Jobs -> BuildState]
    /\ requests \in 0 .. MaxRequests
    /\ crashes \in 0 .. MaxCrashes
    /\ giveUps \in 0 .. MaxGiveUps

\* No label is ever given to two images, published or being imported, however
\* the two processes overwrite each other's metadata: gallery_items has a
\* UNIQUE constraint and a result is resolved to an image by its label.
UniqueLabels == DistinctLabels(meta.images \o meta.pending)

\* A gallery shown as failed has a batch, so retry_import accepts a retry.
FailedCanRetry == meta.state = "failed" => meta.pending # <<>>

\* The archive meta.json names is complete and holds exactly the published
\* images, in order: what a search restores after the database is lost.
ArchiveMatchesImages ==
    IF meta.generation = 0 THEN meta.images = <<>>
    ELSE /\ meta.generation \in DOMAIN archives
         /\ archives[meta.generation] = [complete |-> TRUE, rows |-> meta.images]

\* SQLite holds a published state of the gallery, possibly an older one, but
\* never vectors of images whose import has not been published.
DatabaseIsPublished == IsPrefix(database, meta.images)

\* A published image is never taken out of the gallery, and a gallery that can
\* be searched stays searchable while later imports run, fail or are retried.
AppendOnly ==
    [][/\ IsPrefix(meta.images, meta'.images)
       /\ SearchReady(meta) => SearchReady(meta')]_vars

\* "Preserve that archive": once complete, an archive is never written again.
ArchivesKept ==
    [][\A g \in DOMAIN archives : archives[g].complete => archives'[g] = archives[g]]_vars

\* The background task of j was cut off by a restart of the backend, or by a
\* fail_import that raised, and no build will publish the import
Stranded(j) == tasks[j] = "lost" /\ builds[j].pc \in {"none", "error", "lost"}

\* The background recomputation ends: ready, collecting or failed.  Nothing but
\* the loss of the task of _finish_gallery_import, to a restart of the backend
\* or to a fail_import that raises, leaves a gallery in "building"; both are
\* states of the run, and the code has nothing that repairs them.
ImportEnds == \A j \in Jobs :
    (meta.state = "building" /\ meta.job = j)
        ~> (meta.state # "building" \/ meta.job # j \/ Stranded(j))

\* The protocol as seen by the users of the gallery
Promise == INSTANCE AppendOnlyGallery WITH
    Rows <- Row,
    published <- meta.images,
    batch <- meta.pending,
    phase <- CASE meta.state = "building" -> "importing"
               [] meta.state = "failed" -> "failed"
               [] OTHER -> "open"

\* Every step of the protocol, restarts included, is a step of the promise.
KeepsPromise == Promise!Spec
==============================================================================
