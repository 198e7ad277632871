------------------------ MODULE GalleryOneWriter_proofs ------------------------
(***************************************************************************)
(* Proofs about GalleryImport when the backend never gives up a call the   *)
(* ML service still works on (MaxGiveUps = 0): restarts may happen at any  *)
(* time.  Then every copy of the metadata in use equals the file, so at    *)
(* most one writer is active: the archive meta.json names always holds the *)
(* published images, SQLite never runs ahead of them, and the protocol     *)
(* keeps the promise of AppendOnlyGallery.  With give-ups these properties *)
(* fail (run ImportLost).                                                  *)
(***************************************************************************)
EXTENDS GalleryImport_proofs

\* Phases in which a build will still write meta.json
Writing == {"embed", "open", "save", "publish"}

\* An operation under _write_lock works on what meta.json still says
OpInv ==
    /\ op.kind # "idle" => op.snap = meta
    /\ op.kind = "commit" => meta.state # "building"
    /\ op.kind = "retry" => meta.state = "failed"
    /\ op.kind \in {"commit", "retry"} =>
         op.request \in Jobs /\ op.request <= requests /\ tasks[op.request] = "none"
    /\ op.kind = "fail" =>
         /\ op.request \in Jobs /\ meta.job = op.request
         /\ tasks[op.request] = "ended" /\ builds[op.request].pc \notin Running

\* The build of a job runs only after its task called it
TasksInv == \A j \in Jobs :
    /\ j > requests => tasks[j] = "none"
    /\ tasks[j] \in {"none", "scheduled"} => builds[j].pc = "none"
    /\ tasks[j] = "failing" => builds[j].pc \notin Running

\* An import owns the gallery until it is published
JobInv == meta.job # NoJob => meta.state \in {"building", "failed"}

\* What a build b of job j knows while it will still write
WritingInv(b, j) ==
    /\ b.snap = meta /\ meta.state = "building" /\ meta.job = j
    /\ b.offset <= Len(meta.pending)
    /\ b.rows = meta.images \o SubSeq(meta.pending, 1, b.offset)
    /\ b.pc # "embed" => b.offset = Len(meta.pending)
    /\ b.pc = "open" => b.generation = Len(archives) + 1
    /\ b.pc \in {"save", "publish"} =>
         b.generation = Len(archives) /\ meta.generation < Len(archives)
    /\ b.pc = "save" => ~archives[b.generation].complete
    /\ b.pc = "publish" => archives[b.generation] = [complete |-> TRUE, rows |-> b.rows]

BuildInv(b, j) ==
    /\ b.pc \in Writing => WritingInv(b, j)
    /\ b.pc = "replace" => IsPrefix(b.rows, meta.images)

BuildsInv == \A j \in Jobs : BuildInv(builds[j], j)

OneWriterInv ==
    /\ CopiesInv
    /\ ArchiveMatchesImages /\ DatabaseIsPublished
    /\ OpInv /\ TasksInv /\ JobInv /\ BuildsInv

------------------------------------------------------------------------------
(* Prefixes *)

\* A prefix agrees with the sequence wherever it is defined.
LEMMA PrefixPointwise ==
    ASSUME NEW s \in Seq(Row), NEW t \in Seq(Row)
    PROVE  IsPrefix(s, t) <=> /\ Len(s) <= Len(t)
                              /\ \A i \in 1 .. Len(s) : s[i] = t[i]
<1>1. Len(s) \in Nat /\ Len(t) \in Nat
  OBVIOUS
<1>2. SubSeq(s, 1, Len(s)) = [i \in 1 .. Len(s) |-> s[i]]
  BY <1>1
<1>3. Len(s) <= Len(t) => SubSeq(t, 1, Len(s)) = [i \in 1 .. Len(s) |-> t[i]]
  BY <1>1
<1> QED BY <1>1, <1>2, <1>3 DEF IsPrefix

\* Every sequence of rows is a prefix of itself,
LEMMA PrefixRefl == ASSUME NEW s \in Seq(Row) PROVE IsPrefix(s, s)
  BY PrefixPointwise

\* ... and of what it is extended to.
LEMMA PrefixConcat ==
    ASSUME NEW s \in Seq(Row), NEW t \in Seq(Row), NEW u \in Seq(Row), IsPrefix(s, t)
    PROVE  IsPrefix(s, t \o u)
<1> DEFINE v == t \o u
<1>1. v \in Seq(Row) /\ Len(v) = Len(t) + Len(u) /\ \A i \in 1 .. Len(t) : v[i] = t[i]
  BY ConcatProperties
<1>2. Len(s) \in Nat /\ Len(t) \in Nat /\ Len(u) \in Nat
  OBVIOUS
<1>3. Len(s) <= Len(t) /\ \A i \in 1 .. Len(s) : s[i] = t[i]
  BY PrefixPointwise
<1> HIDE DEF v
<1>4. Len(s) <= Len(v) /\ \A i \in 1 .. Len(s) : s[i] = v[i]
  BY <1>1, <1>2, <1>3
<1>5. IsPrefix(s, v)
  BY <1>1, <1>4, PrefixPointwise
<1> QED BY <1>5 DEF v

\* The images and n rows of a batch, with the next row, are those with n + 1 rows.
LEMMA NextPrefix ==
    ASSUME NEW s \in Seq(Row), NEW t \in Seq(Row), NEW n \in Nat, n < Len(t)
    PROVE  Append(s \o SubSeq(t, 1, n), t[n + 1]) = s \o SubSeq(t, 1, n + 1)
<1> DEFINE u == SubSeq(t, 1, n)
           w == <<t[n + 1]>>
<1>1. u \in Seq(Row) /\ w \in Seq(Row) /\ s \o u \in Seq(Row)
  OBVIOUS
<1>2. SubSeq(t, 1, n + 1) = u \o w
  OBVIOUS
<1>3. Append(s \o u, t[n + 1]) = (s \o u) \o w
  BY <1>1
<1> HIDE DEF u, w
<1>4. (s \o u) \o w = s \o (u \o w)
  BY <1>1, ConcatAssociative
<1> QED BY <1>2, <1>3, <1>4 DEF u

------------------------------------------------------------------------------
(* One writer *)

\* While a build will still write, the backend holds no copy of the metadata,
\* and no other build will write.
LEMMA WriterIsAlone ==
    ASSUME OneWriterInv, NEW j \in Jobs, builds[j].pc \in Writing
    PROVE  /\ op.kind = "idle"
           /\ \A k \in Jobs \ {j} : builds[k].pc \notin Writing
<1>1. meta.state = "building" /\ meta.job = j
  BY DEF OneWriterInv, BuildsInv, BuildInv, WritingInv
<1>2. \A k \in Jobs : builds[k].pc \in Writing => meta.job = k
  BY DEF OneWriterInv, BuildsInv, BuildInv, WritingInv
<1>3. builds[j].pc \in Running
  BY DEF Writing, Running
<1>4. op.kind \in {"idle", "commit", "retry", "fail"}
  BY DEF OneWriterInv, CopiesInv, TypeOK, OpState
<1> QED BY <1>1, <1>2, <1>3, <1>4 DEF OneWriterInv, OpInv

\* While the backend edits its copy, no build will write.
LEMMA EditorIsAlone ==
    ASSUME OneWriterInv, op.kind # "idle"
    PROVE  \A k \in Jobs : builds[k].pc \notin Writing
  BY WriterIsAlone

\* A build's knowledge only depends on the metadata and the archives.
LEMMA BuildInvKept ==
    ASSUME NEW j \in Jobs, BuildInv(builds[j], j), builds'[j] = builds[j],
           UNCHANGED <<meta, archives>>
    PROVE  BuildInv(builds[j], j)'
  BY DEF BuildInv, WritingInv

\* ... and a build that will not write only needs the gallery to grow.
LEMMA ReaderInvKept ==
    ASSUME TypeOK, TypeOK', NEW j \in Jobs, BuildInv(builds[j], j),
           builds[j].pc \notin Writing, builds'[j].pc \in {builds[j].pc, "error", "lost", "done"},
           builds'[j].rows = builds[j].rows,
           \/ meta'.images = meta.images
           \/ \E rows \in Seq(Row) : meta'.images = meta.images \o rows
    PROVE  BuildInv(builds[j], j)'
<1>1. builds'[j].pc \notin Writing
  BY DEF Writing
<1>2. meta.images \in Seq(Row) /\ builds[j].rows \in Seq(Row)
  BY DEF TypeOK, Meta, BuildState
<1>3. IsPrefix(builds[j].rows, meta.images) => IsPrefix(builds'[j].rows, meta'.images)
  BY <1>2, PrefixConcat
<1> QED BY <1>1, <1>3 DEF BuildInv

\* The invariant holds of an empty gallery.
LEMMA InitOneWriter == Init => OneWriterInv
<1> SUFFICES ASSUME Init PROVE OneWriterInv
  OBVIOUS
<1>1. CopiesInv
  BY InitCopies
<1>2. ArchiveMatchesImages
  BY DEF Init, InitialMeta, ArchiveMatchesImages
<1>3. DatabaseIsPublished
  BY DEF Init, InitialMeta, DatabaseIsPublished, IsPrefix
<1>4. OpInv /\ TasksInv /\ JobInv
  BY DEF Init, Idle, OpInv, TasksInv, JobInv, NoBuild, InitialMeta, Running
<1>5. BuildsInv
  BY DEF Init, BuildsInv, BuildInv, NoBuild, Writing
<1> QED BY <1>1, <1>2, <1>3, <1>4, <1>5 DEF OneWriterInv

\* The parts of the invariant that the step of an operation can disturb
Rest == ArchiveMatchesImages /\ DatabaseIsPublished /\ OpInv /\ TasksInv /\ JobInv /\ BuildsInv

\* Facts every case of the step uses
StepContext ==
    /\ MaxGiveUps = 0
    /\ OneWriterInv /\ TypeOK /\ TypeOK'

\* The types of the parts the steps below are about.
LEMMA Types ==
    ASSUME TypeOK
    PROVE  /\ meta \in Meta /\ op.snap \in Meta /\ op.batch \in Seq(Row)
           /\ op.request \in Jobs \cup {NoJob} /\ archives \in Seq(Archive)
           /\ meta.images \in Seq(Row) /\ meta.pending \in Seq(Row)
           /\ meta.generation \in Nat /\ database \in Seq(Row) /\ requests \in Nat
           /\ \A j \in Jobs : /\ builds[j] \in BuildState /\ builds[j].snap \in Meta
                              /\ builds[j].rows \in Seq(Row) /\ builds[j].offset \in Nat
                              /\ builds[j].generation \in Nat /\ j \in Nat
<1>1. meta \in Meta /\ op \in OpState /\ builds \in [Jobs -> BuildState]
      /\ archives \in Seq(Archive) /\ database \in Seq(Row) /\ requests \in 0 .. MaxRequests
  BY DEF TypeOK
<1>2. meta.images \in Seq(Row) /\ meta.pending \in Seq(Row) /\ meta.generation \in Nat
  BY <1>1 DEF Meta
<1>3. op.snap \in Meta /\ op.batch \in Seq(Row) /\ op.request \in Jobs \cup {NoJob}
  BY <1>1 DEF OpState
<1>4. requests \in Nat /\ \A j \in Jobs : j \in Nat
  BY <1>1, BoundsAssumption DEF Jobs
<1>5. ASSUME NEW j \in Jobs
      PROVE  /\ builds[j] \in BuildState /\ builds[j].snap \in Meta
             /\ builds[j].rows \in Seq(Row) /\ builds[j].offset \in Nat
             /\ builds[j].generation \in Nat
  <2>1. builds[j] \in BuildState
    BY <1>1
  <2> QED BY <2>1 DEF BuildState
<1> QED BY <1>1, <1>2, <1>3, <1>4, <1>5

\* Steps of the backend that take its lock
LEMMA BeginStep ==
    ASSUME StepContext,
           \/ \E batch \in Batches : CommitBegin(batch)
           \/ RetryBegin
    PROVE  Rest'
<1>1. UNCHANGED <<meta, archives, database, tasks, builds>> /\ op.kind = "idle"
  BY DEF CommitBegin, RetryBegin, Idle
<1>2. requests' = requests + 1 /\ requests + 1 \in Jobs /\ requests \in Nat
      /\ op'.snap = meta /\ op'.request = requests + 1
      /\ \/ op'.kind = "commit" /\ meta.state # "building"
         \/ op'.kind = "retry" /\ meta.state = "failed"
  BY BoundsAssumption, Types DEF CommitBegin, RetryBegin, StepContext, Jobs
<1>3. (ArchiveMatchesImages /\ DatabaseIsPublished /\ JobInv)'
  BY <1>1 DEF StepContext, OneWriterInv, ArchiveMatchesImages, DatabaseIsPublished, JobInv
<1>4. TasksInv'
  BY <1>1, <1>2, Types DEF StepContext, OneWriterInv, TasksInv
<1>5. tasks[requests + 1] = "none"
  BY <1>2 DEF StepContext, OneWriterInv, TasksInv
<1>6. OpInv'
  BY <1>1, <1>2, <1>5 DEF OpInv
<1>7. BuildsInv'
  BY <1>1, BuildInvKept DEF StepContext, OneWriterInv, BuildsInv
<1> QED BY <1>3, <1>4, <1>6, <1>7 DEF Rest

\* The write of the backend leaves the images and the archive alone.
LEMMA WriteStep ==
    ASSUME StepContext, op.kind # "idle",
           meta'.images = op.snap.images, meta'.generation = op.snap.generation,
           UNCHANGED <<archives, database, builds>>
    PROVE  (ArchiveMatchesImages /\ DatabaseIsPublished /\ BuildsInv)'
<1>1. meta'.images = meta.images /\ meta'.generation = meta.generation
  BY DEF StepContext, OneWriterInv, OpInv
<1>2. (ArchiveMatchesImages /\ DatabaseIsPublished)'
  BY <1>1 DEF StepContext, OneWriterInv, ArchiveMatchesImages, DatabaseIsPublished
<1>3. \A j \in Jobs : builds[j].pc \notin Writing
  BY EditorIsAlone DEF StepContext
<1>4. BuildsInv'
  BY <1>1, <1>3, ReaderInvKept DEF StepContext, OneWriterInv, BuildsInv
<1> QED BY <1>2, <1>4

\* start_import: the images stay, the state becomes processing.
LEMMA StartStep ==
    ASSUME StepContext, op.kind \in {"commit", "retry"}, NEW rows \in Seq(Row), StartImport(rows)
    PROVE  Rest'
<1>1. op.request \in Jobs /\ op.request <= requests /\ tasks[op.request] = "none"
  BY DEF StepContext, OneWriterInv, OpInv
<1>2. meta'.images = op.snap.images /\ meta'.generation = op.snap.generation
      /\ meta'.state = "building" /\ meta'.job = op.request
  BY Types DEF StepContext, StartImport, Meta
<1>3. (ArchiveMatchesImages /\ DatabaseIsPublished /\ BuildsInv)'
  BY <1>2, WriteStep DEF StartImport
<1>4. JobInv'
  BY <1>2 DEF JobInv
<1>5. OpInv'
  BY DEF StartImport, Idle, OpInv
<1>6. /\ UNCHANGED <<requests, builds>>
      /\ tasks'[op.request] = "scheduled"
      /\ \A k \in Jobs \ {op.request} : tasks'[k] = tasks[k]
  BY <1>1 DEF StartImport, StepContext, TypeOK
<1>7. /\ builds[op.request].pc = "none"
      /\ \A j \in Jobs : j = op.request => ~(j > requests)
  BY <1>1, Types DEF StepContext, OneWriterInv, TasksInv
<1>8. ASSUME NEW j \in Jobs
      PROVE  /\ j > requests' => tasks'[j] = "none"
             /\ tasks'[j] \in {"none", "scheduled"} => builds'[j].pc = "none"
             /\ tasks'[j] = "failing" => builds'[j].pc \notin Running
  <2>1. CASE j = op.request
    BY <1>6, <1>7, <2>1
  <2>2. CASE j # op.request
    BY <1>6, <2>2 DEF StepContext, OneWriterInv, TasksInv
  <2> QED BY <2>1, <2>2
<1>9. TasksInv'
  BY <1>8 DEF TasksInv
<1> QED BY <1>3, <1>4, <1>5, <1>9 DEF Rest

\* The write of a failure: the images stay, the batch can be retried.
LEMMA FailWriteStep ==
    ASSUME StepContext, FailWrite PROVE Rest'
<1>1. op.kind = "fail" /\ op.snap = meta
  BY DEF FailWrite, StepContext, OneWriterInv, OpInv
<1>2. meta'.images = op.snap.images /\ meta'.generation = op.snap.generation
      /\ meta'.state = "failed"
  BY Types DEF StepContext, FailWrite, Meta
<1>3. (ArchiveMatchesImages /\ DatabaseIsPublished /\ BuildsInv)'
  BY <1>1, <1>2, WriteStep DEF FailWrite
<1>4. JobInv' /\ OpInv'
  BY <1>2 DEF JobInv, OpInv, FailWrite, Idle
<1>5. TasksInv'
  BY DEF FailWrite, StepContext, OneWriterInv, TasksInv
<1> QED BY <1>3, <1>4, <1>5 DEF Rest

\* A write that raises: the files stay, the lock is given back.
LEMMA WriteRaisesStep ==
    ASSUME StepContext, WriteRaises PROVE Rest'
<1>1. UNCHANGED <<meta, archives, database, builds, requests>> /\ op' = Idle
      /\ \A k \in Jobs : tasks'[k] = tasks[k] \/ (tasks[k] = "ended" /\ tasks'[k] = "lost")
  BY DEF WriteRaises, StepContext, TypeOK, OneWriterInv, OpInv
<1>2. (ArchiveMatchesImages /\ DatabaseIsPublished /\ JobInv)'
  BY <1>1 DEF StepContext, OneWriterInv, ArchiveMatchesImages, DatabaseIsPublished, JobInv
<1>3. OpInv'
  BY <1>1 DEF Idle, OpInv
<1>4. TasksInv'
  BY <1>1 DEF StepContext, OneWriterInv, TasksInv
<1>5. BuildsInv'
  BY <1>1, BuildInvKept DEF StepContext, OneWriterInv, BuildsInv
<1> QED BY <1>2, <1>3, <1>4, <1>5 DEF Rest

\* Steps of a background task
LEMMA TaskStep ==
    ASSUME StepContext, NEW j \in Jobs, BackendStep(j)
    PROVE  Rest'
<1>1. /\ UNCHANGED <<meta, archives, database, requests>>
      /\ \A k \in Jobs \ {j} : tasks'[k] = tasks[k] /\ builds'[k] = builds[k]
      /\ tasks[j] # "none" /\ tasks'[j] \in {"calling", "failing", "ended"}
  BY DEF StepContext, TypeOK, BackendStep, CallBuild, CallRefused, CallAnswersError,
         CallAnswersOk, TaskFails, FailBegin
<1>2. ~(j > requests) /\ (tasks[j] = "scheduled" => builds[j].pc = "none")
      /\ (tasks[j] = "failing" => builds[j].pc \notin Running)
  BY <1>1 DEF StepContext, OneWriterInv, TasksInv
<1>3. builds'[j] = builds[j] \/ (builds[j].pc = "none" /\ builds'[j].pc = "requested"
                                  /\ tasks'[j] = "calling" /\ tasks[j] = "scheduled")
  BY <1>2 DEF StepContext, TypeOK, BuildState, BackendStep, CallBuild, CallRefused,
              CallAnswersError, CallAnswersOk, TaskFails, FailBegin
<1>4. tasks'[j] = "failing" => builds'[j].pc \notin Running
  BY <1>2 DEF StepContext, TypeOK, BackendStep, CallBuild, CallRefused, CallAnswersError,
              CallAnswersOk, TaskFails, FailBegin, Running
<1>5. (ArchiveMatchesImages /\ DatabaseIsPublished /\ JobInv)'
  BY <1>1 DEF StepContext, OneWriterInv, ArchiveMatchesImages, DatabaseIsPublished, JobInv
<1>6. TasksInv'
  BY <1>1, <1>2, <1>4 DEF StepContext, OneWriterInv, TasksInv
<1>7. BuildsInv'
  <2>1. BuildInv(builds[j], j)'
    BY <1>1, <1>3, BuildInvKept DEF StepContext, OneWriterInv, BuildsInv, BuildInv, Writing
  <2>2. \A k \in Jobs \ {j} : BuildInv(builds[k], k)'
    BY <1>1, BuildInvKept DEF StepContext, OneWriterInv, BuildsInv
  <2> QED BY <2>1, <2>2 DEF BuildsInv
<1>8. OpInv'
  <2>1. CASE FailBegin(j)
    <3>1. CASE OwnsGallery(j)
      <4>1. op' = [kind |-> "fail", request |-> j, snap |-> meta, batch |-> <<>>]
            /\ meta.job = j /\ tasks'[j] = "ended" /\ builds' = builds /\ tasks[j] = "failing"
        BY <2>1, <3>1 DEF FailBegin, OwnsGallery, StepContext, TypeOK
      <4> QED BY <1>1, <1>2, <4>1 DEF OpInv
    <3>2. CASE ~OwnsGallery(j)
      BY <2>1, <3>2 DEF FailBegin, Idle, OpInv
    <3> QED BY <3>1, <3>2
  <2>2. CASE ~FailBegin(j)
    <3>1. op' = op
      BY <2>2 DEF BackendStep, CallBuild, CallRefused, CallAnswersError, CallAnswersOk, TaskFails
    <3>2. op.kind = "fail" /\ op.request = j => tasks'[j] = "ended" /\ builds'[j] = builds[j]
      BY <1>3, <2>2 DEF StepContext, OneWriterInv, OpInv, BackendStep, CallBuild, CallRefused,
              CallAnswersError, CallAnswersOk, TaskFails
    <3>3. op.kind \in {"commit", "retry"} => op.request # j
      BY <1>1 DEF StepContext, OneWriterInv, OpInv
    <3>4. op.kind # "idle" => op.kind \in {"commit", "retry", "fail"}
      BY DEF StepContext, TypeOK, OpState
    <3> QED BY <1>1, <3>1, <3>2, <3>3, <3>4 DEF StepContext, OneWriterInv, OpInv
  <2> QED BY <2>1, <2>2
<1> QED BY <1>5, <1>6, <1>7, <1>8 DEF Rest

\* Restarts drop every copy of a process at once.
LEMMA RestartStep ==
    ASSUME StepContext, BackendRestart \/ ServiceRestart
    PROVE  Rest'
<1>1. UNCHANGED <<meta, archives, database, requests>>
  BY DEF BackendRestart, ServiceRestart
<1>2. (ArchiveMatchesImages /\ DatabaseIsPublished /\ JobInv)'
  BY <1>1 DEF StepContext, OneWriterInv, ArchiveMatchesImages, DatabaseIsPublished, JobInv
<1>3. CASE BackendRestart
  <2>1. builds' = builds /\ op' = Idle
        /\ \A j \in Jobs : tasks'[j] = tasks[j] \/ (tasks[j] # "none" /\ tasks'[j] = "lost")
    BY <1>3 DEF BackendRestart, InTask, StepContext, OneWriterInv, OpInv
  <2>2. OpInv'
    BY <2>1 DEF OpInv, Idle
  <2>3. TasksInv'
    BY <1>1, <2>1 DEF StepContext, OneWriterInv, TasksInv
  <2>4. BuildsInv'
    BY <1>1, <2>1, BuildInvKept DEF StepContext, OneWriterInv, BuildsInv
  <2> QED BY <1>2, <2>2, <2>3, <2>4 DEF Rest
<1>4. CASE ServiceRestart
  <2>1. UNCHANGED <<op, tasks>>
        /\ \A j \in Jobs : /\ builds'[j] = builds[j] \/ builds'[j].pc = "lost"
                           /\ tasks[j] \in {"none", "scheduled"} => builds'[j] = builds[j]
    <3>1. \A j \in Jobs : tasks[j] \in {"none", "scheduled"} => builds[j].pc \notin Running
      BY DEF StepContext, OneWriterInv, TasksInv, Running
    <3>2. \A j \in Jobs : [builds[j] EXCEPT !.pc = "lost"].pc = "lost"
      BY DEF StepContext, TypeOK, BuildState
    <3> QED BY <1>4, <3>1, <3>2 DEF ServiceRestart
  <2>2. OpInv'
    BY <1>1, <2>1 DEF StepContext, OneWriterInv, OpInv, Running
  <2>3. TasksInv'
    BY <1>1, <2>1 DEF StepContext, OneWriterInv, TasksInv, Running
  <2>4. ASSUME NEW j \in Jobs PROVE BuildInv(builds[j], j)'
    BY <1>1, <2>1, BuildInvKept DEF StepContext, OneWriterInv, BuildsInv, BuildInv, Writing
  <2> QED BY <1>2, <2>2, <2>3, <2>4 DEF Rest, BuildsInv
<1> QED BY <1>3, <1>4

------------------------------------------------------------------------------
(* The ML service *)

\* A step of a build touches neither the backend's memory nor the phase its
\* task waits for.
LEMMA BuildStep ==
    ASSUME StepContext, NEW j \in Jobs, builds[j].pc \in Running, builds'[j].pc # "none",
           \A k \in Jobs \ {j} : builds'[k] = builds[k],
           UNCHANGED <<tasks, op, requests>>,
           builds[j].pc \notin Writing => meta' = meta
    PROVE  (OpInv /\ TasksInv)'
<1>1. tasks[j] \notin {"none", "scheduled", "failing"}
  BY DEF StepContext, OneWriterInv, TasksInv, Running
<1>2. TasksInv'
  BY <1>1 DEF StepContext, OneWriterInv, TasksInv
<1>3. op.kind = "idle" \/ meta' = meta
  BY WriterIsAlone DEF StepContext
<1>4. op.kind = "fail" => op.request # j
  BY DEF StepContext, OneWriterInv, OpInv
<1>5. OpInv'
  BY <1>3, <1>4 DEF StepContext, OneWriterInv, OpInv
<1> QED BY <1>2, <1>5

\* The ML service reads the metadata and begins a build.
LEMMA BuildBeginStep ==
    ASSUME StepContext, NEW j \in Jobs, BuildBegin(j) PROVE Rest'
<1>1. UNCHANGED <<meta, archives, database, op, tasks, requests>>
      /\ builds[j].pc = "requested" /\ meta.job = j /\ meta.state = "building"
      /\ \A k \in Jobs \ {j} : builds'[k] = builds[k]
  BY DEF BuildBegin, ActiveJob, OwnsGallery, StepContext, TypeOK
<1>2. /\ builds'[j].pc = "embed" /\ builds'[j].snap = meta
      /\ builds'[j].rows = CurrentRows /\ builds'[j].offset = 0
  BY DEF BuildBegin, NoBuild, StepContext, TypeOK
<1>3. CurrentRows = meta.images
  BY DEF StepContext, OneWriterInv, ArchiveMatchesImages, CurrentRows
<1>4. meta.images \o SubSeq(meta.pending, 1, 0) = meta.images
  BY Types, ConcatEmptySeq, SubSeqEmpty DEF StepContext
<1>5. 0 <= Len(meta.pending)
  BY Types DEF StepContext
<1>6. BuildInv(builds[j], j)'
  <2>1. WritingInv(builds[j], j)'
    BY <1>1, <1>2, <1>3, <1>4, <1>5 DEF WritingInv
  <2> QED BY <1>2, <2>1 DEF BuildInv
<1>7. \A k \in Jobs \ {j} : BuildInv(builds[k], k)'
  BY <1>1, BuildInvKept DEF StepContext, OneWriterInv, BuildsInv
<1>8. (OpInv /\ TasksInv)'
  BY <1>1, <1>2, BuildStep DEF Running
<1>9. (ArchiveMatchesImages /\ DatabaseIsPublished /\ JobInv)'
  BY <1>1 DEF StepContext, OneWriterInv, ArchiveMatchesImages, DatabaseIsPublished, JobInv
<1> QED BY <1>6, <1>7, <1>8, <1>9 DEF Rest, BuildsInv

\* A build is refused, or fails at any step.
LEMMA BuildEndsStep ==
    ASSUME StepContext, NEW j \in Jobs, BuildRefused(j) \/ BuildFails(j) PROVE Rest'
<1>1. UNCHANGED <<meta, archives, database, op, tasks, requests>>
      /\ builds[j].pc \in Running /\ builds'[j].pc = "error"
      /\ \A k \in Jobs \ {j} : builds'[k] = builds[k]
  BY DEF BuildRefused, Build, BuildFails, StepContext, TypeOK, BuildState, Running
<1>2. BuildInv(builds[j], j)'
  BY <1>1 DEF BuildInv, Writing
<1>3. BuildsInv'
  BY <1>1, <1>2, BuildInvKept DEF StepContext, OneWriterInv, BuildsInv
<1>4. (OpInv /\ TasksInv)'
  BY <1>1, BuildStep
<1>5. (ArchiveMatchesImages /\ DatabaseIsPublished /\ JobInv)'
  BY <1>1 DEF StepContext, OneWriterInv, ArchiveMatchesImages, DatabaseIsPublished, JobInv
<1> QED BY <1>3, <1>4, <1>5 DEF Rest

\* The build embeds one image and writes its progress to meta.json.
LEMMA EmbedStep ==
    ASSUME StepContext, NEW j \in Jobs, Embed(j) PROVE Rest'
<1> DEFINE b == builds[j]
           c == builds'[j]
<1>0. b \in BuildState /\ b.snap \in Meta /\ b.offset \in Nat /\ b.rows \in Seq(Row)
      /\ meta \in Meta /\ meta.images \in Seq(Row) /\ meta.pending \in Seq(Row)
  BY Types DEF StepContext
<1>1. UNCHANGED <<archives, database, op, tasks, requests>> /\ b.pc = "embed"
      /\ c = Embedded(b) /\ meta' = c.snap /\ b.offset < Len(b.snap.pending)
      /\ \A k \in Jobs \ {j} : builds'[k] = builds[k]
  BY DEF Embed, StepContext, TypeOK
<1>2. WritingInv(b, j)
  BY <1>1 DEF StepContext, OneWriterInv, BuildsInv, BuildInv, Writing
<1>3. /\ c.pc = "embed" /\ c.offset = b.offset + 1
      /\ c.rows = Append(b.rows, b.snap.pending[b.offset + 1])
      /\ c.snap = [b.snap EXCEPT !.processed = b.offset + 1]
  BY <1>0, <1>1 DEF Embedded, BuildState
<1>4. /\ meta'.images = meta.images /\ meta'.pending = meta.pending
      /\ meta'.generation = meta.generation /\ meta'.job = meta.job /\ meta'.state = meta.state
  BY <1>0, <1>1, <1>2, <1>3 DEF WritingInv, Meta
<1>5. c.rows = meta.images \o SubSeq(meta.pending, 1, c.offset) /\ c.offset <= Len(meta.pending)
  <2>1. b.offset < Len(meta.pending) /\ b.snap.pending = meta.pending
        /\ b.rows = meta.images \o SubSeq(meta.pending, 1, b.offset)
    BY <1>1, <1>2 DEF WritingInv
  <2>2. Append(meta.images \o SubSeq(meta.pending, 1, b.offset), meta.pending[b.offset + 1])
          = meta.images \o SubSeq(meta.pending, 1, b.offset + 1)
    BY <1>0, <2>1, NextPrefix
  <2>3. c.rows = Append(meta.images \o SubSeq(meta.pending, 1, b.offset), meta.pending[b.offset + 1])
    BY <1>3, <2>1
  <2>4. c.offset <= Len(meta.pending)
    BY <1>0, <1>3, <2>1
  <2>5. c.rows = meta.images \o SubSeq(meta.pending, 1, c.offset)
    BY <1>3, <2>2, <2>3, Zenon
  <2> QED BY <2>4, <2>5
<1>6. BuildInv(builds[j], j)'
  BY <1>1, <1>2, <1>3, <1>4, <1>5 DEF BuildInv, WritingInv
<1>7. \A k \in Jobs \ {j} : builds[k].pc \notin Writing
  BY <1>1, WriterIsAlone DEF StepContext, Writing
<1>8. \A k \in Jobs \ {j} : BuildInv(builds[k], k)'
  BY <1>1, <1>4, <1>7, ReaderInvKept DEF StepContext, OneWriterInv, BuildsInv
<1>9. (OpInv /\ TasksInv)'
  BY <1>1, <1>3, <1>4, BuildStep DEF Running, Writing
<1>10. (ArchiveMatchesImages /\ DatabaseIsPublished /\ JobInv)'
  BY <1>1, <1>4 DEF StepContext, OneWriterInv, ArchiveMatchesImages, DatabaseIsPublished, JobInv
<1> QED BY <1>6, <1>8, <1>9, <1>10 DEF Rest, BuildsInv

\* The build picks a number no archive has.
LEMMA ChooseGenerationStep ==
    ASSUME StepContext, NEW j \in Jobs, ChooseGeneration(j) PROVE Rest'
<1> DEFINE b == builds[j]
           c == builds'[j]
<1>1. UNCHANGED <<meta, archives, database, op, tasks, requests>> /\ b.pc = "embed"
      /\ b.offset = Len(b.snap.pending)
      /\ \A k \in Jobs \ {j} : builds'[k] = builds[k]
  BY DEF ChooseGeneration, StepContext, TypeOK
<1>2. WritingInv(b, j)
  BY <1>1 DEF StepContext, OneWriterInv, BuildsInv, BuildInv, Writing
<1>3. NextGeneration(b.snap.generation) = Len(archives) + 1
  BY Types, NextGenerationIsNext DEF StepContext, OneWriterInv, CopiesInv, BuildsWellFormed,
                                     Known, Meta
<1>4. /\ c.pc = "open" /\ c.generation = Len(archives) + 1
      /\ c.snap = b.snap /\ c.offset = b.offset /\ c.rows = b.rows
  BY <1>3 DEF ChooseGeneration, StepContext, TypeOK, BuildState
<1>5. BuildInv(builds[j], j)' /\ \A k \in Jobs \ {j} : BuildInv(builds[k], k)'
  BY <1>1, <1>2, <1>4, BuildInvKept
     DEF StepContext, OneWriterInv, BuildsInv, BuildInv, WritingInv
<1>6. (OpInv /\ TasksInv)'
  BY <1>1, <1>4, BuildStep DEF Running
<1>7. (ArchiveMatchesImages /\ DatabaseIsPublished /\ JobInv)'
  BY <1>1 DEF StepContext, OneWriterInv, ArchiveMatchesImages, DatabaseIsPublished, JobInv
<1> QED BY <1>5, <1>6, <1>7 DEF Rest, BuildsInv

\* The archive being written is not the one the metadata names.
LEMMA WriteArchiveStep ==
    ASSUME StepContext, NEW j \in Jobs, NEW archive \in Archive,
           NEW from \in {"open", "save"}, NEW to \in {"save", "publish"},
           Build(j, from, to), PutArchive(builds[j].generation, archive),
           from = "open" => to = "save",
           to = "save" => ~archive.complete,
           to = "publish" => archive = [complete |-> TRUE, rows |-> builds[j].rows],
           UNCHANGED <<meta, stored, database, op, tasks, requests>>
    PROVE  Rest'
<1> DEFINE b == builds[j]
           c == builds'[j]
           g == b.generation
<1>0. /\ archives \in Seq(Archive) /\ Len(archives) \in Nat /\ meta.generation \in Nat
      /\ g \in Nat
  BY Types DEF StepContext
<1>1. /\ b.pc = from /\ c.pc = to
      /\ c.generation = g /\ c.snap = b.snap /\ c.offset = b.offset /\ c.rows = b.rows
      /\ \A k \in Jobs \ {j} : builds'[k] = builds[k]
  BY DEF Build, StepContext, TypeOK, BuildState
<1>2. WritingInv(b, j)
  BY <1>1 DEF StepContext, OneWriterInv, BuildsInv, BuildInv, Writing
<1>3. meta.generation <= Len(archives)
  BY DEF StepContext, OneWriterInv, CopiesInv, Known
<1>4. /\ g \in 1 .. Len(archives) + 1 /\ meta.generation < g
      /\ from = "open" => g = Len(archives) + 1
      /\ from = "save" => g = Len(archives)
  BY <1>0, <1>1, <1>2, <1>3 DEF WritingInv
<1>5. /\ archives' \in Seq(Archive) /\ Len(archives') = g /\ archives'[g] = archive
      /\ \A h \in 1 .. Len(archives) : h # g => archives'[h] = archives[h]
  <2>1. CASE from = "open"
    BY <1>0, <1>4, <2>1, PutArchiveType
  <2>2. CASE from = "save"
    BY <1>0, <1>4, <2>2, PutArchiveType
  <2> QED BY <2>1, <2>2
<1>6. BuildInv(builds[j], j)'
  BY <1>1, <1>2, <1>4, <1>5 DEF BuildInv, WritingInv
<1>7. \A k \in Jobs \ {j} : builds[k].pc \notin Writing
  BY <1>1, WriterIsAlone DEF StepContext, Writing
<1>8. \A k \in Jobs \ {j} : BuildInv(builds[k], k)'
  BY <1>1, <1>7, ReaderInvKept DEF StepContext, OneWriterInv, BuildsInv
<1>9. ArchiveMatchesImages'
  <2>1. CASE meta.generation = 0
    BY <2>1 DEF StepContext, OneWriterInv, ArchiveMatchesImages
  <2>2. CASE meta.generation # 0
    <3>1. meta.generation \in 1 .. Len(archives) /\ meta.generation # g
      BY <1>0, <1>3, <1>4, <2>2
    <3>2. archives'[meta.generation] = archives[meta.generation]
          /\ meta.generation \in DOMAIN archives'
      BY <1>0, <1>4, <1>5, <3>1
    <3> QED BY <2>2, <3>2 DEF StepContext, OneWriterInv, ArchiveMatchesImages
  <2> QED BY <2>1, <2>2
<1>10. (OpInv /\ TasksInv)'
  BY <1>1, BuildStep DEF Running
<1>11. DatabaseIsPublished' /\ JobInv'
  BY DEF StepContext, OneWriterInv, DatabaseIsPublished, JobInv
<1> QED BY <1>6, <1>8, <1>9, <1>10, <1>11 DEF Rest, BuildsInv

\* What a build publishes: the old images and then the whole batch.
LEMMA PublishedImages ==
    ASSUME StepContext, NEW j \in Jobs, Publish(j)
    PROVE  /\ meta'.images = meta.images \o meta.pending
           /\ meta'.images = builds[j].rows
           /\ meta'.pending = <<>> /\ meta'.job = NoJob
           /\ meta'.state \in {"ready", "collecting"}
           /\ meta'.generation = Len(archives) /\ meta'.generation # 0
           /\ archives[meta'.generation] = [complete |-> TRUE, rows |-> meta'.images]
           /\ meta.state = "building" /\ meta.job = j
<1> DEFINE b == builds[j]
<1>0. /\ b \in BuildState /\ meta.pending \in Seq(Row) /\ Len(archives) \in Nat
      /\ meta.generation \in Nat
  BY Types DEF StepContext
<1>1. b.pc = "publish" /\ meta' = Published(b)
  BY DEF Publish
<1>2. WritingInv(b, j)
  BY <1>1 DEF StepContext, OneWriterInv, BuildsInv, BuildInv, Writing
<1>3. b.rows = meta.images \o meta.pending
  BY <1>0, <1>1, <1>2, SubSeqFull DEF WritingInv
<1>4. b.snap = meta /\ b.generation = Len(archives) /\ b.generation # 0
      /\ archives[b.generation] = [complete |-> TRUE, rows |-> b.rows]
      /\ meta.state = "building" /\ meta.job = j
  BY <1>0, <1>1, <1>2 DEF WritingInv
<1> QED BY <1>1, <1>3, <1>4 DEF Published

\* The build replaces meta.json: the archive is the one it wrote.
LEMMA PublishStep ==
    ASSUME StepContext, NEW j \in Jobs, Publish(j) PROVE Rest'
<1>0. meta.images \in Seq(Row) /\ meta.pending \in Seq(Row) /\ meta'.images \in Seq(Row)
      /\ database \in Seq(Row) /\ Len(archives) \in Nat /\ archives \in Seq(Archive)
  BY Types DEF StepContext, TypeOK, Meta
<1>1. UNCHANGED <<archives, database, op, tasks, requests>> /\ builds[j].pc = "publish"
      /\ builds'[j].pc = "replace" /\ builds'[j].rows = builds[j].rows
      /\ \A k \in Jobs \ {j} : builds'[k] = builds[k]
  BY DEF Publish, StepContext, TypeOK, BuildState
<1>2. IsPrefix(builds'[j].rows, meta'.images)
  BY <1>0, <1>1, PublishedImages, PrefixRefl
<1>3. BuildInv(builds[j], j)'
  BY <1>1, <1>2 DEF BuildInv, Writing
<1>4. \A k \in Jobs \ {j} : builds[k].pc \notin Writing
  BY <1>1, WriterIsAlone DEF StepContext, Writing
<1>5. \A k \in Jobs \ {j} : BuildInv(builds[k], k)'
  BY <1>0, <1>1, <1>4, PublishedImages, ReaderInvKept DEF StepContext, OneWriterInv, BuildsInv
<1>6. (OpInv /\ TasksInv)'
  BY <1>1, PublishedImages, BuildStep DEF Running, Writing
<1>7. ArchiveMatchesImages'
  <2>1. meta'.generation \in DOMAIN archives
    <3>1. Len(archives) # 0 => Len(archives) \in DOMAIN archives
      BY <1>0
    <3> QED BY <3>1, PublishedImages
  <2> QED BY <1>1, <2>1, PublishedImages DEF ArchiveMatchesImages
<1>8. DatabaseIsPublished'
  BY <1>0, <1>1, PublishedImages, PrefixConcat DEF StepContext, OneWriterInv, DatabaseIsPublished
<1>9. JobInv'
  BY PublishedImages DEF JobInv
<1> QED BY <1>3, <1>5, <1>6, <1>7, <1>8, <1>9 DEF Rest, BuildsInv

\* SQLite is replaced by the vectors of the published images.
LEMMA ReplaceStep ==
    ASSUME StepContext, NEW j \in Jobs, ReplaceDatabase(j) PROVE Rest'
<1>1. UNCHANGED <<meta, archives, op, tasks, requests>> /\ database' = builds[j].rows
      /\ builds[j].pc = "replace" /\ builds'[j].pc = "done"
      /\ \A k \in Jobs \ {j} : builds'[k] = builds[k]
  BY DEF ReplaceDatabase, Build, StepContext, TypeOK, BuildState
<1>2. DatabaseIsPublished'
  BY <1>1 DEF StepContext, OneWriterInv, BuildsInv, BuildInv, DatabaseIsPublished
<1>3. BuildInv(builds[j], j)' /\ \A k \in Jobs \ {j} : BuildInv(builds[k], k)'
  BY <1>1, BuildInvKept DEF StepContext, OneWriterInv, BuildsInv, BuildInv, Writing
<1>4. (OpInv /\ TasksInv)'
  BY <1>1, BuildStep DEF Running
<1>5. (ArchiveMatchesImages /\ JobInv)'
  BY <1>1 DEF StepContext, OneWriterInv, ArchiveMatchesImages, JobInv
<1> QED BY <1>2, <1>3, <1>4, <1>5 DEF Rest, BuildsInv

\* The steps of the ML service's build, one lemma per action above
LEMMA ServiceStepKeeps ==
    ASSUME StepContext, NEW j \in Jobs, ServiceStep(j) \/ BuildFails(j) PROVE Rest'
<1>1. CASE OpenArchive(j)
  <2>1. [complete |-> FALSE, rows |-> <<>>] \in Archive
    BY DEF Archive
  <2> QED BY <1>1, <2>1, WriteArchiveStep DEF OpenArchive
<1>2. CASE SaveArchive(j)
  <2>1. [complete |-> TRUE, rows |-> builds[j].rows] \in Archive
    BY Types DEF Archive, StepContext
  <2> QED BY <1>2, <2>1, WriteArchiveStep DEF SaveArchive
<1>3. CASE BuildBegin(j)
  BY <1>3, BuildBeginStep
<1>4. CASE BuildRefused(j) \/ BuildFails(j)
  BY <1>4, BuildEndsStep
<1>5. CASE Embed(j)
  BY <1>5, EmbedStep
<1>6. CASE ChooseGeneration(j)
  BY <1>6, ChooseGenerationStep
<1>7. CASE Publish(j)
  BY <1>7, PublishStep
<1>8. CASE ReplaceDatabase(j)
  BY <1>8, ReplaceStep
<1> QED BY <1>1, <1>2, <1>3, <1>4, <1>5, <1>6, <1>7, <1>8 DEF ServiceStep

\* Every step keeps the invariant if no call is given up.
LEMMA OneWriterStep ==
    ASSUME MaxGiveUps = 0, OneWriterInv, [Next]_vars PROVE OneWriterInv'
<1>0. StepContext /\ CopiesInv'
  BY CopiesStep DEF StepContext, OneWriterInv, CopiesInv
<1>1. CASE UNCHANGED vars
  <2>1. Rest'
    BY <1>1, BuildInvKept DEF vars, OneWriterInv, Rest, ArchiveMatchesImages,
       DatabaseIsPublished, OpInv, TasksInv, JobInv, BuildsInv
  <2> QED BY <1>0, <2>1 DEF OneWriterInv, Rest
<1>2. CASE \/ \E batch \in Batches : CommitBegin(batch)
           \/ RetryBegin
  BY <1>0, <1>2, BeginStep DEF OneWriterInv, Rest
<1>3. CASE LockStep
  <2>1. CASE CommitWrite
    BY <1>0, <2>1, StartStep, Types DEF StepContext, CommitWrite, OneWriterInv, Rest
  <2>2. CASE RetryWrite
    BY <1>0, <2>2, StartStep, Types DEF StepContext, RetryWrite, OneWriterInv, Rest, Meta
  <2>3. CASE FailWrite
    BY <1>0, <2>3, FailWriteStep DEF OneWriterInv, Rest
  <2> QED BY <1>3, <2>1, <2>2, <2>3 DEF LockStep
<1>4. ASSUME NEW j \in Jobs, BackendStep(j) PROVE OneWriterInv'
  BY <1>0, <1>4, TaskStep DEF OneWriterInv, Rest
<1>5. ASSUME NEW j \in Jobs, CallGivesUp(j) PROVE OneWriterInv'
  BY <1>0, <1>5 DEF StepContext, TypeOK, CallGivesUp
<1>6. ASSUME NEW j \in Jobs, ServiceStep(j) \/ BuildFails(j) PROVE OneWriterInv'
  BY <1>0, <1>6, ServiceStepKeeps DEF OneWriterInv, Rest
<1>7. CASE BackendRestart \/ ServiceRestart
  BY <1>0, <1>7, RestartStep DEF OneWriterInv, Rest
<1>8. CASE WriteRaises
  BY <1>0, <1>8, WriteRaisesStep DEF OneWriterInv, Rest
<1> QED BY <1>1, <1>2, <1>3, <1>4, <1>5, <1>6, <1>7, <1>8 DEF Next

\* If no call is given up, the invariant holds in every reachable state.
LEMMA OneWriterAlways == ASSUME MaxGiveUps = 0 PROVE Spec => []OneWriterInv
  BY InitOneWriter, OneWriterStep, PTL DEF Spec

\* Unless a call is given up, the archive that meta.json names is complete and
\* holds the published images in order, whenever either process is restarted.
THEOREM ArchiveAlwaysMatches ==
    ASSUME MaxGiveUps = 0 PROVE Spec => []ArchiveMatchesImages
<1>1. OneWriterInv => ArchiveMatchesImages
  BY DEF OneWriterInv
<1> QED BY <1>1, OneWriterAlways, PTL

\* ... and SQLite never holds vectors of images that were not published.
THEOREM DatabaseAlwaysPublished ==
    ASSUME MaxGiveUps = 0 PROVE Spec => []DatabaseIsPublished
<1>1. OneWriterInv => DatabaseIsPublished
  BY DEF OneWriterInv
<1> QED BY <1>1, OneWriterAlways, PTL

------------------------------------------------------------------------------
(* Action properties and refinement *)

\* What a step does to the images, the state and the archives
LEMMA StepKinds ==
    ASSUME MaxGiveUps = 0, OneWriterInv, TypeOK', [Next]_vars
    PROVE  \/ UNCHANGED <<meta, archives>>
           \/ /\ CommitWrite \/ RetryWrite \/ FailWrite \/ \E j \in Jobs : Embed(j) \/ Publish(j)
              /\ UNCHANGED archives
           \/ /\ \E j \in Jobs : OpenArchive(j) \/ SaveArchive(j)
              /\ UNCHANGED meta
<1>1. ASSUME NEW j \in Jobs, CallGivesUp(j) PROVE FALSE
  BY <1>1 DEF OneWriterInv, CopiesInv, TypeOK, CallGivesUp
<1>2. CASE UNCHANGED vars
  BY <1>2 DEF vars
<1>3. CASE \/ \E batch \in Batches : CommitBegin(batch)
           \/ RetryBegin \/ BackendRestart \/ ServiceRestart \/ WriteRaises
  BY <1>3 DEF CommitBegin, RetryBegin, BackendRestart, ServiceRestart, WriteRaises
<1>4. CASE LockStep
  BY <1>4 DEF LockStep, CommitWrite, RetryWrite, FailWrite, StartImport
<1>5. ASSUME NEW j \in Jobs, BackendStep(j) PROVE UNCHANGED <<meta, archives>>
  BY <1>5 DEF BackendStep, CallBuild, CallRefused, CallAnswersError, CallAnswersOk,
              TaskFails, FailBegin
<1>6. ASSUME NEW j \in Jobs, ServiceStep(j) \/ BuildFails(j)
      PROVE  \/ UNCHANGED <<meta, archives>>
             \/ (Embed(j) \/ Publish(j)) /\ UNCHANGED archives
             \/ (OpenArchive(j) \/ SaveArchive(j)) /\ UNCHANGED meta
  BY <1>6 DEF ServiceStep, BuildBegin, BuildRefused, BuildFails, Build, Embed,
              ChooseGeneration, OpenArchive, SaveArchive, Publish, ReplaceDatabase
<1> QED BY <1>1, <1>2, <1>3, <1>4, <1>5, <1>6 DEF Next

\* The steps that write meta.json, seen by the users of the gallery
LEMMA WritesOfMeta ==
    ASSUME MaxGiveUps = 0, OneWriterInv, TypeOK'
    PROVE  /\ CommitWrite =>
                /\ meta.state # "building" /\ meta'.state = "building"
                /\ meta'.images = meta.images /\ meta'.generation = meta.generation
                /\ meta'.pending # <<>> /\ DistinctLabels(meta.images \o meta'.pending)
           /\ RetryWrite =>
                /\ meta.state = "failed" /\ meta'.state = "building"
                /\ meta'.images = meta.images /\ meta'.generation = meta.generation
                /\ meta'.pending = meta.pending
           /\ FailWrite =>
                /\ meta.state \in {"building", "failed"} /\ meta'.state = "failed"
                /\ meta'.images = meta.images /\ meta'.generation = meta.generation
                /\ meta'.pending = meta.pending
           /\ \A j \in Jobs : Embed(j) =>
                /\ meta'.state = meta.state /\ meta'.pending = meta.pending
                /\ meta'.images = meta.images /\ meta'.generation = meta.generation
<1>0. TypeOK /\ op.snap \in Meta /\ meta \in Meta
      /\ \A j \in Jobs : builds[j] \in BuildState /\ builds[j].snap \in Meta
  BY Types DEF OneWriterInv, CopiesInv
<1>1. OpInv /\ OpWellFormed /\ JobInv
  BY DEF OneWriterInv, CopiesInv
<1>2. CommitWrite =>
        /\ meta.state # "building" /\ meta'.state = "building"
        /\ meta'.images = meta.images /\ meta'.generation = meta.generation
        /\ meta'.pending # <<>> /\ DistinctLabels(meta.images \o meta'.pending)
  BY <1>0, <1>1 DEF CommitWrite, StartImport, OpInv, OpWellFormed, Meta
<1>3. RetryWrite =>
        /\ meta.state = "failed" /\ meta'.state = "building"
        /\ meta'.images = meta.images /\ meta'.generation = meta.generation
        /\ meta'.pending = meta.pending
  BY <1>0, <1>1 DEF RetryWrite, StartImport, OpInv, Meta
<1>4. FailWrite =>
        /\ meta.state \in {"building", "failed"} /\ meta'.state = "failed"
        /\ meta'.images = meta.images /\ meta'.generation = meta.generation
        /\ meta'.pending = meta.pending
  BY <1>0, <1>1 DEF FailWrite, OpInv, JobInv, Meta, Jobs, NoJob
<1>5. ASSUME NEW j \in Jobs, Embed(j)
      PROVE  /\ meta'.state = meta.state /\ meta'.pending = meta.pending
             /\ meta'.images = meta.images /\ meta'.generation = meta.generation
  <2>1. builds[j].snap = meta
    BY <1>5 DEF Embed, OneWriterInv, BuildsInv, BuildInv, Writing, WritingInv
  <2>2. meta' = [meta EXCEPT !.processed = builds[j].offset + 1]
    BY <1>0, <1>5, <2>1 DEF Embed, Embedded, BuildState
  <2> QED BY <1>0, <2>2 DEF Meta
<1> QED BY <1>2, <1>3, <1>4, <1>5

\* Unless a call is given up, no step takes an image out of the gallery or makes
\* a gallery that can be searched unsearchable.
THEOREM GalleryOnlyGrows ==
    ASSUME MaxGiveUps = 0 PROVE Spec => AppendOnly
<1> DEFINE Grows == /\ IsPrefix(meta.images, meta'.images)
                    /\ SearchReady(meta) => SearchReady(meta')
<1>1. ASSUME OneWriterInv, OneWriterInv', [Next]_vars PROVE Grows
  <2>0. /\ TypeOK /\ TypeOK' /\ meta.images \in Seq(Row) /\ meta.pending \in Seq(Row)
        /\ Len(meta.images) \in Nat /\ Len(meta.pending) \in Nat /\ MinImages \in Nat
    BY <1>1, Types, MinImagesAssumption DEF OneWriterInv, CopiesInv
  <2>1. CASE meta'.images = meta.images /\ meta'.generation = meta.generation
    BY <2>0, <2>1, PrefixRefl DEF SearchReady
  <2>2. CASE \E j \in Jobs : Publish(j)
    <3>1. meta'.images = meta.images \o meta.pending /\ meta'.generation # 0
      BY <1>1, <2>0, <2>2, PublishedImages DEF StepContext
    <3>2. IsPrefix(meta.images, meta.images \o meta.pending)
      BY <2>0, PrefixRefl, PrefixConcat
    <3>3. Len(meta.images \o meta.pending) = Len(meta.images) + Len(meta.pending)
      BY <2>0
    <3>4. Len(meta.images) >= MinImages => Len(meta'.images) >= MinImages
      <4>1. \A m, n, k \in Nat : m >= k => m + n >= k
        OBVIOUS
      <4>2. Len(meta.images) >= MinImages => Len(meta.images) + Len(meta.pending) >= MinImages
        BY <2>0, <4>1
      <4>3. Len(meta'.images) = Len(meta.images) + Len(meta.pending)
        BY <3>1, <3>3, Zenon
      <4> QED BY <4>2, <4>3, Zenon
    <3>5. SearchReady(meta) => SearchReady(meta')
      BY <3>1, <3>4 DEF SearchReady
    <3> QED BY <3>1, <3>2, <3>5
  <2> QED BY <1>1, <2>0, <2>1, <2>2, StepKinds, WritesOfMeta
<1>2. OneWriterInv /\ OneWriterInv' /\ [Next]_vars => [Grows]_vars
  BY <1>1
<1> QED BY <1>2, OneWriterAlways, PTL DEF Spec, AppendOnly

\* Unless a call is given up, a complete archive is never written again.
THEOREM ArchivesAreKept ==
    ASSUME MaxGiveUps = 0 PROVE Spec => ArchivesKept
<1> DEFINE Kept == \A g \in DOMAIN archives : archives[g].complete => archives'[g] = archives[g]
<1>1. ASSUME OneWriterInv, OneWriterInv', [Next]_vars PROVE Kept
  <2>0. /\ TypeOK /\ TypeOK' /\ archives \in Seq(Archive) /\ Len(archives) \in Nat
        /\ DOMAIN archives = 1 .. Len(archives)
    BY <1>1, Types DEF OneWriterInv, CopiesInv
  <2>1. CASE UNCHANGED archives
    BY <2>1
  <2>2. ASSUME NEW j \in Jobs, NEW archive \in Archive, PutArchive(builds[j].generation, archive),
               builds[j].pc \in {"open", "save"}
        PROVE  Kept
    <3>1. WritingInv(builds[j], j)
      BY <1>1, <2>2 DEF OneWriterInv, BuildsInv, BuildInv, Writing
    <3>2. \A g \in 1 .. Len(archives) : g # builds[j].generation => archives'[g] = archives[g]
      BY <2>0, <2>2, PutArchiveType
    <3>3. builds[j].generation \in 1 .. Len(archives) => ~archives[builds[j].generation].complete
      BY <2>0, <2>2, <3>1 DEF WritingInv
    <3> QED BY <2>0, <3>2, <3>3
  <2>3. ASSUME NEW j \in Jobs, OpenArchive(j) \/ SaveArchive(j) PROVE Kept
    <3>1. [complete |-> FALSE, rows |-> <<>>] \in Archive
          /\ [complete |-> TRUE, rows |-> builds[j].rows] \in Archive
      BY <2>0, Types DEF Archive
    <3> QED BY <2>2, <2>3, <3>1 DEF OpenArchive, SaveArchive, Build
  <2> QED BY <1>1, <2>0, <2>1, <2>3, StepKinds
<1>2. OneWriterInv /\ OneWriterInv' /\ [Next]_vars => [Kept]_vars
  BY <1>1
<1> QED BY <1>2, OneWriterAlways, PTL DEF Spec, ArchivesKept

\* Unless a call is given up, the import protocol implements the promise of
\* AppendOnlyGallery, whatever is restarted at whatever moment.
THEOREM ImportKeepsPromise ==
    ASSUME MaxGiveUps = 0 PROVE Spec => KeepsPromise
<1>1. Init => Promise!Init
  BY DEF Init, InitialMeta, Promise!Init
<1>2. ASSUME OneWriterInv, OneWriterInv', [Next]_vars PROVE [Promise!Next]_(Promise!vars)
  <2>0. /\ TypeOK /\ TypeOK' /\ meta.pending \in Seq(Row) /\ meta'.pending \in Seq(Row)
    BY <1>2, Types DEF OneWriterInv, CopiesInv, TypeOK, Meta
  <2>1. CASE UNCHANGED meta
    BY <2>1 DEF Promise!vars
  <2>2. CASE CommitWrite
    <3>1. meta.state \in {"collecting", "ready", "failed"}
      BY <1>2, <2>0, <2>2, WritesOfMeta DEF TypeOK, Meta, States
    <3>2. Promise!Import
      BY <1>2, <2>0, <2>2, <3>1, WritesOfMeta
         DEF Promise!Import, Promise!DistinctLabels, DistinctLabels,
             Promise!IsInjective, IsInjective
    <3> QED BY <3>2 DEF Promise!Next
  <2>3. CASE RetryWrite
    BY <1>2, <2>0, <2>3, WritesOfMeta DEF Promise!Next, Promise!Retry
  <2>4. CASE FailWrite
    BY <1>2, <2>0, <2>4, WritesOfMeta DEF Promise!Next, Promise!Fail, Promise!vars
  <2>5. ASSUME NEW j \in Jobs, Embed(j) PROVE UNCHANGED Promise!vars
    BY <1>2, <2>0, <2>5, WritesOfMeta DEF Promise!vars
  <2>6. ASSUME NEW j \in Jobs, Publish(j) PROVE Promise!Finish
    BY <1>2, <2>0, <2>6, PublishedImages DEF StepContext, Promise!Finish
  <2> QED BY <1>2, <2>0, <2>1, <2>2, <2>3, <2>4, <2>5, <2>6, StepKinds DEF Promise!Next
<1>3. OneWriterInv /\ OneWriterInv' /\ [Next]_vars => [Promise!Next]_(Promise!vars)
  BY <1>2
<1> QED BY <1>1, <1>3, OneWriterAlways, PTL DEF Spec, KeepsPromise, Promise!Spec
==============================================================================
