------------------------- MODULE GalleryImport_proofs -------------------------
(***************************************************************************)
(* Proofs about GalleryImport, for every set of labels and uploads and     *)
(* every bound.                                                            *)
(*                                                                         *)
(* Whatever is restarted and whatever call is given up: type correctness, *)
(* distinct labels, a failed import can be retried.  The invariant says    *)
(* that every COPY of the metadata (the file, the copy held under the      *)
(* backend's lock, the copy of every build) is well formed, so it does not *)
(* matter whose write comes last.                                          *)
(***************************************************************************)
EXTENDS GalleryImport, SequenceTheorems, TLAPS

\* A gallery that is being imported or whose import failed has a batch
HasBatch(m) ==
    (m.job # NoJob \/ m.state \in {"building", "failed"}) => m.pending # <<>>

WellFormed(m) == DistinctLabels(m.images \o m.pending) /\ HasBatch(m)

\* A copy names no archive that was never opened
Known(m) == m.generation <= Len(archives)

OpWellFormed ==
    /\ WellFormed(op.snap) /\ Known(op.snap)
    /\ op.kind = "commit" => /\ op.batch # <<>>
                             /\ DistinctLabels(op.snap.images \o op.batch)
    /\ op.kind = "retry" => op.snap.pending # <<>>
    /\ op.kind = "fail" => op.snap.pending # <<>>

BuildsWellFormed == \A j \in Jobs :
    /\ WellFormed(builds[j].snap) /\ Known(builds[j].snap)
    /\ builds[j].pc = "open" => builds[j].generation \in 1 .. Len(archives) + 1
    /\ builds[j].pc \in {"save", "publish"} => builds[j].generation \in 1 .. Len(archives)

CopiesInv == TypeOK /\ WellFormed(meta) /\ Known(meta) /\ OpWellFormed /\ BuildsWellFormed

\* The metadata of a gallery nobody has imported into is well formed.
LEMMA InitialWellFormed == WellFormed(InitialMeta) /\ InitialMeta \in Meta
  BY MinImagesAssumption DEF WellFormed, InitialMeta, Meta, States, HasBatch, DistinctLabels, IsInjective

\* Every copy of the metadata starts well formed.
LEMMA InitCopies == Init => CopiesInv
  BY InitialWellFormed, BoundsAssumption
     DEF Init, CopiesInv, TypeOK, OpWellFormed, BuildsWellFormed, Known, Idle, NoBuild,
         InitialMeta, BuildPhases, Running, OpState, BuildState

\* The first free number above one that is taken is the one after the last.
LEMMA NextGenerationIsNext ==
    ASSUME archives \in Seq(Archive), NEW gen \in Nat, gen <= Len(archives)
    PROVE  NextGeneration(gen) = Len(archives) + 1
<1> DEFINE Free(g) == /\ g \notin DOMAIN archives
                      /\ \A h \in (gen + 1) .. (g - 1) : h \in DOMAIN archives
           Candidates == (gen + 1) .. (gen + 1 + Len(archives))
<1>1. Len(archives) \in Nat /\ DOMAIN archives = 1 .. Len(archives)
  OBVIOUS
<1>2. Len(archives) + 1 \in Candidates /\ Free(Len(archives) + 1)
  BY <1>1
<1>3. ASSUME NEW g \in Candidates, Free(g) PROVE g = Len(archives) + 1
  <2>1. g > Len(archives)
    BY <1>1, <1>3
  <2>2. ~(g > Len(archives) + 1)
    BY <1>1, <1>3, Len(archives) + 1 \in (gen + 1) .. (g - 1) => Len(archives) + 1 \in DOMAIN archives
  <2> QED BY <1>1, <2>1, <2>2
<1> HIDE DEF Free, Candidates
<1>4. (CHOOSE g \in Candidates : Free(g)) = Len(archives) + 1
  BY <1>2, <1>3
<1> QED BY <1>4 DEF NextGeneration, Free, Candidates

\* An accepted batch of ids is a batch of rows, and its request has a number.
LEMMA NewRowsType ==
    ASSUME TypeOK, NEW batch \in Seq(Ids), requests < MaxRequests
    PROVE  /\ NewRows(batch) \in Seq(Row)
           /\ Len(NewRows(batch)) = Len(batch)
           /\ requests + 1 \in Jobs
<1>1. \A i \in 1 .. Len(batch) : batch[i] \in Ids
  OBVIOUS
<1>2. requests + 1 \in Jobs
  BY BoundsAssumption DEF TypeOK, Jobs
<1>3. NewRows(batch) = [i \in 1 .. Len(batch) |-> [id |-> batch[i], request |-> requests + 1]]
  BY DEF NewRows
<1>4. \A i \in 1 .. Len(batch) : [id |-> batch[i], request |-> requests + 1] \in Row
  BY <1>1, <1>2 DEF Row
<1> QED BY <1>2, <1>3, <1>4, IsASeq

\* What a sequence of rows holds can be stored.
LEMMA RowsInStored ==
    ASSUME NEW rows \in Seq(Row) PROVE ToSet(rows) \subseteq Row
  BY DEF ToSet

(* Type correctness *)

\* The metadata start_import writes is metadata,
LEMMA StartedMeta ==
    ASSUME NEW m \in Meta, NEW rows \in Seq(Row), NEW j \in Jobs \cup {NoJob}
    PROVE  [m EXCEPT !.state = "building", !.pending = rows,
                     !.processed = 0, !.job = j] \in Meta
  BY DEF Meta, States

\* ... so is what a failed import writes,
LEMMA FailedMeta ==
    ASSUME NEW m \in Meta PROVE [m EXCEPT !.state = "failed"] \in Meta
  BY DEF Meta, States

\* ... what the build writes for each embedded image,
LEMMA ProgressMeta ==
    ASSUME NEW m \in Meta, NEW n \in Nat PROVE [m EXCEPT !.processed = n] \in Meta
  BY DEF Meta

\* ... and what publishing a batch writes.
LEMMA PublishedMeta ==
    ASSUME NEW b \in BuildState PROVE Published(b) \in Meta
<1>1. b.snap \in Meta /\ b.generation \in Nat /\ b.rows \in Seq(Row)
  BY DEF BuildState
<1>2. b.snap.images \o b.snap.pending \in Seq(Row)
  BY <1>1 DEF Meta
<1>3. (IF Len(b.rows) >= MinImages THEN "ready" ELSE "collecting") \in States
  BY DEF States
<1> QED BY <1>1, <1>2, <1>3 DEF Published, Meta, NoJob

\* A build with one more embedded image is a build, with metadata to write.
LEMMA EmbeddedType ==
    ASSUME NEW b \in BuildState, b.offset < Len(b.snap.pending)
    PROVE  Embedded(b) \in BuildState /\ Embedded(b).snap \in Meta
<1>1. b.snap \in Meta /\ b.snap.pending \in Seq(Row) /\ b.offset + 1 \in Nat
      /\ b.rows \in Seq(Row)
  BY DEF BuildState, Meta
<1>2. b.snap.pending[b.offset + 1] \in Row
  BY <1>1 DEF BuildState
<1>3. [b.snap EXCEPT !.processed = b.offset + 1] \in Meta
  BY <1>1, ProgressMeta
<1>4. Append(b.rows, b.snap.pending[b.offset + 1]) \in Seq(Row)
  BY <1>1, <1>2
<1>5. PICK m \in Meta, n \in Nat, rows \in Seq(Row) :
         Embedded(b) = [b EXCEPT !.snap = m, !.offset = n, !.rows = rows]
  BY <1>1, <1>3, <1>4 DEF Embedded
<1> QED BY <1>5 DEF BuildState

\* An idle operation and an absent build are of their types.
LEMMA InitialTypes == Idle \in OpState /\ NoBuild \in BuildState
  BY InitialWellFormed DEF Idle, OpState, NoBuild, BuildState, BuildPhases, Running

\* The write of an archive keeps the archives a sequence that never shrinks.
LEMMA PutArchiveType ==
    ASSUME archives \in Seq(Archive), NEW g, NEW archive \in Archive,
           PutArchive(g, archive)
    PROVE  /\ archives' \in Seq(Archive)
           /\ Len(archives') >= Len(archives)
           /\ g = Len(archives) + 1 => Len(archives') = Len(archives) + 1
           /\ g \in 1 .. Len(archives) => Len(archives') = Len(archives)
           /\ g \in 1 .. Len(archives) + 1 =>
                archives'[g] = archive /\ g \in 1 .. Len(archives')
           /\ \A h \in 1 .. Len(archives) : h # g => archives'[h] = archives[h]
<1>1. CASE g \in DOMAIN archives
  BY <1>1 DEF PutArchive
<1>2. CASE g \notin DOMAIN archives
  BY <1>2 DEF PutArchive
<1> QED BY <1>1, <1>2

\* Every step keeps the types.
LEMMA TypeStep == CopiesInv /\ [Next]_vars => TypeOK'
<1> SUFFICES ASSUME CopiesInv, [Next]_vars PROVE TypeOK'
  OBVIOUS
<1> USE BoundsAssumption DEF CopiesInv, TypeOK
<1>0. /\ op.snap \in Meta /\ op.batch \in Seq(Row) /\ op.request \in Jobs \cup {NoJob}
      /\ \A j \in Jobs : builds[j] \in BuildState
  BY DEF OpState
<1>1. ASSUME NEW batch \in Batches, CommitBegin(batch) PROVE TypeOK'
  BY <1>1, NewRowsType, RowsInStored, BatchesAssumption DEF CommitBegin, OpState
<1>2. ASSUME NEW rows \in Seq(Row), StartImport(rows) PROVE TypeOK'
  <2>1. meta' \in Meta
    BY <1>0, <1>2, StartedMeta DEF StartImport
  <2> QED BY <1>2, <2>1, InitialTypes DEF StartImport
<1>3. CASE RetryBegin
  BY <1>3 DEF RetryBegin, Jobs, OpState
<1>4. CASE CommitWrite \/ RetryWrite
  BY <1>0, <1>2, <1>4 DEF CommitWrite, RetryWrite, Meta
<1>5. CASE FailWrite
  BY <1>0, <1>5, InitialTypes, FailedMeta DEF FailWrite
<1>6. ASSUME NEW j \in Jobs, BackendStep(j) PROVE TypeOK'
  <2>1. CASE CallBuild(j)
    BY <2>1 DEF CallBuild, BuildState, BuildPhases, Running
  <2>2. CASE CallRefused(j) \/ CallAnswersError(j)
    BY <2>2 DEF CallRefused, CallAnswersError, TaskFails
  <2>3. CASE CallAnswersOk(j)
    BY <2>3 DEF CallAnswersOk
  <2>4. CASE FailBegin(j)
    BY <2>4, InitialTypes DEF FailBegin, OpState
  <2> QED BY <1>6, <2>1, <2>2, <2>3, <2>4 DEF BackendStep
<1>7. ASSUME NEW j \in Jobs, CallGivesUp(j) PROVE TypeOK'
  BY <1>7 DEF CallGivesUp, TaskFails
<1>8. ASSUME NEW j \in Jobs, ServiceStep(j) PROVE TypeOK'
  <2> DEFINE b == builds[j]
  <2>0. b \in BuildState /\ b.snap \in Meta /\ b.rows \in Seq(Row)
    BY <1>0 DEF BuildState
  <2>1. CASE BuildBegin(j)
    <3>1. CurrentRows \in Seq(Row)
      <4>1. CASE meta.generation = 0
        BY <4>1 DEF CurrentRows
      <4>2. CASE meta.generation # 0
        <5>1. archives[meta.generation] \in Archive
          BY <4>2 DEF Known, Meta
        <5> QED BY <4>2, <5>1 DEF CurrentRows, Archive
      <4> QED BY <4>1, <4>2
    <3>2. [NoBuild EXCEPT !.pc = "embed", !.snap = meta, !.rows = CurrentRows] \in BuildState
      BY <3>1, InitialTypes DEF BuildState, BuildPhases, Running
    <3> QED BY <2>1, <3>2 DEF BuildBegin
  <2>2. CASE Embed(j)
    BY <2>0, <2>2, EmbeddedType DEF Embed
  <2>3. CASE ChooseGeneration(j)
    <3>0. b.snap.generation \in Nat /\ b.snap.generation <= Len(archives) /\ Len(archives) \in Nat
      BY <2>0 DEF BuildsWellFormed, Known, Meta
    <3>1. NextGeneration(b.snap.generation) \in Nat
      BY <3>0, NextGenerationIsNext
    <3>2. builds' \in [Jobs -> BuildState]
      BY <2>0, <2>3, <3>1 DEF ChooseGeneration, BuildState, BuildPhases, Running
    <3> QED BY <2>3, <3>2 DEF ChooseGeneration
  <2>4. CASE OpenArchive(j)
    <3>1. [complete |-> FALSE, rows |-> <<>>] \in Archive
      BY DEF Archive
    <3> QED BY <2>0, <2>4, <3>1, PutArchiveType
            DEF OpenArchive, Build, BuildState, BuildPhases, Running
  <2>5. CASE SaveArchive(j)
    <3>1. [complete |-> TRUE, rows |-> b.rows] \in Archive
      BY <2>0 DEF Archive
    <3> QED BY <2>0, <2>5, <3>1, PutArchiveType
            DEF SaveArchive, Build, BuildState, BuildPhases, Running
  <2>6. CASE Publish(j)
    <3>1. Published(b) \in Meta
      BY <2>0, PublishedMeta
    <3> QED BY <2>0, <2>6, <3>1 DEF Publish, BuildState, BuildPhases, Running
  <2>7. CASE ReplaceDatabase(j)
    BY <2>0, <2>7 DEF ReplaceDatabase, Build, BuildState, BuildPhases
  <2>8. CASE BuildRefused(j)
    BY <2>0, <2>8 DEF BuildRefused, Build, BuildState, BuildPhases
  <2> QED BY <1>8, <2>1, <2>2, <2>3, <2>4, <2>5, <2>6, <2>7, <2>8 DEF ServiceStep
<1>9. ASSUME NEW j \in Jobs, BuildFails(j) PROVE TypeOK'
  BY <1>0, <1>9 DEF BuildFails, BuildState, BuildPhases
<1>10. CASE BackendRestart
  BY <1>10, InitialTypes DEF BackendRestart
<1>11. CASE ServiceRestart
  <2>1. \A j \in Jobs : [builds[j] EXCEPT !.pc = "lost"] \in BuildState
    BY <1>0 DEF BuildState, BuildPhases
  <2> QED BY <1>11, <2>1 DEF ServiceRestart
<1>12. CASE WriteRaises
  BY <1>12, InitialTypes DEF WriteRaises
<1>13. CASE UNCHANGED vars
  BY <1>13 DEF vars
<1> QED
  BY <1>1, <1>3, <1>4, <1>5, <1>6, <1>7, <1>8, <1>9, <1>10, <1>11, <1>12, <1>13
     DEF Next, LockStep

(* Labels *)

\* Two sequences of labels without repetition or common label join into one.
LEMMA DistinctConcat ==
    ASSUME NEW s \in Seq(Row), NEW t \in Seq(Row),
           DistinctLabels(s), DistinctLabels(t), IdsOf(s) \cap IdsOf(t) = {}
    PROVE  DistinctLabels(s \o t)
<1> DEFINE u == s \o t
<1>1. /\ u \in Seq(Row) /\ Len(u) = Len(s) + Len(t)
      /\ \A i \in 1 .. Len(u) : u[i] = IF i <= Len(s) THEN s[i] ELSE t[i - Len(s)]
  BY ConcatProperties
<1>2. Len(s) \in Nat /\ Len(t) \in Nat
  OBVIOUS
<1>3. \A i, k \in 1 .. Len(s) : s[i].id = s[k].id => i = k
  BY DEF DistinctLabels, IsInjective
<1>4. \A i, k \in 1 .. Len(t) : t[i].id = t[k].id => i = k
  BY DEF DistinctLabels, IsInjective
<1>5. \A i \in 1 .. Len(s), k \in 1 .. Len(t) : s[i].id # t[k].id
  BY DEF IdsOf
<1>6. ASSUME NEW i \in 1 .. Len(u), NEW k \in 1 .. Len(u), u[i].id = u[k].id
      PROVE  i = k
  <2>1. CASE i <= Len(s) /\ k <= Len(s)
    BY <1>1, <1>2, <1>3, <1>6, <2>1
  <2>2. CASE i > Len(s) /\ k > Len(s)
    <3>1. i - Len(s) \in 1 .. Len(t) /\ k - Len(s) \in 1 .. Len(t)
      BY <1>1, <1>2, <2>2
    <3>2. i - Len(s) = k - Len(s)
      BY <1>1, <1>2, <1>4, <1>6, <2>2, <3>1
    <3> QED BY <1>2, <3>2
  <2>3. CASE i <= Len(s) /\ k > Len(s)
    <3>1. k - Len(s) \in 1 .. Len(t)
      BY <1>1, <1>2, <2>3
    <3> QED BY <1>1, <1>2, <1>5, <1>6, <2>3, <3>1
  <2>4. CASE i > Len(s) /\ k <= Len(s)
    <3>1. i - Len(s) \in 1 .. Len(t)
      BY <1>1, <1>2, <2>4
    <3> QED BY <1>1, <1>2, <1>5, <1>6, <2>4, <3>1
  <2> QED BY <1>1, <1>2, <2>1, <2>2, <2>3, <2>4
<1>7. DOMAIN u = 1 .. Len(u)
  BY <1>1
<1> HIDE DEF u
<1>8. DistinctLabels(u)
  BY <1>6, <1>7 DEF DistinctLabels, IsInjective
<1> QED BY <1>8 DEF u

\* A prefix of labels without repetition has none.
LEMMA DistinctPrefix ==
    ASSUME NEW s \in Seq(Row), NEW t \in Seq(Row), DistinctLabels(s \o t)
    PROVE  DistinctLabels(s)
<1> DEFINE u == s \o t
<1>1. /\ u \in Seq(Row) /\ Len(u) = Len(s) + Len(t) /\ DOMAIN u = 1 .. Len(u)
      /\ \A i \in 1 .. Len(s) : u[i] = s[i]
  BY ConcatProperties
<1>2. \A i, k \in 1 .. Len(u) : u[i].id = u[k].id => i = k
  BY <1>1 DEF DistinctLabels, IsInjective
<1> HIDE DEF u
<1> QED BY <1>1, <1>2 DEF DistinctLabels, IsInjective

\* An accepted upload is not empty and names no image twice.
LEMMA NewRowsDistinct ==
    ASSUME TypeOK, NEW batch \in Seq(Ids), requests < MaxRequests, ValidUpload(batch)
    PROVE  DistinctLabels(NewRows(batch)) /\ NewRows(batch) # <<>>
<1>1. DOMAIN NewRows(batch) = DOMAIN batch
      /\ \A i \in DOMAIN batch : NewRows(batch)[i].id = batch[i]
  BY DEF NewRows
<1>2. DistinctLabels(NewRows(batch))
  BY <1>1 DEF DistinctLabels, IsInjective, ValidUpload
<1>3. Len(batch) # 0
  BY DEF ValidUpload
<1> QED BY <1>2, <1>3, NewRowsType

(* The copies of the metadata stay well formed when they are edited *)

\* Starting an import keeps labels unique and batches retriable,
LEMMA StartedWellFormed ==
    ASSUME NEW m \in Meta, NEW rows \in Seq(Row), NEW j \in Jobs \cup {NoJob},
           DistinctLabels(m.images \o rows), rows # <<>>
    PROVE  WellFormed([m EXCEPT !.state = "building", !.pending = rows,
                                !.processed = 0, !.job = j])
  BY DEF WellFormed, HasBatch, Meta

\* ... as does a failure,
LEMMA FailedWellFormed ==
    ASSUME NEW m \in Meta, WellFormed(m), m.pending # <<>>
    PROVE  WellFormed([m EXCEPT !.state = "failed"])
  BY DEF WellFormed, HasBatch, Meta

\* ... the progress of a build,
LEMMA EmbeddedWellFormed ==
    ASSUME NEW b \in BuildState, WellFormed(b.snap)
    PROVE  /\ WellFormed(Embedded(b).snap)
           /\ Embedded(b).snap.generation = b.snap.generation
<1>1. b.snap \in Meta
  BY DEF BuildState
<1>2. Embedded(b).snap = [b.snap EXCEPT !.processed = b.offset + 1]
  BY DEF Embedded, BuildState
<1> QED BY <1>1, <1>2 DEF WellFormed, HasBatch, Meta

\* ... and its publication.
LEMMA PublishedWellFormed ==
    ASSUME NEW b \in BuildState, WellFormed(b.snap)
    PROVE  WellFormed(Published(b))
<1>1. b.snap.images \o b.snap.pending \in Seq(Row)
  BY DEF BuildState, Meta
<1>2. (b.snap.images \o b.snap.pending) \o <<>> = b.snap.images \o b.snap.pending
  BY <1>1, ConcatEmptySeq
<1> QED BY <1>2 DEF WellFormed, HasBatch, Published

MetaOk == WellFormed(meta) /\ Known(meta)

\* Every step keeps every copy well formed.
LEMMA CopiesStep == CopiesInv /\ [Next]_vars => CopiesInv'
<1> SUFFICES ASSUME CopiesInv, [Next]_vars PROVE (MetaOk /\ OpWellFormed /\ BuildsWellFormed)'
  BY TypeStep DEF CopiesInv, MetaOk
<1>0. /\ TypeOK /\ MetaOk /\ OpWellFormed /\ BuildsWellFormed
      /\ meta \in Meta /\ op.snap \in Meta /\ op.batch \in Seq(Row)
      /\ op.request \in Jobs \cup {NoJob} /\ archives \in Seq(Archive)
      /\ \A j \in Jobs : builds[j] \in BuildState /\ builds[j].snap \in Meta
  BY DEF CopiesInv, TypeOK, OpState, BuildState, MetaOk
<1>a. WellFormed(Idle.snap) /\ Idle.snap.generation = 0 /\ Idle.kind = "idle"
  BY InitialWellFormed DEF Idle, InitialMeta
<1>b. WellFormed(NoBuild.snap) /\ NoBuild.snap.generation = 0 /\ NoBuild.generation = 0
  BY InitialWellFormed DEF NoBuild, InitialMeta
\* Steps that leave a part of the state alone leave its conjunct alone
<1>c. ASSUME UNCHANGED <<meta, archives>> PROVE MetaOk'
  BY <1>0, <1>c DEF MetaOk, Known
<1>d. ASSUME UNCHANGED <<op, archives>> PROVE OpWellFormed'
  BY <1>0, <1>d DEF OpWellFormed, Known
<1>e. ASSUME UNCHANGED <<builds, archives>> PROVE BuildsWellFormed'
  BY <1>0, <1>e DEF BuildsWellFormed, Known
<1>f. ASSUME op' = Idle, UNCHANGED archives PROVE OpWellFormed'
  BY <1>0, <1>a, <1>f DEF OpWellFormed, Known
\* A build that only changes its phase
<1>g. ASSUME NEW j \in Jobs, NEW to \in {"requested", "error", "lost", "done", "replace"},
             builds' = [builds EXCEPT ![j].pc = to], UNCHANGED archives
      PROVE  BuildsWellFormed'
  BY <1>0, <1>g DEF BuildsWellFormed, Known, TypeOK, BuildState
<1>1. ASSUME NEW batch \in Batches, CommitBegin(batch)
      PROVE  (MetaOk /\ OpWellFormed /\ BuildsWellFormed)'
  <2>1. batch \in Seq(Ids) /\ NewRows(batch) \in Seq(Row) /\ NewRows(batch) # <<>>
        /\ DistinctLabels(NewRows(batch))
    BY <1>0, <1>1, BatchesAssumption, NewRowsType, NewRowsDistinct DEF CommitBegin
  <2>2. DistinctLabels(meta.images)
    BY <1>0, DistinctPrefix DEF MetaOk, WellFormed, Meta
  <2>3. DistinctLabels(meta.images \o NewRows(batch))
    BY <1>0, <1>1, <2>1, <2>2, DistinctConcat DEF CommitBegin, NewLabels, Meta
  <2>4. OpWellFormed'
    BY <1>0, <1>1, <2>1, <2>3 DEF CommitBegin, OpWellFormed, MetaOk, Known
  <2> QED BY <1>1, <1>c, <1>e, <2>4 DEF CommitBegin
<1>2. ASSUME NEW rows \in Seq(Row), StartImport(rows),
             rows # <<>>, DistinctLabels(op.snap.images \o rows)
      PROVE  (MetaOk /\ OpWellFormed /\ BuildsWellFormed)'
  <2>1. WellFormed(meta') /\ meta'.generation = op.snap.generation
    BY <1>0, <1>2, StartedWellFormed DEF StartImport, Meta
  <2>2. MetaOk'
    BY <1>0, <1>2, <2>1 DEF MetaOk, OpWellFormed, Known, StartImport
  <2> QED BY <1>2, <1>e, <1>f, <2>2 DEF StartImport
<1>3. CASE CommitWrite
  BY <1>0, <1>2, <1>3 DEF CommitWrite, OpWellFormed
<1>4. CASE RetryWrite
  BY <1>0, <1>2, <1>4 DEF RetryWrite, OpWellFormed, WellFormed, Meta
<1>5. CASE RetryBegin
  <2>1. OpWellFormed'
    BY <1>0, <1>5 DEF RetryBegin, OpWellFormed, MetaOk, Known
  <2> QED BY <1>5, <1>c, <1>e, <2>1 DEF RetryBegin
<1>6. CASE FailWrite
  <2>1. WellFormed(meta') /\ meta'.generation = op.snap.generation
    BY <1>0, <1>6, FailedWellFormed DEF FailWrite, OpWellFormed, Meta
  <2>2. MetaOk'
    BY <1>0, <1>6, <2>1 DEF MetaOk, OpWellFormed, Known, FailWrite
  <2> QED BY <1>6, <1>e, <1>f, <2>2 DEF FailWrite
<1>7. ASSUME NEW j \in Jobs, BackendStep(j)
      PROVE  (MetaOk /\ OpWellFormed /\ BuildsWellFormed)'
  <2>1. CASE CallBuild(j)
    BY <2>1, <1>c, <1>d, <1>g DEF CallBuild
  <2>2. CASE CallRefused(j) \/ CallAnswersError(j) \/ CallAnswersOk(j)
    BY <2>2, <1>c, <1>d, <1>e DEF CallRefused, CallAnswersError, CallAnswersOk, TaskFails
  <2>3. CASE FailBegin(j)
    <3>1. meta.job = j => meta.pending # <<>>
      BY <1>0 DEF MetaOk, WellFormed, HasBatch, NoJob, Jobs
    <3>2. OpWellFormed'
      BY <1>0, <1>f, <2>3, <3>1 DEF FailBegin, OwnsGallery, OpWellFormed, MetaOk, Known
    <3> QED BY <2>3, <3>2, <1>c, <1>e DEF FailBegin
  <2> QED BY <1>7, <2>1, <2>2, <2>3 DEF BackendStep
<1>8. ASSUME NEW j \in Jobs, CallGivesUp(j)
      PROVE  (MetaOk /\ OpWellFormed /\ BuildsWellFormed)'
  BY <1>8, <1>c, <1>d, <1>e DEF CallGivesUp, TaskFails
<1>9. ASSUME NEW j \in Jobs, ServiceStep(j)
      PROVE  (MetaOk /\ OpWellFormed /\ BuildsWellFormed)'
  <2> DEFINE b == builds[j]
  <2>1. CASE BuildBegin(j)
    <3>1. builds'[j].snap = meta /\ builds'[j].pc = "embed"
          /\ \A k \in Jobs \ {j} : builds'[k] = builds[k]
      BY <1>0, <2>1 DEF BuildBegin, TypeOK, NoBuild
    <3>2. BuildsWellFormed'
      BY <1>0, <2>1, <3>1 DEF BuildBegin, BuildsWellFormed, MetaOk, Known
    <3> QED BY <2>1, <3>2, <1>c, <1>d DEF BuildBegin
  <2>2. CASE BuildRefused(j)
    BY <2>2, <1>c, <1>d, <1>g DEF BuildRefused, Build
  <2>3. CASE Embed(j)
    <3>1. WellFormed(meta') /\ meta'.generation = b.snap.generation
      BY <1>0, <2>3, EmbeddedWellFormed DEF Embed, BuildsWellFormed
    <3>2. builds'[j].snap = meta' /\ builds'[j].pc = "embed"
          /\ \A k \in Jobs \ {j} : builds'[k] = builds[k]
      <4>1. Embedded(b).pc = b.pc
        BY <1>0 DEF Embedded, BuildState
      <4> QED BY <1>0, <2>3, <4>1 DEF Embed, TypeOK
    <3>3. MetaOk' /\ BuildsWellFormed'
      BY <1>0, <2>3, <3>1, <3>2 DEF Embed, MetaOk, BuildsWellFormed, Known
    <3> QED BY <2>3, <3>3, <1>d DEF Embed
  <2>4. CASE ChooseGeneration(j)
    <3>1. NextGeneration(b.snap.generation) = Len(archives) + 1
      BY <1>0, NextGenerationIsNext DEF BuildsWellFormed, Known, Meta
    <3>2. /\ builds'[j].snap = b.snap /\ builds'[j].pc = "open"
          /\ builds'[j].generation = Len(archives) + 1
          /\ \A k \in Jobs \ {j} : builds'[k] = builds[k]
      BY <1>0, <2>4, <3>1 DEF ChooseGeneration, TypeOK, BuildState
    <3>3. Len(archives) + 1 \in 1 .. Len(archives) + 1
      BY <1>0
    <3>4. BuildsWellFormed'
      BY <1>0, <2>4, <3>2, <3>3 DEF ChooseGeneration, BuildsWellFormed, Known
    <3> QED BY <2>4, <3>4, <1>c, <1>d DEF ChooseGeneration
  <2>5. ASSUME NEW archive \in Archive, NEW from, NEW to \in {"save", "publish"},
               PutArchive(b.generation, archive), Build(j, from, to),
               from = "open" \/ from = "save", UNCHANGED <<meta, op>>
        PROVE  (MetaOk /\ OpWellFormed /\ BuildsWellFormed)'
    <3>1. b.generation \in 1 .. Len(archives) + 1
      BY <1>0, <2>5 DEF BuildsWellFormed, Build
    <3>2. Len(archives') >= Len(archives) /\ b.generation \in 1 .. Len(archives')
          /\ Len(archives') \in Nat /\ Len(archives) \in Nat
      BY <1>0, <2>5, <3>1, PutArchiveType
    <3>3. MetaOk' /\ OpWellFormed'
      BY <1>0, <2>5, <3>2 DEF MetaOk, OpWellFormed, Known, Meta
    <3>4. /\ builds'[j].snap = b.snap /\ builds'[j].pc = to
          /\ builds'[j].generation = b.generation
          /\ \A k \in Jobs \ {j} : builds'[k] = builds[k]
      BY <1>0, <2>5 DEF Build, TypeOK, BuildState
    <3>5. \A k \in Jobs : builds[k].snap.generation \in Nat /\ builds[k].generation \in Nat
      BY <1>0 DEF BuildState, Meta
    <3>6. ASSUME NEW k \in Jobs \ {j}
          PROVE  /\ WellFormed(builds'[k].snap) /\ Known(builds[k].snap)'
                 /\ builds'[k].pc = "open" => builds'[k].generation \in 1 .. Len(archives') + 1
                 /\ builds'[k].pc \in {"save", "publish"} =>
                      builds'[k].generation \in 1 .. Len(archives')
      BY <1>0, <3>2, <3>4, <3>5 DEF BuildsWellFormed, Known
    <3>7. WellFormed(builds'[j].snap) /\ Known(builds[j].snap)'
      BY <1>0, <3>2, <3>4, <3>5 DEF BuildsWellFormed, Known
    <3>8. BuildsWellFormed'
      BY <2>5, <3>2, <3>4, <3>6, <3>7 DEF BuildsWellFormed
    <3> QED BY <3>3, <3>8
  <2>6. CASE OpenArchive(j)
    <3>1. [complete |-> FALSE, rows |-> <<>>] \in Archive
      BY DEF Archive
    <3> QED BY <2>5, <2>6, <3>1 DEF OpenArchive
  <2>7. CASE SaveArchive(j)
    <3>1. [complete |-> TRUE, rows |-> b.rows] \in Archive
      BY <1>0 DEF Archive, BuildState
    <3> QED BY <2>5, <2>7, <3>1 DEF SaveArchive
  <2>8. CASE Publish(j)
    <3>1. WellFormed(meta') /\ meta'.generation = b.generation
      BY <1>0, <2>8, PublishedWellFormed DEF Publish, BuildsWellFormed, Published
    <3>2. b.generation \in 1 .. Len(archives)
      BY <1>0, <2>8 DEF Publish, BuildsWellFormed
    <3>3. builds'[j].snap = meta' /\ builds'[j].pc = "replace"
          /\ \A k \in Jobs \ {j} : builds'[k] = builds[k]
      BY <1>0, <2>8 DEF Publish, TypeOK, BuildState
    <3>4. Known(meta)' /\ archives' = archives
      BY <1>0, <2>8, <3>1, <3>2 DEF Publish, Known
    <3>5. Known(builds[j].snap)' /\ WellFormed(builds'[j].snap)
      BY <3>1, <3>3, <3>4 DEF Known
    <3>6. BuildsWellFormed'
      BY <1>0, <3>3, <3>4, <3>5 DEF BuildsWellFormed, Known
    <3> QED BY <2>8, <3>1, <3>4, <3>6, <1>d DEF Publish, MetaOk
  <2>9. CASE ReplaceDatabase(j)
    BY <2>9, <1>c, <1>d, <1>g DEF ReplaceDatabase, Build
  <2> QED BY <1>9, <2>1, <2>2, <2>3, <2>4, <2>6, <2>7, <2>8, <2>9 DEF ServiceStep
<1>10. ASSUME NEW j \in Jobs, BuildFails(j)
       PROVE  (MetaOk /\ OpWellFormed /\ BuildsWellFormed)'
  BY <1>10, <1>c, <1>d, <1>g DEF BuildFails
<1>11. CASE BackendRestart
  BY <1>11, <1>c, <1>e, <1>f DEF BackendRestart
<1>12. CASE ServiceRestart
  <2>1. \A j \in Jobs : /\ builds'[j].snap = builds[j].snap
                         /\ builds'[j].generation = builds[j].generation
                         /\ builds'[j].pc \in {builds[j].pc, "lost"}
    BY <1>0, <1>12 DEF ServiceRestart, TypeOK, BuildState
  <2>2. BuildsWellFormed'
    BY <1>0, <1>12, <2>1 DEF ServiceRestart, BuildsWellFormed, Known
  <2> QED BY <1>12, <2>2, <1>c, <1>d DEF ServiceRestart
<1>13. CASE WriteRaises
  BY <1>13, <1>c, <1>e, <1>f DEF WriteRaises
<1>14. CASE UNCHANGED vars
  BY <1>14, <1>c, <1>d, <1>e DEF vars
<1> QED
  BY <1>1, <1>3, <1>4, <1>5, <1>6, <1>7, <1>8, <1>9, <1>10, <1>11, <1>12, <1>13, <1>14
     DEF Next, LockStep

\* Every copy of the metadata, on disk or in memory, is always well formed.
LEMMA CopiesAlways == Spec => []CopiesInv
  BY InitCopies, CopiesStep, PTL DEF Spec

\* Files, memory of the backend and memory of the ML service keep their types.
THEOREM TypeCorrect == Spec => []TypeOK
<1>1. CopiesInv => TypeOK
  BY DEF CopiesInv
<1> QED BY <1>1, CopiesAlways, PTL

\* A label never names two images, whichever process writes the metadata last
\* and however many restarts and abandoned calls there are.
THEOREM LabelsStayUnique == Spec => []UniqueLabels
<1>1. CopiesInv => UniqueLabels
  BY DEF CopiesInv, WellFormed, UniqueLabels
<1> QED BY <1>1, CopiesAlways, PTL

\* An import shown as failed always has a batch to retry.
THEOREM FailuresAreRetriable == Spec => []FailedCanRetry
<1>1. CopiesInv => FailedCanRetry
  BY DEF CopiesInv, WellFormed, HasBatch, FailedCanRetry
<1> QED BY <1>1, CopiesAlways, PTL
==============================================================================
