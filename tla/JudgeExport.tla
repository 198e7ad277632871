----------------------------- MODULE JudgeExport -----------------------------
(***************************************************************************)
(* Export jobs of the ML service: one slot, shared by async handlers that  *)
(* receive the input, a thread that builds the submission, and handlers    *)
(* that report the state of a job or hand out its files.                   *)
(*                                                                         *)
(* A job is a folder.  Its input arrives as one ZIP, or as components: any *)
(* number of files, each received by a request of its own while it holds   *)
(* part_upload_lock.  status.json outlives the process; the slot, the lock *)
(* and the thread do not.                                                  *)
(***************************************************************************)
EXTENDS Naturals

CONSTANTS
    Jobs,         \* job ids
    NoJob,        \* active["job_id"] is None
    Parts,        \* component files a client may send
    Needed,       \* those without which inspect_archive or start refuses
    MaxFaults,    \* bound: writes of status.json that raise
    MaxRestarts   \* bound: restarts of the ML service

ASSUME NoJobAssumption == NoJob \notin Jobs
ASSUME PartsAssumption == Needed \subseteq Parts
ASSUME BoundsAssumption == MaxFaults \in Nat /\ MaxRestarts \in Nat

VARIABLES
    active,     \* the job that owns the slot
    status,     \* the state in status.json, "none" where there is no file
    parts,      \* component files in the folder of the job
    request,    \* the request that creates, starts, rejects or aborts the job
    incoming,   \* files being received: their request holds part_upload_lock
    thread,     \* run_job
    output,     \* what build left in the output folder
    reading,    \* get_job between its two reads: the job and the state it found
    told,       \* the last answer of get_job
    faults, restarts

vars == <<active, status, parts, request, incoming, thread, output, reading,
          told, faults, restarts>>

------------------------------------------------------------------------------
Final == {"completed", "failed", "interrupted"}
Unfinished == {"uploading", "collecting", "queued", "running"}
States == {"none"} \cup Unfinished \cup Final

Report == [job : Jobs \cup {NoJob}, state : States]
Nothing == [job |-> NoJob, state |-> "none"]

Init ==
    /\ active = NoJob
    /\ status = [j \in Jobs |-> "none"]
    /\ parts = [j \in Jobs |-> {}]
    /\ request = [j \in Jobs |-> "none"]
    /\ incoming = {}
    /\ thread = [j \in Jobs |-> "none"]
    /\ output = [j \in Jobs |-> "none"]
    /\ reading = Nothing
    /\ told = Nothing
    /\ faults = 0
    /\ restarts = 0

Writes(j, state) == status' = [status EXCEPT ![j] = state]
Requests(j, pc) == request' = [request EXCEPT ![j] = pc]
Runs(j, pc) == thread' = [thread EXCEPT ![j] = pc]

\* write_status raises: status.json keeps what it said
WriteRaises ==
    /\ faults < MaxFaults
    /\ faults' = faults + 1
    /\ UNCHANGED status

\* finish_active
Frees(j) == active' = IF active = j THEN NoJob ELSE active

OfReaders == <<reading, told, restarts>>

------------------------------------------------------------------------------
(* The request that brings a combined ZIP, and the one that opens a job for  *)
(* components.  Both take the slot before they make the folder.              *)

Claim(j, pc) ==
    /\ active = NoJob
    /\ status[j] = "none" /\ request[j] = "none"   \* a fresh uuid
    /\ active' = j
    /\ Requests(j, pc)
    /\ UNCHANGED <<status, parts, incoming, thread, output, faults, OfReaders>>

Upload(j) == Claim(j, "upload")

CreateComponents(j) == Claim(j, "create")

\* The folder and the first status; the ZIP is received after that
UploadBegins(j) ==
    /\ request[j] = "upload"
    /\ \/ Writes(j, "uploading") /\ Requests(j, "receive") /\ UNCHANGED faults
       \/ WriteRaises /\ Requests(j, "reject")
    /\ UNCHANGED <<active, parts, incoming, thread, output, OfReaders>>

\* The ZIP is complete and inspect_archive accepts it
UploadQueued(j) ==
    /\ request[j] = "receive"
    /\ \/ Writes(j, "queued") /\ Runs(j, "start") /\ Requests(j, "none") /\ UNCHANGED faults
       \/ WriteRaises /\ Requests(j, "reject") /\ UNCHANGED thread
    /\ UNCHANGED <<active, parts, incoming, output, OfReaders>>

\* The client is gone, the disk is full, or the ZIP is not an archive of the
\* organizers
UploadRejected(j) ==
    /\ request[j] = "receive"
    /\ Requests(j, "reject")
    /\ UNCHANGED <<active, status, parts, incoming, thread, output, faults, OfReaders>>

\* The except clauses of upload.  When this write raises too, the slot is
\* never given back.
Reject(j) ==
    /\ request[j] = "reject"
    /\ \/ Writes(j, "failed") /\ Requests(j, "release") /\ UNCHANGED faults
       \/ WriteRaises /\ Requests(j, "none")
    /\ UNCHANGED <<active, parts, incoming, thread, output, OfReaders>>

\* The folder and the first status of a component job
ComponentsCreated(j) ==
    /\ request[j] = "create"
    /\ \/ Writes(j, "collecting") /\ Requests(j, "none") /\ UNCHANGED faults
       \/ WriteRaises /\ Requests(j, "release")
    /\ UNCHANGED <<active, parts, incoming, thread, output, OfReaders>>

Release(j) ==
    /\ request[j] = "release"
    /\ Frees(j)
    /\ Requests(j, "none")
    /\ UNCHANGED <<status, parts, incoming, thread, output, faults, OfReaders>>

------------------------------------------------------------------------------
(* Requests of a component job; each holds part_upload_lock to its end.      *)

\* Mutant: the requests that start or abort a job do not take the lock
LockIgnored == \A k \in Jobs : request[k] # "release"

LockFree == incoming = {} /\ \A k \in Jobs : request[k] # "release"

\* Mutant: only the slot is checked, not the state
CollectingUnread(j) == active = j

Collecting(j) == active = j /\ status[j] = "collecting"

\* stream_part: a part that is there already is refused
ReceivePart(j, p) ==
    /\ LockFree
    /\ Collecting(j)
    /\ p \notin parts[j]
    /\ incoming' = {<<j, p>>}
    /\ UNCHANGED <<active, status, parts, request, thread, output, faults, OfReaders>>

\* The temporary file becomes the part
KeepPart(j, p) ==
    /\ <<j, p>> \in incoming
    /\ incoming' = incoming \ {<<j, p>>}
    /\ parts' = [parts EXCEPT ![j] = @ \cup {p}]
    /\ UNCHANGED <<active, status, request, thread, output, faults, OfReaders>>

\* The client is gone, or the part is empty, too large, or does not fit
DropPart(j, p) ==
    /\ <<j, p>> \in incoming
    /\ incoming' = incoming \ {<<j, p>>}
    /\ UNCHANGED <<active, status, parts, request, thread, output, faults, OfReaders>>

\* Missing images are answered 422 and change nothing; so is a status that
\* cannot be written here: the job goes on collecting.
StartQueued(j) ==
    /\ LockFree
    /\ Collecting(j)
    /\ Needed \subseteq parts[j]
    /\ Writes(j, "queued")
    /\ Runs(j, "start")
    /\ UNCHANGED <<active, parts, request, incoming, output, faults, OfReaders>>

\* inspect_archive refuses what was collected
StartRefused(j) ==
    /\ LockFree
    /\ Collecting(j)
    /\ parts[j] # {}
    /\ Writes(j, "failed")
    /\ Requests(j, "release")
    /\ UNCHANGED <<active, parts, incoming, thread, output, faults, OfReaders>>

Abort(j) ==
    /\ LockFree
    /\ Collecting(j)
    /\ Writes(j, "interrupted")
    /\ Requests(j, "release")
    /\ UNCHANGED <<active, parts, incoming, thread, output, faults, OfReaders>>

------------------------------------------------------------------------------
(* run_job                                                                   *)

\* The first write is outside of the try statement: when it raises, the
\* thread ends and the slot is never given back.
RunBegins(j) ==
    /\ thread[j] = "start"
    /\ \/ Writes(j, "running") /\ Runs(j, "build") /\ UNCHANGED faults
       \/ WriteRaises /\ Runs(j, "none")
    /\ UNCHANGED <<active, parts, request, incoming, output, OfReaders>>

\* build writes its files one after the other ...
BuildWrites(j) ==
    /\ thread[j] = "build" /\ output[j] = "none"
    /\ output' = [output EXCEPT ![j] = "partial"]
    /\ UNCHANGED <<active, status, parts, request, incoming, thread, faults, OfReaders>>

\* ... and returns when the submission was read back and compared
BuildEnds(j) ==
    /\ thread[j] = "build" /\ output[j] = "partial"
    /\ output' = [output EXCEPT ![j] = "complete"]
    /\ Runs(j, "save")
    /\ UNCHANGED <<active, status, parts, request, incoming, faults, OfReaders>>

\* Another encoder, a bad JPEG, a full disk, a progress that cannot be written
BuildFails(j) ==
    /\ thread[j] = "build"
    /\ Runs(j, "fail")
    /\ UNCHANGED <<active, status, parts, request, incoming, output, faults, OfReaders>>

\* Mutant: progress writes "completed" once all images are embedded, before
\* the files are exported
SavesWhenEmbedded(j) ==
    /\ thread[j] \in {"build", "save"}
    /\ \/ Writes(j, "completed") /\ Runs(j, "end") /\ UNCHANGED faults
       \/ WriteRaises /\ Runs(j, "fail")
    /\ UNCHANGED <<active, parts, request, incoming, output, OfReaders>>

Saves(j) ==
    /\ thread[j] = "save"
    /\ \/ Writes(j, "completed") /\ Runs(j, "end") /\ UNCHANGED faults
       \/ WriteRaises /\ Runs(j, "fail")
    /\ UNCHANGED <<active, parts, request, incoming, output, OfReaders>>

SavesFailure(j) ==
    /\ thread[j] = "fail"
    /\ \/ Writes(j, "failed") /\ UNCHANGED faults
       \/ WriteRaises
    /\ Runs(j, "end")
    /\ UNCHANGED <<active, parts, request, incoming, output, OfReaders>>

\* Mutant: the slot is given back by the branch that completes the job
RunEndsCompleted(j) ==
    /\ thread[j] = "end"
    /\ Runs(j, "none")
    /\ IF status[j] = "completed" THEN Frees(j) ELSE UNCHANGED active
    /\ UNCHANGED <<status, parts, request, incoming, output, faults, OfReaders>>

\* The finally clause
RunEnds(j) ==
    /\ thread[j] = "end"
    /\ Runs(j, "none")
    /\ Frees(j)
    /\ UNCHANGED <<status, parts, request, incoming, output, faults, OfReaders>>

------------------------------------------------------------------------------
(* Reading a job                                                             *)

\* get_job reads status.json first and takes active_lock later.  Reading
\* changes nothing, so one reader stands for all of them.
ReadStatus(j) ==
    /\ status[j] # "none" /\ reading = Nothing
    /\ reading' = [job |-> j, state |-> status[j]]
    /\ told' = Nothing
    /\ UNCHANGED <<active, status, parts, request, incoming, thread, output,
                   faults, restarts>>

\* A state that says somebody works on the job is only believed of the slot's
AnswerStatus ==
    /\ reading # Nothing
    /\ told' = [reading EXCEPT !.state =
           IF @ \in Unfinished /\ active # reading.job THEN "interrupted" ELSE @]
    /\ reading' = Nothing
    /\ UNCHANGED <<active, status, parts, request, incoming, thread, output,
                   faults, restarts>>

\* get_file
Downloadable(j) == status[j] = "completed"

ServiceRestart ==
    /\ restarts < MaxRestarts
    /\ restarts' = restarts + 1
    /\ active' = NoJob
    /\ request' = [j \in Jobs |-> "none"]
    /\ incoming' = {}
    /\ thread' = [j \in Jobs |-> "none"]
    /\ reading' = Nothing
    /\ UNCHANGED <<status, parts, output, told, faults>>

------------------------------------------------------------------------------
Component(j) ==
    \/ \E p \in Parts : ReceivePart(j, p) \/ KeepPart(j, p) \/ DropPart(j, p)
    \/ StartQueued(j)
    \/ StartRefused(j)
    \/ Abort(j)

\* What a request does with no client to wait for
Handler(j) ==
    \/ UploadBegins(j)
    \/ Reject(j)
    \/ ComponentsCreated(j)
    \/ Release(j)

RunJob(j) ==
    \/ RunBegins(j)
    \/ BuildWrites(j)
    \/ BuildEnds(j)
    \/ BuildFails(j)
    \/ Saves(j)
    \/ SavesFailure(j)
    \/ RunEnds(j)

Next ==
    \/ \E j \in Jobs :
           \/ Upload(j)
           \/ CreateComponents(j)
           \/ UploadQueued(j)
           \/ UploadRejected(j)
           \/ Component(j)
           \/ Handler(j)
           \/ RunJob(j)
           \/ ReadStatus(j)
    \/ AnswerStatus
    \/ ServiceRestart

Spec == Init /\ [][Next]_vars

\* Handlers and the thread go on; clients may stop sending at any time
Fairness == \A j \in Jobs : WF_vars(Handler(j)) /\ WF_vars(RunJob(j))

FairSpec == Spec /\ Fairness

------------------------------------------------------------------------------
(* Properties *)

Typed ==
    /\ active \in Jobs \cup {NoJob}
    /\ status \in [Jobs -> States]
    /\ parts \in [Jobs -> SUBSET Parts]
    /\ request \in [Jobs -> {"none", "upload", "create", "receive", "reject", "release"}]
    /\ incoming \subseteq Jobs \X Parts
    /\ thread \in [Jobs -> {"none", "start", "build", "save", "fail", "end"}]
    /\ output \in [Jobs -> {"none", "partial", "complete"}]
    /\ reading \in Report
    /\ told \in Report
    /\ faults \in Nat
    /\ restarts \in Nat

Working(j) ==
    request[j] # "none" \/ thread[j] # "none" \/ \E p \in Parts : <<j, p>> \in incoming

\* Whoever works on a job works for the owner of the slot.
OwnersWork == \A j \in Jobs : Working(j) => active = j

\* One request receives a part at a time, and nobody but the thread works on a
\* job that was started.
OneAtATime ==
    /\ \A a, b \in incoming : a = b
    /\ \A j \in Jobs : thread[j] # "none" => request[j] = "none" /\ incoming = {}

\* The type invariant: the slot and part_upload_lock do their work.
TypeOK == Typed /\ OwnersWork /\ OneAtATime

\* One export runs at a time: never two threads with the encoder and the disk.
OneBuild == \A j, k \in Jobs : thread[j] # "none" /\ thread[k] # "none" => j = k

\* What get_file hands out is a finished and verified submission, at any later
\* time and after any restart.
DownloadsComplete == \A j \in Jobs : Downloadable(j) => output[j] = "complete"

\* No file joins the input of a job that was started, refused or aborted: the
\* build reads what inspect_archive accepted.
PartsFrozen == [][\A j \in Jobs : parts'[j] # parts[j] => status[j] = "collecting"]_vars

\* status.json is written for the owner of the slot only.  This is what lets
\* get_job call a job without the slot interrupted: nobody will finish it.
StatusOwned == [][\A j \in Jobs : status'[j] # status[j] => active = j]_vars

\* What get_job would say of each job if it read the status and the slot at once
Reported == [j \in Jobs |->
    IF status[j] \in Unfinished /\ active # j THEN "interrupted" ELSE status[j]]

Ledger == INSTANCE JobLedger WITH report <- Reported

\* The jobs keep the ledger of JobLedger: whatever requests, the thread, failed
\* writes and restarts do, one job is unfinished at most, a job never goes back,
\* and what was reported as an end stays.
KeepsLedger == Ledger!Spec

\* A job whose input is complete gives the slot back, whatever the build does,
\* unless status.json could not be written.
SlotFreed ==
    \A j \in Jobs :
        active = j /\ status[j] \in {"queued", "running"} \cup Final
            ~> active # j \/ faults > 0

\* A job that is reported as interrupted was not completed; it is, when the
\* job ends between the two reads of get_job.
InterruptedNotCompleted ==
    told.state = "interrupted" => status[told.job] # "completed"
==============================================================================
