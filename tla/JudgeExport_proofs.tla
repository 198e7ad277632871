------------------------- MODULE JudgeExport_proofs -------------------------
(***************************************************************************)
(* Safety of the export jobs, for all jobs, parts and bounds.              *)
(*                                                                         *)
(* The slot does the work: whoever works on a job works for the owner of   *)
(* the slot (TypeOK), and PhaseInv says which states of status.json and of *)
(* the output folder go with each phase of the work.                       *)
(***************************************************************************)
EXTENDS JudgeExport, TLAPS

Phase(j) ==
    /\ request[j] \in {"upload", "create"} => status[j] = "none"
    /\ request[j] = "receive" => status[j] = "uploading"
    /\ request[j] = "reject" => status[j] \in {"none", "uploading"}
    /\ request[j] # "none" => thread[j] = "none" /\ incoming = {}
    /\ thread[j] # "none" => status[j] \in {"queued", "running", "completed", "failed"}
    /\ thread[j] = "save" => output[j] = "complete"
    /\ status[j] = "completed" => output[j] = "complete"

PhaseInv ==
    /\ \A j \in Jobs : Phase(j)
    /\ \A a \in incoming : status[a[1]] = "collecting"

------------------------------------------------------------------------------
\* Every step keeps the types of files and memory.
LEMMA StepsKeepTypes == Typed /\ [Next]_vars => Typed'
<1> SUFFICES ASSUME Typed, [Next]_vars PROVE Typed'
  OBVIOUS
<1> USE NoJobAssumption, PartsAssumption, BoundsAssumption DEF Typed, States,
        Unfinished, Final, Report, Nothing, Writes, Requests, Runs, WriteRaises,
        Frees, OfReaders
<1>1. ASSUME NEW j \in Jobs, NEW pc \in {"upload", "create"}, Claim(j, pc) PROVE Typed'
  BY <1>1 DEF Claim
<1>2. ASSUME NEW j \in Jobs, UploadBegins(j) PROVE Typed'
  BY <1>2 DEF UploadBegins
<1>3. ASSUME NEW j \in Jobs, UploadQueued(j) PROVE Typed'
  BY <1>3 DEF UploadQueued
<1>4. ASSUME NEW j \in Jobs, UploadRejected(j) PROVE Typed'
  BY <1>4 DEF UploadRejected
<1>5. ASSUME NEW j \in Jobs, Reject(j) PROVE Typed'
  BY <1>5 DEF Reject
<1>6. ASSUME NEW j \in Jobs, ComponentsCreated(j) PROVE Typed'
  BY <1>6 DEF ComponentsCreated
<1>7. ASSUME NEW j \in Jobs, Release(j) PROVE Typed'
  BY <1>7 DEF Release
<1>8. ASSUME NEW j \in Jobs, NEW p \in Parts, ReceivePart(j, p) PROVE Typed'
  BY <1>8 DEF ReceivePart
<1>9. ASSUME NEW j \in Jobs, NEW p \in Parts, KeepPart(j, p) PROVE Typed'
  BY <1>9 DEF KeepPart
<1>10. ASSUME NEW j \in Jobs, NEW p \in Parts, DropPart(j, p) PROVE Typed'
  BY <1>10 DEF DropPart
<1>11. ASSUME NEW j \in Jobs, StartQueued(j) PROVE Typed'
  BY <1>11 DEF StartQueued
<1>12. ASSUME NEW j \in Jobs, StartRefused(j) PROVE Typed'
  BY <1>12 DEF StartRefused
<1>13. ASSUME NEW j \in Jobs, Abort(j) PROVE Typed'
  BY <1>13 DEF Abort
<1>14. ASSUME NEW j \in Jobs, RunBegins(j) PROVE Typed'
  BY <1>14 DEF RunBegins
<1>15. ASSUME NEW j \in Jobs, BuildWrites(j) PROVE Typed'
  BY <1>15 DEF BuildWrites
<1>16. ASSUME NEW j \in Jobs, BuildEnds(j) PROVE Typed'
  BY <1>16 DEF BuildEnds
<1>17. ASSUME NEW j \in Jobs, BuildFails(j) PROVE Typed'
  BY <1>17 DEF BuildFails
<1>18. ASSUME NEW j \in Jobs, Saves(j) PROVE Typed'
  BY <1>18 DEF Saves
<1>19. ASSUME NEW j \in Jobs, SavesFailure(j) PROVE Typed'
  BY <1>19 DEF SavesFailure
<1>20. ASSUME NEW j \in Jobs, RunEnds(j) PROVE Typed'
  BY <1>20 DEF RunEnds
<1>21. ASSUME NEW j \in Jobs, ReadStatus(j) PROVE Typed'
  BY <1>21 DEF ReadStatus
<1>22. ASSUME AnswerStatus PROVE Typed'
  BY <1>22 DEF AnswerStatus
<1>23. ASSUME ServiceRestart PROVE Typed'
  BY <1>23 DEF ServiceRestart
<1>24. CASE UNCHANGED vars
  BY <1>24 DEF vars
<1> QED
  BY <1>1, <1>2, <1>3, <1>4, <1>5, <1>6, <1>7, <1>8, <1>9, <1>10, <1>11, <1>12,
     <1>13, <1>14, <1>15, <1>16, <1>17, <1>18, <1>19, <1>20, <1>21, <1>22, <1>23,
     <1>24
     DEF Next, Upload, CreateComponents, Component, Handler, RunJob

\* Whoever works on a job after a step works for the owner of the slot.
LEMMA StepsKeepOwners == TypeOK /\ PhaseInv /\ [Next]_vars => OwnersWork'
<1> SUFFICES ASSUME TypeOK, PhaseInv, [Next]_vars PROVE OwnersWork'
  OBVIOUS
<1> USE NoJobAssumption, PartsAssumption, BoundsAssumption DEF TypeOK, Typed,
        OwnersWork, OneAtATime, Working, LockFree, Collecting, Writes, Requests,
        Runs, WriteRaises, Frees, OfReaders
<1>1. ASSUME NEW j \in Jobs, NEW pc \in {"upload", "create"}, Claim(j, pc) PROVE OwnersWork'
  BY <1>1 DEF Claim
<1>2. ASSUME NEW j \in Jobs, UploadBegins(j) PROVE OwnersWork'
  BY <1>2 DEF UploadBegins
<1>3. ASSUME NEW j \in Jobs, UploadQueued(j) PROVE OwnersWork'
  <2>1. active = j /\ active' = j /\ incoming' = incoming
    BY <1>3 DEF UploadQueued
  <2>2. \A k \in Jobs \ {j} : request'[k] = request[k] /\ thread'[k] = thread[k]
    BY <1>3 DEF UploadQueued
  <2> QED
    BY <2>1, <2>2
<1>4. ASSUME NEW j \in Jobs, UploadRejected(j) PROVE OwnersWork'
  BY <1>4 DEF UploadRejected
<1>5. ASSUME NEW j \in Jobs, Reject(j) PROVE OwnersWork'
  BY <1>5 DEF Reject
<1>6. ASSUME NEW j \in Jobs, ComponentsCreated(j) PROVE OwnersWork'
  BY <1>6 DEF ComponentsCreated
<1>7. ASSUME NEW j \in Jobs, Release(j) PROVE OwnersWork'
  <2>1. active = j /\ thread[j] = "none" /\ incoming = {} /\ incoming' = incoming
    BY <1>7 DEF Release, PhaseInv, Phase
  <2>2. request' = [request EXCEPT ![j] = "none"] /\ thread' = thread
    BY <1>7 DEF Release
  <2>3. \A k \in Jobs : ~Working(k)'
    BY <2>1, <2>2
  <2> QED
    BY <2>3
<1>8. ASSUME NEW j \in Jobs, NEW p \in Parts, ReceivePart(j, p) PROVE OwnersWork'
  BY <1>8 DEF ReceivePart
<1>9. ASSUME NEW j \in Jobs, NEW p \in Parts, KeepPart(j, p) PROVE OwnersWork'
  BY <1>9 DEF KeepPart
<1>10. ASSUME NEW j \in Jobs, NEW p \in Parts, DropPart(j, p) PROVE OwnersWork'
  BY <1>10 DEF DropPart
<1>11. ASSUME NEW j \in Jobs, StartQueued(j) PROVE OwnersWork'
  BY <1>11 DEF StartQueued
<1>12. ASSUME NEW j \in Jobs, StartRefused(j) PROVE OwnersWork'
  BY <1>12 DEF StartRefused
<1>13. ASSUME NEW j \in Jobs, Abort(j) PROVE OwnersWork'
  BY <1>13 DEF Abort
<1>14. ASSUME NEW j \in Jobs, RunBegins(j) PROVE OwnersWork'
  BY <1>14 DEF RunBegins
<1>15. ASSUME NEW j \in Jobs, BuildWrites(j) PROVE OwnersWork'
  BY <1>15 DEF BuildWrites
<1>16. ASSUME NEW j \in Jobs, BuildEnds(j) PROVE OwnersWork'
  BY <1>16 DEF BuildEnds
<1>17. ASSUME NEW j \in Jobs, BuildFails(j) PROVE OwnersWork'
  BY <1>17 DEF BuildFails
<1>18. ASSUME NEW j \in Jobs, Saves(j) PROVE OwnersWork'
  BY <1>18 DEF Saves
<1>19. ASSUME NEW j \in Jobs, SavesFailure(j) PROVE OwnersWork'
  BY <1>19 DEF SavesFailure
<1>20. ASSUME NEW j \in Jobs, RunEnds(j) PROVE OwnersWork'
  BY <1>20 DEF RunEnds
<1>21. ASSUME NEW j \in Jobs, ReadStatus(j) PROVE OwnersWork'
  BY <1>21 DEF ReadStatus
<1>22. ASSUME AnswerStatus PROVE OwnersWork'
  BY <1>22 DEF AnswerStatus
<1>23. ASSUME ServiceRestart PROVE OwnersWork'
  BY <1>23 DEF ServiceRestart
<1>24. CASE UNCHANGED vars
  BY <1>24 DEF vars
<1> QED
  BY <1>1, <1>2, <1>3, <1>4, <1>5, <1>6, <1>7, <1>8, <1>9, <1>10, <1>11, <1>12,
     <1>13, <1>14, <1>15, <1>16, <1>17, <1>18, <1>19, <1>20, <1>21, <1>22, <1>23,
     <1>24
     DEF Next, Upload, CreateComponents, Component, Handler, RunJob

\* Every step leaves each job in a status its handlers and thread can have.
LEMMA StepsKeepPhases == TypeOK /\ PhaseInv /\ [Next]_vars => PhaseInv'
<1> SUFFICES ASSUME TypeOK, PhaseInv, [Next]_vars PROVE PhaseInv'
  OBVIOUS
<1> USE NoJobAssumption, PartsAssumption, BoundsAssumption DEF TypeOK, Typed,
        OwnersWork, OneAtATime, Working, PhaseInv, Phase, LockFree, Collecting,
        Writes, Requests, Runs, WriteRaises, Frees, OfReaders
<1>1. ASSUME NEW j \in Jobs, NEW pc \in {"upload", "create"}, Claim(j, pc) PROVE PhaseInv'
  BY <1>1 DEF Claim
<1>2. ASSUME NEW j \in Jobs, UploadBegins(j) PROVE PhaseInv'
  BY <1>2 DEF UploadBegins
<1>3. ASSUME NEW j \in Jobs, UploadQueued(j) PROVE PhaseInv'
  BY <1>3 DEF UploadQueued
<1>4. ASSUME NEW j \in Jobs, UploadRejected(j) PROVE PhaseInv'
  BY <1>4 DEF UploadRejected
<1>5. ASSUME NEW j \in Jobs, Reject(j) PROVE PhaseInv'
  BY <1>5 DEF Reject
<1>6. ASSUME NEW j \in Jobs, ComponentsCreated(j) PROVE PhaseInv'
  BY <1>6 DEF ComponentsCreated
<1>7. ASSUME NEW j \in Jobs, Release(j) PROVE PhaseInv'
  BY <1>7 DEF Release
<1>8. ASSUME NEW j \in Jobs, NEW p \in Parts, ReceivePart(j, p) PROVE PhaseInv'
  BY <1>8 DEF ReceivePart
<1>9. ASSUME NEW j \in Jobs, NEW p \in Parts, KeepPart(j, p) PROVE PhaseInv'
  BY <1>9 DEF KeepPart
<1>10. ASSUME NEW j \in Jobs, NEW p \in Parts, DropPart(j, p) PROVE PhaseInv'
  BY <1>10 DEF DropPart
<1>11. ASSUME NEW j \in Jobs, StartQueued(j) PROVE PhaseInv'
  BY <1>11 DEF StartQueued
<1>12. ASSUME NEW j \in Jobs, StartRefused(j) PROVE PhaseInv'
  BY <1>12 DEF StartRefused
<1>13. ASSUME NEW j \in Jobs, Abort(j) PROVE PhaseInv'
  BY <1>13 DEF Abort
<1>14. ASSUME NEW j \in Jobs, RunBegins(j) PROVE PhaseInv'
  BY <1>14 DEF RunBegins
<1>15. ASSUME NEW j \in Jobs, BuildWrites(j) PROVE PhaseInv'
  BY <1>15 DEF BuildWrites
<1>16. ASSUME NEW j \in Jobs, BuildEnds(j) PROVE PhaseInv'
  BY <1>16 DEF BuildEnds
<1>17. ASSUME NEW j \in Jobs, BuildFails(j) PROVE PhaseInv'
  BY <1>17 DEF BuildFails
<1>18. ASSUME NEW j \in Jobs, Saves(j) PROVE PhaseInv'
  BY <1>18 DEF Saves
<1>19. ASSUME NEW j \in Jobs, SavesFailure(j) PROVE PhaseInv'
  BY <1>19 DEF SavesFailure
<1>20. ASSUME NEW j \in Jobs, RunEnds(j) PROVE PhaseInv'
  BY <1>20 DEF RunEnds
<1>21. ASSUME NEW j \in Jobs, ReadStatus(j) PROVE PhaseInv'
  BY <1>21 DEF ReadStatus
<1>22. ASSUME AnswerStatus PROVE PhaseInv'
  BY <1>22 DEF AnswerStatus
<1>23. ASSUME ServiceRestart PROVE PhaseInv'
  BY <1>23 DEF ServiceRestart
<1>24. CASE UNCHANGED vars
  BY <1>24 DEF vars
<1> QED
  BY <1>1, <1>2, <1>3, <1>4, <1>5, <1>6, <1>7, <1>8, <1>9, <1>10, <1>11, <1>12,
     <1>13, <1>14, <1>15, <1>16, <1>17, <1>18, <1>19, <1>20, <1>21, <1>22, <1>23,
     <1>24
     DEF Next, Upload, CreateComponents, Component, Handler, RunJob

\* No step lets a second piece of work begin.
LEMMA StepsKeepOrder == TypeOK /\ PhaseInv /\ [Next]_vars => OneAtATime'
<1> SUFFICES ASSUME TypeOK, PhaseInv, [Next]_vars PROVE OneAtATime'
  OBVIOUS
<1> USE NoJobAssumption, PartsAssumption, BoundsAssumption DEF TypeOK, Typed,
        OwnersWork, OneAtATime, Working, PhaseInv, Phase, LockFree, Collecting,
        Writes, Requests, Runs, WriteRaises, Frees, OfReaders
<1>1. ASSUME NEW j \in Jobs, NEW pc \in {"upload", "create"}, Claim(j, pc) PROVE OneAtATime'
  BY <1>1 DEF Claim
<1>2. ASSUME NEW j \in Jobs, UploadBegins(j) PROVE OneAtATime'
  BY <1>2 DEF UploadBegins
<1>3. ASSUME NEW j \in Jobs, UploadQueued(j) PROVE OneAtATime'
  BY <1>3 DEF UploadQueued
<1>4. ASSUME NEW j \in Jobs, UploadRejected(j) PROVE OneAtATime'
  BY <1>4 DEF UploadRejected
<1>5. ASSUME NEW j \in Jobs, Reject(j) PROVE OneAtATime'
  BY <1>5 DEF Reject
<1>6. ASSUME NEW j \in Jobs, ComponentsCreated(j) PROVE OneAtATime'
  BY <1>6 DEF ComponentsCreated
<1>7. ASSUME NEW j \in Jobs, Release(j) PROVE OneAtATime'
  BY <1>7 DEF Release
<1>8. ASSUME NEW j \in Jobs, NEW p \in Parts, ReceivePart(j, p) PROVE OneAtATime'
  BY <1>8 DEF ReceivePart
<1>9. ASSUME NEW j \in Jobs, NEW p \in Parts, KeepPart(j, p) PROVE OneAtATime'
  BY <1>9 DEF KeepPart
<1>10. ASSUME NEW j \in Jobs, NEW p \in Parts, DropPart(j, p) PROVE OneAtATime'
  BY <1>10 DEF DropPart
<1>11. ASSUME NEW j \in Jobs, StartQueued(j) PROVE OneAtATime'
  BY <1>11 DEF StartQueued
<1>12. ASSUME NEW j \in Jobs, StartRefused(j) PROVE OneAtATime'
  BY <1>12 DEF StartRefused
<1>13. ASSUME NEW j \in Jobs, Abort(j) PROVE OneAtATime'
  BY <1>13 DEF Abort
<1>14. ASSUME NEW j \in Jobs, RunBegins(j) PROVE OneAtATime'
  BY <1>14 DEF RunBegins
<1>15. ASSUME NEW j \in Jobs, BuildWrites(j) PROVE OneAtATime'
  BY <1>15 DEF BuildWrites
<1>16. ASSUME NEW j \in Jobs, BuildEnds(j) PROVE OneAtATime'
  BY <1>16 DEF BuildEnds
<1>17. ASSUME NEW j \in Jobs, BuildFails(j) PROVE OneAtATime'
  BY <1>17 DEF BuildFails
<1>18. ASSUME NEW j \in Jobs, Saves(j) PROVE OneAtATime'
  BY <1>18 DEF Saves
<1>19. ASSUME NEW j \in Jobs, SavesFailure(j) PROVE OneAtATime'
  BY <1>19 DEF SavesFailure
<1>20. ASSUME NEW j \in Jobs, RunEnds(j) PROVE OneAtATime'
  BY <1>20 DEF RunEnds
<1>21. ASSUME NEW j \in Jobs, ReadStatus(j) PROVE OneAtATime'
  BY <1>21 DEF ReadStatus
<1>22. ASSUME AnswerStatus PROVE OneAtATime'
  BY <1>22 DEF AnswerStatus
<1>23. ASSUME ServiceRestart PROVE OneAtATime'
  BY <1>23 DEF ServiceRestart
<1>24. CASE UNCHANGED vars
  BY <1>24 DEF vars
<1> QED
  BY <1>1, <1>2, <1>3, <1>4, <1>5, <1>6, <1>7, <1>8, <1>9, <1>10, <1>11, <1>12,
     <1>13, <1>14, <1>15, <1>16, <1>17, <1>18, <1>19, <1>20, <1>21, <1>22, <1>23,
     <1>24
     DEF Next, Upload, CreateComponents, Component, Handler, RunJob

\* The service starts with no job, an empty slot and no work.
LEMMA Initial == Init => TypeOK /\ PhaseInv
  BY BoundsAssumption
     DEF Init, TypeOK, Typed, OwnersWork, OneAtATime, Working, PhaseInv, Phase,
         States, Unfinished, Final, Report, Nothing

\* The types, the ownership of the slot and the phases are inductive.
LEMMA Inductive == TypeOK /\ PhaseInv /\ [Next]_vars => (TypeOK /\ PhaseInv)'
  BY StepsKeepTypes, StepsKeepOwners, StepsKeepOrder, StepsKeepPhases DEF TypeOK

\* They hold in every reachable state.
LEMMA Invariant == Spec => [](TypeOK /\ PhaseInv)
  BY Initial, Inductive, PTL DEF Spec

------------------------------------------------------------------------------
\* The slot and part_upload_lock do their work: whoever works on a job works
\* for the owner of the slot, whichever requests, failures and restarts come.
THEOREM TypeCorrect == Spec => []TypeOK
  BY Invariant, PTL

\* At most one thread builds an export.
THEOREM OneBuildRuns == Spec => []OneBuild
<1>1. TypeOK => OneBuild
  BY DEF TypeOK, OwnersWork, Working, OneBuild
<1> QED
  BY <1>1, TypeCorrect, PTL

\* get_file hands out finished submissions only.
THEOREM DownloadsAreComplete == Spec => []DownloadsComplete
<1>1. PhaseInv => DownloadsComplete
  BY DEF PhaseInv, Phase, DownloadsComplete, Downloadable
<1> QED
  BY <1>1, Invariant, PTL

\* A step that writes status.json does it for the owner of the slot.
LEMMA StepsWriteOwned ==
    TypeOK /\ PhaseInv /\ [Next]_vars =>
        \A k \in Jobs : status'[k] # status[k] => active = k
<1> SUFFICES ASSUME TypeOK, PhaseInv, [Next]_vars, NEW k \in Jobs, status'[k] # status[k]
             PROVE  active = k
  OBVIOUS
<1> USE DEF TypeOK, Typed, OwnersWork, Working, Collecting, Writes, WriteRaises, OfReaders
<1>1. ASSUME NEW j \in Jobs, UploadBegins(j) PROVE active = k
  BY <1>1 DEF UploadBegins
<1>2. ASSUME NEW j \in Jobs, UploadQueued(j) PROVE active = k
  BY <1>2 DEF UploadQueued
<1>3. ASSUME NEW j \in Jobs, Reject(j) PROVE active = k
  BY <1>3 DEF Reject
<1>4. ASSUME NEW j \in Jobs, ComponentsCreated(j) PROVE active = k
  BY <1>4 DEF ComponentsCreated
<1>5. ASSUME NEW j \in Jobs, StartQueued(j) PROVE active = k
  BY <1>5 DEF StartQueued
<1>6. ASSUME NEW j \in Jobs, StartRefused(j) PROVE active = k
  BY <1>6 DEF StartRefused
<1>7. ASSUME NEW j \in Jobs, Abort(j) PROVE active = k
  BY <1>7 DEF Abort
<1>8. ASSUME NEW j \in Jobs, RunBegins(j) PROVE active = k
  BY <1>8 DEF RunBegins
<1>9. ASSUME NEW j \in Jobs, Saves(j) PROVE active = k
  BY <1>9 DEF Saves
<1>10. ASSUME NEW j \in Jobs, SavesFailure(j) PROVE active = k
  BY <1>10 DEF SavesFailure
<1>11. ASSUME status' = status PROVE FALSE
  BY <1>11
<1> QED
  BY <1>1, <1>2, <1>3, <1>4, <1>5, <1>6, <1>7, <1>8, <1>9, <1>10, <1>11
     DEF Next, Upload, CreateComponents, Component, Handler, RunJob, vars,
         Claim, UploadRejected, Release, ReceivePart, KeepPart, DropPart,
         BuildWrites, BuildEnds, BuildFails, RunEnds, ReadStatus, AnswerStatus,
         ServiceRestart

\* status.json is written for the owner of the slot only.
THEOREM StatusIsOwned == Spec => StatusOwned
<1>1. TypeOK /\ PhaseInv /\ [Next]_vars =>
          [\A j \in Jobs : status'[j] # status[j] => active = j]_vars
  BY StepsWriteOwned
<1> QED
  BY <1>1, Invariant, PTL DEF Spec, StatusOwned

\* A step that changes the parts of a job finds it collecting.
LEMMA StepsKeepParts ==
    TypeOK /\ PhaseInv /\ [Next]_vars =>
        \A k \in Jobs : parts'[k] # parts[k] => status[k] = "collecting"
<1> SUFFICES ASSUME TypeOK, PhaseInv, [Next]_vars, NEW k \in Jobs, parts'[k] # parts[k]
             PROVE  status[k] = "collecting"
  OBVIOUS
<1> USE DEF TypeOK, Typed, PhaseInv, OfReaders
<1>1. ASSUME NEW j \in Jobs, NEW p \in Parts, KeepPart(j, p) PROVE status[k] = "collecting"
  BY <1>1 DEF KeepPart
<1>2. ASSUME parts' = parts PROVE FALSE
  BY <1>2
<1> QED
  BY <1>1, <1>2
     DEF Next, Upload, CreateComponents, Component, Handler, RunJob, vars,
         Claim, UploadBegins, UploadQueued, UploadRejected, Reject, ComponentsCreated,
         Release, ReceivePart, DropPart, StartQueued, StartRefused, Abort,
         RunBegins, BuildWrites, BuildEnds, BuildFails, Saves, SavesFailure,
         RunEnds, ReadStatus, AnswerStatus, ServiceRestart

\* No file joins the input of a job that was started, refused or aborted.
THEOREM PartsAreFrozen == Spec => PartsFrozen
<1>1. TypeOK /\ PhaseInv /\ [Next]_vars =>
          [\A j \in Jobs : parts'[j] # parts[j] => status[j] = "collecting"]_vars
  BY StepsKeepParts
<1> QED
  BY <1>1, Invariant, PTL DEF Spec, PartsFrozen

------------------------------------------------------------------------------
(* The jobs keep the ledger of JobLedger.                                    *)

\* What the thread works on is queued, then running, until it writes the end.
ThreadInv == \A j \in Jobs :
    /\ thread[j] = "start" => status[j] = "queued"
    /\ thread[j] \in {"build", "save", "fail"} => status[j] = "running"

\* Every step keeps ThreadInv.
LEMMA StepsKeepThreads == TypeOK /\ PhaseInv /\ ThreadInv /\ [Next]_vars => ThreadInv'
<1> SUFFICES ASSUME TypeOK, PhaseInv, ThreadInv, [Next]_vars PROVE ThreadInv'
  OBVIOUS
<1> USE DEF TypeOK, Typed, OneAtATime, PhaseInv, Phase, ThreadInv, Collecting, Writes, Runs,
            WriteRaises, OfReaders
<1>1. ASSUME NEW j \in Jobs, UploadBegins(j) PROVE ThreadInv'
  BY <1>1 DEF UploadBegins
<1>2. ASSUME NEW j \in Jobs, UploadQueued(j) PROVE ThreadInv'
  BY <1>2 DEF UploadQueued
<1>3. ASSUME NEW j \in Jobs, Reject(j) PROVE ThreadInv'
  BY <1>3 DEF Reject
<1>4. ASSUME NEW j \in Jobs, ComponentsCreated(j) PROVE ThreadInv'
  BY <1>4 DEF ComponentsCreated
<1>5. ASSUME NEW j \in Jobs, StartQueued(j) PROVE ThreadInv'
  BY <1>5 DEF StartQueued
<1>6. ASSUME NEW j \in Jobs, StartRefused(j) PROVE ThreadInv'
  BY <1>6 DEF StartRefused
<1>7. ASSUME NEW j \in Jobs, Abort(j) PROVE ThreadInv'
  BY <1>7 DEF Abort
<1>8. ASSUME NEW j \in Jobs, RunBegins(j) PROVE ThreadInv'
  BY <1>8 DEF RunBegins
<1>9. ASSUME NEW j \in Jobs, BuildEnds(j) PROVE ThreadInv'
  BY <1>9 DEF BuildEnds
<1>10. ASSUME NEW j \in Jobs, BuildFails(j) PROVE ThreadInv'
  BY <1>10 DEF BuildFails
<1>11. ASSUME NEW j \in Jobs, Saves(j) PROVE ThreadInv'
  BY <1>11 DEF Saves
<1>12. ASSUME NEW j \in Jobs, SavesFailure(j) PROVE ThreadInv'
  BY <1>12 DEF SavesFailure
<1>13. ASSUME NEW j \in Jobs, RunEnds(j) PROVE ThreadInv'
  BY <1>13 DEF RunEnds
<1>14. CASE ServiceRestart
  BY <1>14 DEF ServiceRestart
<1>15. CASE UNCHANGED <<status, thread>>
  BY <1>15
<1> QED
  BY <1>1, <1>2, <1>3, <1>4, <1>5, <1>6, <1>7, <1>8, <1>9, <1>10, <1>11, <1>12, <1>13,
     <1>14, <1>15
     DEF Next, Upload, CreateComponents, Component, Handler, RunJob, vars, Claim, UploadRejected,
         Release, ReceivePart, KeepPart, DropPart, BuildWrites, ReadStatus, AnswerStatus

\* A write for the owner of the slot is what is reported of it next, and of no other job.
LEMMA WritesAreReported ==
    ASSUME TypeOK, NEW j \in Jobs, active = j, UNCHANGED active, NEW state \in States, Writes(j, state)
    PROVE  Ledger!Becomes(j, state) /\ Reported[j] = status[j]
<1>1. status' = [status EXCEPT ![j] = state] /\ status \in [Jobs -> States]
  BY DEF Writes, TypeOK, Typed
<1>2. Reported \in [Jobs -> States] /\ Reported[j] = status[j]
  BY <1>1 DEF Reported, States, Final
<1>3. \A k \in Jobs : Reported'[k] = [Reported EXCEPT ![j] = state][k]
  BY <1>1, <1>2 DEF Reported
<1>4. Reported' = [Reported EXCEPT ![j] = state]
  BY <1>2, <1>3 DEF Reported
<1> QED
  BY <1>2, <1>4 DEF Ledger!Becomes

\* Nobody but the owner of the slot is reported to be at work.
LEMMA OthersIdle ==
    ASSUME NEW k \in Jobs, active # k PROVE Reported[k] \notin Ledger!Unfinished
  BY DEF Reported, Ledger!Unfinished, Unfinished

\* A slot that is given back stops a job that was at work, and changes nothing else.
LEMMA SlotsAreReported ==
    ASSUME TypeOK, active' = NoJob, UNCHANGED status
    PROVE  Ledger!Next \/ UNCHANGED Reported
<1>1. CASE active \in Jobs /\ status[active] \in Unfinished
  <2> DEFINE j == active
  <2>1. Reported[j] = status[j]
    BY <1>1 DEF Reported
  <2>2. \A k \in Jobs : Reported'[k] = [Reported EXCEPT ![j] = "interrupted"][k]
    BY <1>1, NoJobAssumption DEF Reported
  <2>3. Reported' = [Reported EXCEPT ![j] = "interrupted"]
    BY <2>2 DEF Reported
  <2>4. Ledger!Stops(j)
    BY <1>1, <2>1, <2>3 DEF Ledger!Stops, Ledger!Becomes, Ledger!Unfinished, Unfinished
  <2> QED
    BY <1>1, <2>4 DEF Ledger!Next
<1>2. CASE ~ (active \in Jobs /\ status[active] \in Unfinished)
  <2>1. \A k \in Jobs : Reported'[k] = Reported[k]
    BY <1>2, NoJobAssumption DEF Reported
  <2> QED
    BY <2>1 DEF Reported
<1> QED
  BY <1>1, <1>2

\* Every step is a step of the ledger, or leaves it unchanged.
LEMMA StepsKeepLedger ==
    TypeOK /\ PhaseInv /\ ThreadInv /\ [Next]_vars => Ledger!Next \/ UNCHANGED Reported
<1> SUFFICES ASSUME TypeOK, PhaseInv, ThreadInv, [Next]_vars
             PROVE  Ledger!Next \/ UNCHANGED Reported
  OBVIOUS
<1> USE DEF States, Unfinished, Final
<1> DEFINE Kept == Ledger!Next \/ UNCHANGED Reported
<1>1. UNCHANGED <<active, status>> => Kept
  BY DEF Reported
<1>2. ASSUME NEW j \in Jobs, active = j, UNCHANGED active, status[j] = "none",
             NEW state \in {"uploading", "collecting", "failed"}, Writes(j, state)
      PROVE  Kept
  <2>1. Ledger!Becomes(j, state) /\ Reported[j] = "none"
    BY <1>2, WritesAreReported
  <2>2. Ledger!Idle
    BY <1>2, <2>1, OthersIdle DEF Ledger!Idle, Ledger!Unfinished
  <2> QED
    BY <2>1, <2>2 DEF Ledger!Opens, Ledger!Next
<1>3. ASSUME NEW j \in Jobs, active = j, UNCHANGED active, status[j] \in {"uploading", "collecting"},
             NEW state \in {"queued", "failed"}, Writes(j, state)
      PROVE  Kept
  <2>1. Ledger!Becomes(j, state) /\ Reported[j] = status[j]
    BY <1>3, WritesAreReported
  <2> QED
    BY <1>3, <2>1 DEF Ledger!Starts, Ledger!Next
<1>4. ASSUME NEW j \in Jobs, Claim(j, "upload") \/ Claim(j, "create") PROVE Kept
  <2>1. active = NoJob /\ active' = j /\ status[j] = "none" /\ UNCHANGED status
    BY <1>4 DEF Claim
  <2>2. \A k \in Jobs : Reported'[k] = Reported[k]
    BY <2>1, NoJobAssumption DEF Reported
  <2> QED
    BY <2>2 DEF Reported
<1>5. ASSUME NEW j \in Jobs, request[j] # "none" \/ thread[j] # "none" PROVE active = j
  BY <1>5 DEF TypeOK, OwnersWork, Working
<1>6. ASSUME NEW j \in Jobs, UploadBegins(j) PROVE Kept
  <2>1. active = j /\ UNCHANGED active /\ status[j] = "none"
    BY <1>5, <1>6 DEF UploadBegins, PhaseInv, Phase
  <2> QED
    BY <1>1, <1>2, <1>6, <2>1 DEF UploadBegins, WriteRaises
<1>7. ASSUME NEW j \in Jobs, UploadQueued(j) PROVE Kept
  <2>1. active = j /\ UNCHANGED active /\ status[j] = "uploading"
    BY <1>5, <1>7 DEF UploadQueued, PhaseInv, Phase
  <2> QED
    BY <1>1, <1>3, <1>7, <2>1 DEF UploadQueued, WriteRaises
<1>8. ASSUME NEW j \in Jobs, Reject(j) PROVE Kept
  <2>1. active = j /\ UNCHANGED active /\ status[j] \in {"none", "uploading"}
    BY <1>5, <1>8 DEF Reject, PhaseInv, Phase
  <2> QED
    BY <1>1, <1>2, <1>3, <1>8, <2>1 DEF Reject, WriteRaises
<1>9. ASSUME NEW j \in Jobs, ComponentsCreated(j) PROVE Kept
  <2>1. active = j /\ UNCHANGED active /\ status[j] = "none"
    BY <1>5, <1>9 DEF ComponentsCreated, PhaseInv, Phase
  <2> QED
    BY <1>1, <1>2, <1>9, <2>1 DEF ComponentsCreated, WriteRaises
<1>10. ASSUME NEW j \in Jobs, Release(j) \/ RunEnds(j) PROVE Kept
  <2>1. active = j
    BY <1>5, <1>10 DEF Release, RunEnds
  <2>2. active' = NoJob /\ UNCHANGED status
    BY <1>10, <2>1 DEF Release, RunEnds, Frees
  <2> QED
    BY <2>2, SlotsAreReported
<1>11. ASSUME NEW j \in Jobs, StartQueued(j) \/ StartRefused(j) PROVE Kept
  BY <1>3, <1>11 DEF StartQueued, StartRefused, Collecting
<1>12. ASSUME NEW j \in Jobs, Abort(j) PROVE Kept
  <2>1. active = j /\ UNCHANGED active /\ status[j] = "collecting" /\ Writes(j, "interrupted")
    BY <1>12 DEF Abort, Collecting
  <2>2. Ledger!Becomes(j, "interrupted") /\ Reported[j] = "collecting"
    BY <2>1, WritesAreReported
  <2> QED
    BY <2>2 DEF Ledger!Stops, Ledger!Unfinished, Ledger!Next
<1>13. ASSUME NEW j \in Jobs, RunBegins(j) PROVE Kept
  <2>1. active = j /\ UNCHANGED active /\ status[j] = "queued"
    BY <1>5, <1>13 DEF RunBegins, ThreadInv
  <2>2. CASE Writes(j, "running")
    <3>1. Ledger!Becomes(j, "running") /\ Reported[j] = "queued"
      BY <2>1, <2>2, WritesAreReported
    <3> QED
      BY <3>1 DEF Ledger!Runs, Ledger!Next
  <2> QED
    BY <1>1, <1>13, <2>1, <2>2 DEF RunBegins, WriteRaises
<1>14. ASSUME NEW j \in Jobs, Saves(j) \/ SavesFailure(j) PROVE Kept
  <2>1. active = j /\ UNCHANGED active /\ status[j] = "running"
    BY <1>5, <1>14 DEF Saves, SavesFailure, ThreadInv
  <2>2. ASSUME NEW state \in {"completed", "failed"}, Writes(j, state) PROVE Kept
    <3>1. Ledger!Becomes(j, state) /\ Reported[j] = "running"
      BY <2>1, <2>2, WritesAreReported
    <3> QED
      BY <3>1 DEF Ledger!Ends, Ledger!Next
  <2> QED
    BY <1>1, <1>14, <2>1, <2>2 DEF Saves, SavesFailure, WriteRaises
<1>15. CASE ServiceRestart
  BY <1>15, SlotsAreReported DEF ServiceRestart
<1> QED
  BY <1>1, <1>4, <1>6, <1>7, <1>8, <1>9, <1>10, <1>11, <1>12, <1>13, <1>14, <1>15
     DEF Next, Upload, CreateComponents, Component, Handler, RunJob, vars, UploadRejected,
         ReceivePart, KeepPart, DropPart, BuildWrites, BuildEnds, BuildFails, ReadStatus,
         AnswerStatus, OfReaders

\* The export jobs implement the ledger of JobLedger: one job is unfinished at
\* most, none goes back, and a reported end stays, whatever requests, failed
\* writes and restarts there are.
THEOREM JobsKeepLedger == Spec => KeepsLedger
<1>1. Init => Ledger!Init /\ ThreadInv
  BY DEF Init, Ledger!Init, Reported, Unfinished, ThreadInv
<1>2. TypeOK /\ PhaseInv /\ ThreadInv /\ [Next]_vars => [Ledger!Next]_Reported
  BY StepsKeepLedger
<1>3. Spec => []ThreadInv
  BY <1>1, Invariant, StepsKeepThreads, PTL DEF Spec
<1> QED
  BY <1>1, <1>2, <1>3, Invariant, PTL DEF Spec, KeepsLedger, Ledger!Spec
==============================================================================
