--------------------------- MODULE Launcher_proofs ---------------------------
(***************************************************************************)
(* Safety of the launcher and of the loader, for all requests and bounds.  *)
(*                                                                         *)
(* StageInv says what the stage of the launcher tells about the processes  *)
(* and about the reason of an end; ServiceInv what the state of a request  *)
(* and of a process tells about the runtime and the checks before.         *)
(***************************************************************************)
EXTENDS Launcher, TLAPS

Early == {"verify", "install", "check", "ports", "start ml"}

\* Outside of the interrupts and kills that are called hard, the launcher
\* knows every process, but for the moment of its start, and stops the
\* backend before the ML service.
ProcessesKnown ==
    /\ stage \in Early => \A s \in Services : proc[s] = "none"
    /\ ~ hard =>
        /\ Running("ml") => "ml" \in known \/ stage = "take ml"
        /\ Running("backend") => "backend" \in known \/ stage = "take backend"
        /\ stage = "stop ml" => ~ Running("backend")

Reasons == (stage \in Early \/ Supervising => why = "none") /\ (Cleaning => why # "none")

StageInv == ProcessesKnown /\ Reasons /\ CleanExit

\* A service that was started was checked, or the check is off.
Checked == setting.unchecked \/ Loads("launcher")

ServiceInv ==
    /\ \A r \in Requests : request[r] = "ready" => runtime
    /\ runtime => built
    /\ stage \notin {"verify", "install", "check", "exited"} => Checked
    /\ proc["ml"] # "none" => Checked

------------------------------------------------------------------------------
\* A counter that is below its bound may be counted up.
LEMMA CountsUp == ASSUME NEW bound \in Nat, NEW n \in 0..bound, n < bound PROVE n + 1 \in 0..bound
  OBVIOUS

\* Init has the types of every variable.
LEMMA InitTypes == Init => TypeOK
<1> SUFFICES ASSUME Init PROVE TypeOK
  OBVIOUS
<1>1. interrupts = 0 /\ fails = 0
  BY DEF Init
<1>2. interrupts \in 0..MaxInterrupts /\ fails \in 0..MaxFails
  BY <1>1, BoundsAssumption
<1> QED
  BY <1>2 DEF Init, TypeOK, Services

\* Every step keeps the types.
LEMMA StepsKeepTypes == TypeOK /\ [Next]_vars => TypeOK'
<1> SUFFICES ASSUME TypeOK, [Next]_vars PROVE TypeOK'
  OBVIOUS
<1> USE DEF TypeOK, Outside, OfMl
<1>1. ASSUME Verify \/ Install \/ Check \/ Ports PROVE TypeOK'
  BY <1>1 DEF Verify, Install, Check, Ports, Goes, Exits, GivesUp, CodeOf, Imported,
              DatabaseOf, Owners
<1>2. ASSUME NEW s \in Services, Start(s) PROVE TypeOK'
  <2>1. UNCHANGED <<Outside, database, why, code, known, asked, OfMl, refused, hard>>
    BY <1>2 DEF Start
  <2>2. proc' \in [Services -> {"none", "started", "serving", "exited"}]
    BY <1>2 DEF Start
  <2>3. stage' \in {"take ml", "take backend"}
    BY <1>2 DEF Start, Goes
  <2> QED
    BY <2>1, <2>2, <2>3
<1>3. ASSUME NEW s \in Services, Take(s) PROVE TypeOK'
  BY <1>3 DEF Take, Goes
<1>4. ASSUME NEW s \in Services, WaitFails(s) \/ ForeignAnswers(s) PROVE TypeOK'
  BY <1>4 DEF WaitFails, ForeignAnswers, Passes, Raises, Goes
<1>5. ASSUME NEW s \in Services, Stop(s) PROVE TypeOK'
  <2>1. UNCHANGED <<Outside, database, why, known, asked, OfMl, refused, hard>>
    BY <1>5 DEF Stop
  <2>2. proc' \in [Services -> {"none", "started", "serving", "exited"}]
    BY <1>5 DEF Stop
  <2>3. stage' \in {"stop ml", "exited"} /\ code' \in {0, 1}
    BY <1>5 DEF Stop, Stops, Goes, Exits, CodeOf
  <2> QED
    BY <2>1, <2>2, <2>3
<1>6. ASSUME Ask PROVE TypeOK'
  <2>1. UNCHANGED <<Outside, database, stage, why, code, known, proc, runtime, built, refused, hard>>
    BY <1>6 DEF Ask
  <2>2. /\ request' \in [Requests -> {"new", "queued", "loading", "ready", "not ready"}]
        /\ asked' \in Requests
    BY <1>6 DEF Ask
  <2> QED
    BY <2>1, <2>2
<1>7. ASSUME Answered \/ Unanswered \/ BackendAnswers \/ Watch PROVE TypeOK'
  BY <1>7 DEF Answered, Unanswered, BackendAnswers, Watch, Passes, Raises, Goes
<1>8. ASSUME NEW s \in Services, Binds(s) \/ Dies(s) PROVE TypeOK'
  <2>1. UNCHANGED <<Outside, database, stage, why, code, known, asked, OfMl, refused, hard>>
    BY <1>8 DEF Binds, Dies
  <2>2. proc' \in [Services -> {"none", "started", "serving", "exited"}]
    BY <1>8 DEF Binds, Dies
  <2> QED
    BY <2>1, <2>2
<1>9. ASSUME NEW s \in Services, Foreign(s) PROVE TypeOK'
  BY <1>9 DEF Foreign, AtWork
<1>10. ASSUME NEW r \in Requests, Client(r) \/ Enter(r) PROVE TypeOK'
  <2>1. UNCHANGED <<Outside, database, stage, why, code, known, proc, asked, runtime, built, refused, hard>>
    BY <1>10 DEF Client, Enter
  <2>2. request' \in [Requests -> {"new", "queued", "loading", "ready", "not ready"}]
    BY <1>10 DEF Client, Enter
  <2> QED
    BY <2>1, <2>2
<1>11. ASSUME NEW r \in Requests, Loaded(r) PROVE TypeOK'
  <2>1. UNCHANGED <<Outside, stage, why, code, known, proc, asked, refused, hard>>
    BY <1>11 DEF Loaded
  <2>2. database' \in [Owners -> {"none", "current", "other"}]
    BY <1>11 DEF Loaded, Imported, DatabaseOf, Owners
  <2>3. /\ request' \in [Requests -> {"new", "queued", "loading", "ready", "not ready"}]
        /\ runtime' \in BOOLEAN /\ built' \in BOOLEAN
    BY <1>11 DEF Loaded
  <2> QED
    BY <2>1, <2>2, <2>3
<1>12. ASSUME NEW r \in Requests, LoadFails(r) PROVE TypeOK'
  <2>1. UNCHANGED <<setting, foreign, interrupts, database, stage, why, code, known, proc, asked,
                    runtime, built, hard>>
    BY <1>12 DEF LoadFails
  <2>2. request' \in [Requests -> {"new", "queued", "loading", "ready", "not ready"}]
    BY <1>12 DEF LoadFails
  <2>3. refused' \in BOOLEAN /\ fails' \in 0..MaxFails
    <3>1. CASE refused' = TRUE /\ UNCHANGED fails
      BY <3>1
    <3>2. CASE fails < MaxFails /\ fails' = fails + 1 /\ UNCHANGED refused
      BY <3>2, CountsUp, BoundsAssumption
    <3> QED
      BY <1>12, <3>1, <3>2 DEF LoadFails
  <2> QED
    BY <2>1, <2>2, <2>3
<1>13. ASSUME NEW s \in Services, KillTakesLong(s) PROVE TypeOK'
  BY <1>13 DEF KillTakesLong, Exits
<1>14. ASSUME Interrupt PROVE TypeOK'
  <2>1. UNCHANGED <<setting, foreign, fails, database, known, proc, OfMl, refused>>
    BY <1>14 DEF Interrupt
  <2>2. asked' = "none" /\ interrupts' \in 0..MaxInterrupts /\ hard' \in BOOLEAN
    <3>1. asked' = "none" /\ interrupts < MaxInterrupts /\ interrupts' = interrupts + 1
      BY <1>14 DEF Interrupt
    <3>2. hard' = (hard \/ stage \in {"take ml", "take backend"}) \/ hard' = (hard \/ Cleaning)
      BY <1>14 DEF Interrupt
    <3>3. interrupts + 1 \in 0..MaxInterrupts
      BY <3>1, CountsUp, BoundsAssumption
    <3> QED
      BY <3>1, <3>2, <3>3
  <2>3. /\ stage' \in {"stop backend", "exited"}
        /\ why' \in {"none", "error", "interrupt"} /\ code' \in {0, 1}
    BY <1>14 DEF Interrupt, Goes, Exits, CodeOf
  <2> QED
    BY <2>1, <2>2, <2>3
<1>15. CASE UNCHANGED vars
  BY <1>15 DEF vars
<1> QED
  BY <1>1, <1>2, <1>3, <1>4, <1>5, <1>6, <1>7, <1>8, <1>9, <1>10, <1>11, <1>12,
     <1>13, <1>14, <1>15 DEF Next, LauncherStep, ServiceStep

\* The types hold in every state of every behaviour.
THEOREM TypeCorrect == Spec => []TypeOK
<1> QED
  BY InitTypes, StepsKeepTypes, PTL DEF Spec

------------------------------------------------------------------------------
\* Only the requests of the service change what OneModel is about.
LEMMA StepsKeepOneModel == TypeOK /\ OneModel /\ [Next]_vars => OneModel'
<1> SUFFICES ASSUME TypeOK, OneModel, [Next]_vars PROVE OneModel'
  OBVIOUS
<1> USE DEF OneModel
<1>1. CASE UNCHANGED <<request, runtime>>
  BY <1>1
<1>2. ASSUME Ask PROVE OneModel'
  BY <1>2 DEF Ask, TypeOK
<1>3. ASSUME NEW r \in Requests, Client(r) PROVE OneModel'
  BY <1>3 DEF Client, TypeOK
<1>4. ASSUME NEW r \in Requests, Enter(r) PROVE OneModel'
  BY <1>4 DEF Enter, TypeOK
<1>5. ASSUME NEW r \in Requests, Loaded(r) PROVE OneModel'
  BY <1>5 DEF Loaded, TypeOK
<1>6. ASSUME NEW r \in Requests, LoadFails(r) PROVE OneModel'
  BY <1>6 DEF LoadFails, TypeOK
<1> QED
  BY <1>1, <1>2, <1>3, <1>4, <1>5, <1>6
     DEF Next, LauncherStep, ServiceStep, Verify, Install, Check, Ports, Start, Take,
         WaitFails, ForeignAnswers, Stop, Answered, Unanswered, BackendAnswers, Watch,
         Binds, Dies, Foreign, KillTakesLong, Interrupt, OfMl, AtWork, vars

\* A burst of requests to a cold service loads one model.
THEOREM OneModelLoaded == Spec => []OneModel
<1>1. Init => OneModel
  BY DEF Init, OneModel
<1> QED
  BY <1>1, TypeCorrect, StepsKeepOneModel, PTL DEF Spec

------------------------------------------------------------------------------
\* What the stage tells about processes, reasons and exit codes is kept.
LEMMA StepsKeepStages == TypeOK /\ StageInv /\ [Next]_vars => StageInv'
<1> SUFFICES ASSUME TypeOK, StageInv, [Next]_vars PROVE StageInv'
  OBVIOUS
<1>0. code' = 1 => code' # 0
  OBVIOUS
<1> USE DEF StageInv, ProcessesKnown, Reasons, CleanExit, NothingLeft, CodeTruth, Early,
        Supervising, Cleaning, Services, Running, TypeOK
<1>1. ASSUME Verify \/ Install \/ Check \/ Ports PROVE StageInv'
  <2>1. UNCHANGED <<known, proc, hard>> /\ stage \in {"verify", "install", "check", "ports"}
    BY <1>1 DEF Verify, Install, Check, Ports
  <2>2. \/ stage' \in Early /\ UNCHANGED <<why, code>>
        \/ stage' = "exited" /\ why' = "error" /\ code' = 1
    BY <1>1 DEF Verify, Install, Check, Ports, GivesUp, Exits, CodeOf, Goes
  <2>3. \A s \in Services : proc'[s] = "none"
    BY <2>1
  <2>4. NothingLeft' /\ ProcessesKnown'
    BY <2>1, <2>2, <2>3
  <2>5. Reasons' /\ CodeTruth'
    BY <1>0, <2>1, <2>2
  <2> QED
    BY <2>4, <2>5
<1>2. ASSUME NEW s \in Services, Start(s) PROVE StageInv'
  <2>1. UNCHANGED <<why, code, known, hard>> /\ proc' = [proc EXCEPT ![s] = "started"]
    BY <1>2 DEF Start
  <2>2. CASE s = "ml"
    <3>1. stage = "start ml" /\ stage' = "take ml"
      BY <1>2, <2>2 DEF Start, Goes
    <3>2. ~ Running("backend")'
      BY <2>1, <2>2, <3>1
    <3> QED
      BY <2>1, <3>1, <3>2
  <2>3. CASE s = "backend"
    <3>1. stage = "start backend" /\ stage' = "take backend"
      BY <1>2, <2>3 DEF Start, Goes
    <3>2. Running("ml")' = Running("ml")
      BY <2>1, <2>3
    <3> QED
      BY <2>1, <3>1, <3>2
  <2> QED
    BY <2>2, <2>3
<1>3. ASSUME NEW s \in Services, Take(s) PROVE StageInv'
  BY <1>3 DEF Take, Goes, Outside
<1>4. ASSUME NEW s \in Services, WaitFails(s) \/ ForeignAnswers(s) PROVE StageInv'
  BY <1>4 DEF WaitFails, ForeignAnswers, Waits, Passes, Raises, Goes, Outside
<1>5. ASSUME NEW s \in Services, Stop(s) PROVE StageInv'
  <2>1. /\ UNCHANGED <<why, known, hard>>
        /\ proc' = [proc EXCEPT ![s] = IF s \in known THEN "exited" ELSE @]
    BY <1>5 DEF Stop
  <2>2. CASE s = "backend"
    <3>1. stage = "stop backend" /\ stage' = "stop ml" /\ code' = code
      BY <1>5, <2>2 DEF Stop, Stops, Goes
    <3>2. Running("ml")' = Running("ml") /\ (Running("backend")' => "backend" \notin known)
      BY <2>1, <2>2
    <3> QED
      BY <2>1, <3>1, <3>2
  <2>3. CASE s = "ml"
    <3>1. stage = "stop ml" /\ stage' = "exited" /\ code' = CodeOf(why)
      BY <1>5, <2>3 DEF Stop, Stops, Exits
    <3>2. Running("backend")' = Running("backend") /\ (Running("ml")' => "ml" \notin known)
      BY <2>1, <2>3
    <3>3. why # "interrupt" => code' = 1
      BY <3>1 DEF CodeOf
    <3>4. ~ hard => NothingLeft'
      BY <2>1, <3>1, <3>2
    <3>5. CodeTruth'
      BY <1>0, <2>1, <3>1, <3>3
    <3>6. ProcessesKnown'
      BY <2>1, <3>1, <3>2
    <3>7. Reasons'
      BY <2>1, <3>1
    <3> QED
      BY <2>1, <3>4, <3>5, <3>6, <3>7
  <2> QED
    BY <2>2, <2>3
<1>6. ASSUME Ask PROVE StageInv'
  BY <1>6 DEF Ask, Outside
<1>7. ASSUME Answered \/ Unanswered \/ BackendAnswers \/ Watch PROVE StageInv'
  BY <1>7 DEF Answered, Unanswered, BackendAnswers, Watch, Waits, Passes, Raises, Goes, Outside
<1>8. ASSUME NEW s \in Services, Binds(s) PROVE StageInv'
  BY <1>8 DEF Binds, Outside
<1>9. ASSUME NEW s \in Services, Dies(s) PROVE StageInv'
  BY <1>9 DEF Dies, Outside
<1>10. ASSUME NEW s \in Services, Foreign(s) PROVE StageInv'
  BY <1>10 DEF Foreign, AtWork
<1>11. ASSUME NEW r \in Requests, Client(r) \/ Enter(r) \/ Loaded(r) \/ LoadFails(r) PROVE StageInv'
  BY <1>11 DEF Client, Enter, Loaded, LoadFails, Outside
<1>12. ASSUME NEW s \in Services, KillTakesLong(s) PROVE StageInv'
  BY <1>12 DEF KillTakesLong, Exits, Outside
<1>13. ASSUME Interrupt PROVE StageInv'
  BY <1>13 DEF Interrupt, Exits, CodeOf, Goes
<1>14. CASE UNCHANGED vars
  BY <1>14 DEF vars
<1> QED
  BY <1>1, <1>2, <1>3, <1>4, <1>5, <1>6, <1>7, <1>8, <1>9, <1>10, <1>11, <1>12,
     <1>13, <1>14 DEF Next, LauncherStep, ServiceStep

\* StageInv holds in every state.
LEMMA StagesAlways == Spec => []StageInv
<1>1. Init => StageInv
  BY DEF Init, StageInv, ProcessesKnown, Reasons, CleanExit, NothingLeft, CodeTruth, Early,
         Supervising, Cleaning, Services, Running
<1> QED
  BY <1>1, TypeCorrect, StepsKeepStages, PTL DEF Spec

\* When the launcher is gone its services are gone, and exit code 0 means an
\* interrupt, but for the interrupts and kills the property names.
THEOREM ExitsCleanly == Spec => []CleanExit
<1>1. StageInv => CleanExit
  BY DEF StageInv
<1> QED
  BY <1>1, StagesAlways, PTL

------------------------------------------------------------------------------
\* A gallery that is given is written to a database, and one that is not is
\* left: either way what could be loaded can be loaded afterwards.
LEMMA ImportKeepsLoads ==
    ASSUME TypeOK, NEW o \in Owners, UNCHANGED setting,
           database' = Imported(o) \/ UNCHANGED database
    PROVE  Loads("launcher") => Loads("launcher")'
  BY DEF Loads, EncoderLoads, DeviceFits, Imported, DatabaseOf, TypeOK, Owners

\* Every step keeps what requests and processes tell.
LEMMA StepsKeepServices == TypeOK /\ ServiceInv /\ StageInv /\ [Next]_vars => ServiceInv'
<1> SUFFICES ASSUME TypeOK, ServiceInv, StageInv, [Next]_vars PROVE ServiceInv'
  OBVIOUS
<1> DEFINE OfRequests == (\A r \in Requests : request[r] = "ready" => runtime) /\ (runtime => built)
<1>1. UNCHANGED setting
  BY DEF Next, LauncherStep, ServiceStep, Verify, Install, Check, Ports, Start, Take,
         WaitFails, ForeignAnswers, Stop, Ask, Answered, Unanswered, BackendAnswers, Watch,
         Binds, Dies, Foreign, Client, Enter, Loaded, LoadFails, KillTakesLong, Interrupt,
         Outside, vars
<1>2. \E o \in Owners : database' = Imported(o) \/ UNCHANGED database
  BY DEF Next, LauncherStep, ServiceStep, Verify, Install, Check, Ports, Start, Take,
         WaitFails, ForeignAnswers, Stop, Ask, Answered, Unanswered, BackendAnswers, Watch,
         Binds, Dies, Foreign, Client, Enter, Loaded, LoadFails, KillTakesLong, Interrupt,
         AtWork, Owners, vars
<1>3. Checked => Checked'
  BY <1>1, <1>2, ImportKeepsLoads DEF Checked
<1>4. OfRequests'
  <2> USE DEF ServiceInv, TypeOK
  <2>1. CASE UNCHANGED <<request, runtime, built>>
    BY <2>1
  <2>2. ASSUME Ask PROVE OfRequests'
    BY <2>2 DEF Ask
  <2>3. ASSUME NEW r \in Requests, Client(r) PROVE OfRequests'
    BY <2>3 DEF Client
  <2>4. ASSUME NEW r \in Requests, Enter(r) PROVE OfRequests'
    BY <2>4 DEF Enter
  <2>5. ASSUME NEW r \in Requests, Loaded(r) PROVE OfRequests'
    BY <2>5 DEF Loaded
  <2>6. ASSUME NEW r \in Requests, LoadFails(r) PROVE OfRequests'
    BY <2>6 DEF LoadFails
  <2> QED
    BY <2>1, <2>2, <2>3, <2>4, <2>5, <2>6
       DEF Next, LauncherStep, ServiceStep, Verify, Install, Check, Ports, Start, Take,
           WaitFails, ForeignAnswers, Stop, Answered, Unanswered, BackendAnswers, Watch,
           Binds, Dies, Foreign, KillTakesLong, Interrupt, OfMl, AtWork, vars
<1>5. stage' \notin {"verify", "install", "check", "exited"} => Checked'
  <2>1. ASSUME Check, stage' # "exited" PROVE Checked'
    <3>1. setting.unchecked \/ Loads("launcher")
      BY <2>1 DEF Check, GivesUp, Exits
    <3> QED
      BY <3>1, <1>3 DEF Checked
  <2>2. CASE ~ Check
    BY <2>2, <1>3
       DEF ServiceInv, Next, LauncherStep, ServiceStep, Verify, Install, Ports, Start,
           Take, WaitFails, ForeignAnswers, Stop, Stops, Ask, Answered, Unanswered,
           BackendAnswers, Watch, Binds, Dies, Foreign, Client, Enter, Loaded, LoadFails,
           KillTakesLong, Interrupt, Supervising, Waits, Passes, Raises, Goes, Exits,
           GivesUp, AtWork, vars
  <2> QED
    BY <2>1, <2>2
<1>6. proc["ml"]' # "none" => Checked'
  <2>1. CASE proc["ml"] # "none"
    BY <2>1, <1>3 DEF ServiceInv
  <2>2. ASSUME NEW s \in Services, Start(s) PROVE proc["ml"]' # "none" => Checked'
    BY <2>2, <1>3 DEF Start, ServiceInv, TypeOK, Services
  <2>3. ASSUME NEW s \in Services, Stop(s) PROVE proc["ml"]' # "none" => Checked'
    BY <2>3, <1>3 DEF Stop, ServiceInv
  <2>4. CASE proc["ml"] = "none" /\ \A s \in Services : ~ Start(s) /\ ~ Stop(s)
    <3>1. proc["ml"]' = "none"
      <4>1. CASE UNCHANGED proc
        BY <2>4, <4>1
      <4>2. ASSUME NEW s \in Services, Binds(s) \/ Dies(s) PROVE proc["ml"]' = "none"
        BY <4>2, <2>4 DEF Binds, Dies, Running, TypeOK, Services
      <4> QED
        BY <2>4, <4>1, <4>2
           DEF Next, LauncherStep, ServiceStep, Verify, Install, Check, Ports, Take, WaitFails,
               ForeignAnswers, Ask, Answered, Unanswered, BackendAnswers, Watch, Foreign, Client,
               Enter, Loaded, LoadFails, KillTakesLong, Interrupt, AtWork, vars
    <3> QED
      BY <3>1
  <2> QED
    BY <2>1, <2>2, <2>3, <2>4
<1> QED
  BY <1>4, <1>5, <1>6 DEF ServiceInv

\* ServiceInv holds in every state.
LEMMA ServicesAlways == Spec => []ServiceInv
<1>1. Init => ServiceInv
  BY DEF Init, ServiceInv, Services
<1> QED
  BY <1>1, TypeCorrect, StagesAlways, StepsKeepServices, PTL DEF Spec

\* Every step keeps ReadyTruth: a service that answered ready had a runtime, and
\* with all ports free the backend that answered was the one that was started.
LEMMA StepsKeepReady == TypeOK /\ ServiceInv /\ ReadyTruth /\ [Next]_vars => ReadyTruth'
<1> SUFFICES ASSUME TypeOK, ServiceInv, ReadyTruth, [Next]_vars, foreign' = {} PROVE ReadyTruth'
  BY DEF ReadyTruth
<1> USE DEF ReadyTruth
<1>1. foreign = {} /\ (built => built')
  BY DEF Next, LauncherStep, ServiceStep, Verify, Install, Check, Ports, Start, Take,
         WaitFails, ForeignAnswers, Stop, Ask, Answered, Unanswered, BackendAnswers, Watch,
         Binds, Dies, Foreign, Client, Enter, Loaded, LoadFails, KillTakesLong, Interrupt,
         Outside, OfMl, AtWork, vars
<1>2. CASE UNCHANGED <<stage, proc>>
  BY <1>1, <1>2
<1>3. ASSUME Verify \/ Install \/ Check \/ Ports \/ Watch PROVE ReadyTruth'
  BY <1>3 DEF Verify, Install, Check, Ports, Watch, GivesUp, Raises, Exits, Goes
<1>4. ASSUME NEW s \in Services, Start(s) PROVE ReadyTruth'
  BY <1>1, <1>4 DEF Start, Goes
<1>5. ASSUME NEW s \in Services, Take(s) PROVE ReadyTruth'
  BY <1>1, <1>5 DEF Take, Goes
<1>6. ASSUME NEW s \in Services, WaitFails(s) PROVE ReadyTruth'
  BY <1>6 DEF WaitFails, Raises, Goes
<1>7. ASSUME NEW s \in Services, ForeignAnswers(s) PROVE ReadyTruth'
  BY <1>1, <1>7 DEF ForeignAnswers
<1>8. ASSUME NEW s \in Services, Stop(s) PROVE ReadyTruth'
  BY <1>8 DEF Stop, Stops, Exits, Goes
<1>9. ASSUME Answered PROVE ReadyTruth'
  <2>1. CASE request[asked] = "ready"
    <3>1. asked \in Requests
      BY <1>9 DEF Answered, TypeOK
    <3>2. built
      BY <2>1, <3>1 DEF ServiceInv
    <3> QED
      BY <1>1, <1>9, <2>1, <3>2 DEF Answered, Passes, Goes
  <2>2. CASE request[asked] # "ready"
    BY <1>9, <2>2 DEF Answered, Raises, Goes
  <2> QED
    BY <2>1, <2>2
<1>10. ASSUME BackendAnswers PROVE ReadyTruth'
  BY <1>1, <1>10 DEF BackendAnswers, Waits, Passes, Raises, Goes
<1>11. ASSUME NEW s \in Services, Binds(s) \/ Dies(s) PROVE ReadyTruth'
  <2>1. UNCHANGED stage
    BY <1>11 DEF Binds, Dies
  <2>2. proc["backend"] \in {"serving", "exited"} => proc'["backend"] \in {"serving", "exited"}
    BY <1>11 DEF Binds, Dies, Running, TypeOK, Services
  <2> QED
    BY <1>1, <2>1, <2>2
<1>12. ASSUME NEW s \in Services, KillTakesLong(s) PROVE ReadyTruth'
  BY <1>12 DEF KillTakesLong, Exits
<1>13. ASSUME Interrupt PROVE ReadyTruth'
  BY <1>13 DEF Interrupt, Exits, Goes
<1> QED
  BY <1>2, <1>3, <1>4, <1>5, <1>6, <1>7, <1>8, <1>9, <1>10, <1>11, <1>12, <1>13
     DEF Next, LauncherStep, ServiceStep, Ask, Unanswered, Foreign, Client, Enter, Loaded,
         LoadFails, AtWork, vars

\* The launcher goes on, and says that both are ready, only with services that are.
THEOREM ReadyIsTrue == Spec => []ReadyTruth
<1>1. Init => ReadyTruth
  BY DEF Init, ReadyTruth
<1> QED
  BY <1>1, TypeCorrect, ServicesAlways, StepsKeepReady, PTL DEF Spec

\* A load that fails in the service after the launcher's succeeded met another
\* database.
LEMMA CheckedLoads ==
    ASSUME Checked, ~ Loads("service")
    PROVE  \/ setting.unchecked \/ "accelerator" \in setting.faults
           \/ ~ setting.gallery /\ ~ setting.oneDatabase
  BY DEF Checked, Loads, DeviceFits, DatabaseOf

\* What the launcher has checked the service does not refuse, but for a check
\* that is off and for two databases.
THEOREM ChecksAreTrue == Spec => []PreflightTruth
<1>1. Init => PreflightTruth
  BY DEF Init, PreflightTruth
<1>2. ServiceInv /\ PreflightTruth /\ [Next]_vars => PreflightTruth'
  <2> SUFFICES ASSUME ServiceInv, PreflightTruth, [Next]_vars PROVE PreflightTruth'
    OBVIOUS
  <2>1. UNCHANGED setting
    BY DEF Next, LauncherStep, ServiceStep, Verify, Install, Check, Ports, Start, Take,
           WaitFails, ForeignAnswers, Stop, Ask, Answered, Unanswered, BackendAnswers, Watch,
           Binds, Dies, Foreign, Client, Enter, Loaded, LoadFails, KillTakesLong, Interrupt,
           Outside, vars
  <2>2. CASE UNCHANGED refused
    BY <2>1, <2>2 DEF PreflightTruth
  <2>3. ASSUME NEW r \in Requests, LoadFails(r), ~ UNCHANGED refused PROVE PreflightTruth'
    <3>1. Checked /\ ~ Loads("service")
      BY <2>3 DEF LoadFails, ServiceInv
    <3> QED
      BY <2>1, <3>1, CheckedLoads DEF PreflightTruth
  <2> QED
    BY <2>2, <2>3
       DEF Next, LauncherStep, ServiceStep, Verify, Install, Check, Ports, Start, Take,
           WaitFails, ForeignAnswers, Stop, Ask, Answered, Unanswered, BackendAnswers, Watch,
           Binds, Dies, Foreign, Client, Enter, Loaded, KillTakesLong, Interrupt, AtWork, vars
<1> QED
  BY <1>1, <1>2, ServicesAlways, PTL DEF Spec
==============================================================================
