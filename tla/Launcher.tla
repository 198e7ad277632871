------------------------------- MODULE Launcher ------------------------------
(***************************************************************************)
(* The local launcher: it verifies the artifacts, installs, loads the      *)
(* runtime once to see that it can be loaded, starts the ML service, waits *)
(* until it is ready, starts the backend, waits again, watches both and    *)
(* stops both in the end.  In the ML service every request loads the       *)
(* runtime, or waits for the one that does.                                *)
(*                                                                         *)
(* Of the artifacts there are the faults that tell the three checks apart, *)
(* beside them an accelerator that the model does not fit on a machine     *)
(* where the environment names no device, and the encoder of the default   *)
(* gallery in the databases of the launcher and of the service, which are  *)
(* two unless the environment names one.                                   *)
(***************************************************************************)
EXTENDS Naturals, FiniteSets

CONSTANTS
    Requests,       \* requests of /ready to the ML service
    MaxInterrupts,  \* bound: Ctrl+C
    MaxFails,       \* bound: loads that fail for want of memory
    MaxForeign      \* bound: ports another program takes

ASSUME BoundsAssumption == MaxInterrupts \in Nat /\ MaxFails \in Nat

VARIABLES
    setting,    \* faults of the bundle, and what the environment says
    database,   \* the encoder of the default gallery: "none", "current", "other"
    stage,      \* where the launcher is
    why,        \* what ended the launcher's work
    code,       \* its exit code
    known,      \* services the launcher holds the process of
    proc,       \* the processes
    foreign,    \* ports that another program holds
    asked,      \* the request the launcher waits for, or "none"
    request,    \* requests in the ML service
    runtime,    \* the service keeps a runtime
    built,      \* it had one
    refused,    \* the service refused the artifacts
    hard,       \* an interrupt met the cleanup or a start, or a kill took too long
    interrupts, fails

vars == <<setting, database, stage, why, code, known, proc, foreign, asked,
          request, runtime, built, refused, hard, interrupts, fails>>

Services == {"ml", "backend"}
Faults == {"weight digest", "weight size", "no calibration", "gallery vectors", "accelerator"}
Owners == {"launcher", "service"}

Init ==
    /\ setting \in {s \in [faults : SUBSET Faults, gallery : BOOLEAN, oneDatabase : BOOLEAN,
                           unchecked : BOOLEAN] :
                       Cardinality(s.faults) <= 1
                       /\ ("gallery vectors" \in s.faults => s.gallery)}
    /\ database \in [Owners -> {"none", "current", "other"}]
    /\ stage = "verify" /\ why = "none" /\ code = 0
    /\ known = {}
    /\ proc = [s \in Services |-> "none"]
    /\ foreign = {}
    /\ asked = "none"
    /\ request = [r \in Requests |-> "new"]
    /\ runtime = FALSE /\ built = FALSE /\ refused = FALSE /\ hard = FALSE
    /\ interrupts = 0 /\ fails = 0

OfMl == <<request, runtime, built>>
Outside == <<setting, foreign, interrupts, fails>>
Running(s) == proc[s] \in {"started", "serving"}

------------------------------------------------------------------------------
(* The checks *)

\* verify_artifacts does not miss the calibration and reads no gallery
Verified == setting.faults \cap {"weight digest", "weight size"} = {}

DatabaseOf(owner) == IF setting.oneDatabase THEN "service" ELSE owner

\* E2Encoder asks for the digest of the weight; nobody here looks at its size
EncoderLoads == "weight digest" \notin setting.faults

\* Without a name in the environment the launcher checks with the processor, and
\* the service takes an accelerator if there is one
DeviceFits(owner) == owner = "launcher" \/ "accelerator" \notin setting.faults

\* MLRuntime needs the calibration and its policy, writes a gallery that is given to
\* its database, and refuses that of another encoder
Loads(owner) ==
    /\ EncoderLoads /\ DeviceFits(owner)
    /\ setting.faults \cap {"no calibration", "gallery vectors"} = {}
    /\ setting.gallery \/ database[DatabaseOf(owner)] # "other"

Imported(owner) ==
    IF setting.gallery THEN [database EXCEPT ![DatabaseOf(owner)] = "current"] ELSE database

------------------------------------------------------------------------------
(* main and start_local_stack *)

Goes(to) == stage' = to
Exits(result) == stage' = "exited" /\ code' = result
AtWork == <<why, code, known, proc, asked, OfMl, refused, hard>>

CodeOf(cause) == IF cause = "interrupt" THEN 0 ELSE 1

\* An error before the services are started
GivesUp == why' = "error" /\ Exits(CodeOf("error"))

Verify ==
    /\ stage = "verify"
    /\ IF Verified THEN Goes("install") /\ UNCHANGED <<why, code>> ELSE GivesUp
    /\ UNCHANGED <<Outside, database, known, proc, asked, OfMl, refused, hard>>

Install ==
    /\ stage = "install"
    /\ \/ Goes("check") /\ UNCHANGED <<why, code>>
       \/ GivesUp
    /\ UNCHANGED <<Outside, database, known, proc, asked, OfMl, refused, hard>>

\* Mutant: only the files are looked at
CheckFiles ==
    /\ stage = "check"
    /\ IF setting.unchecked \/ setting.faults \subseteq {"weight size", "accelerator"}
         THEN Goes("ports") /\ UNCHANGED <<why, code>> ELSE GivesUp
    /\ UNCHANGED <<Outside, database, known, proc, asked, OfMl, refused, hard>>

\* verify_ml_runtime_loadable, which writes to the launcher's database
Check ==
    /\ stage = "check"
    /\ IF setting.unchecked THEN Goes("ports") /\ UNCHANGED <<why, code, database>>
       ELSE IF Loads("launcher")
         THEN Goes("ports") /\ database' = Imported("launcher") /\ UNCHANGED <<why, code>>
         ELSE GivesUp /\ UNCHANGED database
    /\ UNCHANGED <<Outside, known, proc, asked, OfMl, refused, hard>>

Ports ==
    /\ stage = "ports"
    /\ IF foreign = {} THEN Goes("start ml") /\ UNCHANGED <<why, code>> ELSE GivesUp
    /\ UNCHANGED <<Outside, database, known, proc, asked, OfMl, refused, hard>>

Start(s) ==
    /\ stage = (IF s = "ml" THEN "start ml" ELSE "start backend")
    /\ proc' = [proc EXCEPT ![s] = "started"]
    /\ Goes(IF s = "ml" THEN "take ml" ELSE "take backend")
    /\ UNCHANGED <<Outside, database, why, code, known, asked, OfMl, refused, hard>>

Take(s) ==
    /\ stage = (IF s = "ml" THEN "take ml" ELSE "take backend")
    /\ known' = known \cup {s}
    /\ Goes(IF s = "ml" THEN "wait ml" ELSE "wait backend")
    /\ UNCHANGED <<Outside, database, why, code, proc, asked, OfMl, refused, hard>>

------------------------------------------------------------------------------
(* wait_ready *)

Waits(s) == stage = (IF s = "ml" THEN "wait ml" ELSE "wait backend") /\ asked = "none"
Passes(s) == Goes(IF s = "ml" THEN "start backend" ELSE "watch") /\ UNCHANGED why
Raises == Goes("stop backend") /\ why' = "error"

\* The process is gone, or the deadline is over
WaitFails(s) ==
    /\ Waits(s)
    /\ Raises
    /\ UNCHANGED <<Outside, database, code, known, proc, asked, OfMl, refused, hard>>

\* The service is asked; a service that does not listen yet refuses
Ask ==
    /\ Waits("ml") /\ proc["ml"] = "serving"
    /\ \E r \in Requests :
        /\ request[r] = "new"
        /\ request' = [request EXCEPT ![r] = "queued"]
        /\ asked' = r
    /\ UNCHANGED <<Outside, database, stage, why, code, known, proc, runtime, built, refused, hard>>

\* Mutant: any answer is a ready service
AnsweredAtAll ==
    /\ stage = "wait ml" /\ asked # "none"
    /\ request[asked] \in {"ready", "not ready"}
    /\ asked' = "none"
    /\ Passes("ml")
    /\ UNCHANGED <<Outside, database, code, known, proc, OfMl, refused, hard>>

\* A service that answers that it is not ready is not asked again
Answered ==
    /\ stage = "wait ml" /\ asked # "none"
    /\ request[asked] \in {"ready", "not ready"}
    /\ asked' = "none"
    /\ IF request[asked] = "ready" THEN Passes("ml") ELSE Raises
    /\ UNCHANGED <<Outside, database, code, known, proc, OfMl, refused, hard>>

\* No answer within a minute, or the service went: the request stays behind
Unanswered ==
    /\ stage = "wait ml" /\ asked # "none"
    /\ asked' = "none"
    /\ UNCHANGED <<Outside, database, stage, why, code, known, proc, OfMl, refused, hard>>

\* The backend's own /ready asks the ML service, and waits five seconds
BackendAnswers ==
    /\ Waits("backend") /\ proc["backend"] = "serving"
    /\ \/ /\ (proc["ml"] = "serving" /\ runtime) \/ "ml" \in foreign
          /\ Passes("backend")
       \/ Raises
    /\ UNCHANGED <<Outside, database, code, known, proc, asked, OfMl, refused, hard>>

\* Another program holds the port and answers
ForeignAnswers(s) ==
    /\ Waits(s) /\ s \in foreign
    /\ \/ Passes(s)
       \/ Raises
    /\ UNCHANGED <<Outside, database, code, known, proc, asked, OfMl, refused, hard>>

------------------------------------------------------------------------------
(* Until one of the services stops, and then both are stopped *)

\* Mutant: the backend is not watched
WatchMl ==
    /\ stage = "watch"
    /\ ~ Running("ml")
    /\ Raises
    /\ UNCHANGED <<Outside, database, code, known, proc, asked, OfMl, refused, hard>>

Watch ==
    /\ stage = "watch"
    /\ ~ Running("ml") \/ ~ Running("backend")
    /\ Raises
    /\ UNCHANGED <<Outside, database, code, known, proc, asked, OfMl, refused, hard>>

Stops(s) ==
    IF s = "backend" THEN Goes("stop ml") /\ UNCHANGED code ELSE Exits(CodeOf(why))

\* Mutant: the services are left to the interrupt of the terminal
StopAfterError(s) ==
    /\ stage = (IF s = "ml" THEN "stop ml" ELSE "stop backend")
    /\ Stops(s)
    /\ proc' = [proc EXCEPT ![s] = IF s \in known /\ why = "error" THEN "exited" ELSE @]
    /\ UNCHANGED <<Outside, database, why, known, asked, OfMl, refused, hard>>

\* terminate, and kill after five seconds
Stop(s) ==
    /\ stage = (IF s = "ml" THEN "stop ml" ELSE "stop backend")
    /\ Stops(s)
    /\ proc' = [proc EXCEPT ![s] = IF s \in known THEN "exited" ELSE @]
    /\ UNCHANGED <<Outside, database, why, known, asked, OfMl, refused, hard>>

\* The killed process is not gone after five more seconds: the exception leaves
\* the other one alone, and main does not catch it
KillTakesLong(s) ==
    /\ stage = (IF s = "ml" THEN "stop ml" ELSE "stop backend")
    /\ s \in known /\ Running(s)
    /\ hard' = TRUE
    /\ Exits(1)
    /\ UNCHANGED <<Outside, database, why, known, proc, asked, OfMl, refused>>

Cleaning == stage \in {"stop backend", "stop ml"}
Supervising == stage \in {"take ml", "wait ml", "start backend", "take backend", "wait backend", "watch"}

\* Ctrl+C
Interrupt ==
    /\ stage # "exited"
    /\ interrupts < MaxInterrupts /\ interrupts' = interrupts + 1
    /\ asked' = "none"
    /\ IF Supervising
         THEN /\ Goes("stop backend") /\ why' = "interrupt"
              /\ hard' = (hard \/ stage \in {"take ml", "take backend"})
              /\ UNCHANGED code
         ELSE /\ Exits(CodeOf("interrupt"))
              /\ why' = IF why = "none" THEN "interrupt" ELSE why
              /\ hard' = (hard \/ Cleaning)
    /\ UNCHANGED <<setting, foreign, fails, database, known, proc, OfMl, refused>>

------------------------------------------------------------------------------
(* The services *)

\* A process that finds its port taken exits
Binds(s) ==
    /\ proc[s] = "started"
    /\ proc' = [proc EXCEPT ![s] = IF s \in foreign THEN "exited" ELSE "serving"]
    /\ UNCHANGED <<Outside, database, stage, why, code, known, asked, OfMl, refused, hard>>

Dies(s) ==
    /\ Running(s)
    /\ proc' = [proc EXCEPT ![s] = "exited"]
    /\ UNCHANGED <<Outside, database, stage, why, code, known, asked, OfMl, refused, hard>>

Foreign(s) ==
    /\ Cardinality(foreign) < MaxForeign /\ s \notin foreign
    /\ proc[s] # "serving"
    /\ foreign' = foreign \cup {s}
    /\ UNCHANGED <<setting, interrupts, fails, database, stage, AtWork>>

\* Others ask too: every endpoint but /health needs the runtime
Client(r) ==
    /\ proc["ml"] = "serving" /\ request[r] = "new"
    /\ request' = [request EXCEPT ![r] = "queued"]
    /\ UNCHANGED <<Outside, database, stage, why, code, known, proc, asked, runtime, built, refused, hard>>

\* Mutant: the runtime is looked for without the lock
EnterUnlocked(r) ==
    /\ proc["ml"] = "serving" /\ request[r] = "queued"
    /\ request' = [request EXCEPT ![r] = IF runtime THEN "ready" ELSE "loading"]
    /\ UNCHANGED <<Outside, database, stage, why, code, known, proc, asked, runtime, built, refused, hard>>

\* _load_runtime takes the lock
Enter(r) ==
    /\ proc["ml"] = "serving" /\ request[r] = "queued"
    /\ \A q \in Requests : request[q] # "loading"
    /\ request' = [request EXCEPT ![r] = IF runtime THEN "ready" ELSE "loading"]
    /\ UNCHANGED <<Outside, database, stage, why, code, known, proc, asked, runtime, built, refused, hard>>

Loaded(r) ==
    /\ proc["ml"] = "serving" /\ request[r] = "loading"
    /\ Loads("service")
    /\ request' = [request EXCEPT ![r] = "ready"]
    /\ database' = Imported("service")
    /\ runtime' = TRUE /\ built' = TRUE
    /\ UNCHANGED <<Outside, stage, why, code, known, proc, asked, refused, hard>>

\* A load that failed leaves nothing behind; the next request tries again
LoadFails(r) ==
    /\ proc["ml"] = "serving" /\ request[r] = "loading"
    /\ request' = [request EXCEPT ![r] = "not ready"]
    /\ \/ ~ Loads("service") /\ refused' = TRUE /\ UNCHANGED fails
       \/ fails < MaxFails /\ fails' = fails + 1 /\ UNCHANGED refused
    /\ UNCHANGED <<setting, foreign, interrupts, database, stage, why, code, known, proc, asked,
                   runtime, built, hard>>

------------------------------------------------------------------------------
LauncherStep ==
    \/ Verify
    \/ Install
    \/ Check
    \/ Ports
    \/ \E s \in Services : Start(s) \/ Take(s) \/ WaitFails(s) \/ ForeignAnswers(s) \/ Stop(s)
    \/ Ask
    \/ Answered
    \/ Unanswered
    \/ BackendAnswers
    \/ Watch

ServiceStep ==
    \/ \E s \in Services : Binds(s) \/ Dies(s) \/ Foreign(s)
    \/ \E r \in Requests : Client(r) \/ Enter(r) \/ Loaded(r) \/ LoadFails(r)

Next ==
    \/ LauncherStep
    \/ ServiceStep
    \/ \E s \in Services : KillTakesLong(s)
    \/ Interrupt

Spec == Init /\ [][Next]_vars

\* The launcher goes on: its waits and its watch have a period, its requests and
\* its stops a time limit.
Fairness == WF_vars(LauncherStep)
FairSpec == Spec /\ Fairness

------------------------------------------------------------------------------
(* Properties *)

TypeOK ==
    /\ database \in [Owners -> {"none", "current", "other"}]
    /\ stage \in {"verify", "install", "check", "ports", "start ml", "take ml", "wait ml",
                  "start backend", "take backend", "wait backend", "watch",
                  "stop backend", "stop ml", "exited"}
    /\ why \in {"none", "error", "interrupt"} /\ code \in {0, 1}
    /\ known \subseteq Services /\ foreign \subseteq Services
    /\ proc \in [Services -> {"none", "started", "serving", "exited"}]
    /\ asked \in Requests \cup {"none"}
    /\ request \in [Requests -> {"new", "queued", "loading", "ready", "not ready"}]
    /\ runtime \in BOOLEAN /\ built \in BOOLEAN
    /\ refused \in BOOLEAN /\ hard \in BOOLEAN
    /\ interrupts \in 0..MaxInterrupts /\ fails \in 0..MaxFails

\* A burst of requests to a cold service builds one model: never two at a time,
\* and none beside the one that is kept.
OneModel ==
    \A q, r \in Requests : request[q] = "loading" => ~ runtime /\ (request[r] = "loading" => q = r)

\* The launcher goes on to the backend with an ML service that has loaded its
\* model, and says that both are ready when the backend listened, unless another
\* program took a port after the ports were checked.
ReadyTruth ==
    foreign = {} =>
        /\ stage \in {"start backend", "take backend", "wait backend", "watch"} => built
        /\ stage = "watch" => proc["backend"] \in {"serving", "exited"}

\* What the launcher has checked the service does not refuse, unless the check is
\* switched off, or the service takes an accelerator by itself, or the two read
\* different databases and no gallery is given.
PreflightTruth ==
    refused =>
        \/ setting.unchecked \/ "accelerator" \in setting.faults
        \/ ~ setting.gallery /\ ~ setting.oneDatabase

NothingLeft == stage = "exited" => \A s \in Services : ~ Running(s)
CodeTruth == stage = "exited" /\ code = 0 => why = "interrupt"

\* When the launcher is gone its services are gone, and it has reported success only
\* after an interrupt that nothing preceded; unless another interrupt met the
\* cleanup or the moment of a start, or a killed process did not go in time.
CleanExit == ~ hard => NothingLeft /\ CodeTruth

\* A service that stops while both are watched ends the launcher.
EndsTogether ==
    stage = "watch" /\ (\E s \in Services : proc[s] = "exited") ~> stage = "exited"
==============================================================================
