------------------------------ MODULE ExportPage -----------------------------
(***************************************************************************)
(* The export page of the jury beside the jobs of the ML service: uploads  *)
(* of a ZIP or of components, the checks that poll a job, the abort button *)
(* and what the page remembers of its last job.  Of the service there is   *)
(* the ledger of its jobs; the backend relays requests and answers.        *)
(***************************************************************************)
EXTENDS Naturals

CONSTANTS
    Jobs, NoJob,
    MaxStarts,  \* bound: clicks on start
    MaxChecks,  \* bound: checks alive at a time
    MaxMissed,  \* bound: answers that do not arrive
    MaxLoads    \* bound: times the page is loaded again

VARIABLES
    report,     \* the ledger of the service
    uploads,    \* uploadCombined and uploadComponents, by click
    checks,     \* checkJob: requests and timers
    timer,      \* the check whose timer the page would clear, 0 for none
    remembered, \* the job in sessionStorage
    downloads,  \* the job whose files are offered
    canStart,   \* start is enabled
    abortShown, \* the abort button is shown
    clicked,    \* a click on it, whose request is on its way or was obeyed
    settled,    \* jobs whose end was told, or whose check was ended by an upload,
                \* by a load, or because the job is collecting
    late,       \* when the last upload began another one was under way, or a
                \* check whose timer the page could not clear
    crossing,   \* an upload began beside another one, beside a job, or while an
                \* abort was on its way
    missed,     \* the page missed the answer to an upload
    failures, loads

page == <<uploads, checks, timer, remembered, downloads, canStart, abortShown, clicked,
          settled, late, crossing, missed, failures, loads>>
vars == <<report, page>>

Ledger == INSTANCE JobLedger

Starts == 1..MaxStarts
Checks == 1..MaxChecks
Off == [at |-> "off", job |-> NoJob, got |-> "none"]
Asking(j) == [Off EXCEPT !.at = "asking", !.job = j]
UnderWay(c) == checks[c].at \in {"asking", "read"}
Active(u) == uploads[u].at \notin {"new", "done", "failed", "left"}
NoClick == [at |-> "none", job |-> NoJob]

Init ==
    /\ Ledger!Init
    /\ uploads = [u \in Starts |-> [kind |-> "none", at |-> "new", job |-> NoJob]]
    /\ checks = [c \in Checks |-> Off]
    /\ timer = 0
    /\ remembered = NoJob /\ downloads = NoJob
    /\ canStart = TRUE /\ abortShown = FALSE /\ clicked = NoClick
    /\ settled = {}
    /\ late = FALSE /\ crossing = FALSE /\ missed = FALSE
    /\ failures = 0 /\ loads = 0

\* The gateway answers 503, or its answer does not arrive
Misses == failures < MaxMissed /\ failures' = failures + 1
Goes(u, at) == uploads' = [uploads EXCEPT ![u].at = at]
OfStarts == <<late, crossing, loads, clicked>>

------------------------------------------------------------------------------
(* The service *)

\* It runs its jobs, may be restarted, and receives or drops what a page that
\* was closed has sent
ServiceStep ==
    /\ \E j \in Jobs :
        \/ Ledger!Runs(j) \/ Ledger!Ends(j) \/ Ledger!Stops(j)
        \/ report[j] = "uploading" /\ Ledger!Starts(j)
           /\ \A u \in Starts : uploads[u].job = j => uploads[u].at \in {"done", "failed"}
    /\ UNCHANGED page

Replies(u, at, j) == uploads' = [uploads EXCEPT ![u].at = at, ![u].job = j]
OnlyUploads == UNCHANGED <<checks, timer, remembered, downloads, canStart, abortShown, settled,
                           missed, failures, OfStarts>>

\* The slot is taken, or a job is opened
Arrives(u) ==
    /\ uploads[u].at = "sent"
    /\ \/ ~ Ledger!Idle /\ Goes(u, "refused") /\ UNCHANGED report
       \/ \E j \in Jobs :
            /\ Ledger!Opens(j)
            /\ \/ report'[j] = "failed" /\ Replies(u, "refused", j)
               \/ uploads[u].kind = "zip" /\ report'[j] = "uploading" /\ Replies(u, "receive", j)
               \/ uploads[u].kind = "parts" /\ report'[j] = "collecting" /\ Replies(u, "opened", j)
    /\ OnlyUploads

\* The ZIP was received and inspected, or the service was restarted.  When the
\* state cannot be written the answer is an error and the job keeps the slot.
Received(u) ==
    /\ uploads[u].at = "receive"
    /\ LET j == uploads[u].job IN
       \/ /\ report[j] = "uploading"
          /\ Ledger!Starts(j)
          /\ Goes(u, IF report'[j] = "queued" THEN "accepted" ELSE "refused")
       \/ report[j] = "uploading" /\ Goes(u, "unstopped") /\ UNCHANGED report
       \/ report[j] # "uploading" /\ Goes(u, "refused") /\ UNCHANGED report
    /\ OnlyUploads

\* The components are complete and make an archive, or something is missing, or
\* the job is not collecting any more
StartArrives(u) ==
    /\ uploads[u].at = "start"
    /\ LET j == uploads[u].job IN
       \/ /\ report[j] = "collecting"
          /\ Ledger!Starts(j)
          /\ Goes(u, IF report'[j] = "queued" THEN "accepted" ELSE "abort")
       \/ Goes(u, "abort") /\ UNCHANGED report
    /\ OnlyUploads

\* A job that is collecting is stopped; else, or when that cannot be written, the
\* answer is an error.  A part under way is waited for.
AbortsAtService(j) ==
    IF report[j] = "collecting" THEN Ledger!Stops(j) \/ UNCHANGED report ELSE UNCHANGED report

\* The abort of uploadComponents arrives
Aborts(u) ==
    /\ uploads[u].at = "abort"
    /\ AbortsAtService(uploads[u].job)
    /\ Goes(u, IF report'[uploads[u].job] = "collecting" THEN "unstopped" ELSE "refused")
    /\ OnlyUploads

\* The abort of the button arrives
AbortArrives ==
    /\ clicked.at = "sent"
    /\ AbortsAtService(clicked.job)
    /\ clicked' = IF report[clicked.job] = "collecting" /\ report' # report
                    THEN [clicked EXCEPT !.at = "aborted"] ELSE NoClick
    /\ UNCHANGED <<uploads, checks, timer, remembered, downloads, canStart, abortShown, settled,
                   missed, failures, late, crossing, loads>>

------------------------------------------------------------------------------
(* uploadCombined and uploadComponents *)

\* Mutant: an upload leaves the timer alone
KeepsAll(c) == TRUE

\* resetForUpload clears the timer it knows, not a request under way
Keeps(c) == ~ (timer = c /\ checks[c].at = "waiting")

Start(u, kind) ==
    /\ canStart
    /\ uploads[u].at = "new" /\ \A v \in 1..(u - 1) : uploads[v].at # "new"
    /\ uploads' = [uploads EXCEPT ![u].at = "sent", ![u].kind = kind]
    /\ checks' = [c \in Checks |-> IF Keeps(c) THEN checks[c] ELSE Off]
    /\ settled' = settled \cup {checks[c].job : c \in {d \in Checks : ~ Keeps(d)}}
    /\ downloads' = NoJob /\ canStart' = FALSE
    /\ late' = ((\E v \in Starts : Active(v))
                \/ \E c \in Checks : UnderWay(c) \/ (checks[c].at = "waiting" /\ timer # c))
    /\ crossing' = (crossing \/ ~ Ledger!Idle \/ clicked # NoClick \/ \E v \in Starts : Active(v))
    /\ UNCHANGED <<report, timer, remembered, abortShown, clicked, missed, failures, loads>>

Opened(u) ==
    /\ uploads[u].at = "opened"
    /\ Goes(u, "parts")
    /\ remembered' = uploads[u].job /\ abortShown' = TRUE
    /\ UNCHANGED <<report, checks, timer, downloads, canStart, settled, missed, failures, OfStarts>>

\* All files were received one after the other, or one was not
PartsSent(u) ==
    /\ uploads[u].at = "parts"
    /\ \/ report[uploads[u].job] = "collecting" /\ Goes(u, "start")
       \/ Goes(u, "abort")
    /\ UNCHANGED report
    /\ OnlyUploads

HidesAbort(u) == abortShown' = (abortShown /\ uploads[u].kind = "zip")

\* Mutant: the job is not remembered
Unremembered(u) ==
    /\ uploads[u].at = "accepted"
    /\ Goes(u, "done") /\ HidesAbort(u)
    /\ \E c \in Checks :
        checks[c].at = "off" /\ checks' = [checks EXCEPT ![c] = Asking(uploads[u].job)]
    /\ UNCHANGED <<report, timer, remembered, downloads, canStart, settled, missed, failures,
                   OfStarts>>

Accepted(u) ==
    /\ uploads[u].at = "accepted"
    /\ Goes(u, "done") /\ HidesAbort(u)
    /\ remembered' = uploads[u].job
    /\ \E c \in Checks :
        checks[c].at = "off" /\ checks' = [checks EXCEPT ![c] = Asking(uploads[u].job)]
    /\ UNCHANGED <<report, timer, downloads, canStart, settled, missed, failures, OfStarts>>

Forgets(u) == remembered' = IF uploads[u].kind = "parts" THEN NoJob ELSE remembered

\* The catch clauses, after the abort of what was opened for components; whether
\* that was obeyed is not looked at, and a job that keeps the slot is left
Refused(u) ==
    /\ uploads[u].at \in {"refused", "unstopped"}
    /\ Goes(u, IF uploads[u].at = "refused" THEN "failed" ELSE "left")
    /\ Forgets(u) /\ HidesAbort(u) /\ canStart' = TRUE
    /\ UNCHANGED <<report, checks, timer, downloads, settled, missed, failures, OfStarts>>

\* An answer is missed: the same clauses; a missed abort goes unnoticed
AnswerLost(u) ==
    /\ Active(u) /\ uploads[u].at \notin {"refused", "unstopped", "parts"}
    /\ Misses /\ missed' = TRUE
    /\ IF uploads[u].kind = "parts" /\ uploads[u].at \in {"start", "accepted"}
         THEN Goes(u, "abort") /\ UNCHANGED <<remembered, canStart, abortShown>>
         ELSE Goes(u, "failed") /\ Forgets(u) /\ HidesAbort(u) /\ canStart' = TRUE
    /\ UNCHANGED <<report, checks, timer, downloads, settled, OfStarts>>

------------------------------------------------------------------------------
(* checkJob *)

\* get_job reads the status ...
Reads(c) ==
    /\ checks[c].at = "asking"
    /\ checks' = [checks EXCEPT ![c].at = "read", ![c].got = report[checks[c].job]]
    /\ UNCHANGED <<report, uploads, timer, remembered, downloads, canStart, abortShown,
                   settled, missed, failures, OfStarts>>

\* ... and answers "interrupted" for an unfinished job that left the slot since
Answer(c, state) ==
    /\ checks[c].at = "read"
    /\ \/ state = checks[c].got
       \/ /\ state = "interrupted" /\ checks[c].got \in Ledger!Unfinished
          /\ report[checks[c].job] \notin Ledger!Unfinished

Offers(c) == checks[c].job

ShowsEnd(c) ==
    /\ \E state \in Ledger!Final :
        /\ Answer(c, state)
        /\ downloads' = IF state = "completed" THEN Offers(c) ELSE downloads
    /\ settled' = settled \cup {checks[c].job}
    /\ canStart' = TRUE /\ abortShown' = FALSE
    /\ checks' = [checks EXCEPT ![c] = Off]
    /\ UNCHANGED <<report, uploads, timer, remembered, missed, failures, OfStarts>>

\* An upload that was left behind is said so once, and can be aborted
ShowsCollecting(c) ==
    /\ Answer(c, "collecting")
    /\ checks' = [checks EXCEPT ![c] = Off] /\ abortShown' = TRUE
    /\ settled' = settled \cup {checks[c].job}
    /\ UNCHANGED <<report, uploads, timer, remembered, downloads, canStart, missed, failures,
                   OfStarts>>

Waits(c) == checks' = [checks EXCEPT ![c] = [Asking(@.job) EXCEPT !.at = "waiting"]]

ShowsProgress(c) ==
    /\ \E state \in {"uploading", "queued", "running"} : Answer(c, state)
    /\ Waits(c)
    /\ timer' = c /\ abortShown' = FALSE
    /\ UNCHANGED <<report, uploads, remembered, downloads, canStart, settled, missed, failures,
                   OfStarts>>

\* Mutant: a check that fails is the last one
CheckGivesUp(c) ==
    /\ UnderWay(c)
    /\ Misses
    /\ checks' = [checks EXCEPT ![c] = Off]
    /\ UNCHANGED <<report, uploads, timer, remembered, downloads, canStart, abortShown,
                   settled, missed, OfStarts>>

\* The check fails and is repeated
CheckFails(c) ==
    /\ UnderWay(c)
    /\ Misses
    /\ Waits(c)
    /\ timer' = c
    /\ UNCHANGED <<report, uploads, remembered, downloads, canStart, abortShown, settled,
                   missed, OfStarts>>

Fires(c) ==
    /\ checks[c].at = "waiting"
    /\ checks' = [checks EXCEPT ![c].at = "asking"]
    /\ UNCHANGED <<report, uploads, timer, remembered, downloads, canStart, abortShown,
                   settled, missed, failures, OfStarts>>

------------------------------------------------------------------------------
(* The user *)

\* A file is chosen or another mode: start is enabled, whatever is under way
Chooses ==
    /\ ~ canStart /\ canStart' = TRUE
    /\ UNCHANGED <<report, uploads, checks, timer, remembered, downloads, abortShown, settled,
                   missed,
                   failures, OfStarts>>

\* The abort button: a request for the job that is remembered now ...
AbortClicked ==
    /\ abortShown /\ remembered # NoJob
    /\ clicked = NoClick   \* bound: one request of the button at a time
    /\ clicked' = [at |-> "sent", job |-> remembered]
    /\ UNCHANGED <<report, uploads, checks, timer, remembered, downloads, canStart, abortShown,
                   settled,
                   missed, failures, late, crossing, loads>>

\* ... and when it was obeyed, whatever is remembered then is forgotten
AbortAnswered ==
    /\ clicked.at = "aborted"
    /\ clicked' = NoClick
    /\ remembered' = NoJob /\ abortShown' = FALSE /\ canStart' = TRUE
    /\ UNCHANGED <<report, uploads, checks, timer, downloads, settled, missed, failures,
                   late, crossing, loads>>

\* The answer is missed, or the request is: the page says so and does nothing
AbortLost ==
    /\ clicked # NoClick
    /\ clicked' = NoClick
    /\ Misses
    /\ UNCHANGED <<report, uploads, checks, timer, remembered, downloads, canStart, abortShown,
                   settled,
                   missed, late, crossing, loads>>

\* The page is loaded again and checks the job it remembers
Load ==
    /\ loads < MaxLoads /\ loads' = loads + 1
    /\ uploads' = [u \in Starts |-> IF Active(u) THEN [uploads[u] EXCEPT !.at = "done"] ELSE uploads[u]]
    /\ missed' = (missed \/ \E u \in Starts : Active(u) /\ uploads[u].at # "parts")
    /\ settled' = settled \cup {checks[c].job : c \in {d \in Checks : checks[d].at # "off"}}
    /\ checks' = [c \in Checks |-> IF c = 1 /\ remembered # NoJob THEN Asking(remembered) ELSE Off]
    /\ timer' = 0 /\ downloads' = NoJob
    /\ canStart' = TRUE /\ abortShown' = FALSE /\ clicked' = NoClick
    /\ UNCHANGED <<report, remembered, late, crossing, failures>>

------------------------------------------------------------------------------
UploadStep(u) ==
    \/ Arrives(u)
    \/ Received(u)
    \/ StartArrives(u)
    \/ Opened(u)
    \/ PartsSent(u)
    \/ Accepted(u)
    \/ Refused(u)
    \/ Aborts(u)

CheckStep(c) ==
    \/ Reads(c)
    \/ ShowsEnd(c)
    \/ ShowsCollecting(c)
    \/ ShowsProgress(c)
    \/ Fires(c)

Next ==
    \/ ServiceStep
    \/ \E u \in Starts :
        UploadStep(u) \/ AnswerLost(u) \/ \E kind \in {"zip", "parts"} : Start(u, kind)
    \/ \E c \in Checks : CheckStep(c) \/ CheckFails(c)
    \/ Chooses
    \/ AbortClicked \/ AbortArrives \/ AbortAnswered \/ AbortLost
    \/ Load

Spec == Init /\ [][Next]_vars

------------------------------------------------------------------------------
(* Properties *)

TypeOK ==
    /\ report \in [Jobs -> {"none"} \cup Ledger!Unfinished \cup Ledger!Final]
    /\ uploads \in [Starts -> [kind : {"none", "zip", "parts"}, job : Jobs \cup {NoJob},
                               at : {"new", "sent", "receive", "opened", "parts", "start",
                                     "accepted", "refused", "abort", "unstopped", "done",
                                     "failed", "left"}]]
    /\ checks \in [Checks -> [at : {"off", "asking", "read", "waiting"}, job : Jobs \cup {NoJob},
                              got : {"none"} \cup Ledger!Unfinished \cup Ledger!Final]]
    /\ timer \in 0..MaxChecks
    /\ {remembered, downloads} \subseteq Jobs \cup {NoJob}
    /\ {canStart, abortShown, late, crossing, missed} \subseteq BOOLEAN
    /\ clicked \in [at : {"none", "sent", "aborted"}, job : Jobs \cup {NoJob}]
    /\ settled \subseteq Jobs
    /\ failures \in 0..MaxMissed /\ loads \in 0..MaxLoads

\* The files the page offers are those of a completed job, at any later time.
DownloadsOfCompleted == downloads # NoJob => report[downloads] = "completed"

\* While an upload is under way the page offers no files of an older job, unless
\* a check of it, or the upload of it, went on when this upload began.
NoOldDownloads == (\E u \in Starts : Active(u)) /\ downloads # NoJob => late

Polled(j) == \E c \in Checks : checks[c].at # "off" /\ checks[c].job = j

\* An unfinished job, which keeps the slot from everybody, is on the mind of the
\* page: it is being uploaded, polled or remembered.  The page loses it when it
\* misses an answer; when it begins an upload beside another one, beside a job or
\* while an abort is on its way, after which it forgets the newer job; and when
\* the service could not write the end of an upload that it refused or aborted.
JobsHeld ==
    \A j \in Jobs : report[j] \in Ledger!Unfinished =>
        \/ remembered = j \/ Polled(j)
        \/ \E u \in Starts : uploads[u].job = j /\ (Active(u) \/ uploads[u].at = "left")
        \/ missed \/ crossing

\* An upload the page calls failed does not run, unless an answer was missed.
FailedNotRunning ==
    \A u \in Starts : uploads[u].at \in {"failed", "left"} /\ uploads[u].job # NoJob =>
        report[uploads[u].job] \notin {"queued", "running", "completed"} \/ missed

\* A job that is polled is polled on, whatever checks fail, until its end was
\* told, or an upload or a load ends the polling, or it was found collecting.
PollsOn == [][\A j \in Jobs : Polled(j) => Polled(j)' \/ j \in settled']_vars
==============================================================================
