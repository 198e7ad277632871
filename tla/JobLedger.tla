------------------------------ MODULE JobLedger ------------------------------
(***************************************************************************)
(* What the jury export promises about its jobs, as get_job reports them:  *)
(* a job is received or collected, waits, runs and ends; at most one is    *)
(* unfinished at any time; an unfinished job may be lost, which is told as *)
(* "interrupted"; and an end is final.                                     *)
(***************************************************************************)

CONSTANT Jobs

VARIABLE report     \* the state of each job

Final == {"completed", "failed", "interrupted"}
Unfinished == {"uploading", "collecting", "queued", "running"}

Init == report = [j \in Jobs |-> "none"]

Idle == \A j \in Jobs : report[j] \notin Unfinished

Becomes(j, state) == report' = [report EXCEPT ![j] = state]

\* A new job takes the slot; it fails when its folder cannot be made
Opens(j) ==
    /\ Idle
    /\ report[j] = "none"
    /\ \E state \in {"uploading", "collecting", "failed"} : Becomes(j, state)

\* The input is complete, or refused
Starts(j) ==
    /\ report[j] \in {"uploading", "collecting"}
    /\ \E state \in {"queued", "failed"} : Becomes(j, state)

Runs(j) == report[j] = "queued" /\ Becomes(j, "running")

Ends(j) ==
    /\ report[j] = "running"
    /\ \E state \in {"completed", "failed"} : Becomes(j, state)

\* Aborted, or nobody works on it any more
Stops(j) == report[j] \in Unfinished /\ Becomes(j, "interrupted")

Next == \E j \in Jobs : Opens(j) \/ Starts(j) \/ Runs(j) \/ Ends(j) \/ Stops(j)

Spec == Init /\ [][Next]_report
==============================================================================
