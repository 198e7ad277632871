-------------------------- MODULE AppendOnlyGallery --------------------------
(***************************************************************************)
(* What the import of a gallery promises its users, with no processes, no  *)
(* files and no failures to observe other than "failed": a gallery is a    *)
(* growing sequence of images with distinct labels; one import at a time   *)
(* either appends its whole batch or fails, leaving the gallery as it was  *)
(* and the batch ready to be retried or replaced.                          *)
(***************************************************************************)
EXTENDS Sequences, Functions

CONSTANT Rows   \* images: records with a label in field id

VARIABLES
    published,  \* the images the gallery consists of
    batch,      \* the images of the import that runs or failed
    phase       \* "open" | "importing" | "failed"

vars == <<published, batch, phase>>

DistinctLabels(rows) == IsInjective([i \in DOMAIN rows |-> rows[i].id])

Init == published = <<>> /\ batch = <<>> /\ phase = "open"

\* A client uploads a batch
Import ==
    /\ phase \in {"open", "failed"}
    /\ batch' \in Seq(Rows) \ {<<>>}
    /\ DistinctLabels(published \o batch')
    /\ phase' = "importing"
    /\ UNCHANGED published

\* A client retries a failed import
Retry ==
    /\ phase = "failed"
    /\ phase' = "importing"
    /\ UNCHANGED <<published, batch>>

Finish ==
    /\ phase = "importing"
    /\ published' = published \o batch
    /\ batch' = <<>>
    /\ phase' = "open"

Fail ==
    /\ phase = "importing"
    /\ phase' = "failed"
    /\ UNCHANGED <<published, batch>>

Next == Import \/ Retry \/ Finish \/ Fail

Spec == Init /\ [][Next]_vars
==============================================================================
