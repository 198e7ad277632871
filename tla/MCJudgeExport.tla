---------------------------- MODULE MCJudgeExport ----------------------------
(* A small instance of JudgeExport for TLC: two jobs, two parts. *)
EXTENDS JudgeExport, TLC

CONSTANTS j1, j2,         \* jobs
          images, extra   \* parts

MCJobs == {j1, j2}
MCParts == {images, extra}
MCNeeded == {images}

\* Jobs are interchangeable
JobSymmetry == Permutations(MCJobs)
==============================================================================
