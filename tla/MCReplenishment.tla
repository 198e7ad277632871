--------------------------- MODULE MCReplenishment ---------------------------
(* A small instance of Replenishment for TLC: two requests at a time, one    *)
(* pair, one single file.                                                    *)
EXTENDS Replenishment, TLC

CONSTANTS r1, r2,   \* requests
          p1,       \* pair
          f1        \* upload

MCReqs == {r1, r2}
MCPairs == {p1}
MCUploads == {f1}

\* Requests are interchangeable
RequestSymmetry == Permutations(MCReqs)
==============================================================================
