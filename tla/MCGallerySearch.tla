--------------------------- MODULE MCGallerySearch ---------------------------
(* Small instances of GallerySearch for TLC. *)
EXTENDS GallerySearch, TLC

CONSTANTS s1, s2   \* searches

MCSearches == {s1, s2}

\* The searches are interchangeable
SearchSymmetry == Permutations(MCSearches)
==============================================================================
