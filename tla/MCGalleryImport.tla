--------------------------- MODULE MCGalleryImport ---------------------------
(* Small instances of GalleryImport for TLC. *)
EXTENDS GalleryImport

CONSTANTS v1, v2, v3   \* labels

\* one image, two images, a label used twice, and no image at all
MCBatches == {<<v1>>, <<v1, v2>>, <<v3, v2>>, <<v1, v1>>, <<>>}
MCTwoBatches == {<<v1>>, <<v2, v3>>}
==============================================================================
