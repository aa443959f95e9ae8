--------------------------- MODULE MCGalleryControl ---------------------------
(* Small instances of GalleryControl: requests and workers are alike.         *)
EXTENDS GalleryControl, TLC

UserSymmetry == Permutations(Clients) \cup Permutations(Workers)
=============================================================================
