-------------------------- MODULE MCGalleryPyramid --------------------------
(* Instances of GalleryPyramid for TLC. *)
EXTENDS GalleryPyramid

CONSTANTS e1, a1, w1

NoTasks == {}
OneEditor == {e1}
OneAppender == {a1}
OneRewinder == {w1}
NoFaults == {}
AllButRead == FaultKinds \ {"metaread"}
=============================================================================
