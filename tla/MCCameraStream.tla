--------------------------- MODULE MCCameraStream ---------------------------
(* Small instances of CameraStream. *)
EXTENDS CameraStream, TLC

Symmetry == Permutations(Viewers) \cup Permutations(Streams)
=============================================================================
