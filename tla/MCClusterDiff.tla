--------------------------- MODULE MCClusterDiff ---------------------------
(* Volumes of a few clusters cut into chunks of three, queued two deep:   *)
(* the readers refuse slices, a chunk holds two dirty spans, the writer is  *)
(* full and flushed, for every selection and every set of differences.      *)
EXTENDS ClusterDiff
=============================================================================
