--------------------------- MODULE MCScanPipeline ---------------------------
(* Three files, two workers, channels of one slot: every blocking position  *)
(* of the pipeline is reached.                                              *)
EXTENDS ScanPipeline, TLC

Symmetry == Permutations(File) \cup Permutations(Worker)
=============================================================================
