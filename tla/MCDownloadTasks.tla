--------------------------- MODULE MCDownloadTasks ---------------------------
(* Instances of DownloadTasks for TLC. *)
EXTENDS DownloadTasks, TLC

CONSTANTS t1, t2, w1, w2

(* Tasks are alike, and so are workers (not used for liveness). *)
Symmetric == Permutations(Tasks) \cup Permutations(Workers)

=============================================================================
