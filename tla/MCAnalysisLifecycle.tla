------------------------ MODULE MCAnalysisLifecycle ------------------------
(* Instances of AnalysisLifecycle for TLC. *)
EXTENDS AnalysisLifecycle, TLC

CONSTANTS w1, w2

WorkerSymmetry == Permutations(Worker)

=============================================================================
