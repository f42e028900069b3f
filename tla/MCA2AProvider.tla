--------------------------- MODULE MCA2AProvider ---------------------------
(* Instances of A2AProvider for TLC. *)
EXTENDS A2AProvider, TLC

CONSTANTS p1, p2

ProcSymmetry == Permutations(Proc)

=============================================================================
