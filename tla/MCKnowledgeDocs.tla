--------------------------- MODULE MCKnowledgeDocs --------------------------
(* Instances of KnowledgeDocs for TLC. *)
EXTENDS KnowledgeDocs, TLC

CONSTANTS w1

=============================================================================
