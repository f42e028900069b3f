--------------------------- MODULE MCKnowledgeGraph -------------------------
(* Instances of KnowledgeGraph for TLC. *)
EXTENDS KnowledgeGraph, TLC

CONSTANTS d1, d2, p1, p2, c1, c2, w1, w2

Symmetric == Permutations({d1, d2}) \cup Permutations({p1, p2})
             \cup Permutations({c1, c2}) \cup Permutations({w1, w2})

=============================================================================
