------------------------- MODULE MCKnowledgeSources -------------------------
EXTENDS KnowledgeSources, TLC

Symmetric == Permutations(Worker)
=============================================================================
