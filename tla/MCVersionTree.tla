--------------------------- MODULE MCVersionTree ---------------------------
EXTENDS VersionTree
=============================================================================
