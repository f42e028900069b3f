---------------------------- MODULE MCMonitoring ----------------------------
EXTENDS Monitoring, TLC

Symmetric == Permutations(Worker) \cup Permutations(Ticker)
=============================================================================
