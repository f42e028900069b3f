---------------------------- MODULE MCTaskQueue ----------------------------
(* Instances of TaskQueue for TLC. *)
EXTENDS TaskQueue, TLC

CONSTANTS t1, t2, w1, w2, w3

\* Every worker handles every task; t1 is the more urgent one.
AllHandlers == [w \in Worker |-> Task]
UrgentFirst == [t \in Task |-> IF t = t1 THEN 100 ELSE 50]
EqualPriority == [t \in Task |-> 50]

\* start_task_runtime registers all seven types; task_worker.py's build_worker
\* lacks knowledge.import_history, knowledge.rebuild and knowledge.reindex.  The
\* tasks are of one of those three: only the API process has a handler.
ApiOnly == [w \in Worker |-> IF w = w2 THEN {} ELSE Task]

=============================================================================
