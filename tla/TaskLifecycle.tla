--------------------------- MODULE TaskLifecycle ---------------------------
(***************************************************************************)
(* What the durable task queue promises the callers of its REST endpoints  *)
(* (task_queue.py): the life of one row of background_tasks, whoever the   *)
(* workers are and however they interleave, crash or lose their leases.    *)
(*                                                                         *)
(*   absent -> queued <-> running -> succeeded                             *)
(*               |          |  \---> dead_letter --> queued (user retry)   *)
(*               \--------- \------> cancelled  --> queued (user retry)    *)
(***************************************************************************)
CONSTANT Task     \* the idempotency keys tasks are enqueued under

VARIABLE status   \* status[t]: the status column of t's row, or "absent"

Statuses == {"absent", "queued", "running", "succeeded", "dead_letter", "cancelled"}

Settled == {"succeeded", "dead_letter", "cancelled"}

\* The changes of status one task may see.
Allowed ==
  {<<"absent", "queued">>,
   <<"queued", "running">>, <<"queued", "cancelled">>,
   <<"running", "queued">>, <<"running", "succeeded">>,
   <<"running", "dead_letter">>, <<"running", "cancelled">>,
   <<"dead_letter", "queued">>, <<"cancelled", "queued">>}

Init == status = [t \in Task |-> "absent"]

Move(t) ==
  \E s \in Statuses :
    /\ <<status[t], s>> \in Allowed
    /\ status' = [status EXCEPT ![t] = s]

\* A starting worker requeues, in one UPDATE, running rows whose lease ran out.
RequeueAll(T) ==
  /\ \A t \in T : status[t] = "running"
  /\ status' = [t \in Task |-> IF t \in T THEN "queued" ELSE status[t]]

Next == \/ \E t \in Task : Move(t)
        \/ \E T \in SUBSET Task : RequeueAll(T)

Spec == Init /\ [][Next]_status

=============================================================================
