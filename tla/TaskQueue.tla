----------------------------- MODULE TaskQueue -----------------------------
(***************************************************************************)
(* The durable task queue (competition/task_queue.py) and the workers that *)
(* drain it: the API process's worker and any standalone task_worker.      *)
(*                                                                         *)
(* A row of background_tasks is identified by its idempotency key, so      *)
(* enqueueing an existing key (enqueue's UNIQUE branch) returns the row    *)
(* and is no step at all.  Each repository call is one SQLite transaction  *)
(* and one action, except fail, which reads the row in one statement and   *)
(* writes it in another.  available_at and lease_until are modelled as     *)
(* the time left until they pass (0: passed), counted down by Tick.        *)
(* Rows of equal priority are claimed in any order (the code orders them   *)
(* by available_at and created_at).                                        *)
(***************************************************************************)
EXTENDS Integers, FiniteSets

CONSTANTS
  Task,              \* idempotency keys
  Worker,            \* worker threads, one per process
  NoTask,            \* what an idle worker holds
  Handlers,          \* Handlers[w]: the tasks whose type w has a handler for
  Priority,          \* Priority[t], larger is claimed first
  MaxAttempts,       \* max_attempts of every row (enqueue clamps it to 1..20)
  LeaseTicks,        \* lease_seconds
  RetryDelay,        \* delay after a failed handler (30 s)
  NoHandlerDelay,    \* delay when no handler is registered (1 s)
  CheckSameThread,   \* TRUE: the connection refuses other threads (db.py:38)
  MaxFaults,         \* bound on process exits and failing database calls
  MaxRetries         \* bound on user retries

ASSUME TaskAssumption == NoTask \notin Task
ASSUME NumberAssumption ==
  /\ MaxAttempts \in Nat \ {0} /\ LeaseTicks \in Nat \ {0}
  /\ RetryDelay \in Nat \ {0} /\ NoHandlerDelay \in Nat \ {0}
  /\ MaxFaults \in Nat /\ MaxRetries \in Nat
ASSUME ShapeAssumption ==
  /\ Handlers \in [Worker -> SUBSET Task]
  /\ Priority \in [Task -> Nat]
  /\ CheckSameThread \in BOOLEAN

VARIABLES
  status, attempts, avail, lease,   \* the columns of background_tasks
  pc,        \* pc[w]: where w is in run_once
  cur,       \* cur[w]: the task w claimed
  verdict,   \* verdict[w]: the status fail() decided on before it writes
  faults, retries,                  \* counters for the bounds
  disturbed, \* history: tasks whose lease was taken over, or retried while held
  worked     \* history: tasks for which some handler returned normally

rows == <<status, attempts, avail, lease>>
workers == <<pc, cur, verdict>>
history == <<disturbed, worked>>
vars == <<rows, workers, faults, retries, history>>

NoLease == -1      \* lease_until IS NULL

\* The columns a caller sees, and nothing else, are those of the abstract queue.
Lifecycle == INSTANCE TaskLifecycle WITH Task <- Task, status <- status

PCs == {"down", "idle", "claimed", "running", "returned", "failing", "deciding"}

TypeOK ==
  /\ status \in [Task -> Lifecycle!Statuses]
  /\ attempts \in [Task -> Nat]
  /\ avail \in [Task -> Nat]
  /\ lease \in [Task -> {NoLease} \cup (0 .. LeaseTicks)]
  /\ pc \in [Worker -> PCs]
  /\ cur \in [Worker -> Task \cup {NoTask}]
  /\ verdict \in [Worker -> {"queued", "dead_letter"}]
  /\ faults \in 0 .. MaxFaults
  /\ retries \in 0 .. MaxRetries
  /\ disturbed \subseteq Task
  /\ worked \subseteq Task

Init ==
  /\ status = [t \in Task |-> "absent"]
  /\ attempts = [t \in Task |-> 0]
  /\ avail = [t \in Task |-> 0]
  /\ lease = [t \in Task |-> NoLease]
  /\ pc = [w \in Worker |-> "down"]
  /\ cur = [w \in Worker |-> NoTask]
  /\ verdict = [w \in Worker |-> "queued"]
  /\ faults = 0 /\ retries = 0
  /\ disturbed = {} /\ worked = {}

-----------------------------------------------------------------------------
(* The callers of the queue: enqueue, cancel and retry endpoints, and time. *)

Held(t) == \E w \in Worker : cur[w] = t

\* Mutant: the lease survives the end of a run.
LeaveLeased(t, s) == status' = [status EXCEPT ![t] = s] /\ UNCHANGED lease

\* What ends a run does to the row: the new status, and no lease any more.
Leave(t, s) ==
  /\ status' = [status EXCEPT ![t] = s]
  /\ lease' = [lease EXCEPT ![t] = NoLease]

Enqueue(t) ==
  /\ status[t] = "absent"
  /\ status' = [status EXCEPT ![t] = "queued"]
  /\ attempts' = [attempts EXCEPT ![t] = 0]
  /\ avail' = [avail EXCEPT ![t] = 0]
  /\ UNCHANGED <<lease, workers, faults, retries, history>>

Cancel(t) ==
  /\ status[t] \in {"queued", "running"}
  /\ Leave(t, "cancelled")
  /\ UNCHANGED <<attempts, avail, workers, faults, retries, history>>

\* retry forgets the attempts; a worker still inside the cancelled run keeps going.
Retry(t) ==
  /\ retries < MaxRetries
  /\ status[t] \in {"dead_letter", "cancelled"}
  /\ Leave(t, "queued")
  /\ attempts' = [attempts EXCEPT ![t] = 0]
  /\ avail' = [avail EXCEPT ![t] = 0]
  /\ retries' = retries + 1
  /\ disturbed' = IF Held(t) THEN disturbed \cup {t} ELSE disturbed \ {t}
  /\ UNCHANGED <<workers, faults, worked>>

Less(n) == IF n > 0 THEN n - 1 ELSE n

Tick ==
  /\ \E t \in Task : avail[t] > 0 \/ lease[t] > 0
  /\ avail' = [t \in Task |-> Less(avail[t])]
  /\ lease' = [t \in Task |-> Less(lease[t])]
  /\ UNCHANGED <<status, attempts, workers, faults, retries, history>>

-----------------------------------------------------------------------------
(* The worker. *)

Expired(t) == status[t] = "running" /\ lease[t] = 0

\* Mutants: running rows are claimed without looking at the lease; expired rows
\* are never claimed again.
ClaimableRunning(t) == status[t] \in {"queued", "running"} /\ avail[t] = 0
ClaimableQueued(t) == status[t] = "queued" /\ avail[t] = 0

Claimable(t) == (status[t] = "queued" /\ avail[t] = 0) \/ Expired(t)

\* start: requeue what crashed workers left behind, then begin polling.
Start(w) ==
  /\ pc[w] = "down"
  /\ pc' = [pc EXCEPT ![w] = "idle"]
  /\ status' = [t \in Task |-> IF Expired(t) THEN "queued" ELSE status[t]]
  /\ avail' = [t \in Task |-> IF Expired(t) THEN 0 ELSE avail[t]]
  /\ lease' = [t \in Task |-> IF Expired(t) THEN NoLease ELSE lease[t]]
  /\ disturbed' = disturbed \cup {t \in Task : Expired(t)}
  /\ UNCHANGED <<attempts, cur, verdict, faults, retries, worked>>

\* claim: BEGIN IMMEDIATE; the row of the highest priority.  Neither the owner
\* is recorded nor attempts compared with max_attempts.
Claim(w, t) ==
  /\ pc[w] = "idle"
  /\ Claimable(t)
  /\ \A u \in Task : Claimable(u) => Priority[u] <= Priority[t]
  /\ status' = [status EXCEPT ![t] = "running"]
  /\ attempts' = [attempts EXCEPT ![t] = @ + 1]
  /\ lease' = [lease EXCEPT ![t] = LeaseTicks]
  /\ pc' = [pc EXCEPT ![w] = "claimed"]
  /\ cur' = [cur EXCEPT ![w] = t]
  /\ disturbed' = IF Expired(t) THEN disturbed \cup {t} ELSE disturbed
  /\ UNCHANGED <<avail, verdict, faults, retries, worked>>

Release(w) ==
  /\ pc' = [pc EXCEPT ![w] = "idle"]
  /\ cur' = [cur EXCEPT ![w] = NoTask]

\* No handler registered for the task's type: fail it.
NoHandler(w) ==
  /\ pc[w] = "claimed" /\ cur[w] \notin Handlers[w]
  /\ pc' = [pc EXCEPT ![w] = "failing"]
  /\ UNCHANGED <<rows, cur, verdict, faults, retries, history>>

\* is_cancelled before the handler.
CheckCancelled(w) ==
  /\ pc[w] = "claimed" /\ cur[w] \in Handlers[w]
  /\ IF status[cur[w]] = "cancelled"
       THEN Release(w)
       ELSE pc' = [pc EXCEPT ![w] = "running"] /\ UNCHANGED cur
  /\ UNCHANGED <<rows, verdict, faults, retries, history>>

\* heartbeat_loop runs in a thread of its own on the connection the worker's
\* thread opened.  With check_same_thread the call raises and is swallowed.
Heartbeat(w) ==
  /\ pc[w] = "running"
  /\ ~CheckSameThread
  /\ status[cur[w]] = "running"
  /\ lease' = [lease EXCEPT ![cur[w]] = LeaseTicks]
  /\ UNCHANGED <<status, attempts, avail, workers, faults, retries, history>>

HandlerReturns(w) ==
  /\ pc[w] = "running"
  /\ pc' = [pc EXCEPT ![w] = "returned"]
  /\ worked' = worked \cup {cur[w]}
  /\ UNCHANGED <<rows, cur, verdict, faults, retries, disturbed>>

\* Mutant: a handler's exception is swallowed and taken for a result.
HandlerSwallows(w) ==
  /\ pc[w] = "running"
  /\ pc' = [pc EXCEPT ![w] = "returned"]
  /\ UNCHANGED <<rows, cur, verdict, faults, retries, history>>

HandlerRaises(w) ==
  /\ pc[w] = "running"
  /\ pc' = [pc EXCEPT ![w] = "failing"]
  /\ UNCHANGED <<rows, cur, verdict, faults, retries, history>>

\* Mutant: the UPDATEs without their AND status = 'running'.
StillRunningAlways(t) == status[t] # "absent"

\* The condition of the UPDATEs of succeed and fail: any running row, whichever
\* worker's run it is.
StillRunning(t) == status[t] = "running"

\* is_cancelled after the handler, then succeed's UPDATE ... status = 'running'.
Succeed(w) ==
  /\ pc[w] = "returned"
  /\ IF StillRunning(cur[w]) THEN Leave(cur[w], "succeeded") ELSE UNCHANGED <<status, lease>>
  /\ Release(w)
  /\ UNCHANGED <<attempts, avail, verdict, faults, retries, history>>

\* Mutant: one attempt too many.
SpentLate(t) == attempts[t] > MaxAttempts

Spent(t) == attempts[t] >= MaxAttempts

Decision(t) == IF Spent(t) THEN "dead_letter" ELSE "queued"

\* fail, first statement: read the row and decide.
FailRead(w) ==
  /\ pc[w] = "failing"
  /\ IF status[cur[w]] = "cancelled"
       THEN Release(w) /\ UNCHANGED verdict
       ELSE /\ pc' = [pc EXCEPT ![w] = "deciding"]
            /\ verdict' = [verdict EXCEPT ![w] = Decision(cur[w])]
            /\ UNCHANGED cur
  /\ UNCHANGED <<rows, faults, retries, history>>

\* fail, second statement: UPDATE ... WHERE status = 'running'.
FailWrite(w) ==
  LET t == cur[w] IN
  /\ pc[w] = "deciding"
  /\ IF StillRunning(t)
       THEN /\ Leave(t, verdict[w])
            /\ avail' = [avail EXCEPT ![t] =
                 IF t \in Handlers[w] THEN RetryDelay ELSE NoHandlerDelay]
       ELSE UNCHANGED <<status, avail, lease>>
  /\ Release(w)
  /\ verdict' = [verdict EXCEPT ![w] = "queued"]
  /\ UNCHANGED <<attempts, faults, retries, history>>

-----------------------------------------------------------------------------
(* Faults. *)

Fault == faults < MaxFaults /\ faults' = faults + 1

\* The process dies, or stop() gives up waiting for the handler and exits.
Exit(w) ==
  /\ Fault
  /\ pc[w] # "down"
  /\ pc' = [pc EXCEPT ![w] = "down"]
  /\ cur' = [cur EXCEPT ![w] = NoTask]
  /\ verdict' = [verdict EXCEPT ![w] = "queued"]
  /\ UNCHANGED <<rows, retries, history>>

\* A repository call raises: run_once fails the task, even one whose handler
\* returned; when it is fail that raises, the row is left running.
DatabaseError(w) ==
  /\ Fault
  /\ \/ /\ pc[w] = "returned"
        /\ pc' = [pc EXCEPT ![w] = "failing"]
        /\ UNCHANGED <<cur, verdict>>
     \/ /\ pc[w] \in {"claimed", "failing", "deciding"}
        /\ Release(w)
        /\ verdict' = [verdict EXCEPT ![w] = "queued"]
  /\ UNCHANGED <<rows, retries, history>>

-----------------------------------------------------------------------------
RunOnce(w) ==
  \/ \E t \in Task : Claim(w, t)
  \/ NoHandler(w) \/ CheckCancelled(w)
  \/ HandlerReturns(w) \/ HandlerRaises(w)
  \/ Succeed(w) \/ FailRead(w) \/ FailWrite(w)

Next ==
  \/ \E t \in Task : Enqueue(t) \/ Cancel(t) \/ Retry(t)
  \/ \E w \in Worker : Start(w) \/ RunOnce(w) \/ Heartbeat(w) \/ Exit(w) \/ DatabaseError(w)
  \/ Tick

Spec == Init /\ [][Next]_vars

\* The loop of every live worker keeps turning, a worker that is down is
\* restarted, handlers return or raise, and time passes.  Users, heartbeats
\* and faults are not fair.
Fairness ==
  /\ WF_vars(Tick)
  /\ \A w \in Worker : WF_vars(Start(w)) /\ WF_vars(RunOnce(w))

FairSpec == Spec /\ Fairness

-----------------------------------------------------------------------------
(* Properties. *)

\* A row has a lease exactly while it is running (claim, succeed, fail, cancel,
\* retry and recover_expired all agree on it): a running row without a lease
\* would match neither branch of claim nor recover_expired, and be lost.
LeaseIffRunning == \A t \in Task : status[t] = "running" <=> lease[t] # NoLease

\* Two workers are inside run_once with the same task only if its lease ran out
\* or a user retried it while a worker was still busy with the cancelled run.
ExclusiveUnlessDisturbed ==
  \A t \in Task \ disturbed : \A v, w \in Worker : cur[v] = t /\ cur[w] = t => v = w

\* Without such a disturbance a task is requeued only while attempts are left,
\* never attempted more than max_attempts times, and dead-lettered only when
\* all of them are spent, although fail decides on a row it read earlier.
AttemptsAccounted ==
  \A t \in Task \ disturbed :
    /\ status[t] = "queued" => attempts[t] < MaxAttempts
    /\ status[t] = "running" => attempts[t] \in 1 .. MaxAttempts
    /\ status[t] = "dead_letter" => attempts[t] = MaxAttempts

\* A task is reported succeeded only after a handler returned for it, whatever
\* late, crashed or cancelled runs there were besides.
SucceededWorked == \A t \in Task : status[t] = "succeeded" => t \in worked

\* Every status change is one the lifecycle allows: a succeeded row is final, and
\* no late worker revives a cancelled or dead-lettered one.
LifecycleSpec == Lifecycle!Spec

\* Whatever crashes (finitely often) and however leases run out, an accepted
\* task is eventually settled.
EventuallySettled ==
  \A t \in Task : status[t] \in {"queued", "running"} ~> status[t] \in Lifecycle!Settled

\* task_queue.py:4-6: "multiple API processes can share the same database
\* without executing one task twice".
NoDoubleExecution ==
  \A v, w \in Worker : pc[v] = "running" /\ pc[w] = "running" /\ cur[v] = cur[w] => v = w

\* task_worker.py:16: the standalone worker has "the same handlers used by the
\* FastAPI process": no worker holds a claimed task it cannot run.
ClaimedHasHandler ==
  \A w \in Worker : pc[w] = "failing" => cur[w] \in Handlers[w]

=============================================================================
