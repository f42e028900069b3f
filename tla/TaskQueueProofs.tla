-------------------------- MODULE TaskQueueProofs --------------------------
(***************************************************************************)
(* Proofs about TaskQueue for any tasks, workers and bounds.               *)
(***************************************************************************)
EXTENDS TaskQueue, TLAPS

-----------------------------------------------------------------------------
(* The inductive invariant. *)

\* A worker holds a task exactly while it is between a claim and its outcome.
HoldsIffBusy == \A w \in Worker : cur[w] = NoTask <=> pc[w] \in {"down", "idle"}

\* While undisturbed, only a running or cancelled row has a worker on it.
HeldIsRunning ==
  \A w \in Worker :
    cur[w] \in Task \ disturbed => status[cur[w]] \in {"running", "cancelled"}

\* What fail read is still true when it writes, unless the task was disturbed.
VerdictCurrent ==
  \A w \in Worker :
    pc[w] = "deciding" /\ cur[w] \notin disturbed =>
      (verdict[w] = "dead_letter" <=> attempts[cur[w]] >= MaxAttempts)

\* A worker about to report success ran the handler.
ReturnedWorked == \A w \in Worker : pc[w] = "returned" => cur[w] \in worked

IInv ==
  /\ TypeOK
  /\ LeaseIffRunning
  /\ HoldsIffBusy
  /\ ExclusiveUnlessDisturbed
  /\ HeldIsRunning
  /\ VerdictCurrent
  /\ AttemptsAccounted
  /\ ReturnedWorked
  /\ SucceededWorked

-----------------------------------------------------------------------------
(* Type correctness. *)

LEMMA InitType == Init => TypeOK
  BY NumberAssumption DEF Init, TypeOK, HoldsIffBusy, PCs, NoLease, Lifecycle!Statuses

\* The columns and counters keep their types in every step.
LEMMA TypeStep == TypeOK /\ HoldsIffBusy /\ [Next]_vars => TypeOK'
  <1> SUFFICES ASSUME TypeOK, HoldsIffBusy, [Next]_vars PROVE TypeOK'
    OBVIOUS
  <1> USE TaskAssumption, NumberAssumption, ShapeAssumption
      DEF TypeOK, HoldsIffBusy, PCs, NoLease, Lifecycle!Statuses, rows, workers, history
  <1>1. ASSUME NEW t \in Task, Enqueue(t) PROVE TypeOK'
    BY <1>1 DEF Enqueue
  <1>2. ASSUME NEW t \in Task, Cancel(t) PROVE TypeOK'
    BY <1>2 DEF Cancel, Leave
  <1>3. ASSUME NEW t \in Task, Retry(t) PROVE TypeOK'
    BY <1>3 DEF Retry, Leave, Held
  <1>4. CASE Tick
    BY <1>4 DEF Tick, Less
  <1>5. ASSUME NEW w \in Worker, Start(w) PROVE TypeOK'
    BY <1>5 DEF Start, Expired
  <1>6. ASSUME NEW w \in Worker, NEW t \in Task, Claim(w, t) PROVE TypeOK'
    BY <1>6 DEF Claim, Claimable, Expired
  <1>7. ASSUME NEW w \in Worker, NoHandler(w) PROVE TypeOK'
    BY <1>7 DEF NoHandler
  <1>8. ASSUME NEW w \in Worker, CheckCancelled(w) PROVE TypeOK'
    BY <1>8 DEF CheckCancelled, Release
  <1>9. ASSUME NEW w \in Worker, Heartbeat(w) PROVE TypeOK'
    BY <1>9 DEF Heartbeat
  <1>10. ASSUME NEW w \in Worker, HandlerReturns(w) PROVE TypeOK'
    BY <1>10 DEF HandlerReturns
  <1>11. ASSUME NEW w \in Worker, HandlerRaises(w) PROVE TypeOK'
    BY <1>11 DEF HandlerRaises
  <1>12. ASSUME NEW w \in Worker, Succeed(w) PROVE TypeOK'
    BY <1>12 DEF Succeed, StillRunning, Leave, Release
  <1>13. ASSUME NEW w \in Worker, FailRead(w) PROVE TypeOK'
    BY <1>13 DEF FailRead, Decision, Spent, Release
  <1>14. ASSUME NEW w \in Worker, FailWrite(w) PROVE TypeOK'
    BY <1>14 DEF FailWrite, StillRunning, Leave, Release
  <1>15. ASSUME NEW w \in Worker, Exit(w) PROVE TypeOK'
    BY <1>15 DEF Exit, Fault
  <1>16. ASSUME NEW w \in Worker, DatabaseError(w) PROVE TypeOK'
    BY <1>16 DEF DatabaseError, Fault, Release
  <1>17. CASE UNCHANGED vars
    BY <1>17 DEF vars
  <1> HIDE DEF TypeOK
  <1>18. QED
    BY <1>1, <1>2, <1>3, <1>4, <1>5, <1>6, <1>7, <1>8, <1>9, <1>10, <1>11, <1>12, <1>13, <1>14, <1>15, <1>16, <1>17, Zenon DEF Next, RunOnce

-----------------------------------------------------------------------------
(* Invariance. *)

LEMMA InitInv == Init => IInv
  BY InitType, TaskAssumption, NumberAssumption DEF Init, IInv, LeaseIffRunning, HoldsIffBusy, ExclusiveUnlessDisturbed,
     HeldIsRunning, VerdictCurrent, AttemptsAccounted, ReturnedWorked, SucceededWorked, NoLease, TypeOK

\* One step per action; each preserves every part of the invariant.
LEMMA StepInv == IInv /\ [Next]_vars => IInv'
  <1> SUFFICES ASSUME IInv, [Next]_vars PROVE IInv'
    OBVIOUS
  <1>0. TypeOK /\ TypeOK'
    BY TypeStep DEF IInv
  <1> USE <1>0, TaskAssumption, NumberAssumption, ShapeAssumption
      DEF IInv, NoLease, PCs, Lifecycle!Statuses, rows, workers, history, TypeOK,
          LeaseIffRunning, HoldsIffBusy, ExclusiveUnlessDisturbed, HeldIsRunning, VerdictCurrent, AttemptsAccounted, ReturnedWorked, SucceededWorked
  <1>1. ASSUME NEW t \in Task, Enqueue(t) PROVE IInv'
    BY <1>1 DEF Enqueue
  <1>2. ASSUME NEW t \in Task, Cancel(t) PROVE IInv'
    BY <1>2 DEF Cancel, Leave
  <1>3. ASSUME NEW t \in Task, Retry(t) PROVE IInv'
    BY <1>3 DEF Retry, Leave, Held
  <1>4. CASE Tick
    BY <1>4 DEF Tick, Less
  <1>5. ASSUME NEW w \in Worker, Start(w) PROVE IInv'
    BY <1>5 DEF Start, Expired
  <1>6. ASSUME NEW w \in Worker, NEW t \in Task, Claim(w, t) PROVE IInv'
    BY <1>6 DEF Claim, Claimable, Expired
  <1>7. ASSUME NEW w \in Worker, NoHandler(w) PROVE IInv'
    BY <1>7 DEF NoHandler
  <1>8. ASSUME NEW w \in Worker, CheckCancelled(w) PROVE IInv'
    BY <1>8 DEF CheckCancelled, Release
  <1>9. ASSUME NEW w \in Worker, Heartbeat(w) PROVE IInv'
    BY <1>9 DEF Heartbeat
  <1>10. ASSUME NEW w \in Worker, HandlerReturns(w) PROVE IInv'
    BY <1>10 DEF HandlerReturns
  <1>11. ASSUME NEW w \in Worker, HandlerRaises(w) PROVE IInv'
    BY <1>11 DEF HandlerRaises
  <1>12. ASSUME NEW w \in Worker, Succeed(w) PROVE IInv'
    BY <1>12 DEF Succeed, StillRunning, Leave, Release
  <1>13. ASSUME NEW w \in Worker, FailRead(w) PROVE IInv'
    BY <1>13 DEF FailRead, Decision, Spent, Release
  <1>14. ASSUME NEW w \in Worker, FailWrite(w) PROVE IInv'
    <2> USE <1>14 DEF FailWrite, StillRunning, Leave, Release
    <2>1. LeaseIffRunning'
      OBVIOUS
    <2>2. HoldsIffBusy'
      OBVIOUS
    <2>3. ExclusiveUnlessDisturbed'
      OBVIOUS
    <2>4. HeldIsRunning'
      OBVIOUS
    <2>5. VerdictCurrent'
      OBVIOUS
    <2>6. AttemptsAccounted'
      BY SMTT(30)
    <2>7. ReturnedWorked'
      OBVIOUS
    <2>8. SucceededWorked'
      OBVIOUS
    <2>. QED
      BY <2>1, <2>2, <2>3, <2>4, <2>5, <2>6, <2>7, <2>8
  <1>15. ASSUME NEW w \in Worker, Exit(w) PROVE IInv'
    BY <1>15 DEF Exit, Fault
  <1>16. ASSUME NEW w \in Worker, DatabaseError(w) PROVE IInv'
    BY <1>16 DEF DatabaseError, Fault, Release
  <1>17. CASE UNCHANGED vars
    BY <1>17 DEF vars, LeaseIffRunning, HoldsIffBusy, ExclusiveUnlessDisturbed, HeldIsRunning, VerdictCurrent, AttemptsAccounted, ReturnedWorked, SucceededWorked
  <1> HIDE DEF IInv
  <1>. QED
    BY <1>1, <1>2, <1>3, <1>4, <1>5, <1>6, <1>7, <1>8, <1>9, <1>10, <1>11, <1>12, <1>13, <1>14, <1>15, <1>16, <1>17, Zenon DEF Next, RunOnce

LEMMA Invariance == Spec => []IInv
  BY InitInv, StepInv, PTL DEF Spec

-----------------------------------------------------------------------------
(* The results. *)

\* The state of the queue and its workers is always well formed.
THEOREM TypeCorrect == Spec => []TypeOK
  BY Invariance, PTL DEF IInv

\* A row has a lease exactly while it is running, so no running row can be
\* missed by both claim and recover_expired.
THEOREM LeaseTheorem == Spec => []LeaseIffRunning
  BY Invariance, PTL DEF IInv

\* Leases exclude: two workers share a task only after its lease ran out or a
\* user retried it under a busy worker.
THEOREM ExclusionTheorem == Spec => []ExclusiveUnlessDisturbed
  BY Invariance, PTL DEF IInv

\* max_attempts is exact for every undisturbed task.
THEOREM AttemptsTheorem == Spec => []AttemptsAccounted
  BY Invariance, PTL DEF IInv

\* Success is only reported after a handler returned.
THEOREM SuccessTheorem == Spec => []SucceededWorked
  BY Invariance, PTL DEF IInv

-----------------------------------------------------------------------------
(* Refinement: the status column behaves as TaskLifecycle says. *)

\* An allowed change of one row is a step of the lifecycle.
LEMMA OneMove ==
  ASSUME NEW t \in Task, NEW s \in Lifecycle!Statuses,
         <<status[t], s>> \in Lifecycle!Allowed,
         status' = [status EXCEPT ![t] = s]
  PROVE  Lifecycle!Next
  BY DEF Lifecycle!Next, Lifecycle!Move

\* Every step of the queue moves one row along the lifecycle, requeues a set of
\* running rows, or leaves the statuses alone.
LEMMA StepRefines == IInv /\ [Next]_vars => [Lifecycle!Next]_status
  <1> SUFFICES ASSUME IInv, [Next]_vars PROVE [Lifecycle!Next]_status
    OBVIOUS
  <1> USE DEF IInv, TypeOK, Lifecycle!Statuses, Lifecycle!Allowed, rows
  <1>1. ASSUME NEW t \in Task, Enqueue(t) PROVE [Lifecycle!Next]_status
    BY <1>1, OneMove DEF Enqueue
  <1>2. ASSUME NEW t \in Task, Cancel(t) PROVE [Lifecycle!Next]_status
    BY <1>2, OneMove DEF Cancel, Leave
  <1>3. ASSUME NEW t \in Task, Retry(t) PROVE [Lifecycle!Next]_status
    BY <1>3, OneMove DEF Retry, Leave, Held
  <1>4. CASE Tick
    BY <1>4 DEF Tick, Less
  <1>5. ASSUME NEW w \in Worker, Start(w) PROVE [Lifecycle!Next]_status
    <2>1. Lifecycle!RequeueAll({t \in Task : Expired(t)})
      BY <1>5 DEF Start, Expired, Lifecycle!RequeueAll
    <2>. QED
      BY <2>1 DEF Lifecycle!Next
  <1>6. ASSUME NEW w \in Worker, NEW t \in Task, Claim(w, t) PROVE [Lifecycle!Next]_status
    <2>1. <<status[t], "running">> \in Lifecycle!Allowed \/ UNCHANGED status
      BY <1>6 DEF Claim, Claimable, Expired
    <2>. QED
      BY <1>6, <2>1, OneMove DEF Claim
  <1>7. ASSUME NEW w \in Worker, NoHandler(w) PROVE [Lifecycle!Next]_status
    BY <1>7 DEF NoHandler
  <1>8. ASSUME NEW w \in Worker, CheckCancelled(w) PROVE [Lifecycle!Next]_status
    BY <1>8 DEF CheckCancelled, Release
  <1>9. ASSUME NEW w \in Worker, Heartbeat(w) PROVE [Lifecycle!Next]_status
    BY <1>9 DEF Heartbeat
  <1>10. ASSUME NEW w \in Worker, HandlerReturns(w) PROVE [Lifecycle!Next]_status
    BY <1>10 DEF HandlerReturns
  <1>11. ASSUME NEW w \in Worker, HandlerRaises(w) PROVE [Lifecycle!Next]_status
    BY <1>11 DEF HandlerRaises
  <1>12. ASSUME NEW w \in Worker, Succeed(w) PROVE [Lifecycle!Next]_status
    <2>1. CASE status[cur[w]] = "running"
      BY <1>12, <2>1, OneMove, TaskAssumption DEF HoldsIffBusy, Succeed, StillRunning, Leave, Release
    <2>2. CASE status[cur[w]] # "running"
      BY <1>12, <2>2 DEF Succeed, StillRunning, Leave, Release
    <2>. QED
      BY <2>1, <2>2
  <1>13. ASSUME NEW w \in Worker, FailRead(w) PROVE [Lifecycle!Next]_status
    BY <1>13 DEF FailRead, Decision, Spent, Release
  <1>14. ASSUME NEW w \in Worker, FailWrite(w) PROVE [Lifecycle!Next]_status
    <2>1. CASE status[cur[w]] = "running"
      BY <1>14, <2>1, OneMove, TaskAssumption DEF HoldsIffBusy, FailWrite, StillRunning, Leave, Release
    <2>2. CASE status[cur[w]] # "running"
      BY <1>14, <2>2 DEF FailWrite, StillRunning, Leave, Release
    <2>. QED
      BY <2>1, <2>2
  <1>15. ASSUME NEW w \in Worker, Exit(w) PROVE [Lifecycle!Next]_status
    BY <1>15 DEF Exit, Fault
  <1>16. ASSUME NEW w \in Worker, DatabaseError(w) PROVE [Lifecycle!Next]_status
    BY <1>16 DEF DatabaseError, Fault, Release
  <1>17. CASE UNCHANGED vars
    BY <1>17 DEF vars
  <1> HIDE DEF IInv
  <1>. QED
    BY <1>1, <1>2, <1>3, <1>4, <1>5, <1>6, <1>7, <1>8, <1>9, <1>10, <1>11, <1>12, <1>13, <1>14, <1>15, <1>16, <1>17, Zenon DEF Next, RunOnce

\* Whatever the workers do, a row's status moves only as the lifecycle allows:
\* in particular a succeeded row is final.
THEOREM RefinementTheorem == Spec => LifecycleSpec
  <1>1. Init => Lifecycle!Init
    BY DEF Init, Lifecycle!Init
  <1>. QED
    BY <1>1, StepRefines, Invariance, PTL DEF Spec, LifecycleSpec, Lifecycle!Spec

=============================================================================
